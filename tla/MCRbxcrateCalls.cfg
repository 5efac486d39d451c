\* Three calls about one id, each of up to three requests and three more as a preorder.
SPECIFICATION Spec
CONSTANTS
    c1 = c1
    c2 = c2
    c3 = c3
    Calls = {c1, c2, c3}
    MAX_ATTEMPTS = 3
    NoCall = NoCall
SYMMETRY MCSymmetry
\* Every call may have been made.
CHECK_DEADLOCK FALSE
INVARIANTS
    AcceptedIsOurs
    CancelledIsOurs

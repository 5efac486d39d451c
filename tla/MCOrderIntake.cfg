\* One Roblox user, with and without its identity; two coroutines, two orders and two copies.
SPECIFICATION Spec
CONSTANTS
    t1 = t1
    t2 = t2
    u1 = u1
    Tasks = {t1, t2}
    Names = {"name"}
    Requests <- MCRequests
    Place = p1
    Places = {p1, p2}
    MaxCreated = 2
    MaxCopies = 2
    MaxMoves = 1
    NoUid = NoUid
    NoTask = NoTask
SYMMETRY MCSymmetry
\* Every order may be finished and no further one allowed by the bounds.
CHECK_DEADLOCK FALSE
INVARIANTS
    OneCustomerPerName
    OneRetryIsEnough
    RepeatNeverDuplicates
    PlaceHistoryIsComplete
PROPERTIES
    NoDraftBesidePurchase

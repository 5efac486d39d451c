\* Two usernames, one update at a time: the operator need not be quick to be misled.
SPECIFICATION Spec
CONSTANTS
    Tasks = {t1}
    Names = {a, b}
    NoName = NoName
CHECK_DEADLOCK FALSE
INVARIANTS
    IdentityIsVerified

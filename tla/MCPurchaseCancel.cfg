\* A confirmed cancellation the database refuses.
SPECIFICATION Spec
CONSTANTS
    o1 = o1
    t1 = t1
    t2 = t2
    Orders = {o1}
    Tasks = {t1, t2}
    MaxRequeues = 1
    NoTask = NoTask
    NoId = NoId
\* Every order may be finished and nothing left to do.
CHECK_DEADLOCK FALSE
INVARIANTS
    CancelCanCommit

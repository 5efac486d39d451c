\* Safety, refinement and liveness: two coroutines, one Client Order, two replacements.
SPECIFICATION FairSpec
CONSTANTS
    o1 = o1
    t1 = t1
    t2 = t2
    Orders = {o1}
    Tasks = {t1, t2}
    MaxRequeues = 2
    NoTask = NoTask
    NoId = NoId
\* Every order may be finished and nothing left to do.
CHECK_DEADLOCK FALSE
INVARIANTS
    TypeOK
    OneActiveAttempt
    PurchasingIsBacked
    FinishedIsSettled
    LocalMatchesRemote
    OneLivePurchase
    CreationIsRecordable
PROPERTIES
    LatePurchasesAreStray
    FinishedStaysFinished
    ImplementsLifecycle
    DeliveredIsBooked

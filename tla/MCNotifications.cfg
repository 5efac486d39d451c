\* Two notifications, read one at a time by two passes, with a failed commit and a restart.
SPECIFICATION Spec
CONSTANTS
    MaxRows = 2
    MaxFailures = 1
    MaxRestarts = 1
    MaxVolume = 2
    BatchLimit = 1
\* Every notification may be decided and the bounds reached.
CHECK_DEADLOCK FALSE
INVARIANTS
    RepeatsAreInterruptions
    AlertsAreSpaced
    StockAlertsAreSpaced
PROPERTIES
    EachIsDecided

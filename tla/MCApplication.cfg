\* At most two passes raise.
SPECIFICATION ProcessSpec
CONSTANTS
    MaxFailures = 2
INVARIANTS
    AutomationIsConnected
    ClientsAreClosed
PROPERTIES
    ShutdownCompletes
    EveryTimerIsServed

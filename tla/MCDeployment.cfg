\* Rows of every version, one kill, two downgrades; two tasks edit the settings.
SPECIFICATION Spec
CONSTANTS
    o1 = o1
    t1 = t1
    t2 = t2
    Orders = {o1}
    Tasks = {t1, t2}
    NoTask = NoTask
    NoRow = NoRow
    Absent = Absent
    Refused = Refused
    Defaults <- MCDefaults
    Edits <- MCEdits
    Toggles = {"order_status"}
    Commissions = {100, 3000, 10001}
    Rates = {40, 50}
    MaxCrashes = 1
    MaxDowngrades = 2
INVARIANTS
    CommissionConvertedOnce
    SubscriptionsSurvive
PROPERTIES
    StartupCompletes
    UpgradeKeepsRates
    EditRefusedOnlyForItself

\* Two orders, automation and the operator, a limit of three attempts in a window of two units; the
\* first purchases waited up to one unit for their orders' rows.
SPECIFICATION Spec
CONSTANTS
    o1 = o1
    o2 = o2
    automation = automation
    operator = operator
    Orders = {o1, o2}
    Tasks = {automation, operator}
    Automation = automation
    MaxTime = 3
    MaxWait = 1
    FreshGuard = 1
    Cooldown = 1
    Backoff <- MCBackoff
    Window = 2
    DelayTiers <- MCDelayTiers
    NoTime = NoTime
    NoTask = NoTask
SYMMETRY MCSymmetry
INVARIANTS
    AnswerIsCurrent
PROPERTIES
    AutomaticWithinLimit
    AutomaticIsSpaced

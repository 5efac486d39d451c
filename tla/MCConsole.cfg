\* Two orders, of which one is edited to another amount; two taps or messages at once.
SPECIFICATION Spec
CONSTANTS
    o1 = o1
    o2 = o2
    Tasks = {t1, t2}
    Orders = {o1, o2}
    a1 = a1
    a2 = a2
    Ids = {a1, a2}
    Amounts <- MCAmounts
    NoTask = NoTask
    None = None
SYMMETRY MCSymmetry
INVARIANTS
    BoughtAsOrdered
    AmountIsForOrder
PROPERTIES
    OfferedIsAccepted

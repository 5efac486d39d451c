\* Every plan over three orders, and every way to carry it out.
SPECIFICATION Spec
CONSTANTS
    Orders = {1, 2, 3}
    Sizes = {1, 2, 3}
    Stocks <- MCStocks
    Rates = {1, 2}
    MinRate = 1
\* The pass ends when every planned order is started.
CHECK_DEADLOCK FALSE
INVARIANTS
    PlanIsMaximal
    OneTierIsOptimal
    PlanCarriesOver

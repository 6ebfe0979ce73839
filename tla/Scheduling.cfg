SPECIFICATION Spec
INVARIANTS
    BudgetsFit
    WritesReserved
    DiskWithinBudget
    StateExact
PROPERTIES
    FencedServiceRefined
    OvertakesNone
    Settles
CHECK_DEADLOCK FALSE

SPECIFICATION FairSpec
CONSTANTS
    MaxTasks = 4
    CounterMax = 3
    Budgets <- MCBudgets
    None = None
INVARIANTS
    RightStack
    OneRunning
    FencesFired
    BudgetBound
    HolderRuns
    BoundedWait
PROPERTY EveryTaskRuns

SPECIFICATION FairSpec
CONSTANTS
    MaxTasks = 2
    CounterMax = 3
    Budgets <- MCBudgets
    None = None
PROPERTY EveryTickCharged

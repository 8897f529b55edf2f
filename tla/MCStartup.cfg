SPECIFICATION Spec
CONSTANTS
    Base <- MCBase
    Files <- MCFiles
    Flags <- MCFlags
    Apps = {"a", "b"}
    Rate = 3
    Per = 2
    MaxDeployments = 3
    MaxNamespaces = 2
    MaxServices = 3
    MaxBudget = 6
    MaxEvents = 5
    MaxTicks = 3
INVARIANTS ScenarioIsResolved BudgetIsSpent NamesAreDistinct RetentionIsExact EventsAreAnnounced
CHECK_DEADLOCK FALSE

SPECIFICATION DeskSpec
CONSTANTS
    None = None
    Blank = Blank
    Cases <- ThreeCases
    Governable = {}
    Owners <- OneOwner
    Targets = {"Recovered", "Failed"}
    Reasons <- ClearOrSet
    Amounts = {7200}
    Sources = {"billing", "manual"}
    MaxBurst = 2
    MaxRenders = 3
    MaxEdits = 2
    EditsAt <- FewEdits
    IdsAt <- FewIds
    MaxIds = 4
    MaxLost = 1
    MaxLoads = 1
    Files <- RowFiles
    Forms <- SomeForms
    DefaultForm <- AtOpening
    Thresholds = {29, 41}
    MaxPicks = 2
    MaxRuns = 2
INVARIANT
    ResultKnowsNoPayment
CHECK_DEADLOCK FALSE

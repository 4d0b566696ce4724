SPECIFICATION Spec
CONSTANTS
    NoData = NoData
    NoScore = NoScore
    Bad = Bad
    Nobody = "no one"
    Grades = {good, better}
    Days = {mon, tue}
    Outside = {tue}
    Grants <- MCGrants
    Last = 2
    Learners = {"luz", "paz"}
    Occupied = {"paz"}
    Gone = {"luz"}
    Seats = 2
    Logins <- MCLogins
    UserThreshold = 2
    IpThreshold = 3
    Newcomers = {"ana", "ben"}
    Twins = {"ben"}
    Files <- MCFiles
    Places = 1
    Requests = {"r1", "r2"}
    Of <- MCOf
    MaxCalls = 2
    MaxFaults = 1
    MaxOthers = 1
    MaxTyped = 2
    MaxVisits = 2
    MaxChanges = 2
    MaxRuns = 4
    MaxTries = 3
    MaxOpens = 2
    MaxSends = 2
    MaxBatches = 2
    MaxSubmits = 3
    MaxOdd = 1
    MaxImports = 2
    MaxRows = 3
    MaxPayments = 1
INVARIANTS
    ShowsOwnChanges ShowsTheServer LobbyKeepsItsWord WizardsKeepTheirWord
    OffersWhatOpens SavedOnce EnteredForThem RefusedForTheAcademy MoneyAddsUp
PROPERTIES TypingIsKept OwnAnswer
CHECK_DEADLOCK FALSE

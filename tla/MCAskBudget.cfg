SPECIFICATION BSpec
CONSTANTS
    q1 = q1
    q2 = q2
    q3 = q3
    Requests <- MCRequests
    MaxConcurrent = 2
    Limit = 5
    Window = 2
    Want = 2
    Slack = 1
INVARIANTS
    ReservedIsRunning
    TotalIsPast
    HourlyCeiling
PROPERTY
    SlotsReturn

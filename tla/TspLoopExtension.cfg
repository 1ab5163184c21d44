SPECIFICATION Spec
CONSTANTS
    a = a
    b = b
    Instance <- MCInstance
    Positions <- MCPositions
    MinDelay = 1
    Horizon = 1
    TruncationEta = 1
    Margin = 0
    Debounce = 1
    MaxRequests = 1
    MaxAnswers = 1
    MaxInherited = 2
    Plan <- MCPlan
    Dt = 1
    MaxExtension = 1
INVARIANTS ExtensionAsked

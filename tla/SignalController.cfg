SPECIFICATION FairSpec
CONSTANTS
    Plan <- MCPlan
    Dt = 5
    MaxExtension = 10
    Requested = {0, 1}
    Strategies = {"phase_call", "green_extension", "red_truncation"}
INVARIANTS SignalInv PromiseKept
PROPERTIES MinGreenServed ClearanceKept NeverPutOff EveryPhaseServed

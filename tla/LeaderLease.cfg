SPECIFICATION FairSpec
CONSTANTS
    a = a
    b = b
    NoProc = NoProc
    Proc <- MCProc
    LeaseDuration = 2
    MaxFaults = 3
INVARIANTS LeaseInv NoSharedEpoch
PROPERTIES ImplementsFencedRole CurrentLeaseRespected FirstEvaluationTold DeposedLearns Settles

CONSTANTS
    t1 = t1 t2 = t2 r1 = r1 r2 = r2 None = None
    Train = {t1, t2} Seed = "o1" Alarm = {"al"} Operator = {"o1", "o2"}
    LoopLength = 10 MinGap = 2 Margin = 1
    Start <- MCStart Sections <- MCSections
    SimRates = {0, 1, 3} HoldThreshold = 1 LogCap = 3 MaxCommands = 3
SPECIFICATION Spec
INVARIANTS ConsoleInv OfferedAccepted
PROPERTIES ReleaseVerified NoRunThrough TrainsRunAgain

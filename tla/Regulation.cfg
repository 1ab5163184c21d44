CONSTANTS
    t1 = t1 t2 = t2
    Trains <- MCTrains Run <- MCRun Stops = {1, 2, 3} Begins <- MCBegins
    Step = 10 Beat = 5 Period = 10 StaleAfter = 7 Surges = {60}
    MaxTicks = 12 MaxSurges = 1 MaxFaults = 2
SPECIFICATION Spec
INVARIANTS RegulationInv
PROPERTIES StopsServed OneStopOnly
CHECK_DEADLOCK FALSE

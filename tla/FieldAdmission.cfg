SPECIFICATION Spec
CONSTANTS
    Src <- MCSrc
    Flaws <- MCFlaws
    Reported <- MCReported
    MaxAge = 1
    IdCacheSize = 1
    RateLimit = 2
    MaxClock = 3
    MaxSeq = 3
    MaxWire = 2
INVARIANTS FieldInv NewestAccepted
PROPERTIES HealthNeverGoesBack ImplementsOrderedFeed

SPECIFICATION FairSpec
CONSTANTS
    a = a
    b = b
    S11 = S11
    S12 = S12
    S13 = S13
    S14 = S14
    S15 = S15
    S16 = S16
    S17 = S17
    S99 = S99
    AnaCosta = AnaCosta
    FGlicerio = FGlicerio
    CamposMello = CamposMello
    JoaoPessoa = JoaoPessoa
    Constituicao = Constituicao
    NoCrossing = NoCrossing
    Nobody = Nobody
    Section <- MCSection
    Crossing <- MCCrossing
    NextOf <- MCNextOf
    CrossingOf <- MCCrossingOf
    Instance <- MCInstance
    Detections <- MCDetections
    Disturbances = {"crash", "depose", "panel"}
    MaxFaults = 1
    MaxInbox = 1
    MaxBacklog = 2
INVARIANTS NoOrphanInhibition HotStandbyAgrees PanelAgrees
PROPERTIES OnlyOperatorReopens IncidentsShown

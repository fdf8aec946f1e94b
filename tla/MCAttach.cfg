SPECIFICATION Spec
CONSTANTS
    Texts <- MCTexts
    NoFile = NoFile
    MaxText = 4
    Process = {p1, p2}
    Places <- MCPlaces
    Environment <- MCEnvironment
    Files = {}
    Registry <- MCRegistry
    MaxVersion = 2
    MaxStarts = 3
INVARIANTS
    InfoIsGenuine
    CacheIsWhole
    SidesAgree
    AccelerationFitsDriver
CHECK_DEADLOCK FALSE

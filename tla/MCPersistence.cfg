SPECIFICATION Spec
CONSTANTS
    Bits = {0, 1}
    FLASH_SZ = 8
    SECTOR = 4
    PAGE = 2
    CHUNK = 2
    UINT32 = 16
    SCRATCH = 5
    Files <- MCFiles
    Requests <- MCRequests
    FactoryFlash <- MCFactory
    MaxRequests = 2
    Texts <- MCTexts
    Broken <- MCBroken
    FirstText <- MCFirst
    MaxMishaps = 1
INVARIANTS
    
    DamageConfined
    EnvFileWhole
    AckedSaveSurvives
PROPERTIES
    RestartTruthful
    CallReturns
CHECK_DEADLOCK FALSE

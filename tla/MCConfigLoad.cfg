SPECIFICATION Spec
CONSTANTS
    PW_MAX_CARDS = 2
    PW_PORTS_PER_CARD = 2
    FLOW_TABLE_ROWS = 3
    FLOWID_MAP_DEPTH = 8
    NUM_CMP = 16
    NUM_UDF = 1
    NUM_RULE = 11
    HASH_BITS = 2
    SEED_ATTEMPTS = 16
    TOKEN_ONE = 256
    CLOCK_HZ = 1000
    TOKENS_MAX = 255
    RATE_MAX = 100000
    BURST_MAX = 4096
    EnvTexts <- MCEnvTexts
    TestTexts <- MCTestTexts
    MaxLoads = 1
    Rotations <- MCRotations
    FrameKeys <- MCFrameKeys
INVARIANTS
    FramesFindTheirSlot
    SlotsNeverShared
    RulesMeanConfigured
    BucketCoversFrame
CHECK_DEADLOCK FALSE

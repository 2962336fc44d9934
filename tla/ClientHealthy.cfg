SPECIFICATION FairSpec
CONSTANTS
    Setups <- Healthy
    PktSize = 2
    RespSize = 2
    HdrSize = 2
    ExtrasSize = 2
    KeySize = 4
    ValSize = 2
INVARIANTS TypeOK ReferencesCounted UsedIsAlive ChecksHold TeardownIsQuiet SentWhenWritten OwnResponses
PROPERTIES ImplementsOpenLoop
CHECK_DEADLOCK FALSE

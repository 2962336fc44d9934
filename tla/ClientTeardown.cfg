SPECIFICATION FairSpec
CONSTANTS
    Setups <- GetPerRequest
    PktSize = 2
    RespSize = 2
    HdrSize = 2
    ExtrasSize = 2
    KeySize = 4
    ValSize = 2
INVARIANTS TeardownIsQuiet

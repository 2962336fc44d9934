\* synthetic_nginx: a socket that takes less than a response.
SPECIFICATION FairSpec
CONSTANTS
    Setups <- CrampedNginx
    RequestSize = 3
    ReadBufferSize = 6
    MaxRequests = 2
    SizeMod = 32
CHECK_DEADLOCK FALSE
INVARIANTS ResponsesIntact

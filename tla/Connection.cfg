\* All three applications, in every build, with sockets that have room and without.
SPECIFICATION FairSpec
CONSTANTS
    Setups <- AllSetups
    RequestSize = 3
    ReadBufferSize = 6
    MaxRequests = 4
    SizeMod = 32
CHECK_DEADLOCK FALSE
INVARIANTS TypeOK EveryRequestAnswered IntactIfItCopes ClosedIsAnswered AnsweredIsWritten RoomToRead
PROPERTIES AnswersIfItCopes

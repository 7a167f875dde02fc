SPECIFICATION FairSpec
CHECK_DEADLOCK FALSE
CONSTANTS
    Base = 2
    LenBytes = 2
    MaxFrames = 3
    Messages <- MCMessages
    StatusMessages <- MCStatusMessages
INVARIANTS DecodedIsSent MessageSurvives
PROPERTY EveryMessageDecoded

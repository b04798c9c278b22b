SPECIFICATION FairSpec
CONSTANTS
    JointMsgs <- JointMessage
    Channels <- AllChannels
    QueueDepth = 2
    MaxChanges = 4
    None = none
    JointOrder <- TwoJoints
    Zero = zero
    Dropped = dropped
INVARIANTS
    TypeOK
PROPERTIES
    ReadingsByName
    KeepsPicture
    CatchesUp

SPECIFICATION FairSpec
CONSTANTS
    Sizes = {1, 2, 3}
    MaxMessages = 4
INVARIANTS TypeOK InOrder LostOnlyBehind
PROPERTIES Consumed LeftIsClosed
CHECK_DEADLOCK FALSE

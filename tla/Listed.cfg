CONSTANTS
    in1 = in1
    out1 = out1
    out2 = out2
    front = front
    Task <- Two
    Inbound <- Received
    Front <- front
    Id <- Ids
    Capacity = 2
    MaxClicks = 1
SPECIFICATION AppFairSpec
PROPERTIES EveryTransferIsSeenToEnd EveryClickTakesEffect TransfersViewFills
CHECK_DEADLOCK FALSE

CONSTANTS
    in1 = in1
    out1 = out1
    out2 = out2
    front = front
    Task <- Three
    Inbound <- Received
    Front <- front
    Id <- Ids
    Capacity = 2
    MaxClicks = 1
SPECIFICATION AppSpec
INVARIANTS EndIsLast OnlyLateCommandsGoAstray OnlyALateCancelPanics
    WrongWayOnlyAfterALoss NothingActiveIsHidden
PROPERTIES EndsAreRarelyRewritten
CHECK_DEADLOCK FALSE

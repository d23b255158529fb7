CONSTANTS
    a = a
    b = b
    Files <- TwoFiles
    Size <- Sizes
    SourceLen <- GrownByOne
    Vanishing = {a, b}
    ReadBuffer = 2
    NotifyBytes = 2
    MaxFrames = 20
    MaxAnswers = 1
    MaxCancels = 1
    Environments <- SomeFaults
SPECIFICATION FairSpec
INVARIANTS FinishedFilesAreIntact EndsAreTold RejectedLeavesNothing
PROPERTIES AcceptedIsDelivered RejectedIsTold NoEndOutlivesItsPeer EveryEndIsShown ImplementsOffer

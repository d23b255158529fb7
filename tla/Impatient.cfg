CONSTANTS
    a = a
    b = b
    Files <- TwoFiles
    Size <- Sizes
    SourceLen <- Sizes
    Vanishing = {b}
    ReadBuffer = 2
    NotifyBytes = 2
    MaxFrames = 0
    MaxAnswers = 2
    MaxCancels = 1
    Environments <- AllFaults
SPECIFICATION Spec
INVARIANTS ConsentBeforeBytes EveryFrameIsAcceptable EveryChunkHasItsFile
PROPERTY StatesFollow

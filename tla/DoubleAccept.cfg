CONSTANTS
    a = a
    b = b
    Files <- OneFile
    Size <- Sizes
    SourceLen <- Sizes
    Vanishing = {}
    ReadBuffer = 2
    NotifyBytes = 2
    MaxFrames = 0
    MaxAnswers = 2
    MaxCancels = 0
    Environments <- NoFault
SPECIFICATION Spec
INVARIANTS FinishedFilesAreIntact

CONSTANTS
    t1 = t1
    t2 = t2
    a = a
    b = b
    c = c
    x = x
    y = y
    Transfers <- Two
    Files <- ThreeFiles
    Of <- ByTransfer
    Name <- SecondSameName
    Length <- Lengths
    Existing <- HasX
    Saveable <- Elsewhere
    Overlap = 2
SPECIFICATION DownSpec
INVARIANTS OnlySharingDamages ExistingFilesAreKept

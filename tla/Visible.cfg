CONSTANTS
    Choosable <- Visibilities
    Interval = 3
    MaxLate = 1
    MaxChoices = 3
SPECIFICATION VisFairSpec
INVARIANTS AnnouncedAsTold
PROPERTIES TemporaryIsNotCutShort HiddenInTheEnd VisibleUnlessTemporary

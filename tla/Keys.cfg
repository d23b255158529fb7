CONSTANTS
    Base = 4
    Width = 2
    Coordinates <- Chosen
    Kdf <- Mixed
SPECIFICATION KeyFairSpec
INVARIANTS PinsMatch PinIsTheSignedSum OnlyShortKeysFail
PROPERTIES BothEndsAgree
CHECK_DEADLOCK FALSE

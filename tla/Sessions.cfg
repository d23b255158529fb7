CONSTANTS
    d1 = d1
    d2 = d2
    a1 = a1
    a2 = a2
    Device <- TwoDevices
    Addr <- TwoAddrs
    Home <- OwnAddr
    MaxTasks = 2
    MaxDialogs = 2
    MaxChanges = 3
SPECIFICATION DiscFairSpec
INVARIANTS OnlyOvertakenBrowsesAreLost
PROPERTIES ListIsTrueInTheEnd

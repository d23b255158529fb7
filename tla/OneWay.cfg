CONSTANTS
    p1 = p1
    p2 = p2
    p3 = p3
    Peer <- Three
    Route <- Downhill
    MaxSends = 2
SPECIFICATION TcpFairSpec
INVARIANT WaitingLeadsSomewhere
PROPERTY EveryConnectionIsAnswered

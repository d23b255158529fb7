CONSTANTS
    p1 = p1
    p2 = p2
    p3 = p3
    Peer <- Two
    Route <- EachOther
    MaxSends = 1
SPECIFICATION TcpFairSpec
PROPERTY EveryConnectionIsAnswered

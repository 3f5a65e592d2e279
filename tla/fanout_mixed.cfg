SPECIFICATION FairSpec
CONSTANTS
    p1 = p1
    p2 = p2
    w1 = w1
    w2 = w2
    l1 = l1
    l2 = l2
    Publishers = {p1, p2}
    Workers = {w1}
    Loops = {l1, l2}
    NoLoop = NoLoop
    NoShard = NoShard
    Nobody = Nobody
    DirectIds = {2}
    LoopOf <- MCLoopOf
    MaxShards = 2
    SubsPerShard = 2
    InlineMaxSubs = 1
    BacklogPerShard = 2
    MaxInFlight = 3
    DrainBatch = 1
    JournalCap = 2
    MaxSubscribersPerRoom = 0
    MaxSubs = 2
    MaxSeq = 2
    MaxFaults = 0
    MaxGates = 1
PROPERTIES IsOrderedRoom EventuallySettled
CHECK_DEADLOCK FALSE

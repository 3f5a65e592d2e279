SPECIFICATION Spec
CONSTANTS
    p1 = p1
    p2 = p2
    w1 = w1
    w2 = w2
    l1 = l1
    l2 = l2
    Publishers = {p1, p2}
    Workers = {}
    Loops = {l1, l2}
    NoLoop = NoLoop
    NoShard = NoShard
    Nobody = Nobody
    DirectIds = {}
    LoopOf <- MCLoopOf
    MaxShards = 1
    SubsPerShard = 2
    InlineMaxSubs = 0
    BacklogPerShard = 2
    MaxInFlight = 3
    DrainBatch = 1
    JournalCap = 2
    MaxSubscribersPerRoom = 3
    MaxSubs = 1
    MaxSeq = 2
    MaxFaults = 1
    MaxGates = 0
INVARIANT IdleShardIsEmpty
CHECK_DEADLOCK FALSE

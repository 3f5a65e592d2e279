SPECIFICATION Spec
CONSTANTS
    p1 = p1
    p2 = p2
    w1 = w1
    w2 = w2
    l1 = l1
    l2 = l2
    Publishers = {p1}
    Workers = {w1, w2}
    Loops = {l1, l2}
    NoLoop = NoLoop
    NoShard = NoShard
    Nobody = Nobody
    DirectIds = {}
    LoopOf <- MCLoopOf
    MaxShards = 2
    SubsPerShard = 2
    InlineMaxSubs = 0
    BacklogPerShard = 1
    MaxInFlight = 3
    DrainBatch = 1
    JournalCap = 2
    MaxSubscribersPerRoom = 3
    MaxSubs = 3
    MaxSeq = 2
    MaxFaults = 1
    MaxGates = 0
INVARIANTS TypeOK OneClaimPerBusyShard IdleShardIsEmpty DeliveredInOrder NothingForgotten BookkeepingExact BackPressureExact
CHECK_DEADLOCK FALSE

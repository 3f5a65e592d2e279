SPECIFICATION ProcessSpec
CONSTANTS
    u1 = u1
    Conns = {c1, c2}
    UserNames = {u1}
    UserOf <- MCUserOf
    RoomCap = 1
    DeadRounds = 3
    MaxProbesOut = 2
    MaxOutage = 5
    JournalKeeps = 1
    MaxSyncBuffer = 1
    MaxSyncRetries = 1
    MaxSendAttempts = 2
    MaxRoomNumber = 1
    MaxPageConns = 2
    MaxPageGates = 1
    MaxOwn = 1
    MaxServerRestarts = 0
    x1 = x1
    x2 = x2
    a1 = a1
    a2 = a2
    q1 = q1
    q2 = q2
    Submitters = {x1, x2}
    ArchiveKeys = {a1, a2}
    Stripes = {q1, q2}
    StripeOf <- MCStripeOf
    MaxPending = 1
    MaxPerKey <- MCMaxPerKey
    Publishers = {p1, p2}
    PoolWorkers = {w1, w2}
    ReadyShards = {r1, r2}
    MaxDrains = 2
    Loggers = {t1, t2}
    Interval = 2
    MaxLogTime = 5
    MaxOccurrences = 4
INVARIANTS ProcessTypeOK NeitherZombieNorGhost BrokerInOrder
PROPERTIES TimerKeepsUp BusJudged PendingSettles EveryTaskAccounted ReadyShardIsDrained EveryOccurrenceReported
CHECK_DEADLOCK FALSE

SPECIFICATION Spec
CONSTANTS
    i1 = i1
    i2 = i2
    b1 = b1
    Insts = {i1, i2}
    BusRooms = {b1}
    MaxBaselines = 1
    MaxNumber = 3
    MaxSent = 3
    MaxLost = 1
    MaxInstRestarts = 1
    h1 = h1
    h2 = h2
    k1 = k1
    d1 = d1
    Handlers = {h1, h2}
    RoomKeys = {k1}
    DirectKeys = {d1}
    MaxDedupEntries = 1
    MaxMsgIds = 3
    c1 = c1
    c2 = c2
    s1 = s1
    s2 = s2
    s3 = s3
    l1 = l1
    l2 = l2
    NoLoop = NoLoop
    Callers = {c1, c2}
    Sessions = {s1, s2, s3}
    SessionOrder <- MCSessionOrder
    Loops = {l1, l2}
    LoopOf <- MCLoopOf
    MaxDirectInFlight = 4
    MaxDirect = 3
    MaxGateMoves = 2
    Rate = 2
    PerTicks = 5
    Burst = 1
    MaxViolations = 5
    MaxTicks = 12
    MaxSendsPerTick = 4
    JournalKeeps = 1
    MaxSyncBuffer = 1
    MaxSyncRetries = 2
    MaxSendAttempts = 2
    MaxRoomNumber = 3
    MaxPageConns = 2
    MaxPageGates = 1
    MaxOwn = 0
    MaxServerRestarts = 1
    FirstConsumer = consumer
    SecondConsumer = consumerOne
    MaxActiveTasks = 1
    MaxOffset = 2
    IdThreads = {t1, t2}
    SeqLimit = 2
    MaxClock = 2
    MaxIds = 3
    MaxRestarts = 1
    Chars = {"a", "A", "b", "c", " "}
    Fold <- MCFold
    WordLists <- MCWordLists
    StopChars = {" "}
    Mask = "*"
    MaxText = 4
    Columns = {"a", "b"}
    RowKeys = {1, 2}
    Conditions <- MCConditions
    RowShapes <- MCRowShapes
    BatchSizes = {1, 2}
    MaxCalls = 4
    MaxRows = 3
SYMMETRY Symmetric
INVARIANTS ServerTypeOK OneNumberSpace LossNoticed RegressionsHonest RetriedOnce AckIsTrue DirectQuotaExact DirectPromiseKept RateFair CatchUpHonest TasksOutlivedByTheirConsumer IdsRise CensorExact BuilderSound BatchAsOneByOne
CHECK_DEADLOCK FALSE

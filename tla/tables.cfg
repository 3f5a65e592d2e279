SPECIFICATION TablesSpec
CONSTANTS
    n1 = n1
    n2 = n2
    c1 = c1
    c2 = c2
    p1 = p1
    r1 = r1
    None = None
    Names = {n1, n2}
    Clients = {c1, c2}
    Publishers = {p1}
    Readers = {r1}
    JournalCap = 2
    JournalActiveCap = 1
    MaxWatermarks = 2
    MaxJournalRooms = 1
    MaxJournalEntries = 1
    MaxObjs = 3
    MaxMsgs = 3
    MaxScans = 1
SYMMETRY MCSymmetry
INVARIANTS TypeOK NoOrphanMembers ReplayHonest JournalsUnbroken HeardNumbersRise RetainedExact
PROPERTY BudgetRestored
CHECK_DEADLOCK FALSE

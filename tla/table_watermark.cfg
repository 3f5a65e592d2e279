SPECIFICATION Spec
CONSTANTS
    n1 = n1
    n2 = n2
    c1 = c1
    c2 = c2
    p1 = p1
    r1 = r1
    None = None
    Names = {n1, n2}
    Clients = {c1, c2}
    Publishers = {p1}
    Readers = {}
    JournalCap = 2
    JournalActiveCap = 1
    MaxWatermarks = 1
    MaxJournalRooms = 1
    MaxJournalEntries = 2
    MaxObjs = 4
    MaxMsgs = 3
    MaxScans = 0
SYMMETRY MCSymmetry
INVARIANT HeardNumbersRise
CHECK_DEADLOCK FALSE

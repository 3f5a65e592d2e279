SPECIFICATION ClientSpec
CONSTANTS
    JournalKeeps = 2
    MaxSyncBuffer = 1
    MaxSyncRetries = 2
    MaxSendAttempts = 2
    MaxRoomNumber = 3
    MaxPageConns = 2
    MaxPageGates = 1
    MaxOwn = 0
    MaxServerRestarts = 0
INVARIANT CursorKeepsGaps
CHECK_DEADLOCK FALSE

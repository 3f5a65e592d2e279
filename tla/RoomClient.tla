----------------------------- MODULE RoomClient -----------------------------
(***************************************************************************)
(* The chat page (chat.html) and the part of the server it catches up      *)
(* with (handleSync in ws_controllers/ChatWebsocket.cc).  The page keeps a *)
(* cursor: the highest number of its room it has, and whose number it is,  *)
(* as every instance numbers by itself.  After connecting, and when it     *)
(* sees a jump in the numbers, it sends the cursor; the server replays     *)
(* from its journal and ends with a "done" that says how far.  What comes  *)
(* meanwhile is buffered.  A sent message waits for its ACK; it is sent    *)
(* again after a time, after a 503, and after each catching up.            *)
(*                                                                         *)
(* One page, one room.  Handlers of the page run one at a time; a timer    *)
(* may fire at any moment while it is set.  The connection keeps order and *)
(* loses what is under way when it goes.  How the server fans out, and its *)
(* send gate, are modules RoomFanout and ChatSessions.                     *)
(***************************************************************************)
EXTENDS Integers, Sequences, FiniteSets, Functions, FiniteSetsExt, SequencesExt

CONSTANTS
    JournalKeeps,       \* journalCap
    MaxSyncBuffer, MaxSyncRetries, MaxSendAttempts,     \* the page's
    MaxRoomNumber,      \* bound: messages of the room, of one instance
    MaxPageConns,       \* bound: connections the page makes
    MaxPageGates,       \* bound: times the server's gate shuts
    MaxOwn,             \* bound: messages the page sends
    MaxServerRestarts   \* bound

ASSUME ClientAssumption ==
    /\ JournalKeeps \in Nat \ {0}
    /\ MaxSyncBuffer \in Nat /\ MaxSyncRetries \in Nat /\ MaxSendAttempts \in Nat \ {0}
    /\ MaxRoomNumber \in Nat /\ MaxPageConns \in Nat /\ MaxPageGates \in Nat
    /\ MaxOwn \in Nat /\ MaxServerRestarts \in Nat

VARIABLES
    server,     \* instance, highest number of the room, gate, numbers queued for the page
    link,       \* "closed", "open", "closing" (the page has not been told)
    up, down,   \* what is under way
    page,       \* the page's state, see PageInit
    conns, gates,   \* bounds
    known, broken   \* history: numbers of this instance the page got or was told it may
                    \* miss; a catching up was refused, cut off or put off, or the
                    \* server restarted

clientVars == <<server, link, up, down, page, conns, gates, known, broken>>

NoInstance == 0
NoMessagePending == [id |-> 0, attempts |-> 0, timer |-> "none"]

PageInit == [
    cursor |-> [inst |-> NoInstance, seq |-> 0],    \* in localStorage
    seen |-> 0,                 \* lastSeqSeen
    instance |-> NoInstance,    \* serverInstance
    syncing |-> FALSE,          \* and its timer is set
    buffer |-> <<>>,            \* syncBuffer
    retrying |-> FALSE,         \* syncRetryTimer is set
    retries |-> 0,              \* syncRetryCount
    gapAsked |-> FALSE,         \* a jump has led to a sync before
    pending |-> NoMessagePending, \* pendingAcks, one message at a time
    sent |-> 0]

ClientInit ==
    /\ server = [inst |-> 1, max |-> 0, shut |-> FALSE, outbox |-> <<>>, synced |-> FALSE]
    /\ link = "closed" /\ up = <<>> /\ down = <<>>
    /\ page = PageInit
    /\ conns = 0 /\ gates = 0
    /\ known = {} /\ broken = FALSE

-----------------------------------------------------------------------------
(* The page: helpers on its state *)

\* What the page hands to the socket at the end of a handler.
SyncRequest(pg) == [kind |-> "sync", since |-> pg.cursor.seq, inst |-> pg.cursor.inst]
MessageRequest(pg) == [kind |-> "message", id |-> pg.pending.id]

\* saveCursor ignores 0.
SaveCursor(pg, seq) ==
    IF seq = 0 THEN pg ELSE [pg EXCEPT !.cursor = [inst |-> pg.instance, seq |-> seq]]

\* applyIncoming: the cursor follows what has arrived, only forward.
Advance(pg, n) ==
    IF n > pg.seen THEN SaveCursor([pg EXCEPT !.seen = n], n) ELSE pg

EndSync(pg) == [pg EXCEPT !.syncing = FALSE, !.buffer = <<>>]

\* Each buffered message in turn moves the cursor forward or not at all: all of them
\* move it to the highest.
ApplyBuffer(pg) == EndSync(Advance(pg, Max(Range(pg.buffer) \cup {0})))

\* beginSync
BeginSync(pg) ==
    [pg EXCEPT !.syncing = TRUE, !.buffer = <<>>, !.retrying = FALSE,
               !.instance = pg.cursor.inst, !.seen = pg.cursor.seq]

\* flushPendingAcks, resendPending: sent again, given up, or left for later.
HasPending(pg) == pg.pending.id # 0
LastAttempt(pg) == pg.pending.attempts >= MaxSendAttempts
FailPending(pg) == [pg EXCEPT !.pending = NoMessagePending]
WithPending(pg, attempts, timer) ==
    [pg EXCEPT !.pending = [id |-> pg.pending.id, attempts |-> attempts, timer |-> timer]]
Flush(pg) ==
    IF ~HasPending(pg) THEN pg
    ELSE IF LastAttempt(pg) THEN FailPending(pg)
    ELSE WithPending(pg, pg.pending.attempts + 1, "ack")
Flushed(pg) == IF HasPending(pg) /\ ~LastAttempt(pg) THEN <<MessageRequest(pg)>> ELSE <<>>

Jump(pg, n) == pg.seen > 0 /\ n > pg.seen + 1

-----------------------------------------------------------------------------
(* The page: handlers *)

Bounds == <<conns, gates>>

\* connectWebSocket and onopen.  When the old socket was replaced before its
\* onclose, the page still believes to be syncing and beginSync does nothing.
Connect ==
    /\ link \in {"closed", "closing"} /\ conns < MaxPageConns
    /\ conns' = conns + 1
    /\ link' = "open" /\ down' = <<>>
    /\ LET fresh == [page EXCEPT !.retries = 0]
       IN  IF page.syncing THEN page' = fresh /\ up' = <<>>
           ELSE page' = BeginSync(fresh) /\ up' = <<SyncRequest(page)>>
    /\ server' = [server EXCEPT !.shut = FALSE, !.outbox = <<>>, !.synced = FALSE]
    /\ UNCHANGED <<gates, known, broken>>

\* The connection is gone, with what was under way.
Disconnect ==
    /\ link = "open"
    /\ link' = "closing" /\ up' = <<>> /\ down' = <<>>
    /\ server' = [server EXCEPT !.outbox = <<>>]
    /\ broken' = (broken \/ page.syncing)
    /\ UNCHANGED <<page, conns, gates, known>>

\* onclose: the buffer goes, the message that waits for its ACK stays.
OnClose ==
    /\ link = "closing"
    /\ link' = "closed"
    /\ page' = [EndSync(page) EXCEPT !.retrying = FALSE]
    /\ UNCHANGED <<server, up, down, conns, gates, known, broken>>

NextFrame(kind) == link = "open" /\ down # <<>> /\ Head(down).kind = kind
TakeFrame == down' = Tail(down) /\ UNCHANGED <<server, link, conns, gates>>

AtJumpLate(pg, n) ==        \* mutant: the cursor moves before it is sent
    BeginSync(Advance([pg EXCEPT !.gapAsked = TRUE], n))
AtJump(pg, n) == BeginSync([pg EXCEPT !.gapAsked = TRUE])

\* applyIncoming of a message that came while the page is not syncing.  A jump in
\* the numbers leads to a sync, at most one in three seconds.
Show(pg, n, first) ==
    \/ /\ ~Jump(pg, n)
       /\ page' = Advance(pg, n) /\ up' = up \o first
       /\ UNCHANGED broken
    \/ /\ Jump(pg, n)
       /\ page' = Advance(AtJump(pg, n), n)
       /\ up' = up \o first \o <<SyncRequest(AtJump(pg, n))>>
       /\ UNCHANGED broken
    \/ /\ Jump(pg, n) /\ pg.gapAsked
       /\ page' = Advance(pg, n) /\ up' = up \o first
       /\ broken' = TRUE

ReceiveLive ==
    /\ NextFrame("room") /\ ~page.syncing
    /\ Show(page, Head(down).seq, <<>>)
    /\ known' = known \cup {Head(down).seq}
    /\ TakeFrame

ReceiveBuffered ==
    /\ NextFrame("room") /\ page.syncing /\ Len(page.buffer) < MaxSyncBuffer
    /\ page' = [page EXCEPT !.buffer = Append(@, Head(down).seq)]
    /\ TakeFrame
    /\ UNCHANGED <<up, known, broken>>

\* The buffer is full: this sync is over, the buffer and the frame are shown, and
\* what waits for an ACK is sent.
ReceiveOverflow ==
    /\ NextFrame("room") /\ page.syncing /\ Len(page.buffer) >= MaxSyncBuffer
    /\ LET pg == ApplyBuffer(page)
       IN  \/ /\ ~Jump(pg, Head(down).seq)
              /\ page' = Advance(Flush(pg), Head(down).seq) /\ up' = up \o Flushed(pg)
           \/ /\ Jump(pg, Head(down).seq)
              /\ page' = Advance(AtJump(Flush(pg), Head(down).seq), Head(down).seq)
              /\ up' = up \o Flushed(pg) \o <<SyncRequest(AtJump(pg, Head(down).seq))>>
           \/ /\ Jump(pg, Head(down).seq) /\ pg.gapAsked
              /\ page' = Advance(Flush(pg), Head(down).seq) /\ up' = up \o Flushed(pg)
    /\ known' = known \cup Range(page.buffer) \cup {Head(down).seq}
    /\ broken' = TRUE
    /\ TakeFrame

\* The timer of a sync: what is buffered is shown without looking for jumps.
SyncTimeout ==
    /\ page.syncing
    /\ page' = IF link = "open" THEN Flush(ApplyBuffer(page)) ELSE ApplyBuffer(page)
    /\ up' = IF link = "open" THEN up \o Flushed(page) ELSE up
    /\ known' = known \cup Range(page.buffer)
    /\ broken' = TRUE
    /\ UNCHANGED <<server, link, down, conns, gates>>

\* handleSyncDone, 200 or 206.  A page without a cursor has nothing replayed, as it
\* has missed nothing.
SyncDone ==
    LET done == Head(down)
        told == [page EXCEPT !.instance = done.inst, !.retries = 0,
                             !.seen = Max({@, done.seq})]
        pg   == ApplyBuffer(SaveCursor(told, done.seq))
    IN  /\ NextFrame("done") /\ done.code # 503
        /\ page' = Flush(pg) /\ up' = up \o Flushed(pg)
        /\ known' = known \cup Range(page.buffer)
                    \cup (IF done.code = 206 \/ done.since = 0 THEN 1 .. done.seq ELSE {})
        /\ TakeFrame
        /\ UNCHANGED broken

SyncRefusedStuck ==          \* mutant: the last refusal forgets the message that waits
    LET done == Head(down)
        pg   == ApplyBuffer([page EXCEPT !.instance = done.inst, !.retries = @ + 1])
    IN  /\ NextFrame("done") /\ done.code = 503
        /\ page' = [pg EXCEPT !.retrying = (pg.retries < MaxSyncRetries)] /\ UNCHANGED up
        /\ known' = known \cup Range(page.buffer)
        /\ broken' = TRUE
        /\ TakeFrame

\* 503: the cursor in the answer is not taken over; what is buffered is shown.
SyncRefused ==
    LET done == Head(down)
        pg   == ApplyBuffer([page EXCEPT !.instance = done.inst, !.retries = @ + 1])
    IN  /\ NextFrame("done") /\ done.code = 503
        /\ IF pg.retries < MaxSyncRetries
             THEN page' = [pg EXCEPT !.retrying = TRUE] /\ UNCHANGED up
             ELSE page' = Flush(pg) /\ up' = up \o Flushed(pg)
        /\ known' = known \cup Range(page.buffer)
        /\ broken' = TRUE
        /\ TakeFrame

\* The retry timer; beginSync does nothing while another sync is going on.
RetrySync ==
    /\ page.retrying
    /\ IF page.syncing \/ link # "open"
         THEN page' = [page EXCEPT !.retrying = FALSE] /\ UNCHANGED up
         ELSE page' = BeginSync(page) /\ up' = Append(up, SyncRequest(page))
    /\ UNCHANGED <<server, link, down, conns, gates, known, broken>>

-----------------------------------------------------------------------------
(* The page: its own messages *)

OwnSame == UNCHANGED <<server, link, down, conns, gates, known, broken>>

SendMessage ==
    /\ link = "open" /\ ~HasPending(page) /\ page.sent < MaxOwn
    /\ page' = [page EXCEPT !.sent = @ + 1,
                            !.pending = [id |-> page.sent + 1, attempts |-> 1, timer |-> "ack"]]
    /\ up' = Append(up, MessageRequest(page'))
    /\ OwnSame

\* Sent again when there is a connection, else parked until the next catching up.
Resend(attempts) ==
    IF link = "open"
      THEN page' = WithPending(page, attempts, "ack") /\ up' = Append(up, MessageRequest(page))
      ELSE page' = WithPending(page, attempts, "none") /\ UNCHANGED up

AckTimeout ==
    /\ page.pending.timer = "ack"
    /\ IF LastAttempt(page) THEN page' = FailPending(page) /\ UNCHANGED up
       ELSE Resend(page.pending.attempts + 1)
    /\ OwnSame

BackOffOver ==
    /\ page.pending.timer = "backoff"
    /\ Resend(page.pending.attempts)
    /\ OwnSame

\* handleAck: 503 is tried again later, everything else is the end of it.
ReceiveAck ==
    LET ack == Head(down)
    IN  /\ NextFrame("ack")
        /\ page' = IF ack.id # page.pending.id THEN page
                   ELSE IF ack.code = 503 /\ ~LastAttempt(page)
                     THEN WithPending(page, page.pending.attempts + 1, "backoff")
                   ELSE FailPending(page)
        /\ TakeFrame
        /\ UNCHANGED <<up, known, broken>>

-----------------------------------------------------------------------------
(* The server *)

PageSame == UNCHANGED <<link, page, conns, known, broken>>

PublishToRoom ==
    /\ server.max < MaxRoomNumber
    /\ server' = [server EXCEPT !.max = @ + 1,
            !.outbox = IF link = "open" THEN Append(@, server.max + 1) ELSE @]
    /\ UNCHANGED <<up, down, gates>> /\ PageSame

\* A connection whose gate is shut is skipped.
DeliverLive ==
    /\ link = "open" /\ server.outbox # <<>>
    /\ server' = [server EXCEPT !.outbox = Tail(@)]
    /\ down' = IF server.shut THEN down
               ELSE Append(down, [kind |-> "room", seq |-> Head(server.outbox)])
    /\ UNCHANGED <<up, gates>> /\ PageSame

GateShuts ==
    /\ link = "open" /\ ~server.shut /\ gates < MaxPageGates
    /\ server' = [server EXCEPT !.shut = TRUE] /\ gates' = gates + 1
    /\ UNCHANGED <<up, down>> /\ PageSame

GateOpens ==
    /\ server.shut
    /\ server' = [server EXCEPT !.shut = FALSE]
    /\ UNCHANGED <<up, down, gates>> /\ PageSame

NextRequest(kind) == link = "open" /\ up # <<>> /\ Head(up).kind = kind

Oldest == Max({1, server.max - JournalKeeps + 1})
\* With what was replayed after which cursor, for the properties.
DoneFrame(code, seq, since, sent) ==
    [kind |-> "done", code |-> code, seq |-> seq, inst |-> server.inst,
     since |-> since, sent |-> sent]

\* Congested, or a sync less than a second ago: the cursor is given back.
SyncBusy ==
    LET ask == Head(up)
    IN  /\ NextRequest("sync") /\ (server.shut \/ server.synced)
        /\ up' = Tail(up)
        /\ down' = Append(down, DoneFrame(503, ask.since, ask.since, {}))
        /\ UNCHANGED <<server, gates>> /\ PageSame

\* RoomRegistry::replay, then the frames until the gate shuts, then the answer.
HandleSync ==
    LET ask     == Head(up)
        foreign == ask.since # 0 /\ ask.inst # NoInstance /\ ask.inst # server.inst
        since   == IF foreign THEN 0 ELSE ask.since
        reset   == since # 0 /\ (since + 1 < Oldest \/ since > server.max)
        first   == IF since = 0 \/ since > server.max THEN server.max + 1
                   ELSE Max({since + 1, Oldest})
    IN  /\ NextRequest("sync") /\ ~server.shut
        /\ up' = Tail(up)
        /\ \E last \in first - 1 .. server.max :
            LET all  == last = server.max
                seq  == IF all THEN server.max ELSE IF last < first THEN since ELSE last
                code == IF ~all THEN 503 ELSE IF reset \/ foreign THEN 206 ELSE 200
            IN  /\ ~all => gates < MaxPageGates
                /\ gates' = IF all THEN gates ELSE gates + 1
                /\ server' = [server EXCEPT !.synced = TRUE, !.shut = ~all]
                /\ down' = down \o [n \in 1 .. last - first + 1 |->
                                        [kind |-> "room", seq |-> first + n - 1]]
                                \o <<DoneFrame(code, seq, since, first .. last)>>
        /\ PageSame

\* handleNewMessage: an answer of some kind, or none after an exception.
HandleMessage ==
    /\ NextRequest("message")
    /\ up' = Tail(up)
    /\ \/ \E code \in {200, 404, 503} :
            down' = Append(down, [kind |-> "ack", id |-> Head(up).id, code |-> code])
       \/ UNCHANGED down
    /\ UNCHANGED <<server, gates>> /\ PageSame

\* A new instance numbers from one.  The page's "seen" is not taken back with its
\* cursor: until the new numbers pass the old ones it notices no jump.
RestartServer ==
    /\ server.inst <= MaxServerRestarts
    /\ server' = [inst |-> server.inst + 1, max |-> 0, shut |-> FALSE, outbox |-> <<>>,
                  synced |-> FALSE]
    /\ link' = IF link = "open" THEN "closing" ELSE link
    /\ up' = <<>> /\ down' = <<>>
    /\ known' = {} /\ broken' = TRUE
    /\ UNCHANGED <<page, conns, gates>>

PageHandler == OnClose \/ ReceiveLive \/ ReceiveBuffered \/ ReceiveOverflow \/ SyncDone
               \/ SyncRefused \/ ReceiveAck
PageTimer == SyncTimeout \/ RetrySync \/ AckTimeout \/ BackOffOver
ServerHandler == SyncBusy \/ HandleSync \/ HandleMessage \/ DeliverLive

ClientNext == PageHandler \/ PageTimer \/ ServerHandler
              \/ Connect \/ Disconnect \/ SendMessage
              \/ PublishToRoom \/ GateShuts \/ GateOpens \/ RestartServer

\* The page's and the server's handlers run, timers fire; users, the network and
\* the gate owe nothing.
ClientSafety == ClientInit /\ [][ClientNext]_clientVars
ClientSpec ==
    /\ ClientSafety
    /\ WF_clientVars(PageHandler) /\ WF_clientVars(ServerHandler)
    /\ WF_clientVars(SyncTimeout) /\ WF_clientVars(RetrySync)
    /\ WF_clientVars(AckTimeout) /\ WF_clientVars(BackOffOver)

-----------------------------------------------------------------------------
(* Properties *)

ClientTypeOK ==
    /\ page.cursor.seq \in 0 .. MaxRoomNumber /\ page.seen \in 0 .. MaxRoomNumber
    /\ Range(page.buffer) \subseteq 1 .. MaxRoomNumber /\ Len(page.buffer) <= MaxSyncBuffer
    /\ page.pending.attempts <= MaxSendAttempts
    /\ page.pending.timer \in {"none", "ack", "backoff"}
    /\ server.max \in 0 .. MaxRoomNumber /\ known \subseteq 1 .. MaxRoomNumber
    /\ conns <= MaxPageConns /\ gates <= MaxPageGates

\* An answer to a sync never claims more than was sent: 200 means every number
\* after the cursor went with it, 503 names the last one that did.  (handleSync)
SyncHonest == \A n \in DOMAIN down : down[n].kind = "done" =>
    LET done == down[n]
    IN  /\ done.code = 200 /\ done.since # 0 => done.sent = done.since + 1 .. done.seq
        /\ done.code = 503 => done.seq \in done.sent \cup {done.since}

\* Numbers the page's cursor has passed over without having the message or having
\* been told that it may be missing.
Skipped == {n \in 1 .. page.cursor.seq :
    page.cursor.inst = server.inst /\ n \notin known /\ \E m \in known : m < n}

CaughtUp == ~page.syncing /\ ~page.retrying

\* What the cursor has passed was seen or reported missing, once all that was under
\* way has come: whatever the gate skipped and whenever the connection went, the
\* next catching up asks for the rest.  (chat.html: the cursor is saved after a sync
\* that was answered, and a refused or cut off sync is made up for later)
CursorKeepsGaps == CaughtUp /\ up = <<>> /\ down = <<>> => Skipped = {}

\* So it is, at any moment, as long as no sync was refused, cut off or put off and
\* the server goes on.  (beginSync before the cursor moves; handleSyncDone)
CursorKeepsGapsUndisturbed == ~broken /\ CaughtUp => Skipped = {}

\* Catching up as far as it can be relied on: an honest answer, and a cursor that
\* waits for it.
CatchUpHonest == SyncHonest /\ CursorKeepsGapsUndisturbed

\* A message that was sent gets its ACK or is given up in the end, unless the
\* connection is gone; a lost ACK, a 503 or a failed sync does not leave it
\* hanging.  (pendingAcks, flushPendingAcks)
PendingSettles == []<>(~HasPending(page) \/ link # "open")
=============================================================================

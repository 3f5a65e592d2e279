---------------------------- MODULE ChatMessages ----------------------------
(***************************************************************************)
(* What happens to one chat message in handleNewMessage                    *)
(* (ws_controllers/ChatWebsocket.cc) after it passed the checks of its     *)
(* form and rate: the deduplication table is asked, the message goes to a  *)
(* room or to a user, to the archive and to the cluster bus, the table is  *)
(* told, the sender gets an ACK.                                           *)
(*                                                                         *)
(* The handlers are the IO threads; one connection's messages are handled  *)
(* one after another, but a client that has connected again may be served  *)
(* by two of them.  A key stands for the triple (sender, room, dto.key)    *)
(* and every message here carries a requestId, so that deduplication is on *)
(* and ACKs are sent.  What the room or the user's sessions say to a       *)
(* message is a free choice here (modules RoomFanout, DirectDelivery).     *)
(***************************************************************************)
EXTENDS Integers, Sequences, FiniteSets, Functions

CONSTANTS
    Handlers,
    RoomKeys, DirectKeys,   \* messages of clients, to a room and to a user
    MaxDedupEntries,        \* kMaxDedupEntries
    MaxMsgIds               \* bound: messages handled

MsgKeys == RoomKeys \cup DirectKeys
MsgIds == 1 .. MaxMsgIds

ASSUME MessagesAssumption ==
    /\ RoomKeys \cap DirectKeys = {}
    /\ MaxDedupEntries \in Nat \ {0} /\ MaxMsgIds \in Nat

VARIABLES
    dedupSeen,  \* key -> the entry of its first accepted copy
    serving,    \* handler -> the message it is busy with
    lastId,     \* nextMessageId()
    roomOrder,  \* the ids of the room's messages by their numbers
    archived,   \* what was submitted to the archive, in that order
    onBus,      \* ids published to the cluster bus
    \* history: what was accepted, the ACKs sent, and the keys of which a second
    \* copy is let through knowingly
    accepted, answers, excused

msgVars == <<dedupSeen, serving, lastId, roomOrder, archived, onBus, accepted, answers,
             excused>>

NoMessage == [at |-> "idle"]

MsgInit ==
    /\ dedupSeen = <<>>
    /\ serving = [h \in Handlers |-> NoMessage]
    /\ lastId = 0
    /\ roomOrder = <<>> /\ archived = <<>> /\ onBus = {}
    /\ accepted = {} /\ answers = {} /\ excused = {}

-----------------------------------------------------------------------------
KnownAs(k, e) == [x \in DOMAIN dedupSeen \cup {k} |-> IF x = k THEN e ELSE dedupSeen[x]]
ForgetKeys(ks) == Restrict(dedupSeen, DOMAIN dedupSeen \ ks)

\* sendAck
AckOf(m, code, id, seq) == [key |-> m.key, id |-> m.id, code |-> code, ackId |-> id, ackSeq |-> seq]
SendAck(m, code, id, seq) == answers' = answers \cup {AckOf(m, code, id, seq)}

BeginsRoom(m) == m.key \in RoomKeys
Goes(h, where) == serving' = [serving EXCEPT ![h].at = where]
Ends(h) == serving' = [serving EXCEPT ![h] = NoMessage]
At(h, where) == serving[h].at = where

Overlaps(h, k) == \E g \in Handlers \ {h} : ~At(g, "idle") /\ serving[g].key = k

\* A new id, then the table: its first entry decides.
LookupRegisters(h, k) ==     \* mutant: a message is registered before it is accepted
    LET m == [at |-> "deliver", key |-> k, id |-> lastId + 1, seq |-> 0]
    IN  /\ At(h, "idle") /\ lastId < MaxMsgIds
        /\ lastId' = lastId + 1
        /\ IF k \in DOMAIN dedupSeen
             THEN /\ dedupSeen' = [dedupSeen EXCEPT ![k].old = FALSE]
                  /\ SendAck(m, 200, dedupSeen[k].id, dedupSeen[k].seq)
                  /\ UNCHANGED <<serving, excused>>
             ELSE /\ serving' = [serving EXCEPT ![h] = m]
                  /\ excused' = IF Overlaps(h, k) THEN excused \cup {k} ELSE excused
                  /\ dedupSeen' = KnownAs(k, [id |-> m.id, seq |-> 0, old |-> FALSE])
                  /\ UNCHANGED answers
        /\ UNCHANGED <<roomOrder, archived, onBus, accepted>>

Lookup(h, k) ==
    LET m == [at |-> "deliver", key |-> k, id |-> lastId + 1, seq |-> 0]
    IN  /\ At(h, "idle") /\ lastId < MaxMsgIds
        /\ lastId' = lastId + 1
        /\ IF k \in DOMAIN dedupSeen
             THEN /\ dedupSeen' = [dedupSeen EXCEPT ![k].old = FALSE]
                  /\ SendAck(m, 200, dedupSeen[k].id, dedupSeen[k].seq)
                  /\ UNCHANGED <<serving, excused>>
             ELSE /\ serving' = [serving EXCEPT ![h] = m]
                  /\ excused' = IF Overlaps(h, k) THEN excused \cup {k} ELSE excused
                  /\ UNCHANGED <<dedupSeen, answers>>
        /\ UNCHANGED <<roomOrder, archived, onBus, accepted>>

-----------------------------------------------------------------------------
(* To a room *)

Accepts(h) == accepted' = accepted \cup {[key |-> serving[h].key, id |-> serving[h].id]}

\* persistRoomMessage, persistDirectMessage: the queue may be full.
Archives(m, seq) == archived' \in {archived, Append(archived, [id |-> m.id, seq |-> seq])}

\* fanOutRoom, under pubMtx: the number and the archive.
RoomAccepts(h) ==
    LET n == Len(roomOrder) + 1
    IN  /\ At(h, "deliver") /\ BeginsRoom(serving[h])
        /\ roomOrder' = Append(roomOrder, serving[h].id)
        /\ Archives(serving[h], n)
        /\ serving' = [serving EXCEPT ![h].at = "broadcast", ![h].seq = n]
        /\ Accepts(h)
        /\ UNCHANGED <<dedupSeen, lastId, onBus, answers, excused>>

\* Nobody is in the room: accepted, without a number and without a payload.
RoomEmpty(h) ==
    /\ At(h, "deliver") /\ BeginsRoom(serving[h])
    /\ Accepts(h)
    /\ Goes(h, "register")
    /\ UNCHANGED <<dedupSeen, lastId, roomOrder, archived, onBus, answers, excused>>

\* Back-pressure: nothing but the answer.
RoomRefuses(h) ==
    /\ At(h, "deliver") /\ BeginsRoom(serving[h])
    /\ SendAck(serving[h], 503, 0, 0)
    /\ Ends(h)
    /\ UNCHANGED <<dedupSeen, lastId, roomOrder, archived, onBus, accepted, excused>>

\* publishToCluster, after the room was released.
RoomBroadcasts(h) ==
    /\ At(h, "broadcast")
    /\ onBus' = onBus \cup {serving[h].id}
    /\ Goes(h, "register")
    /\ UNCHANGED <<dedupSeen, lastId, roomOrder, archived, accepted, answers, excused>>

\* registerDedupEntry: a full table is emptied, an entry that is there stays.
RegisterNothing(h) ==       \* mutant: the acceptance is not recorded
    /\ At(h, "register")
    /\ Goes(h, "answer")
    /\ UNCHANGED <<dedupSeen, lastId, roomOrder, archived, onBus, accepted, answers, excused>>

Register(h) ==
    LET m     == serving[h]
        full  == Cardinality(DOMAIN dedupSeen) >= MaxDedupEntries
        known == IF full THEN <<>> ELSE dedupSeen
        first == IF m.key \in DOMAIN known THEN known[m.key] ELSE [id |-> m.id, seq |-> m.seq]
    IN  /\ At(h, "register")
        /\ dedupSeen' = [x \in DOMAIN known \cup {m.key} |->
                IF x = m.key THEN [id |-> first.id, seq |-> first.seq, old |-> FALSE]
                ELSE known[x]]
        /\ excused' = IF full THEN excused \cup DOMAIN dedupSeen ELSE excused
        /\ Goes(h, "answer")
        /\ UNCHANGED <<lastId, roomOrder, archived, onBus, accepted, answers>>

\* A message without a number has not been archived yet.
RoomAnswers(h) ==
    /\ At(h, "answer") /\ BeginsRoom(serving[h])
    /\ SendAck(serving[h], 200, serving[h].id, serving[h].seq)
    /\ IF serving[h].seq = 0 THEN Archives(serving[h], 0) ELSE UNCHANGED archived
    /\ Ends(h)
    /\ UNCHANGED <<dedupSeen, lastId, roomOrder, onBus, accepted, excused>>

-----------------------------------------------------------------------------
(* To a user *)

\* Some session is congested, or the direct quota is used up.
DirectRefused(h) ==
    /\ At(h, "deliver") /\ ~BeginsRoom(serving[h])
    /\ SendAck(serving[h], 503, 0, 0)
    /\ Ends(h)
    /\ UNCHANGED <<dedupSeen, lastId, roomOrder, archived, onBus, accepted, excused>>

\* Not here, and the bus is known to be down.
DirectAbsent(h) ==
    /\ At(h, "deliver") /\ ~BeginsRoom(serving[h])
    /\ SendAck(serving[h], 404, 0, 0)
    /\ Ends(h)
    /\ UNCHANGED <<dedupSeen, lastId, roomOrder, archived, onBus, accepted, excused>>

\* Sent to the sessions here, or left to the other instances.
DirectAccepts(h) ==
    /\ At(h, "deliver") /\ ~BeginsRoom(serving[h])
    /\ Accepts(h)
    /\ Goes(h, "register")
    /\ UNCHANGED <<dedupSeen, lastId, roomOrder, archived, onBus, answers, excused>>

\* The bus, the archive, the ACK.
DirectAnswers(h) ==
    /\ At(h, "answer") /\ ~BeginsRoom(serving[h])
    /\ onBus' = onBus \cup {serving[h].id}
    /\ Archives(serving[h], 0)
    /\ SendAck(serving[h], 200, serving[h].id, 0)
    /\ Ends(h)
    /\ UNCHANGED <<dedupSeen, lastId, roomOrder, accepted, excused>>

-----------------------------------------------------------------------------
\* An exception anywhere is caught at the end of the handler: no ACK.
HandlerFails(h) ==
    /\ ~At(h, "idle")
    /\ excused' = IF At(h, "broadcast") \/ At(h, "register")
                     THEN excused \cup {serving[h].key} ELSE excused
    /\ Ends(h)
    /\ UNCHANGED <<dedupSeen, lastId, roomOrder, archived, onBus, accepted, answers>>

\* kDedupTtlMs go by for everything in the table.
EntriesAge ==
    /\ \E k \in DOMAIN dedupSeen : ~dedupSeen[k].old
    /\ dedupSeen' = [k \in DOMAIN dedupSeen |-> [dedupSeen[k] EXCEPT !.old = TRUE]]
    /\ UNCHANGED <<serving, lastId, roomOrder, archived, onBus, accepted, answers, excused>>

SweepDedupTable ==
    LET old == {k \in DOMAIN dedupSeen : dedupSeen[k].old}
    IN  /\ old # {}
        /\ dedupSeen' = ForgetKeys(old)
        /\ excused' = excused \cup old
        /\ UNCHANGED <<serving, lastId, roomOrder, archived, onBus, accepted, answers>>

MsgNext ==
    \/ \E h \in Handlers :
        \/ \E k \in MsgKeys : Lookup(h, k)
        \/ RoomAccepts(h) \/ RoomEmpty(h) \/ RoomRefuses(h) \/ RoomBroadcasts(h)
        \/ RoomAnswers(h)
        \/ DirectRefused(h) \/ DirectAbsent(h) \/ DirectAccepts(h) \/ DirectAnswers(h)
        \/ Register(h) \/ HandlerFails(h)
    \/ EntriesAge \/ SweepDedupTable

MsgSpec == MsgInit /\ [][MsgNext]_msgVars

-----------------------------------------------------------------------------
(* Properties *)

MsgTypeOK ==
    /\ DOMAIN dedupSeen \subseteq MsgKeys /\ Cardinality(DOMAIN dedupSeen) <= MaxDedupEntries
    /\ \A h \in Handlers : ~At(h, "idle") =>
        /\ serving[h].at \in {"deliver", "broadcast", "register", "answer"}
        /\ serving[h].key \in MsgKeys /\ serving[h].id \in MsgIds
    /\ lastId \in 0 .. MaxMsgIds /\ onBus \subseteq MsgIds
    /\ Range(roomOrder) \subseteq MsgIds /\ excused \subseteq MsgKeys

\* A message sent again after an accepted first copy is not delivered again,
\* unless the two were handled at the same time, the first was cut off by an
\* exception after its acceptance, or its entry was lost with a full table or to
\* its age.  (lookupDedupEntry, registerDedupEntry)
RetriedOnce == \A k \in MsgKeys \ excused :
    Cardinality({a \in accepted : a.key = k}) <= 1

\* Where a message may have left something.
LeftBehind(id) ==
    \/ id \in onBus \/ id \in Range(roomOrder)
    \/ \E n \in DOMAIN archived : archived[n].id = id
    \/ \E k \in DOMAIN dedupSeen : dedupSeen[k].id = id

\* 200 is never said of a message that nobody accepted: the id in the ACK is the
\* id of an accepted copy of that message, and the number is that copy's number.
\* 503 and 404 are said only of a message that left nothing behind in the room, the
\* archive, the bus or the table, so that it may be sent again: a message that was
\* registered and then refused would be swallowed for ever.  (the two phases of
\* deduplication; what a partial delivery to a user's sessions leaves behind is
\* DirectDone of DirectDelivery)
AckIsTrue == \A a \in answers :
    IF a.code = 200
      THEN /\ [key |-> a.key, id |-> a.ackId] \in accepted
           /\ a.ackSeq # 0 => a.ackSeq \in DOMAIN roomOrder /\ roomOrder[a.ackSeq] = a.ackId
      ELSE ~LeftBehind(a.id)
=============================================================================

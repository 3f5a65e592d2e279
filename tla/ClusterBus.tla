----------------------------- MODULE ClusterBus -----------------------------
(***************************************************************************)
(* The Redis bus between instances (ChatWebsocket.cc, initClusterBus,      *)
(* publishToCluster, checkClusterRoomSeq).  An instance numbers the        *)
(* messages of a room by itself, under the room's pubMtx, and gives a      *)
(* numbered message to Redis after that lock was released; every           *)
(* subscriber, the sender included, may receive it, late, never, or out of *)
(* order.  A receiver numbers it again in its own room and, from the       *)
(* origin's numbers, counts what seems to be missing or late.              *)
(*                                                                         *)
(* Of a room only its numbers are kept: how they are given and delivered   *)
(* is module RoomFanout, and RoomTable.  Whether a room takes a message,   *)
(* refuses it (back-pressure) or has nobody in it is a free choice here.   *)
(***************************************************************************)
EXTENDS Integers, Sequences, FiniteSets, Functions, FiniteSetsExt

CONSTANTS
    Insts,          \* server instances
    BusRooms,       \* room names
    MaxBaselines,   \* kMaxClusterSeqBaselines
    MaxNumber,      \* bound: numbers given in one room of one instance
    MaxSent,        \* bound: messages ever broadcast and restarts
    MaxLost,        \* bound: packets the bus loses
    MaxInstRestarts \* bound: restarts of instances

ASSUME BusAssumption ==
    /\ MaxBaselines \in Nat \ {0}
    /\ MaxNumber \in Nat /\ MaxSent \in Nat /\ MaxLost \in Nat /\ MaxInstRestarts \in Nat

VARIABLES
    epoch,      \* how often the instance was started
    roomLog,    \* instance, room -> what the room accepted, in the order of its numbers
    handing,    \* instance -> packets numbered and not yet given to Redis
    inbox,      \* instance -> packets on the way to it, in the order Redis forwards them
    lastSeq,    \* clusterLastSeq: instance -> (origin, room) -> highest number seen
    gaps, regressions,      \* ws_cluster_seq_gap_total, ws_cluster_out_of_order_total
    inboundDropped,         \* ws_cluster_inbound_dropped_total
    \* history: what an instance heard since it started, and how much of it before
    \* its table was emptied last; what was broadcast; losses
    heardBus, emptied, broadcast, lost

busVars == <<epoch, roomLog, handing, inbox, lastSeq, gaps, regressions, inboundDropped,
             heardBus, emptied, broadcast, lost>>

BusInit ==
    /\ epoch = [i \in Insts |-> 0]
    /\ roomLog = [i \in Insts |-> [r \in BusRooms |-> <<>>]]
    /\ handing = [i \in Insts |-> {}]
    /\ inbox = [i \in Insts |-> <<>>]
    /\ lastSeq = [i \in Insts |-> <<>>]
    /\ gaps = [i \in Insts |-> 0] /\ regressions = [i \in Insts |-> 0]
    /\ inboundDropped = [i \in Insts |-> 0]
    /\ heardBus = [i \in Insts |-> <<>>] /\ emptied = [i \in Insts |-> 0]
    /\ broadcast = {} /\ lost = 0

-----------------------------------------------------------------------------
\* mutant: a restarted instance keeps its name
InstIdFixed(i) == <<i, 0>>

\* instanceId: the process id and the time of its start.
InstId(i) == <<i, epoch[i]>>

Spent == Cardinality(broadcast) + MapThenSumSet(LAMBDA i : epoch[i], Insts)

NextNumber(i, r) == Len(roomLog[i][r]) + 1

\* An entry of a room: the message it is (none for a notice) and the number in
\* the payload its clients get.
Entry(packet, shown) == [packet |-> packet, shown |-> shown]
Notice == [from |-> <<>>, life |-> 0, room |-> <<>>, number |-> 0]

EnterRoom(i, r, entry) ==
    roomLog' = [roomLog EXCEPT ![i][r] = Append(@, entry)]

-----------------------------------------------------------------------------
(* fanOutRoom: a local client's message and a join or leave notice *)

\* Accepted and numbered under pubMtx; the broadcast follows after its release.
\* (life is not in the packet: it tells the properties who sent it)
PublishRoom(i, r) ==
    LET p == [from |-> InstId(i), life |-> epoch[i], room |-> r, number |-> NextNumber(i, r)]
    IN  /\ p.number <= MaxNumber /\ Spent < MaxSent
        /\ EnterRoom(i, r, Entry(p, p.number))
        /\ handing' = [handing EXCEPT ![i] = @ \cup {p}]
        /\ broadcast' = broadcast \cup {p}
        /\ UNCHANGED <<epoch, inbox, lastSeq, gaps, regressions, inboundDropped, heardBus,
                       emptied, lost>>

\* broadcastToCluster = false: a notice takes a number and stays here.
PublishNotice(i, r) ==
    /\ NextNumber(i, r) <= MaxNumber
    /\ EnterRoom(i, r, Entry(Notice, NextNumber(i, r)))
    /\ UNCHANGED <<epoch, handing, inbox, lastSeq, gaps, regressions, inboundDropped,
                   heardBus, emptied, broadcast, lost>>

\* publishToCluster: PUBLISH to every subscriber, the sender too.
HandToRedis(i, p) ==
    /\ p \in handing[i]
    /\ handing' = [handing EXCEPT ![i] = @ \ {p}]
    /\ inbox' = [j \in Insts |-> Append(inbox[j], p)]
    /\ UNCHANGED <<epoch, roomLog, lastSeq, gaps, regressions, inboundDropped, heardBus,
                   emptied, broadcast, lost>>

\* The error callback: only counted.
PublishFails(i, p) ==
    /\ p \in handing[i] /\ lost < MaxLost
    /\ handing' = [handing EXCEPT ![i] = @ \ {p}]
    /\ lost' = lost + 1
    /\ UNCHANGED <<epoch, roomLog, inbox, lastSeq, gaps, regressions, inboundDropped,
                   heardBus, emptied, broadcast>>

\* Redis keeps nothing for a subscriber whose connection is down.
LosePacket(i) ==
    /\ inbox[i] # <<>> /\ lost < MaxLost
    /\ inbox' = [inbox EXCEPT ![i] = Tail(@)]
    /\ lost' = lost + 1
    /\ UNCHANGED <<epoch, roomLog, handing, lastSeq, gaps, regressions, inboundDropped,
                   heardBus, emptied, broadcast>>

-----------------------------------------------------------------------------
(* The subscription callback *)

Key(p) == <<p.from, p.room>>
Known(i, p) == Key(p) \in DOMAIN lastSeq[i]

MustEmptyNever(i, p) == FALSE       \* mutant: the table grows without limit
\* A full table is emptied before a new key goes in.
MustEmpty(i, p) == Cardinality(DOMAIN lastSeq[i]) >= MaxBaselines /\ ~Known(i, p)

MissingOffByOne(last, number) ==    \* mutant: the first missing number is not counted
    IF last # 0 /\ number > last + 2 THEN number - last - 2 ELSE 0
Missing(last, number) == IF last # 0 /\ number > last + 1 THEN number - last - 1 ELSE 0

Baseline(last, number) == Max({last, number})

CheckClusterRoomSeq(i, p) ==
    LET known == IF MustEmpty(i, p) THEN <<>> ELSE lastSeq[i]
        last  == IF Key(p) \in DOMAIN known THEN known[Key(p)] ELSE 0
    IN  /\ lastSeq' = [lastSeq EXCEPT ![i] =
                [k \in DOMAIN known \cup {Key(p)} |->
                    IF k = Key(p) THEN Baseline(last, p.number) ELSE known[k]]]
        /\ gaps' = [gaps EXCEPT ![i] = @ + Missing(last, p.number)]
        /\ regressions' = [regressions EXCEPT ![i] = @ + IF p.number <= last THEN 1 ELSE 0]
        /\ emptied' = [emptied EXCEPT ![i] = IF MustEmpty(i, p) THEN Len(heardBus[i]) ELSE @]
        /\ heardBus' = [heardBus EXCEPT ![i] = Append(@, p)]

OwnPacket(i, p) == p.from = InstId(i)

\* Redis forwards to the sender what it published.
ReceiveOwn(i) ==
    /\ inbox[i] # <<>> /\ OwnPacket(i, Head(inbox[i]))
    /\ inbox' = [inbox EXCEPT ![i] = Tail(@)]
    /\ UNCHANGED <<epoch, roomLog, handing, lastSeq, gaps, regressions, inboundDropped,
                   heardBus, emptied, broadcast, lost>>

Receive(i) ==
    /\ inbox[i] # <<>> /\ ~OwnPacket(i, Head(inbox[i]))
    /\ inbox' = [inbox EXCEPT ![i] = Tail(@)]
    /\ CheckClusterRoomSeq(i, Head(inbox[i]))
    /\ UNCHANGED <<epoch, handing, broadcast, lost>>

ShownOrigin(i, p) == p.number       \* mutant: the payload keeps the number of its origin
ShownHere(i, p) == NextNumber(i, p.room)

\* The room's clients get the message under a number of this room.
ReceiveAccepted(i) ==
    LET p == Head(inbox[i])
    IN  /\ Receive(i)
        /\ NextNumber(i, p.room) <= MaxNumber
        /\ EnterRoom(i, p.room, Entry(p, ShownHere(i, p)))
        /\ UNCHANGED inboundDropped

\* Nobody here is in the room: no number, no payload.
ReceiveNobody(i) ==
    /\ Receive(i)
    /\ UNCHANGED <<roomLog, inboundDropped>>

\* The room here is over its limit (or the payload cannot be read).
ReceiveRefused(i) ==
    /\ Receive(i)
    /\ inboundDropped' = [inboundDropped EXCEPT ![i] = @ + 1]
    /\ UNCHANGED roomLog

-----------------------------------------------------------------------------
\* A restarted instance has a new name and remembers nothing.
RestartInstance(i) ==
    /\ epoch[i] < MaxInstRestarts /\ Spent < MaxSent
    /\ epoch' = [epoch EXCEPT ![i] = @ + 1]
    /\ roomLog' = [roomLog EXCEPT ![i] = [r \in BusRooms |-> <<>>]]
    /\ handing' = [handing EXCEPT ![i] = {}]
    /\ inbox' = [inbox EXCEPT ![i] = <<>>]
    /\ lastSeq' = [lastSeq EXCEPT ![i] = <<>>]
    /\ gaps' = [gaps EXCEPT ![i] = 0] /\ regressions' = [regressions EXCEPT ![i] = 0]
    /\ inboundDropped' = [inboundDropped EXCEPT ![i] = 0]
    /\ heardBus' = [heardBus EXCEPT ![i] = <<>>] /\ emptied' = [emptied EXCEPT ![i] = 0]
    /\ UNCHANGED <<broadcast, lost>>

BusNext == \E i \in Insts :
    \/ \E r \in BusRooms : PublishRoom(i, r) \/ PublishNotice(i, r)
    \/ \E p \in handing[i] : HandToRedis(i, p) \/ PublishFails(i, p)
    \/ LosePacket(i)
    \/ ReceiveOwn(i) \/ ReceiveAccepted(i) \/ ReceiveNobody(i) \/ ReceiveRefused(i)
    \/ RestartInstance(i)

BusSpec == BusInit /\ [][BusNext]_busVars

-----------------------------------------------------------------------------
(* Properties *)

Packets == [from : Insts \X (0 .. MaxInstRestarts), life : 0 .. MaxInstRestarts,
            room : BusRooms, number : 1 .. MaxNumber]

BusTypeOK ==
    /\ broadcast \in SUBSET Packets
    /\ \A i \in Insts :
        /\ handing[i] \subseteq broadcast /\ Range(inbox[i]) \subseteq broadcast
        /\ \A k \in DOMAIN lastSeq[i] : lastSeq[i][k] \in 1 .. MaxNumber
        /\ Cardinality(DOMAIN lastSeq[i]) <= MaxBaselines
        /\ gaps[i] \in Nat /\ regressions[i] \in Nat /\ inboundDropped[i] \in Nat

\* The clients of an instance see one series of numbers in a room, whichever
\* instance a message came from: the number in the payload is the message's
\* place in the room, so that a cursor works across origins.  And what was
\* written here is there once, although Redis sends it back.  (initClusterBus:
\* instId, the payload rebuilt with the local number)
OneNumberSpace == \A i \in Insts, r \in BusRooms :
    LET log == roomLog[i][r]
    IN  \A m, n \in DOMAIN log :
            /\ log[n].shown = n
            /\ m < n /\ log[n].packet # Notice => log[m].packet # log[n].packet

\* What was heard since the table was emptied last.
Recent(i) == SubSeq(heardBus[i], emptied[i] + 1, Len(heardBus[i]))

\* The first packet of its room, and what is heard of that room.
IsFirst(s, x) == \A y \in 1 .. x - 1 : Key(s[y]) # Key(s[x])
NumbersOf(s, x) == {s[y].number : y \in {z \in DOMAIN s : Key(s[z]) = Key(s[x])}}

\* Numbers between the first and the highest heard of a room that never came,
\* each with the place of that first packet.
IsHole(s, x, n) ==
    /\ IsFirst(s, x) /\ s[x].number < n /\ n \notin NumbersOf(s, x)
    /\ \E high \in NumbersOf(s, x) : n < high
Holes(s) == {h \in (DOMAIN s) \X (1 .. MaxNumber) : IsHole(s, h[1], h[2])}

\* Packets that came after a higher or the same number of their room, both of one
\* life of their origin.
Inversions(s) ==
    {x \in DOMAIN s : \E y \in 1 .. x - 1 :
        Key(s[y]) = Key(s[x]) /\ s[y].life = s[x].life /\ s[y].number >= s[x].number}

\* Of the holes, those of messages that were broadcast; the others are numbers that
\* the origin gave to what it keeps to itself, notices and messages from the bus.
WasBroadcast(s, h) == \E q \in broadcast : Key(q) = Key(s[h[1]]) /\ q.number = h[2]
LostHoles(s) == {h \in Holes(s) : WasBroadcast(s, h)}
UnsentHoles(s) == Holes(s) \ LostHoles(s)

\* The detector overlooks no loss: every message that was broadcast and is missing
\* between two numbers it has heard is in the gap counter, over all origins and
\* rooms, however the packets overtook each other.  Until the table is emptied the
\* counter holds besides them only numbers that came late and numbers that were
\* never broadcast; that it holds the latter is not what the code's comments say
\* (GapsAreLosses).  (checkClusterRoomSeq)
LossNoticed == \A i \in Insts :
    /\ gaps[i] >= Cardinality(LostHoles(Recent(i)))
    /\ emptied[i] = 0
        => gaps[i] <= Cardinality(LostHoles(Recent(i))) + Cardinality(UnsentHoles(Recent(i)))
                        + regressions[i]

\* A gap is what the comments call it, as many "messages sent from this origin to
\* this room that did not reach this instance" (checkClusterRoomSeq): a packet adds
\* no more to the counter than there are messages that its origin broadcast to its
\* room before it and that were not heard.
NotArrived(i, p) ==
    {q \in broadcast : Key(q) = Key(p) /\ q.number < p.number /\ q \notin Range(heardBus[i])}
GapsAreLosses ==
    [][\A i \in Insts :
        gaps'[i] > gaps[i]
            => gaps'[i] - gaps[i] <= Cardinality(NotArrived(i, Head(inbox[i])))]_busVars

\* A regression is counted only for a packet that came late or twice, also when
\* an instance restarted and numbers its rooms from one again; and as long as
\* the table was not emptied every such packet is counted.
RegressionsHonest == \A i \in Insts :
    /\ regressions[i] <= Cardinality(Inversions(heardBus[i]))
    /\ regressions[i] >= Cardinality(Inversions(Recent(i)))

=============================================================================

---------------------------- MODULE ProcessProofs ---------------------------
(***************************************************************************)
(* What is proved of the machinery of a process: the life of a connection  *)
(* between session table and room (ChatSessions), its token bucket         *)
(* (MessageRate), the ordered queue of the archive from submit to the      *)
(* broker (PersistQueue), the start and the exit of the process with its   *)
(* consumers and their pool (KafkaConsumers), the sleep of the fan-out     *)
(* workers (WorkerParking), the rate-limited line (LogLimiter) and the     *)
(* verdict on the bus (BusProbe).                                          *)
(*                                                                         *)
(* Connections: SessInv says at which stage of a connection's life the     *)
(* table holds it; what comes first in the opening is undone first in the  *)
(* closing, also where the opening was broken off.                         *)
(* Bucket: BucketInv relates, for every tick that was, what was let        *)
(* through since to what is left and to the moment of the last fill.       *)
(* Queue: OrderInv says that along broker, librdkafka, worker, stripe and  *)
(* submitter the messages of one key only get younger.  That no task is in *)
(* two places follows from the order, that none is lost is PlaceInv, and   *)
(* pending_ is the number of what is Unserved (CountInv).                  *)
(* Consumers: KafkaInv says which of a consumer, its poll thread, the pool *)
(* and the logger the exit has still to undo, and that before the end of a *)
(* consumer its thread is joined and its tasks are waited for.             *)
(* Workers: ParkingInv says that a ready shard has somebody who will look. *)
(***************************************************************************)
EXTENDS ChatSessions, MessageRate, PersistQueue, KafkaConsumers, WorkerParking, LogLimiter,
        BusProbe, TLAPS, FiniteSetTheorems, SequenceTheorems

(***************************************************************************)
(* Connections (ChatSessions).                                             *)
(***************************************************************************)

Stages == {"away", "bare", "context", "listed", "subscribed", "open", "leaving", "gone"}

SessTypes ==
    /\ life \in [Conns -> Stages]
    /\ listed \in [UserNames -> SUBSET Conns] /\ members \in SUBSET Conns
    /\ cut \subseteq Conns /\ silent \subseteq Conns /\ gateShut \subseteq Conns
    /\ timer \in [at : {"rest", "evict", "sweep"}, left : SUBSET Conns,
                  now : Conns \cup {"none"}]

(* A session is listed under its own name, from the table's hold in the opening
   to the one in the closing, whether or not the opening was broken off. *)
ListedInv ==
    /\ \A u \in UserNames : \A c \in listed[u] : UserOf[c] = u
    /\ \A c \in Conns :
        /\ life[c] \in {"away", "bare", "context", "leaving", "gone"} => c \notin listed[UserOf[c]]
        /\ life[c] \in {"listed", "subscribed"} => c \in listed[UserOf[c]]
        /\ life[c] = "open" /\ c \notin cut => c \in listed[UserOf[c]]

MembersInv ==
    /\ IsFiniteSet(members) /\ Cardinality(members) <= RoomCap
    /\ \A c \in members : life[c] \in {"subscribed", "open", "leaving"}

SessInv == SessTypes /\ ListedInv /\ MembersInv

(* A step of one connection leaves what is known of the others alone. *)
LEMMA OthersStay ==
    ASSUME SessInv, SessTypes', NEW c \in Conns,
           \A d \in Conns \ {c} : life'[d] = life[d] /\ (d \in cut => d \in cut'),
           \A u \in UserNames : listed'[u] \ {c} = listed[u] \ {c},
           \A u \in UserNames : c \in listed'[u] => UserOf[c] = u,
           members' \ {c} = members \ {c},
           IsFiniteSet(members'), Cardinality(members') <= RoomCap,
           c \in members' => life'[c] \in {"subscribed", "open", "leaving"},
           life'[c] \in {"away", "bare", "context", "leaving", "gone"} => c \notin listed'[UserOf[c]],
           life'[c] \in {"listed", "subscribed"} => c \in listed'[UserOf[c]],
           life'[c] = "open" /\ c \notin cut' => c \in listed'[UserOf[c]]
    PROVE  SessInv'
<1>1. \A d \in Conns : UserOf[d] \in UserNames
  BY SessionsAssumption
<1>2. \A u \in UserNames : listed'[u] \subseteq Conns
  BY DEF SessTypes
<1>3. \A u \in UserNames : \A d \in listed'[u] : UserOf[d] = u
  BY <1>2 DEF SessInv, ListedInv
<1>4. ASSUME NEW d \in Conns
      PROVE  /\ life'[d] \in {"away", "bare", "context", "leaving", "gone"}
                  => d \notin listed'[UserOf[d]]
             /\ life'[d] \in {"listed", "subscribed"} => d \in listed'[UserOf[d]]
             /\ life'[d] = "open" /\ d \notin cut' => d \in listed'[UserOf[d]]
  <2>1. CASE d = c
    BY <2>1
  <2>2. CASE d # c
    <3>1. life'[d] = life[d] /\ (d \in cut => d \in cut')
      BY <2>2
    <3>2. d \in listed'[UserOf[d]] <=> d \in listed[UserOf[d]]
      BY <1>1, <2>2
    <3> QED BY <3>1, <3>2 DEF SessInv, ListedInv
  <2> QED BY <2>1, <2>2
<1>5. ListedInv'
  BY <1>3, <1>4 DEF ListedInv
<1>6. MembersInv'
  BY DEF SessInv, SessTypes, MembersInv
<1> QED BY <1>5, <1>6 DEF SessInv

(* The opening: the table, then the room.  What comes first is undone by the
   closing also when what comes second was never reached. *)
LEMMA OpeningSteps ==
    ASSUME SessInv, NEW c \in Conns,
           \/ Opens(c) \/ OpensBare(c) \/ EntersTable(c) \/ Subscribes(c) \/ RoomFull(c)
           \/ Joins(c) \/ OpeningFails(c)
    PROVE  SessInv'
<1> USE DEF Becomes, ForceClose
<1>1. UserOf[c] \in UserNames /\ life \in [Conns -> Stages] /\ c \notin {} /\ RoomCap \in Nat
  BY SessionsAssumption DEF SessInv, SessTypes
<1>2. ASSUME Opens(c) \/ OpensBare(c) PROVE SessInv'
  <2>1. /\ life[c] = "away" /\ life'[c] \in {"context", "bare"}
        /\ \A d \in Conns \ {c} : life'[d] = life[d]
        /\ listed' = listed /\ members' = members /\ cut \subseteq cut'
    BY <1>1, <1>2 DEF Opens, OpensBare
  <2>2. SessTypes'
    BY <1>2 DEF Opens, OpensBare, SessInv, SessTypes, Stages
  <2> QED BY <2>1, <2>2, OthersStay DEF SessInv, ListedInv, MembersInv
<1>3. ASSUME EntersTable(c) PROVE SessInv'
  <2>1. /\ life[c] = "context" /\ life'[c] = "listed"
        /\ \A d \in Conns \ {c} : life'[d] = life[d]
        /\ members' = members /\ cut' = cut
        /\ listed' = [listed EXCEPT ![UserOf[c]] = @ \cup {c}]
    BY <1>1, <1>3 DEF EntersTable
  <2>2. SessTypes'
    BY <1>1, <1>3 DEF EntersTable, SessInv, SessTypes, Stages
  <2>3. /\ c \in listed'[UserOf[c]]
        /\ \A u \in UserNames : listed'[u] \ {c} = listed[u] \ {c}
        /\ \A u \in UserNames : c \in listed'[u] => UserOf[c] = u
    BY <1>1, <2>1 DEF SessInv, SessTypes, ListedInv
  <2> QED BY <2>1, <2>2, <2>3, OthersStay DEF SessInv, MembersInv
<1>4. ASSUME Subscribes(c) PROVE SessInv'
  <2>1. /\ life[c] = "listed" /\ life'[c] = "subscribed"
        /\ \A d \in Conns \ {c} : life'[d] = life[d]
        /\ listed' = listed /\ cut' = cut
        /\ Cardinality(members) < RoomCap /\ members' = members \cup {c}
    BY <1>1, <1>4 DEF Subscribes
  <2>2. SessTypes'
    BY <1>1, <1>4 DEF Subscribes, SessInv, SessTypes, Stages
  <2>3. /\ IsFiniteSet(members')
        /\ Cardinality(members') = Cardinality(members)
              \/ Cardinality(members') = Cardinality(members) + 1
    BY <2>1, FS_AddElement DEF SessInv, MembersInv
  <2>4. Cardinality(members) \in Nat
    BY FS_CardinalityType DEF SessInv, MembersInv
  <2>5. Cardinality(members') <= RoomCap
    BY <1>1, <2>1, <2>3, <2>4
  <2> QED BY <2>1, <2>2, <2>3, <2>5, OthersStay DEF SessInv, ListedInv
<1>5. ASSUME RoomFull(c) \/ Joins(c) \/ OpeningFails(c) PROVE SessInv'
  <2>1. /\ life[c] \in {"context", "listed", "subscribed"} /\ life'[c] = "open"
        /\ life[c] = "context" => c \in cut'
        /\ \A d \in Conns \ {c} : life'[d] = life[d]
        /\ listed' = listed /\ members' = members /\ cut \subseteq cut'
    BY <1>1, <1>5 DEF RoomFull, Joins, OpeningFails
  <2>2. SessTypes'
    BY <1>5 DEF RoomFull, Joins, OpeningFails, SessInv, SessTypes, Stages
  <2> QED BY <2>1, <2>2, OthersStay DEF SessInv, ListedInv, MembersInv
<1> QED BY <1>2, <1>3, <1>4, <1>5

(* The closing. *)
LEMMA ClosingSteps ==
    ASSUME SessInv, NEW c \in Conns,
           PeerCloses(c) \/ ClosesBare(c) \/ LeavesTable(c) \/ LeavesRoom(c)
    PROVE  SessInv'
<1> USE DEF Becomes, ForceClose
<1>1. UserOf[c] \in UserNames /\ life \in [Conns -> Stages]
  BY SessionsAssumption DEF SessInv, SessTypes
<1>2. ASSUME PeerCloses(c) \/ ClosesBare(c) PROVE SessInv'
  <2>1. /\ \A d \in Conns \ {c} : life'[d] = life[d]
        /\ \/ life[c] = "open" /\ life'[c] = "open" /\ c \in cut'
           \/ life[c] = "bare" /\ life'[c] = "gone"
        /\ listed' = listed /\ members' = members /\ cut \subseteq cut'
    BY <1>1, <1>2 DEF PeerCloses, ClosesBare
  <2>2. SessTypes'
    BY <1>2 DEF PeerCloses, ClosesBare, SessInv, SessTypes, Stages
  <2> QED BY <2>1, <2>2, OthersStay DEF SessInv, ListedInv, MembersInv
<1>3. ASSUME LeavesTable(c) PROVE SessInv'
  <2>1. /\ life[c] = "open" /\ life'[c] = "leaving"
        /\ \A d \in Conns \ {c} : life'[d] = life[d]
        /\ members' = members /\ cut' = cut
        /\ listed' = [listed EXCEPT ![UserOf[c]] = @ \ {c}]
    BY <1>1, <1>3 DEF LeavesTable
  <2>2. SessTypes'
    BY <1>1, <1>3 DEF LeavesTable, SessInv, SessTypes, Stages
  <2>3. /\ c \notin listed'[UserOf[c]]
        /\ \A u \in UserNames : listed'[u] \ {c} = listed[u] \ {c}
        /\ \A u \in UserNames : c \in listed'[u] => UserOf[c] = u
    BY <1>1, <2>1 DEF SessInv, SessTypes, ListedInv
  <2> QED BY <2>1, <2>2, <2>3, OthersStay DEF SessInv, MembersInv
<1>4. ASSUME LeavesRoom(c) PROVE SessInv'
  <2>1. /\ life[c] = "leaving" /\ life'[c] = "gone"
        /\ \A d \in Conns \ {c} : life'[d] = life[d]
        /\ members' = members \ {c} /\ cut' = cut /\ listed' = listed
    BY <1>1, <1>4 DEF LeavesRoom
  <2>2. SessTypes'
    BY <1>1, <1>4 DEF LeavesRoom, SessInv, SessTypes, Stages
  <2>3. members' \in SUBSET members
    BY <2>1
  <2>4. IsFiniteSet(members') /\ Cardinality(members') <= Cardinality(members)
    BY <2>3, FS_Subset DEF SessInv, MembersInv
  <2>5. Cardinality(members) \in Nat /\ Cardinality(members') \in Nat /\ RoomCap \in Nat
    BY <2>4, FS_CardinalityType, SessionsAssumption DEF SessInv, MembersInv
  <2>6. Cardinality(members') <= RoomCap
    BY <2>4, <2>5 DEF SessInv, MembersInv
  <2> QED BY <2>1, <2>2, <2>4, <2>6, OthersStay DEF SessInv, ListedInv
<1> QED BY <1>2, <1>3, <1>4

(* Frames, silence, congestion and the timer touch neither table nor room; the
   evictor closes connections. *)
LEMMA OtherSessSteps ==
    ASSUME SessInv, Timer \/ \E c \in Conns : \/ Frame(c) \/ FallsSilent(c)
                                             \/ HighWater(c) \/ CalmsDown(c)
    PROVE  SessInv'
<1>1. life' = life /\ listed' = listed /\ members' = members /\ cut \subseteq cut'
  BY DEF Timer, EvictSnapshot, EvictNext, SweepSnapshot, SweepReads, SweepOpens, TimerRests,
         Frame, FallsSilent, HighWater, CalmsDown
<1>2. SessTypes'
  <2> USE DEF SessInv, SessTypes
  <2>1. Listed \subseteq Conns
    BY DEF Listed
  <2>2. CASE Timer
    <3>1. CASE EvictSnapshot \/ SweepSnapshot \/ SweepOpens \/ TimerRests
      BY <2>1, <3>1 DEF EvictSnapshot, SweepSnapshot, SweepOpens, TimerRests, Resting
    <3>2. CASE \E c \in Conns : EvictNext(c) \/ SweepReads(c)
      BY <3>2 DEF EvictNext, SweepReads
    <3> QED BY <2>2, <3>1, <3>2 DEF Timer
  <2>3. CASE \E c \in Conns : Frame(c) \/ FallsSilent(c) \/ HighWater(c) \/ CalmsDown(c)
    BY <2>3 DEF Frame, FallsSilent, HighWater, CalmsDown
  <2> QED BY <2>2, <2>3
<1>3. ListedInv' /\ MembersInv'
  BY <1>1 DEF SessInv, ListedInv, MembersInv
<1> QED BY <1>2, <1>3 DEF SessInv

LEMMA SessInvHolds == SessSafety => []SessInv
<1>1. SessInit => SessInv
  <2> SUFFICES ASSUME SessInit PROVE SessInv
    OBVIOUS
  <2>1. SessTypes
    BY DEF SessInit, SessTypes, Stages, Resting
  <2>2. ListedInv
    BY SessionsAssumption DEF SessInit, ListedInv
  <2>3. MembersInv
    BY FS_EmptySet, SessionsAssumption DEF SessInit, MembersInv
  <2> QED BY <2>1, <2>2, <2>3 DEF SessInv
<1>2. SessInv /\ [SessNext]_sessVars => SessInv'
  <2>1. ASSUME SessInv, SessNext PROVE SessInv'
    BY <2>1, OpeningSteps, ClosingSteps, OtherSessSteps DEF SessNext, Handler
  <2>2. ASSUME SessInv, UNCHANGED sessVars PROVE SessInv'
    BY <2>2 DEF sessVars, SessInv, SessTypes, ListedInv, MembersInv
  <2> QED BY <2>1, <2>2
<1> QED BY <1>1, <1>2, PTL DEF SessSafety

(* The table of sessions and the room stay within their types and the limit
   maxSubscribersPerRoom, for every number of connections and names. *)
THEOREM SessionTypesKept == SessSafety => []SessTypeOK
<1>1. SessInv => SessTypeOK
  BY DEF SessInv, SessTypes, Stages, ListedInv, MembersInv, SessTypeOK
<1> QED BY <1>1, SessInvHolds, PTL

(* Whoever stays is found and whoever is gone is not, wherever the opening was
   broken off and whoever else has the name. *)
THEOREM NoZombiesNoGhosts == SessSafety => []NeitherZombieNorGhost
<1>1. ASSUME SessInv PROVE NeitherZombieNorGhost
  <2>1. \A c \in Conns : UserOf[c] \in UserNames
    BY SessionsAssumption
  <2>2. \A c \in Conns : c \in Listed <=> c \in listed[UserOf[c]]
    BY <1>1, <2>1 DEF Listed, SessInv, ListedInv
  <2> QED BY <1>1, <2>2 DEF NeitherZombieNorGhost, SessInv, ListedInv, MembersInv
<1> QED BY <1>1, SessInvHolds, PTL

(***************************************************************************)
(* The ordered persistence queue (PersistQueue).                           *)
(***************************************************************************)

Tasks == {t \in ArchiveKeys \X Nat : t[2] \in 1 .. MaxPerKey[t[1]]}

Hands == {Nothing} \cup [at : {"push", "notify"}, task : Tasks]
Jobs == {Nothing, Asleep, Gone} \cup [at : {"taken", "produce"}, task : Tasks]

QueueTypes ==
    /\ submitting \in [Submitters -> Hands]
    /\ submitted \in [ArchiveKeys -> Nat]
    /\ \A k \in ArchiveKeys : submitted[k] <= MaxPerKey[k]
    /\ tasks \in [Stripes -> Seq(Tasks)]
    /\ pendingTasks \in Int
    /\ working \in [Stripes -> Jobs]
    /\ stopped \subseteq Stripes
    /\ exiting \in {"no", "queue", "producer", "done"}
    /\ local \in Seq(Tasks) /\ brokerLog \in Seq(Tasks)

(* What a stripe's worker and the submitters have in hand, as sets. *)
AtWorker(s) == IF working[s].at \in {"taken", "produce"} THEN {working[s].task} ELSE {}
AtPush == {submitting[p].task : p \in {q \in Submitters : submitting[q].at = "push"}}

(* Messages of one key: a's are older than b's. *)
Precede(a, b) == \A x \in a, y \in b : x[1] = y[1] => x[2] < y[2]
RisingByKey(q) == \A m, n \in DOMAIN q : m < n /\ q[m][1] = q[n][1] => q[m][2] < q[n][2]

(* A stripe has the tasks of its keys. *)
StripesKeepTheirs == \A s \in Stripes :
    /\ \A t \in Range(tasks[s]) : StripeIndex(t) = s
    /\ \A t \in AtWorker(s) : StripeIndex(t) = s

(* One room submits one message after another. *)
OneInHand == \A p, q \in Submitters :
    InHand(p) /\ InHand(q) /\ submitting[p].task[1] = submitting[q].task[1] => p = q

Pipeline ==
    /\ RisingByKey(brokerLog) /\ RisingByKey(local) /\ \A s \in Stripes : RisingByKey(tasks[s])
    /\ Precede(Range(brokerLog), Range(local))
    /\ \A s \in Stripes :
        /\ Precede(Range(brokerLog), AtWorker(s)) /\ Precede(Range(local), AtWorker(s))
        /\ Precede(Range(brokerLog), Range(tasks[s])) /\ Precede(Range(local), Range(tasks[s]))
        /\ Precede(AtWorker(s), Range(tasks[s]))
        /\ Precede(AtWorker(s), AtPush) /\ Precede(Range(tasks[s]), AtPush)
    /\ Precede(Range(brokerLog), AtPush) /\ Precede(Range(local), AtPush)

KnownTask(t) == t[2] <= submitted[t[1]]
NoneFromNowhere ==
    /\ \A t \in Range(brokerLog) \cup Range(local) \cup AtPush : KnownTask(t)
    /\ \A s \in Stripes : \A t \in Range(tasks[s]) \cup AtWorker(s) : KnownTask(t)

OrderInv == QueueTypes /\ StripesKeepTheirs /\ OneInHand /\ Pipeline /\ NoneFromNowhere

-----------------------------------------------------------------------------
(* What the two ends of a queue do to its order. *)
LEMMA AppendKeepsRising ==
    ASSUME NEW q \in Seq(Tasks), NEW t \in Tasks
    PROVE  /\ Append(q, t) \in Seq(Tasks)
           /\ Range(Append(q, t)) = Range(q) \cup {t}
           /\ RisingByKey(q) /\ Precede(Range(q), {t}) => RisingByKey(Append(q, t))
<1>1. /\ Len(Append(q, t)) = Len(q) + 1 /\ Len(q) \in Nat
      /\ \A i \in 1 .. Len(q) : Append(q, t)[i] = q[i]
      /\ Append(q, t)[Len(q) + 1] = t
      /\ DOMAIN q = 1 .. Len(q) /\ DOMAIN Append(q, t) = 1 .. Len(q) + 1
      /\ Append(q, t) \in Seq(Tasks)
  BY AppendProperties
<1>2. Range(Append(q, t)) = Range(q) \cup {t}
  <2>1. 1 .. Len(q) + 1 = (1 .. Len(q)) \cup {Len(q) + 1}
    BY <1>1
  <2> QED BY <1>1, <2>1 DEF Range
<1>3. ASSUME RisingByKey(q), Precede(Range(q), {t}) PROVE RisingByKey(Append(q, t))
  <2> DEFINE r == Append(q, t)
  <2>1. SUFFICES ASSUME NEW m \in DOMAIN r, NEW n \in DOMAIN r, m < n, r[m][1] = r[n][1]
                 PROVE  r[m][2] < r[n][2]
    BY DEF RisingByKey
  <2>2. m \in DOMAIN q /\ r[m] = q[m]
    BY <1>1, <2>1
  <2>3. CASE n = Len(q) + 1
    BY <1>1, <1>3, <2>1, <2>2, <2>3 DEF Precede, Range
  <2>4. CASE n # Len(q) + 1
    <3>1. n \in DOMAIN q /\ r[n] = q[n]
      BY <1>1, <2>4
    <3> QED BY <1>3, <2>1, <2>2, <3>1 DEF RisingByKey
  <2> QED BY <2>3, <2>4
<1> QED BY <1>1, <1>2, <1>3

LEMMA TailKeepsRising ==
    ASSUME NEW q \in Seq(Tasks), q # <<>>
    PROVE  /\ Tail(q) \in Seq(Tasks) /\ Head(q) \in Tasks
           /\ Range(q) = Range(Tail(q)) \cup {Head(q)}
           /\ RisingByKey(q) => RisingByKey(Tail(q)) /\ Precede({Head(q)}, Range(Tail(q)))
<1>1. /\ Len(q) \in Nat \ {0} /\ Tail(q) \in Seq(Tasks) /\ Len(Tail(q)) = Len(q) - 1
      /\ DOMAIN q = 1 .. Len(q) /\ DOMAIN Tail(q) = 1 .. Len(q) - 1
      /\ \A i \in 1 .. Len(q) - 1 : Tail(q)[i] = q[i + 1]
      /\ Head(q) = q[1] /\ Head(q) \in Tasks
  BY HeadTailProperties, EmptySeq
<1>2. Range(q) = Range(Tail(q)) \cup {Head(q)}
  <2>1. ASSUME NEW i \in 1 .. Len(q) PROVE q[i] \in Range(Tail(q)) \cup {Head(q)}
    <3>1. CASE i = 1
      BY <1>1, <3>1
    <3>2. CASE i # 1
      <4>1. i - 1 \in 1 .. Len(q) - 1 /\ Tail(q)[i - 1] = q[i]
        BY <1>1, <3>2
      <4> QED BY <1>1, <4>1 DEF Range
    <3> QED BY <3>1, <3>2
  <2>2. \A i \in 1 .. Len(q) - 1 : i + 1 \in 1 .. Len(q)
    BY <1>1
  <2> QED BY <1>1, <2>1, <2>2 DEF Range
<1>3. ASSUME RisingByKey(q) PROVE RisingByKey(Tail(q)) /\ Precede({Head(q)}, Range(Tail(q)))
  <2>1. \A i \in 1 .. Len(q) - 1 : i + 1 \in DOMAIN q /\ 1 < i + 1 /\ 1 \in DOMAIN q
    BY <1>1
  <2>2. \A i, j \in 1 .. Len(q) - 1 : i < j => i + 1 < j + 1
    BY <1>1
  <2>3. RisingByKey(Tail(q))
    BY <1>1, <1>3, <2>1, <2>2 DEF RisingByKey
  <2>4. Precede({Head(q)}, Range(Tail(q)))
    BY <1>1, <1>3, <2>1 DEF RisingByKey, Precede, Range
  <2> QED BY <2>3, <2>4
<1> QED BY <1>1, <1>2, <1>3

-----------------------------------------------------------------------------
(* What a submitter and a worker may have in hand. *)
LEMMA HandsAre ==
    ASSUME NEW h \in Hands
    PROVE  /\ h.at = "idle" <=> h = Nothing
           /\ h.at # "idle" => /\ h.at \in {"push", "notify"} /\ h.task \in Tasks
                               /\ [h EXCEPT !.at = "notify"] \in Hands
                               /\ [h EXCEPT !.at = "notify"].at = "notify"
                               /\ [h EXCEPT !.at = "notify"].task = h.task
  BY DEF Hands, Nothing

LEMMA NewHand ==
    ASSUME NEW t \in Tasks
    PROVE  /\ [at |-> "push", task |-> t] \in Hands /\ Nothing \in Hands
           /\ Nothing.at = "idle"
  BY DEF Hands, Nothing

LEMMA JobsAre ==
    ASSUME NEW j \in Jobs
    PROVE  /\ j \in {Nothing, Asleep, Gone} \/ j.at \in {"taken", "produce"}
           /\ j \in {Nothing, Asleep, Gone} => j.at \notin {"taken", "produce"}
           /\ j.at \in {"taken", "produce"} =>
                /\ j.task \in Tasks
                /\ [j EXCEPT !.at = "produce"] \in Jobs
                /\ [j EXCEPT !.at = "produce"].at = "produce"
                /\ [j EXCEPT !.at = "produce"].task = j.task
  BY DEF Jobs, Nothing, Asleep, Gone

LEMMA NewJob ==
    /\ {Nothing, Asleep, Gone} \subseteq Jobs
    /\ Nothing.at = "idle" /\ Asleep.at = "asleep" /\ Gone.at = "gone"
    /\ \A t \in Tasks : [at |-> "taken", task |-> t] \in Jobs
  BY DEF Jobs, Nothing, Asleep, Gone

LEMMA TasksAre ==
    ASSUME NEW t \in Tasks
    PROVE  t[1] \in ArchiveKeys /\ t[2] \in Nat /\ StripeIndex(t) \in Stripes
  BY QueueAssumption DEF Tasks, StripeIndex

LEMMA WhereTasksAre ==
    ASSUME QueueTypes
    PROVE  /\ \A s \in Stripes : Range(tasks[s]) \subseteq Tasks /\ AtWorker(s) \subseteq Tasks
           /\ Range(local) \subseteq Tasks /\ Range(brokerLog) \subseteq Tasks
           /\ AtPush \subseteq Tasks
<1>1. \A q \in Seq(Tasks) : Range(q) \subseteq Tasks
  BY DEF Range
<1>2. \A s \in Stripes : AtWorker(s) \subseteq Tasks
  BY JobsAre DEF QueueTypes, AtWorker
<1>3. AtPush \subseteq Tasks
  <2>1. ASSUME NEW p \in Submitters, submitting[p].at = "push" PROVE submitting[p].task \in Tasks
    <3>1. submitting[p] \in Hands /\ submitting[p].at # "idle"
      BY <2>1 DEF QueueTypes
    <3> QED BY <3>1, HandsAre
  <2> QED BY <2>1 DEF AtPush
<1> QED BY <1>1, <1>2, <1>3 DEF QueueTypes

-----------------------------------------------------------------------------
(* submit: the next number of the key, then the lock of its stripe. *)
LEMMA CheckStep ==
    ASSUME OrderInv, NEW p \in Submitters, NEW k \in ArchiveKeys, SubmitChecks(p, k)
    PROVE  OrderInv'
<1> DEFINE t == <<k, submitted[k] + 1>>
           h == [at |-> "push", task |-> t]
<1>1. /\ submitted \in [ArchiveKeys -> Nat] /\ submitted[k] < MaxPerKey[k]
      /\ MaxPerKey[k] \in Nat /\ submitted' = [submitted EXCEPT ![k] = @ + 1]
      /\ ~InHand(p)
      /\ submitting' = submitting \/ submitting' = [submitting EXCEPT ![p] = h]
      /\ \A q \in Submitters : InHand(q) => submitting[q].task[1] # k
      /\ UNCHANGED <<tasks, pendingTasks, working, stopped, exiting, local, brokerLog>>
  BY QueueAssumption DEF OrderInv, QueueTypes, SubmitChecks, OutSame
<1>2. t \in Tasks /\ t[1] = k /\ t[2] = submitted[k] + 1 /\ submitted[k] \in Nat
  BY <1>1 DEF Tasks
<1>3. h \in Hands /\ h.at = "push" /\ h.task = t
  BY <1>2, NewHand
<1> HIDE DEF t, h
<1>4. QueueTypes'
  <2>1. submitting' \in [Submitters -> Hands]
    BY <1>1, <1>3 DEF OrderInv, QueueTypes
  <2>2. submitted' \in [ArchiveKeys -> Nat] /\ \A x \in ArchiveKeys : submitted'[x] <= MaxPerKey[x]
    <3>1. \A x \in ArchiveKeys : submitted'[x] = IF x = k THEN submitted[k] + 1 ELSE submitted[x]
      BY <1>1
    <3>2. submitted[k] + 1 <= MaxPerKey[k]
      BY <1>1, <1>2
    <3> QED BY <1>1, <1>2, <3>1, <3>2 DEF OrderInv, QueueTypes
  <2> QED BY <1>1, <2>1, <2>2 DEF OrderInv, QueueTypes
<1>5. AtPush' \subseteq AtPush \cup {t} /\ \A s \in Stripes : AtWorker(s)' = AtWorker(s)
  <2>1. \A q \in Submitters : submitting'[q] = submitting[q] \/ submitting'[q] = h
    BY <1>1 DEF OrderInv, QueueTypes
  <2>2. \A x \in AtPush' : x \in AtPush \cup {t}
    BY <1>3, <2>1 DEF AtPush
  <2> QED BY <1>1, <2>2 DEF AtWorker
<1>6. OneInHand'
  BY <1>1, <1>2, <1>3 DEF OrderInv, OneInHand, InHand, QueueTypes
<1>7. StripesKeepTheirs'
  BY <1>1, <1>5 DEF OrderInv, StripesKeepTheirs, StripeIndex
<1>8. \A x \in Tasks : KnownTask(x) => KnownTask(x)' /\ (x[1] = k => x[2] < t[2])
  <2>1. ASSUME NEW x \in Tasks, KnownTask(x) PROVE KnownTask(x)' /\ (x[1] = k => x[2] < t[2])
    <3>1. x[1] \in ArchiveKeys /\ x[2] \in Nat /\ submitted[x[1]] \in Nat
      BY TasksAre, <1>1
    <3>2. submitted'[x[1]] = submitted[x[1]] \/ submitted'[x[1]] = submitted[x[1]] + 1
      BY <1>1, <3>1
    <3> QED BY <2>1, <1>2, <3>1, <3>2 DEF KnownTask
  <2> QED BY <2>1
<1>9. t[2] <= submitted'[t[1]]
  BY <1>1, <1>2
<1>10. NoneFromNowhere'
  <2>1. \A x \in Tasks : KnownTask(x) => x[2] <= submitted'[x[1]]
    BY <1>8 DEF KnownTask
  <2> QED BY <1>1, <1>5, <2>1, <1>9, WhereTasksAre DEF OrderInv, NoneFromNowhere, KnownTask
<1>11. Pipeline'
  <2>1. /\ Precede(Range(brokerLog), {t}) /\ Precede(Range(local), {t})
        /\ \A s \in Stripes : Precede(Range(tasks[s]), {t}) /\ Precede(AtWorker(s), {t})
    BY <1>2, <1>8, WhereTasksAre DEF OrderInv, NoneFromNowhere, Precede
  <2>2. \A a : Precede(a, {t}) /\ Precede(a, AtPush) => Precede(a, AtPush')
    BY <1>5 DEF Precede
  <2> QED BY <1>1, <1>5, <2>1, <2>2 DEF OrderInv, Pipeline
<1> QED BY <1>4, <1>6, <1>7, <1>10, <1>11 DEF OrderInv

LEMMA PushStep ==
    ASSUME OrderInv, NEW p \in Submitters, SubmitPushes(p)
    PROVE  OrderInv'
<1> DEFINE t == submitting[p].task
           s == StripeIndex(t)
<1>1. /\ submitting[p].at = "push" /\ t \in Tasks /\ t \in AtPush
      /\ s \in Stripes /\ submitting[p] \in Hands /\ submitting \in [Submitters -> Hands]
      /\ UNCHANGED <<submitted, working, stopped, exiting, local, brokerLog>>
  <2>1. submitting[p].at = "push" /\ submitting[p] \in Hands /\ t \in AtPush
    BY DEF OrderInv, QueueTypes, SubmitPushes, AtPush
  <2> QED BY <2>1, HandsAre, TasksAre DEF OrderInv, QueueTypes, SubmitPushes, OutSame
<1>2. PICK h \in Hands : /\ submitting' = [submitting EXCEPT ![p] = h]
                         /\ h.at = "idle" \/ (h.at = "notify" /\ h.task = t)
  <2>1. \/ submitting' = [submitting EXCEPT ![p] = Nothing]
        \/ submitting' = [submitting EXCEPT ![p] = [submitting[p] EXCEPT !.at = "notify"]]
    BY <1>1 DEF SubmitPushes
  <2>2. Nothing \in Hands /\ Nothing.at = "idle"
    BY <1>1, NewHand
  <2> DEFINE g == [submitting[p] EXCEPT !.at = "notify"]
  <2>3. g \in Hands /\ g.at = "notify" /\ g.task = t
    BY <1>1, HandsAre
  <2> HIDE DEF g
  <2> QED BY <2>1, <2>2, <2>3 DEF g
<1>3. /\ \A x \in AtPush' : x \in AtPush /\ x[1] # t[1]
      /\ \A r \in Stripes : AtWorker(r)' = AtWorker(r)
      /\ \A x \in AtPush' : KnownTask(x) => KnownTask(x)'
  <2>1. /\ \A q \in Submitters \ {p} : submitting'[q] = submitting[q]
        /\ submitting'[p].at # "push"
    BY <1>1, <1>2
  <2>2. \A q \in Submitters \ {p} : InHand(q) => submitting[q].task[1] # t[1]
    BY <1>1 DEF OrderInv, OneInHand, InHand
  <2>3. \A x \in AtPush' : x \in AtPush /\ x[1] # t[1]
    BY <1>1, <2>1, <2>2 DEF AtPush, InHand
  <2> QED BY <1>1, <2>3 DEF AtWorker, KnownTask
<1>4. OneInHand'
  <2>1. \A q \in Submitters : submitting'[q].at # "idle" =>
            submitting[q].at # "idle" /\ submitting'[q].task = submitting[q].task
    BY <1>1, <1>2
  <2> QED BY <2>1 DEF OrderInv, OneInHand, InHand
<1>5. submitting' \in [Submitters -> Hands]
  BY <1>1, <1>2
<1>6. CASE tasks' = tasks
  <2>1. QueueTypes'
    BY <1>1, <1>5, <1>6 DEF OrderInv, QueueTypes, SubmitPushes
  <2>2. StripesKeepTheirs' /\ NoneFromNowhere'
    BY <1>1, <1>3, <1>6 DEF OrderInv, StripesKeepTheirs, StripeIndex, NoneFromNowhere, KnownTask
  <2>3. Pipeline'
    BY <1>1, <1>3, <1>6 DEF OrderInv, Pipeline, Precede
  <2> QED BY <1>4, <2>1, <2>2, <2>3 DEF OrderInv
<1>7. CASE tasks' # tasks
  <2>1. tasks' = [tasks EXCEPT ![s] = Append(@, t)] /\ pendingTasks' = pendingTasks + 1
    BY <1>7 DEF SubmitPushes
  <2>2. /\ tasks'[s] = Append(tasks[s], t) /\ tasks[s] \in Seq(Tasks)
        /\ \A r \in Stripes \ {s} : tasks'[r] = tasks[r]
        /\ DOMAIN tasks' = Stripes
    BY <1>1, <2>1 DEF OrderInv, QueueTypes
  <2>3. /\ tasks'[s] \in Seq(Tasks) /\ Range(tasks'[s]) = Range(tasks[s]) \cup {t}
        /\ RisingByKey(tasks[s]) /\ Precede(Range(tasks[s]), {t}) => RisingByKey(tasks'[s])
    BY <1>1, <2>2, AppendKeepsRising
  <2>4. QueueTypes'
    <3>1. tasks' \in [Stripes -> Seq(Tasks)]
      BY <1>1, <2>1, <2>2, <2>3 DEF OrderInv, QueueTypes
    <3> QED BY <1>1, <1>5, <2>1, <3>1 DEF OrderInv, QueueTypes
  <2>5. StripesKeepTheirs'
    <3>1. \A x \in Range(tasks'[s]) : StripeIndex(x) = s
      BY <1>1, <2>3 DEF OrderInv, StripesKeepTheirs
    <3>2. \A x : StripeIndex(x)' = StripeIndex(x)
      BY DEF StripeIndex
    <3> QED BY <1>1, <1>3, <2>2, <3>1, <3>2 DEF OrderInv, StripesKeepTheirs
  <2>6. NoneFromNowhere'
    <3>1. \A x : KnownTask(x)' <=> KnownTask(x)
      BY <1>1 DEF KnownTask
    <3>2. KnownTask(t)
      BY <1>1 DEF OrderInv, NoneFromNowhere
    <3>3. \A x \in Range(brokerLog') \cup Range(local') \cup AtPush' : KnownTask(x)'
      BY <1>1, <1>3, <3>1 DEF OrderInv, NoneFromNowhere
    <3>4. \A r \in Stripes : \A x \in Range(tasks'[r]) \cup AtWorker(r)' : KnownTask(x)'
      BY <1>1, <1>3, <2>2, <2>3, <3>1, <3>2 DEF OrderInv, NoneFromNowhere
    <3> HIDE DEF t, s
    <3> QED BY <3>3, <3>4 DEF NoneFromNowhere
  <2>7. /\ Precede(Range(tasks[s]), {t}) /\ Precede(AtWorker(s), {t})
        /\ Precede(Range(brokerLog), {t}) /\ Precede(Range(local), {t})
    BY <1>1 DEF OrderInv, Pipeline, Precede
  <2>8. Pipeline'
    <3>1. \A a : Precede(a, Range(tasks[s])) /\ Precede(a, {t}) => Precede(a, Range(tasks'[s]))
      BY <2>3 DEF Precede
    <3>2. Precede(Range(tasks'[s]), AtPush')
      BY <1>1, <1>3, <2>3 DEF OrderInv, Pipeline, Precede
    <3>3. \A a : Precede(a, AtPush) => Precede(a, AtPush')
      BY <1>3 DEF Precede
    <3> QED BY <1>1, <1>3, <2>2, <2>3, <2>7, <3>1, <3>2, <3>3 DEF OrderInv, Pipeline
  <2> QED BY <1>4, <2>4, <2>5, <2>6, <2>8 DEF OrderInv
<1> QED BY <1>6, <1>7

(* Waking a worker, a worker's sleep and its end, the wish to stop: no task
   moves. *)
LEMMA NoTaskMoves ==
    ASSUME OrderInv,
           \/ \E p \in Submitters : SubmitNotifies(p)
           \/ \E s \in Stripes : \/ WorkerSleeps(s) \/ WorkerCounts(s) \/ WorkerLeaves(s)
                                 \/ StopStripe(s)
           \/ ExitBegins \/ JoinWorkers
    PROVE  /\ QueueTypes' /\ OneInHand' /\ AtPush' = AtPush
           /\ \A s \in Stripes : AtWorker(s)' = AtWorker(s)
           /\ UNCHANGED <<submitted, tasks, local, brokerLog>>
<1>1. /\ working \in [Stripes -> Jobs]
      /\ \/ UNCHANGED working
         \/ \E s \in Stripes, j \in Jobs :
                /\ working' = [working EXCEPT ![s] = j]
                /\ \/ working[s].at \notin {"taken", "produce"} /\ j.at \notin {"taken", "produce"}
                   \/ j = working[s]
                   \/ working[s].at = "taken" /\ j.at = "produce" /\ j.task = working[s].task
  <2>1. \A p \in Submitters : SubmitNotifies(p) => StripeIndex(submitting[p].task) \in Stripes
    BY HandsAre, TasksAre DEF SubmitNotifies, OrderInv, QueueTypes
  <2>2. working \in [Stripes -> Jobs]
    BY DEF OrderInv, QueueTypes
  <2>3. \A s \in Stripes : Woken(s) \in Jobs /\
            (Woken(s) = working[s] \/ (Woken(s).at = "idle" /\ working[s].at = "asleep"))
    BY <2>2, NewJob DEF Woken
  <2>4. \A s \in Stripes : WorkerCounts(s) =>
            working' = [working EXCEPT ![s] = [working[s] EXCEPT !.at = "produce"]]
    BY <2>2 DEF WorkerCounts
  <2>5. CASE \E p \in Submitters : SubmitNotifies(p)
    BY <2>1, <2>2, <2>3, <2>5 DEF SubmitNotifies
  <2>6. CASE \E s \in Stripes : WorkerSleeps(s) \/ WorkerLeaves(s)
    BY <2>2, <2>6, NewJob DEF WorkerSleeps, WorkerLeaves
  <2>7. CASE \E s \in Stripes : WorkerCounts(s)
    <3>1. PICK s \in Stripes : WorkerCounts(s)
      BY <2>7
    <3>2. working[s] \in Jobs /\ working[s].at = "taken"
      BY <2>2, <3>1 DEF WorkerCounts
    <3> QED BY <2>2, <2>4, <3>1, <3>2, JobsAre
  <2>8. CASE \E s \in Stripes : StopStripe(s)
    BY <2>2, <2>3, <2>8 DEF StopStripe
  <2>9. CASE ExitBegins \/ JoinWorkers
    BY <2>2, <2>9 DEF ExitBegins, JoinWorkers
  <2> QED BY <2>5, <2>6, <2>7, <2>8, <2>9
<1>2. /\ UNCHANGED <<submitted, tasks, local, brokerLog>>
      /\ pendingTasks' \in Int
      /\ stopped' \subseteq Stripes /\ exiting' \in {"no", "queue", "producer", "done"}
      /\ submitting' = submitting \/ \E p \in Submitters :
            /\ submitting[p].at = "notify"
            /\ submitting' = [submitting EXCEPT ![p] = Nothing]
  BY DEF OrderInv, QueueTypes, SubmitNotifies, WorkerSleeps, WorkerCounts, WorkerLeaves, StopStripe,
         ExitBegins, JoinWorkers, WorkerSame, ExitSame, OutSame
<1>3. /\ working' \in [Stripes -> Jobs]
      /\ \A s \in Stripes : AtWorker(s)' = AtWorker(s)
  BY <1>1 DEF AtWorker
<1>4. /\ submitting \in [Submitters -> Hands] /\ submitting' \in [Submitters -> Hands]
      /\ \A q \in Submitters : submitting'[q] = submitting[q] \/
            (submitting'[q].at = "idle" /\ submitting[q].at = "notify")
  <2>1. Nothing \in Hands /\ Nothing.at = "idle"
    BY DEF Hands, Nothing
  <2>2. submitting \in [Submitters -> Hands]
    BY DEF OrderInv, QueueTypes
  <2> QED BY <1>2, <2>1, <2>2
<1>5. QueueTypes'
  BY <1>2, <1>3, <1>4 DEF OrderInv, QueueTypes
<1>6. AtPush' = AtPush /\ OneInHand'
  BY <1>4 DEF OrderInv, OneInHand, InHand, AtPush
<1> QED BY <1>2, <1>3, <1>5, <1>6

LEMMA StillSteps ==
    ASSUME OrderInv,
           \/ \E p \in Submitters : SubmitNotifies(p)
           \/ \E s \in Stripes : \/ WorkerSleeps(s) \/ WorkerCounts(s) \/ WorkerLeaves(s)
                                 \/ StopStripe(s)
           \/ ExitBegins \/ JoinWorkers
    PROVE  OrderInv'
<1>1. StripesKeepTheirs' /\ NoneFromNowhere'
  BY NoTaskMoves DEF OrderInv, StripesKeepTheirs, StripeIndex, NoneFromNowhere, KnownTask
<1>2. Pipeline'
  BY NoTaskMoves DEF OrderInv, Pipeline
<1> QED BY <1>1, <1>2, NoTaskMoves DEF OrderInv

(* workerLoop: the oldest of the stripe. *)
LEMMA TakeStep ==
    ASSUME OrderInv, NEW s \in Stripes, WorkerTakes(s)
    PROVE  OrderInv'
<1> DEFINE t == Head(tasks[s])
           j == [at |-> "taken", task |-> t]
<1>1. /\ working[s] = Nothing /\ tasks[s] # <<>> /\ tasks[s] \in Seq(Tasks)
      /\ working' = [working EXCEPT ![s] = j] /\ working \in [Stripes -> Jobs]
      /\ tasks' = [tasks EXCEPT ![s] = Tail(@)] /\ tasks \in [Stripes -> Seq(Tasks)]
      /\ UNCHANGED <<submitting, submitted, pendingTasks, stopped, exiting, local, brokerLog>>
  BY DEF OrderInv, QueueTypes, WorkerTakes, WorkerSame
<1>2. /\ Tail(tasks[s]) \in Seq(Tasks) /\ t \in Tasks
      /\ Range(tasks[s]) = Range(Tail(tasks[s])) \cup {t}
      /\ RisingByKey(Tail(tasks[s])) /\ Precede({t}, Range(Tail(tasks[s])))
  BY <1>1, TailKeepsRising DEF OrderInv, Pipeline
<1>3. j \in Jobs /\ j.at = "taken" /\ j.task = t
  BY <1>2, NewJob
<1> HIDE DEF t, j
<1>4. /\ tasks'[s] = Tail(tasks[s]) /\ \A r \in Stripes \ {s} : tasks'[r] = tasks[r]
      /\ tasks' \in [Stripes -> Seq(Tasks)] /\ working' \in [Stripes -> Jobs]
      /\ AtWorker(s)' = {t} /\ \A r \in Stripes \ {s} : AtWorker(r)' = AtWorker(r)
      /\ AtPush' = AtPush
  BY <1>1, <1>2, <1>3 DEF AtWorker, AtPush
<1>5. QueueTypes' /\ OneInHand'
  BY <1>1, <1>4 DEF OrderInv, QueueTypes, OneInHand, InHand
<1>6. StripesKeepTheirs'
  BY <1>1, <1>2, <1>4 DEF OrderInv, StripesKeepTheirs, StripeIndex
<1>7. NoneFromNowhere'
  BY <1>1, <1>2, <1>4 DEF OrderInv, NoneFromNowhere, KnownTask
<1>8. Pipeline'
  <2>1. t \in Range(tasks[s]) /\ Range(tasks'[s]) \subseteq Range(tasks[s])
    BY <1>2, <1>4
  <2>2. /\ Precede(Range(brokerLog), {t}) /\ Precede(Range(local), {t}) /\ Precede({t}, AtPush)
        /\ Precede(Range(brokerLog), Range(tasks'[s])) /\ Precede(Range(local), Range(tasks'[s]))
        /\ Precede(Range(tasks'[s]), AtPush)
    BY <2>1 DEF OrderInv, Pipeline, Precede
  <2> QED BY <1>1, <1>2, <1>4, <2>2 DEF OrderInv, Pipeline
<1> QED BY <1>5, <1>6, <1>7, <1>8 DEF OrderInv

(* safeProduce: to the end of librdkafka's queue, or nowhere. *)
LEMMA ProduceStep ==
    ASSUME OrderInv, NEW s \in Stripes, WorkerProduces(s)
    PROVE  OrderInv'
<1> DEFINE t == working[s].task
<1>1. /\ working[s].at = "produce" /\ working \in [Stripes -> Jobs] /\ local \in Seq(Tasks)
      /\ working' = [working EXCEPT ![s] = Nothing]
      /\ local' = local \/ local' = Append(local, t)
      /\ UNCHANGED <<submitting, submitted, tasks, pendingTasks, stopped, exiting, brokerLog>>
  BY DEF OrderInv, QueueTypes, WorkerProduces, WorkerSame
<1>2. t \in Tasks /\ AtWorker(s) = {t}
  BY <1>1, JobsAre DEF AtWorker
<1>3. Nothing \in Jobs /\ Nothing.at = "idle"
  BY NewJob
<1> HIDE DEF t
<1>4. /\ AtWorker(s)' = {} /\ \A r \in Stripes \ {s} : AtWorker(r)' = AtWorker(r)
      /\ working' \in [Stripes -> Jobs] /\ AtPush' = AtPush
  BY <1>1, <1>3 DEF AtWorker, AtPush
<1>5. /\ local' \in Seq(Tasks) /\ Range(local') \subseteq Range(local) \cup {t}
      /\ RisingByKey(local')
  <2>1. RisingByKey(local) /\ Precede(Range(local), {t})
    BY <1>2 DEF OrderInv, Pipeline
  <2>2. CASE local' = local
    BY <1>1, <2>1, <2>2
  <2>3. CASE local' = Append(local, t)
    BY <1>1, <1>2, <2>1, <2>3, AppendKeepsRising
  <2> QED BY <1>1, <2>2, <2>3
<1>6. QueueTypes' /\ OneInHand'
  BY <1>1, <1>4, <1>5 DEF OrderInv, QueueTypes, OneInHand, InHand
<1>7. StripesKeepTheirs'
  BY <1>1, <1>4 DEF OrderInv, StripesKeepTheirs, StripeIndex
<1>8. NoneFromNowhere'
  BY <1>1, <1>2, <1>4, <1>5 DEF OrderInv, NoneFromNowhere, KnownTask
<1>9. Pipeline'
  <2>1. Precede(Range(brokerLog), Range(local'))
    BY <1>2, <1>5 DEF OrderInv, Pipeline, Precede
  <2>2. Precede(Range(local'), AtPush)
    BY <1>2, <1>5 DEF OrderInv, Pipeline, Precede
  <2>3. ASSUME NEW r \in Stripes
        PROVE  Precede(Range(local'), AtWorker(r)') /\ Precede(Range(local'), Range(tasks[r]))
    <3>1. CASE r = s
      BY <1>2, <1>4, <1>5, <3>1 DEF OrderInv, Pipeline, Precede
    <3>2. CASE r # s
      <4>1. \A x \in AtWorker(r) \cup Range(tasks[r]) : x[1] # t[1]
        BY <1>2, <3>2 DEF OrderInv, StripesKeepTheirs, StripeIndex
      <4> QED BY <1>4, <1>5, <3>2, <4>1 DEF OrderInv, Pipeline, Precede
    <3> QED BY <3>1, <3>2
  <2>4. \A a : Precede({}, a) /\ Precede(a, {})
    BY DEF Precede
  <2> QED BY <1>1, <1>4, <1>5, <2>1, <2>2, <2>3, <2>4 DEF OrderInv, Pipeline
<1> QED BY <1>6, <1>7, <1>8, <1>9 DEF OrderInv

(* The broker and the delivery report take the oldest of librdkafka's queue, the
   end of the producer takes all of it. *)
LEMMA DeliverStep ==
    ASSUME OrderInv, Deliver \/ DeliveryFails \/ StopProducer
    PROVE  OrderInv'
<1>1. /\ UNCHANGED <<submitting, submitted, tasks, pendingTasks, working, stopped>>
      /\ exiting' \in {"no", "queue", "producer", "done"}
      /\ local \in Seq(Tasks) /\ brokerLog \in Seq(Tasks)
  BY DEF OrderInv, QueueTypes, Deliver, DeliveryFails, StopProducer, BrokerSame, ExitSame
<1>2. /\ local' \in Seq(Tasks) /\ brokerLog' \in Seq(Tasks)
      /\ Range(local') \subseteq Range(local)
      /\ Range(brokerLog') \subseteq Range(brokerLog) \cup Range(local)
      /\ RisingByKey(local') /\ RisingByKey(brokerLog')
      /\ Precede(Range(brokerLog'), Range(local'))
  <2>1. CASE StopProducer
    <3>1. Range(<<>>) = {} /\ RisingByKey(<<>>)
      BY DEF Range, RisingByKey
    <3> QED BY <1>1, <2>1, <3>1 DEF StopProducer, ExitSame, OrderInv, Pipeline, Precede
  <2>2. CASE Deliver \/ DeliveryFails
    <3> DEFINE t == Head(local)
    <3>1. /\ Tail(local) \in Seq(Tasks) /\ t \in Tasks
          /\ Range(local) = Range(Tail(local)) \cup {t}
          /\ RisingByKey(Tail(local)) /\ Precede({t}, Range(Tail(local)))
      BY <1>1, <2>2, TailKeepsRising DEF OrderInv, Pipeline, Deliver, DeliveryFails
    <3>2. local' = Tail(local) /\ (brokerLog' = brokerLog \/ brokerLog' = Append(brokerLog, t))
      BY <2>2 DEF Deliver, DeliveryFails
    <3>3. Precede(Range(brokerLog), {t}) /\ RisingByKey(brokerLog)
          /\ Precede(Range(brokerLog), Range(Tail(local)))
      BY <3>1 DEF OrderInv, Pipeline, Precede
    <3> HIDE DEF t
    <3>4. /\ brokerLog' \in Seq(Tasks) /\ RisingByKey(brokerLog')
          /\ Range(brokerLog') \subseteq Range(brokerLog) \cup {t}
      <4>1. CASE brokerLog' = brokerLog
        BY <1>1, <3>3, <4>1
      <4>2. CASE brokerLog' = Append(brokerLog, t)
        BY <1>1, <3>1, <3>3, <4>2, AppendKeepsRising
      <4> QED BY <3>2, <4>1, <4>2
    <3>5. Precede(Range(brokerLog'), Range(local'))
      BY <3>1, <3>2, <3>3, <3>4 DEF Precede
    <3> QED BY <3>1, <3>2, <3>4, <3>5
  <2> QED BY <2>1, <2>2
<1>3. AtPush' = AtPush /\ \A s \in Stripes : AtWorker(s)' = AtWorker(s)
  BY <1>1 DEF AtPush, AtWorker
<1>4. QueueTypes' /\ OneInHand'
  BY <1>1, <1>2 DEF OrderInv, QueueTypes, OneInHand, InHand
<1>5. StripesKeepTheirs' /\ NoneFromNowhere'
  BY <1>1, <1>2, <1>3 DEF OrderInv, StripesKeepTheirs, StripeIndex, NoneFromNowhere, KnownTask
<1>6. Pipeline'
  <2>1. \A a : /\ Precede(Range(local), a) => Precede(Range(local'), a)
               /\ Precede(Range(local), a) /\ Precede(Range(brokerLog), a)
                    => Precede(Range(brokerLog'), a)
    BY <1>2 DEF Precede
  <2> QED BY <1>1, <1>2, <1>3, <2>1 DEF OrderInv, Pipeline
<1> QED BY <1>4, <1>5, <1>6 DEF OrderInv

LEMMA OrderInvHolds == QueueSafety => []OrderInv
<1>1. QueueInit => OrderInv
  <2> SUFFICES ASSUME QueueInit PROVE OrderInv
    OBVIOUS
  <2>1. <<>> \in Seq(Tasks) /\ Range(<<>>) = {} /\ RisingByKey(<<>>)
    BY DEF Range, RisingByKey
  <2>2. Nothing \in Hands /\ Nothing \in Jobs /\ Nothing.at = "idle"
    BY DEF Hands, Jobs, Nothing
  <2>3. AtPush = {} /\ \A s \in Stripes : AtWorker(s) = {} /\ tasks[s] = <<>>
    BY <2>2 DEF QueueInit, AtPush, AtWorker
  <2>4. QueueTypes
    BY <2>1, <2>2, QueueAssumption DEF QueueInit, QueueTypes
  <2>5. OneInHand
    BY <2>2 DEF QueueInit, OneInHand, InHand
  <2>6. StripesKeepTheirs /\ NoneFromNowhere
    BY <2>1, <2>3 DEF QueueInit, StripesKeepTheirs, NoneFromNowhere
  <2>7. Pipeline
    BY <2>1, <2>3 DEF QueueInit, Pipeline, Precede
  <2> QED BY <2>4, <2>5, <2>6, <2>7 DEF OrderInv
<1>2. OrderInv /\ [QueueNext]_queueVars => OrderInv'
  <2>1. ASSUME OrderInv, QueueNext PROVE OrderInv'
    BY <2>1, CheckStep, PushStep, StillSteps, TakeStep, ProduceStep, DeliverStep
    DEF QueueNext, Submits, Worker
  <2>2. ASSUME OrderInv, UNCHANGED queueVars PROVE OrderInv'
    <3>1. UNCHANGED <<submitting, submitted, tasks, pendingTasks, working, stopped, exiting, local,
                      brokerLog>>
      BY <2>2 DEF queueVars
    <3>2. AtPush' = AtPush /\ \A s \in Stripes : AtWorker(s)' = AtWorker(s)
      BY <3>1 DEF AtPush, AtWorker
    <3>3. QueueTypes' /\ OneInHand'
      BY <2>2, <3>1 DEF OrderInv, QueueTypes, OneInHand, InHand
    <3>4. StripesKeepTheirs' /\ NoneFromNowhere'
      BY <2>2, <3>1, <3>2 DEF OrderInv, StripesKeepTheirs, StripeIndex, NoneFromNowhere, KnownTask
    <3>5. Pipeline'
      BY <2>2, <3>1, <3>2 DEF OrderInv, Pipeline
    <3> QED BY <3>3, <3>4, <3>5 DEF OrderInv
  <2> QED BY <2>1, <2>2
<1> QED BY <1>1, <1>2, PTL DEF QueueSafety

(* The archive of a room has its messages in the order of their numbers, however
   many IO threads submit them and whatever the broker fails to take.  (one
   stripe for a key, one worker for a stripe, one attempt) *)
THEOREM ArchiveIsInOrder == QueueSafety => []BrokerInOrder
<1>1. OrderInv => BrokerInOrder
  BY DEF OrderInv, Pipeline, RisingByKey, BrokerInOrder
<1> QED BY <1>1, OrderInvHolds, PTL

-----------------------------------------------------------------------------
(* Where a task is: in the queue from its check to its production, with
   librdkafka, with the broker, or in one of the counters. *)

InQueue == AtPush \cup UNION {Range(tasks[s]) \cup AtWorker(s) : s \in Stripes}
Ended == dropped \cup failed \cup undelivered \cup discarded

PlaceInv ==
    /\ Ended \subseteq {t \in Tasks : KnownTask(t)}
    /\ Ended \cap (InQueue \cup Range(local) \cup Range(brokerLog)) = {}
    /\ dropped \cap (failed \cup undelivered \cup discarded) = {}
    /\ failed \cap (undelivered \cup discarded) = {} /\ undelivered \cap discarded = {}
    /\ \A t \in Tasks : KnownTask(t) =>
            t \in InQueue \cup Range(local) \cup Range(brokerLog) \cup Ended

(* Queue, librdkafka and broker never have the same task. *)
LEMMA PlacesApart ==
    ASSUME OrderInv
    PROVE  /\ InQueue \cap Range(local) = {} /\ InQueue \cap Range(brokerLog) = {}
           /\ Range(local) \cap Range(brokerLog) = {}
           /\ InQueue \cup Range(local) \cup Range(brokerLog) \subseteq {t \in Tasks : KnownTask(t)}
<1>1. InQueue \cup Range(local) \cup Range(brokerLog) \subseteq Tasks
  BY WhereTasksAre DEF OrderInv, InQueue
<1>2. \A t \in Tasks : t[2] \in Nat
  BY TasksAre
<1>3. ASSUME NEW a, NEW b, Precede(a, b), a \subseteq Tasks PROVE a \cap b = {}
  BY <1>2, <1>3 DEF Precede
<1>4. InQueue \cap Range(local) = {} /\ InQueue \cap Range(brokerLog) = {}
  BY <1>1, <1>3 DEF OrderInv, Pipeline, InQueue
<1>5. Range(local) \cap Range(brokerLog) = {}
  BY <1>1, <1>3 DEF OrderInv, Pipeline
<1>6. \A t \in InQueue \cup Range(local) \cup Range(brokerLog) : KnownTask(t)
  BY DEF OrderInv, NoneFromNowhere, InQueue
<1> QED BY <1>1, <1>4, <1>5, <1>6

(* What a submission does to the places. *)
LEMMA SubmissionPlaces ==
    ASSUME OrderInv, OrderInv', PlaceInv,
           \E p \in Submitters : SubmitPushes(p) \/ \E k \in ArchiveKeys : SubmitChecks(p, k)
    PROVE  PlaceInv'
<1>1. /\ UNCHANGED <<working, local, brokerLog, failed, undelivered, discarded>>
      /\ \A s \in Stripes : AtWorker(s)' = AtWorker(s)
  BY DEF SubmitPushes, SubmitChecks, OutSame, AtWorker
<1>2. ASSUME NEW p \in Submitters, NEW k \in ArchiveKeys, SubmitChecks(p, k) PROVE PlaceInv'
  <2> DEFINE t == <<k, submitted[k] + 1>>
             h == [at |-> "push", task |-> t]
  <2>1. /\ submitted \in [ArchiveKeys -> Nat] /\ submitted[k] < MaxPerKey[k]
        /\ MaxPerKey[k] \in Nat /\ submitted' = [submitted EXCEPT ![k] = @ + 1]
        /\ submitting[p].at = "idle" /\ submitting \in [Submitters -> Hands]
        /\ \/ submitting' = submitting /\ dropped' = dropped \cup {t}
           \/ submitting' = [submitting EXCEPT ![p] = h] /\ dropped' = dropped
        /\ UNCHANGED tasks
    BY <1>2, QueueAssumption DEF OrderInv, QueueTypes, SubmitChecks, Drop, InHand
  <2>2. /\ t \in Tasks /\ t[1] = k /\ t[2] = submitted[k] + 1 /\ ~KnownTask(t)
        /\ h.at = "push" /\ h.task = t
    BY <2>1 DEF Tasks, KnownTask
  <2> HIDE DEF t, h
  <2>3. \A x \in Tasks : KnownTask(x)' <=> KnownTask(x) \/ x = t
    <3>1. ASSUME NEW x \in Tasks PROVE KnownTask(x)' <=> KnownTask(x) \/ x = t
      <4>1. /\ x[1] \in ArchiveKeys /\ x[2] \in Nat /\ x = <<x[1], x[2]>> /\ t = <<t[1], t[2]>>
            /\ submitted'[x[1]] = IF x[1] = k THEN submitted[k] + 1 ELSE submitted[x[1]]
        BY <2>1, <2>2 DEF Tasks
      <4>2. CASE x[1] = k
        <5>1. x = t <=> x[2] = submitted[k] + 1
          BY <2>2, <4>1, <4>2
        <5>2. submitted[k] \in Nat
          BY <2>1
        <5>3. \A i, j \in Nat : i <= j + 1 <=> i <= j \/ i = j + 1
          OBVIOUS
        <5> QED BY <4>1, <4>2, <5>1, <5>2, <5>3 DEF KnownTask
      <4>3. CASE x[1] # k
        BY <2>2, <4>1, <4>3 DEF KnownTask
      <4> QED BY <4>2, <4>3
    <3> QED BY <3>1
  <2>4. \/ InQueue' = InQueue /\ dropped' = dropped \cup {t}
        \/ InQueue' = InQueue \cup {t} /\ dropped' = dropped
    <3>1. \/ AtPush' = AtPush /\ dropped' = dropped \cup {t}
          \/ AtPush' = AtPush \cup {t} /\ dropped' = dropped
      <4>1. CASE submitting' = submitting /\ dropped' = dropped \cup {t}
        BY <4>1 DEF AtPush
      <4>2. CASE submitting' = [submitting EXCEPT ![p] = h] /\ dropped' = dropped
        <5>1. \A q \in Submitters : submitting'[q] = IF q = p THEN h ELSE submitting[q]
          BY <2>1, <4>2
        <5>2. ASSUME NEW x PROVE x \in AtPush' <=> x \in AtPush \cup {t}
          BY <2>1, <2>2, <5>1 DEF AtPush
        <5> QED BY <4>2, <5>2
      <4> QED BY <2>1, <4>1, <4>2
    <3> QED BY <1>1, <2>1, <3>1 DEF InQueue
  <2>5. t \notin Ended \cup InQueue \cup Range(local) \cup Range(brokerLog)
    BY <2>2, PlacesApart DEF PlaceInv
  <2>6. Range(local') = Range(local) /\ Range(brokerLog') = Range(brokerLog)
    BY <1>1
  <2> QED BY <1>1, <2>2, <2>3, <2>4, <2>5, <2>6 DEF PlaceInv, Ended
<1>3. ASSUME NEW p \in Submitters, SubmitPushes(p) PROVE PlaceInv'
  <2> DEFINE t == submitting[p].task
             s == StripeIndex(t)
  <2>1. /\ submitting[p] \in Hands /\ submitting[p].at = "push" /\ t \in AtPush
        /\ submitting \in [Submitters -> Hands] /\ tasks \in [Stripes -> Seq(Tasks)]
        /\ UNCHANGED submitted
    BY <1>3 DEF OrderInv, QueueTypes, SubmitPushes, AtPush
  <2>2. t \in Tasks /\ s \in Stripes
    BY <2>1, HandsAre, TasksAre
  <2>3. AtPush = AtPush' \cup {t} /\ t \notin AtPush'
    <3>1. /\ \A q \in Submitters \ {p} : submitting'[q] = submitting[q]
          /\ submitting'[p].at # "push"
      <4>1. \/ submitting' = [submitting EXCEPT ![p] = Nothing]
            \/ submitting' = [submitting EXCEPT ![p] = [submitting[p] EXCEPT !.at = "notify"]]
        BY <1>3, <2>1 DEF SubmitPushes
      <4>2. Nothing.at # "push" /\ [submitting[p] EXCEPT !.at = "notify"].at # "push"
        BY <2>1, <2>2, HandsAre, NewHand
      <4> QED BY <2>1, <4>1, <4>2
    <3>2. \A q \in Submitters \ {p} : InHand(q) => submitting[q].task[1] # t[1]
      BY <2>1 DEF OrderInv, OneInHand, InHand
    <3>3. ASSUME NEW x PROVE x \in AtPush <=> x \in AtPush' \cup {t}
      BY <2>1, <3>1 DEF AtPush
    <3>4. t \notin AtPush'
      BY <2>1, <3>1, <3>2 DEF AtPush, InHand
    <3> QED BY <3>3, <3>4
  <2>4. \A r \in Stripes : t \notin Range(tasks[r]) \cup AtWorker(r)
    <3>1. ~(t[2] < t[2])
      BY <2>2, TasksAre
    <3>2. \A a : Precede(a, AtPush) => t \notin a
      BY <2>1, <3>1 DEF Precede
    <3> QED BY <3>2 DEF OrderInv, Pipeline
  <2> HIDE DEF t
  <2>5. \/ InQueue' = InQueue /\ dropped' = dropped
        \/ InQueue' = InQueue \ {t} /\ dropped' = dropped \cup {t}
    <3>1. CASE tasks' = tasks /\ dropped' = dropped \cup {t}
      BY <1>1, <2>3, <2>4, <3>1 DEF InQueue
    <3>2. CASE tasks' = [tasks EXCEPT ![s] = Append(@, t)] /\ dropped' = dropped
      <4>1. /\ \A r \in Stripes \ {s} : tasks'[r] = tasks[r]
            /\ Range(tasks'[s]) = Range(tasks[s]) \cup {t}
        BY <2>1, <2>2, <3>2, AppendKeepsRising
      <4>2. \A x : x \in InQueue' <=> x \in InQueue
        BY <1>1, <2>2, <2>3, <4>1 DEF InQueue
      <4> QED BY <3>2, <4>2
    <3> QED BY <1>3, <3>1, <3>2 DEF SubmitPushes, Drop, t
  <2>6. t \notin Ended \cup Range(local) \cup Range(brokerLog) /\ KnownTask(t)
    <3>1. t \in InQueue
      BY <2>1 DEF InQueue
    <3> QED BY <3>1, PlacesApart DEF PlaceInv
  <2>7. \A x : KnownTask(x)' <=> KnownTask(x)
    BY <2>1 DEF KnownTask
  <2>8. Range(local') = Range(local) /\ Range(brokerLog') = Range(brokerLog)
    BY <1>1
  <2> QED BY <1>1, <2>2, <2>5, <2>6, <2>7, <2>8 DEF PlaceInv, Ended
<1> QED BY <1>2, <1>3

(* The worker, the broker and the exit. *)
LEMMA ForwardPlaces ==
    ASSUME OrderInv, OrderInv', PlaceInv,
           \/ \E p \in Submitters : SubmitNotifies(p)
           \/ \E s \in Stripes : Worker(s) \/ StopStripe(s)
           \/ Deliver \/ DeliveryFails \/ ExitBegins \/ JoinWorkers \/ StopProducer
    PROVE  PlaceInv'
<1>1. submitted' = submitted /\ dropped' = dropped
  BY DEF SubmitNotifies, Worker, WorkerSleeps, WorkerTakes, WorkerCounts, WorkerProduces, WorkerLeaves,
         StopStripe, Deliver, DeliveryFails, ExitBegins, JoinWorkers, StopProducer, WorkerSame,
         BrokerSame, ExitSame
<1>2. \A x : KnownTask(x)' <=> KnownTask(x)
  BY <1>1 DEF KnownTask
<1>3. ASSUME InQueue' = InQueue, UNCHANGED <<local, brokerLog, failed, undelivered, discarded>>
      PROVE  PlaceInv'
  BY <1>1, <1>2, <1>3 DEF PlaceInv, Ended
<1>4. CASE \/ \E p \in Submitters : SubmitNotifies(p)
           \/ \E s \in Stripes : \/ WorkerSleeps(s) \/ WorkerCounts(s) \/ WorkerLeaves(s)
                                 \/ StopStripe(s)
           \/ ExitBegins \/ JoinWorkers
  <2>1. InQueue' = InQueue
    BY <1>4, NoTaskMoves DEF InQueue
  <2>2. UNCHANGED <<local, brokerLog, failed, undelivered, discarded>>
    BY <1>4 DEF SubmitNotifies, WorkerSleeps, WorkerCounts, WorkerLeaves, StopStripe, ExitBegins,
                JoinWorkers, WorkerSame, ExitSame, OutSame
  <2> QED BY <1>3, <2>1, <2>2
<1>5. ASSUME NEW s \in Stripes, WorkerTakes(s) PROVE PlaceInv'
  <2> DEFINE t == Head(tasks[s])
             j == [at |-> "taken", task |-> t]
  <2>1. /\ working[s] = Nothing /\ tasks[s] # <<>> /\ tasks[s] \in Seq(Tasks)
        /\ working' = [working EXCEPT ![s] = j] /\ working \in [Stripes -> Jobs]
        /\ tasks' = [tasks EXCEPT ![s] = Tail(@)] /\ tasks \in [Stripes -> Seq(Tasks)]
        /\ UNCHANGED <<submitting, local, brokerLog, failed, undelivered, discarded>>
    BY <1>5 DEF OrderInv, QueueTypes, WorkerTakes, WorkerSame
  <2>2. Range(tasks[s]) = Range(Tail(tasks[s])) \cup {t} /\ j.at = "taken" /\ j.task = t
    BY <2>1, TailKeepsRising
  <2>3. Nothing.at = "idle"
    BY NewJob
  <2> HIDE DEF t, j
  <2>4. /\ Range(tasks'[s]) \cup AtWorker(s)' = Range(tasks[s]) \cup AtWorker(s)
        /\ \A r \in Stripes \ {s} : /\ tasks'[r] = tasks[r] /\ AtWorker(r)' = AtWorker(r)
        /\ AtPush' = AtPush
    BY <2>1, <2>2, <2>3 DEF AtWorker, AtPush
  <2>5. \A r \in Stripes : Range(tasks'[r]) \cup AtWorker(r)' = Range(tasks[r]) \cup AtWorker(r)
    BY <2>4
  <2>6. InQueue' = InQueue
    BY <2>4, <2>5 DEF InQueue
  <2> QED BY <1>3, <2>1, <2>6
<1>6. ASSUME NEW s \in Stripes, WorkerProduces(s) PROVE PlaceInv'
  <2> DEFINE t == working[s].task
  <2>1. /\ working[s].at = "produce" /\ working \in [Stripes -> Jobs] /\ local \in Seq(Tasks)
        /\ working' = [working EXCEPT ![s] = Nothing]
        /\ \/ local' = Append(local, t) /\ failed' = failed
           \/ local' = local /\ failed' = failed \cup {t}
        /\ UNCHANGED <<submitting, tasks, brokerLog, undelivered, discarded>>
    BY <1>6 DEF OrderInv, QueueTypes, WorkerProduces, WorkerSame
  <2>2. t \in Tasks /\ AtWorker(s) = {t} /\ Nothing.at = "idle"
    BY <2>1, JobsAre, NewJob DEF AtWorker
  <2> HIDE DEF t
  <2>3. /\ AtWorker(s)' = {} /\ \A r \in Stripes \ {s} : AtWorker(r)' = AtWorker(r)
        /\ AtPush' = AtPush
    BY <2>1, <2>2 DEF AtWorker, AtPush
  <2>4. t \notin AtPush /\ \A r \in Stripes : t \notin Range(tasks[r]) /\ t \notin AtWorker(r)'
    <3>1. ~(t[2] < t[2])
      BY <2>2, TasksAre
    <3>2. \A a : Precede({t}, a) => t \notin a
      BY <3>1 DEF Precede
    <3>3. t \notin AtPush /\ t \notin Range(tasks[s])
      BY <2>2, <3>2 DEF OrderInv, Pipeline
    <3>4. StripeIndex(t) = s
      BY <2>2 DEF OrderInv, StripesKeepTheirs
    <3>5. \A r \in Stripes \ {s} : t \notin Range(tasks[r]) /\ t \notin AtWorker(r)
      BY <3>4 DEF OrderInv, StripesKeepTheirs
    <3> QED BY <2>3, <3>3, <3>5
  <2>5. InQueue = InQueue' \cup {t} /\ t \notin InQueue'
    <3>1. \A x : x \in InQueue <=> x \in InQueue' \cup {t}
      BY <2>1, <2>2, <2>3 DEF InQueue
    <3>2. t \notin InQueue'
      BY <2>1, <2>3, <2>4 DEF InQueue
    <3> QED BY <3>1, <3>2
  <2>6. t \notin Ended \cup Range(local) \cup Range(brokerLog) /\ KnownTask(t)
    BY <2>5, PlacesApart DEF PlaceInv
  <2>7. \/ Range(local') = Range(local) \cup {t} /\ failed' = failed
        \/ Range(local') = Range(local) /\ failed' = failed \cup {t}
    BY <2>1, <2>2, AppendKeepsRising
  <2>8. Range(brokerLog') = Range(brokerLog)
    BY <2>1
  <2> QED BY <1>1, <1>2, <2>1, <2>2, <2>5, <2>6, <2>7, <2>8 DEF PlaceInv, Ended
<1>7. ASSUME Deliver \/ DeliveryFails PROVE PlaceInv'
  <2> DEFINE t == Head(local)
  <2>1. /\ local # <<>> /\ local \in Seq(Tasks) /\ brokerLog \in Seq(Tasks)
        /\ local' = Tail(local)
        /\ \/ brokerLog' = Append(brokerLog, t) /\ undelivered' = undelivered
           \/ brokerLog' = brokerLog /\ undelivered' = undelivered \cup {t}
        /\ UNCHANGED <<submitting, tasks, working, failed, discarded>>
    BY <1>7 DEF OrderInv, QueueTypes, Deliver, DeliveryFails, BrokerSame
  <2>2. /\ t \in Tasks /\ Range(local) = Range(local') \cup {t} /\ Precede({t}, Range(local'))
    BY <2>1, TailKeepsRising DEF OrderInv, Pipeline
  <2> HIDE DEF t
  <2>3. t \notin Range(local')
    <3>1. ~(t[2] < t[2])
      BY <2>2, TasksAre
    <3> QED BY <2>2, <3>1 DEF Precede
  <2>4. InQueue' = InQueue
    BY <2>1 DEF InQueue, AtPush, AtWorker
  <2>5. t \notin Ended \cup InQueue \cup Range(brokerLog) /\ KnownTask(t)
    BY <2>2, PlacesApart DEF PlaceInv
  <2>6. \/ Range(brokerLog') = Range(brokerLog) \cup {t} /\ undelivered' = undelivered
        \/ Range(brokerLog') = Range(brokerLog) /\ undelivered' = undelivered \cup {t}
    BY <2>1, <2>2, AppendKeepsRising
  <2> QED BY <1>1, <1>2, <2>1, <2>2, <2>3, <2>4, <2>5, <2>6 DEF PlaceInv, Ended
<1>8. ASSUME StopProducer PROVE PlaceInv'
  <2>1. /\ local' = <<>> /\ discarded' = discarded \cup Range(local)
        /\ UNCHANGED <<submitting, tasks, working, brokerLog, failed, undelivered>>
    BY <1>8 DEF StopProducer, ExitSame
  <2>2. InQueue' = InQueue
    BY <2>1 DEF InQueue, AtPush, AtWorker
  <2>3. Range(local') = {} /\ Range(brokerLog') = Range(brokerLog)
    BY <2>1 DEF Range
  <2> QED BY <1>1, <1>2, <2>1, <2>2, <2>3, PlacesApart DEF PlaceInv, Ended
<1> QED BY <1>4, <1>5, <1>6, <1>7, <1>8 DEF Worker

LEMMA PlaceInvHolds == QueueSafety => [](OrderInv /\ PlaceInv)
<1>1. QueueInit => PlaceInv
  <2> SUFFICES ASSUME QueueInit PROVE PlaceInv
    OBVIOUS
  <2>1. \A t \in Tasks : ~KnownTask(t)
    <3>1. ASSUME NEW t \in Tasks PROVE ~KnownTask(t)
      <4>1. t[2] \in 1 .. MaxPerKey[t[1]] /\ t[1] \in ArchiveKeys
        BY DEF Tasks
      <4>2. submitted[t[1]] = 0 /\ MaxPerKey[t[1]] \in Nat
        BY <4>1, QueueAssumption DEF QueueInit
      <4> QED BY <4>1, <4>2 DEF KnownTask
    <3> QED BY <3>1
  <2>2. Ended = {}
    BY DEF QueueInit, Ended
  <2> QED BY <2>1, <2>2 DEF PlaceInv, Ended
<1>2. OrderInv /\ OrderInv' /\ PlaceInv /\ [QueueNext]_queueVars => PlaceInv'
  <2>1. ASSUME OrderInv, OrderInv', PlaceInv, QueueNext PROVE PlaceInv'
    BY <2>1, SubmissionPlaces, ForwardPlaces DEF QueueNext, Submits
  <2>2. ASSUME PlaceInv, UNCHANGED queueVars PROVE PlaceInv'
    <3>1. InQueue' = InQueue /\ \A x : KnownTask(x)' <=> KnownTask(x)
      BY <2>2 DEF queueVars, InQueue, AtPush, AtWorker, KnownTask
    <3> QED BY <2>2, <3>1 DEF queueVars, PlaceInv, Ended
  <2> QED BY <2>1, <2>2
<1> QED BY <1>1, <1>2, OrderInvHolds, PTL DEF QueueSafety

-----------------------------------------------------------------------------
(* The exit: a worker that has left has left nothing, and nobody submits. *)
ExitInv ==
    /\ exiting = "no" => stopped = {}
    /\ exiting # "no" => \A p \in Submitters : ~InHand(p)
    /\ \A s \in Stripes : working[s] = Gone => tasks[s] = <<>> /\ s \in stopped
    /\ exiting \in {"producer", "done"} => \A s \in Stripes : working[s] = Gone

LEMMA ExitStep ==
    ASSUME OrderInv, ExitInv, QueueNext
    PROVE  ExitInv'
<1>1. /\ submitting \in [Submitters -> Hands] /\ working \in [Stripes -> Jobs]
      /\ tasks \in [Stripes -> Seq(Tasks)] /\ stopped \subseteq Stripes
  BY DEF OrderInv, QueueTypes
<1>2. Nothing.at = "idle" /\ Nothing # Gone /\ Asleep # Gone
  BY DEF Nothing, Asleep, Gone
<1>3. ASSUME NEW s \in Stripes, working' = [working EXCEPT ![s] = Woken(s)]
      PROVE  \A r \in Stripes : working'[r] = Gone <=> working[r] = Gone
  BY <1>1, <1>2, <1>3 DEF Woken
<1>4. ASSUME NEW p \in Submitters, NEW k \in ArchiveKeys, SubmitChecks(p, k) PROVE ExitInv'
  BY <1>4 DEF SubmitChecks, OutSame, ExitInv
<1>5. ASSUME NEW p \in Submitters, SubmitPushes(p) PROVE ExitInv'
  <2>1. /\ exiting = "no" /\ stopped = {}
        /\ UNCHANGED <<working, stopped, exiting>>
    BY <1>5 DEF SubmitPushes, OutSame, ExitInv, InHand
  <2> QED BY <2>1 DEF ExitInv
<1>6. ASSUME NEW p \in Submitters, SubmitNotifies(p) PROVE ExitInv'
  <2>1. exiting = "no" /\ UNCHANGED <<tasks, stopped, exiting>>
    BY <1>6 DEF SubmitNotifies, OutSame, ExitInv, InHand
  <2>2. StripeIndex(submitting[p].task) \in Stripes
    BY <1>1, <1>6, HandsAre, TasksAre DEF SubmitNotifies
  <2>3. \A r \in Stripes : working'[r] = Gone <=> working[r] = Gone
    BY <1>3, <1>6, <2>2 DEF SubmitNotifies
  <2> QED BY <2>1, <2>3 DEF ExitInv
<1>7. ASSUME NEW s \in Stripes, Worker(s) PROVE ExitInv'
  <2>1. UNCHANGED <<submitting, stopped, exiting>> /\ working[s] # Gone
    BY <1>2, <1>7 DEF Worker, WorkerSleeps, WorkerTakes, WorkerCounts, WorkerProduces, WorkerLeaves,
                      WorkerSame, Gone
  <2>2. /\ \A r \in Stripes \ {s} : working'[r] = working[r] /\ tasks'[r] = tasks[r]
        /\ working'[s] = Gone => tasks'[s] = <<>> /\ s \in stopped
    <3>1. CASE WorkerSleeps(s) \/ WorkerProduces(s) \/ WorkerLeaves(s)
      BY <1>1, <1>2, <3>1 DEF WorkerSleeps, WorkerProduces, WorkerLeaves
    <3>2. CASE WorkerTakes(s)
      <4>1. working'[s] # Gone
        BY <1>1, <3>2 DEF WorkerTakes, Gone
      <4> QED BY <1>1, <3>2, <4>1 DEF WorkerTakes
    <3>3. CASE WorkerCounts(s)
      <4>1. working'[s] = [working[s] EXCEPT !.at = "produce"] /\ working[s].at = "taken"
        BY <1>1, <3>3 DEF WorkerCounts
      <4>2. working'[s].at = "produce"
        BY <1>1, <4>1, JobsAre
      <4>3. working'[s] # Gone
        BY <4>2 DEF Gone
      <4> QED BY <1>1, <3>3, <4>3 DEF WorkerCounts
    <3> QED BY <1>7, <3>1, <3>2, <3>3 DEF Worker
  <2>3. exiting \notin {"producer", "done"}
    BY <2>1 DEF ExitInv
  <2> QED BY <2>1, <2>2, <2>3 DEF ExitInv, InHand
<1>8. ASSUME NEW s \in Stripes, StopStripe(s) PROVE ExitInv'
  BY <1>3, <1>8 DEF StopStripe, ExitSame, ExitInv, InHand
<1>9. CASE Deliver \/ DeliveryFails
  BY <1>9 DEF Deliver, DeliveryFails, BrokerSame, ExitInv, InHand
<1>10. CASE ExitBegins \/ JoinWorkers \/ StopProducer
  BY <1>10 DEF ExitBegins, JoinWorkers, StopProducer, ExitSame, ExitInv, InHand
<1> QED BY <1>4, <1>5, <1>6, <1>7, <1>8, <1>9, <1>10 DEF QueueNext, Submits

LEMMA ExitInvHolds == QueueSafety => []ExitInv
<1>1. QueueInit => ExitInv
  BY DEF QueueInit, ExitInv, Nothing, Gone
<1>2. OrderInv /\ ExitInv /\ [QueueNext]_queueVars => ExitInv'
  <2>1. ASSUME ExitInv, UNCHANGED queueVars PROVE ExitInv'
    BY <2>1 DEF queueVars, ExitInv, InHand
  <2> QED BY <2>1, ExitStep
<1> QED BY <1>1, <1>2, OrderInvHolds, PTL DEF QueueSafety

(* Every message submitted is in exactly one place: the queue, librdkafka, the
   broker, or one of the four ways out; and when the queue's destructor is over
   the queue holds none.  (~OrderedTaskQueue drains before it joins) *)
THEOREM NoTaskIsLost == QueueSafety => []TasksInOnePlace
<1>1. ASSUME OrderInv, PlaceInv, ExitInv PROVE TasksInOnePlace
  <2>1. submitting \in [Submitters -> Hands] /\ working \in [Stripes -> Jobs]
        /\ submitted \in [ArchiveKeys -> Nat]
    BY <1>1 DEF OrderInv, QueueTypes
  <2>2. ASSUME NEW t PROVE HeldTask(t) <=> t \in InQueue
    <3>1. \A h \in Hands : h = [at |-> "push", task |-> t] <=> h.at = "push" /\ h.task = t
      BY DEF Hands, Nothing
    <3>2. \A j \in Jobs : /\ j = [at |-> "taken", task |-> t] <=> j.at = "taken" /\ j.task = t
                          /\ j = [at |-> "produce", task |-> t] <=> j.at = "produce" /\ j.task = t
      BY DEF Jobs, Nothing, Asleep, Gone
    <3>3. (\E p \in Submitters : submitting[p] = [at |-> "push", task |-> t]) <=> t \in AtPush
      BY <2>1, <3>1 DEF AtPush
    <3>4. \A s \in Stripes : t \in AtWorker(s) <=>
              \/ working[s] = [at |-> "taken", task |-> t]
              \/ working[s] = [at |-> "produce", task |-> t]
      BY <2>1, <3>2 DEF AtWorker
    <3> QED BY <3>3, <3>4 DEF HeldTask, InQueue
  <2>3. ASSUME NEW k \in ArchiveKeys, NEW n \in 1 .. submitted[k]
        PROVE  LET t == <<k, n>>
                   places == <<HeldTask(t), t \in Range(local), t \in Range(brokerLog), t \in dropped,
                               t \in failed, t \in undelivered, t \in discarded>>
               IN  Cardinality({x \in DOMAIN places : places[x]}) = 1
    <3> DEFINE t == <<k, n>>
               places == <<HeldTask(t), t \in Range(local), t \in Range(brokerLog), t \in dropped,
                           t \in failed, t \in undelivered, t \in discarded>>
               Where == {x \in DOMAIN places : places[x]}
    <3>1. t \in Tasks /\ KnownTask(t)
      <4>1. submitted[k] \in Nat /\ submitted[k] <= MaxPerKey[k] /\ MaxPerKey[k] \in Nat
        BY <1>1, <2>1, QueueAssumption DEF OrderInv, QueueTypes
      <4> QED BY <4>1 DEF Tasks, KnownTask
    <3> HIDE DEF t
    <3>2. /\ HeldTask(t) <=> t \in InQueue
          /\ ~(t \in Ended /\ (t \in InQueue \/ t \in Range(local) \/ t \in Range(brokerLog)))
          /\ ~(t \in InQueue /\ t \in Range(local)) /\ ~(t \in InQueue /\ t \in Range(brokerLog))
          /\ ~(t \in Range(local) /\ t \in Range(brokerLog))
          /\ HeldTask(t) \/ t \in Range(local) \/ t \in Range(brokerLog) \/ t \in Ended
      BY <1>1, <2>2, <3>1, PlacesApart DEF PlaceInv
    <3>3. DOMAIN places = 1 .. 7
      OBVIOUS
    <3>4. \E x \in 1 .. 7 : places[x] /\ \A y \in 1 .. 7 : places[y] => y = x
      <4>1. /\ places[1] <=> HeldTask(t)
            /\ places[2] <=> t \in Range(local)
            /\ places[3] <=> t \in Range(brokerLog)
            /\ places[4] <=> t \in dropped
            /\ places[5] <=> t \in failed
            /\ places[6] <=> t \in undelivered
            /\ places[7] <=> t \in discarded
        OBVIOUS
      <4> HIDE DEF places
      <4>2. \A y \in 1 .. 7 : y \in {1, 2, 3, 4, 5, 6, 7}
        OBVIOUS
      <4>3. /\ \/ places[1] \/ places[2] \/ places[3] \/ places[4] \/ places[5] \/ places[6] \/ places[7]
            /\ places[1] => ~(places[2] \/ places[3] \/ places[4] \/ places[5] \/ places[6] \/ places[7])
            /\ places[2] => ~(places[3] \/ places[4] \/ places[5] \/ places[6] \/ places[7])
            /\ places[3] => ~(places[4] \/ places[5] \/ places[6] \/ places[7])
            /\ places[4] => ~(places[5] \/ places[6] \/ places[7])
            /\ places[5] => ~(places[6] \/ places[7])
            /\ places[6] => ~places[7]
        BY <1>1, <3>2, <4>1 DEF PlaceInv, Ended
      <4> QED BY ONLY <4>2, <4>3
    <3>5. \E x : Where = {x}
      BY <3>3, <3>4
    <3>6. Cardinality(Where) = 1
      BY <3>5, FS_Singleton
    <3> QED BY <3>6 DEF t
  <2>4. ASSUME exiting \in {"producer", "done"} PROVE ~\E t \in AllTasks : HeldTask(t)
    <3>1. AtPush = {}
      BY <1>1, <2>4 DEF ExitInv, AtPush, InHand
    <3>2. \A s \in Stripes : Range(tasks[s]) = {} /\ AtWorker(s) = {}
      <4>1. Gone.at = "gone" /\ Range(<<>>) = {}
        BY DEF Gone, Range
      <4> QED BY <1>1, <2>4, <4>1 DEF ExitInv, AtWorker
    <3> QED BY <2>2, <3>1, <3>2 DEF InQueue
  <2> QED BY <2>3, <2>4 DEF TasksInOnePlace
<1> QED BY <1>1, PlaceInvHolds, ExitInvHolds, PTL

-----------------------------------------------------------------------------
(* pending_ counts what is in the stripes and what a worker has taken and not
   counted yet. *)
Uncounted(s) == IF working[s].at = "taken" THEN {working[s].task} ELSE {}
Unserved == UNION {Range(tasks[s]) \cup Uncounted(s) : s \in Stripes}
CountInv == IsFiniteSet(Unserved) /\ pendingTasks = Cardinality(Unserved)

LEMMA UnservedSame ==
    ASSUME OrderInv, CountInv, Unserved' = Unserved, pendingTasks' = pendingTasks
    PROVE  CountInv'
  BY DEF CountInv

LEMMA CountStep ==
    ASSUME OrderInv, CountInv, QueueNext
    PROVE  CountInv'
<1>1. /\ submitting \in [Submitters -> Hands] /\ working \in [Stripes -> Jobs]
      /\ tasks \in [Stripes -> Seq(Tasks)]
  BY DEF OrderInv, QueueTypes
<1>2. Nothing.at = "idle" /\ Asleep.at = "asleep" /\ Gone.at = "gone"
  BY NewJob
<1>3. ASSUME NEW s \in Stripes, tasks' = tasks, pendingTasks' = pendingTasks,
             \A r \in Stripes \ {s} : working'[r] = working[r],
             working[s].at # "taken", working'[s].at # "taken"
      PROVE  CountInv'
  <2>1. \A r \in Stripes : Uncounted(r)' = Uncounted(r)
    BY <1>3 DEF Uncounted
  <2>2. Unserved' = Unserved
    BY <1>3, <2>1 DEF Unserved
  <2> QED BY <1>3, <2>2, UnservedSame
<1>4. ASSUME UNCHANGED <<working, tasks, pendingTasks>> PROVE CountInv'
  BY <1>4, UnservedSame DEF Unserved, Uncounted
<1>5. ASSUME NEW s \in Stripes, working' = [working EXCEPT ![s] = Woken(s)], tasks' = tasks,
             pendingTasks' = pendingTasks
      PROVE  CountInv'
  <2>1. \A r \in Stripes : working'[r] = IF r = s THEN Woken(s) ELSE working[r]
    BY <1>1, <1>5
  <2>2. Woken(s) = working[s] \/ (Woken(s).at = "idle" /\ working[s].at = "asleep")
    BY <1>2 DEF Woken
  <2>3. \A r \in Stripes : Uncounted(r)' = Uncounted(r)
    BY <2>1, <2>2 DEF Uncounted
  <2>4. Unserved' = Unserved
    BY <1>5, <2>3 DEF Unserved
  <2> QED BY <1>5, <2>4, UnservedSame
<1>6. ASSUME NEW p \in Submitters, SubmitPushes(p) PROVE CountInv'
  <2> DEFINE t == submitting[p].task
             s == StripeIndex(t)
  <2>1. submitting[p] \in Hands /\ submitting[p].at = "push" /\ t \in AtPush
    BY <1>1, <1>6 DEF SubmitPushes, AtPush
  <2>2. t \in Tasks /\ s \in Stripes
    BY <2>1, HandsAre, TasksAre
  <2>3. t \notin Unserved
    <3>1. ~(t[2] < t[2])
      BY <2>2, TasksAre
    <3>2. \A a : Precede(a, AtPush) => t \notin a
      BY <2>1, <3>1 DEF Precede
    <3>3. \A r \in Stripes : t \notin Range(tasks[r]) /\ t \notin AtWorker(r)
      BY <3>2 DEF OrderInv, Pipeline
    <3> QED BY <3>3 DEF Unserved, Uncounted, AtWorker
  <2> HIDE DEF t
  <2>4. CASE UNCHANGED <<tasks, pendingTasks>>
    BY <1>4, <1>6, <2>4 DEF SubmitPushes
  <2>5. CASE tasks' = [tasks EXCEPT ![s] = Append(@, t)] /\ pendingTasks' = pendingTasks + 1
    <3>1. /\ \A r \in Stripes \ {s} : tasks'[r] = tasks[r]
          /\ Range(tasks'[s]) = Range(tasks[s]) \cup {t}
      BY <1>1, <2>2, <2>5, AppendKeepsRising
    <3>2. \A r \in Stripes : Uncounted(r)' = Uncounted(r)
      BY <1>6 DEF SubmitPushes, Uncounted
    <3>3. \A x : x \in Unserved' <=> x \in Unserved \cup {t}
      BY <2>2, <3>1, <3>2 DEF Unserved
    <3>4. Unserved' = Unserved \cup {t}
      BY <3>3
    <3>5. IsFiniteSet(Unserved') /\ Cardinality(Unserved') = Cardinality(Unserved) + 1
      BY <2>3, <3>4, FS_AddElement DEF CountInv
    <3> QED BY <2>5, <3>5 DEF CountInv
  <2> QED BY <1>6, <2>4, <2>5 DEF SubmitPushes, t
<1>7. ASSUME NEW s \in Stripes, WorkerTakes(s) PROVE CountInv'
  <2> DEFINE t == Head(tasks[s])
             j == [at |-> "taken", task |-> t]
  <2>1. /\ working[s] = Nothing /\ tasks[s] # <<>> /\ tasks[s] \in Seq(Tasks)
        /\ working' = [working EXCEPT ![s] = j] /\ tasks' = [tasks EXCEPT ![s] = Tail(@)]
        /\ pendingTasks' = pendingTasks
    BY <1>1, <1>7 DEF WorkerTakes
  <2>2. Range(tasks[s]) = Range(Tail(tasks[s])) \cup {t} /\ j.at = "taken" /\ j.task = t
    BY <2>1, TailKeepsRising
  <2> HIDE DEF t, j
  <2>3. /\ Range(tasks'[s]) \cup Uncounted(s)' = Range(tasks[s]) \cup Uncounted(s)
        /\ \A r \in Stripes \ {s} : /\ tasks'[r] = tasks[r] /\ Uncounted(r)' = Uncounted(r)
    BY <1>1, <1>2, <2>1, <2>2 DEF Uncounted
  <2>4. \A r \in Stripes :
            Range(tasks'[r]) \cup Uncounted(r)' = Range(tasks[r]) \cup Uncounted(r)
    BY <2>3
  <2>5. Unserved' = Unserved
    BY <2>4 DEF Unserved
  <2> QED BY <2>1, <2>5, UnservedSame
<1>8. ASSUME NEW s \in Stripes, WorkerCounts(s) PROVE CountInv'
  <2> DEFINE t == working[s].task
  <2>1. /\ working[s] \in Jobs /\ working[s].at = "taken"
        /\ working' = [working EXCEPT ![s] = [working[s] EXCEPT !.at = "produce"]]
        /\ tasks' = tasks /\ pendingTasks' = pendingTasks - 1
    BY <1>1, <1>8 DEF WorkerCounts
  <2>2. working'[s].at = "produce" /\ \A r \in Stripes \ {s} : working'[r] = working[r]
    BY <1>1, <2>1, JobsAre
  <2>3. t \in Tasks /\ Uncounted(s) = {t} /\ AtWorker(s) = {t}
    BY <2>1, JobsAre DEF Uncounted, AtWorker
  <2>4. \A r \in Stripes : t \notin Range(tasks[r]) /\ (r # s => t \notin AtWorker(r))
    <3>1. ~(t[2] < t[2])
      BY <2>3, TasksAre
    <3>2. t \notin Range(tasks[s])
      BY <2>3, <3>1 DEF OrderInv, Pipeline, Precede
    <3>3. StripeIndex(t) = s
      BY <2>3 DEF OrderInv, StripesKeepTheirs
    <3> QED BY <3>2, <3>3 DEF OrderInv, StripesKeepTheirs
  <2> HIDE DEF t
  <2>5. Uncounted(s)' = {} /\ \A r \in Stripes \ {s} : Uncounted(r)' = Uncounted(r)
    BY <2>2 DEF Uncounted
  <2>6. \A r \in Stripes \ {s} : t \notin Uncounted(r)
    BY <2>4 DEF Uncounted, AtWorker
  <2>7. \A x : x \in Unserved' <=> x \in Unserved \ {t}
    BY <2>1, <2>3, <2>4, <2>5, <2>6 DEF Unserved
  <2>8. Unserved' = Unserved \ {t} /\ t \in Unserved
    BY <2>3, <2>7 DEF Unserved
  <2>9. IsFiniteSet(Unserved') /\ Cardinality(Unserved') = Cardinality(Unserved) - 1
    BY <2>8, FS_RemoveElement DEF CountInv
  <2> QED BY <2>1, <2>9 DEF CountInv
<1>9. CASE \E s \in Stripes : WorkerSleeps(s) \/ WorkerProduces(s) \/ WorkerLeaves(s)
  <2>1. PICK s \in Stripes : WorkerSleeps(s) \/ WorkerProduces(s) \/ WorkerLeaves(s)
    BY <1>9
  <2>2. working[s].at # "taken" /\ tasks' = tasks /\ pendingTasks' = pendingTasks
    BY <1>2, <2>1 DEF WorkerSleeps, WorkerProduces, WorkerLeaves
  <2>3. working'[s].at # "taken" /\ \A r \in Stripes \ {s} : working'[r] = working[r]
    BY <1>1, <1>2, <2>1 DEF WorkerSleeps, WorkerProduces, WorkerLeaves
  <2> QED BY <1>3, <2>2, <2>3
<1>10. CASE (\E s \in Stripes : StopStripe(s)) \/ \E p \in Submitters : SubmitNotifies(p)
  <2>1. \A p \in Submitters : SubmitNotifies(p) => StripeIndex(submitting[p].task) \in Stripes
    BY <1>1, HandsAre, TasksAre DEF SubmitNotifies
  <2> QED BY <1>5, <1>10, <2>1 DEF StopStripe, SubmitNotifies, ExitSame
<1>11. CASE \/ \E p \in Submitters, k \in ArchiveKeys : SubmitChecks(p, k)
            \/ Deliver \/ DeliveryFails \/ ExitBegins \/ JoinWorkers \/ StopProducer
  BY <1>4, <1>11 DEF SubmitChecks, Deliver, DeliveryFails, ExitBegins, JoinWorkers, StopProducer,
                     BrokerSame, ExitSame
<1> QED BY <1>6, <1>7, <1>8, <1>9, <1>10, <1>11 DEF QueueNext, Submits, Worker

(* The archive's queue keeps its types; pending_, read without a lock by submit,
   never falls below zero, although it is raised and lowered outside the steps
   that it counts. *)
THEOREM QueueTypesKept == QueueSafety => []QueueTypeOK
<1>1. QueueInit => CountInv
  <2> SUFFICES ASSUME QueueInit PROVE CountInv
    OBVIOUS
  <2>1. Range(<<>>) = {} /\ Nothing.at = "idle"
    BY DEF Range, Nothing
  <2>2. \A s \in Stripes : Range(tasks[s]) \cup Uncounted(s) = {}
    BY <2>1 DEF QueueInit, Uncounted
  <2>3. Unserved = {}
    BY <2>2 DEF Unserved
  <2> QED BY <2>3, FS_EmptySet DEF QueueInit, CountInv
<1>2. OrderInv /\ CountInv /\ [QueueNext]_queueVars => CountInv'
  <2>1. ASSUME CountInv, UNCHANGED queueVars PROVE CountInv'
    BY <2>1 DEF queueVars, CountInv, Unserved, Uncounted
  <2> QED BY <2>1, CountStep
<1>3. ASSUME OrderInv, CountInv PROVE QueueTypeOK
  <2>1. pendingTasks \in Nat
    BY <1>3, FS_CardinalityType DEF CountInv
  <2>2. Tasks \subseteq AllTasks
    BY DEF Tasks, AllTasks
  <2> QED BY <1>3, <2>1, <2>2, WhereTasksAre DEF OrderInv, QueueTypes, QueueTypeOK
<1> QED BY <1>1, <1>2, <1>3, OrderInvHolds, PTL DEF QueueSafety

(***************************************************************************)
(* The token bucket of a connection (MessageRate).                         *)
(***************************************************************************)

RateTypes ==
    /\ tick \in 1 .. MaxTicks /\ tokens \in 0 .. Capacity /\ filledAt \in 0 .. tick
    /\ violations \in 0 .. MaxViolations /\ closedForRate \in BOOLEAN
    /\ let \in [0 .. MaxTicks -> Nat]
    /\ refusedFirst \in 0 .. tick /\ refusedLast \in 0 .. tick

(* The counts only grow with the ticks, and nothing is counted ahead of time;
   before the first message nothing has happened. *)
LetInv ==
    /\ \A t \in 0 .. MaxTicks : t >= tick => let[t] = let[tick]
    /\ filledAt = 0 => tokens = 0 /\ \A t \in 0 .. MaxTicks : let[t] = 0
    /\ violations = MaxViolations => closedForRate

(* Since the beginning of any tick the bucket has given less than one burst, or
   what it has given and still holds is two bursts and what came in the time to
   its last fill. *)
BucketInv == filledAt # 0 =>
    /\ tokens < Capacity
    /\ \A s \in 1 .. tick :
        \/ LetIn(s, tick) + tokens < Capacity
        \/ ((LetIn(s, tick) + tokens) - 2 * Capacity) * TimeOf(1) <= filledAt - s + 1

(* Refusals since the last message that was let through lie after the last fill,
   by less than the time of a token. *)
RefusedInv ==
    /\ refusedFirst = 0 <=> refusedLast = 0
    /\ refusedFirst # 0 =>
        /\ filledAt # 0 /\ filledAt <= refusedFirst /\ refusedFirst <= refusedLast
        /\ (refusedLast - filledAt) * Rate < PerTicks

RateInv == RateTypes /\ LetInv /\ BucketInv /\ RefusedInv /\ RateHeld

-----------------------------------------------------------------------------
(* Arithmetic of the bucket *)

\* What integer division gives.
LEMMA Quotient ==
    ASSUME NEW a \in Nat, NEW b \in Nat \ {0}
    PROVE  /\ a \div b \in Nat /\ (a \div b) * b <= a /\ a < (a \div b) * b + b
<1> DEFINE q == a \div b
<1>1. q \in Nat /\ a = b * q + (a % b) /\ a % b \in 0 .. b - 1
  BY SMT
<1>2. b * q = q * b
  BY ONLY <1>1, SMT
<1> HIDE DEF q
<1> QED BY ONLY <1>1, <1>2, SMT DEF q

LEMMA TimesGrows ==
    ASSUME NEW a \in Int, NEW b \in Int, NEW c \in Nat, a <= b
    PROVE  a * c <= b * c /\ a * c \in Int /\ b * c \in Int
BY SMT

\* The capacity is a burst, one at least.
LEMMA CapacityIs ==
    /\ Capacity \in Nat \ {0}
    /\ \A n \in Nat : Fill(n) \in Nat /\ Fill(n) <= n /\ Fill(n) <= Capacity
                      /\ (n > 0 => Fill(n) > 0)
<1>1. Burst \in Nat
  BY RateAssumption
<1>2. Capacity \in Nat \ {0}
  <2>1. \E x \in {Burst, 1} : \A y \in {Burst, 1} : x >= y
    BY <1>1
  <2> QED BY <1>1, <2>1 DEF Capacity, Max
<1>3. ASSUME NEW n \in Nat
      PROVE  Fill(n) \in Nat /\ Fill(n) <= n /\ Fill(n) <= Capacity /\ (n > 0 => Fill(n) > 0)
  <2> HIDE DEF Capacity
  <2>1. \E x \in {Capacity, n} : \A y \in {Capacity, n} : x =< y
    BY <1>2
  <2> QED BY <1>2, <2>1 DEF Fill, Min
<1> QED BY <1>2, <1>3

\* A fill moves the moment of the last fill by no more than has passed, leaves no
\* more than the time of one token behind, and counts TimeOf(1) for each token.
LEMMA FillTime ==
    ASSUME NEW e \in Nat, NEW n, n = (e * Rate) \div PerTicks
    PROVE  /\ n \in Nat /\ TimeOf(n) \in Nat /\ TimeOf(1) \in Nat
           /\ TimeOf(n) <= e /\ e <= TimeOf(n) + TimeOf(1) + 1
           /\ n * TimeOf(1) <= TimeOf(n)
<1> DEFINE T == TimeOf(n)
           u == TimeOf(1)
<1>0. Rate \in Nat \ {0} /\ PerTicks \in Nat \ {0}
  BY RateAssumption
<1>1. n \in Nat /\ n * PerTicks <= e * Rate /\ e * Rate < n * PerTicks + PerTicks
  <2>1. e * Rate \in Nat
    BY <1>0, SMT
  <2> QED BY ONLY <2>1, <1>0, Quotient, n = (e * Rate) \div PerTicks
<1>2. T \in Nat /\ T * Rate <= n * PerTicks /\ n * PerTicks < T * Rate + Rate
  <2>1. n * PerTicks \in Nat
    BY <1>0, <1>1, SMT
  <2> QED BY <2>1, <1>0, Quotient DEF TimeOf
<1>3. u \in Nat /\ u * Rate <= PerTicks /\ PerTicks < u * Rate + Rate
  <2>1. 1 * PerTicks = PerTicks
    BY <1>0
  <2> QED BY <2>1, <1>0, Quotient DEF TimeOf
<1> HIDE DEF T, u
<1>4. n * PerTicks \in Nat /\ e * Rate \in Nat /\ T * Rate \in Nat /\ u * Rate \in Nat
  BY ONLY <1>0, <1>1, <1>2, <1>3, e \in Nat, SMT
<1>5. T <= e
  <2>1. SUFFICES ASSUME e + 1 <= T PROVE FALSE
    BY <1>2
  <2>2. (e + 1) * Rate <= T * Rate
    BY ONLY <1>0, <1>2, <2>1, e \in Nat, TimesGrows
  <2>3. (e + 1) * Rate = e * Rate + Rate
    BY ONLY <1>0, e \in Nat, SMT
  <2> QED BY ONLY <1>0, <1>1, <1>2, <1>4, <2>2, <2>3
<1>6. e <= T + u + 1
  <2>1. SUFFICES ASSUME T + u + 2 <= e PROVE FALSE
    BY <1>2, <1>3
  <2>2. (T + u + 2) * Rate <= e * Rate
    BY ONLY <1>0, <1>2, <1>3, <2>1, e \in Nat, TimesGrows
  <2>3. (T + u + 2) * Rate = T * Rate + u * Rate + Rate + Rate
    BY ONLY <1>0, <1>2, <1>3, SMT
  <2> QED BY ONLY <1>0, <1>1, <1>2, <1>3, <1>4, <2>2, <2>3
<1>7. n * u <= T
  <2>0. n * u \in Nat
    BY ONLY <1>1, <1>3, SMT
  <2>1. SUFFICES ASSUME T + 1 <= n * u PROVE FALSE
    BY <1>2, <2>0
  <2>2. (T + 1) * Rate <= (n * u) * Rate
    BY ONLY <1>0, <1>2, <2>0, <2>1, TimesGrows
  <2>3. (T + 1) * Rate = T * Rate + Rate /\ (n * u) * Rate = (u * Rate) * n
    BY ONLY <1>0, <1>1, <1>2, <1>3, SMT
  <2>4. (u * Rate) * n <= PerTicks * n
    BY ONLY <1>0, <1>1, <1>3, <1>4, TimesGrows
  <2>5. PerTicks * n = n * PerTicks
    BY ONLY <1>0, <1>1, SMT
  <2>6. (u * Rate) * n \in Nat /\ (n * u) * Rate \in Nat
    BY ONLY <1>1, <1>4, <2>0, <1>0, SMT
  <2> QED BY ONLY <1>0, <1>2, <1>4, <2>2, <2>3, <2>4, <2>5, <2>6
<1> QED BY <1>1, <1>2, <1>3, <1>5, <1>6, <1>7 DEF T, u

-----------------------------------------------------------------------------
(* The steps *)

LEMMA RateInitHolds == RateInit => RateInv
<1> SUFFICES ASSUME RateInit PROVE RateInv
  OBVIOUS
<1>1. /\ tick = 1 /\ tokens = 0 /\ filledAt = 0 /\ violations = 0 /\ closedForRate = FALSE
      /\ refusedFirst = 0 /\ refusedLast = 0
      /\ let = [t \in 0 .. MaxTicks |-> 0]
  BY DEF RateInit
<1>2. \A t \in 0 .. MaxTicks : let[t] = 0
  BY <1>1
<1>3. MaxTicks \in Nat \ {0} /\ MaxViolations \in Nat \ {0}
  BY RateAssumption
<1>4. RateTypes
  <2>1. let \in [0 .. MaxTicks -> Nat]
    BY <1>1
  <2>2. 0 \in 0 .. Capacity /\ 0 \in 0 .. MaxViolations
    BY <1>3, CapacityIs
  <2>3. 1 \in 1 .. MaxTicks /\ 0 \in 0 .. 1
    BY ONLY <1>3
  <2> HIDE DEF Capacity
  <2> QED BY <1>1, <2>1, <2>2, <2>3, Zenon DEF RateTypes
<1>5. LetInv /\ BucketInv /\ RefusedInv
  <2>1. LetInv
    BY <1>1, <1>2, <1>3 DEF LetInv
  <2>2. BucketInv /\ RefusedInv
    BY <1>1 DEF BucketInv, RefusedInv
  <2> QED BY <2>1, <2>2
<1>6. RateHeld
  <2>1. SUFFICES (LetIn(1, 1) - 2 * Capacity) * TimeOf(1) <= 1
    BY <1>1 DEF RateHeld
  <2>2. LetIn(1, 1) = 0
    BY <1>2, <1>3 DEF LetIn
  <2>3. TimeOf(1) \in Nat /\ Capacity \in Nat
    BY FillTime, CapacityIs
  <2> HIDE DEF Capacity
  <2>4. (0 - 2 * Capacity) * TimeOf(1) <= 0 * TimeOf(1)
    BY ONLY <2>3, TimesGrows
  <2> QED BY <2>2, <2>3, <2>4
<1> QED BY <1>4, <1>5, <1>6 DEF RateInv

\* What was let through is no more for the tokens that are left.
LEMMA BucketBound ==
    ASSUME NEW n \in Int, NEW k \in Nat, NEW C \in Nat, NEW u \in Nat, NEW d \in Nat,
           n + k < C \/ ((n + k) - 2 * C) * u <= d
    PROVE  (n - 2 * C) * u <= d
<1>1. CASE n + k < C
  <2>1. n - 2 * C <= 0 /\ n - 2 * C \in Int
    BY <1>1
  <2>2. (n - 2 * C) * u <= 0 * u /\ (n - 2 * C) * u \in Int /\ 0 * u = 0
    BY ONLY <2>1, TimesGrows, u \in Nat, SMT
  <2> QED BY ONLY <2>2, d \in Nat
<1>2. CASE ((n + k) - 2 * C) * u <= d
  <2>1. n - 2 * C <= (n + k) - 2 * C /\ n - 2 * C \in Int /\ (n + k) - 2 * C \in Int
    OBVIOUS
  <2>2. (n - 2 * C) * u <= ((n + k) - 2 * C) * u
        /\ (n - 2 * C) * u \in Int /\ ((n + k) - 2 * C) * u \in Int
    BY ONLY <2>1, TimesGrows, u \in Nat
  <2> QED BY ONLY <2>2, <1>2, d \in Nat
<1> QED BY <1>1, <1>2

\* Whatever a step does: what was let through in the past stays, and for the
\* present the bucket speaks.
LEMMA RateHeldFromBucket ==
    ASSUME RateHeld, RateTypes, RateTypes', tick' = tick, LetInv', BucketInv',
           \A t \in 0 .. MaxTicks : t < tick => let'[t] = let[t]
    PROVE  RateHeld'
<1> DEFINE C == Capacity
           u == TimeOf(1)
<1>0. C \in Nat \ {0} /\ u \in Nat /\ MaxTicks \in Nat
  BY CapacityIs, FillTime, RateAssumption
<1>1. tick \in 1 .. MaxTicks /\ filledAt' \in 0 .. tick /\ tokens' \in 0 .. C
      /\ \A t \in 0 .. MaxTicks : let[t] \in Nat /\ let'[t] \in Nat
  BY DEF RateTypes
<1> HIDE DEF C, u
<1>2. SUFFICES ASSUME NEW s \in 1 .. tick, NEW t \in s .. tick
               PROVE  (let'[t] - let'[s - 1] - 2 * C) * u <= t - s + 1
  BY DEF RateHeld, LetIn, C, u
<1>3. s - 1 \in 0 .. MaxTicks /\ s - 1 < tick /\ t \in 0 .. MaxTicks
      /\ let'[s - 1] = let[s - 1]
  BY <1>0, <1>1
<1>4. CASE t < tick
  <2>1. let'[t] = let[t]
    BY <1>3, <1>4
  <2>2. (let[t] - let[s - 1] - 2 * C) * u <= t - s + 1
    BY <1>2 DEF RateHeld, LetIn, C, u
  <2> QED BY <1>3, <2>1, <2>2
<1>5. CASE t = tick
  <2>1. let'[tick] - let'[s - 1] \in Int /\ tokens' \in Nat /\ t - s + 1 \in Nat
        /\ t = tick /\ C \in Nat /\ s \in Int
        /\ filledAt' \in Int /\ tick \in Int /\ filledAt' <= tick
    BY <1>0, <1>1, <1>3, <1>5
  <2>2. CASE filledAt' = 0
    <3>1. let'[tick] - let'[s - 1] = 0 /\ tokens' = 0
      BY <2>2, <1>0, <1>1, <1>3 DEF LetInv
    <3>2. let'[tick] - let'[s - 1] + tokens' < C
      BY ONLY <3>1, <1>0
    <3>3. (let'[tick] - let'[s - 1] - 2 * C) * u <= t - s + 1
      BY ONLY <3>2, <2>1, <1>0, BucketBound
    <3> QED BY ONLY <3>3, <2>1
  <2>3. CASE filledAt' # 0
    <3>1. \/ let'[tick] - let'[s - 1] + tokens' < C
          \/ ((let'[tick] - let'[s - 1] + tokens') - 2 * C) * u <= filledAt' - s + 1
      BY <2>3, <1>2 DEF BucketInv, LetIn, C, u
    <3>2. filledAt' - s + 1 <= t - s + 1
      <4>1. filledAt' \in Int /\ tick \in Int /\ s \in Int /\ filledAt' <= tick /\ t = tick
        BY <2>1
      <4>2. \A x, y \in Int : x <= y => x - s + 1 <= y - s + 1
        BY ONLY s \in 1 .. tick, <4>1
      <4> QED BY ONLY <4>1, <4>2, Zenon
    <3>3. ((let'[tick] - let'[s - 1] + tokens') - 2 * C) * u \in Int
          /\ filledAt' - s + 1 \in Int
      BY <1>0, <1>1, <2>1, SMT
    <3>4. \/ let'[tick] - let'[s - 1] + tokens' < C
          \/ ((let'[tick] - let'[s - 1] + tokens') - 2 * C) * u <= t - s + 1
      BY ONLY <3>1, <3>2, <3>3, <2>1
    <3>5. (let'[tick] - let'[s - 1] - 2 * C) * u <= t - s + 1
      BY ONLY <3>4, <2>1, <1>0, BucketBound
    <3> QED BY ONLY <3>5, <2>1
  <2> QED BY <2>2, <2>3
<1> QED BY <1>1, <1>2, <1>4, <1>5

\* What every message that is let through does to the books.
LEMMA LetsKeeps ==
    ASSUME RateInv, Lets, tick' = tick
    PROVE  /\ let' \in [0 .. MaxTicks -> Nat]
           /\ \A t \in 0 .. MaxTicks : let'[t] = IF t < tick THEN let[t] ELSE let[t] + 1
           /\ \A t \in 0 .. MaxTicks : t >= tick => let'[t] = let'[tick]
           /\ \A s \in 1 .. tick : /\ let'[tick] - let'[s - 1] = let[tick] - let[s - 1] + 1
                                  /\ let[tick] - let[s - 1] \in Int
           /\ RefusedInv' /\ refusedFirst' = 0 /\ refusedLast' = 0
           /\ violations' = 0 /\ closedForRate' = closedForRate
<1>0. MaxTicks \in Nat \ {0} /\ tick \in 1 .. MaxTicks /\ let \in [0 .. MaxTicks -> Nat]
  BY RateAssumption DEF RateInv, RateTypes
<1>1. /\ let' = [t \in 0 .. MaxTicks |-> IF t < tick THEN let[t] ELSE let[t] + 1]
      /\ violations' = 0 /\ closedForRate' = closedForRate
      /\ refusedFirst' = 0 /\ refusedLast' = 0
  BY DEF Lets
<1>2. let' \in [0 .. MaxTicks -> Nat]
      /\ \A t \in 0 .. MaxTicks : let'[t] = IF t < tick THEN let[t] ELSE let[t] + 1
  BY ONLY <1>0, <1>1
<1>3. \A t \in 0 .. MaxTicks : t >= tick => let'[t] = let'[tick]
  <2>1. \A t \in 0 .. MaxTicks : t >= tick => let[t] = let[tick]
    BY DEF RateInv, LetInv
  <2> QED BY ONLY <1>0, <1>2, <2>1
<1>4. \A s \in 1 .. tick : /\ let'[tick] - let'[s - 1] = let[tick] - let[s - 1] + 1
                         /\ let[tick] - let[s - 1] \in Int
  <2>1. SUFFICES ASSUME NEW s \in 1 .. tick
                 PROVE  /\ let'[tick] - let'[s - 1] = let[tick] - let[s - 1] + 1
                        /\ let[tick] - let[s - 1] \in Int
    OBVIOUS
  <2>2. s - 1 \in 0 .. MaxTicks /\ s - 1 < tick /\ tick \in 0 .. MaxTicks
    BY ONLY <1>0, s \in 1 .. tick
  <2>3. let'[tick] = let[tick] + 1 /\ let'[s - 1] = let[s - 1]
        /\ let[tick] \in Nat /\ let[s - 1] \in Nat
    BY ONLY <1>0, <1>2, <2>2
  <2> QED BY ONLY <2>3
<1> QED BY <1>1, <1>2, <1>3, <1>4 DEF RefusedInv

LEMMA AllowFromBucketKeeps ==
    ASSUME RateInv, AllowFromBucket
    PROVE  RateInv'
<1> DEFINE C == Capacity
           u == TimeOf(1)
<1>0. /\ C \in Nat \ {0} /\ u \in Nat /\ MaxTicks \in Nat \ {0} /\ MaxViolations \in Nat \ {0}
      /\ tick \in 1 .. MaxTicks /\ tokens \in 0 .. C /\ filledAt \in 0 .. tick
      /\ closedForRate \in BOOLEAN
  BY CapacityIs, FillTime, RateAssumption DEF RateInv, RateTypes
<1>1. /\ Tokens > 0 /\ tokens' = Tokens - 1 /\ filledAt' = FilledAt /\ tick' = tick
      /\ ~closedForRate
  BY DEF AllowFromBucket, Sends
<1>2. /\ let' \in [0 .. MaxTicks -> Nat]
      /\ \A t \in 0 .. MaxTicks : let'[t] = IF t < tick THEN let[t] ELSE let[t] + 1
      /\ \A t \in 0 .. MaxTicks : t >= tick => let'[t] = let'[tick]
      /\ \A s \in 1 .. tick : /\ let'[tick] - let'[s - 1] = let[tick] - let[s - 1] + 1
                             /\ let[tick] - let[s - 1] \in Int
      /\ RefusedInv' /\ refusedFirst' = 0 /\ refusedLast' = 0
      /\ violations' = 0 /\ closedForRate' = closedForRate
  BY <1>1, LetsKeeps DEF AllowFromBucket
<1> HIDE DEF C, u
<1>3. /\ filledAt' \in 1 .. tick /\ tokens' \in 0 .. C /\ tokens' < C
      /\ filledAt = 0 => tokens' = C - 1 /\ filledAt' = tick
      /\ filledAt # 0 => tokens' = tokens - 1 /\ filledAt' = filledAt
  BY <1>0, <1>1 DEF Tokens, FilledAt, FirstSeen, C
<1>4. RateTypes'
  BY <1>0, <1>1, <1>2, <1>3 DEF RateTypes, C
<1>5. LetInv'
  BY <1>0, <1>1, <1>2, <1>3 DEF LetInv
<1>6. BucketInv'
  <2>1. SUFFICES ASSUME NEW s \in 1 .. tick
                 PROVE  \/ let'[tick] - let'[s - 1] + tokens' < C
                        \/ ((let'[tick] - let'[s - 1] + tokens') - 2 * C) * u
                              <= filledAt' - s + 1
    BY <1>1, <1>3 DEF BucketInv, LetIn, C, u
  <2> DEFINE was == let[tick] - let[s - 1]
             is  == let'[tick] - let'[s - 1]
  <2>2. is = was + 1 /\ was \in Int
    BY <1>2
  <2>4. CASE filledAt = 0
    <3>1. was = 0
      <4>1. s - 1 \in 0 .. MaxTicks /\ tick \in 0 .. MaxTicks
        BY <1>0
      <4> QED BY <4>1, <2>4 DEF RateInv, LetInv
    <3> HIDE DEF was, is
    <3>2. (is + tokens') - 2 * C = 0 - C /\ filledAt' = tick
      BY ONLY <1>0, <1>3, <2>2, <2>4, <3>1
    <3>3. 0 - C <= 0 /\ 0 - C \in Int
      BY ONLY <1>0
    <3>4. (0 - C) * u <= 0 * u /\ (0 - C) * u \in Int /\ 0 * u = 0
      BY ONLY <1>0, <3>3, TimesGrows, SMT
    <3>5. 0 <= filledAt' - s + 1 /\ filledAt' - s + 1 \in Int
      BY <1>0, <3>2
    <3>6. ((is + tokens') - 2 * C) * u <= filledAt' - s + 1
      BY ONLY <3>2, <3>4, <3>5
    <3> QED BY ONLY <3>6 DEF is
  <2>5. CASE filledAt # 0
    <3> HIDE DEF was, is
    <3>1. was + tokens < C \/ ((was + tokens) - 2 * C) * u <= filledAt - s + 1
      BY <2>5 DEF RateInv, BucketInv, LetIn, C, u, was
    <3>2. is + tokens' = was + tokens /\ filledAt' = filledAt
      BY ONLY <1>0, <1>3, <2>2, <2>5
    <3>3. is + tokens' < C \/ ((is + tokens') - 2 * C) * u <= filledAt' - s + 1
      <4>1. ((is + tokens') - 2 * C) * u = ((was + tokens) - 2 * C) * u
        BY ONLY <3>2
      <4>2. filledAt' - s + 1 = filledAt - s + 1
        BY ONLY <3>2
      <4>3. CASE was + tokens < C
        BY ONLY <3>2, <4>3
      <4>4. CASE ((was + tokens) - 2 * C) * u <= filledAt - s + 1
        BY ONLY <4>1, <4>2, <4>4
      <4> QED BY <3>1, <4>3, <4>4
    <3> QED BY ONLY <3>3 DEF is
  <2> QED BY <2>4, <2>5
<1>7. RateHeld'
  BY <1>1, <1>2, <1>4, <1>5, <1>6, RateHeldFromBucket DEF RateInv
<1> QED BY <1>2, <1>4, <1>5, <1>6, <1>7 DEF RateInv

\* A fill of an empty bucket.
LEMMA BucketFilled ==
    ASSUME NEW n \in Int, NEW C \in Nat, NEW u \in Nat, NEW k \in Nat, k <= C,
           NEW add \in Nat, k * u <= add, NEW f \in Nat, NEW now \in Nat, NEW s \in Nat,
           s <= now, now <= f + add + u + 1,
           n < C \/ (n - 2 * C) * u <= f - s + 1
    PROVE  ((n + k) - 2 * C) * u <= (f + add) - s + 1
<1>1. CASE n < C
  <2>1. (n + k) - 2 * C <= 0 - 1 /\ (n + k) - 2 * C \in Int
    BY <1>1
  <2>2. ((n + k) - 2 * C) * u <= (0 - 1) * u /\ ((n + k) - 2 * C) * u \in Int
    BY ONLY <2>1, TimesGrows, u \in Nat
  <2>3. (0 - 1) * u = 0 - u
    BY ONLY u \in Nat, SMT
  <2>4. 0 - u <= (f + add) - s + 1
    OBVIOUS
  <2>5. 0 - u \in Int /\ (f + add) - s + 1 \in Int
    OBVIOUS
  <2> QED BY ONLY <2>2, <2>3, <2>4, <2>5
<1>2. CASE (n - 2 * C) * u <= f - s + 1
  <2>1. ((n + k) - 2 * C) * u = (n - 2 * C) * u + k * u
    BY ONLY n \in Int, k \in Nat, C \in Nat, u \in Nat, SMT
  <2>2. (n - 2 * C) * u \in Int /\ k * u \in Int
    BY ONLY n \in Int, k \in Nat, C \in Nat, u \in Nat, SMT
  <2> QED BY <1>2, <2>1, <2>2
<1> QED BY <1>1, <1>2

LEMMA AllowRefilledKeeps ==
    ASSUME RateInv, AllowRefilled
    PROVE  RateInv'
<1> DEFINE C == Capacity
           u == TimeOf(1)
           e == tick - filledAt
           n == Refill
<1>0. /\ C \in Nat \ {0} /\ u \in Nat /\ MaxTicks \in Nat \ {0} /\ MaxViolations \in Nat \ {0}
      /\ tick \in 1 .. MaxTicks /\ tokens \in 0 .. C /\ filledAt \in 0 .. tick
      /\ closedForRate \in BOOLEAN
  BY CapacityIs, FillTime, RateAssumption DEF RateInv, RateTypes
<1> HIDE DEF C, u
<1>1. /\ Tokens <= 0 /\ Refill > 0 /\ tokens' = Fill(Refill) - 1 /\ tick' = tick
      /\ filledAt' = FilledAt + TimeOf(Refill) /\ ~closedForRate
  BY DEF AllowRefilled, Sends
<1>2. filledAt # 0 /\ FilledAt = filledAt /\ tokens = 0
  BY <1>0, <1>1 DEF Tokens, FilledAt, FirstSeen, C
<1>3. /\ let' \in [0 .. MaxTicks -> Nat]
      /\ \A t \in 0 .. MaxTicks : let'[t] = IF t < tick THEN let[t] ELSE let[t] + 1
      /\ \A t \in 0 .. MaxTicks : t >= tick => let'[t] = let'[tick]
      /\ \A s \in 1 .. tick : /\ let'[tick] - let'[s - 1] = let[tick] - let[s - 1] + 1
                             /\ let[tick] - let[s - 1] \in Int
      /\ RefusedInv' /\ refusedFirst' = 0 /\ refusedLast' = 0
      /\ violations' = 0 /\ closedForRate' = closedForRate
  BY <1>1, LetsKeeps DEF AllowRefilled
<1>4. /\ n \in Nat /\ TimeOf(n) \in Nat
      /\ TimeOf(n) <= e /\ e <= TimeOf(n) + u + 1 /\ n * u <= TimeOf(n)
  <2>1. e \in Nat /\ n = (e * Rate) \div PerTicks
    BY <1>0, <1>2 DEF Refill
  <2> HIDE DEF e, n
  <2> QED BY ONLY <2>1, FillTime DEF u
<1> DEFINE k == Fill(n)
           add == TimeOf(n)
<1>5. k \in Nat /\ k <= n /\ k <= C /\ k > 0
  BY <1>1, <1>4, CapacityIs DEF C
<1>6. tokens' = k - 1 /\ filledAt' = filledAt + add /\ add \in Nat /\ n * u <= add
      /\ add <= tick - filledAt /\ tick - filledAt <= add + u + 1 /\ n \in Nat
  BY <1>1, <1>2, <1>4
<1> HIDE DEF n, k, add, e
<1>7. filledAt' \in 1 .. tick /\ tokens' \in 0 .. C /\ tokens' < C
  BY ONLY <1>0, <1>2, <1>5, <1>6
<1>8. RateTypes'
  BY <1>0, <1>1, <1>3, <1>7 DEF RateTypes, C
<1>9. LetInv'
  BY <1>0, <1>1, <1>3, <1>7 DEF LetInv
<1>10. BucketInv'
  <2>1. SUFFICES ASSUME NEW s \in 1 .. tick
                 PROVE  \/ let'[tick] - let'[s - 1] + tokens' < C
                        \/ ((let'[tick] - let'[s - 1] + tokens') - 2 * C) * u
                              <= filledAt' - s + 1
    BY <1>1, <1>7 DEF BucketInv, LetIn, C, u
  <2> DEFINE was == let[tick] - let[s - 1]
             is  == let'[tick] - let'[s - 1]
  <2> HIDE DEF was, is
  <2>2. is = was + 1 /\ was \in Int
    BY <1>3 DEF was, is
  <2>3. was < C \/ (was - 2 * C) * u <= filledAt - s + 1
    <3>1. was + tokens < C \/ ((was + tokens) - 2 * C) * u <= filledAt - s + 1
      BY <1>2 DEF RateInv, BucketInv, LetIn, C, u, was
    <3>2. was + tokens = was
      BY <1>2, <2>2
    <3> QED BY ONLY <3>1, <3>2
  <2>4. k * u <= n * u /\ k * u \in Int /\ n * u \in Int
    BY ONLY <1>0, <1>5, <1>6, TimesGrows
  <2>5. k * u <= add /\ s \in Nat /\ s <= tick /\ tick \in Nat /\ filledAt \in Nat
        /\ tick <= filledAt + add + u + 1
    BY <1>0, <1>6, <2>4
  <2>6. ((was + k) - 2 * C) * u <= (filledAt + add) - s + 1
    BY ONLY <1>0, <1>5, <1>6, <2>2, <2>3, <2>5, BucketFilled
  <2>7. is + tokens' = was + k
    BY ONLY <1>5, <1>6, <2>2
  <2>8. ((is + tokens') - 2 * C) * u <= filledAt' - s + 1
    BY ONLY <2>6, <2>7, <1>6
  <2> QED BY ONLY <2>8 DEF is
<1>11. RateHeld'
  BY <1>1, <1>3, <1>8, <1>9, <1>10, RateHeldFromBucket DEF RateInv
<1> QED BY <1>3, <1>8, <1>9, <1>10, <1>11 DEF RateInv

LEMMA RefuseKeeps ==
    ASSUME RateInv, Refuse
    PROVE  RateInv'
<1>0. /\ Capacity \in Nat \ {0} /\ MaxTicks \in Nat \ {0} /\ MaxViolations \in Nat \ {0}
      /\ Rate \in Nat \ {0} /\ PerTicks \in Nat \ {0}
      /\ tick \in 1 .. MaxTicks /\ tokens \in 0 .. Capacity /\ filledAt \in 0 .. tick
      /\ violations \in 0 .. MaxViolations
      /\ refusedFirst \in 0 .. tick /\ refusedLast \in 0 .. tick
  BY CapacityIs, RateAssumption DEF RateInv, RateTypes
<1>1. /\ Tokens <= 0 /\ Refill <= 0 /\ ~closedForRate
      /\ tokens' = Tokens /\ filledAt' = FilledAt /\ tick' = tick /\ let' = let
      /\ violations' = violations + 1 /\ closedForRate' = (violations' >= MaxViolations)
      /\ refusedFirst' = (IF refusedFirst = 0 THEN tick ELSE refusedFirst)
      /\ refusedLast' = tick
  BY DEF Refuse, Sends
<1> HIDE DEF Capacity
<1>2. filledAt # 0 /\ FilledAt = filledAt /\ tokens = 0 /\ Tokens = tokens
  BY <1>0, <1>1 DEF Tokens, FilledAt, FirstSeen
<1>3. violations' \in 0 .. MaxViolations /\ closedForRate' \in BOOLEAN
      /\ (violations' = MaxViolations => closedForRate')
  <2>1. violations # MaxViolations
    BY <1>1 DEF RateInv, LetInv
  <2>2. violations' \in 0 .. MaxViolations
    BY <1>0, <1>1, <2>1
  <2>3. closedForRate' = (violations' >= MaxViolations)
    BY <1>1
  <2>4. closedForRate' \in BOOLEAN
    BY ONLY <2>3, SMT
  <2>5. ASSUME violations' = MaxViolations PROVE closedForRate'
    <3>1. violations' >= MaxViolations
      BY ONLY <2>5, <1>0
    <3> QED BY ONLY <2>3, <3>1, Zenon
  <2> QED BY <2>2, <2>4, <2>5
<1>4. RateTypes' /\ LetInv' /\ BucketInv' /\ RateHeld'
  <2>1. RateTypes'
    BY <1>0, <1>1, <1>2, <1>3 DEF RateInv, RateTypes
  <2>2. LetInv'
    BY <1>1, <1>2, <1>3 DEF RateInv, LetInv
  <2>3. BucketInv'
    BY <1>1, <1>2 DEF RateInv, BucketInv, LetIn
  <2>4. RateHeld'
    BY <1>1 DEF RateInv, RateHeld, LetIn
  <2> QED BY <2>1, <2>2, <2>3, <2>4
<1>5. RefusedInv'
  <2>1. (tick - filledAt) * Rate < PerTicks
    <3> DEFINE w == (tick - filledAt) * Rate
    <3>1. w \in Nat /\ w \div PerTicks <= 0
      BY <1>0, <1>1, <1>2, SMT DEF Refill
    <3> HIDE DEF w
    <3>2. w \div PerTicks = 0 /\ w < (w \div PerTicks) * PerTicks + PerTicks
      BY ONLY <3>1, <1>0, Quotient
    <3> QED BY ONLY <3>1, <3>2, <1>0 DEF w
  <2>2. CASE refusedFirst = 0
    BY <1>0, <1>1, <1>2, <2>1, <2>2 DEF RefusedInv
  <2>3. CASE refusedFirst # 0
    BY <1>0, <1>1, <1>2, <2>1, <2>3 DEF RateInv, RefusedInv
  <2> QED BY <2>2, <2>3
<1> QED BY <1>4, <1>5 DEF RateInv

LEMMA TickKeeps ==
    ASSUME RateInv, Tick
    PROVE  RateInv'
<1> DEFINE C == Capacity
           u == TimeOf(1)
           now == tick + 1
<1>0. /\ C \in Nat \ {0} /\ u \in Nat /\ MaxTicks \in Nat \ {0}
      /\ tick \in 1 .. MaxTicks /\ tokens \in 0 .. C /\ filledAt \in 0 .. tick
      /\ refusedFirst \in 0 .. tick /\ refusedLast \in 0 .. tick
      /\ \A t \in 0 .. MaxTicks : let[t] \in Nat
  BY CapacityIs, FillTime, RateAssumption DEF RateInv, RateTypes
<1> HIDE DEF C, u
<1>1. /\ tick < MaxTicks /\ tick' = now /\ tokens' = tokens /\ filledAt' = filledAt
      /\ violations' = violations /\ closedForRate' = closedForRate /\ let' = let
      /\ refusedFirst' = refusedFirst /\ refusedLast' = refusedLast
  BY DEF Tick
<1>2. let[now] = let[tick] /\ \A t \in 0 .. MaxTicks : t >= tick => let[t] = let[tick]
  BY <1>0, <1>1 DEF RateInv, LetInv
<1>3. RateTypes' /\ LetInv' /\ RefusedInv'
  <2>1. RateTypes'
    <3>1. tick' \in 1 .. MaxTicks /\ filledAt' \in 0 .. tick'
          /\ refusedFirst' \in 0 .. tick' /\ refusedLast' \in 0 .. tick'
      BY <1>0, <1>1
    <3> QED BY <1>1, <3>1 DEF RateInv, RateTypes
  <2>2. LetInv'
    <3>1. \A t \in 0 .. MaxTicks : t >= now => let[t] = let[now]
      BY <1>0, <1>2
    <3> QED BY <1>1, <3>1 DEF RateInv, LetInv
  <2>3. RefusedInv'
    BY <1>1 DEF RateInv, RefusedInv
  <2> QED BY <2>1, <2>2, <2>3
<1>4. BucketInv'
  <2>1. SUFFICES ASSUME filledAt # 0, NEW s \in 1 .. now
                 PROVE  /\ tokens < C
                        /\ \/ let[now] - let[s - 1] + tokens < C
                           \/ ((let[now] - let[s - 1] + tokens) - 2 * C) * u <= filledAt - s + 1
    <3>1. 1 \in 1 .. now
      BY <1>0
    <3> QED BY <1>1, <3>1 DEF BucketInv, LetIn, C, u
  <2>2. tokens < C
    BY <2>1 DEF RateInv, BucketInv, C
  <2>3. CASE s = now
    <3>1. s - 1 = tick /\ let[tick] \in Nat
      BY <1>0, <2>3
    <3>2. let[now] - let[s - 1] + tokens = tokens
      BY <1>0, <1>2, <3>1
    <3> QED BY <2>2, <3>2
  <2>4. CASE s # now
    <3>1. s \in 1 .. tick
      BY <1>0, <2>4
    <3>2. \/ let[tick] - let[s - 1] + tokens < C
          \/ ((let[tick] - let[s - 1] + tokens) - 2 * C) * u <= filledAt - s + 1
      BY <2>1, <3>1 DEF RateInv, BucketInv, LetIn, C, u
    <3> QED BY <1>2, <2>2, <3>2
  <2> QED BY <2>3, <2>4
<1>5. RateHeld'
  <2>1. SUFFICES ASSUME NEW s \in 1 .. now, NEW t \in s .. now
                 PROVE  (let[t] - let[s - 1] - 2 * C) * u <= t - s + 1
    BY <1>1 DEF RateHeld, LetIn, C, u
  <2>2. s \in Nat /\ t \in Nat /\ s - 1 \in 0 .. MaxTicks /\ t \in 0 .. MaxTicks
        /\ t - s + 1 \in Nat
    BY <1>0, <1>1
  <2>3. CASE t <= tick
    <3>1. s \in 1 .. tick /\ t \in s .. tick
      BY <1>0, <2>2, <2>3
    <3> QED BY <3>1 DEF RateInv, RateHeld, LetIn, C, u
  <2>4. CASE t = now /\ s <= tick
    <3>1. s \in 1 .. tick /\ tick \in s .. tick
      BY <1>0, <2>2, <2>4
    <3>2. (let[tick] - let[s - 1] - 2 * C) * u <= tick - s + 1
      BY <3>1 DEF RateInv, RateHeld, LetIn, C, u
    <3>3. (let[tick] - let[s - 1] - 2 * C) * u \in Int /\ tick - s + 1 <= t - s + 1
          /\ tick - s + 1 \in Int
      BY <1>0, <2>2, <2>4, SMT
    <3>4. let[t] = let[tick]
      BY <1>2, <2>4
    <3> QED BY <2>2, <3>2, <3>3, <3>4
  <2>5. CASE t = now /\ s = now
    <3>1. let[t] = let[tick] /\ let[s - 1] = let[tick] /\ let[tick] \in Nat
      BY <1>0, <1>2, <2>5
    <3>2. let[t] - let[s - 1] \in Int /\ let[t] - let[s - 1] + 0 < C
      BY <1>0, <3>1
    <3> HIDE DEF now
    <3> QED BY ONLY <1>0, <2>2, <3>2, BucketBound
  <2> QED BY <1>0, <2>2, <2>3, <2>4, <2>5
<1> QED BY <1>3, <1>4, <1>5 DEF RateInv

LEMMA RateStutterKeeps == RateInv /\ UNCHANGED rateVars => RateInv'
<1> SUFFICES ASSUME RateInv, UNCHANGED rateVars PROVE RateInv'
  OBVIOUS
<1>1. RateTypes'
  BY DEF rateVars, RateInv, RateTypes
<1>2. LetInv' /\ RefusedInv'
  BY DEF rateVars, RateInv, LetInv, RefusedInv
<1>3. BucketInv' /\ RateHeld'
  BY DEF rateVars, RateInv, BucketInv, RateHeld, LetIn
<1> QED BY <1>1, <1>2, <1>3 DEF RateInv

LEMMA RateInvAlways == RateSpec => []RateInv
<1>1. RateInv /\ [RateNext]_rateVars => RateInv'
  <2> SUFFICES ASSUME RateInv, [RateNext]_rateVars PROVE RateInv'
    OBVIOUS
  <2>1. CASE AllowFromBucket
    BY <2>1, AllowFromBucketKeeps
  <2>2. CASE AllowRefilled
    BY <2>2, AllowRefilledKeeps
  <2>3. CASE Refuse
    BY <2>3, RefuseKeeps
  <2>4. CASE Tick
    BY <2>4, TickKeeps
  <2>5. CASE UNCHANGED rateVars
    BY <2>5, RateStutterKeeps
  <2> QED BY <2>1, <2>2, <2>3, <2>4, <2>5 DEF RateNext
<1> QED BY <1>1, RateInitHolds, PTL DEF RateSpec

(* The types of MessageRate.  (ChatWebsocket.h, allowMessage) *)
THEOREM RateTypesKept == RateSpec => []RateTypeOK
<1>1. RateInv => RateTypeOK
  BY DEF RateInv, RateTypes, RateTypeOK
<1> QED BY <1>1, RateInvAlways, PTL

(* Whatever the rate, the burst and the number of messages a client sends, in no
   stretch of time is more let through than two bursts and one message for each
   TimeOf(1), and a client is never refused for as long as one token takes:
   what time has brought is neither given twice nor thrown away by a refusal.
   (ChatWebsocket.h, allowMessage) *)
THEOREM RateIsFair == RateSpec => []RateFair
<1>1. RateInv => RateFair
  <2> SUFFICES ASSUME RateInv PROVE RateFair
    OBVIOUS
  <2>1. OnlyFloodsCutOff
    <3>1. /\ Rate \in Nat \ {0} /\ PerTicks \in Nat \ {0}
          /\ filledAt \in Nat /\ refusedFirst \in Nat /\ refusedLast \in Nat
      BY RateAssumption DEF RateInv, RateTypes
    <3>2. CASE refusedFirst = 0
      BY <3>1, <3>2 DEF RateInv, RefusedInv, OnlyFloodsCutOff
    <3>3. CASE refusedFirst # 0
      <4>1. refusedLast - refusedFirst <= refusedLast - filledAt
            /\ refusedLast - refusedFirst \in Int /\ refusedLast - filledAt \in Int
            /\ (refusedLast - filledAt) * Rate < PerTicks
        BY <3>1, <3>3 DEF RateInv, RefusedInv
      <4>2. (refusedLast - refusedFirst) * Rate <= (refusedLast - filledAt) * Rate
            /\ (refusedLast - refusedFirst) * Rate \in Int
            /\ (refusedLast - filledAt) * Rate \in Int
        BY ONLY <4>1, <3>1, TimesGrows
      <4> QED BY <3>1, <4>1, <4>2 DEF OnlyFloodsCutOff
    <3> QED BY <3>2, <3>3
  <2> QED BY <2>1 DEF RateInv, RateFair
<1> QED BY <1>1, RateInvAlways, PTL

(***************************************************************************)
(* Consumers (KafkaConsumers).                                             *)
(***************************************************************************)

Entries == {"logger", "hook", "pool"} \cup Consumers
ExitSteps == [op : {"stop", "join"}, what : Consumers] \cup [op : {"wait", "end"}, what : Entries]

Booted == Len(BootOrder) - Len(booting)
BootFrom(k) == [i \in 1 .. 6 - k |-> BootOrder[k + i]]

KafkaTypes ==
    /\ pool \in {"none", "alive", "dead", "misused"}
    /\ poller \in [Consumers -> {"none", "polling", "gone"}]
    /\ message \in [Messages -> {"broker", "task", "handled", "committed", "freed", "leaked"}]
    /\ stopAsked \subseteq Consumers /\ open \subseteq Consumers
    /\ committed \in [Consumers -> 0 .. MaxOffset] /\ loggerUp \in BOOLEAN
    /\ statics \in Seq(Entries) /\ unwinding \in Seq(ExitSteps)
    /\ \E k \in 0 .. 6 : booting = BootFrom(k)

(* exit() begins when the start is over; a consumer that is not begun does not
   poll. *)
BootInv ==
    /\ booting # <<>> => unwinding = <<>>
    /\ booting = BootFrom(0) => statics = <<>> /\ pool = "none"
    /\ \A k \in 0 .. 1 : booting = BootFrom(k) => poller[FirstConsumer] = "none"
    /\ \A k \in 0 .. 3 : booting = BootFrom(k) => poller[SecondConsumer] = "none"

(* The logger lies at the bottom of the stack; when it is taken off, nothing is
   left that could use it. *)
LoggerIsFirst ==
    /\ statics # <<>> /\ statics[1] = "logger" /\ loggerUp
    /\ \A i \in 2 .. Len(statics) : statics[i] # "logger"
    /\ Step("end", "logger") \notin Range(unwinding)
LoggerGoes ==
    /\ booting = <<>> /\ statics = <<>>
    /\ \A c \in Consumers : poller[c] # "polling"
    /\ pool # "alive"
    /\ (unwinding = <<Step("end", "logger")>> /\ loggerUp) \/ unwinding = <<>>
LoggerInv == \/ booting = BootFrom(0) /\ loggerUp
             \/ LoggerIsFirst
             \/ LoggerGoes

(* Whoever polls will be asked to stop and be joined. *)
Joined(c) ==
    \/ c \in Range(statics) \/ Step("join", c) \in Range(unwinding)
    \/ c = FirstConsumer /\ booting = BootFrom(2)
    \/ c = SecondConsumer /\ booting = BootFrom(4)
PollInv == \A c \in Consumers : poller[c] = "polling" => c \in open /\ Joined(c)

(* A pool that lives will be ended, one that does not has no tasks. *)
PoolInv ==
    /\ pool = "alive" => "pool" \in Range(statics) \/ Step("end", "pool") \in Range(unwinding)
    /\ pool \in {"none", "dead"} => Active = {}

(* Before the end of a consumer it is joined, then its tasks are waited for. *)
Closing(c) == <<Step("stop", c), Step("join", c), Step("wait", c), Step("end", c)>>
EndInv == \A c \in Consumers : Step("end", c) \in Range(unwinding) =>
    \/ unwinding = Closing(c)
    \/ unwinding = Tail(Closing(c))
    \/ unwinding = <<Step("wait", c), Step("end", c)>> /\ poller[c] # "polling"
    \/ /\ unwinding = <<Step("end", c)>> /\ poller[c] # "polling"
       /\ pool # "misused" => \A n \in 1 .. MaxOffset : ~InPool(<<c, n>>)

(* A message in hand has its rd_kafka_t. *)
TaskInv == pool # "misused" =>
    \A c \in Consumers : \A n \in 1 .. MaxOffset : InPool(<<c, n>>) => c \in open

KafkaInv == KafkaTypes /\ BootInv /\ LoggerInv /\ PollInv /\ PoolInv /\ EndInv /\ TaskInv

(* Sequences: what is in them when an end is taken off or put on. *)
LEMMA TailOfSeq ==
    ASSUME NEW S, NEW s \in Seq(S), s # <<>>
    PROVE  /\ Tail(s) \in Seq(S) /\ Head(s) \in S
           /\ Range(s) = {Head(s)} \cup Range(Tail(s))
<1>1. /\ Len(s) \in Nat \ {0} /\ Head(s) = s[1] /\ Head(s) \in S
      /\ Tail(s) \in Seq(S) /\ Len(Tail(s)) = Len(s) - 1
      /\ \A i \in 1 .. Len(Tail(s)) : Tail(s)[i] = s[i + 1]
  BY EmptySeq, HeadTailProperties
<1>2. /\ Range(s) = {s[i] : i \in 1 .. Len(s)}
      /\ Range(Tail(s)) = {Tail(s)[i] : i \in 1 .. Len(Tail(s))}
  BY <1>1, RangeEquality
<1>3. \A i \in 1 .. Len(s) : i = 1 \/ (i - 1 \in 1 .. Len(Tail(s)) /\ Tail(s)[i - 1] = s[i])
  BY <1>1
<1>4. \A i \in 1 .. Len(Tail(s)) : i + 1 \in 1 .. Len(s)
  BY <1>1
<1>5. Range(s) \subseteq {Head(s)} \cup Range(Tail(s))
  BY <1>1, <1>2, <1>3
<1>6. 1 \in 1 .. Len(s)
  BY <1>1
<1>7. Range(Tail(s)) \subseteq Range(s) /\ Head(s) \in Range(s)
  BY <1>1, <1>2, <1>4, <1>6
<1> QED BY <1>1, <1>5, <1>7

LEMMA LastOfSeq ==
    ASSUME NEW S, NEW s \in Seq(S), s # <<>>
    PROVE  /\ Front(s) \in Seq(S) /\ Last(s) \in S /\ Len(Front(s)) = Len(s) - 1
           /\ \A i \in 1 .. Len(s) - 1 : Front(s)[i] = s[i]
           /\ Range(s) = {Last(s)} \cup Range(Front(s))
<1>1. Len(s) \in Nat \ {0} /\ \A i \in 1 .. Len(s) : s[i] \in S
  BY EmptySeq, ElementOfSeq
<1>2. /\ Front(s) \in Seq(S) /\ Len(Front(s)) = Len(s) - 1
      /\ \A i \in 1 .. Len(s) - 1 : Front(s)[i] = s[i]
  <2>1. \A i \in 1 .. Len(s) - 1 : s[i] \in S
    BY <1>1
  <2>2. /\ SubSeq(s, 1, Len(s) - 1) \in Seq(S)
        /\ Len(SubSeq(s, 1, Len(s) - 1)) = IF 1 <= Len(s) - 1 THEN ((Len(s) - 1) - 1) + 1 ELSE 0
        /\ \A i \in 1 .. ((Len(s) - 1) - 1) + 1 : SubSeq(s, 1, Len(s) - 1)[i] = s[(1 + i) - 1]
    BY <1>1, <2>1, SubSeqProperties
  <2>0. \A n \in Nat \ {0} : /\ ((n - 1) - 1) + 1 = n - 1
                             /\ (IF 1 <= n - 1 THEN n - 1 ELSE 0) = n - 1
    OBVIOUS
  <2>3. /\ ((Len(s) - 1) - 1) + 1 = Len(s) - 1
        /\ \A i \in 1 .. Len(s) - 1 : (1 + i) - 1 = i
        /\ (IF 1 <= Len(s) - 1 THEN Len(s) - 1 ELSE 0) = Len(s) - 1
    <3>1. \A i \in 1 .. Len(s) - 1 : (1 + i) - 1 = i
      BY <1>1
    <3> QED BY <1>1, <2>0, <3>1, Zenon
  <2>4. Len(SubSeq(s, 1, Len(s) - 1)) = Len(s) - 1
    BY <2>2, <2>3
  <2>5. \A i \in 1 .. Len(s) - 1 : SubSeq(s, 1, Len(s) - 1)[i] = s[i]
    BY <2>2, <2>3
  <2> QED BY <2>2, <2>4, <2>5 DEF Front
<1>3. /\ Range(s) = {s[i] : i \in 1 .. Len(s)}
      /\ Range(Front(s)) = {Front(s)[i] : i \in 1 .. Len(Front(s))}
  BY <1>2, RangeEquality
<1>4. Range(s) \subseteq {Last(s)} \cup Range(Front(s))
  BY <1>1, <1>2, <1>3 DEF Last
<1>5. Range(Front(s)) \subseteq Range(s) /\ Last(s) \in Range(s) /\ Last(s) \in S
  BY <1>1, <1>2, <1>3 DEF Last
<1> QED BY <1>2, <1>4, <1>5

LEMMA AppendToSeq ==
    ASSUME NEW S, NEW s \in Seq(S), NEW e \in S
    PROVE  /\ Append(s, e) \in Seq(S) /\ Append(s, e) # <<>>
           /\ Range(Append(s, e)) = Range(s) \cup {e}
           /\ Len(Append(s, e)) = Len(s) + 1 /\ Append(s, e)[Len(s) + 1] = e
           /\ \A i \in 1 .. Len(s) : Append(s, e)[i] = s[i]
<1>1. Append(s, e) \in Seq(S) /\ Len(Append(s, e)) = Len(s) + 1 /\ Len(s) \in Nat
      /\ Append(s, e) # <<>>
      /\ \A i \in 1 .. Len(s) : Append(s, e)[i] = s[i]
      /\ Append(s, e)[Len(s) + 1] = e
  BY AppendProperties, LenProperties
<1>2. /\ Range(s) = {s[i] : i \in 1 .. Len(s)}
      /\ Range(Append(s, e)) = {Append(s, e)[i] : i \in 1 .. Len(Append(s, e))}
  BY <1>1, RangeEquality
<1> QED BY <1>1, <1>2

(* The start, step by step. *)
LEMMA StartSteps ==
    /\ BootFrom(0) = BootOrder /\ BootFrom(6) = <<>>
    /\ \A k \in 0 .. 5 : /\ BootFrom(k) # <<>>
                         /\ Head(BootFrom(k)) = BootOrder[k + 1]
                         /\ Tail(BootFrom(k)) = BootFrom(k + 1)
    /\ \A j, k \in 0 .. 6 : BootFrom(j) = BootFrom(k) => j = k
<1>1. BootOrder \in [1 .. 6 -> {BootOrder[i] : i \in 1 .. 6}] /\ Len(BootOrder) = 6
  BY DEF BootOrder
<1> DEFINE All == {BootOrder[i] : i \in 1 .. 6}
<1>2. \A k \in 0 .. 6 : BootFrom(k) \in Seq(All) /\ Len(BootFrom(k)) = 6 - k
  <2> SUFFICES ASSUME NEW k \in 0 .. 6 PROVE BootFrom(k) \in Seq(All) /\ Len(BootFrom(k)) = 6 - k
    OBVIOUS
  <2>1. \A i \in 1 .. 6 - k : BootOrder[k + i] \in All
    OBVIOUS
  <2>2. 6 - k \in Nat /\ BootFrom(k) \in [1 .. 6 - k -> All]
    BY <2>1 DEF BootFrom
  <2> HIDE DEF All
  <2>3. BootFrom(k) \in Seq(All)
    BY <2>2, SeqDef
  <2>4. DOMAIN BootFrom(k) = 1 .. 6 - k
    BY DEF BootFrom
  <2> QED BY <2>2, <2>3, <2>4
<1> HIDE DEF All
<1>3. BootFrom(0) = BootOrder
  BY <1>1 DEF BootFrom
<1>4. BootFrom(6) = <<>>
  BY <1>2, EmptySeq
<1>5. ASSUME NEW k \in 0 .. 5
      PROVE  /\ BootFrom(k) # <<>> /\ Head(BootFrom(k)) = BootOrder[k + 1]
             /\ Tail(BootFrom(k)) = BootFrom(k + 1)
  <2>0. k \in 0 .. 6 /\ k + 1 \in 0 .. 6 /\ 6 - k > 0 /\ 6 - (k + 1) = 6 - k - 1
    OBVIOUS
  <2>1. BootFrom(k) \in Seq(All) /\ Len(BootFrom(k)) = 6 - k
    BY <1>2, <2>0
  <2>2. BootFrom(k) # <<>>
    BY <2>0, <2>1, EmptySeq
  <2>3. /\ Head(BootFrom(k)) = BootFrom(k)[1]
        /\ Tail(BootFrom(k)) \in Seq(All) /\ Len(Tail(BootFrom(k))) = 6 - k - 1
        /\ \A i \in 1 .. 6 - k - 1 : Tail(BootFrom(k))[i] = BootFrom(k)[i + 1]
    BY <2>0, <2>1, <2>2, HeadTailProperties
  <2>4. \A i \in 1 .. 6 - k - 1 : BootFrom(k)[i + 1] = BootFrom(k + 1)[i]
    BY DEF BootFrom
  <2>5. BootFrom(k + 1) \in Seq(All) /\ Len(BootFrom(k + 1)) = 6 - (k + 1)
    BY <1>2, <2>0
  <2>6. Tail(BootFrom(k)) = BootFrom(k + 1)
    BY <2>0, <2>3, <2>4, <2>5, SeqEqual
  <2>7. BootFrom(k)[1] = BootOrder[k + 1]
    BY DEF BootFrom
  <2> QED BY <2>2, <2>3, <2>6, <2>7
<1>6. \A j, k \in 0 .. 6 : BootFrom(j) = BootFrom(k) => j = k
  <2> SUFFICES ASSUME NEW j \in 0 .. 6, NEW k \in 0 .. 6, BootFrom(j) = BootFrom(k) PROVE j = k
    OBVIOUS
  <2>1. 6 - j = 6 - k
    BY <1>2
  <2> QED BY <2>1
<1> QED BY <1>3, <1>4, <1>5, <1>6

(* What an entry of the stack is undone by. *)
LEMMA UndoingSteps ==
    ASSUME NEW what \in Entries
    PROVE  /\ Undoing(what) \in Seq(ExitSteps)
           /\ what \in Consumers => Undoing(what) = Closing(what)
           /\ what = "pool" => Undoing(what) = <<Step("wait", "pool"), Step("end", "pool")>>
           /\ what = "logger" => Undoing(what) = <<Step("end", "logger")>>
           /\ what = "hook" => \A e \in Entries : Step("end", e) \notin Range(Undoing(what))
<1>0. /\ \A c \in Consumers : c \notin {"hook", "pool", "logger"} /\ c \in Entries
      /\ {"hook", "pool", "logger"} \subseteq Entries /\ Entries = {"hook", "pool", "logger"} \cup Consumers
      /\ \A e \in Entries : \A o \in {"wait", "end"} : Step(o, e) \in ExitSteps
      /\ \A c \in Consumers : \A o \in {"stop", "join"} : Step(o, c) \in ExitSteps
      /\ \A o, e : Step(o, e).op = o
  BY ConsumersAssumption DEF Consumers, Entries, ExitSteps, Step
<1>1. CASE what \in Consumers
  <2>1. Undoing(what) = Closing(what)
    <3>1. Undoing(what) = Append(<<Step("stop", what), Step("join", what), Step("wait", what)>>,
                                 Step("end", what))
      <4>1. what # "hook" /\ what # "pool" /\ what # "logger"
        BY <1>0, <1>1
      <4> QED BY <4>1 DEF Undoing, RequestStop
    <3>2. \A a, b, c, d : Append(<<a, b, c>>, d) = <<a, b, c, d>>
      <4> SUFFICES ASSUME NEW a, NEW b, NEW c, NEW d
                   PROVE  Append(<<a, b, c>>, d) = <<a, b, c, d>>
        OBVIOUS
      <4> DEFINE T == {a, b, c, d}  s == <<a, b, c>>  t == <<a, b, c, d>>
      <4>1. /\ s \in Seq(T) /\ Len(s) = 3 /\ s[1] = a /\ s[2] = b /\ s[3] = c
            /\ t \in Seq(T) /\ Len(t) = 4 /\ t[1] = a /\ t[2] = b /\ t[3] = c /\ t[4] = d
            /\ d \in T
        OBVIOUS
      <4> HIDE DEF T, s, t
      <4>2. /\ Append(s, d) \in Seq(T) /\ Len(Append(s, d)) = 4 /\ Append(s, d)[4] = d
            /\ \A i \in 1 .. 3 : Append(s, d)[i] = s[i]
        <5>1. /\ Append(s, d) \in Seq(T) /\ Len(Append(s, d)) = Len(s) + 1
              /\ Append(s, d)[Len(s) + 1] = d
              /\ \A i \in 1 .. Len(s) : Append(s, d)[i] = s[i]
          <6>1. s \in Seq(T) /\ d \in T
            BY <4>1
          <6> QED BY ONLY <6>1, AppendToSeq
        <5> QED BY <4>1, <5>1
      <4>3. \A i \in 1 .. 4 : Append(s, d)[i] = t[i]
        BY <4>1, <4>2
      <4>4. Append(s, d) = t
        BY <4>1, <4>2, <4>3, SeqEqual
      <4> QED BY <4>4 DEF s, t
    <3> QED BY <3>1, <3>2 DEF Closing
  <2> QED BY <1>0, <1>1, <2>1 DEF Closing
<1>2. CASE what = "pool"
  BY <1>0, <1>2 DEF Undoing
<1>3. CASE what = "logger"
  BY <1>0, <1>3 DEF Undoing
<1>4. CASE what = "hook"
  <2> DEFINE A == RequestStop(FirstConsumer)  B == RequestStop(SecondConsumer)
             C == <<Step("wait", what)>>
             NoEnd == {s \in ExitSteps : s.op # "end"}
  <2>1. FirstConsumer \in Consumers /\ SecondConsumer \in Consumers /\ what \in Entries
    BY <1>0 DEF Consumers
  <2>2. /\ \A c \in Consumers : {Step("stop", c), Step("join", c), Step("wait", c)} \subseteq NoEnd
        /\ \A e \in Entries : Step("wait", e) \in NoEnd
    <3>1. \A o, e : Step(o, e) \in ExitSteps /\ o # "end" => Step(o, e) \in NoEnd
      BY <1>0
    <3>2. \A c \in Consumers : c \in Entries
      BY <1>0
    <3> HIDE DEF NoEnd
    <3> QED BY <1>0, <3>1, <3>2
  <2> HIDE DEF NoEnd
  <2>3. A \in Seq(NoEnd) /\ B \in Seq(NoEnd) /\ C \in Seq(NoEnd)
    BY <2>1, <2>2 DEF RequestStop
  <2> HIDE DEF A, B, C
  <2>4. (A \o B) \o C \in Seq(NoEnd)
    BY <2>3, ConcatProperties
  <2>5. Undoing(what) = (A \o B) \o C
    BY <1>4 DEF Undoing, A, B, C
  <2>6. Range(Undoing(what)) \subseteq NoEnd /\ NoEnd \subseteq ExitSteps
    BY <2>4, <2>5, RangeOfSeq DEF NoEnd
  <2>7. Undoing(what) \in Seq(ExitSteps)
    BY <2>4, <2>5, <2>6, SeqMonotonic
  <2>8. \A e \in Entries : Step("end", e) \notin NoEnd
    BY <1>0 DEF NoEnd
  <2> QED BY <1>0, <1>4, <2>6, <2>7, <2>8
<1> QED BY <1>0, <1>1, <1>2, <1>3, <1>4

LEMMA StepsApart ==
    /\ \A o, p, a, b : Step(o, a) = Step(p, b) => o = p /\ a = b
    /\ \A o, a : Step(o, a).op = o /\ Step(o, a).what = a
    /\ \A e \in ExitSteps : e = Step(e.op, e.what)
BY DEF Step, ExitSteps

LEMMA EntriesApart ==
    /\ \A c \in Consumers : c \notin {"hook", "pool", "logger"} /\ c \in Entries
    /\ {"hook", "pool", "logger"} \subseteq Entries
    /\ Entries = {"hook", "pool", "logger"} \cup Consumers
    /\ FirstConsumer \in Consumers /\ SecondConsumer \in Consumers
BY ConsumersAssumption DEF Consumers, Entries

LEMMA RangeOfShort ==
    /\ Range(<<>>) = {}
    /\ \A a : Range(<<a>>) = {a}
    /\ \A a, b : Range(<<a, b>>) = {a, b}
    /\ \A a, b, c, d : Range(<<a, b, c, d>>) = {a, b, c, d}
BY DEF Range

LEMMA ClosingParts ==
    ASSUME NEW c
    PROVE  /\ Head(Closing(c)) = Step("stop", c) /\ Head(Tail(Closing(c))) = Step("join", c)
           /\ Tail(Tail(Closing(c))) = <<Step("wait", c), Step("end", c)>>
           /\ Head(<<Step("wait", c), Step("end", c)>>) = Step("wait", c)
           /\ Tail(<<Step("wait", c), Step("end", c)>>) = <<Step("end", c)>>
           /\ Head(<<Step("end", c)>>) = Step("end", c) /\ Tail(<<Step("end", c)>>) = <<>>
BY DEF Closing

LEMMA StartIsOver ==
    ASSUME booting = <<>>
    PROVE  /\ \A k \in 0 .. 5 : booting # BootFrom(k)
           /\ \E k \in 0 .. 6 : booting = BootFrom(k)
           /\ BootInv
           /\ \A c \in Consumers : Joined(c) <=> c \in Range(statics)
                                                 \/ Step("join", c) \in Range(unwinding)
<1>1. \A k \in 0 .. 5 : booting # BootFrom(k)
  BY StartSteps
<1>2. 6 \in 0 .. 6 /\ booting = BootFrom(6)
  BY StartSteps
<1>3. \A k \in {0, 1, 2, 3, 4} : k \in 0 .. 5
  OBVIOUS
<1>4. (\A k \in 0 .. 1 : k \in 0 .. 5) /\ (\A k \in 0 .. 3 : k \in 0 .. 5)
  OBVIOUS
<1>5. BootInv
  BY <1>1, <1>3, <1>4, Zenon DEF BootInv
<1>6. \A c \in Consumers : Joined(c) <=> c \in Range(statics)
                                         \/ Step("join", c) \in Range(unwinding)
  BY <1>1, <1>3, Zenon DEF Joined
<1> QED BY <1>1, <1>2, <1>5, <1>6

(* A step that changes nothing but where a message in hand is. *)
LEMMA TaskStepKeeps ==
    ASSUME KafkaInv, NEW m \in Messages, InPool(m),
           NEW v \in {"handled", "committed", "freed"},
           message' = [message EXCEPT ![m] = v],
           committed' \in [Consumers -> 0 .. MaxOffset],
           UNCHANGED <<booting, statics, unwinding, pool, stopAsked, poller, open, loggerUp>>
    PROVE  KafkaInv'
<1>0. /\ message \in [Messages -> {"broker", "task", "handled", "committed", "freed", "leaked"}]
      /\ message' \in [Messages -> {"broker", "task", "handled", "committed", "freed", "leaked"}]
  BY DEF KafkaInv, KafkaTypes
<1>1. \A k \in Messages : InPool(k)' => InPool(k)
  BY <1>0 DEF InPool
<1>2. Active' \subseteq Active
  BY <1>1 DEF Active
<1>3. \A c \in Consumers : \A n \in 1 .. MaxOffset : <<c, n>> \in Messages
  BY DEF Messages
<1>4. KafkaTypes'
  BY <1>0 DEF KafkaInv, KafkaTypes
<1>5. BootInv' /\ LoggerInv' /\ PollInv'
  BY DEF KafkaInv, BootInv, LoggerInv, LoggerIsFirst, LoggerGoes, PollInv, Joined
<1>6. PoolInv'
  BY <1>2 DEF KafkaInv, PoolInv
<1>7. EndInv'
  BY <1>1, <1>3 DEF KafkaInv, EndInv
<1>8. TaskInv'
  BY <1>1, <1>3 DEF KafkaInv, TaskInv
<1> QED BY <1>4, <1>5, <1>6, <1>7, <1>8 DEF KafkaInv

LEMMA TasksKeep ==
    ASSUME KafkaInv, NEW m \in Messages,
           TaskFails(m) \/ TaskHandles(m) \/ TaskCommits(m) \/ TaskFrees(m)
    PROVE  KafkaInv'
<1>0. committed \in [Consumers -> 0 .. MaxOffset]
  BY DEF KafkaInv, KafkaTypes
<1>1. CASE TaskFails(m)
  BY <1>0, <1>1, TaskStepKeeps DEF TaskFails, PoolSame, InPool
<1>2. CASE TaskHandles(m)
  BY <1>0, <1>2, TaskStepKeeps DEF TaskHandles, PoolSame, InPool
<1>3. CASE TaskCommits(m)
  <2>1. m[1] \in Consumers /\ m[2] \in 1 .. MaxOffset
    BY DEF Messages
  <2>2. m[2] \in 0 .. MaxOffset
    BY <2>1, ConsumersAssumption
  <2>3. committed' \in [Consumers -> 0 .. MaxOffset]
    BY <1>0, <1>3, <2>1, <2>2 DEF TaskCommits
  <2> QED BY <1>3, <2>3, TaskStepKeeps DEF TaskCommits, PoolSame, InPool
<1>4. CASE TaskFrees(m)
  BY <1>0, <1>4, TaskStepKeeps DEF TaskFrees, PoolSame, InPool
<1> QED BY <1>1, <1>2, <1>3, <1>4

LEMMA PollKeeps ==
    ASSUME KafkaInv, NEW c \in Consumers, NEW n \in 1 .. MaxOffset, Poll(c, n)
    PROVE  KafkaInv'
<1> DEFINE m == <<c, n>>
           Places == {"broker", "task", "handled", "committed", "freed", "leaked"}
<1>1. /\ m \in Messages /\ message \in [Messages -> Places]
      /\ pool \in {"none", "alive", "dead", "misused"} /\ statics \in Seq(Entries)
      /\ "pool" \in Entries /\ "pool" # "logger"
  BY EntriesApart DEF KafkaInv, KafkaTypes, Messages
<1>2. /\ poller[c] = "polling" /\ message[m] = "broker"
      /\ UNCHANGED <<booting, unwinding, stopAsked, poller, open, committed, loggerUp>>
      /\ \/ message' = [message EXCEPT ![m] = "leaked"] /\ UsePool
         \/ message' = [message EXCEPT ![m] = "task"] /\ pool \notin {"dead", "misused"} /\ UsePool
         \/ /\ message' = [message EXCEPT ![m] = "task"] /\ pool \in {"dead", "misused"}
            /\ pool' = "misused" /\ UNCHANGED statics
  BY DEF Poll
<1>3. /\ pool' \in {"none", "alive", "dead", "misused"}
      /\ pool = "misused" => pool' = "misused"
      /\ \/ statics' = statics /\ pool' = pool /\ message' = [message EXCEPT ![m] = "leaked"]
         \/ statics' = statics /\ pool' = "alive" /\ pool = "alive"
         \/ statics' = statics /\ pool' = "misused"
         \/ statics' = Append(statics, "pool") /\ pool = "none" /\ pool' = "alive"
  BY <1>1, <1>2 DEF UsePool
<1>4. /\ Append(statics, "pool") \in Seq(Entries)
      /\ Append(statics, "pool") # <<>>
      /\ Range(Append(statics, "pool")) = Range(statics) \cup {"pool"}
      /\ Len(Append(statics, "pool")) = Len(statics) + 1
      /\ Append(statics, "pool")[Len(statics) + 1] = "pool"
      /\ \A i \in 1 .. Len(statics) : Append(statics, "pool")[i] = statics[i]
  BY <1>1, AppendToSeq
<1>5. /\ message' \in [Messages -> Places]
      /\ \A k \in Messages : k # m => message'[k] = message[k]
      /\ message'[m] \in {"leaked", "task"}
      /\ message' = [message EXCEPT ![m] = "leaked"] => message'[m] = "leaked"
  BY <1>1, <1>2
<1>6. /\ \A k \in Messages : k # m => (InPool(k)' <=> InPool(k))
      /\ message' = [message EXCEPT ![m] = "leaked"] => Active' = Active
  BY <1>1, <1>2, <1>5 DEF InPool, Active
<1>7. c \in open /\ booting # BootFrom(0) /\ ~LoggerGoes
  <2>1. booting # BootFrom(0)
    <3>1. 0 \in 0 .. 1 /\ 0 \in 0 .. 3
      OBVIOUS
    <3> QED BY <1>2, <3>1, Zenon DEF KafkaInv, BootInv, Consumers
  <2> QED BY <1>2, <2>1 DEF KafkaInv, PollInv, LoggerGoes
<1>8. KafkaTypes'
  BY <1>2, <1>3, <1>4, <1>5 DEF KafkaInv, KafkaTypes
<1>9. BootInv'
  BY <1>2, <1>7 DEF KafkaInv, BootInv
<1>10. LoggerInv'
  <2>1. LoggerIsFirst
    BY <1>7 DEF KafkaInv, LoggerInv
  <2>2. Len(statics) \in Nat \ {0}
    BY <1>1, <2>1, EmptySeq DEF LoggerIsFirst
  <2>3. CASE statics' = statics
    BY <1>2, <2>1, <2>3 DEF LoggerInv, LoggerIsFirst
  <2>4. CASE statics' = Append(statics, "pool")
    <3>1. statics' # <<>> /\ statics'[1] = "logger"
      BY <1>4, <2>1, <2>2, <2>4 DEF LoggerIsFirst
    <3>2. \A i \in 2 .. Len(statics') : statics'[i] # "logger"
      BY <1>1, <1>4, <2>1, <2>2, <2>4 DEF LoggerIsFirst
    <3> QED BY <1>2, <2>1, <3>1, <3>2 DEF LoggerInv, LoggerIsFirst
  <2> QED BY <1>3, <2>3, <2>4
<1>11. PollInv'
  BY <1>2, <1>3, <1>4 DEF KafkaInv, PollInv, Joined
<1>12. PoolInv'
  BY <1>2, <1>3, <1>4, <1>6 DEF KafkaInv, PoolInv
<1>13. EndInv'
  <2> SUFFICES ASSUME NEW d \in Consumers, Step("end", d) \in Range(unwinding)
               PROVE  (\/ unwinding = Closing(d)
                       \/ unwinding = Tail(Closing(d))
                       \/ unwinding = <<Step("wait", d), Step("end", d)>> /\ poller[d] # "polling"
                       \/ /\ unwinding = <<Step("end", d)>> /\ poller[d] # "polling"
                          /\ pool # "misused" => \A k \in 1 .. MaxOffset : ~InPool(<<d, k>>))'
    BY <1>2 DEF EndInv
  <2>1. CASE /\ unwinding = <<Step("end", d)>> /\ poller[d] # "polling"
             /\ pool # "misused" => \A k \in 1 .. MaxOffset : ~InPool(<<d, k>>)
    <3>1. \A k \in 1 .. MaxOffset : <<d, k>> \in Messages /\ <<d, k>> # m
      BY <1>2, <2>1 DEF Messages
    <3> QED BY <1>2, <1>3, <1>6, <2>1, <3>1
  <2> QED BY <1>2, <2>1 DEF KafkaInv, EndInv
<1>14. TaskInv'
  <2>1. \A d \in Consumers : \A k \in 1 .. MaxOffset :
            <<d, k>> \in Messages /\ (<<d, k>> = m => d = c)
    BY DEF Messages
  <2> QED BY <1>2, <1>3, <1>6, <1>7, <2>1 DEF KafkaInv, TaskInv
<1> QED BY <1>8, <1>9, <1>10, <1>11, <1>12, <1>13, <1>14 DEF KafkaInv

LEMMA PollEndsKeeps ==
    ASSUME KafkaInv, NEW c \in Consumers, PollEnds(c)
    PROVE  KafkaInv'
<1>1. /\ UNCHANGED <<booting, statics, unwinding, pool, stopAsked, message, open, committed, loggerUp>>
      /\ poller' \in [Consumers -> {"none", "polling", "gone"}]
      /\ \A d \in Consumers : poller'[d] = "polling" => poller[d] = "polling"
      /\ \A d \in Consumers : poller[d] = "none" => poller'[d] = "none"
  BY DEF PollEnds, KafkaInv, KafkaTypes
<1>2. KafkaTypes' /\ BootInv' /\ PollInv' /\ PoolInv'
  BY <1>1 DEF KafkaInv, KafkaTypes, BootInv, PollInv, Joined, PoolInv, Active, InPool,
              Consumers
<1>3. LoggerInv'
  BY <1>1 DEF KafkaInv, LoggerInv, LoggerIsFirst, LoggerGoes
<1>4. EndInv' /\ TaskInv'
  BY <1>1 DEF KafkaInv, EndInv, TaskInv, InPool
<1> QED BY <1>2, <1>3, <1>4 DEF KafkaInv

LEMMA BootGivesUpKeeps == KafkaInv /\ BootGivesUp => KafkaInv'
<1> SUFFICES ASSUME KafkaInv, BootGivesUp PROVE KafkaInv'
  OBVIOUS
<1>1. /\ booting # <<>> /\ booting' = <<>> /\ unwinding = <<>>
      /\ UNCHANGED <<statics, poller, open, unwinding, pool, stopAsked, message, committed, loggerUp>>
  BY DEF BootGivesUp, BootSame, KafkaInv, BootInv
<1>2. PICK k \in 0 .. 5 : booting = BootFrom(k)
  <2>1. PICK k \in 0 .. 6 : booting = BootFrom(k)
    BY DEF KafkaInv, KafkaTypes
  <2>2. k # 6
    BY <1>1, <2>1, StartSteps
  <2> QED BY <2>1, <2>2
<1>3. k = 3 \/ k = 1
  <2>1. BootOrder[k + 1] = Step("start", SecondConsumer)
    BY <1>2, StartSteps DEF BootGivesUp
  <2>2. \A j \in 0 .. 5 : j \in {1, 3} \/ BootOrder[j + 1].op = "static"
    BY DEF BootOrder, Step
  <2> QED BY <2>1, <2>2, StepsApart
<1>4. \A c \in Consumers : ~(c = FirstConsumer /\ booting = BootFrom(2))
                           /\ ~(c = SecondConsumer /\ booting = BootFrom(4))
  <2>1. 2 \in 0 .. 6 /\ 4 \in 0 .. 6 /\ k \in 0 .. 6
    OBVIOUS
  <2>2. \A j \in 0 .. 6 : booting = BootFrom(j) => j = k
    BY <1>2, <2>1, StartSteps, Zenon
  <2>3. booting # BootFrom(2) /\ booting # BootFrom(4)
    BY <1>3, <2>1, <2>2
  <2> QED BY <2>3
<1>5. booting # BootFrom(0)
  <2>1. 0 \in 0 .. 6 /\ k \in 0 .. 6
    OBVIOUS
  <2>2. \A j \in 0 .. 6 : booting = BootFrom(j) => j = k
    BY <1>2, <2>1, StartSteps, Zenon
  <2> QED BY <1>3, <2>1, <2>2
<1>6. KafkaTypes'
  <2>1. \E j \in 0 .. 6 : booting' = BootFrom(j)
    BY <1>1, StartSteps
  <2> QED BY <1>1, <2>1 DEF KafkaInv, KafkaTypes, BootFrom
<1>7. BootInv'
  <2>1. \A j \in 0 .. 5 : booting' # BootFrom(j)
    BY <1>1, StartSteps
  <2>2. 0 \in 0 .. 5 /\ (\A j \in 0 .. 1 : j \in 0 .. 5) /\ (\A j \in 0 .. 3 : j \in 0 .. 5)
    OBVIOUS
  <2>3. BootFrom(0)' = BootFrom(0) /\ \A j \in 0 .. 5 : BootFrom(j)' = BootFrom(j)
    BY DEF BootFrom
  <2> QED BY <1>1, <2>1, <2>2, <2>3, Zenon DEF BootInv
<1>8. LoggerInv'
  BY <1>1, <1>5 DEF KafkaInv, LoggerInv, LoggerIsFirst, LoggerGoes
<1>9. PollInv' /\ PoolInv' /\ EndInv' /\ TaskInv'
  BY <1>1, <1>4 DEF KafkaInv, PollInv, Joined, PoolInv, EndInv, TaskInv, Active, InPool
<1> QED BY <1>6, <1>7, <1>8, <1>9 DEF KafkaInv

LEMMA BootKeeps == KafkaInv /\ Boot => KafkaInv'
<1> SUFFICES ASSUME KafkaInv, Boot PROVE KafkaInv'
  OBVIOUS
<1>1. /\ booting # <<>> /\ unwinding = <<>> /\ statics \in Seq(Entries)
      /\ UNCHANGED <<unwinding, pool, stopAsked, message, committed, loggerUp>>
      /\ open \subseteq Consumers /\ poller \in [Consumers -> {"none", "polling", "gone"}]
  BY DEF Boot, BootSame, KafkaInv, BootInv, KafkaTypes
<1>2. PICK k \in 0 .. 5 : booting = BootFrom(k)
  <2>1. PICK k \in 0 .. 6 : booting = BootFrom(k)
    BY DEF KafkaInv, KafkaTypes
  <2>2. k # 6
    BY <1>1, <2>1, StartSteps
  <2> QED BY <2>1, <2>2
<1> DEFINE s == BootOrder[k + 1]
<1>3. booting' = BootFrom(k + 1) /\ Head(booting) = s /\ k \in 0 .. 6 /\ k + 1 \in 0 .. 6
  <2>1. booting' = Tail(booting)
    BY DEF Boot
  <2>2. Tail(booting) = BootFrom(k + 1) /\ Head(booting) = BootOrder[k + 1]
    BY <1>2, StartSteps, Zenon
  <2>3. k \in 0 .. 6 /\ k + 1 \in 0 .. 6
    OBVIOUS
  <2> QED BY <2>1, <2>2, <2>3
<1>4. \A j \in 0 .. 6 : (booting = BootFrom(j) <=> j = k) /\ (booting' = BootFrom(j) <=> j = k + 1)
  BY <1>2, <1>3, StartSteps
<1>5. \/ /\ k = 1 /\ s = Step("start", FirstConsumer)
      \/ /\ k = 3 /\ s = Step("start", SecondConsumer)
      \/ /\ k = 0 /\ s = Step("static", "logger")
      \/ /\ k = 2 /\ s = Step("static", FirstConsumer)
      \/ /\ k = 4 /\ s = Step("static", SecondConsumer)
      \/ /\ k = 5 /\ s = Step("static", "hook")
  <2>1. k = 0 \/ k = 1 \/ k = 2 \/ k = 3 \/ k = 4 \/ k = 5
    OBVIOUS
  <2> QED BY <2>1 DEF BootOrder
<1>6. \/ /\ k \in {1, 3} /\ s.op = "start" /\ s.what \in Consumers
         /\ poller' = [poller EXCEPT ![s.what] = "polling"]
         /\ open' = open \cup {s.what} /\ UNCHANGED statics
      \/ /\ k \notin {1, 3} /\ s.what \in Entries /\ (k # 0 => s.what # "logger")
         /\ statics' = Append(statics, s.what) /\ UNCHANGED <<poller, open>>
  BY <1>3, <1>5, StepsApart, EntriesApart DEF Boot
<1>7. /\ \A e \in Entries :
            /\ Append(statics, e) \in Seq(Entries) /\ Append(statics, e) # <<>>
            /\ Range(Append(statics, e)) = Range(statics) \cup {e}
            /\ Len(Append(statics, e)) = Len(statics) + 1
            /\ Append(statics, e)[Len(statics) + 1] = e
            /\ \A i \in 1 .. Len(statics) : Append(statics, e)[i] = statics[i]
      /\ Len(statics) \in Nat
  BY <1>1, AppendToSeq, LenProperties
<1>8. Range(unwinding) = {}
  BY <1>1, RangeOfShort
<1>9. KafkaTypes'
  <2>1. \E j \in 0 .. 6 : booting' = BootFrom(j)
    BY <1>3
  <2>2. statics' \in Seq(Entries) /\ open' \subseteq Consumers
        /\ poller' \in [Consumers -> {"none", "polling", "gone"}]
    BY <1>1, <1>6, <1>7
  <2> QED BY <1>1, <2>1, <2>2 DEF KafkaInv, KafkaTypes, BootFrom
<1>10. /\ k <= 1 => poller[FirstConsumer] = "none"
       /\ k <= 3 => poller[SecondConsumer] = "none"
       /\ k = 0 => statics = <<>> /\ pool = "none"
  <2>1. (k <= 1 => k \in 0 .. 1) /\ (k <= 3 => k \in 0 .. 3)
    OBVIOUS
  <2> QED BY <1>2, <2>1, Zenon DEF KafkaInv, BootInv
<1>11. BootInv'
  <2>1. booting' # BootFrom(0)
    <3>1. 0 \in 0 .. 6 /\ k + 1 # 0
      OBVIOUS
    <3> QED BY <1>4, <3>1
  <2>2. ASSUME NEW j \in 0 .. 1, booting' = BootFrom(j) PROVE poller'[FirstConsumer] = "none"
    <3>1. j \in 0 .. 6
      OBVIOUS
    <3>2. k = 0
      BY <1>4, <2>2, <3>1
    <3> QED BY <1>6, <1>10, <3>2
  <2>3. ASSUME NEW j \in 0 .. 3, booting' = BootFrom(j) PROVE poller'[SecondConsumer] = "none"
    <3>1. j \in 0 .. 6
      OBVIOUS
    <3>2. k <= 2 /\ k # 3
      BY <1>4, <2>3, <3>1
    <3>3. poller[SecondConsumer] = "none"
      BY <1>10, <3>2
    <3>4. k = 1 => s.what = FirstConsumer
      BY <1>5, StepsApart
    <3>5. \A c \in Consumers : poller' = [poller EXCEPT ![c] = "polling"] /\ c = FirstConsumer
                               => poller'[SecondConsumer] = poller[SecondConsumer]
      BY <1>1, ConsumersAssumption DEF Consumers
    <3>6. k = 1 \/ k \notin {1, 3}
      BY <3>2
    <3> QED BY <1>6, <3>3, <3>4, <3>5, <3>6
  <2> QED BY <1>1, <2>1, <2>2, <2>3 DEF BootInv, BootFrom
<1>12. LoggerInv'
  <2>1. ~LoggerGoes
    BY <1>1 DEF LoggerGoes
  <2>2. CASE k = 0
    <3>1. statics = <<>> /\ loggerUp /\ statics' = Append(statics, "logger")
      <4>1. 0 \in 0 .. 6
        OBVIOUS
      <4>2. loggerUp
        BY <2>1 DEF KafkaInv, LoggerInv, LoggerIsFirst
      <4> QED BY <1>5, <1>6, <1>10, <2>2, <4>2, StepsApart
    <3>2. Len(statics) = 0 /\ "logger" \in Entries
      BY <3>1, EmptySeq, EntriesApart
    <3>3. statics' # <<>> /\ statics'[1] = "logger" /\ Len(statics') = 1
      BY <1>7, <3>1, <3>2
    <3> QED BY <1>1, <1>8, <3>1, <3>3 DEF LoggerInv, LoggerIsFirst
  <2>3. CASE k # 0
    <3>1. LoggerIsFirst
      <4>1. 0 \in 0 .. 6
        OBVIOUS
      <4> QED BY <1>4, <2>1, <2>3, <4>1 DEF KafkaInv, LoggerInv
    <3>2. Len(statics) \in Nat \ {0}
      BY <1>1, <3>1, EmptySeq DEF LoggerIsFirst
    <3>3. CASE statics' = statics
      BY <1>1, <3>1, <3>3 DEF LoggerInv, LoggerIsFirst
    <3>4. CASE s.what \in Entries /\ s.what # "logger" /\ statics' = Append(statics, s.what)
      <4>0. PICK e \in Entries : e # "logger" /\ statics' = Append(statics, e)
        BY <3>4
      <4>1. statics' # <<>> /\ statics'[1] = "logger"
        BY <1>7, <3>1, <3>2, <4>0 DEF LoggerIsFirst
      <4>2. \A i \in 2 .. Len(statics') : statics'[i] # "logger"
        BY <1>7, <3>1, <3>2, <4>0 DEF LoggerIsFirst
      <4> QED BY <1>1, <3>1, <4>1, <4>2 DEF LoggerInv, LoggerIsFirst
    <3> QED BY <1>6, <2>3, <3>3, <3>4
  <2> QED BY <2>2, <2>3
<1>13. PollInv'
  <2> SUFFICES ASSUME NEW c \in Consumers, poller'[c] = "polling"
               PROVE  c \in open' /\ Joined(c)'
    BY DEF PollInv
  <2>1. CASE k \in {1, 3} /\ c = s.what
    <3>1. c \in open'
      BY <1>6, <2>1
    <3>2. \/ c = FirstConsumer /\ booting' = BootFrom(2)
          \/ c = SecondConsumer /\ booting' = BootFrom(4)
      BY <1>3, <1>5, <2>1, StepsApart
    <3> QED BY <3>1, <3>2 DEF Joined, BootFrom
  <2>2. CASE ~(k \in {1, 3} /\ c = s.what)
    <3>1. poller[c] = "polling"
      BY <1>1, <1>6, <2>2
    <3>2. c \in open /\ Joined(c) /\ open \subseteq open'
      BY <1>6, <3>1 DEF KafkaInv, PollInv
    <3>3. Range(statics) \subseteq Range(statics')
      BY <1>6, <1>7
    <3>4. CASE c \in Range(statics)
      BY <3>2, <3>3, <3>4 DEF Joined
    <3>5. CASE c \notin Range(statics)
      <4>0. (c = FirstConsumer /\ booting = BootFrom(2)) \/ (c = SecondConsumer /\ booting = BootFrom(4))
        BY <1>8, <3>2, <3>5 DEF Joined
      <4>1. (c = FirstConsumer /\ k = 2) \/ (c = SecondConsumer /\ k = 4)
        <5>1. 2 \in 0 .. 6 /\ 4 \in 0 .. 6
          OBVIOUS
        <5> QED BY <1>4, <4>0, <5>1
      <4>2. s.what = c /\ k \notin {1, 3}
        BY <1>5, <4>1, StepsApart
      <4>3. c \in Range(statics')
        BY <1>6, <1>7, <4>2
      <4> QED BY <3>2, <4>3 DEF Joined
    <3> QED BY <3>4, <3>5
  <2> QED BY <2>1, <2>2
<1>14. PoolInv'
  <2>1. Range(statics) \subseteq Range(statics')
    BY <1>6, <1>7
  <2> QED BY <1>1, <2>1 DEF KafkaInv, PoolInv, Active, InPool
<1>15. EndInv'
  BY <1>1, <1>8 DEF EndInv
<1>16. TaskInv'
  BY <1>1, <1>6 DEF KafkaInv, TaskInv, InPool
<1> QED BY <1>9, <1>11, <1>12, <1>13, <1>14, <1>15, <1>16 DEF KafkaInv

LEMMA ExitNextKeeps == KafkaInv /\ ExitNext => KafkaInv'
<1> SUFFICES ASSUME KafkaInv, ExitNext PROVE KafkaInv'
  OBVIOUS
<1> DEFINE what == Last(statics)
<1>1. /\ booting = <<>> /\ unwinding = <<>> /\ statics # <<>> /\ statics \in Seq(Entries)
      /\ unwinding' = Undoing(what) /\ statics' = Front(statics)
      /\ UNCHANGED <<booting, pool, poller, stopAsked, message, open, committed, loggerUp>>
  BY DEF ExitNext, KafkaInv, KafkaTypes
<1>2. /\ Front(statics) \in Seq(Entries) /\ what \in Entries
      /\ Len(Front(statics)) = Len(statics) - 1
      /\ \A i \in 1 .. Len(statics) - 1 : Front(statics)[i] = statics[i]
      /\ Range(statics) = {what} \cup Range(Front(statics))
      /\ Len(statics) \in Nat \ {0}
  BY <1>1, LastOfSeq, EmptySeq
<1>3. /\ unwinding' \in Seq(ExitSteps)
      /\ what \in Consumers => unwinding' = Closing(what)
      /\ what = "pool" => unwinding' = <<Step("wait", "pool"), Step("end", "pool")>>
      /\ what = "logger" => unwinding' = <<Step("end", "logger")>>
      /\ what = "hook" => \A e \in Entries : Step("end", e) \notin Range(unwinding')
  BY <1>1, <1>2, UndoingSteps
<1>4. \A e \in Entries : Step("end", e) \in Range(unwinding') => e = what
  <2>1. CASE what \in Consumers
    BY <1>3, <2>1, RangeOfShort, StepsApart DEF Closing
  <2>2. CASE what = "pool"
    BY <1>3, <2>2, RangeOfShort, StepsApart
  <2>3. CASE what = "logger"
    BY <1>3, <2>3, RangeOfShort, StepsApart
  <2>4. CASE what = "hook"
    BY <1>3, <2>4
  <2> QED BY <1>2, <2>1, <2>2, <2>3, <2>4, EntriesApart
<1>5. what \in Consumers => Step("join", what) \in Range(unwinding')
  BY <1>3, RangeOfShort DEF Closing
<1>6. what = "pool" => Step("end", "pool") \in Range(unwinding')
  BY <1>3, RangeOfShort
<1> HIDE DEF what
<1>7. Range(unwinding) = {}
  BY <1>1, RangeOfShort
<1>8. /\ \A c \in Consumers : poller[c] = "polling" => c \in open /\ c \in Range(statics)
      /\ pool = "alive" => "pool" \in Range(statics)
  BY <1>1, <1>7, StartIsOver DEF KafkaInv, PollInv, PoolInv
<1>9. KafkaTypes'
  BY <1>1, <1>2, <1>3 DEF KafkaInv, KafkaTypes, BootFrom
<1>10. BootInv'
  <2>1. \A j \in 0 .. 5 : <<>> # BootFrom(j)
    BY StartSteps
  <2>2. 0 \in 0 .. 5 /\ (\A j \in 0 .. 1 : j \in 0 .. 5) /\ (\A j \in 0 .. 3 : j \in 0 .. 5)
    OBVIOUS
  <2> QED BY <1>1, <2>1, <2>2 DEF BootInv, BootFrom
<1>11. LoggerInv'
  <2>1. LoggerIsFirst
    <3>1. 0 \in 0 .. 5
      OBVIOUS
    <3>2. booting # BootFrom(0)
      BY <1>1, <3>1, StartSteps
    <3> QED BY <1>1, <3>2 DEF KafkaInv, LoggerInv, LoggerGoes
  <2>2. CASE Len(statics) = 1
    <3>1. what = "logger" /\ statics' = <<>>
      BY <1>1, <1>2, <2>1, <2>2, EmptySeq DEF LoggerIsFirst, what, Last
    <3>2. Range(statics) = {"logger"}
      BY <1>1, <1>2, <3>1, RangeOfShort
    <3>3. (\A c \in Consumers : poller[c] # "polling") /\ pool # "alive"
      BY <1>8, <3>2, EntriesApart
    <3>4. unwinding' = <<Step("end", "logger")>> /\ loggerUp'
      BY <1>1, <1>3, <2>1, <3>1 DEF LoggerIsFirst
    <3> QED BY <1>1, <3>1, <3>3, <3>4 DEF LoggerInv, LoggerGoes
  <2>3. CASE Len(statics) # 1
    <3>1. what # "logger"
      <4>1. Len(statics) \in 2 .. Len(statics)
        BY <1>2, <2>3
      <4> QED BY <2>1, <4>1 DEF LoggerIsFirst, what, Last
    <3>2. statics' # <<>> /\ statics'[1] = "logger"
      <4>1. Len(statics') # 0 /\ 1 \in 1 .. Len(statics) - 1
        BY <1>1, <1>2, <2>3
      <4> QED BY <1>1, <1>2, <2>1, <4>1, EmptySeq DEF LoggerIsFirst
    <3>3. \A i \in 2 .. Len(statics') : statics'[i] # "logger"
      <4>1. \A i \in 2 .. Len(statics') : i \in 1 .. Len(statics) - 1 /\ i \in 2 .. Len(statics)
        BY <1>1, <1>2
      <4> QED BY <1>1, <1>2, <2>1, <4>1 DEF LoggerIsFirst
    <3>4. Step("end", "logger") \notin Range(unwinding')
      BY <1>4, <3>1, EntriesApart
    <3> QED BY <1>1, <2>1, <3>2, <3>3, <3>4 DEF LoggerInv, LoggerIsFirst
  <2> QED BY <2>2, <2>3
<1>12. PollInv'
  <2> SUFFICES ASSUME NEW c \in Consumers, poller'[c] = "polling"
               PROVE  c \in open' /\ Joined(c)'
    BY DEF PollInv
  <2>1. c \in open' /\ c \in Range(statics)
    BY <1>1, <1>8
  <2> QED BY <1>1, <1>2, <1>5, <2>1 DEF Joined
<1>13. PoolInv'
  BY <1>1, <1>2, <1>6, <1>8 DEF KafkaInv, PoolInv, Active, InPool
<1>14. EndInv'
  BY <1>3, <1>4, EntriesApart DEF EndInv
<1>15. TaskInv'
  BY <1>1 DEF KafkaInv, TaskInv, InPool
<1> QED BY <1>9, <1>10, <1>11, <1>12, <1>13, <1>14, <1>15 DEF KafkaInv

(* The step of the exit that is done, and what is left of them. *)
LEMMA UndoFacts ==
    ASSUME KafkaInv, NEW op, Undone(op)
    PROVE  /\ unwinding # <<>> /\ booting = <<>> /\ Undo \in ExitSteps
           /\ Undo = Step(op, Undo.what) /\ Undo.what \in Entries
           /\ unwinding' = Tail(unwinding) /\ unwinding' \in Seq(ExitSteps)
           /\ Range(unwinding) = {Undo} \cup Range(unwinding')
           /\ statics \in Seq(Entries)
           /\ booting # BootFrom(0)
           /\ LoggerIsFirst \/ (LoggerGoes /\ unwinding = <<Step("end", "logger")>>)
           /\ \A c \in Consumers : poller[c] = "polling" =>
                  c \in open /\ (c \in Range(statics) \/ Step("join", c) \in Range(unwinding))
<1>1. unwinding # <<>> /\ Undo.op = op /\ unwinding' = Tail(unwinding)
      /\ unwinding \in Seq(ExitSteps) /\ statics \in Seq(Entries)
  BY DEF Undone, KafkaInv, KafkaTypes
<1>2. Tail(unwinding) \in Seq(ExitSteps) /\ Undo \in ExitSteps
      /\ Range(unwinding) = {Undo} \cup Range(Tail(unwinding))
  BY <1>1, TailOfSeq DEF Undo
<1>3. booting = <<>>
  BY <1>1 DEF KafkaInv, BootInv
<1>4. Undo = Step(op, Undo.what) /\ Undo.what \in Entries
  BY <1>1, <1>2, EntriesApart DEF ExitSteps, Step
<1>5. booting # BootFrom(0)
  BY <1>3, StartIsOver
<1>6. LoggerIsFirst \/ (LoggerGoes /\ unwinding = <<Step("end", "logger")>>)
  BY <1>1, <1>5 DEF KafkaInv, LoggerInv, LoggerGoes
<1>7. \A c \in Consumers : poller[c] = "polling" =>
          c \in open /\ (c \in Range(statics) \/ Step("join", c) \in Range(unwinding))
  BY <1>3, StartIsOver DEF KafkaInv, PollInv
<1> QED BY <1>1, <1>2, <1>3, <1>4, <1>5, <1>6, <1>7

(* What a step of the exit keeps that does not end anything. *)
LEMMA UndoKeeps ==
    ASSUME KafkaInv, NEW op \in {"stop", "join", "wait"}, Undone(op),
           UNCHANGED <<booting, poller, message, committed, open, loggerUp>>,
           stopAsked' \subseteq Consumers,
           \/ UNCHANGED <<statics, pool>> \/ (op = "wait" /\ UsePool),
           op = "join" => poller[Undo.what] # "polling",
           op = "wait" => pool \in {"dead", "misused"} \/ Active = {}
    PROVE  KafkaInv'
<1>1. /\ unwinding # <<>> /\ booting = <<>> /\ Undo \in ExitSteps
      /\ Undo = Step(op, Undo.what) /\ Undo.what \in Entries
      /\ unwinding' = Tail(unwinding) /\ unwinding' \in Seq(ExitSteps)
      /\ Range(unwinding) = {Undo} \cup Range(unwinding')
      /\ statics \in Seq(Entries)
      /\ booting # BootFrom(0)
      /\ LoggerIsFirst \/ (LoggerGoes /\ unwinding = <<Step("end", "logger")>>)
      /\ \A c \in Consumers : poller[c] = "polling" =>
             c \in open /\ (c \in Range(statics) \/ Step("join", c) \in Range(unwinding))
  BY UndoFacts
<1>2. /\ Append(statics, "pool") \in Seq(Entries) /\ Append(statics, "pool") # <<>>
      /\ Range(Append(statics, "pool")) = Range(statics) \cup {"pool"}
      /\ Len(Append(statics, "pool")) = Len(statics) + 1
      /\ Append(statics, "pool")[Len(statics) + 1] = "pool"
      /\ \A i \in 1 .. Len(statics) : Append(statics, "pool")[i] = statics[i]
  BY <1>1, AppendToSeq, EntriesApart
<1>3. /\ pool \in {"none", "alive", "dead", "misused"}
      /\ \/ statics' = statics /\ pool' = pool
         \/ statics' = Append(statics, "pool") /\ pool = "none" /\ pool' = "alive"
  BY DEF UsePool, KafkaInv, KafkaTypes
<1>4. KafkaTypes'
  BY <1>1, <1>2, <1>3 DEF KafkaInv, KafkaTypes, BootFrom
<1>5. BootInv'
  <2>1. \A j \in 0 .. 5 : <<>> # BootFrom(j)
    BY StartSteps
  <2>2. 0 \in 0 .. 5 /\ (\A j \in 0 .. 1 : j \in 0 .. 5) /\ (\A j \in 0 .. 3 : j \in 0 .. 5)
    OBVIOUS
  <2> QED BY <1>1, <2>1, <2>2 DEF BootInv, BootFrom
<1>6. LoggerInv'
  <2>1. LoggerIsFirst
    BY <1>1, StepsApart DEF Undo
  <2>2. Len(statics) \in Nat \ {0}
    BY <1>1, <2>1, EmptySeq DEF LoggerIsFirst
  <2>3. statics' # <<>> /\ statics'[1] = "logger"
    BY <1>2, <1>3, <2>1, <2>2 DEF LoggerIsFirst
  <2>4. \A i \in 2 .. Len(statics') : statics'[i] # "logger"
    BY <1>2, <1>3, <2>1, <2>2 DEF LoggerIsFirst
  <2> QED BY <1>1, <2>1, <2>3, <2>4 DEF LoggerInv, LoggerIsFirst
<1>7. PollInv'
  <2> SUFFICES ASSUME NEW c \in Consumers, poller'[c] = "polling"
               PROVE  c \in open' /\ Joined(c)'
    BY DEF PollInv
  <2>1. c \in open' /\ (c \in Range(statics) \/ Step("join", c) \in Range(unwinding))
    BY <1>1
  <2>2. Undo # Step("join", c)
    BY <1>1, StepsApart
  <2> QED BY <1>1, <1>2, <1>3, <2>1, <2>2 DEF Joined
<1>8. PoolInv'
  <2>1. Undo # Step("end", "pool")
    BY <1>1, StepsApart
  <2> QED BY <1>1, <1>2, <1>3, <2>1 DEF KafkaInv, PoolInv, Active, InPool
<1>9. EndInv'
  <2> SUFFICES ASSUME NEW c \in Consumers, Step("end", c) \in Range(unwinding')
               PROVE  (\/ unwinding = Closing(c)
                       \/ unwinding = Tail(Closing(c))
                       \/ unwinding = <<Step("wait", c), Step("end", c)>> /\ poller[c] # "polling"
                       \/ /\ unwinding = <<Step("end", c)>> /\ poller[c] # "polling"
                          /\ pool # "misused" => \A k \in 1 .. MaxOffset : ~InPool(<<c, k>>))'
    BY DEF EndInv
  <2>1. Step("end", c) \in Range(unwinding)
    BY <1>1
  <2>2. CASE unwinding = Closing(c)
    BY <1>1, <2>2
  <2>3. CASE unwinding = Tail(Closing(c))
    <3>1. Undo = Step("join", c)
      BY <2>3, ClosingParts DEF Undo
    <3>2. poller[c] # "polling"
      BY <1>1, <3>1, StepsApart
    <3> QED BY <1>1, <2>3, <3>2, ClosingParts
  <2>4. CASE unwinding = <<Step("wait", c), Step("end", c)>> /\ poller[c] # "polling"
    <3>1. Undo = Step("wait", c)
      BY <2>4, ClosingParts DEF Undo
    <3>2. op = "wait"
      BY <1>1, <3>1, StepsApart
    <3>3. pool' = "misused" \/ Active = {}
      BY <1>3, <3>2 DEF KafkaInv, PoolInv
    <3>4. \A k \in 1 .. MaxOffset : <<c, k>> \in Messages
      BY DEF Messages
    <3>5. pool' # "misused" => \A k \in 1 .. MaxOffset : ~InPool(<<c, k>>)'
      BY <3>3, <3>4 DEF Active, InPool
    <3> QED BY <1>1, <2>4, <3>5, ClosingParts
  <2>5. CASE unwinding = <<Step("end", c)>>
    <3>1. Undo = Step("end", c)
      BY <2>5, ClosingParts DEF Undo
    <3> QED BY <1>1, <3>1, StepsApart
  <2> QED BY <2>1, <2>2, <2>3, <2>4, <2>5 DEF KafkaInv, EndInv
<1>10. TaskInv'
  BY <1>3 DEF KafkaInv, TaskInv, InPool
<1> QED BY <1>4, <1>5, <1>6, <1>7, <1>8, <1>9, <1>10 DEF KafkaInv

LEMMA UndoStopKeeps == KafkaInv /\ UndoStop => KafkaInv'
<1> SUFFICES ASSUME KafkaInv, UndoStop PROVE KafkaInv'
  OBVIOUS
<1>1. /\ Undone("stop") /\ stopAsked' = stopAsked \cup {Undo.what}
      /\ UNCHANGED <<booting, poller, message, committed, open, loggerUp>>
      /\ UNCHANGED <<statics, pool>> /\ stopAsked \subseteq Consumers
  BY DEF UndoStop, UndoSame, KafkaInv, KafkaTypes
<1>2. Undo.what \in Consumers
  <2>1. Undo \in ExitSteps /\ Undo.op = "stop"
    BY <1>1, UndoFacts DEF Undone
  <2> QED BY <2>1 DEF ExitSteps
<1> QED BY <1>1, <1>2, UndoKeeps

LEMMA UndoJoinKeeps == KafkaInv /\ UndoJoin => KafkaInv'
<1> SUFFICES ASSUME KafkaInv, UndoJoin PROVE KafkaInv'
  OBVIOUS
<1>1. /\ Undone("join") /\ poller[Undo.what] # "polling"
      /\ UNCHANGED <<booting, poller, message, committed, open, loggerUp>>
      /\ UNCHANGED <<statics, pool>> /\ stopAsked' \subseteq Consumers
  BY DEF UndoJoin, UndoSame, KafkaInv, KafkaTypes
<1> QED BY <1>1, UndoKeeps

LEMMA UndoWaitKeeps == KafkaInv /\ UndoWait => KafkaInv'
<1> SUFFICES ASSUME KafkaInv, UndoWait PROVE KafkaInv'
  OBVIOUS
<1>1. /\ Undone("wait") /\ (pool \in {"dead", "misused"} \/ Active = {}) /\ UsePool
      /\ UNCHANGED <<booting, poller, message, committed, open, loggerUp>>
      /\ stopAsked' \subseteq Consumers
  BY DEF UndoWait, UndoSame, KafkaInv, KafkaTypes
<1> QED BY <1>1, UndoKeeps

LEMMA UndoEndKeeps == KafkaInv /\ UndoEnd => KafkaInv'
<1> SUFFICES ASSUME KafkaInv, UndoEnd PROVE KafkaInv'
  OBVIOUS
<1> DEFINE what == Undo.what
<1>1. /\ Undone("end")
      /\ pool' = (IF what = "pool" THEN Destroyed ELSE pool)
      /\ open' = open \ {what}
      /\ loggerUp' = (loggerUp /\ what # "logger")
      /\ UNCHANGED <<booting, statics, stopAsked, poller, message, committed>>
  BY DEF UndoEnd, UndoSame
<1>2. /\ unwinding # <<>> /\ booting = <<>> /\ Undo \in ExitSteps
      /\ Undo = Step("end", what) /\ what \in Entries
      /\ unwinding' = Tail(unwinding) /\ unwinding' \in Seq(ExitSteps)
      /\ Range(unwinding) = {Undo} \cup Range(unwinding')
      /\ statics \in Seq(Entries)
      /\ booting # BootFrom(0)
      /\ LoggerIsFirst \/ (LoggerGoes /\ unwinding = <<Step("end", "logger")>>)
      /\ \A c \in Consumers : poller[c] = "polling" =>
             c \in open /\ (c \in Range(statics) \/ Step("join", c) \in Range(unwinding))
  BY <1>1, UndoFacts
<1>3. /\ pool \in {"none", "alive", "dead", "misused"}
      /\ pool' \in {"none", "alive", "dead", "misused"}
      /\ what # "pool" => pool' = pool
      /\ what = "pool" => pool' = "misused" \/ (pool' = "dead" /\ Active = {})
  BY <1>1 DEF Destroyed, KafkaInv, KafkaTypes
<1>4. \A c \in Consumers : Step("end", c) \in Range(unwinding) /\ Undo.op = "end" =>
                             /\ unwinding = <<Step("end", c)>> /\ poller[c] # "polling"
                             /\ pool # "misused" => \A k \in 1 .. MaxOffset : ~InPool(<<c, k>>)
                             /\ what = c /\ unwinding' = <<>>
  <2> SUFFICES ASSUME NEW c \in Consumers, Step("end", c) \in Range(unwinding), Undo.op = "end"
               PROVE  /\ unwinding = <<Step("end", c)>> /\ poller[c] # "polling"
                      /\ pool # "misused" => \A k \in 1 .. MaxOffset : ~InPool(<<c, k>>)
                      /\ what = c /\ unwinding' = <<>>
    OBVIOUS
  <2>1. unwinding # Closing(c) /\ unwinding # Tail(Closing(c))
        /\ unwinding # <<Step("wait", c), Step("end", c)>>
    <3>1. /\ unwinding = Closing(c) => Undo = Step("stop", c)
          /\ unwinding = Tail(Closing(c)) => Undo = Step("join", c)
          /\ unwinding = <<Step("wait", c), Step("end", c)>> => Undo = Step("wait", c)
      BY ClosingParts DEF Undo
    <3> QED BY <3>1, StepsApart
  <2>2. /\ unwinding = <<Step("end", c)>> /\ poller[c] # "polling"
        /\ pool # "misused" => \A k \in 1 .. MaxOffset : ~InPool(<<c, k>>)
    BY <2>1 DEF KafkaInv, EndInv
  <2>3. Undo = Step("end", c) /\ unwinding' = <<>>
    BY <1>2, <2>2, ClosingParts DEF Undo
  <2> QED BY <2>2, <2>3, StepsApart
<1>5. Undo.op = "end" /\ Undo \in Range(unwinding)
  BY <1>2, StepsApart
<1>6. /\ \A c \in Consumers : Step("end", c) \notin Range(unwinding')
      /\ \A c \in Consumers : poller[c] = "polling" => c # what
      /\ what \in Consumers /\ pool # "misused" => \A k \in 1 .. MaxOffset : ~InPool(<<what, k>>)
  <2>1. \A c \in Consumers : Step("end", c) \in Range(unwinding) => unwinding' = <<>>
    BY <1>4, <1>5
  <2>2. \A c \in Consumers : Step("end", c) \notin Range(unwinding')
    BY <1>2, <2>1, RangeOfShort
  <2>3. what \in Consumers => Step("end", what) \in Range(unwinding)
    BY <1>2, <1>5
  <2> QED BY <1>4, <1>5, <2>2, <2>3
<1> HIDE DEF what
<1>7. loggerUp' \in BOOLEAN
  <2>1. loggerUp' = (loggerUp /\ what # "logger")
    BY <1>1
  <2> QED BY ONLY <2>1, SMT
<1>8. KafkaTypes'
  BY <1>1, <1>2, <1>3, <1>7 DEF KafkaInv, KafkaTypes, BootFrom
<1>9. BootInv'
  <2>1. \A j \in 0 .. 5 : <<>> # BootFrom(j)
    BY StartSteps
  <2>2. 0 \in 0 .. 5 /\ (\A j \in 0 .. 1 : j \in 0 .. 5) /\ (\A j \in 0 .. 3 : j \in 0 .. 5)
    OBVIOUS
  <2> QED BY <1>1, <1>2, <2>1, <2>2 DEF BootInv, BootFrom
<1>10. LoggerInv'
  <2>1. CASE LoggerIsFirst
    <3>1. what # "logger"
      BY <1>2, <1>5, <2>1 DEF LoggerIsFirst
    <3>2. Step("end", "logger") \notin Range(unwinding')
      BY <1>2, <2>1 DEF LoggerIsFirst
    <3>3. loggerUp'
      BY <1>1, <2>1, <3>1 DEF LoggerIsFirst
    <3> QED BY <1>1, <2>1, <3>2, <3>3 DEF LoggerInv, LoggerIsFirst
  <2>2. CASE LoggerGoes /\ unwinding = <<Step("end", "logger")>>
    <3>1. what = "logger" /\ unwinding' = <<>>
      BY <1>2, <2>2, ClosingParts, StepsApart DEF Undo
    <3>2. pool' = pool
      BY <1>3, <3>1
    <3> QED BY <1>1, <2>2, <3>1, <3>2 DEF LoggerInv, LoggerGoes
  <2> QED BY <1>2, <2>1, <2>2
<1>11. PollInv'
  <2> SUFFICES ASSUME NEW c \in Consumers, poller'[c] = "polling"
               PROVE  c \in open' /\ Joined(c)'
    BY DEF PollInv
  <2>1. c \in open /\ (c \in Range(statics) \/ Step("join", c) \in Range(unwinding)) /\ c # what
    BY <1>1, <1>2, <1>6
  <2>2. Undo # Step("join", c)
    BY <1>2, StepsApart
  <2> QED BY <1>1, <1>2, <2>1, <2>2 DEF Joined
<1>12. PoolInv'
  <2>1. what # "pool" => Undo # Step("end", "pool")
    BY <1>2, StepsApart
  <2> QED BY <1>1, <1>2, <1>3, <2>1 DEF KafkaInv, PoolInv, Active, InPool
<1>13. EndInv'
  BY <1>6 DEF EndInv
<1>14. TaskInv'
  <2> SUFFICES ASSUME pool' # "misused", NEW c \in Consumers, NEW k \in 1 .. MaxOffset,
                      InPool(<<c, k>>)
               PROVE  c \in open'
    BY <1>1 DEF TaskInv, InPool
  <2>1. <<c, k>> \in Active
    BY DEF Active, Messages
  <2>2. pool # "misused" /\ what # "pool"
    BY <1>3, <2>1
  <2>3. c \in open
    BY <2>2 DEF KafkaInv, TaskInv
  <2> QED BY <1>1, <1>6, <2>2, <2>3
<1> QED BY <1>8, <1>9, <1>10, <1>11, <1>12, <1>13, <1>14 DEF KafkaInv

LEMMA KafkaStutterKeeps == KafkaInv /\ UNCHANGED kafkaVars => KafkaInv'
<1> SUFFICES ASSUME KafkaInv, UNCHANGED kafkaVars PROVE KafkaInv'
  OBVIOUS
<1>1. UNCHANGED <<booting, statics, unwinding, pool, poller, stopAsked, message, open, committed,
                  loggerUp>>
  BY DEF kafkaVars
<1>2. KafkaTypes'
  BY <1>1 DEF KafkaInv, KafkaTypes, BootFrom
<1>3. BootInv' /\ LoggerInv'
  BY <1>1 DEF KafkaInv, BootInv, LoggerInv, LoggerIsFirst, LoggerGoes, BootFrom
<1>4. PollInv' /\ PoolInv'
  BY <1>1 DEF KafkaInv, PollInv, Joined, BootFrom, PoolInv, Active, InPool
<1>5. EndInv' /\ TaskInv'
  BY <1>1 DEF KafkaInv, EndInv, TaskInv, InPool
<1> QED BY <1>2, <1>3, <1>4, <1>5 DEF KafkaInv

LEMMA KafkaInitHolds == KafkaInit => KafkaInv
<1> SUFFICES ASSUME KafkaInit PROVE KafkaInv
  OBVIOUS
<1>1. /\ booting = BootFrom(0) /\ statics = <<>> /\ unwinding = <<>> /\ pool = "none"
      /\ loggerUp = TRUE /\ stopAsked = {} /\ open = {}
      /\ poller \in [Consumers -> {"none"}]
      /\ message \in [Messages -> {"broker"}] /\ committed \in [Consumers -> {0}]
  BY StartSteps DEF KafkaInit
<1>2. (\A c \in Consumers : poller[c] = "none") /\ (\A m \in Messages : ~InPool(m))
  BY <1>1 DEF InPool
<1>3. KafkaTypes
  <2>1. 0 \in 0 .. 6 /\ 0 \in 0 .. MaxOffset
    BY ConsumersAssumption
  <2> QED BY <1>1, <2>1, EmptySeq DEF KafkaTypes
<1>4. BootInv /\ LoggerInv /\ PollInv
  BY <1>1, <1>2, EntriesApart DEF BootInv, LoggerInv, PollInv
<1>5. PoolInv /\ EndInv /\ TaskInv
  <2>1. Active = {}
    BY <1>2 DEF Active
  <2>2. \A c \in Consumers, n \in 1 .. MaxOffset : <<c, n>> \in Messages
    BY DEF Messages
  <2> QED BY <1>1, <1>2, <2>1, <2>2, RangeOfShort DEF PoolInv, EndInv, TaskInv
<1> QED BY <1>3, <1>4, <1>5 DEF KafkaInv

LEMMA KafkaInvAlways == KafkaSpec => []KafkaInv
<1>1. KafkaInv /\ [KafkaNext]_kafkaVars => KafkaInv'
  <2> SUFFICES ASSUME KafkaInv, [KafkaNext]_kafkaVars PROVE KafkaInv'
    OBVIOUS
  <2>1. CASE Boot \/ BootGivesUp \/ ExitNext
    BY <2>1, BootKeeps, BootGivesUpKeeps, ExitNextKeeps
  <2>2. CASE UndoStop \/ UndoJoin \/ UndoWait \/ UndoEnd
    BY <2>2, UndoStopKeeps, UndoJoinKeeps, UndoWaitKeeps, UndoEndKeeps
  <2>3. CASE \E c \in Consumers : PollEnds(c) \/ \E n \in 1 .. MaxOffset : Poll(c, n)
    BY <2>3, PollEndsKeeps, PollKeeps
  <2>4. CASE \E m \in Messages : TaskFails(m) \/ TaskHandles(m) \/ TaskCommits(m) \/ TaskFrees(m)
    BY <2>4, TasksKeep
  <2>5. CASE UNCHANGED kafkaVars
    BY <2>5, KafkaStutterKeeps
  <2> QED BY <2>1, <2>2, <2>3, <2>4, <2>5 DEF KafkaNext
<1> QED BY KafkaInitHolds, <1>1, PTL DEF KafkaSpec

(* Unless exit() has come to the pool while a thread polled, nobody polls any more when
   the pool's destructor begins, so that it waits for the last task. *)
PollingIsOver == \A c \in Consumers : poller[c] # "polling"
PoolEnding == Step("end", "pool") \in Range(unwinding)
CoverInv ==
    /\ poolFirst \in BOOLEAN
    /\ booting # <<>> => pool \in {"none", "alive"}
    /\ ~poolFirst =>
          /\ pool # "misused"
          /\ pool = "dead" => PollingIsOver
          /\ PoolEnding => PollingIsOver
          /\ PoolEnding => \/ unwinding = <<Step("wait", "pool"), Step("end", "pool")>>
                           \/ unwinding = <<Step("end", "pool")>> /\ Active = {}

(* A step that leaves the pool and the exit alone and adds no task. *)
LEMMA CoverStays ==
    ASSUME CoverInv, UNCHANGED <<unwinding, pool, poolFirst>>,
           booting' = booting \/ booting' = <<>> \/ booting # <<>>,
           PoolEnding \/ pool = "dead" => \A c \in Consumers : poller'[c] = "polling" => poller[c] = "polling",
           PoolEnding => Active' \subseteq Active
    PROVE  CoverInv'
BY DEF CoverInv, PollingIsOver, PoolEnding

LEMMA StartIsCovered == KafkaInv /\ CoverInv /\ (Boot \/ BootGivesUp) => CoverInv'
<1> SUFFICES ASSUME KafkaInv, CoverInv, Boot \/ BootGivesUp PROVE CoverInv'
  OBVIOUS
<1>1. booting # <<>> /\ UNCHANGED <<unwinding, pool, poolFirst>>
  BY DEF Boot, BootGivesUp, BootSame
<1>2. ~PoolEnding /\ pool # "dead"
  BY <1>1, RangeOfShort DEF KafkaInv, BootInv, CoverInv, PoolEnding
<1> QED BY <1>1, <1>2, CoverStays

LEMMA TasksAreCovered ==
    ASSUME KafkaInv, CoverInv, NEW m \in Messages,
           TaskFails(m) \/ TaskHandles(m) \/ TaskCommits(m) \/ TaskFrees(m)
    PROVE  CoverInv'
<1>1. /\ InPool(m) /\ UNCHANGED <<booting, unwinding, pool, poller, poolFirst>>
      /\ \E v : message' = [message EXCEPT ![m] = v]
  BY DEF TaskFails, TaskHandles, TaskCommits, TaskFrees, PoolSame, InPool
<1>2. Active' \subseteq Active
  BY <1>1 DEF Active, InPool, KafkaInv, KafkaTypes
<1> QED BY <1>1, <1>2, CoverStays

LEMMA PollIsCovered ==
    ASSUME KafkaInv, CoverInv, NEW c \in Consumers, NEW n \in 1 .. MaxOffset, Poll(c, n)
    PROVE  CoverInv'
<1>1. /\ poller[c] = "polling" /\ UNCHANGED <<booting, unwinding, poller, poolFirst>>
      /\ pool \in {"none", "alive"} => pool' = "alive"
  BY DEF Poll, UsePool
<1>2. ~PollingIsOver
  BY <1>1 DEF PollingIsOver
<1>3. ~poolFirst => pool \in {"none", "alive"} /\ ~PoolEnding
  BY <1>2 DEF CoverInv, KafkaInv, KafkaTypes
<1> QED BY <1>1, <1>3 DEF CoverInv, PoolEnding

LEMMA PollEndsIsCovered ==
    ASSUME KafkaInv, CoverInv, NEW c \in Consumers, PollEnds(c)
    PROVE  CoverInv'
<1>1. /\ UNCHANGED <<booting, unwinding, pool, message, poolFirst>>
      /\ \A d \in Consumers : poller'[d] = "polling" => poller[d] = "polling"
  BY DEF PollEnds, KafkaInv, KafkaTypes
<1>2. Active' = Active
  BY <1>1 DEF Active, InPool
<1> QED BY <1>1, <1>2, CoverStays

(* The pool comes off the stack: either somebody polls, or nobody ever will again. *)
LEMMA ExitIsCovered == KafkaInv /\ CoverInv /\ ExitNext => CoverInv'
<1> SUFFICES ASSUME KafkaInv, CoverInv, ExitNext PROVE CoverInv'
  OBVIOUS
<1> DEFINE what == Last(statics)
<1>1. /\ booting = <<>> /\ statics # <<>> /\ statics \in Seq(Entries)
      /\ unwinding' = Undoing(what) /\ UNCHANGED <<booting, pool, poller>>
      /\ poolFirst' = (poolFirst \/ (what = "pool" /\ ~PollingIsOver))
  BY DEF ExitNext, KafkaInv, KafkaTypes, PollingIsOver
<1>2. what \in Entries
  BY <1>1, LastOfSeq
<1>3. what = "pool" => unwinding' = <<Step("wait", "pool"), Step("end", "pool")>>
  BY <1>1, <1>2, UndoingSteps
<1>4. what # "pool" => Step("end", "pool") \notin Range(unwinding')
  <2>1. CASE what \in Consumers
    <3>1. unwinding' = Closing(what) /\ what # "pool"
      BY <1>1, <1>2, <2>1, UndoingSteps, EntriesApart
    <3> QED BY <3>1, RangeOfShort, StepsApart DEF Closing
  <2>2. CASE what = "logger"
    <3>1. unwinding' = <<Step("end", "logger")>>
      BY <1>1, <1>2, <2>2, UndoingSteps
    <3> QED BY <3>1, RangeOfShort, StepsApart
  <2>3. CASE what = "hook"
    BY <1>1, <1>2, <2>3, UndoingSteps, EntriesApart
  <2> QED BY <1>2, <2>1, <2>2, <2>3, EntriesApart
<1> HIDE DEF what
<1>5. poolFirst' \in BOOLEAN
  <2>1. poolFirst' = (poolFirst \/ (what = "pool" /\ ~PollingIsOver))
    BY <1>1
  <2> QED BY ONLY <2>1, SMT
<1>6. PollingIsOver' <=> PollingIsOver
  BY <1>1 DEF PollingIsOver
<1> QED BY <1>1, <1>3, <1>4, <1>5, <1>6 DEF CoverInv, PoolEnding

(* When the end of the pool is a step that is left, these are the steps that are left. *)
LEMMA PoolEndSteps ==
    ASSUME KafkaInv, CoverInv, ~poolFirst, NEW op, Undone(op)
    PROVE  /\ PoolEnding' => PoolEnding
           /\ PoolEnding => op \in {"wait", "end"}
           /\ PoolEnding /\ op = "wait" => unwinding' = <<Step("end", "pool")>>
           /\ PoolEnding /\ op = "end" => Undo.what = "pool" /\ Active = {} /\ ~PoolEnding'
           /\ op = "end" /\ Undo.what = "pool" => PoolEnding
<1>1. /\ Range(unwinding) = {Undo} \cup Range(unwinding') /\ unwinding' = Tail(unwinding)
      /\ Undo = Step(op, Undo.what)
  BY UndoFacts
<1>2. CASE unwinding = <<Step("wait", "pool"), Step("end", "pool")>>
  <2>1. op = "wait" /\ unwinding' = <<Step("end", "pool")>>
    BY <1>1, <1>2, ClosingParts, StepsApart DEF Undo
  <2> QED BY <1>1, <2>1 DEF PoolEnding
<1>3. CASE unwinding = <<Step("end", "pool")>> /\ (PoolEnding => Active = {})
  <2>1. op = "end" /\ Undo.what = "pool" /\ unwinding' = <<>>
    BY <1>1, <1>3, ClosingParts, StepsApart DEF Undo
  <2> QED BY <1>1, <1>3, <2>1, RangeOfShort DEF PoolEnding
<1>4. CASE ~PoolEnding
  BY <1>1, <1>4 DEF PoolEnding
<1> QED BY <1>2, <1>3, <1>4 DEF CoverInv

LEMMA UndoIsCovered ==
    KafkaInv /\ CoverInv /\ (UndoStop \/ UndoJoin \/ UndoWait \/ UndoEnd) => CoverInv'
<1> SUFFICES ASSUME KafkaInv, CoverInv, UndoStop \/ UndoJoin \/ UndoWait \/ UndoEnd
             PROVE  CoverInv'
  OBVIOUS
<1>1. UNCHANGED <<booting, poller, message, poolFirst>>
  BY DEF UndoStop, UndoJoin, UndoWait, UndoEnd, UndoSame
<1>2. /\ booting = <<>>
      /\ PollingIsOver' <=> PollingIsOver
      /\ Active' = Active
  <2>1. unwinding # <<>>
    BY DEF UndoStop, UndoJoin, UndoWait, UndoEnd, Undone
  <2> QED BY <1>1, <2>1 DEF KafkaInv, BootInv, PollingIsOver, Active, InPool
<1>3. CASE UndoStop \/ UndoJoin
  <2>1. pool' = pool /\ \E op \in {"stop", "join"} : Undone(op)
    BY <1>3 DEF UndoStop, UndoJoin
  <2>2. ~poolFirst => ~PoolEnding'
    BY <2>1, PoolEndSteps
  <2> QED BY <1>1, <1>2, <2>1, <2>2 DEF CoverInv
<1>4. CASE UndoWait
  <2>1. /\ Undone("wait") /\ (pool \in {"dead", "misused"} \/ Active = {})
        /\ pool' = (IF pool = "none" THEN "alive" ELSE pool)
    BY <1>4 DEF UndoWait, UsePool
  <2>2. ~poolFirst /\ PoolEnding' => PoolEnding /\ unwinding' = <<Step("end", "pool")>>
    BY <2>1, PoolEndSteps
  <2>3. ~poolFirst => Active = {}
    BY <2>1 DEF CoverInv, KafkaInv, PoolInv
  <2> QED BY <1>1, <1>2, <2>1, <2>2, <2>3 DEF CoverInv
<1>5. CASE UndoEnd
  <2>1. Undone("end") /\ pool' = (IF Undo.what = "pool" THEN Destroyed ELSE pool)
    BY <1>5 DEF UndoEnd
  <2>2. ~poolFirst /\ Undo.what = "pool" => pool' = "dead" /\ PollingIsOver
    BY <2>1, PoolEndSteps DEF CoverInv, Destroyed
  <2>3. ~poolFirst => ~PoolEnding'
    BY <2>1, PoolEndSteps
  <2> QED BY <1>1, <1>2, <2>1, <2>2, <2>3 DEF CoverInv
<1> QED BY <1>3, <1>4, <1>5

LEMMA CoverInvAlways == KafkaSpec => []CoverInv
<1>1. KafkaInit => CoverInv
  BY RangeOfShort DEF KafkaInit, CoverInv, PoolEnding
<1>2. KafkaInv /\ CoverInv /\ [KafkaNext]_kafkaVars => CoverInv'
  <2> SUFFICES ASSUME KafkaInv, CoverInv, [KafkaNext]_kafkaVars PROVE CoverInv'
    OBVIOUS
  <2>1. CASE Boot \/ BootGivesUp \/ ExitNext
    BY <2>1, StartIsCovered, ExitIsCovered
  <2>2. CASE UndoStop \/ UndoJoin \/ UndoWait \/ UndoEnd
    BY <2>2, UndoIsCovered
  <2>3. CASE \E c \in Consumers : PollEnds(c) \/ \E n \in 1 .. MaxOffset : Poll(c, n)
    BY <2>3, PollEndsIsCovered, PollIsCovered
  <2>4. CASE \E m \in Messages : TaskFails(m) \/ TaskHandles(m) \/ TaskCommits(m) \/ TaskFrees(m)
    BY <2>4, TasksAreCovered
  <2>5. CASE UNCHANGED kafkaVars
    BY <2>5, CoverStays DEF kafkaVars, Active, InPool
  <2> QED BY <2>1, <2>2, <2>3, <2>4, <2>5 DEF KafkaNext
<1> QED BY <1>1, <1>2, KafkaInvAlways, PTL DEF KafkaSpec

(* TasksOutlivedByTheirConsumer (AsyncKafkaConsumer.h shutdown, Application.h): at
   every point of the start and of the exit a poll thread has its rd_kafka_t and the
   logger; and as long as exit() has not come to the pool before the poll threads were
   stopped, a task has those two and the pool, for any number of messages and any limit
   of the pool.  The run exit_pool is the other case. *)
THEOREM NothingEndsUnderATask == KafkaSpec => []TasksOutlivedByTheirConsumer
<1>1. KafkaInv /\ CoverInv => TasksOutlivedByTheirConsumer
  <2> SUFFICES ASSUME KafkaInv, CoverInv PROVE TasksOutlivedByTheirConsumer
    OBVIOUS
  <2>1. ASSUME NEW c \in Consumers, poller[c] = "polling"
        PROVE  c \in open /\ loggerUp
    BY <2>1 DEF KafkaInv, PollInv, LoggerInv, LoggerIsFirst, LoggerGoes
  <2>2. ASSUME ~poolFirst, NEW m \in Messages
        PROVE  Supplied(m)
    <3> SUFFICES ASSUME InPool(m) PROVE pool = "alive" /\ m[1] \in open /\ loggerUp
      BY DEF Supplied
    <3>1. pool = "alive"
      BY <2>2 DEF Active, KafkaInv, KafkaTypes, PoolInv, CoverInv
    <3>2. loggerUp
      BY <3>1 DEF KafkaInv, LoggerInv, LoggerIsFirst, LoggerGoes
    <3>3. m[1] \in Consumers /\ m[2] \in 1 .. MaxOffset /\ m = <<m[1], m[2]>>
      BY DEF Messages
    <3> QED BY <3>1, <3>2, <3>3 DEF KafkaInv, TaskInv
  <2> QED BY <2>1, <2>2 DEF TasksOutlivedByTheirConsumer
<1> QED BY <1>1, KafkaInvAlways, CoverInvAlways, PTL

(* KafkaTypeOK (AsyncKafkaConsumer.h members): for every value of the constants. *)
THEOREM ConsumerTypesKept == KafkaSpec => []KafkaTypeOK
<1>1. KafkaInv /\ CoverInv => KafkaTypeOK
  BY DEF KafkaInv, KafkaTypes, CoverInv, KafkaTypeOK
<1> QED BY <1>1, KafkaInvAlways, CoverInvAlways, PTL

(***************************************************************************)
(* Sleeping workers (WorkerParking).                                       *)
(***************************************************************************)

PoolThreads == Publishers \cup PoolWorkers
Spots == [at : {"away", "pushed", "spin", "look", "park", "wait", "gone"}]
         \cup [at : {"drain"}, shard : ReadyShards]
AsleepAmong(d) == {w \in PoolWorkers : d[w].at = "wait"}

ParkingTypes ==
    /\ readyQueue \in Seq(ReadyShards) /\ readyCount = Len(readyQueue)
    /\ poolStop \in BOOLEAN
    /\ doing \in [PoolThreads -> Spots]
    /\ \A p \in Publishers : doing[p].at \in {"away", "pushed"}
    /\ \A w \in PoolWorkers : doing[w].at # "away"
    /\ drains \in [ReadyShards -> Nat]

ParkedInv ==
    /\ IsFiniteSet(AsleepAmong(doing)) /\ parked = Cardinality(AsleepAmong(doing))
    /\ signalled \subseteq AsleepAmong(doing)

(* A ready shard waits in one place of the queue or is with one worker. *)
ReadyOnce ==
    /\ \A i, j \in DOMAIN readyQueue : readyQueue[i] = readyQueue[j] => i = j
    /\ \A w \in PoolWorkers, sh \in ReadyShards :
        Draining(w, sh) => /\ \A i \in DOMAIN readyQueue : readyQueue[i] # sh
                           /\ \A v \in PoolWorkers : Draining(v, sh) => v = w

(* Who will look at the queue again, whatever the others do: a thread that has pushed
   and not notified yet, and a worker that is not asleep or has been notified. *)
WillLook(t) ==
    \/ doing[t].at = "pushed"
    \/ t \in PoolWorkers /\ (doing[t].at \in {"spin", "look", "park", "drain"} \/ t \in signalled)
ReadyIsAttended == readyQueue # <<>> => \E t \in PoolThreads : WillLook(t)

(* The stop reaches all: nobody sleeps through it, and nobody is gone before it. *)
StopIsHeard ==
    /\ poolStop => AsleepAmong(doing) \subseteq signalled
                   /\ \A p \in Publishers : doing[p].at = "away"
    /\ \A w \in PoolWorkers : doing[w].at = "gone" => poolStop

NoWakeUpIsLost == ReadyIsAttended /\ StopIsHeard

ParkingInv == ParkingTypes /\ ParkedInv /\ ReadyOnce /\ NoWakeUpIsLost

LEMMA SpotsAre ==
    ASSUME ParkingTypes, NEW t \in PoolThreads
    PROVE  /\ doing[t].at \in {"away", "pushed", "spin", "look", "park", "wait", "gone", "drain"}
           /\ doing[t].at = "drain" =>
                /\ doing[t].shard \in ReadyShards
                /\ doing[t] = [at |-> "drain", shard |-> doing[t].shard]
           /\ t \in Publishers <=> t \notin PoolWorkers
           /\ t \in Publishers => doing[t].at \in {"away", "pushed"}
           /\ t \in PoolWorkers => doing[t].at # "away"
<1> doing[t] \in Spots
  BY DEF ParkingTypes
<1> QED BY ParkingAssumption DEF ParkingTypes, Spots, PoolThreads

(* One thread goes on and the queue, the count and the stop stay as they are. *)
LEMMA ThreadGoesOn ==
    ASSUME ParkingInv, NEW t \in PoolThreads, NEW e \in Spots,
           doing' = [doing EXCEPT ![t] = e],
           UNCHANGED <<readyQueue, readyCount, parked, poolStop, drains>>,
           doing[t].at # "wait", e.at # "wait", e.at # "drain", e.at # "gone",
           t \in Publishers => e.at \in {"away", "pushed"},
           t \in PoolWorkers => e.at # "away",
           e.at = "pushed" => ~poolStop \/ t \in PoolWorkers,
           signalled \subseteq signalled',
           signalled' \subseteq AsleepAmong(doing),
           ReadyIsAttended'
    PROVE  ParkingInv'
<1> USE DEF ParkingInv
<1>1. ParkingTypes'
  BY DEF ParkingTypes
<1>2. AsleepAmong(doing') = AsleepAmong(doing)
  BY DEF AsleepAmong, ParkingTypes, PoolThreads
<1>3. ParkedInv'
  BY <1>2 DEF ParkedInv
<1>4. \A w \in PoolWorkers, sh \in ReadyShards : Draining(w, sh)' => Draining(w, sh)
  BY DEF Draining, ParkingTypes, PoolThreads
<1>5. ReadyOnce'
  BY <1>4 DEF ReadyOnce
<1>6. StopIsHeard'
  BY <1>2, ParkingAssumption DEF StopIsHeard, NoWakeUpIsLost, ParkingTypes, PoolThreads
<1> QED BY <1>1, <1>3, <1>5, <1>6 DEF NoWakeUpIsLost

LEMMA EnqueuePushKeeps ==
    ASSUME ParkingInv, NEW t \in PoolThreads, NEW sh \in ReadyShards, EnqueuePush(t, sh)
    PROVE  ParkingInv'
<1> USE DEF ParkingInv
<1>1. /\ readyQueue \in Seq(ReadyShards) /\ readyQueue' = Append(readyQueue, sh)
      /\ Len(readyQueue') = Len(readyQueue) + 1
      /\ readyQueue' \in Seq(ReadyShards) /\ readyQueue'[Len(readyQueue) + 1] = sh
      /\ \A i \in DOMAIN readyQueue : i \in DOMAIN readyQueue' /\ readyQueue'[i] = readyQueue[i]
      /\ \A i \in DOMAIN readyQueue' : i \in DOMAIN readyQueue \/ i = Len(readyQueue) + 1
  BY DEF EnqueuePush, ParkingTypes
<1>2. ParkingTypes'
  BY <1>1 DEF ParkingTypes, EnqueuePush, Spots
<1>3. doing[t].at # "wait" /\ doing'[t] = [at |-> "pushed"]
      /\ \A u \in PoolThreads \ {t} : doing'[u] = doing[u]
  BY DEF EnqueuePush, Doing, Draining, ParkingTypes
<1>4. AsleepAmong(doing') = AsleepAmong(doing)
  BY <1>3 DEF AsleepAmong, PoolThreads
<1>5. ParkedInv'
  BY <1>4 DEF ParkedInv, EnqueuePush
<1>6. \A i \in DOMAIN readyQueue : readyQueue[i] # sh
  BY DEF EnqueuePush, Idle, ReadyOnce, Range
<1>7. \A w \in PoolWorkers, s \in ReadyShards : Draining(w, s)' => Draining(w, s) /\ w # t
  BY <1>3 DEF Draining, PoolThreads
<1>8. \A w \in PoolWorkers \ {t} : ~Draining(w, sh)
  BY DEF EnqueuePush, Idle, ReadyOnce
<1>9. ReadyOnce'
  BY <1>1, <1>6, <1>7, <1>8 DEF ReadyOnce
<1>10. ReadyIsAttended'
  BY <1>3 DEF ReadyIsAttended, WillLook
<1>11. StopIsHeard'
  <2>1. poolStop' = poolStop /\ signalled' = signalled
    BY DEF EnqueuePush
  <2>2. t \in Publishers => ~poolStop
    BY ParkingAssumption DEF EnqueuePush
  <2> QED BY <1>3, <1>4, <2>1, <2>2, ParkingAssumption
          DEF StopIsHeard, NoWakeUpIsLost, PoolThreads
<1> QED BY <1>2, <1>5, <1>9, <1>10, <1>11 DEF NoWakeUpIsLost

LEMMA EnqueueNotifyKeeps ==
    ASSUME ParkingInv, NEW t \in PoolThreads, EnqueueNotify(t)
    PROVE  ParkingInv'
<1> USE DEF ParkingInv
<1>1. PICK reached \in {{}} \cup {{w} : w \in Waiting} :
        /\ reached = {} => parked = 0 \/ Waiting = {}
        /\ signalled' = signalled \cup reached
  BY DEF EnqueueNotify
<1>2. /\ doing[t].at = "pushed" /\ doing' = [doing EXCEPT ![t] = After(t)]
      /\ UNCHANGED <<readyQueue, readyCount, parked, poolStop, drains>>
      /\ doing'[t] = After(t) /\ \A u \in PoolThreads \ {t} : doing'[u] = doing[u]
  BY DEF EnqueueNotify, Doing, ParkingTypes
<1>3. /\ After(t) \in Spots
      /\ After(t).at = IF t \in Publishers THEN "away" ELSE "spin"
      /\ t \in Publishers <=> t \notin PoolWorkers
  BY ParkingAssumption DEF After, Away, Spinning, Spots, PoolThreads
<1>4. Waiting = AsleepAmong(doing) \ signalled
  BY DEF Waiting, AsleepAmong, Doing
<1>5. ReadyIsAttended'
  <2>1. CASE t \in PoolWorkers
    BY <2>1, <1>2, <1>3 DEF ReadyIsAttended, WillLook
  <2>2. CASE t \in Publishers /\ reached # {}
    <3>1. PICK w \in Waiting : reached = {w}
      BY <2>2
    <3>2. w \in PoolWorkers /\ w \in signalled'
      BY <3>1, <1>1 DEF Waiting
    <3> QED BY <3>2 DEF ReadyIsAttended, WillLook, PoolThreads
  <2>3. CASE t \in Publishers /\ reached = {}
    <3>1. PICK w \in PoolWorkers : TRUE
      BY ParkingAssumption
    <3>2. ~poolStop
      BY <2>3, <1>2 DEF NoWakeUpIsLost, StopIsHeard
    <3>3. doing[w].at # "gone" /\ doing[w].at # "away"
      BY <3>2 DEF NoWakeUpIsLost, StopIsHeard, ParkingTypes
    <3>4. doing[w].at = "wait" => w \in signalled
      <4>1. parked = 0 => AsleepAmong(doing) = {}
        BY FS_EmptySet DEF ParkedInv
      <4> QED BY <4>1, <2>3, <1>1, <1>4 DEF AsleepAmong
    <3>5. doing'[w] = doing[w] /\ (w \in signalled => w \in signalled') /\ w \in PoolThreads
      BY <2>3, <1>1, <1>2, <1>3 DEF PoolThreads
    <3>6. WillLook(w)'
      BY <3>3, <3>4, <3>5, SpotsAre DEF WillLook
    <3> QED BY <3>5, <3>6 DEF ReadyIsAttended
  <2> QED BY <2>1, <2>2, <2>3, <1>3
<1>6. signalled \subseteq signalled' /\ signalled' \subseteq AsleepAmong(doing)
  BY <1>1, <1>4 DEF ParkedInv
<1> QED BY <1>2, <1>3, <1>5, <1>6, ThreadGoesOn

(* A worker takes the first shard, when it was awake or at its wake-up. *)
LEMMA TakeKeeps ==
    ASSUME ParkingInv, NEW w \in PoolWorkers, readyQueue # <<>>, Take(w),
           doing[w].at \in {"look", "park", "wait"},
           UNCHANGED <<poolStop, drains>>,
           signalled' = signalled \ {w},
           doing[w].at = "wait" => parked' = parked - 1,
           doing[w].at # "wait" => parked' = parked
    PROVE  ParkingInv'
<1> DEFINE sh == Head(readyQueue)
<1> USE DEF ParkingInv
<1>1. /\ readyQueue \in Seq(ReadyShards) /\ readyQueue' = Tail(readyQueue)
      /\ sh \in ReadyShards /\ sh = readyQueue[1] /\ 1 \in DOMAIN readyQueue
      /\ Len(readyQueue') = Len(readyQueue) - 1 /\ readyQueue' \in Seq(ReadyShards)
      /\ \A i \in DOMAIN readyQueue' :
            i \in Int /\ i # 0 /\ i + 1 \in DOMAIN readyQueue /\ readyQueue'[i] = readyQueue[i + 1]
  BY DEF Take, ParkingTypes
<1>2. /\ doing' = [doing EXCEPT ![w] = [at |-> "drain", shard |-> sh]]
      /\ doing'[w] = [at |-> "drain", shard |-> sh] /\ doing'[w].at = "drain"
      /\ \A u \in PoolThreads \ {w} : doing'[u] = doing[u]
      /\ w \in PoolThreads
  BY DEF Take, ParkingTypes, PoolThreads
<1>3. ParkingTypes'
  BY <1>1, <1>2, ParkingAssumption DEF ParkingTypes, Take, Spots
<1>4. AsleepAmong(doing') = AsleepAmong(doing) \ {w}
  BY <1>2 DEF AsleepAmong, PoolThreads
<1>5. ParkedInv'
  <2>1. CASE doing[w].at = "wait"
    <3>1. w \in AsleepAmong(doing)
      BY <2>1 DEF AsleepAmong
    <3>2. /\ IsFiniteSet(AsleepAmong(doing) \ {w})
          /\ Cardinality(AsleepAmong(doing) \ {w}) = Cardinality(AsleepAmong(doing)) - 1
      BY <3>1, FS_RemoveElement DEF ParkedInv
    <3> QED BY <3>1, <3>2, <2>1, <1>4 DEF ParkedInv
  <2>2. CASE doing[w].at # "wait"
    <3>1. AsleepAmong(doing') = AsleepAmong(doing) /\ w \notin AsleepAmong(doing)
      BY <2>2, <1>4 DEF AsleepAmong
    <3> QED BY <3>1, <2>2 DEF ParkedInv
  <2> QED BY <2>1, <2>2
<1>6. \A v \in PoolWorkers, s \in ReadyShards :
        Draining(v, s)' <=> (v = w /\ s = sh) \/ (v # w /\ Draining(v, s))
  BY <1>2 DEF Draining, PoolThreads
<1>7. \A v \in PoolWorkers : ~Draining(v, sh)
  BY <1>1 DEF ReadyOnce
<1>8. ReadyOnce'
  <2>1. \A i, j \in DOMAIN readyQueue' : readyQueue'[i] = readyQueue'[j] => i = j
    BY <1>1 DEF ReadyOnce
  <2>2. \A i \in DOMAIN readyQueue' : readyQueue'[i] # sh
    BY <1>1 DEF ReadyOnce
  <2>3. \A v \in PoolWorkers, s \in ReadyShards : Draining(v, s) =>
          \A i \in DOMAIN readyQueue' : readyQueue'[i] # s
    BY <1>1 DEF ReadyOnce
  <2> QED BY <2>1, <2>2, <2>3, <1>6, <1>7 DEF ReadyOnce
<1>9. ReadyIsAttended'
  BY <1>2 DEF ReadyIsAttended, WillLook
<1>10. StopIsHeard'
  BY <1>2, <1>4, ParkingAssumption DEF StopIsHeard, NoWakeUpIsLost, PoolThreads
<1> QED BY <1>3, <1>5, <1>8, <1>9, <1>10 DEF NoWakeUpIsLost

(* A worker that finds nothing under the lock of the pool: it goes to sleep, or it goes. *)
LEMMA EmptyHandedKeeps ==
    ASSUME ParkingInv, NEW w \in PoolWorkers, readyQueue = <<>>,
           NEW next \in {"wait", "gone"},
           doing' = [doing EXCEPT ![w] = [at |-> next]],
           doing[w].at \in {"park", "wait"},
           UNCHANGED <<readyQueue, readyCount, poolStop, drains>>,
           signalled' = signalled \ {w},
           next = "gone" <=> poolStop,
           doing[w].at = next => parked' = parked,
           doing[w].at = "park" /\ next = "wait" => parked' = parked + 1,
           doing[w].at = "park" /\ next = "gone" => parked' = parked,
           doing[w].at = "wait" /\ next = "gone" => parked' = parked - 1
    PROVE  ParkingInv'
<1> DEFINE e == [at |-> next]
<1> USE DEF ParkingInv
<1>0. /\ e \in Spots /\ e.at = next /\ w \in PoolThreads
      /\ w \notin Publishers
  BY ParkingAssumption DEF Spots, PoolThreads
<1>1. ParkingTypes'
  BY <1>0 DEF ParkingTypes
<1>2. doing'[w] = e /\ \A u \in PoolThreads \ {w} : doing'[u] = doing[u]
  BY <1>0 DEF ParkingTypes
<1>3. /\ e.at = "wait" => AsleepAmong(doing') = AsleepAmong(doing) \cup {w}
      /\ e.at # "wait" => AsleepAmong(doing') = AsleepAmong(doing) \ {w}
      /\ w \in AsleepAmong(doing) <=> doing[w].at = "wait"
  BY <1>2 DEF AsleepAmong, PoolThreads
<1>4. ParkedInv'
  <2>1. IsFiniteSet(AsleepAmong(doing)) /\ Cardinality(AsleepAmong(doing)) \in Nat
        /\ parked = Cardinality(AsleepAmong(doing))
    BY FS_CardinalityType DEF ParkedInv
  <2>2. IsFiniteSet(AsleepAmong(doing')) /\ parked' = Cardinality(AsleepAmong(doing'))
    <3>1. CASE e.at = "wait" /\ doing[w].at # "wait"
      <4>1. AsleepAmong(doing') = AsleepAmong(doing) \cup {w} /\ w \notin AsleepAmong(doing)
        BY <3>1, <1>3
      <4>2. parked' = parked + 1
        BY <3>1, <1>0
      <4>3. /\ IsFiniteSet(AsleepAmong(doing) \cup {w})
            /\ Cardinality(AsleepAmong(doing) \cup {w}) = Cardinality(AsleepAmong(doing)) + 1
        BY <4>1, <2>1, FS_AddElement
      <4> QED BY <4>1, <4>2, <4>3, <2>1
    <3>2. CASE e.at = "wait" /\ doing[w].at = "wait"
      <4>1. AsleepAmong(doing') = AsleepAmong(doing)
        BY <3>2, <1>3
      <4> QED BY <4>1, <3>2, <2>1
    <3>3. CASE e.at # "wait" /\ doing[w].at = "wait"
      <4>1. AsleepAmong(doing') = AsleepAmong(doing) \ {w} /\ w \in AsleepAmong(doing)
        BY <3>3, <1>3
      <4>2. parked' = parked - 1
        BY <3>3, <1>0
      <4>3. /\ IsFiniteSet(AsleepAmong(doing) \ {w})
            /\ Cardinality(AsleepAmong(doing) \ {w}) = Cardinality(AsleepAmong(doing)) - 1
        BY <4>1, <2>1, FS_RemoveElement
      <4> QED BY <4>1, <4>2, <4>3, <2>1
    <3>4. CASE e.at # "wait" /\ doing[w].at # "wait"
      <4>1. AsleepAmong(doing') = AsleepAmong(doing)
        BY <3>4, <1>3
      <4> QED BY <4>1, <3>4, <2>1
    <3> QED BY <3>1, <3>2, <3>3, <3>4
  <2>3. signalled' \subseteq AsleepAmong(doing')
    BY <1>3 DEF ParkedInv
  <2> QED BY <2>2, <2>3 DEF ParkedInv
<1>5. \A v \in PoolWorkers, sh \in ReadyShards : Draining(v, sh)' => Draining(v, sh)
  BY <1>0, <1>2 DEF Draining, PoolThreads
<1>6. ReadyOnce'
  BY <1>5 DEF ReadyOnce
<1>7. ReadyIsAttended'
  BY DEF ReadyIsAttended
<1>8. StopIsHeard'
  BY <1>0, <1>2, <1>3, ParkingAssumption DEF StopIsHeard, NoWakeUpIsLost, PoolThreads
<1> QED BY <1>1, <1>4, <1>6, <1>7, <1>8 DEF NoWakeUpIsLost

LEMMA WorkerKeeps ==
    ASSUME ParkingInv, NEW w \in PoolWorkers,
           SpinSees(w) \/ SpinTakes(w) \/ SpinEnds(w) \/ Park(w) \/ DrainEnds(w)
             \/ Wake(w) \/ WakeAlone(w)
    PROVE  ParkingInv'
<1> USE DEF ParkingInv
<1>0. /\ w \in PoolThreads /\ w \notin Publishers
      /\ w \in signalled => doing[w].at = "wait"
  BY ParkingAssumption DEF PoolThreads, ParkedInv, AsleepAmong
<1>1. ASSUME NEW e \in {[at |-> "look"], [at |-> "park"], Spinning},
             doing' = [doing EXCEPT ![w] = e], doing[w].at # "wait",
             UNCHANGED <<readyQueue, readyCount, parked, poolStop, signalled, drains>>
      PROVE  ParkingInv'
  <2>1. /\ e \in Spots /\ e.at \in {"look", "park", "spin"}
    BY DEF Spots, Spinning
  <2>2. doing'[w] = e
    BY <1>0, <1>1 DEF ParkingTypes
  <2>3. ReadyIsAttended'
    BY <1>0, <2>1, <2>2 DEF ReadyIsAttended, WillLook
  <2>4. signalled' = signalled /\ signalled \subseteq AsleepAmong(doing)
    BY <1>1 DEF ParkedInv
  <2> QED BY <1>0, <1>1, <2>1, <2>3, <2>4, ThreadGoesOn
<1>2. CASE SpinSees(w) \/ SpinEnds(w) \/ DrainEnds(w)
  BY <1>2, <1>1 DEF SpinSees, SpinEnds, DrainEnds, Doing
<1>3. CASE SpinTakes(w)
  <2>1. doing[w].at = "look" /\ signalled' = signalled \ {w}
        /\ UNCHANGED <<parked, poolStop, drains>>
    BY <1>3, <1>0 DEF SpinTakes, Doing
  <2>2. CASE readyQueue # <<>>
    <3>1. Take(w)
      BY <1>3, <2>2 DEF SpinTakes
    <3> QED BY <2>1, <2>2, <3>1, TakeKeeps
  <2>3. CASE readyQueue = <<>>
    BY <1>3, <2>1, <2>3, <1>1 DEF SpinTakes, Doing
  <2> QED BY <2>2, <2>3
<1>4. CASE Park(w)
  <2>1. doing[w].at = "park" /\ signalled' = signalled \ {w} /\ parked \in Nat
        /\ UNCHANGED <<poolStop, drains>>
    BY <1>4, <1>0, FS_CardinalityType DEF Park, Doing, ParkedInv
  <2>2. CASE readyQueue # <<>>
    <3>1. Take(w) /\ parked' = parked
      BY <1>4, <2>2 DEF Park, Leaves
    <3> QED BY <2>1, <2>2, <3>1, TakeKeeps
  <2>3. CASE readyQueue = <<>> /\ poolStop
    <3>1. doing' = [doing EXCEPT ![w] = [at |-> "gone"]]
          /\ UNCHANGED <<readyQueue, readyCount, parked>>
      BY <1>4, <2>3 DEF Park, Leaves
    <3> QED BY <2>1, <2>3, <3>1, EmptyHandedKeeps
  <2>4. CASE readyQueue = <<>> /\ ~poolStop
    <3>1. doing' = [doing EXCEPT ![w] = [at |-> "wait"]] /\ parked' = parked + 1
          /\ UNCHANGED <<readyQueue, readyCount>>
      BY <1>4, <2>4 DEF Park
    <3> QED BY <2>1, <2>4, <3>1, EmptyHandedKeeps
  <2> QED BY <2>2, <2>3, <2>4
<1>5. CASE ComesBack(w)
  <2>1. doing[w].at = "wait" /\ signalled' = signalled \ {w} /\ parked \in Nat
        /\ UNCHANGED <<poolStop, drains>>
    BY <1>5, FS_CardinalityType DEF ComesBack, Doing, ParkedInv
  <2>2. CASE readyQueue # <<>>
    <3>1. Take(w) /\ parked' = parked - 1
      BY <1>5, <2>2 DEF ComesBack, Leaves
    <3> QED BY <2>1, <2>2, <3>1, TakeKeeps
  <2>3. CASE readyQueue = <<>> /\ poolStop
    <3>1. doing' = [doing EXCEPT ![w] = [at |-> "gone"]] /\ parked' = parked - 1
          /\ UNCHANGED <<readyQueue, readyCount>>
      BY <1>5, <2>3 DEF ComesBack, Leaves
    <3> QED BY <2>1, <2>3, <3>1, EmptyHandedKeeps
  <2>4. CASE readyQueue = <<>> /\ ~poolStop
    <3>1. UNCHANGED <<doing, readyQueue, readyCount, parked>>
      BY <1>5, <2>4 DEF ComesBack
    <3>2. doing[w] = [at |-> "wait"]
      BY <2>1, <1>0 DEF ParkingTypes, Spots
    <3>3. doing' = [doing EXCEPT ![w] = [at |-> "wait"]]
      BY <3>1, <3>2, <1>0 DEF ParkingTypes
    <3> QED BY <2>1, <2>4, <3>1, <3>3, EmptyHandedKeeps
  <2> QED BY <2>2, <2>3, <2>4
<1> QED BY <1>2, <1>3, <1>4, <1>5 DEF Wake, WakeAlone

LEMMA ParkingInvHolds == ParkingSafety => []ParkingInv
<1>1. ParkingInit => ParkingInv
  <2> SUFFICES ASSUME ParkingInit PROVE ParkingInv OBVIOUS
  <2>1. \A t \in PoolThreads : doing[t] = After(t)
    BY DEF ParkingInit, PoolThreads
  <2>2. \A t \in PoolThreads :
          doing[t] = IF t \in Publishers THEN [at |-> "away"] ELSE [at |-> "spin"]
    BY <2>1 DEF After, Away, Spinning
  <2>3. ParkingTypes
    <3>1. \A t \in PoolThreads : After(t) \in Spots
      BY DEF After, Away, Spinning, Spots
    <3>2. doing \in [PoolThreads -> Spots]
      BY <3>1 DEF ParkingInit, PoolThreads
    <3>3. \A p \in Publishers : doing[p].at \in {"away", "pushed"}
      BY <2>2 DEF PoolThreads
    <3>4. \A w \in PoolWorkers : doing[w].at = "spin"
      BY <2>2, ParkingAssumption DEF PoolThreads
    <3>5. readyQueue \in Seq(ReadyShards) /\ readyCount = Len(readyQueue)
      BY EmptySeq DEF ParkingInit
    <3>6. poolStop \in BOOLEAN
      BY Zenon DEF ParkingInit
    <3>7. drains \in [ReadyShards -> Nat]
      BY DEF ParkingInit
    <3> QED BY <3>2, <3>3, <3>4, <3>5, <3>6, <3>7 DEF ParkingTypes
  <2>4. AsleepAmong(doing) = {}
    BY <2>2 DEF AsleepAmong, PoolThreads
  <2>5. ParkedInv
    BY <2>4, FS_EmptySet DEF ParkingInit, ParkedInv
  <2>6. ReadyOnce
    <3>1. \A w \in PoolWorkers : doing[w].at = "spin"
      BY <2>2, ParkingAssumption DEF PoolThreads
    <3>2. \A w \in PoolWorkers, sh \in ReadyShards : ~Draining(w, sh)
      BY <3>1 DEF Draining
    <3> QED BY <3>2 DEF ParkingInit, ReadyOnce
  <2>7. NoWakeUpIsLost
    <3>1. \A w \in PoolWorkers : doing[w].at = "spin"
      BY <2>2, ParkingAssumption DEF PoolThreads
    <3> QED BY <3>1 DEF ParkingInit, NoWakeUpIsLost, ReadyIsAttended, StopIsHeard
  <2> QED BY <2>3, <2>5, <2>6, <2>7 DEF ParkingInv
<1>2. ASSUME ParkingInv, [ParkingNext]_parkingVars
      PROVE  ParkingInv'
  <2>1. CASE StopPool
    <3> USE <1>2, <2>1 DEF ParkingInv, StopPool
    <3>1. ParkingTypes'
      BY DEF ParkingTypes
    <3>2. signalled \subseteq signalled' /\ signalled' = AsleepAmong(doing)
      BY DEF ParkedInv, AsleepAmong, Waiting, Doing
    <3>3. ParkedInv'
      BY <3>2 DEF ParkedInv
    <3>4. ReadyOnce'
      BY DEF ReadyOnce, Draining
    <3>5. ReadyIsAttended'
      BY <3>2 DEF NoWakeUpIsLost, ReadyIsAttended, WillLook
    <3>6. StopIsHeard'
      BY <3>2 DEF NoWakeUpIsLost, StopIsHeard, Doing
    <3> QED BY <3>1, <3>3, <3>4, <3>5, <3>6 DEF NoWakeUpIsLost
  <2>2. CASE UNCHANGED parkingVars
    BY <1>2, <2>2
    DEF parkingVars, ParkingInv, ParkingTypes, ParkedInv, ReadyOnce, Draining, NoWakeUpIsLost,
        ReadyIsAttended, StopIsHeard, WillLook
  <2> QED BY <1>2, <2>1, <2>2, EnqueuePushKeeps, EnqueueNotifyKeeps, WorkerKeeps
          DEF ParkingNext, PoolWorker, PoolThreads
<1> QED BY <1>1, <1>2, PTL DEF ParkingSafety

(* No wake-up is lost between "seen empty" and "asleep", nor to a worker that took the
   shard first, and the stop reaches every worker: the safety behind ReadyShardIsDrained.
   (enqueueReady, workerLoop, ~RoomRegistry) *)
THEOREM NobodySleepsOverWork == ParkingSafety => []NoWakeUpIsLost
BY ParkingInvHolds, PTL DEF ParkingInv

(* The types of WorkerParking: readyCount_ and parked_ say what is there.  (workerLoop) *)
THEOREM ParkingTypesKept == ParkingSafety => []ParkingTypeOK
<1>1. ParkingInv => ParkingTypeOK
  <2> SUFFICES ASSUME ParkingInv PROVE ParkingTypeOK OBVIOUS
  <2>1. readyQueue \in Seq(ReadyShards) /\ readyCount = Len(readyQueue)
    BY DEF ParkingInv, ParkingTypes
  <2>2. Range(readyQueue) \subseteq ReadyShards
    BY <2>1 DEF Range
  <2>3. AsleepAmong(doing) = {w \in PoolWorkers : Doing(w, "wait")}
    BY DEF AsleepAmong, Doing
  <2> QED BY <2>1, <2>2, <2>3 DEF ParkingInv, ParkedInv, ParkingTypeOK
<1> QED BY <1>1, ParkingInvHolds, PTL

(***************************************************************************)
(* A rate-limited line (LogLimiter).                                       *)
(***************************************************************************)

Occupied(l) == {t \in Loggers : l[t].at # "away"}
LogSpots == [at : {"away", "refused", "allowed"}]
            \cup [at : {"clock"}, now : 0 .. MaxLogTime]
            \cup [at : {"race"}, now : 0 .. MaxLogTime, last : 0 .. MaxLogTime]

LimiterTypes ==
    /\ logTime \in 0 .. MaxLogTime /\ lastLine \in 0 .. MaxLogTime
    /\ suppressed \in Nat /\ flushing \in Nat /\ reported \in Nat /\ occurrences \in Nat
    /\ logging \in [Loggers -> LogSpots]

(* Every occurrence is at one place: reported, counted as suppressed, in the timer's
   hands, or with the thread that is still in allow().  The safety behind
   EveryOccurrenceReported.  (RateLimiter, flushRateLimiterTails) *)
EveryOccurrenceCounted ==
    /\ IsFiniteSet(Occupied(logging))
    /\ occurrences = reported + suppressed + flushing + Cardinality(Occupied(logging))

LimiterInv == LimiterTypes /\ EveryOccurrenceCounted

LEMMA LimiterInvHolds == LimiterSafety => []LimiterInv
<1>1. LimiterInit => LimiterInv
  <2> SUFFICES ASSUME LimiterInit PROVE LimiterInv OBVIOUS
  <2>1. LimiterTypes
    BY LimiterAssumption DEF LimiterInit, LimiterTypes, LogSpots, NotLogging
  <2>2. Occupied(logging) = {}
    BY DEF LimiterInit, Occupied, NotLogging
  <2> QED BY <2>1, <2>2, FS_EmptySet DEF LimiterInit, LimiterInv, EveryOccurrenceCounted
<1>2. ASSUME LimiterInv, [LimiterNext]_limiterVars
      PROVE  LimiterInv'
  <2> USE <1>2, LimiterAssumption DEF LimiterInv
  <2>0. Cardinality(Occupied(logging)) \in Nat
    BY FS_CardinalityType DEF EveryOccurrenceCounted
  <2>1. ASSUME Occupied(logging') = Occupied(logging),
               UNCHANGED occurrences,
               reported' + suppressed' + flushing' = reported + suppressed + flushing
        PROVE  EveryOccurrenceCounted'
    BY <2>1 DEF EveryOccurrenceCounted
  <2>2. ASSUME LogTick \/ UNCHANGED limiterVars PROVE LimiterInv'
    <3>1. LimiterTypes'
      BY <2>2 DEF LimiterTypes, LogTick, limiterVars
    <3>2. EveryOccurrenceCounted'
      BY <2>2, <2>1 DEF LogTick, limiterVars
    <3> QED BY <3>1, <3>2
  <2>3. ASSUME FlushTails PROVE LimiterInv'
    <3>1. LimiterTypes'
      BY <2>3 DEF LimiterTypes, FlushTails, FlushTakes, FlushWrites
    <3>2. EveryOccurrenceCounted'
      BY <2>3, <2>1 DEF LimiterTypes, FlushTails, FlushTakes, FlushWrites
    <3> QED BY <3>1, <3>2
  <2>4. ASSUME NEW t \in Loggers, AllowReadsClock(t) PROVE LimiterInv'
    <3>1. LimiterTypes'
      BY <2>4 DEF LimiterTypes, LogSpots, AllowReadsClock, NotLogging
    <3>2. Occupied(logging') = Occupied(logging) \cup {t} /\ t \notin Occupied(logging)
      BY <2>4 DEF Occupied, LimiterTypes, AllowReadsClock, NotLogging
    <3>3. IsFiniteSet(Occupied(logging'))
          /\ Cardinality(Occupied(logging')) = Cardinality(Occupied(logging)) + 1
      BY <3>2, FS_AddElement DEF EveryOccurrenceCounted
    <3>4. EveryOccurrenceCounted'
      BY <3>3, <2>4, <2>0 DEF EveryOccurrenceCounted, LimiterTypes, AllowReadsClock
    <3> QED BY <3>1, <3>4
  <2>5. ASSUME NEW t \in Loggers, AllowReadsLast(t) \/ Race(t) PROVE LimiterInv'
    <3>0. logging[t] \in LogSpots
      BY DEF LimiterTypes
    <3>1. LimiterTypes'
      BY <2>5, <3>0 DEF LimiterTypes, LogSpots, AllowReadsLast, Race
    <3>2. Occupied(logging') = Occupied(logging)
      BY <2>5 DEF Occupied, LimiterTypes, AllowReadsLast, Race
    <3>3. EveryOccurrenceCounted'
      BY <3>2, <2>5, <2>1 DEF AllowReadsLast, Race
    <3> QED BY <3>1, <3>3
  <2>6. ASSUME NEW t \in Loggers, Refused(t) \/ WriteLine(t) PROVE LimiterInv'
    <3>1. LimiterTypes'
      BY <2>6 DEF LimiterTypes, LogSpots, Refused, WriteLine, NotLogging
    <3>2. Occupied(logging') = Occupied(logging) \ {t} /\ t \in Occupied(logging)
      BY <2>6 DEF Occupied, LimiterTypes, Refused, WriteLine, NotLogging
    <3>3. IsFiniteSet(Occupied(logging'))
          /\ Cardinality(Occupied(logging')) = Cardinality(Occupied(logging)) - 1
      BY <3>2, FS_RemoveElement DEF EveryOccurrenceCounted
    <3>4. EveryOccurrenceCounted'
      BY <3>3, <2>6, <2>0 DEF EveryOccurrenceCounted, LimiterTypes, Refused, WriteLine
    <3> QED BY <3>1, <3>4
  <2> QED BY <2>2, <2>3, <2>4, <2>5, <2>6 DEF LimiterNext, Allow
<1> QED BY <1>1, <1>2, PTL DEF LimiterSafety

(* No occurrence is lost between the threads that race, the suppressed count and the
   timer, and none is reported twice.  (RateLimiter::allow, takeSuppressed) *)
THEOREM NoOccurrenceIsLost == LimiterSafety => []EveryOccurrenceCounted
BY LimiterInvHolds, PTL DEF LimiterInv

(* The types of LogLimiter.  (RateLimitedLog.h) *)
THEOREM LimiterTypesKept == LimiterSafety => []LimiterTypeOK
<1>1. LimiterInv => LimiterTypeOK
  BY FS_CardinalityType DEF LimiterInv, LimiterTypes, EveryOccurrenceCounted, LimiterTypeOK
<1> QED BY <1>1, LimiterInvHolds, PTL

(***************************************************************************)
(* The verdict on the bus (BusProbe).                                      *)
(***************************************************************************)

Fresh == echoAge <= DeadRounds
FlagsInv ==
    /\ stage \in {"new", "standalone", "subscribed"}
    /\ busReady \in BOOLEAN /\ linkUp \in BOOLEAN
    /\ stage = "new" => echoAge = Never /\ ~busReady
    /\ linkUp => outage = 0
    /\ busReady => stage = "subscribed" /\ Fresh

(* Since no echo comes while the link is down, the last one is at least as old as the
   outage. *)
AgesInv ==
    /\ echoAge \in Never .. DeadRounds + 1
    /\ probesOut \in 0 .. MaxProbesOut /\ outage \in 0 .. MaxOutage
    /\ echoAge # Never => outage <= echoAge \/ echoAge = DeadRounds + 1

ProbeInv == FlagsInv /\ AgesInv

LEMMA ProbeInvHolds == ProbeSafety => []ProbeInv
<1> USE ProbeAssumption
<1>1. ProbeInit => ProbeInv
  <2> SUFFICES ASSUME ProbeInit PROVE ProbeInv OBVIOUS
  <2>1. FlagsInv BY Zenon DEF ProbeInit, FlagsInv
  <2>2. AgesInv BY DEF ProbeInit, AgesInv, Never
  <2> QED BY <2>1, <2>2 DEF ProbeInv
<1>2. ASSUME ProbeInv, [ProbeNext]_probeVars
      PROVE  ProbeInv'
  <2> USE <1>2 DEF ProbeInv
  <2>1. CASE BusStarts \/ BusStartFails \/ UNCHANGED probeVars
    <3>0. echoAge = Never => Fresh
      BY DEF Fresh, Never
    <3>1. AgesInv' /\ (Fresh' <=> Fresh)
      BY <2>1 DEF AgesInv, Fresh, BusStarts, BusStartFails, probeVars
    <3>2. CASE BusStarts
      <4>1. /\ stage = "new" /\ stage' = "subscribed" /\ busReady' = TRUE
            /\ UNCHANGED <<echoAge, linkUp, outage>>
        BY <3>2, Zenon DEF BusStarts
      <4>2. stage' # "new"
        BY <4>1
      <4> QED BY <3>0, <3>1, <4>1, <4>2, Zenon DEF FlagsInv
    <3>3. CASE BusStartFails
      <4>1. /\ stage = "new" /\ stage' = "standalone"
            /\ UNCHANGED <<busReady, echoAge, linkUp, outage>>
        BY <3>3, Zenon DEF BusStartFails
      <4>2. stage' # "new"
        BY <4>1
      <4> QED BY <3>1, <4>1, <4>2, Zenon DEF FlagsInv
    <3>4. CASE UNCHANGED probeVars
      <4>1. UNCHANGED <<stage, busReady, echoAge, linkUp, outage>>
        BY <3>4, Zenon DEF probeVars
      <4> QED BY <3>1, <4>1, Zenon DEF FlagsInv
    <3> QED BY <2>1, <3>1, <3>2, <3>3, <3>4
  <2>2. CASE LinkDown \/ LinkUp
    <3>1. AgesInv' /\ (Fresh' <=> Fresh)
      BY <2>2 DEF AgesInv, Fresh, LinkDown, LinkUp
    <3>2. FlagsInv'
      <4>1. UNCHANGED <<stage, busReady, echoAge>> /\ linkUp' \in BOOLEAN /\ outage' = 0
        BY <2>2, Zenon DEF LinkDown, LinkUp
      <4> QED BY <3>1, <4>1, Zenon DEF FlagsInv
    <3> QED BY <3>1, <3>2
  <2>3. CASE Echo
    <3>1. echoAge' = 0 /\ Fresh'
      BY <2>3 DEF Fresh, Echo
    <3>2. FlagsInv'
      <4>1. stage = "subscribed" /\ linkUp /\ UNCHANGED <<stage, linkUp, outage>> /\ busReady' = TRUE
        BY <2>3, Zenon DEF Echo
      <4>2. (stage = "new")' <=> FALSE
        BY <4>1
      <4> QED BY <4>1, <4>2, <3>1, Zenon DEF FlagsInv
    <3>3. linkUp /\ outage = 0
      BY <2>3, Zenon DEF FlagsInv, Echo
    <3>4. AgesInv'
      BY <2>3, <3>3 DEF AgesInv, Echo, Never
    <3> QED BY <3>2, <3>4
  <2>4. CASE ProbeRound
    <3>1. probesOut' \in 0 .. MaxProbesOut
      BY <2>4 DEF ProbeRound, PublishProbe, AtMost, AgesInv
    <3>2. echoAge' \in Never .. DeadRounds + 1 /\ outage' \in 0 .. MaxOutage
      BY <2>4 DEF ProbeRound, Older, AtMost, AgesInv, Never
    <3>3. echoAge' # Never => outage' <= echoAge' \/ echoAge' = DeadRounds + 1
      BY <2>4 DEF ProbeRound, Older, AtMost, AgesInv, Never
    <3>4. ~Dead(echoAge') <=> Fresh'
      BY <3>2 DEF Dead, Fresh, Never
    <3>5. linkUp => outage' = 0
      BY <2>4, Zenon DEF ProbeRound
    <3>6. FlagsInv'
      BY <2>4, <3>4, <3>5, Zenon DEF ProbeRound, FlagsInv
    <3> QED BY <3>1, <3>2, <3>3, <3>6 DEF AgesInv
  <2> QED BY <2>1, <2>2, <2>3, <2>4 DEF ProbeNext
<1> QED BY <1>1, <1>2, PTL DEF ProbeSafety

(* The verdict on a dead bus comes in time, whatever was still under way: the safety half
   of BusJudged.  (probeClusterBus, clusterBusReady) *)
THEOREM FakeAcksAreBounded == ProbeSafety => []FakeAcksBounded
<1>1. ProbeInv => FakeAcksBounded
  <2> SUFFICES ASSUME ProbeInv, busReady
               PROVE  stage = "subscribed" /\ (outage <= DeadRounds \/ echoAge = Never)
    BY DEF FakeAcksBounded
  <2>1. stage = "subscribed" /\ Fresh
    BY Zenon DEF ProbeInv, FlagsInv
  <2> QED BY <2>1, ProbeAssumption DEF ProbeInv, AgesInv, Fresh, Never
<1> QED BY <1>1, ProbeInvHolds, PTL

(* The types of BusProbe.  (initClusterBus) *)
THEOREM ProbeTypesKept == ProbeSafety => []ProbeTypeOK
<1>1. ProbeInv => ProbeTypeOK
  BY Zenon DEF ProbeInv, FlagsInv, AgesInv, ProbeTypeOK
<1> QED BY <1>1, ProbeInvHolds, PTL
=============================================================================

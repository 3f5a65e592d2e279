----------------------------- MODULE ChatProofs -----------------------------
(***************************************************************************)
(* What is proved of one message: the id it is given (MessageIds), its     *)
(* way through handleNewMessage (ChatMessages) and, when it is for one     *)
(* user, to all of his sessions (DirectDelivery).                          *)
(*                                                                         *)
(* Ids: what has to be added to IdsRise to make it inductive is that the   *)
(* packed state is never below an id that was given out (StateAhead), and  *)
(* that a thread that has read the clock in a life that was not overtaken  *)
(* has read one past all ids of earlier lives (ClockAhead).                *)
(* Messages: TruthInv says what has an id and what may have been left      *)
(* behind by it: an answer is true when it is given and stays true,        *)
(* because whoever was told no is finished and nobody gets its id again.   *)
(* OnceInv says where the accepted copy of a key is until the table knows  *)
(* of it, which is what makes the table's silence mean "never accepted".   *)
(* Direct messages: Share is what a caller holds quota for; CountsInv says *)
(* that its own books agree with it, so that a failed dispatch returns     *)
(* just that.  ServedInv says whom a caller has served when it is half     *)
(* way through the loops.                                                  *)
(***************************************************************************)
EXTENDS MessageIds, ChatMessages, DirectDelivery, TLAPS, FiniteSetTheorems, SequenceTheorems,
        FunctionTheorems, WellFoundedInduction

(***************************************************************************)
(* Ids (MessageIds, utils/SnowflakeId.h).                                  *)
(***************************************************************************)

CallTypeOK == calling \in
    [IdThreads -> {NotCalling} \cup [at : {"read"}, now : Nat]
                  \cup [at : {"swap"}, now : Nat, old : Nat]]

IdsTypes ==
    /\ clock \in 0 .. MaxClock /\ idState \in Nat /\ issued \in Seq(Nat)
    /\ earlierIds \subseteq Nat /\ overtaken \in BOOLEAN
    /\ CallTypeOK

StateAhead == \A n \in DOMAIN issued : issued[n] <= idState

ClockAhead == ~overtaken =>
    \A c \in IdThreads : calling[c] # NotCalling =>
        \A id \in earlierIds : calling[c].now > id \div SeqLimit

Rising == \A m, n \in DOMAIN issued : m < n => issued[m] < issued[n]
PastEarlier == ~overtaken => \A n \in DOMAIN issued : \A id \in earlierIds : issued[n] > id

IdsInv == IdsTypes /\ StateAhead /\ ClockAhead /\ Rising /\ PastEarlier

-----------------------------------------------------------------------------
(* Arithmetic of the packed state *)

\* A clock past the millisecond of an id is past the id, and a state whose
\* millisecond has reached the clock has reached the clock's first id.
LEMMA MillisecondOrder ==
    ASSUME NEW L \in Nat \ {0}, NEW id \in Nat, NEW now \in Nat
    PROVE  /\ now > id \div L => now * L > id
           /\ now <= id \div L => now * L <= id
<1> DEFINE q == id \div L
<1>1. q \in Nat /\ id = L * q + (id % L) /\ id % L \in 0 .. L - 1
  BY SMT
<1>2. ASSUME now > q PROVE now * L > id
  <2>1. now >= q + 1 BY <1>1, <1>2
  <2>2. now * L >= (q + 1) * L BY <2>1, <1>1, SMT
  <2> QED BY <2>2, <1>1, SMT
<1>3. ASSUME now <= q PROVE now * L <= id
  <2>1. now * L <= q * L BY <1>1, <1>3, SMT
  <2> QED BY <2>1, <1>1, SMT
<1> QED BY <1>2, <1>3

LEMMA MillisecondIsNat ==
    ASSUME NEW L \in Nat \ {0}, NEW id \in Nat
    PROVE  id \div L \in Nat
BY SMT

\* The next state is a number past the state it replaces, and past every id that
\* lies before the millisecond the caller has read.
LEMMA NextStateRises ==
    ASSUME NEW old \in Nat, NEW now \in Nat
    PROVE  /\ NextState(old, now) \in Nat /\ NextState(old, now) > old
           /\ \A id \in Nat : now > id \div SeqLimit => NextState(old, now) > id
<1>1. SeqLimit \in Nat \ {0} BY IdsAssumption
<1>2. CASE now > old \div SeqLimit
  <2>1. NextState(old, now) = now * SeqLimit BY <1>2 DEF NextState
  <2>2. now * SeqLimit \in Nat BY <1>1, SMT
  <2> QED BY <2>1, <2>2, <1>1, <1>2, MillisecondOrder
<1>3. CASE ~(now > old \div SeqLimit)
  <2>1. NextState(old, now) = old + 1 BY <1>3 DEF NextState
  <2>2. old \div SeqLimit \in Nat /\ now <= old \div SeqLimit BY <1>1, <1>3, SMT
  <2>3. now * SeqLimit <= old BY <2>2, <1>1, MillisecondOrder
  <2>4. now * SeqLimit \in Nat BY <1>1, SMT
  <2>5. ASSUME NEW id \in Nat, now > id \div SeqLimit PROVE old + 1 > id
    <3>1. now * SeqLimit > id BY <2>5, <1>1, MillisecondOrder
    <3> QED BY <3>1, <2>3, <2>4
  <2> QED BY <2>1, <2>5
<1> QED BY <1>2, <1>3

-----------------------------------------------------------------------------
(* The invariant *)

LEMMA IdsInitHolds == IdsInit => IdsInv
<1> SUFFICES ASSUME IdsInit PROVE IdsInv OBVIOUS
<1>1. clock \in Nat BY IdsAssumption DEF IdsInit
<1>2. issued = <<>> /\ DOMAIN issued = {} /\ issued \in Seq(Nat) BY DEF IdsInit
<1>3. IdsTypes BY <1>1, <1>2 DEF IdsInit, IdsTypes, CallTypeOK
<1> QED BY <1>2, <1>3 DEF IdsInit, IdsInv, StateAhead, ClockAhead, Rising, PastEarlier

LEMMA ClockSetKeeps ==
    ASSUME IdsInv, NEW t \in 0 .. MaxClock, ClockSet(t)
    PROVE  IdsInv'
<1>1. t \in Nat BY IdsAssumption
<1> QED BY <1>1 DEF ClockSet, IdsInv, IdsTypes, CallTypeOK, StateAhead, ClockAhead, Rising,
                    PastEarlier

LEMMA ReadClockKeeps ==
    ASSUME IdsInv, NEW c \in IdThreads, ReadClock(c)
    PROVE  IdsInv'
<1> USE DEF IdsInv, IdsTypes, ReadClock
<1>1. calling' = [calling EXCEPT ![c] = [at |-> "read", now |-> clock]] OBVIOUS
<1>2. CallTypeOK' BY <1>1 DEF CallTypeOK
<1>3. IdsTypes' BY <1>2
<1>4. StateAhead' /\ Rising' BY DEF StateAhead, Rising
<1>5. ASSUME ~overtaken'
      PROVE  ~overtaken /\ \A id \in earlierIds : clock > id \div SeqLimit
  <2>1. ~overtaken /\ \A id \in earlierIds : ~(clock <= id \div SeqLimit) BY <1>5
  <2>2. ASSUME NEW id \in earlierIds PROVE clock > id \div SeqLimit
    <3>1. id \in Nat /\ SeqLimit \in Nat \ {0} /\ clock \in Nat BY IdsAssumption
    <3>2. id \div SeqLimit \in Nat BY <3>1, MillisecondIsNat
    <3> QED BY <3>1, <3>2, <2>1
  <2> QED BY <2>1, <2>2
<1>6. PastEarlier' BY <1>5 DEF PastEarlier
<1>7. ClockAhead'
  <2> SUFFICES ASSUME ~overtaken', NEW d \in IdThreads, calling'[d] # NotCalling,
                      NEW id \in earlierIds
               PROVE  calling'[d].now > id \div SeqLimit
    BY DEF ClockAhead
  <2>1. CASE d = c
    <3>1. calling'[c].now = clock BY <1>1 DEF CallTypeOK
    <3> QED BY <3>1, <2>1, <1>5
  <2>2. CASE d # c
    <3>1. calling'[d] = calling[d] BY <1>1, <2>2 DEF CallTypeOK
    <3> QED BY <3>1, <1>5 DEF ClockAhead
  <2> QED BY <2>1, <2>2
<1> QED BY <1>3, <1>4, <1>6, <1>7

LEMMA ReadStateKeeps ==
    ASSUME IdsInv, NEW c \in IdThreads, ReadState(c)
    PROVE  IdsInv'
<1> USE DEF IdsInv, IdsTypes
<1>1. calling[c] \in [at : {"read"}, now : Nat]
  BY DEF ReadState, CallTypeOK, NotCalling
<1>2. calling' = [calling EXCEPT ![c] =
                    [at |-> "swap", now |-> calling[c].now, old |-> idState]]
  BY DEF ReadState
<1>3. calling[c] # NotCalling BY <1>1 DEF NotCalling
<1>4. CallTypeOK' BY <1>1, <1>2 DEF CallTypeOK, ReadState
<1>5. \A d \in IdThreads : calling'[d] # NotCalling =>
        calling[d] # NotCalling /\ calling'[d].now = calling[d].now
  BY <1>2, <1>3 DEF CallTypeOK
<1>6. ClockAhead' BY <1>5 DEF ClockAhead, ReadState
<1> QED BY <1>4, <1>6 DEF ReadState, StateAhead, Rising, PastEarlier

LEMMA SwapKeeps ==
    ASSUME IdsInv, NEW c \in IdThreads, Swap(c)
    PROVE  IdsInv'
<1> USE DEF IdsInv, IdsTypes
<1>1. calling[c] \in [at : {"swap"}, now : Nat, old : Nat]
  BY DEF Swap, CallTypeOK, NotCalling
<1>2. calling[c] # NotCalling BY <1>1 DEF NotCalling
<1>3. clock' = clock /\ earlierIds' = earlierIds /\ overtaken' = overtaken BY DEF Swap
<1>4. CASE /\ calling[c].old = idState
           /\ idState' = NextState(idState, calling[c].now)
           /\ issued' = Append(issued, idState')
           /\ calling' = [calling EXCEPT ![c] = NotCalling]
  <2> DEFINE new == NextState(idState, calling[c].now)
  <2>1. new \in Nat /\ new > idState BY <1>1, NextStateRises
  <2>2. /\ DOMAIN issued' = DOMAIN issued \cup {Len(issued) + 1}
        /\ issued'[Len(issued) + 1] = new /\ Len(issued) \in Nat
        /\ \A n \in DOMAIN issued : issued'[n] = issued[n] /\ n <= Len(issued) /\ n \in Nat
    BY <1>4
  <2>3. issued' \in Seq(Nat) BY <1>4, <2>1
  <2>4. CallTypeOK' BY <1>4 DEF CallTypeOK
  <2>5. IdsTypes' BY <1>3, <1>4, <2>1, <2>3, <2>4
  <2>6. StateAhead'
    <3>1. \A n \in DOMAIN issued : issued[n] \in Nat /\ issued[n] <= idState BY DEF StateAhead
    <3> QED BY <3>1, <2>1, <2>2, <1>4 DEF StateAhead
  <2>7. Rising'
    <3>1. \A n \in DOMAIN issued : issued[n] \in Nat /\ issued[n] < new
      BY <2>1 DEF StateAhead
    <3> SUFFICES ASSUME NEW m \in DOMAIN issued', NEW n \in DOMAIN issued', m < n
                 PROVE  issued'[m] < issued'[n]
      BY DEF Rising
    <3>2. m \in DOMAIN issued BY <2>2
    <3>3. CASE n \in DOMAIN issued BY <3>2, <3>3, <2>2 DEF Rising
    <3>4. CASE n = Len(issued) + 1 BY <3>1, <3>2, <3>4, <2>2
    <3> QED BY <3>3, <3>4, <2>2
  <2>8. \A d \in IdThreads : calling'[d] # NotCalling => calling'[d] = calling[d]
    BY <1>4 DEF CallTypeOK
  <2>9. ClockAhead'
    <3>1. \A d \in IdThreads : calling'[d] # NotCalling => calling[d] # NotCalling BY <2>8
    <3> QED BY <1>3, <2>8, <3>1 DEF ClockAhead
  <2>10. PastEarlier'
    <3> SUFFICES ASSUME ~overtaken, NEW n \in DOMAIN issued', NEW id \in earlierIds
                 PROVE  issued'[n] > id
      BY <1>3 DEF PastEarlier
    <3>1. CASE n \in DOMAIN issued BY <3>1, <2>2 DEF PastEarlier
    <3>2. CASE n = Len(issued) + 1
      <4>1. calling[c].now > id \div SeqLimit BY <1>2 DEF ClockAhead
      <4>2. new > id BY <4>1, <1>1, NextStateRises
      <4> QED BY <4>2, <3>2, <2>2
    <3> QED BY <3>1, <3>2, <2>2
  <2> QED BY <2>5, <2>6, <2>7, <2>9, <2>10
<1>5. CASE /\ calling' = [calling EXCEPT ![c].old = idState]
           /\ UNCHANGED <<idState, issued>>
  <2>1. calling'[c] \in [at : {"swap"}, now : Nat, old : Nat] /\ calling'[c].now = calling[c].now
    BY <1>1, <1>5 DEF CallTypeOK
  <2>2. \A d \in IdThreads : d # c => calling'[d] = calling[d] BY <1>5 DEF CallTypeOK
  <2>3. CallTypeOK' BY <2>1, <2>2, <1>5 DEF CallTypeOK
  <2>4. ClockAhead' BY <2>1, <2>2, <1>2, <1>3 DEF ClockAhead
  <2> QED BY <2>3, <2>4, <1>3, <1>5 DEF StateAhead, Rising, PastEarlier
<1> QED BY <1>4, <1>5 DEF Swap

LEMMA RestartProcessKeeps == IdsInv /\ RestartProcess => IdsInv'
<1> SUFFICES ASSUME IdsInv, RestartProcess PROVE IdsInv' OBVIOUS
<1>1. issued' = <<>> /\ DOMAIN issued' = {} /\ issued' \in Seq(Nat) BY DEF RestartProcess
<1>2. earlierIds' \subseteq Nat
  <2>1. ToSet(issued) \subseteq Nat BY DEF IdsInv, IdsTypes, ToSet
  <2> QED BY <2>1 DEF IdsInv, IdsTypes, RestartProcess
<1>3. calling' = [c \in IdThreads |-> NotCalling] /\ idState' = 0 BY DEF RestartProcess
<1>4. IdsTypes' BY <1>1, <1>2, <1>3 DEF IdsInv, IdsTypes, CallTypeOK, RestartProcess
<1>5. ClockAhead' BY <1>3 DEF ClockAhead
<1> QED BY <1>1, <1>4, <1>5 DEF IdsInv, StateAhead, Rising, PastEarlier

LEMMA IdsStepKeeps == IdsInv /\ [IdsNext]_idVars => IdsInv'
<1> SUFFICES ASSUME IdsInv, [IdsNext]_idVars PROVE IdsInv' OBVIOUS
<1>1. CASE \E c \in IdThreads : ReadClock(c) \/ ReadState(c) \/ Swap(c)
  BY <1>1, ReadClockKeeps, ReadStateKeeps, SwapKeeps
<1>2. CASE \E t \in 0 .. MaxClock : ClockSet(t) BY <1>2, ClockSetKeeps
<1>3. CASE RestartProcess BY <1>3, RestartProcessKeeps
<1>4. CASE UNCHANGED idVars
  BY <1>4 DEF idVars, IdsInv, IdsTypes, CallTypeOK, StateAhead, ClockAhead, Rising, PastEarlier
<1> QED BY <1>1, <1>2, <1>3, <1>4 DEF IdsNext

-----------------------------------------------------------------------------

\* Whatever the clock does and however the threads race, the ids of a life rise
\* strictly; and no id of an earlier life comes again unless a life has read a clock
\* that was not past it (SnowflakeId::next).
THEOREM IdsAlwaysRise == IdsSpec => []IdsRise
<1>1. IdsInit => IdsInv BY IdsInitHolds
<1>2. IdsInv /\ [IdsNext]_idVars => IdsInv' BY IdsStepKeeps
<1>3. IdsInv => IdsRise
  <2> SUFFICES ASSUME IdsInv PROVE IdsRise OBVIOUS
  <2>1. ASSUME ~overtaken, NEW n \in DOMAIN issued PROVE issued[n] \notin earlierIds
    <3>1. issued[n] \in Nat BY DEF IdsInv, IdsTypes
    <3>2. \A id \in earlierIds : issued[n] > id BY <2>1 DEF IdsInv, PastEarlier
    <3> QED BY <3>1, <3>2
  <2> QED BY <2>1 DEF IdsInv, Rising, IdsRise
<1> QED BY <1>1, <1>2, <1>3, PTL DEF IdsSpec

\* The types of MessageIds (SnowflakeId::next).
THEOREM IdTypesKept == IdsSpec => []IdsTypeOK
<1>1. IdsInv => IdsTypeOK
  <2> SUFFICES ASSUME IdsInv PROVE IdsTypeOK OBVIOUS
  <2>1. \A n \in DOMAIN issued : issued[n] \in Nat
    BY DEF IdsInv, IdsTypes
  <2>2. overtaken \in BOOLEAN
    BY Zenon DEF IdsInv, IdsTypes
  <2>3. clock \in 0 .. MaxClock /\ idState \in Nat
    BY DEF IdsInv, IdsTypes
  <2> QED BY <2>1, <2>2, <2>3, Zenon DEF IdsTypeOK
<1> QED BY <1>1, IdsInitHolds, IdsStepKeeps, PTL DEF IdsSpec

(***************************************************************************)
(* Messages (ChatMessages, ChatWebsocket.cc handleNewMessage).             *)
(***************************************************************************)

(* A message on its way; an entry of the dedup table; an answer. *)
Busy == [at : {"deliver", "broadcast", "register", "answer"}, key : MsgKeys, id : MsgIds,
         seq : Nat]
Tabled == [id : MsgIds, seq : Nat, old : BOOLEAN]
Acks == [key : MsgKeys, id : MsgIds, code : Nat, ackId : Nat, ackSeq : Nat]

MsgTypes ==
    /\ serving \in [Handlers -> {NoMessage} \cup Busy]
    /\ IsFiniteSet(DOMAIN dedupSeen) /\ DOMAIN dedupSeen \subseteq MsgKeys
    /\ Cardinality(DOMAIN dedupSeen) <= MaxDedupEntries
    /\ dedupSeen \in [DOMAIN dedupSeen -> Tabled]
    /\ lastId \in 0 .. MaxMsgIds
    /\ roomOrder \in Seq(MsgIds) /\ archived \in Seq([id : MsgIds, seq : Nat])
    /\ onBus \subseteq MsgIds /\ excused \subseteq MsgKeys
    /\ accepted \subseteq [key : MsgKeys, id : MsgIds]
    /\ answers \subseteq Acks

(* h has a message; a number stands for the message in the room; what left something. *)
Serves(h) == ~At(h, "idle")
Numbered(order, seq, id) == seq # 0 => seq \in DOMAIN order /\ order[seq] = id
LeftIds == {id \in MsgIds : LeftBehind(id)}

(* Every id is given once, and what has an id was given it by nextMessageId. *)
IdsGiven ==
    /\ \A h \in Handlers : Serves(h) => serving[h].id <= lastId
    /\ \A g, h \in Handlers : Serves(g) /\ Serves(h) /\ serving[g].id = serving[h].id => g = h
    /\ \A id \in LeftIds : id <= lastId
    /\ \A a \in answers : a.id <= lastId

(* AckIsTrue of one answer. *)
AckTrue(a, taken, order, left) ==
    IF a.code = 200
      THEN [key |-> a.key, id |-> a.ackId] \in taken /\ Numbered(order, a.ackSeq, a.ackId)
      ELSE a.id \notin left
Honest == \A a \in answers : AckTrue(a, accepted, roomOrder, LeftIds)

(* A message leaves something behind only once it was accepted; whoever was told
   no is finished. *)
TrueSoFar ==
    /\ \A h \in Handlers : At(h, "deliver") => serving[h].id \notin LeftIds /\ serving[h].seq = 0
    /\ \A h \in Handlers : Serves(h) /\ ~At(h, "deliver") =>
            /\ [key |-> serving[h].key, id |-> serving[h].id] \in accepted
            /\ Numbered(roomOrder, serving[h].seq, serving[h].id)
    /\ \A k \in DOMAIN dedupSeen :
            /\ [key |-> k, id |-> dedupSeen[k].id] \in accepted
            /\ Numbered(roomOrder, dedupSeen[k].seq, dedupSeen[k].id)
    /\ \A a \in answers : a.code # 200 => \A h \in Handlers : Serves(h) => serving[h].id # a.id
    /\ Honest

TruthInv == MsgTypes /\ IdsGiven /\ TrueSoFar

-----------------------------------------------------------------------------
(* The records of a message, once for all proofs: what its fields are, and that a
   change of its stage or number leaves the others. *)
LEMMA MessagesAre ==
    ASSUME NEW m \in {NoMessage} \cup Busy
    PROVE  /\ m.at = "idle" <=> m = NoMessage
           /\ m.at # "idle" =>
                /\ m \in Busy /\ m.at \in {"deliver", "broadcast", "register", "answer"}
                /\ m.key \in MsgKeys /\ m.id \in MsgIds /\ m.seq \in Nat
  BY DEF Busy, NoMessage

(* A later stage of the same message. *)
LEMMA MessageGoesOn ==
    ASSUME NEW m \in Busy, NEW w \in {"broadcast", "register", "answer"}
    PROVE  /\ [m EXCEPT !.at = w] \in Busy /\ [m EXCEPT !.at = w].at = w
           /\ [m EXCEPT !.at = w].key = m.key /\ [m EXCEPT !.at = w].id = m.id
           /\ [m EXCEPT !.at = w].seq = m.seq
  BY DEF Busy

(* The room has numbered it. *)
LEMMA NumberedMessage ==
    ASSUME NEW m \in Busy, NEW n \in Nat
    PROVE  /\ [m EXCEPT !.at = "broadcast", !.seq = n] \in Busy
           /\ [m EXCEPT !.at = "broadcast", !.seq = n].at = "broadcast"
           /\ [m EXCEPT !.at = "broadcast", !.seq = n].key = m.key
           /\ [m EXCEPT !.at = "broadcast", !.seq = n].id = m.id
           /\ [m EXCEPT !.at = "broadcast", !.seq = n].seq = n
  BY DEF Busy

(* What an action of one handler may do: the message of h goes on, with its key and
   id, or ends. *)
GoesOn(h, m) ==
    /\ serving' = [serving EXCEPT ![h] = m]
    /\ \/ m = NoMessage
       \/ m \in Busy /\ m.key = serving[h].key /\ m.id = serving[h].id /\ m.at # "deliver"

(* Goes is such a step. *)
LEMMA WhereItGoes ==
    ASSUME MsgTypes, NEW h \in Handlers, Serves(h),
           NEW w \in {"broadcast", "register", "answer"}, Goes(h, w)
    PROVE  /\ GoesOn(h, [serving[h] EXCEPT !.at = w])
           /\ [serving[h] EXCEPT !.at = w].at = w
           /\ [serving[h] EXCEPT !.at = w].seq = serving[h].seq
<1>1. serving[h] \in {NoMessage} \cup Busy
  BY DEF MsgTypes
<1>2. serving' = [serving EXCEPT ![h] = [serving[h] EXCEPT !.at = w]]
  BY DEF Goes
<1> DEFINE m == serving[h]
           n == [m EXCEPT !.at = w]
<1>3. n \in Busy /\ n.at = w /\ n.key = m.key /\ n.id = m.id /\ n.seq = m.seq
  <2>1. m \in Busy
    BY <1>1, MessagesAre DEF Serves, At
  <2> HIDE DEF m
  <2> QED BY <2>1, MessageGoesOn
<1>4. serving' = [serving EXCEPT ![h] = n]
  BY <1>2
<1> HIDE DEF n
<1>5. GoesOn(h, n)
  BY <1>3, <1>4 DEF GoesOn
<1> QED BY <1>3, <1>5 DEF n

(* Whatever a handler does with its message, the answers stay true if the tables,
   the room and the new answer are. *)
Lawful(h, m) ==
    /\ GoesOn(h, m) /\ lastId' = lastId /\ accepted \subseteq accepted'
    /\ \A n \in DOMAIN roomOrder : n \in DOMAIN roomOrder' /\ roomOrder'[n] = roomOrder[n]
    /\ m # NoMessage => /\ [key |-> m.key, id |-> m.id] \in accepted'
                        /\ Numbered(roomOrder', m.seq, m.id)
    /\ LeftIds' \subseteq LeftIds \cup {serving[h].id}
    /\ \A k \in DOMAIN dedupSeen' :
            /\ [key |-> k, id |-> dedupSeen'[k].id] \in accepted'
            /\ Numbered(roomOrder', dedupSeen'[k].seq, dedupSeen'[k].id)
    /\ \A a \in answers' \ answers :
            /\ a.id <= lastId
            /\ IF a.code = 200
                 THEN /\ [key |-> a.key, id |-> a.ackId] \in accepted'
                      /\ Numbered(roomOrder', a.ackSeq, a.ackId)
                 ELSE a.id = serving[h].id /\ m = NoMessage /\ a.id \notin LeftIds'

(* A lawful step keeps TruthInv. *)
LEMMA StaysTrue ==
    ASSUME TruthInv, MsgTypes', NEW h \in Handlers, Serves(h), NEW m, Lawful(h, m)
    PROVE  IdsGiven' /\ TrueSoFar'
<1> USE DEF Lawful
<1>1. serving \in [Handlers -> {NoMessage} \cup Busy] /\ serving[h].id \in MsgIds
      /\ answers \subseteq Acks /\ lastId \in Nat
  <2>1. serving[h] \in {NoMessage} \cup Busy /\ lastId \in Nat /\ answers \subseteq Acks
    BY MessagesAssumption DEF TruthInv, MsgTypes
  <2> QED BY <2>1, MessagesAre DEF TruthInv, MsgTypes, Serves, At
<1>2. /\ \A g \in Handlers \ {h} : serving'[g] = serving[g]
      /\ serving'[h] = m
  BY <1>1 DEF GoesOn
<1>3. \/ m = NoMessage /\ m.at = "idle"
      \/ m \in Busy /\ m.at # "deliver" /\ m.at # "idle" /\ m.key = serving[h].key /\ m.id = serving[h].id
         /\ m # NoMessage
  BY MessagesAre DEF GoesOn
<1>4. \A g \in Handlers : Serves(g)' => Serves(g) /\ serving'[g].id = serving[g].id
  BY <1>2, <1>3 DEF Serves, At
<1>5. \A g \in Handlers \ {h} : Serves(g) => serving[g].id # serving[h].id
  BY DEF TruthInv, IdsGiven
<1>6. \A g \in Handlers : Serves(g) => serving[g].id \in MsgIds
  BY <1>1, MessagesAre DEF Serves, At
<1>7. \A a \in Acks : a.id \in MsgIds
  BY DEF Acks
<1>8. \A seq, id : Numbered(roomOrder, seq, id) => Numbered(roomOrder', seq, id)
  BY DEF Numbered
<1>9. IdsGiven'
  <2>1. \A g \in Handlers : Serves(g)' => serving'[g].id <= lastId'
    BY <1>4 DEF TruthInv, IdsGiven
  <2>2. \A g, i \in Handlers : Serves(g)' /\ Serves(i)' /\ serving'[g].id = serving'[i].id => g = i
    BY <1>4 DEF TruthInv, IdsGiven
  <2>3. \A id \in LeftIds' : id <= lastId'
    BY DEF TruthInv, IdsGiven
  <2>4. \A a \in answers' : a.id <= lastId'
    BY DEF TruthInv, IdsGiven
  <2> QED BY <2>1, <2>2, <2>3, <2>4 DEF IdsGiven
<1>10. \A g \in Handlers : At(g, "deliver")' => serving'[g].id \notin LeftIds' /\ serving'[g].seq = 0
  <2>1. ASSUME NEW g \in Handlers, At(g, "deliver")'
        PROVE  serving'[g].id \notin LeftIds' /\ serving'[g].seq = 0
    <3>1. g # h /\ serving'[g] = serving[g]
      BY <1>2, <1>3, <2>1 DEF At
    <3>2. At(g, "deliver") /\ Serves(g) /\ serving[g].id \in MsgIds
      BY <1>6, <2>1, <3>1 DEF At, Serves
    <3>3. serving[g].id \notin LeftIds /\ serving[g].seq = 0
      BY <3>2 DEF TruthInv, TrueSoFar
    <3>4. serving[g].id # serving[h].id
      BY <1>5, <3>1, <3>2
    <3> QED BY <3>1, <3>3, <3>4
  <2> QED BY <2>1
<1>11. \A g \in Handlers : Serves(g)' /\ ~At(g, "deliver")' =>
            /\ [key |-> serving'[g].key, id |-> serving'[g].id] \in accepted'
            /\ Numbered(roomOrder', serving'[g].seq, serving'[g].id)
  <2>1. ASSUME NEW g \in Handlers, Serves(g)', ~At(g, "deliver")'
        PROVE  /\ [key |-> serving'[g].key, id |-> serving'[g].id] \in accepted'
               /\ Numbered(roomOrder', serving'[g].seq, serving'[g].id)
    <3>1. CASE g = h
      BY <1>2, <1>3, <2>1, <3>1 DEF Serves, At, Numbered
    <3>2. CASE g # h
      <4>1. serving'[g] = serving[g] /\ Serves(g) /\ ~At(g, "deliver")
        BY <1>2, <2>1, <3>2 DEF Serves, At
      <4>2. [key |-> serving[g].key, id |-> serving[g].id] \in accepted
            /\ Numbered(roomOrder, serving[g].seq, serving[g].id)
        BY <4>1 DEF TruthInv, TrueSoFar
      <4> QED BY <4>1, <4>2 DEF Numbered
    <3> QED BY <3>1, <3>2
  <2> QED BY <2>1
<1>12. \A a \in answers' : a.code # 200 => \A g \in Handlers : Serves(g)' => serving'[g].id # a.id
  <2>1. ASSUME NEW a \in answers', a.code # 200, NEW g \in Handlers, Serves(g)'
        PROVE  serving'[g].id # a.id
    <3>1. CASE a \in answers
      BY <1>4, <2>1, <3>1 DEF TruthInv, TrueSoFar
    <3>2. CASE a \notin answers
      <4>1. a.id = serving[h].id /\ m = NoMessage
        BY <2>1, <3>2
      <4>2. g # h
        BY <1>2, <1>3, <2>1, <4>1 DEF Serves, At
      <4> QED BY <1>4, <1>5, <2>1, <4>1, <4>2
    <3> QED BY <3>1, <3>2
  <2> QED BY <2>1
<1>13. Honest'
  <2>1. ASSUME NEW a \in answers'
        PROVE  AckTrue(a, accepted', roomOrder', LeftIds')
    <3>1. CASE a \in answers
      <4>1. AckTrue(a, accepted, roomOrder, LeftIds)
        BY <3>1 DEF TruthInv, TrueSoFar, Honest
      <4>2. CASE a.code = 200
        BY <1>8, <4>1, <4>2 DEF AckTrue
      <4>3. CASE a.code # 200
        <5>1. a.id # serving[h].id
          BY <3>1, <4>3 DEF TruthInv, TrueSoFar
        <5>2. a.id \notin LeftIds
          BY <4>1, <4>3 DEF AckTrue
        <5> QED BY <4>3, <5>1, <5>2 DEF AckTrue
      <4> QED BY <4>2, <4>3
    <3>2. CASE a \notin answers
      BY <3>2 DEF AckTrue
    <3> QED BY <3>1, <3>2
  <2> QED BY <2>1 DEF Honest
<1> QED BY <1>9, <1>10, <1>11, <1>12, <1>13 DEF TrueSoFar

-----------------------------------------------------------------------------
(* A new id, then the table. *)
LEMMA LookupStep ==
    ASSUME TruthInv, NEW h \in Handlers, NEW k \in MsgKeys, Lookup(h, k)
    PROVE  TruthInv'
<1> DEFINE i == lastId + 1
           m == [at |-> "deliver", key |-> k, id |-> i, seq |-> 0]
<1>1. /\ At(h, "idle") /\ lastId < MaxMsgIds /\ lastId' = i
      /\ UNCHANGED <<roomOrder, archived, onBus, accepted>>
      /\ lastId \in 0 .. MaxMsgIds /\ MaxMsgIds \in Nat
  BY MessagesAssumption DEF Lookup, TruthInv, MsgTypes
<1>2. i \in MsgIds /\ i > lastId /\ i <= lastId' /\ lastId' \in 0 .. MaxMsgIds
  BY <1>1 DEF MsgIds
<1>3. /\ m \in Busy /\ m.at = "deliver" /\ m.key = k /\ m.id = i /\ m.seq = 0
  BY <1>2 DEF Busy
<1>4. i \notin LeftIds /\ \A a \in answers : a.id # i
  BY <1>1, <1>2 DEF TruthInv, IdsGiven, MsgIds, LeftIds, MsgTypes, Acks
<1>5. \A n, j \in Int : n <= j => n <= j + 1
  OBVIOUS
<1>6. CASE k \in DOMAIN dedupSeen
  <2> DEFINE e == dedupSeen[k]
             a == [key |-> k, id |-> i, code |-> 200, ackId |-> e.id, ackSeq |-> e.seq]
  <2>1. /\ dedupSeen' = [dedupSeen EXCEPT ![k].old = FALSE] /\ serving' = serving
        /\ excused' = excused /\ answers' = answers \cup {a}
    BY <1>6 DEF Lookup, SendAck, AckOf
  <2>2. e \in Tabled /\ dedupSeen \in [DOMAIN dedupSeen -> Tabled]
    BY <1>6 DEF TruthInv, MsgTypes
  <2>3. [e EXCEPT !.old = FALSE] \in Tabled /\ [e EXCEPT !.old = FALSE].id = e.id
        /\ [e EXCEPT !.old = FALSE].seq = e.seq
    BY <2>2 DEF Tabled
  <2>4. DOMAIN dedupSeen' = DOMAIN dedupSeen /\ dedupSeen' \in [DOMAIN dedupSeen -> Tabled]
        /\ \A x \in DOMAIN dedupSeen : dedupSeen'[x].id = dedupSeen[x].id
                                       /\ dedupSeen'[x].seq = dedupSeen[x].seq
    <3>1. dedupSeen' = [dedupSeen EXCEPT ![k] = [e EXCEPT !.old = FALSE]]
      BY <2>1
    <3> HIDE DEF e
    <3> QED BY <1>6, <2>2, <2>3, <3>1 DEF e
  <2>5. e.id \in MsgIds /\ e.seq \in Nat
    BY <2>2 DEF Tabled
  <2>6. a \in Acks /\ a.key = k /\ a.id = i /\ a.code = 200 /\ a.ackId = e.id /\ a.ackSeq = e.seq
    BY <1>2, <2>5 DEF Acks, MsgIds
  <2>7. [key |-> k, id |-> e.id] \in accepted /\ Numbered(roomOrder, e.seq, e.id)
    BY <1>6 DEF TruthInv, TrueSoFar
  <2> HIDE DEF a, e
  <2>8. MsgTypes'
    BY <1>1, <1>2, <2>1, <2>4, <2>6 DEF TruthInv, MsgTypes
  <2>9. LeftIds' = LeftIds
    BY <1>1, <2>4 DEF LeftIds, LeftBehind
  <2>10. IdsGiven'
    <3>1. \A g \in Handlers : Serves(g)' <=> Serves(g)
      BY <2>1 DEF Serves, At
    <3>2. \A g \in Handlers : Serves(g) => serving[g].id \in MsgIds
      BY MessagesAre DEF TruthInv, MsgTypes, Serves, At
    <3>3. \A g \in Handlers : Serves(g) => serving[g].id <= i
      BY <1>1, <1>5, <3>2 DEF TruthInv, IdsGiven, MsgIds
    <3>4. \A id \in LeftIds : id <= i
      BY <1>1, <1>5 DEF TruthInv, IdsGiven, MsgIds, LeftIds
    <3>5. \A b \in answers : b.id <= i
      BY <1>1, <1>5 DEF TruthInv, IdsGiven, MsgTypes, Acks, MsgIds
    <3> QED BY <1>1, <1>2, <2>1, <2>6, <2>9, <3>1, <3>3, <3>4, <3>5 DEF TruthInv, IdsGiven
  <2>11. TrueSoFar'
    <3>1. Honest'
      <4>1. ASSUME NEW b \in answers'
            PROVE  AckTrue(b, accepted', roomOrder', LeftIds')
        <5>1. CASE b = a
          BY <1>1, <2>6, <2>7, <5>1 DEF AckTrue
        <5>2. CASE b \in answers
          <6>1. AckTrue(b, accepted, roomOrder, LeftIds)
            BY <5>2 DEF TruthInv, TrueSoFar, Honest
          <6> QED BY <1>1, <2>9, <6>1
        <5> QED BY <2>1, <5>1, <5>2
      <4> QED BY <4>1 DEF Honest
    <3> QED BY <1>1, <2>1, <2>4, <2>6, <2>9, <3>1 DEF TruthInv, TrueSoFar, Serves, At
  <2> QED BY <2>8, <2>10, <2>11 DEF TruthInv
<1>7. CASE k \notin DOMAIN dedupSeen
  <2>1. /\ serving' = [serving EXCEPT ![h] = m] /\ excused' \in {excused, excused \cup {k}}
        /\ dedupSeen' = dedupSeen /\ answers' = answers
    BY <1>7 DEF Lookup
  <2> HIDE DEF m
  <2>2. /\ \A g \in Handlers \ {h} : serving'[g] = serving[g]
        /\ serving'[h] = m
        /\ serving \in [Handlers -> {NoMessage} \cup Busy]
    BY <2>1 DEF TruthInv, MsgTypes
  <2>3. MsgTypes'
    BY <1>1, <1>2, <1>3, <2>1, <2>2 DEF TruthInv, MsgTypes
  <2>4. LeftIds' = LeftIds
    BY <1>1, <2>1 DEF LeftIds, LeftBehind
  <2>5. \A g \in Handlers : Serves(g) => serving[g].id \in MsgIds /\ serving[g].id <= lastId
    BY <2>2, MessagesAre DEF TruthInv, MsgTypes, Serves, At, IdsGiven
  <2>6. \A g \in Handlers : Serves(g)' => serving'[g].id <= i
    BY <1>1, <1>2, <1>3, <1>5, <2>2, <2>5 DEF Serves, At, MsgIds
  <2>7. \A g, j \in Handlers : Serves(g)' /\ Serves(j)' /\ serving'[g].id = serving'[j].id => g = j
    <3>1. \A g \in Handlers \ {h} : Serves(g)' => Serves(g) /\ serving'[g].id # i
      BY <1>1, <1>2, <2>2, <2>5 DEF Serves, At, MsgIds
    <3> QED BY <1>3, <2>2, <3>1 DEF TruthInv, IdsGiven
  <2>8. IdsGiven'
    <3>1. \A id \in LeftIds : id <= i
      BY <1>1, <1>5 DEF TruthInv, IdsGiven, MsgIds, LeftIds
    <3>2. \A b \in answers : b.id <= i
      BY <1>1, <1>5 DEF TruthInv, IdsGiven, MsgTypes, Acks, MsgIds
    <3> QED BY <1>1, <2>1, <2>4, <2>6, <2>7, <3>1, <3>2 DEF IdsGiven
  <2>9. TrueSoFar'
    <3>1. Honest'
      BY <1>1, <2>1, <2>4 DEF TruthInv, TrueSoFar, Honest
    <3>2. \A g \in Handlers : At(g, "deliver")' => serving'[g].id \notin LeftIds' /\ serving'[g].seq = 0
      BY <1>3, <1>4, <2>2, <2>4 DEF TruthInv, TrueSoFar, At
    <3>3. \A g \in Handlers : Serves(g)' /\ ~At(g, "deliver")' =>
            /\ [key |-> serving'[g].key, id |-> serving'[g].id] \in accepted'
            /\ Numbered(roomOrder', serving'[g].seq, serving'[g].id)
      BY <1>1, <1>3, <2>2 DEF TruthInv, TrueSoFar, Serves, At
    <3>4. \A b \in answers' : b.code # 200 =>
              \A g \in Handlers : Serves(g)' => serving'[g].id # b.id
      BY <1>3, <1>4, <2>1, <2>2 DEF TruthInv, TrueSoFar, Serves, At
    <3> QED BY <1>1, <2>1, <3>1, <3>2, <3>3, <3>4 DEF TruthInv, TrueSoFar
  <2> QED BY <2>3, <2>8, <2>9 DEF TruthInv
<1> QED BY <1>6, <1>7

-----------------------------------------------------------------------------
(* What the handlers' steps have in common. *)
LEMMA ServingFacts ==
    ASSUME MsgTypes, NEW h \in Handlers, Serves(h)
    PROVE  /\ serving[h] \in Busy /\ serving[h].key \in MsgKeys /\ serving[h].id \in MsgIds
           /\ serving[h].seq \in Nat
           /\ [key |-> serving[h].key, id |-> serving[h].id] \in [key : MsgKeys, id : MsgIds]
<1>1. serving[h] \in Busy /\ serving[h].key \in MsgKeys /\ serving[h].id \in MsgIds
      /\ serving[h].seq \in Nat
  BY MessagesAre DEF MsgTypes, Serves, At
<1> QED BY <1>1

(* A handler that is done has no message. *)
LEMMA EndsIt ==
    ASSUME MsgTypes, NEW h \in Handlers, Ends(h)
    PROVE  GoesOn(h, NoMessage) /\ serving' \in [Handlers -> {NoMessage} \cup Busy]
  BY DEF Ends, GoesOn, MsgTypes

(* The record of an answer. *)
LEMMA AckTyped ==
    ASSUME NEW m \in Busy, NEW code \in Nat, NEW id \in Nat, NEW seq \in Nat
    PROVE  /\ AckOf(m, code, id, seq) \in Acks
           /\ AckOf(m, code, id, seq).key = m.key /\ AckOf(m, code, id, seq).id = m.id
           /\ AckOf(m, code, id, seq).code = code
           /\ AckOf(m, code, id, seq).ackId = id /\ AckOf(m, code, id, seq).ackSeq = seq
  BY DEF AckOf, Acks, Busy

(* The archive takes a message or does not. *)
LEMMA ArchiveKeeps ==
    ASSUME MsgTypes, NEW m \in Busy, NEW seq \in Nat, Archives(m, seq)
    PROVE  /\ archived' \in Seq([id : MsgIds, seq : Nat])
           /\ \A id : (\E n \in DOMAIN archived' : archived'[n].id = id) =>
                        (\E n \in DOMAIN archived : archived[n].id = id) \/ id = m.id
<1> DEFINE e == [id |-> m.id, seq |-> seq]
<1>1. e \in [id : MsgIds, seq : Nat] /\ e.id = m.id
  BY DEF Busy
<1>2. archived \in Seq([id : MsgIds, seq : Nat])
  BY DEF MsgTypes
<1>3. archived' = archived \/ archived' = Append(archived, e)
  BY DEF Archives
<1> HIDE DEF e
<1>4. CASE archived' = archived
  BY <1>2, <1>4
<1>5. CASE archived' = Append(archived, e)
  <2>1. /\ archived' \in Seq([id : MsgIds, seq : Nat])
        /\ DOMAIN archived' = 1 .. Len(archived) + 1 /\ DOMAIN archived = 1 .. Len(archived)
        /\ Len(archived) \in Nat
        /\ \A n \in 1 .. Len(archived) : archived'[n] = archived[n]
        /\ archived'[Len(archived) + 1] = e
    BY <1>1, <1>2, <1>5, AppendProperties
  <2>2. \A n \in 1 .. Len(archived) + 1 : n \in 1 .. Len(archived) \/ n = Len(archived) + 1
    BY <2>1
  <2> QED BY <1>1, <2>1, <2>2
<1> QED BY <1>3, <1>4, <1>5

(* What the dedup table says of a message stays true as it is filled and trimmed. *)
LEMMA TableStaysTrue ==
    ASSUME TruthInv, UNCHANGED dedupSeen, accepted \subseteq accepted',
           \A n \in DOMAIN roomOrder : n \in DOMAIN roomOrder' /\ roomOrder'[n] = roomOrder[n]
    PROVE  \A k \in DOMAIN dedupSeen' :
                /\ [key |-> k, id |-> dedupSeen'[k].id] \in accepted'
                /\ Numbered(roomOrder', dedupSeen'[k].seq, dedupSeen'[k].id)
  BY DEF TruthInv, TrueSoFar, Numbered

(* fanOutRoom accepts. *)
LEMMA RoomAcceptsStep ==
    ASSUME TruthInv, NEW h \in Handlers, RoomAccepts(h)
    PROVE  TruthInv'
<1> DEFINE m == serving[h]
           n == Len(roomOrder) + 1
           g == [m EXCEPT !.at = "broadcast", !.seq = n]
<1>1. /\ At(h, "deliver") /\ roomOrder' = Append(roomOrder, m.id) /\ Archives(m, n)
      /\ serving' = [serving EXCEPT ![h] = g]
      /\ accepted' = accepted \cup {[key |-> m.key, id |-> m.id]}
      /\ UNCHANGED <<dedupSeen, lastId, onBus, answers, excused>>
  BY DEF RoomAccepts, Accepts
<1>2. Serves(h) /\ MsgTypes
  BY <1>1 DEF TruthInv, Serves, At
<1>3. m \in Busy /\ m.key \in MsgKeys /\ m.id \in MsgIds
      /\ [key |-> m.key, id |-> m.id] \in [key : MsgKeys, id : MsgIds]
  BY <1>2, ServingFacts
<1>4. /\ roomOrder \in Seq(MsgIds) /\ n \in Nat /\ n \in DOMAIN roomOrder' /\ roomOrder'[n] = m.id
      /\ roomOrder' \in Seq(MsgIds)
      /\ \A x \in DOMAIN roomOrder : x \in DOMAIN roomOrder' /\ roomOrder'[x] = roomOrder[x]
      /\ Range(roomOrder') = Range(roomOrder) \cup {m.id}
  <2>1. roomOrder \in Seq(MsgIds)
    BY <1>2 DEF MsgTypes
  <2>2. /\ Len(roomOrder) \in Nat /\ DOMAIN roomOrder = 1 .. Len(roomOrder)
        /\ DOMAIN roomOrder' = 1 .. n /\ roomOrder' \in Seq(MsgIds)
        /\ \A x \in 1 .. Len(roomOrder) : roomOrder'[x] = roomOrder[x]
        /\ roomOrder'[n] = m.id
    BY <1>1, <1>3, <2>1, AppendProperties
  <2>3. 1 .. n = (1 .. Len(roomOrder)) \cup {n} /\ n \in Nat /\ n \in 1 .. n
    BY <2>2
  <2> HIDE DEF n, m
  <2> QED BY <2>1, <2>2, <2>3 DEF Range
<1>5. g \in Busy /\ g.at = "broadcast" /\ g.key = m.key /\ g.id = m.id /\ g.seq = n
  <2> HIDE DEF n, m
  <2> QED BY <1>3, <1>4, NumberedMessage DEF g
<1>6. archived' \in Seq([id : MsgIds, seq : Nat])
      /\ \A id : (\E x \in DOMAIN archived' : archived'[x].id = id) =>
                    (\E x \in DOMAIN archived : archived[x].id = id) \/ id = m.id
  <2> HIDE DEF n, m
  <2> QED BY <1>1, <1>2, <1>3, <1>4, ArchiveKeeps
<1>7. GoesOn(h, g)
  <2> HIDE DEF g
  <2> QED BY <1>1, <1>5 DEF GoesOn
<1>8. MsgTypes'
  <2>1. serving' \in [Handlers -> {NoMessage} \cup Busy]
    <3> HIDE DEF g
    <3> QED BY <1>1, <1>2, <1>5 DEF MsgTypes
  <2> HIDE DEF g, n
  <2> QED BY <1>1, <1>2, <1>3, <1>4, <1>6, <2>1 DEF MsgTypes
<1>9. LeftIds' \subseteq LeftIds \cup {m.id}
  <2> HIDE DEF m, n
  <2> QED BY <1>1, <1>4, <1>6 DEF LeftIds, LeftBehind
<1>10. [key |-> g.key, id |-> g.id] \in accepted' /\ Numbered(roomOrder', g.seq, g.id)
  <2> HIDE DEF g, n
  <2> QED BY <1>1, <1>4, <1>5 DEF Numbered
<1>11. \A k \in DOMAIN dedupSeen' :
                /\ [key |-> k, id |-> dedupSeen'[k].id] \in accepted'
                /\ Numbered(roomOrder', dedupSeen'[k].seq, dedupSeen'[k].id)
  BY <1>1, <1>4, TableStaysTrue
<1> HIDE DEF g, n
<1>12. Lawful(h, g)
  BY <1>1, <1>2, <1>4, <1>7, <1>8, <1>9, <1>10, <1>11 DEF Lawful
<1> QED BY <1>2, <1>8, <1>12, StaysTrue DEF TruthInv

(* Accepted without a number: an empty room, a user. *)
LEMMA AcceptsStep ==
    ASSUME TruthInv, NEW h \in Handlers, RoomEmpty(h) \/ DirectAccepts(h)
    PROVE  TruthInv'
<1> DEFINE m == serving[h]
           g == [m EXCEPT !.at = "register"]
<1>1. /\ At(h, "deliver") /\ Goes(h, "register")
      /\ accepted' = accepted \cup {[key |-> m.key, id |-> m.id]}
      /\ UNCHANGED <<dedupSeen, lastId, roomOrder, archived, onBus, answers, excused>>
  BY DEF RoomEmpty, DirectAccepts, Accepts
<1>2. Serves(h) /\ MsgTypes /\ m.seq = 0
  BY <1>1 DEF TruthInv, TrueSoFar, Serves, At
<1>3. m \in Busy /\ [key |-> m.key, id |-> m.id] \in [key : MsgKeys, id : MsgIds]
  BY <1>2, ServingFacts
<1>4. GoesOn(h, g) /\ g.seq = m.seq /\ g.key = m.key /\ g.id = m.id /\ g \in Busy
  <2>1. GoesOn(h, g) /\ g.seq = m.seq
    BY <1>1, <1>2, WhereItGoes
  <2> HIDE DEF m
  <2> QED BY <1>3, <2>1, MessageGoesOn
<1> HIDE DEF g
<1>5. MsgTypes'
  <2>1. serving' \in [Handlers -> {NoMessage} \cup Busy]
    BY <1>2, <1>4 DEF MsgTypes, GoesOn
  <2> QED BY <1>1, <1>2, <1>3, <2>1 DEF MsgTypes
<1>6. LeftIds' = LeftIds
  BY <1>1 DEF LeftIds, LeftBehind
<1>7. [key |-> g.key, id |-> g.id] \in accepted' /\ Numbered(roomOrder', g.seq, g.id)
  BY <1>1, <1>2, <1>4 DEF Numbered
<1>8. \A k \in DOMAIN dedupSeen' :
                /\ [key |-> k, id |-> dedupSeen'[k].id] \in accepted'
                /\ Numbered(roomOrder', dedupSeen'[k].seq, dedupSeen'[k].id)
  BY <1>1, TableStaysTrue
<1>12. Lawful(h, g)
  BY <1>1, <1>2, <1>4, <1>5, <1>6, <1>7, <1>8 DEF Lawful
<1> QED BY <1>2, <1>5, <1>12, StaysTrue DEF TruthInv

(* 503 and 404: nothing but the answer. *)
LEMMA RefusesStep ==
    ASSUME TruthInv, NEW h \in Handlers, RoomRefuses(h) \/ DirectRefused(h) \/ DirectAbsent(h)
    PROVE  TruthInv'
<1> DEFINE m == serving[h]
           g == NoMessage
<1>1. PICK code \in {503, 404} :
        /\ At(h, "deliver") /\ Ends(h) /\ answers' = answers \cup {AckOf(m, code, 0, 0)}
        /\ UNCHANGED <<dedupSeen, lastId, roomOrder, archived, onBus, accepted, excused>>
  BY DEF RoomRefuses, DirectRefused, DirectAbsent, SendAck
<1>2. Serves(h) /\ MsgTypes /\ m.id \notin LeftIds
  BY <1>1 DEF TruthInv, TrueSoFar, Serves, At
<1>3. m \in Busy
  BY <1>2, ServingFacts
<1> DEFINE a == AckOf(m, code, 0, 0)
<1>4. a \in Acks /\ a.id = m.id /\ a.code # 200
  <2>1. code \in Nat /\ code # 200 /\ 0 \in Nat
    OBVIOUS
  <2> HIDE DEF m
  <2>2. \A c \in Nat : /\ AckOf(m, c, 0, 0) \in Acks /\ AckOf(m, c, 0, 0).id = m.id
                       /\ AckOf(m, c, 0, 0).code = c
    BY <1>3, <2>1, AckTyped
  <2> QED BY <2>1, <2>2
<1> HIDE DEF a
<1>5. MsgTypes'
  BY <1>1, <1>2, <1>4, EndsIt DEF MsgTypes, a
<1>6. LeftIds' = LeftIds
  BY <1>1 DEF LeftIds, LeftBehind
<1>7. \A k \in DOMAIN dedupSeen' :
                /\ [key |-> k, id |-> dedupSeen'[k].id] \in accepted'
                /\ Numbered(roomOrder', dedupSeen'[k].seq, dedupSeen'[k].id)
  BY <1>1, TableStaysTrue
<1>8. m.id <= lastId
  BY <1>2 DEF TruthInv, IdsGiven
<1>9. GoesOn(h, g) /\ g = NoMessage
  BY <1>1, <1>2, EndsIt
<1>10. answers' = answers \cup {a}
  BY <1>1 DEF a
<1>11. \A b \in answers' \ answers :
         /\ b.id <= lastId
         /\ IF b.code = 200
              THEN /\ [key |-> b.key, id |-> b.ackId] \in accepted'
                   /\ Numbered(roomOrder', b.ackSeq, b.ackId)
              ELSE b.id = serving[h].id /\ g = NoMessage /\ b.id \notin LeftIds'
  <2>1. a.id = serving[h].id
    BY <1>4
  <2> HIDE DEF m
  <2> QED BY <1>2, <1>4, <1>6, <1>8, <1>10, <2>1
<1>12. /\ lastId' = lastId /\ accepted \subseteq accepted'
       /\ \A n \in DOMAIN roomOrder : n \in DOMAIN roomOrder' /\ roomOrder'[n] = roomOrder[n]
       /\ LeftIds' \subseteq LeftIds \cup {serving[h].id}
  BY <1>1, <1>6
<1>13. IdsGiven' /\ TrueSoFar'
  <2>1. g # NoMessage => /\ [key |-> g.key, id |-> g.id] \in accepted'
                         /\ Numbered(roomOrder', g.seq, g.id)
    BY <1>9
  <2> HIDE DEF m, g
  <2>2. Lawful(h, g)
    BY <1>7, <1>9, <1>11, <1>12, <2>1 DEF Lawful
  <2> QED BY <1>2, <1>5, <2>2, StaysTrue
<1> QED BY <1>5, <1>13 DEF TruthInv

(* publishToCluster. *)
LEMMA BroadcastsStep ==
    ASSUME TruthInv, NEW h \in Handlers, RoomBroadcasts(h)
    PROVE  TruthInv'
<1> DEFINE m == serving[h]
           g == [m EXCEPT !.at = "register"]
<1>1. /\ At(h, "broadcast") /\ Goes(h, "register") /\ onBus' = onBus \cup {m.id}
      /\ UNCHANGED <<dedupSeen, lastId, roomOrder, archived, accepted, answers, excused>>
  BY DEF RoomBroadcasts
<1>2. /\ Serves(h) /\ MsgTypes /\ [key |-> m.key, id |-> m.id] \in accepted
      /\ Numbered(roomOrder, m.seq, m.id)
  BY <1>1 DEF TruthInv, TrueSoFar, Serves, At
<1>3. m \in Busy /\ m.id \in MsgIds
  BY <1>2, ServingFacts
<1>4. GoesOn(h, g) /\ g.seq = m.seq /\ g.key = m.key /\ g.id = m.id /\ g \in Busy
  <2>1. GoesOn(h, g) /\ g.seq = m.seq
    BY <1>1, <1>2, WhereItGoes
  <2> HIDE DEF m
  <2> QED BY <1>3, <2>1, MessageGoesOn
<1> HIDE DEF g
<1>5. MsgTypes'
  <2>1. serving' \in [Handlers -> {NoMessage} \cup Busy]
    BY <1>2, <1>4 DEF MsgTypes, GoesOn
  <2> QED BY <1>1, <1>2, <1>3, <2>1 DEF MsgTypes
<1>6. LeftIds' \subseteq LeftIds \cup {m.id}
  BY <1>1 DEF LeftIds, LeftBehind
<1>7. \A k \in DOMAIN dedupSeen' :
                /\ [key |-> k, id |-> dedupSeen'[k].id] \in accepted'
                /\ Numbered(roomOrder', dedupSeen'[k].seq, dedupSeen'[k].id)
  BY <1>1, TableStaysTrue
<1>8. [key |-> g.key, id |-> g.id] \in accepted' /\ Numbered(roomOrder', g.seq, g.id)
  BY <1>1, <1>2, <1>4
<1>12. Lawful(h, g)
  BY <1>1, <1>2, <1>4, <1>5, <1>6, <1>7, <1>8 DEF Lawful
<1> QED BY <1>2, <1>5, <1>12, StaysTrue DEF TruthInv

(* registerDedupEntry: a full table is emptied, an entry that is there stays. *)
LEMMA RegisterStep ==
    ASSUME TruthInv, NEW h \in Handlers, Register(h)
    PROVE  TruthInv'
<1> DEFINE m == serving[h]
           g == [m EXCEPT !.at = "answer"]
           full == Cardinality(DOMAIN dedupSeen) >= MaxDedupEntries
           known == IF full THEN <<>> ELSE dedupSeen
           first == IF m.key \in DOMAIN known THEN known[m.key] ELSE [id |-> m.id, seq |-> m.seq]
<1>1. /\ At(h, "register") /\ Goes(h, "answer")
      /\ dedupSeen' = [x \in DOMAIN known \cup {m.key} |->
                IF x = m.key THEN [id |-> first.id, seq |-> first.seq, old |-> FALSE]
                ELSE known[x]]
      /\ excused' = IF full THEN excused \cup DOMAIN dedupSeen ELSE excused
      /\ UNCHANGED <<lastId, roomOrder, archived, onBus, accepted, answers>>
  BY DEF Register
<1>2. /\ Serves(h) /\ MsgTypes /\ [key |-> m.key, id |-> m.id] \in accepted
      /\ Numbered(roomOrder, m.seq, m.id)
  BY <1>1 DEF TruthInv, TrueSoFar, Serves, At
<1>3. m \in Busy /\ m.key \in MsgKeys /\ m.id \in MsgIds /\ m.seq \in Nat
  BY <1>2, ServingFacts
<1>4. GoesOn(h, g) /\ g.seq = m.seq /\ g.key = m.key /\ g.id = m.id /\ g \in Busy
  <2>1. GoesOn(h, g) /\ g.seq = m.seq
    BY <1>1, <1>2, WhereItGoes
  <2> HIDE DEF m
  <2> QED BY <1>3, <2>1, MessageGoesOn
<1> HIDE DEF g
<1>5. /\ DOMAIN known \subseteq DOMAIN dedupSeen /\ \A x \in DOMAIN known : known[x] = dedupSeen[x]
      /\ IsFiniteSet(DOMAIN known)
      /\ Cardinality(DOMAIN known \cup {m.key}) <= MaxDedupEntries
  <2>1. IsFiniteSet(DOMAIN dedupSeen) /\ MaxDedupEntries \in Nat \ {0}
    BY <1>2, MessagesAssumption DEF MsgTypes
  <2>2. CASE full
    <3>1. DOMAIN known = {}
      BY <2>2
    <3>2. IsFiniteSet({}) /\ Cardinality({m.key}) = 1
      BY FS_EmptySet, FS_Singleton
    <3> HIDE DEF known, full, m
    <3>3. DOMAIN known \cup {m.key} = {m.key}
      BY <3>1
    <3> QED BY <2>1, <3>1, <3>2, <3>3
  <2>3. CASE ~full
    <3>1. known = dedupSeen
      BY <2>3
    <3>2. /\ Cardinality(DOMAIN dedupSeen) \in Nat
          /\ \/ Cardinality(DOMAIN dedupSeen \cup {m.key}) = Cardinality(DOMAIN dedupSeen)
             \/ Cardinality(DOMAIN dedupSeen \cup {m.key}) = Cardinality(DOMAIN dedupSeen) + 1
      BY <2>1, FS_AddElement, FS_CardinalityType
    <3>3. ~(Cardinality(DOMAIN dedupSeen) >= MaxDedupEntries)
      BY <2>3
    <3>4. Cardinality(DOMAIN dedupSeen \cup {m.key}) <= MaxDedupEntries
      <4> DEFINE c == Cardinality(DOMAIN dedupSeen)
                 d == Cardinality(DOMAIN dedupSeen \cup {m.key})
      <4>1. c \in Nat /\ (d = c \/ d = c + 1) /\ ~(c >= MaxDedupEntries)
        BY <3>2, <3>3
      <4>2. d <= MaxDedupEntries
        <5> HIDE DEF c, d
        <5> QED BY <2>1, <4>1
      <4> QED BY <4>2
    <3> HIDE DEF known, full, m
    <3> QED BY <2>1, <3>1, <3>4
  <2> QED BY <2>2, <2>3
<1>6. /\ first.id \in MsgIds /\ first.seq \in Nat
      /\ [key |-> m.key, id |-> first.id] \in accepted /\ Numbered(roomOrder, first.seq, first.id)
      /\ first.id \in LeftIds \cup {m.id}
  <2>1. CASE m.key \in DOMAIN known
    <3>1. first = dedupSeen[m.key] /\ m.key \in DOMAIN dedupSeen
      BY <1>5, <2>1
    <3>2. dedupSeen[m.key] \in Tabled
      BY <1>2, <3>1 DEF MsgTypes
    <3>3. [key |-> m.key, id |-> dedupSeen[m.key].id] \in accepted
          /\ Numbered(roomOrder, dedupSeen[m.key].seq, dedupSeen[m.key].id)
      BY <3>1 DEF TruthInv, TrueSoFar
    <3> HIDE DEF first, m
    <3>4. first.id \in MsgIds /\ first.seq \in Nat
      BY <3>1, <3>2 DEF Tabled
    <3> QED BY <3>1, <3>3, <3>4 DEF LeftIds, LeftBehind
  <2>2. CASE m.key \notin DOMAIN known
    BY <1>2, <1>3, <2>2
  <2> QED BY <2>1, <2>2
<1> DEFINE e == [id |-> first.id, seq |-> first.seq, old |-> FALSE]
<1>7. e \in Tabled /\ e.id = first.id /\ e.seq = first.seq
  <2> HIDE DEF first
  <2> QED BY <1>6 DEF Tabled
<1>8. /\ DOMAIN dedupSeen' = DOMAIN known \cup {m.key}
      /\ dedupSeen'[m.key] = e
      /\ \A x \in DOMAIN dedupSeen' : x # m.key => x \in DOMAIN dedupSeen /\ dedupSeen'[x] = dedupSeen[x]
      /\ dedupSeen' = [x \in DOMAIN dedupSeen' |-> dedupSeen'[x]]
  <2>1. dedupSeen' = [x \in DOMAIN known \cup {m.key} |-> IF x = m.key THEN e ELSE known[x]]
    BY <1>1
  <2> HIDE DEF e, known, m
  <2> QED BY <1>5, <2>1
<1> HIDE DEF e, first, known, full
<1>9. dedupSeen' \in [DOMAIN dedupSeen' -> Tabled]
  <2>1. \A x \in DOMAIN dedupSeen' : dedupSeen'[x] \in Tabled
    BY <1>2, <1>7, <1>8 DEF MsgTypes
  <2> QED BY <1>8, <2>1
<1>10. /\ IsFiniteSet(DOMAIN dedupSeen') /\ DOMAIN dedupSeen' \subseteq MsgKeys
       /\ Cardinality(DOMAIN dedupSeen') <= MaxDedupEntries
  <2>1. IsFiniteSet(DOMAIN known \cup {m.key})
    BY <1>5, FS_AddElement
  <2> QED BY <1>2, <1>3, <1>5, <1>8, <2>1 DEF MsgTypes
<1>11. MsgTypes'
  <2>1. serving' \in [Handlers -> {NoMessage} \cup Busy]
    BY <1>2, <1>4 DEF MsgTypes, GoesOn
  <2>2. excused' \subseteq MsgKeys
    BY <1>1, <1>2 DEF MsgTypes
  <2> QED BY <1>1, <1>2, <1>9, <1>10, <2>1, <2>2 DEF MsgTypes
<1>12. LeftIds' \subseteq LeftIds \cup {m.id}
  <2>1. ASSUME NEW k \in DOMAIN dedupSeen'
        PROVE  dedupSeen'[k].id \in LeftIds \cup {m.id}
    <3>1. CASE k = m.key
      BY <1>6, <1>7, <1>8, <3>1
    <3>2. CASE k # m.key
      <4>1. k \in DOMAIN dedupSeen /\ dedupSeen'[k] = dedupSeen[k]
        BY <1>8, <3>2
      <4>2. dedupSeen[k] \in Tabled
        BY <1>2, <4>1 DEF MsgTypes
      <4>3. dedupSeen[k].id \in MsgIds
        BY <4>2 DEF Tabled
      <4> QED BY <4>1, <4>3 DEF LeftIds, LeftBehind
    <3> QED BY <3>1, <3>2
  <2> HIDE DEF m
  <2> QED BY <1>1, <2>1 DEF LeftIds, LeftBehind
<1>13. [key |-> g.key, id |-> g.id] \in accepted' /\ Numbered(roomOrder', g.seq, g.id)
  BY <1>1, <1>2, <1>4
<1>14. \A k \in DOMAIN dedupSeen' :
                /\ [key |-> k, id |-> dedupSeen'[k].id] \in accepted'
                /\ Numbered(roomOrder', dedupSeen'[k].seq, dedupSeen'[k].id)
  <2>1. ASSUME NEW k \in DOMAIN dedupSeen'
        PROVE  /\ [key |-> k, id |-> dedupSeen'[k].id] \in accepted'
               /\ Numbered(roomOrder', dedupSeen'[k].seq, dedupSeen'[k].id)
    <3>1. CASE k = m.key
      BY <1>1, <1>6, <1>7, <1>8, <3>1
    <3>2. CASE k # m.key
      <4>1. k \in DOMAIN dedupSeen /\ dedupSeen'[k] = dedupSeen[k]
        BY <1>8, <3>2
      <4> QED BY <1>1, <4>1 DEF TruthInv, TrueSoFar
    <3> QED BY <3>1, <3>2
  <2> QED BY <2>1
<1>15. Lawful(h, g)
  BY <1>1, <1>4, <1>12, <1>13, <1>14 DEF Lawful
<1> QED BY <1>2, <1>11, <1>15, StaysTrue DEF TruthInv

(* The ACK: what is said of an accepted message is where it went. *)
LEMMA AnswersStep ==
    ASSUME TruthInv, NEW h \in Handlers, RoomAnswers(h) \/ DirectAnswers(h)
    PROVE  TruthInv'
<1> DEFINE m == serving[h]
           g == NoMessage
<1>1. /\ At(h, "answer") /\ Ends(h)
      /\ UNCHANGED <<dedupSeen, lastId, roomOrder, accepted, excused>>
      /\ onBus' \in {onBus, onBus \cup {m.id}}
      /\ archived' = archived \/ Archives(m, 0)
  BY DEF RoomAnswers, DirectAnswers
<1>2. PICK seq \in {m.seq, 0} : answers' = answers \cup {AckOf(m, 200, m.id, seq)}
  BY DEF RoomAnswers, DirectAnswers, SendAck
<1>3. /\ Serves(h) /\ MsgTypes /\ [key |-> m.key, id |-> m.id] \in accepted
      /\ Numbered(roomOrder, m.seq, m.id) /\ m.id <= lastId
  BY <1>1 DEF TruthInv, TrueSoFar, IdsGiven, Serves, At
<1>4. m \in Busy /\ m.key \in MsgKeys /\ m.id \in MsgIds /\ m.seq \in Nat /\ m.id \in Nat
      /\ seq \in Nat /\ Numbered(roomOrder, seq, m.id)
  <2>1. m \in Busy /\ m.key \in MsgKeys /\ m.id \in MsgIds /\ m.seq \in Nat
    BY <1>3, ServingFacts
  <2>2. Numbered(roomOrder, 0, m.id) /\ 0 \in Nat
    BY DEF Numbered
  <2>3. m.id \in Nat
    BY <2>1 DEF MsgIds
  <2> HIDE DEF m
  <2> QED BY <1>3, <2>1, <2>2, <2>3
<1> DEFINE a == AckOf(m, 200, m.id, seq)
<1>5. a \in Acks /\ a.key = m.key /\ a.id = m.id /\ a.code = 200 /\ a.ackId = m.id /\ a.ackSeq = seq
  <2> HIDE DEF m
  <2> QED BY <1>4, AckTyped
<1>6. answers' = answers \cup {a}
  BY <1>2
<1>7. archived' \in Seq([id : MsgIds, seq : Nat])
      /\ \A id : (\E n \in DOMAIN archived' : archived'[n].id = id) =>
                    (\E n \in DOMAIN archived : archived[n].id = id) \/ id = m.id
  <2>1. CASE archived' = archived
    BY <1>3, <2>1 DEF MsgTypes
  <2>2. CASE Archives(m, 0)
    <3>1. 0 \in Nat
      OBVIOUS
    <3> HIDE DEF m
    <3> QED BY <1>3, <1>4, <2>2, <3>1, ArchiveKeeps
  <2> QED BY <1>1, <2>1, <2>2
<1> HIDE DEF a
<1>8. GoesOn(h, g) /\ g = NoMessage /\ serving' \in [Handlers -> {NoMessage} \cup Busy]
  BY <1>1, <1>3, EndsIt
<1>9. MsgTypes'
  <2> HIDE DEF m, g
  <2> QED BY <1>1, <1>3, <1>4, <1>5, <1>6, <1>7, <1>8 DEF MsgTypes
<1>10. LeftIds' \subseteq LeftIds \cup {m.id}
  <2> HIDE DEF m, g
  <2> QED BY <1>1, <1>7 DEF LeftIds, LeftBehind
<1>11. \A k \in DOMAIN dedupSeen' :
                /\ [key |-> k, id |-> dedupSeen'[k].id] \in accepted'
                /\ Numbered(roomOrder', dedupSeen'[k].seq, dedupSeen'[k].id)
  BY <1>1, TableStaysTrue
<1>12. \A b \in answers' \ answers :
         /\ b.id <= lastId
         /\ b.code = 200 /\ [key |-> b.key, id |-> b.ackId] \in accepted'
         /\ Numbered(roomOrder', b.ackSeq, b.ackId)
  <2> HIDE DEF m
  <2> QED BY <1>1, <1>3, <1>4, <1>5, <1>6
<1>13. Lawful(h, g)
  <2> HIDE DEF g
  <2> QED BY <1>1, <1>8, <1>10, <1>11, <1>12 DEF Lawful
<1> QED BY <1>3, <1>9, <1>13, StaysTrue DEF TruthInv

(* An exception: the handler ends, what it left stays. *)
LEMMA FailsStep ==
    ASSUME TruthInv, NEW h \in Handlers, HandlerFails(h)
    PROVE  TruthInv'
<1> DEFINE g == NoMessage
<1>1. /\ Serves(h) /\ Ends(h) /\ MsgTypes /\ excused' \in {excused, excused \cup {serving[h].key}}
      /\ UNCHANGED <<dedupSeen, lastId, roomOrder, archived, onBus, accepted, answers>>
  BY DEF HandlerFails, TruthInv, Serves
<1>2. serving[h].key \in MsgKeys
  BY <1>1, ServingFacts
<1>3. GoesOn(h, g) /\ g = NoMessage /\ serving' \in [Handlers -> {NoMessage} \cup Busy]
  BY <1>1, EndsIt
<1> HIDE DEF g
<1>4. MsgTypes'
  BY <1>1, <1>2, <1>3 DEF MsgTypes
<1>5. LeftIds' = LeftIds
  BY <1>1 DEF LeftIds, LeftBehind
<1>6. \A k \in DOMAIN dedupSeen' :
                /\ [key |-> k, id |-> dedupSeen'[k].id] \in accepted'
                /\ Numbered(roomOrder', dedupSeen'[k].seq, dedupSeen'[k].id)
  BY <1>1, TableStaysTrue
<1>7. Lawful(h, g)
  BY <1>1, <1>3, <1>5, <1>6 DEF Lawful
<1> QED BY <1>1, <1>4, <1>7, StaysTrue DEF TruthInv

(* The table ages and is swept: its entries keep what they say. *)
LEMMA TableForgetsStep ==
    ASSUME TruthInv, EntriesAge \/ SweepDedupTable \/ UNCHANGED msgVars
    PROVE  TruthInv'
<1>1. /\ UNCHANGED <<serving, lastId, roomOrder, archived, onBus, accepted, answers>>
      /\ excused \subseteq excused' /\ excused' \subseteq excused \cup DOMAIN dedupSeen
  BY DEF EntriesAge, SweepDedupTable, msgVars
<1>2. MsgTypes /\ dedupSeen \in [DOMAIN dedupSeen -> Tabled]
  BY DEF TruthInv, MsgTypes
<1>3. \A e \in Tabled : /\ [e EXCEPT !.old = TRUE] \in Tabled
                        /\ [e EXCEPT !.old = TRUE].id = e.id /\ [e EXCEPT !.old = TRUE].seq = e.seq
  BY DEF Tabled
<1>4. /\ DOMAIN dedupSeen' \subseteq DOMAIN dedupSeen
      /\ dedupSeen' \in [DOMAIN dedupSeen' -> Tabled]
      /\ \A k \in DOMAIN dedupSeen' : dedupSeen'[k].id = dedupSeen[k].id
                                      /\ dedupSeen'[k].seq = dedupSeen[k].seq
  <2>1. CASE EntriesAge
    <3>1. dedupSeen' = [k \in DOMAIN dedupSeen |-> [dedupSeen[k] EXCEPT !.old = TRUE]]
      BY <2>1 DEF EntriesAge
    <3> QED BY <1>2, <1>3, <3>1
  <2>2. CASE SweepDedupTable
    <3>1. dedupSeen' = [k \in DOMAIN dedupSeen \ {k \in DOMAIN dedupSeen : dedupSeen[k].old} |->
                           dedupSeen[k]]
      BY <2>2 DEF SweepDedupTable, ForgetKeys, Restrict
    <3> QED BY <1>2, <3>1
  <2>3. CASE UNCHANGED msgVars
    BY <1>2, <2>3 DEF msgVars
  <2> QED BY <2>1, <2>2, <2>3
<1>5. /\ IsFiniteSet(DOMAIN dedupSeen') /\ DOMAIN dedupSeen' \subseteq MsgKeys
      /\ Cardinality(DOMAIN dedupSeen') <= MaxDedupEntries
  <2>1. IsFiniteSet(DOMAIN dedupSeen) /\ Cardinality(DOMAIN dedupSeen) <= MaxDedupEntries
        /\ MaxDedupEntries \in Nat
    BY <1>2, MessagesAssumption DEF MsgTypes
  <2>2. /\ IsFiniteSet(DOMAIN dedupSeen') /\ Cardinality(DOMAIN dedupSeen') <= Cardinality(DOMAIN dedupSeen)
    BY <1>4, <2>1, FS_Subset
  <2>3. Cardinality(DOMAIN dedupSeen') \in Nat /\ Cardinality(DOMAIN dedupSeen) \in Nat
    BY <2>1, <2>2, FS_CardinalityType
  <2>4. \A x, y, z \in Int : x <= y /\ y <= z => x <= z
    OBVIOUS
  <2>5. Cardinality(DOMAIN dedupSeen') <= MaxDedupEntries
    BY <2>1, <2>2, <2>3, <2>4
  <2> QED BY <1>2, <1>4, <2>2, <2>5 DEF MsgTypes
<1>6. MsgTypes'
  BY <1>1, <1>2, <1>4, <1>5 DEF MsgTypes
<1>7. LeftIds' \subseteq LeftIds
  BY <1>1, <1>4 DEF LeftIds, LeftBehind
<1>8. IdsGiven'
  BY <1>1, <1>7 DEF TruthInv, IdsGiven, Serves, At
<1>9. Honest'
  <2>1. ASSUME NEW a \in answers'
        PROVE  AckTrue(a, accepted', roomOrder', LeftIds')
    <3>1. AckTrue(a, accepted, roomOrder, LeftIds)
      BY <1>1 DEF TruthInv, TrueSoFar, Honest
    <3> QED BY <1>1, <1>7, <3>1 DEF AckTrue
  <2> QED BY <2>1 DEF Honest
<1>10. TrueSoFar'
  <2>1. \A h \in Handlers : At(h, "deliver")' =>
            serving'[h].id \notin LeftIds' /\ serving'[h].seq = 0
    BY <1>1, <1>7 DEF TruthInv, TrueSoFar, At
  <2>2. \A k \in DOMAIN dedupSeen' :
                /\ [key |-> k, id |-> dedupSeen'[k].id] \in accepted'
                /\ Numbered(roomOrder', dedupSeen'[k].seq, dedupSeen'[k].id)
    BY <1>1, <1>4 DEF TruthInv, TrueSoFar
  <2> QED BY <1>1, <1>9, <2>1, <2>2 DEF TruthInv, TrueSoFar, Serves, At
<1> QED BY <1>6, <1>8, <1>10 DEF TruthInv

(* Nothing was answered yet. *)
LEMMA TruthStart == MsgInit => TruthInv
<1> SUFFICES ASSUME MsgInit PROVE TruthInv
  OBVIOUS
<1> USE DEF MsgInit
<1>1. DOMAIN dedupSeen = {} /\ IsFiniteSet({}) /\ Cardinality({}) = 0
  BY FS_EmptySet
<1>2. dedupSeen \in [DOMAIN dedupSeen -> Tabled]
  <2>1. dedupSeen = [x \in DOMAIN dedupSeen |-> dedupSeen[x]]
    BY EmptySeq
  <2> QED BY <1>1, <2>1
<1>3. MsgTypes
  BY <1>1, <1>2, MessagesAssumption, EmptySeq DEF MsgTypes
<1>4. LeftIds = {}
  BY <1>1 DEF LeftIds, LeftBehind, Range
<1>5. \A h \in Handlers : ~Serves(h) /\ ~At(h, "deliver")
  BY DEF Serves, At, NoMessage
<1> QED BY <1>1, <1>3, <1>4, <1>5 DEF TruthInv, IdsGiven, TrueSoFar, Honest

(* Every action keeps TruthInv. *)
LEMMA TruthStep == TruthInv /\ [MsgNext]_msgVars => TruthInv'
<1> SUFFICES ASSUME TruthInv, [MsgNext]_msgVars PROVE TruthInv'
  OBVIOUS
<1>1. ASSUME NEW h \in Handlers, NEW k \in MsgKeys, Lookup(h, k) PROVE TruthInv'
  BY <1>1, LookupStep
<1>2. ASSUME NEW h \in Handlers, RoomAccepts(h) PROVE TruthInv'
  BY <1>2, RoomAcceptsStep
<1>3. ASSUME NEW h \in Handlers, RoomEmpty(h) \/ DirectAccepts(h) PROVE TruthInv'
  BY <1>3, AcceptsStep
<1>4. ASSUME NEW h \in Handlers, RoomRefuses(h) \/ DirectRefused(h) \/ DirectAbsent(h)
      PROVE  TruthInv'
  BY <1>4, RefusesStep
<1>5. ASSUME NEW h \in Handlers, RoomBroadcasts(h) PROVE TruthInv'
  BY <1>5, BroadcastsStep
<1>6. ASSUME NEW h \in Handlers, RoomAnswers(h) \/ DirectAnswers(h) PROVE TruthInv'
  BY <1>6, AnswersStep
<1>7. ASSUME NEW h \in Handlers, Register(h) PROVE TruthInv'
  BY <1>7, RegisterStep
<1>8. ASSUME NEW h \in Handlers, HandlerFails(h) PROVE TruthInv'
  BY <1>8, FailsStep
<1>9. CASE EntriesAge \/ SweepDedupTable \/ UNCHANGED msgVars
  BY <1>9, TableForgetsStep
<1> QED BY <1>1, <1>2, <1>3, <1>4, <1>5, <1>6, <1>7, <1>8, <1>9 DEF MsgNext

(* 200 is said only of an accepted message, 503 and 404 only of one that left
   nothing behind (the two phases of deduplication in handleNewMessage). *)
THEOREM AcksAreTrue == MsgSpec => []AckIsTrue
<1>1. TruthInv => AckIsTrue
  <2> SUFFICES ASSUME TruthInv PROVE AckIsTrue
    OBVIOUS
  <2>1. \A a \in answers : a.id \in MsgIds
    BY DEF TruthInv, MsgTypes, Acks
  <2>2. SUFFICES ASSUME NEW a \in answers
                 PROVE  IF a.code = 200
                          THEN /\ [key |-> a.key, id |-> a.ackId] \in accepted
                               /\ Numbered(roomOrder, a.ackSeq, a.ackId)
                          ELSE ~LeftBehind(a.id)
    BY DEF AckIsTrue, Numbered
  <2>3. AckTrue(a, accepted, roomOrder, LeftIds) /\ a.id \in MsgIds
    BY <2>1 DEF TruthInv, TrueSoFar, Honest
  <2> QED BY <2>3 DEF AckTrue, LeftIds
<1> QED BY <1>1, TruthStart, TruthStep, PTL DEF MsgSpec

(* The variables keep their types, and registerDedupEntry its table its size. *)
THEOREM MessageTypesKept == MsgSpec => []MsgTypeOK
<1>1. TruthInv => MsgTypeOK
  <2> SUFFICES ASSUME TruthInv PROVE MsgTypeOK
    OBVIOUS
  <2>1. \A h \in Handlers : ~At(h, "idle") =>
          /\ serving[h].at \in {"deliver", "broadcast", "register", "answer"}
          /\ serving[h].key \in MsgKeys /\ serving[h].id \in MsgIds
    BY MessagesAre DEF TruthInv, MsgTypes, At
  <2>2. Range(roomOrder) \subseteq MsgIds
    BY DEF TruthInv, MsgTypes, Range
  <2> QED BY <2>1, <2>2 DEF TruthInv, MsgTypes, MsgTypeOK
<1> QED BY <1>1, TruthStart, TruthStep, PTL DEF MsgSpec

-----------------------------------------------------------------------------
(* RetriedOnce.  Of a key that was not excused, at most one copy is served at a time;
   an accepted copy is in the table, or its handler is on the way there; so a copy
   that is still to be delivered is the first. *)
OneAtATime == \A g, h \in Handlers :
    Serves(g) /\ Serves(h) /\ serving[g].key = serving[h].key /\ serving[g].key \notin excused
        => g = h
OnItsWay(h) == At(h, "broadcast") \/ At(h, "register")
AcceptedIsKnown == \A a \in accepted : a.key \notin excused =>
    a.key \in DOMAIN dedupSeen \/ \E h \in Handlers : OnItsWay(h) /\ serving[h].key = a.key
FirstCopy == \A h \in Handlers : At(h, "deliver") /\ serving[h].key \notin excused =>
    \A a \in accepted : a.key # serving[h].key
AcceptedOnce == \A a, b \in accepted : a.key = b.key /\ a.key \notin excused => a = b

OnceInv == OneAtATime /\ AcceptedIsKnown /\ FirstCopy /\ AcceptedOnce

(* What the steps of a handler that is busy have in common. *)
Careful(h, m) ==
    /\ GoesOn(h, m) /\ excused \subseteq excused'
    /\ \/ accepted' = accepted
       \/ /\ accepted' = accepted \cup {[key |-> serving[h].key, id |-> serving[h].id]}
          /\ At(h, "deliver") /\ m.at \in {"broadcast", "register"}
    /\ \A k \in DOMAIN dedupSeen : k \notin excused' => k \in DOMAIN dedupSeen'
    /\ OnItsWay(h) => \/ m.at \in {"broadcast", "register"}
                      \/ serving[h].key \in excused' \cup DOMAIN dedupSeen'

(* A careful step keeps OnceInv. *)
LEMMA OnceStays ==
    ASSUME OnceInv, MsgTypes, NEW h \in Handlers, Serves(h), NEW m, Careful(h, m)
    PROVE  OnceInv'
<1>1. /\ \A g \in Handlers \ {h} : serving'[g] = serving[g]
      /\ serving'[h] = m
  BY DEF Careful, GoesOn, MsgTypes
<1>2. \/ m = NoMessage /\ m.at = "idle"
      \/ m \in Busy /\ m.at # "deliver" /\ m.at # "idle" /\ m.key = serving[h].key
  BY MessagesAre DEF Careful, GoesOn
<1>3. \A g \in Handlers : Serves(g)' => Serves(g) /\ serving'[g].key = serving[g].key
  BY <1>1, <1>2 DEF Serves, At
<1>4. \A g \in Handlers : At(g, "deliver")' => At(g, "deliver") /\ g # h /\ serving'[g] = serving[g]
  BY <1>1, <1>2 DEF At
<1>5. excused \subseteq excused'
  BY DEF Careful
<1>6. OneAtATime'
  BY <1>3, <1>5 DEF OnceInv, OneAtATime
<1> DEFINE new == [key |-> serving[h].key, id |-> serving[h].id]
<1>7. new.key = serving[h].key
  OBVIOUS
<1>8. \/ accepted' = accepted
      \/ /\ accepted' = accepted \cup {new} /\ At(h, "deliver")
         /\ m.at \in {"broadcast", "register"}
  BY DEF Careful
<1> HIDE DEF new
<1>9. AcceptedIsKnown'
  <2> SUFFICES ASSUME NEW a \in accepted', a.key \notin excused'
               PROVE  \/ a.key \in DOMAIN dedupSeen'
                      \/ \E g \in Handlers : OnItsWay(g)' /\ serving'[g].key = a.key
    BY DEF AcceptedIsKnown
  <2>1. ASSUME m.at \in {"broadcast", "register"}
        PROVE  OnItsWay(h)' /\ serving'[h].key = serving[h].key
    BY <1>1, <1>2, <2>1 DEF OnItsWay, At, NoMessage
  <2>2. CASE a \in accepted
    <3>1. a.key \in DOMAIN dedupSeen \/ \E g \in Handlers : OnItsWay(g) /\ serving[g].key = a.key
      BY <1>5, <2>2 DEF OnceInv, AcceptedIsKnown
    <3>2. CASE a.key \in DOMAIN dedupSeen
      BY <3>2 DEF Careful
    <3>3. ASSUME NEW g \in Handlers, OnItsWay(g), serving[g].key = a.key
          PROVE  \/ a.key \in DOMAIN dedupSeen'
                 \/ \E i \in Handlers : OnItsWay(i)' /\ serving'[i].key = a.key
      <4>1. CASE g = h
        BY <2>1, <3>3, <4>1 DEF Careful
      <4>2. CASE g # h
        BY <1>1, <3>3, <4>2 DEF OnItsWay, At
      <4> QED BY <4>1, <4>2
    <3> QED BY <3>1, <3>2, <3>3
  <2>3. CASE a \notin accepted
    BY <1>7, <1>8, <2>1, <2>3
  <2> QED BY <2>2, <2>3
<1>10. FirstCopy'
  <2> SUFFICES ASSUME NEW g \in Handlers, At(g, "deliver")', serving'[g].key \notin excused',
                      NEW a \in accepted'
               PROVE  a.key # serving'[g].key
    BY DEF FirstCopy
  <2>1. At(g, "deliver") /\ g # h /\ serving'[g] = serving[g] /\ Serves(g)
    BY <1>4 DEF Serves, At
  <2>2. serving[g].key # serving[h].key
    BY <1>5, <2>1 DEF OnceInv, OneAtATime
  <2> QED BY <1>5, <1>7, <1>8, <2>1, <2>2 DEF OnceInv, FirstCopy
<1>11. AcceptedOnce'
  BY <1>5, <1>7, <1>8 DEF OnceInv, AcceptedOnce, FirstCopy
<1> QED BY <1>6, <1>9, <1>10, <1>11 DEF OnceInv

(* A copy taken up is the first, or its key is excused. *)
LEMMA OnceLookup ==
    ASSUME OnceInv, MsgTypes, NEW h \in Handlers, NEW k \in MsgKeys, Lookup(h, k)
    PROVE  OnceInv'
<1>1. CASE k \in DOMAIN dedupSeen
  <2>1. serving' = serving /\ excused' = excused /\ accepted' = accepted
        /\ dedupSeen' = [dedupSeen EXCEPT ![k].old = FALSE]
    BY <1>1 DEF Lookup
  <2>2. DOMAIN dedupSeen' = DOMAIN dedupSeen
    BY <2>1
  <2> QED BY <2>1, <2>2
        DEF OnceInv, OneAtATime, AcceptedIsKnown, FirstCopy, AcceptedOnce, Serves, OnItsWay, At
<1>2. CASE k \notin DOMAIN dedupSeen
  <2> DEFINE m == [at |-> "deliver", key |-> k, id |-> lastId + 1, seq |-> 0]
  <2>1. /\ At(h, "idle") /\ serving' = [serving EXCEPT ![h] = m]
        /\ excused' = IF Overlaps(h, k) THEN excused \cup {k} ELSE excused
        /\ accepted' = accepted /\ dedupSeen' = dedupSeen
    BY <1>2 DEF Lookup
  <2>2. m.at = "deliver" /\ m.key = k
    OBVIOUS
  <2> HIDE DEF m
  <2>3. /\ \A g \in Handlers \ {h} : serving'[g] = serving[g]
        /\ serving'[h] = m
    BY <2>1 DEF MsgTypes
  <2>4. ASSUME NEW g \in Handlers, Serves(g), serving[g].key = k
        PROVE  k \in excused'
    BY <2>1, <2>4 DEF Overlaps, Serves, At
  <2>5. excused \subseteq excused'
    BY <2>1
  <2>6. OneAtATime'
    <3> SUFFICES ASSUME NEW g \in Handlers, NEW i \in Handlers, Serves(g)', Serves(i)',
                        serving'[g].key = serving'[i].key, serving'[g].key \notin excused'
                 PROVE  g = i
      BY DEF OneAtATime
    <3>1. \A j \in Handlers : Serves(j)' /\ j # h => Serves(j) /\ serving'[j] = serving[j]
      BY <2>3 DEF Serves, At
    <3> QED BY <2>2, <2>3, <2>4, <2>5, <3>1 DEF OnceInv, OneAtATime
  <2>7. AcceptedIsKnown'
    <3>1. \A g \in Handlers : OnItsWay(g) => g # h
      BY <2>1 DEF OnItsWay, At
    <3> QED BY <2>1, <2>3, <2>5, <3>1 DEF OnceInv, AcceptedIsKnown, OnItsWay, At
  <2>8. FirstCopy'
    <3> SUFFICES ASSUME NEW g \in Handlers, At(g, "deliver")', serving'[g].key \notin excused',
                        NEW a \in accepted'
                 PROVE  a.key # serving'[g].key
      BY DEF FirstCopy
    <3>1. CASE g = h
      <4>1. \A i \in Handlers : OnItsWay(i) => Serves(i)
        BY DEF OnItsWay, Serves, At
      <4> QED BY <1>2, <2>1, <2>2, <2>3, <2>4, <2>5, <3>1, <4>1 DEF OnceInv, AcceptedIsKnown
    <3>2. CASE g # h
      BY <2>1, <2>3, <2>5, <3>2 DEF OnceInv, FirstCopy, At
    <3> QED BY <3>1, <3>2
  <2>9. AcceptedOnce'
    BY <2>1, <2>5 DEF OnceInv, AcceptedOnce
  <2> QED BY <2>6, <2>7, <2>8, <2>9 DEF OnceInv
<1> QED BY <1>1, <1>2

(* Every action keeps OnceInv. *)
LEMMA OnceStep == MsgTypes /\ OnceInv /\ [MsgNext]_msgVars => OnceInv'
<1> SUFFICES ASSUME MsgTypes, OnceInv, [MsgNext]_msgVars PROVE OnceInv'
  OBVIOUS
<1>1. ASSUME NEW h \in Handlers, NEW k \in MsgKeys, Lookup(h, k) PROVE OnceInv'
  BY <1>1, OnceLookup
<1>2. ASSUME NEW h \in Handlers, RoomAccepts(h) PROVE OnceInv'
  <2> DEFINE m == serving[h]
             n == Len(roomOrder) + 1
             g == [m EXCEPT !.at = "broadcast", !.seq = n]
  <2>1. /\ At(h, "deliver") /\ Serves(h) /\ serving' = [serving EXCEPT ![h] = g]
        /\ accepted' = accepted \cup {[key |-> m.key, id |-> m.id]}
        /\ UNCHANGED <<dedupSeen, excused>>
    BY <1>2 DEF RoomAccepts, Accepts, Serves, At
  <2>2. m \in Busy /\ n \in Nat
    <3>1. roomOrder \in Seq(MsgIds)
      BY DEF MsgTypes
    <3> QED BY <2>1, <3>1, ServingFacts, LenProperties
  <2>3. g \in Busy /\ g.at = "broadcast" /\ g.key = m.key /\ g.id = m.id
    <3> HIDE DEF n, m
    <3> QED BY <2>2, NumberedMessage
  <2> HIDE DEF g
  <2>4. Careful(h, g)
    BY <2>1, <2>3 DEF Careful, GoesOn
  <2> QED BY <2>1, <2>4, OnceStays
<1>3. ASSUME NEW h \in Handlers, Serves(h), NEW w \in {"broadcast", "register", "answer"},
             Goes(h, w), excused \subseteq excused',
             \/ accepted' = accepted
             \/ /\ accepted' = accepted \cup {[key |-> serving[h].key, id |-> serving[h].id]}
                /\ At(h, "deliver") /\ w = "register",
             \A k \in DOMAIN dedupSeen : k \notin excused' => k \in DOMAIN dedupSeen',
             OnItsWay(h) => \/ w \in {"broadcast", "register"}
                            \/ serving[h].key \in DOMAIN dedupSeen'
      PROVE  OnceInv'
  <2> DEFINE g == [serving[h] EXCEPT !.at = w]
  <2>1. GoesOn(h, g) /\ g.at = w
    BY <1>3, WhereItGoes
  <2> HIDE DEF g
  <2>2. Careful(h, g)
    BY <1>3, <2>1 DEF Careful
  <2> QED BY <1>3, <2>2, OnceStays
<1>4. ASSUME NEW h \in Handlers, Serves(h), Ends(h), accepted' = accepted,
             excused \subseteq excused', dedupSeen' = dedupSeen,
             OnItsWay(h) => serving[h].key \in excused'
      PROVE  OnceInv'
  <2>1. GoesOn(h, NoMessage)
    BY <1>4, EndsIt
  <2>2. Careful(h, NoMessage)
    BY <1>4, <2>1 DEF Careful
  <2> QED BY <1>4, <2>2, OnceStays
<1>5. ASSUME NEW h \in Handlers, RoomEmpty(h) \/ DirectAccepts(h) PROVE OnceInv'
  BY <1>3, <1>5 DEF RoomEmpty, DirectAccepts, Accepts, Serves, At
<1>6. ASSUME NEW h \in Handlers, RoomBroadcasts(h) PROVE OnceInv'
  BY <1>3, <1>6 DEF RoomBroadcasts, Serves, At
<1>7. ASSUME NEW h \in Handlers, Register(h) PROVE OnceInv'
  <2>1. Serves(h) /\ Goes(h, "answer") /\ accepted' = accepted
    BY <1>7 DEF Register, Serves, At
  <2>2. /\ serving[h].key \in DOMAIN dedupSeen' /\ excused \subseteq excused'
        /\ \A k \in DOMAIN dedupSeen : k \notin excused' => k \in DOMAIN dedupSeen'
    BY <1>7 DEF Register
  <2> QED BY <1>3, <2>1, <2>2
<1>8. ASSUME NEW h \in Handlers,
             \/ RoomRefuses(h) \/ DirectRefused(h) \/ DirectAbsent(h)
             \/ RoomAnswers(h) \/ DirectAnswers(h)
      PROVE  OnceInv'
  <2>1. /\ Serves(h) /\ ~OnItsWay(h) /\ Ends(h) /\ accepted' = accepted
        /\ excused \subseteq excused' /\ dedupSeen' = dedupSeen
    BY <1>8 DEF RoomRefuses, DirectRefused, DirectAbsent, RoomAnswers, DirectAnswers, Serves, OnItsWay, At
  <2> QED BY <1>4, <2>1
<1>9. ASSUME NEW h \in Handlers, HandlerFails(h) PROVE OnceInv'
  <2>1. /\ Serves(h) /\ Ends(h) /\ accepted' = accepted /\ excused \subseteq excused'
        /\ dedupSeen' = dedupSeen /\ (OnItsWay(h) => serving[h].key \in excused')
    BY <1>9 DEF HandlerFails, Serves, OnItsWay
  <2> QED BY <1>4, <2>1
<1>10. CASE EntriesAge \/ SweepDedupTable \/ UNCHANGED msgVars
  <2>1. /\ UNCHANGED <<serving, accepted>> /\ excused \subseteq excused'
        /\ \A k \in DOMAIN dedupSeen : k \notin excused' => k \in DOMAIN dedupSeen'
    BY <1>10 DEF EntriesAge, SweepDedupTable, ForgetKeys, Restrict, msgVars
  <2> QED BY <2>1
        DEF OnceInv, OneAtATime, AcceptedIsKnown, FirstCopy, AcceptedOnce, Serves, OnItsWay, At
<1> QED BY <1>1, <1>2, <1>5, <1>6, <1>7, <1>8, <1>9, <1>10 DEF MsgNext

(* A message sent again after an accepted first copy is not delivered again, unless
   the code lets the second copy through knowingly (lookupDedupEntry,
   registerDedupEntry). *)
THEOREM ARetryIsNotDeliveredTwice == MsgSpec => []RetriedOnce
<1>1. MsgInit => OnceInv
  BY DEF MsgInit, OnceInv, OneAtATime, AcceptedIsKnown, FirstCopy, AcceptedOnce, Serves, At,
         NoMessage
<1>2. OnceInv => RetriedOnce
  <2> SUFFICES ASSUME OnceInv, NEW k \in MsgKeys \ excused
               PROVE  Cardinality({a \in accepted : a.key = k}) <= 1
    BY DEF RetriedOnce
  <2> DEFINE copies == {a \in accepted : a.key = k}
  <2>1. copies = {} \/ \E a \in accepted : copies = {a}
    BY DEF OnceInv, AcceptedOnce
  <2>2. Cardinality({}) = 0 /\ \A a \in accepted : Cardinality({a}) = 1
    BY FS_EmptySet, FS_Singleton
  <2> HIDE DEF copies
  <2>3. Cardinality(copies) <= 1
    BY <2>1, <2>2
  <2> QED BY <2>3 DEF copies
<1>3. TruthInv => MsgTypes
  BY DEF TruthInv
<1> QED BY <1>1, <1>2, <1>3, TruthStart, TruthStep, OnceStep, PTL DEF MsgSpec

(***************************************************************************)
(* Messages to a user (DirectDelivery).                                    *)
(***************************************************************************)

Progress == {NotSending} \cup
    [at : {"reserve", "scan", "dispatch"}, msg : DirectMsgs, dispatched : Nat, gated : Nat,
     left : SUBSET AllLoops]

DirectTypes ==
    /\ sending \in [Callers -> Progress]
    /\ inFlight \in Int /\ begun \in 0 .. MaxDirect /\ congested \subseteq Sessions
    /\ batches \in [Loops -> Seq(DirectMsgs)]
    /\ said \in [DirectMsgs -> {"nothing", "gated", "full", "failed", "sent"}]
    /\ skippedThenFailed \in BOOLEAN

SessionsAt(ls) == {s \in Sessions : LoopOf[s] \in ls}

(* What a caller counts is what it has taken quota for. *)
CountsInv == \A c \in Callers : sending[c].at = "dispatch" =>
    sending[c].dispatched + sending[c].gated + Cardinality(SessionsAt(sending[c].left)) = Total

QuotaInv ==
    /\ IsFiniteSet(Undispatched) /\ IsFiniteSet(Queued)
    /\ DirectQuotaExact

Served(m, s) ==
    \/ [msg |-> m, to |-> s] \in written
    \/ LoopOf[s] \in Loops /\ m \in Range(batches[LoopOf[s]])

(* A caller that has skipped nobody has served all sessions but those of the
   loops it has still to come to. *)
ServedInv == \A c \in Callers, m \in DirectMsgs :
    sending[c].at = "dispatch" /\ sending[c].gated = 0 /\ sending[c].msg = m =>
        \A s \in Sessions \ SessionsAt(sending[c].left) : Served(m, s)

DirectInv == DirectTypes /\ CountsInv /\ QuotaInv /\ ServedInv /\ DirectPromiseKept

-----------------------------------------------------------------------------
(* Counting *)

LEMMA Taken ==
    ASSUME NEW A, IsFiniteSet(A), NEW B, B \subseteq A
    PROVE  /\ IsFiniteSet(B) /\ IsFiniteSet(A \ B)
           /\ Cardinality(A \ B) = Cardinality(A) - Cardinality(B)
           /\ Cardinality(A) \in Nat /\ Cardinality(B) \in Nat
<1>1. IsFiniteSet(B) /\ IsFiniteSet(A \ B)
  BY FS_Subset
<1>2. (A \ B) \cup B = A /\ (A \ B) \cap B = {}
  OBVIOUS
<1>3. Cardinality(A) = Cardinality(A \ B) + Cardinality(B) - Cardinality({})
  BY ONLY <1>1, <1>2, FS_Union
<1>4. Cardinality({}) = 0 /\ Cardinality(A) \in Nat /\ Cardinality(B) \in Nat
      /\ Cardinality(A \ B) \in Nat
  BY <1>1, FS_EmptySet, FS_CardinalityType
<1> QED BY <1>1, <1>3, <1>4

LEMMA Added ==
    ASSUME NEW A, IsFiniteSet(A), NEW B, IsFiniteSet(B), A \cap B = {}
    PROVE  /\ IsFiniteSet(A \cup B)
           /\ Cardinality(A \cup B) = Cardinality(A) + Cardinality(B)
           /\ Cardinality(A) \in Nat /\ Cardinality(B) \in Nat
<1>1. IsFiniteSet(A \cup B)
      /\ Cardinality(A \cup B) = Cardinality(A) + Cardinality(B) - Cardinality({})
  BY FS_Union
<1>2. Cardinality({}) = 0 /\ Cardinality(A) \in Nat /\ Cardinality(B) \in Nat
  BY FS_EmptySet, FS_CardinalityType
<1> QED BY <1>1, <1>2

\* As many pairs as there are elements, whichever side the other element is on.
LEMMA PairsCount ==
    ASSUME NEW S, IsFiniteSet(S), NEW x
    PROVE  /\ IsFiniteSet({x} \X S) /\ Cardinality({x} \X S) = Cardinality(S)
           /\ IsFiniteSet(S \X {x}) /\ Cardinality(S \X {x}) = Cardinality(S)
<1>1. ExistsBijection(S, {x} \X S)
  <2> DEFINE f == [s \in S |-> <<x, s>>]
  <2>1. f \in [S -> {x} \X S]
    OBVIOUS
  <2>2. \A s, t \in S : f[s] = f[t] => s = t
    OBVIOUS
  <2>3. \A p \in {x} \X S : \E s \in S : f[s] = p
    OBVIOUS
  <2> HIDE DEF f
  <2>4. f \in Bijection(S, {x} \X S)
    BY <2>1, <2>2, <2>3, Fun_IsBij
  <2> QED BY <2>4 DEF ExistsBijection
<1>2. ExistsBijection(S, S \X {x})
  <2> DEFINE f == [s \in S |-> <<s, x>>]
  <2>1. f \in [S -> S \X {x}]
    OBVIOUS
  <2>2. \A s, t \in S : f[s] = f[t] => s = t
    OBVIOUS
  <2>3. \A p \in S \X {x} : \E s \in S : f[s] = p
    OBVIOUS
  <2> HIDE DEF f
  <2>4. f \in Bijection(S, S \X {x})
    BY <2>1, <2>2, <2>3, Fun_IsBij
  <2> QED BY <2>4 DEF ExistsBijection
<1> QED BY <1>1, <1>2, FS_Bijection

LEMMA SessionsAreFinite ==
    /\ IsFiniteSet(Sessions) /\ Total \in Nat
    /\ \A ss \in SUBSET Sessions : IsFiniteSet(ss) /\ Cardinality(ss) \in Nat
                                   /\ Cardinality(ss) <= Total
<1>1. IsFiniteSet(Sessions)
  <2>1. SessionOrder \in Seq(Sessions) /\ Range(SessionOrder) = Sessions
    BY DirectAssumption
  <2> DEFINE n == Len(SessionOrder)
  <2>2. n \in Nat /\ SessionOrder \in [1 .. n -> Sessions]
    BY <2>1
  <2>3. \A s \in Sessions : \E k \in 1 .. n : SessionOrder[k] = s
    BY <2>1, <2>2 DEF Range
  <2>4. SessionOrder \in Surjection(1 .. n, Sessions)
    BY <2>2, <2>3, Fun_IsSurj
  <2>5. IsFiniteSet(1 .. n)
    BY <2>2, FS_Interval
  <2> QED BY <2>4, <2>5, FS_Surjection
<1> QED BY <1>1, FS_Subset, FS_CardinalityType DEF Total

\* There is a next loop as long as one is left.
LEMMA NextLoopIs ==
    ASSUME NEW left \in SUBSET AllLoops, left # {}
    PROVE  NextLoop(left) \in left
<1> DEFINE S == {n \in DOMAIN SessionOrder : LoopOf[SessionOrder[n]] \in left}
           R == {ss \in Nat \X Nat : ss[1] < ss[2]}
<1>1. SessionOrder \in Seq(Sessions) /\ Range(SessionOrder) = Sessions
  BY DirectAssumption
<1>2. DOMAIN SessionOrder = 1 .. Len(SessionOrder) /\ Len(SessionOrder) \in Nat
  BY <1>1
<1>3. S \in SUBSET Nat /\ S # {}
  <2>1. PICK s \in Sessions : LoopOf[s] \in left
    BY DEF AllLoops
  <2>2. PICK n \in DOMAIN SessionOrder : SessionOrder[n] = s
    BY <1>1 DEF Range
  <2>3. n \in S
    BY <2>1, <2>2
  <2>4. S \in SUBSET Nat
    BY <1>2
  <2> QED BY ONLY <2>3, <2>4
<1>4. PICK n \in S : \A k \in S : ~(<<k, n>> \in R)
  <2>1. IsWellFoundedOn(R, Nat)
    BY NatLessThanWellFounded DEF OpToRel
  <2> HIDE DEF R, S
  <2> QED BY <1>3, <2>1, WFMin
<1>5. n \in Nat /\ n \in DOMAIN SessionOrder /\ LoopOf[SessionOrder[n]] \in left
  BY <1>2, <1>4
<1>6. FirstOf(left, n)
  <2>1. SUFFICES ASSUME NEW k \in 1 .. n - 1, LoopOf[SessionOrder[k]] \in left PROVE FALSE
    BY <1>5 DEF FirstOf
  <2>2. k \in Nat /\ k < n /\ k \in DOMAIN SessionOrder
    BY <1>2, <1>5
  <2>3. k \in S /\ <<k, n>> \in R
    BY <1>5, <2>1, <2>2
  <2> HIDE DEF R, S
  <2> QED BY <1>4, <2>3
<1> DEFINE first == CHOOSE k \in DOMAIN SessionOrder : FirstOf(left, k)
<1>7. first \in DOMAIN SessionOrder /\ FirstOf(left, first)
  BY ONLY <1>5, <1>6
<1> QED BY <1>7 DEF NextLoop, FirstOf

\* Loops are those of sessions, and every session has one or none.
LEMMA LoopsAre ==
    /\ AllLoops \subseteq Loops
    /\ \A s \in Sessions : LoopOf[s] \in AllLoops \/ LoopOf[s] = NoLoop
    /\ \A l \in AllLoops : SessionsOf(l) # {} /\ l # NoLoop
BY DirectAssumption DEF AllLoops, SessionsOf

-----------------------------------------------------------------------------
(* What a step does to the books *)

\* What a caller holds quota for.
Share(p) == {s \in Sessions : p.at = "scan" \/ (p.at = "dispatch" /\ LoopOf[s] \in p.left)}

LEMMA SharesAre ==
    ASSUME NEW p
    PROVE  /\ p.at \in {"idle", "reserve"} => Share(p) = {}
           /\ p.at = "scan" => Share(p) = Sessions
           /\ p.at = "dispatch" => Share(p) = SessionsAt(p.left)
BY DEF Share, SessionsAt

LEMMA ShareChanges ==
    ASSUME IsFiniteSet(Undispatched), NEW c \in Callers,
           \A d \in Callers \ {c} : sending'[d] = sending[d]
    PROVE  /\ IsFiniteSet(Undispatched') /\ Cardinality(Undispatched) \in Nat
           /\ Cardinality(Undispatched') =
                Cardinality(Undispatched) - Cardinality(Share(sending[c]))
                                          + Cardinality(Share(sending'[c]))
<1> DEFINE A == Undispatched
           B == {c} \X Share(sending[c])
           N == {c} \X Share(sending'[c])
<1>1. Share(sending[c]) \subseteq Sessions /\ Share(sending'[c]) \subseteq Sessions
  BY DEF Share
<1>2. IsFiniteSet(Share(sending[c])) /\ IsFiniteSet(Share(sending'[c]))
  BY <1>1, SessionsAreFinite
<1>3. B \subseteq A
  BY DEF Undispatched, Share
<1>4. Undispatched' = (A \ B) \cup N
  BY DEF Undispatched, Share
<1>5. (A \ B) \cap N = {}
  BY DEF Undispatched, Share
<1>6. /\ IsFiniteSet(B) /\ Cardinality(B) = Cardinality(Share(sending[c]))
      /\ IsFiniteSet(N) /\ Cardinality(N) = Cardinality(Share(sending'[c]))
  BY <1>2, PairsCount
<1> HIDE DEF A, B, N
<1>7. IsFiniteSet(A)
  BY DEF A
<1>8. /\ IsFiniteSet(A \ B) /\ Cardinality(A \ B) = Cardinality(A) - Cardinality(B)
      /\ Cardinality(A) \in Nat /\ Cardinality(B) \in Nat
  BY ONLY <1>3, <1>7, Taken
<1>9. /\ IsFiniteSet((A \ B) \cup N)
      /\ Cardinality((A \ B) \cup N) = Cardinality(A \ B) + Cardinality(N)
      /\ Cardinality(N) \in Nat
  BY ONLY <1>5, <1>6, <1>8, Added
<1>10. Cardinality(Undispatched') = Cardinality(A) - Cardinality(B) + Cardinality(N)
  BY ONLY <1>4, <1>8, <1>9
<1> QED BY <1>4, <1>6, <1>8, <1>9, <1>10 DEF A

LEMMA NothingTaken ==
    ASSUME DirectInv, NEW c \in Callers, \A d \in Callers \ {c} : sending'[d] = sending[d],
           Share(sending[c]) = {}, Share(sending'[c]) = {}
    PROVE  IsFiniteSet(Undispatched') /\ Cardinality(Undispatched') = Cardinality(Undispatched)
<1>1. /\ IsFiniteSet(Undispatched') /\ Cardinality(Undispatched) \in Nat
      /\ Cardinality(Undispatched') =
            Cardinality(Undispatched) - Cardinality({}) + Cardinality({})
  <2>1. IsFiniteSet(Undispatched)
    BY DEF DirectInv, QuotaInv
  <2> QED BY <2>1, ShareChanges
<1> QED BY <1>1, FS_EmptySet

\* A batch handed to a loop, and one it has written.
LEMMA QueuedIs ==
    ASSUME NEW s, NEW n
    PROVE  <<s, n>> \in Queued <=>
                s \in Sessions /\ LoopOf[s] # NoLoop /\ n \in DOMAIN batches[LoopOf[s]]
BY DEF Queued

LEMMA QueuedGrows ==
    ASSUME IsFiniteSet(Queued), batches \in [Loops -> Seq(DirectMsgs)],
           NEW l \in AllLoops, NEW m \in DirectMsgs,
           batches' = [batches EXCEPT ![l] = Append(@, m)]
    PROVE  /\ IsFiniteSet(Queued') /\ Cardinality(Queued) \in Nat
           /\ Cardinality(Queued') = Cardinality(Queued) + Cardinality(SessionsOf(l))
<1> DEFINE n == Len(batches[l]) + 1
           N == SessionsOf(l) \X {n}
<1>1. l \in Loops /\ l # NoLoop
  BY LoopsAre
<1>2. DOMAIN batches[l] = 1 .. n - 1 /\ DOMAIN batches'[l] = 1 .. n /\ n \in Nat \ {0}
  BY <1>1
<1>3. \A k \in Loops \ {l} : batches'[k] = batches[k]
  BY <1>1
<1>4. \A s \in Sessions : LoopOf[s] # NoLoop => LoopOf[s] \in Loops
  BY LoopsAre
<1>5. DOMAIN batches'[l] = DOMAIN batches[l] \cup {n} /\ n \notin DOMAIN batches[l]
  BY ONLY <1>2
<1> HIDE DEF n
<1>6. Queued' = Queued \cup N
  BY <1>1, <1>3, <1>4, <1>5 DEF Queued, SessionsOf
<1>7. Queued \cap N = {}
  BY <1>5 DEF Queued, SessionsOf
<1>8. IsFiniteSet(N) /\ Cardinality(N) = Cardinality(SessionsOf(l))
  BY SessionsAreFinite, PairsCount DEF SessionsOf
<1> HIDE DEF N
<1> QED BY <1>6, <1>7, <1>8, Added

LEMMA QueuedShrinks ==
    ASSUME IsFiniteSet(Queued), batches \in [Loops -> Seq(DirectMsgs)],
           NEW l \in Loops, batches[l] # <<>>,
           batches' = [batches EXCEPT ![l] = Tail(@)]
    PROVE  /\ IsFiniteSet(Queued') /\ Cardinality(Queued) \in Nat
           /\ Cardinality(Queued') = Cardinality(Queued) - Cardinality(SessionsOf(l))
<1> DEFINE n == Len(batches[l])
           N == SessionsOf(l) \X {n}
<1>1. l # NoLoop
  BY DirectAssumption
<1>2. DOMAIN batches[l] = 1 .. n /\ DOMAIN batches'[l] = 1 .. n - 1 /\ n \in Nat \ {0}
  BY <1>1
<1>3. \A k \in Loops \ {l} : batches'[k] = batches[k]
  OBVIOUS
<1>4. \A s \in Sessions : LoopOf[s] # NoLoop => LoopOf[s] \in Loops
  BY LoopsAre
<1>5. DOMAIN batches'[l] = DOMAIN batches[l] \ {n} /\ n \in DOMAIN batches[l]
  BY ONLY <1>2
<1> HIDE DEF n
<1>6. Queued' = Queued \ N
  BY <1>1, <1>3, <1>4, <1>5 DEF Queued, SessionsOf
<1>7. N \subseteq Queued
  BY <1>1, <1>5 DEF Queued, SessionsOf
<1>8. IsFiniteSet(N) /\ Cardinality(N) = Cardinality(SessionsOf(l))
  BY SessionsAreFinite, PairsCount DEF SessionsOf
<1> HIDE DEF N
<1> QED BY <1>6, <1>7, <1>8, Taken

-----------------------------------------------------------------------------
(* The steps *)

LEMMA DirectInitHolds == DirectInit => DirectInv
<1> SUFFICES ASSUME DirectInit PROVE DirectInv
  OBVIOUS
<1>1. /\ sending = [c \in Callers |-> NotSending] /\ inFlight = 0
      /\ batches = [l \in Loops |-> <<>>] /\ congested = {} /\ begun = 0
      /\ said = [m \in DirectMsgs |-> "nothing"] /\ skippedThenFailed = FALSE
  BY DEF DirectInit
<1>2. \A c \in Callers : sending[c].at = "idle"
  BY <1>1 DEF NotSending
<1>3. DirectTypes
  <2>1. sending \in [Callers -> Progress]
    BY <1>1 DEF Progress
  <2>2. batches \in [Loops -> Seq(DirectMsgs)]
    BY <1>1
  <2>3. said \in [DirectMsgs -> {"nothing", "gated", "full", "failed", "sent"}]
    BY <1>1
  <2>4. 0 \in 0 .. MaxDirect
    BY DirectAssumption
  <2>5. /\ inFlight \in Int /\ begun \in 0 .. MaxDirect /\ congested \subseteq Sessions
    BY <1>1, <2>4
  <2>6. skippedThenFailed \in BOOLEAN
    BY <1>1, Zenon
  <2> QED BY <2>1, <2>2, <2>3, <2>5, <2>6 DEF DirectTypes
<1>4. CountsInv /\ ServedInv
  BY <1>2 DEF CountsInv, ServedInv
<1>5. QuotaInv
  <2>1. Undispatched = {}
    BY <1>2 DEF Undispatched
  <2>2. Queued = {}
    <3>1. SUFFICES ASSUME NEW p \in Queued PROVE FALSE
      OBVIOUS
    <3>2. PICK s \in Sessions : LoopOf[s] # NoLoop /\ p \in {s} \X DOMAIN batches[LoopOf[s]]
      BY DEF Queued
    <3>3. LoopOf[s] \in Loops
      BY <3>2, LoopsAre
    <3>4. batches[LoopOf[s]] = <<>>
      BY <1>1, <3>3
    <3> QED BY <3>2, <3>4
  <2>3. inFlight = Held
    BY <1>1, <2>1, <2>2, FS_EmptySet DEF Held
  <2>4. MaxDirectInFlight \in Nat
    BY DirectAssumption
  <2> QED BY <1>1, <2>1, <2>2, <2>3, <2>4, FS_EmptySet DEF QuotaInv, DirectQuotaExact
<1>6. DirectPromiseKept
  <2>1. \A m \in DirectMsgs : said[m] # "sent"
    BY <1>1
  <2> QED BY <2>1 DEF DirectPromiseKept
<1> QED BY <1>3, <1>4, <1>5, <1>6 DEF DirectInv

\* A step of one caller.
LEMMA CallerStep ==
    ASSUME DirectInv, DirectTypes', QuotaInv', NEW c \in Callers,
           \A d \in Callers \ {c} : sending'[d] = sending[d],
           sending'[c].at = "dispatch" =>
              /\ sending'[c].dispatched + sending'[c].gated
                    + Cardinality(SessionsAt(sending'[c].left)) = Total
              /\ \A m \in DirectMsgs : sending'[c].gated = 0 /\ sending'[c].msg = m =>
                    \A s \in Sessions \ SessionsAt(sending'[c].left) : Served(m, s)',
           \A m \in DirectMsgs : \A s \in Sessions : Served(m, s) => Served(m, s)',
           \A m \in DirectMsgs : said'[m] = "sent" =>
              said[m] = "sent" \/ \A s \in Sessions : Served(m, s)'
    PROVE  DirectInv'
<1>1. CountsInv'
  <2>1. \A d \in Callers \ {c} : sending'[d].at = "dispatch" =>
          sending'[d].dispatched + sending'[d].gated
             + Cardinality(SessionsAt(sending'[d].left)) = Total
    BY DEF DirectInv, CountsInv
  <2> QED BY <2>1 DEF CountsInv
<1>2. ServedInv'
  <2>1. SUFFICES ASSUME NEW d \in Callers, NEW m \in DirectMsgs,
                        sending'[d].at = "dispatch", sending'[d].gated = 0, sending'[d].msg = m,
                        NEW s \in Sessions \ SessionsAt(sending'[d].left)
                 PROVE  Served(m, s)'
    BY DEF ServedInv
  <2>2. CASE d = c
    BY <2>1, <2>2
  <2>3. CASE d # c
    <3>1. sending'[d] = sending[d]
      BY <2>3
    <3>2. Served(m, s)
      BY <2>1, <3>1 DEF DirectInv, ServedInv
    <3> QED BY <3>2
  <2> QED BY <2>2, <2>3
<1>3. DirectPromiseKept'
  <2>1. SUFFICES ASSUME NEW m \in DirectMsgs, said'[m] = "sent", NEW s \in Sessions
                 PROVE  Served(m, s)'
    BY DEF DirectPromiseKept, Served
  <2>2. CASE said[m] = "sent"
    <3>1. Served(m, s)
      BY <2>2 DEF DirectInv, DirectPromiseKept, Served
    <3> QED BY <3>1
  <2> QED BY <2>1, <2>2
<1> QED BY <1>1, <1>2, <1>3 DEF DirectInv

\* What is served stays so while no loop writes.
LEMMA ServedStays ==
    ASSUME batches' = batches, written \subseteq written'
    PROVE  \A m \in DirectMsgs : \A s \in Sessions : Served(m, s) => Served(m, s)'
BY DEF Served

LEMMA DirectBeginKeeps ==
    ASSUME DirectInv, NEW c \in Callers, DirectBegin(c)
    PROVE  DirectInv'
<1>1. /\ sending[c].at = "idle" /\ begun < MaxDirect /\ begun' = begun + 1
      /\ inFlight' = inFlight /\ batches' = batches /\ congested' = congested
      /\ written' = written /\ skippedThenFailed' = skippedThenFailed
  BY DEF DirectBegin
<1>2. begun + 1 \in DirectMsgs /\ begun' \in 0 .. MaxDirect
  BY <1>1, DirectAssumption DEF DirectInv, DirectTypes, DirectMsgs
<1>3. \/ sending' = sending /\ said' = [said EXCEPT ![begun + 1] = "gated"]
      \/ /\ said' = said
         /\ sending' = [sending EXCEPT ![c] =
                [at |-> "reserve", msg |-> begun + 1, dispatched |-> 0, gated |-> 0,
                 left |-> {}]]
  BY DEF DirectBegin, SayTo
<1>4. /\ sending' \in [Callers -> Progress] /\ sending'[c].at \in {"idle", "reserve"}
      /\ \A d \in Callers \ {c} : sending'[d] = sending[d]
      /\ said' \in [DirectMsgs -> {"nothing", "gated", "full", "failed", "sent"}]
      /\ \A m \in DirectMsgs : said'[m] = "sent" => said[m] = "sent"
  <2>1. CASE sending' = sending /\ said' = [said EXCEPT ![begun + 1] = "gated"]
    BY <1>1, <2>1 DEF DirectInv, DirectTypes
  <2>2. CASE /\ said' = said
             /\ sending' = [sending EXCEPT ![c] =
                    [at |-> "reserve", msg |-> begun + 1, dispatched |-> 0, gated |-> 0,
                     left |-> {}]]
    BY <1>1, <1>2, <2>2 DEF DirectInv, DirectTypes, Progress
  <2> QED BY <1>3, <2>1, <2>2
<1>5. DirectTypes'
  BY <1>1, <1>2, <1>4 DEF DirectInv, DirectTypes
<1>6. QuotaInv'
  <2>1. Share(sending[c]) = {} /\ Share(sending'[c]) = {}
    BY <1>1, <1>4, SharesAre
  <2>2. IsFiniteSet(Undispatched') /\ Cardinality(Undispatched') = Cardinality(Undispatched)
    BY <1>4, <2>1, NothingTaken
  <2>3. Queued' = Queued
    BY <1>1 DEF Queued
  <2> QED BY <1>1, <2>2, <2>3 DEF DirectInv, QuotaInv, DirectQuotaExact, Held
<1> QED BY <1>1, <1>4, <1>5, <1>6, ServedStays, CallerStep

LEMMA DirectReserveKeeps ==
    ASSUME DirectInv, NEW c \in Callers, DirectReserve(c)
    PROVE  DirectInv'
<1> DEFINE p == sending[c]
<1>1. /\ p.at = "reserve" /\ begun' = begun
      /\ batches' = batches /\ congested' = congested
      /\ written' = written /\ skippedThenFailed' = skippedThenFailed
  BY DEF DirectReserve
<1>2. p \in Progress /\ inFlight \in Int /\ MaxDirectInFlight \in Nat /\ Total \in Nat
  BY DirectAssumption, SessionsAreFinite DEF DirectInv, DirectTypes
<1>3. p.msg \in DirectMsgs
  BY <1>1, <1>2 DEF Progress, NotSending
<1>4. CASE OverLimit
  <2>1. /\ said' = [said EXCEPT ![p.msg] = "full"] /\ inFlight' = inFlight
        /\ sending' = [sending EXCEPT ![c] = NotSending]
    BY <1>4 DEF DirectReserve, SayTo
  <2>2. /\ sending' \in [Callers -> Progress] /\ sending'[c].at = "idle"
        /\ \A d \in Callers \ {c} : sending'[d] = sending[d]
        /\ said' \in [DirectMsgs -> {"nothing", "gated", "full", "failed", "sent"}]
        /\ \A m \in DirectMsgs : said'[m] = "sent" => said[m] = "sent"
    BY <2>1 DEF DirectInv, DirectTypes, Progress, NotSending
  <2>3. DirectTypes'
    BY <1>1, <2>1, <2>2 DEF DirectInv, DirectTypes
  <2>4. QuotaInv'
    <3>1. Share(sending[c]) = {} /\ Share(sending'[c]) = {}
      BY <1>1, <2>2, SharesAre
    <3>2. IsFiniteSet(Undispatched') /\ Cardinality(Undispatched') = Cardinality(Undispatched)
      BY <2>2, <3>1, NothingTaken
    <3>3. Queued' = Queued
      BY <1>1 DEF Queued
    <3> QED BY <1>1, <2>1, <3>2, <3>3 DEF DirectInv, QuotaInv, DirectQuotaExact, Held
  <2> QED BY <1>1, <2>2, <2>3, <2>4, ServedStays, CallerStep
<1>5. CASE ~OverLimit
  <2>1. /\ said' = said /\ inFlight' = inFlight + Total
        /\ sending' = [sending EXCEPT ![c].at = "scan"]
    BY <1>5 DEF DirectReserve
  <2>2. /\ sending' \in [Callers -> Progress] /\ sending'[c].at = "scan"
        /\ \A d \in Callers \ {c} : sending'[d] = sending[d]
    <3>1. sending \in [Callers -> Progress]
      BY DEF DirectInv, DirectTypes
    <3>2. sending'[c] = [p EXCEPT !.at = "scan"] /\ \A d \in Callers \ {c} : sending'[d] = sending[d]
      BY <2>1, <3>1
    <3>3. p \in [at : {"reserve", "scan", "dispatch"}, msg : DirectMsgs, dispatched : Nat,
                 gated : Nat, left : SUBSET AllLoops]
      BY <1>1, <1>2 DEF Progress, NotSending
    <3>4. [p EXCEPT !.at = "scan"] \in Progress /\ [p EXCEPT !.at = "scan"].at = "scan"
      BY ONLY <3>3 DEF Progress
    <3>5. sending' \in [Callers -> Progress]
      BY <2>1, <3>1, <3>2, <3>4
    <3> QED BY <3>2, <3>4, <3>5
  <2>3. DirectTypes'
    BY <1>1, <1>2, <2>1, <2>2 DEF DirectInv, DirectTypes
  <2>4. QuotaInv'
    <3>1. Share(sending[c]) = {} /\ Share(sending'[c]) = Sessions
      BY <1>1, <2>2, SharesAre
    <3>2. /\ IsFiniteSet(Undispatched')
          /\ Cardinality(Undispatched') = Cardinality(Undispatched) - 0 + Total
          /\ Cardinality(Undispatched) \in Nat
      BY <2>2, <3>1, ShareChanges, FS_EmptySet DEF DirectInv, QuotaInv, Total
    <3>3. Queued' = Queued /\ Cardinality(Queued) \in Nat
      BY <1>1, FS_CardinalityType DEF Queued, DirectInv, QuotaInv
    <3>4. MaxDirectInFlight # 0 => inFlight + Total <= MaxDirectInFlight
      BY <1>2, <1>5 DEF OverLimit
    <3>5. inFlight = Held => inFlight + Total = Held'
      BY <1>2, <3>2, <3>3 DEF Held
    <3> QED BY <1>1, <2>1, <3>2, <3>3, <3>4, <3>5 DEF DirectInv, QuotaInv, DirectQuotaExact
  <2>5. \A m \in DirectMsgs : said'[m] = "sent" => said[m] = "sent"
    BY <2>1
  <2> QED BY <1>1, <2>2, <2>3, <2>4, <2>5, ServedStays, CallerStep
<1> QED BY <1>4, <1>5

LEMMA DirectScanKeeps ==
    ASSUME DirectInv, NEW c \in Callers, DirectScan(c)
    PROVE  DirectInv'
<1> DEFINE p == sending[c]
           direct == SessionsOf(NoLoop)
           open == direct \ congested
           q == [at |-> "dispatch", msg |-> p.msg, dispatched |-> Cardinality(open),
                 gated |-> Cardinality(direct \ open), left |-> AllLoops]
<1>1. /\ p.at = "scan" /\ inFlight' = inFlight - Cardinality(direct)
      /\ written' = written \cup Copies(p.msg, open)
      /\ sending' = [sending EXCEPT ![c] = q]
      /\ begun' = begun /\ batches' = batches /\ congested' = congested /\ said' = said
      /\ skippedThenFailed' = skippedThenFailed
  BY DEF DirectScan
<1>2. /\ p \in Progress /\ inFlight \in Int /\ sending \in [Callers -> Progress]
      /\ MaxDirectInFlight \in Nat
  BY DirectAssumption DEF DirectInv, DirectTypes
<1>3. p.msg \in DirectMsgs
  BY <1>1, <1>2 DEF Progress, NotSending
<1>4. direct \subseteq Sessions /\ open \subseteq direct
      /\ direct \cap SessionsAt(AllLoops) = {} /\ direct \cup SessionsAt(AllLoops) = Sessions
  BY LoopsAre DEF SessionsOf, SessionsAt, AllLoops
<1>5. /\ IsFiniteSet(direct) /\ IsFiniteSet(open) /\ IsFiniteSet(direct \ open)
      /\ IsFiniteSet(SessionsAt(AllLoops)) /\ Total \in Nat
      /\ Cardinality(direct) \in Nat /\ Cardinality(open) \in Nat
      /\ Cardinality(direct \ open) \in Nat /\ Cardinality(SessionsAt(AllLoops)) \in Nat
  BY <1>4, SessionsAreFinite DEF SessionsAt
<1>6. q \in Progress
  BY <1>3, <1>5 DEF Progress
<1>7. /\ sending'[c] = q /\ \A d \in Callers \ {c} : sending'[d] = sending[d]
      /\ sending' \in [Callers -> Progress]
  BY <1>1, <1>2, <1>6
<1>8. /\ q.at = "dispatch" /\ q.left = AllLoops /\ q.msg = p.msg
      /\ q.dispatched = Cardinality(open) /\ q.gated = Cardinality(direct \ open)
  OBVIOUS
<1> HIDE DEF p, q, direct, open
<1>9. DirectTypes'
  BY <1>1, <1>2, <1>5, <1>7 DEF DirectInv, DirectTypes
<1>10. Cardinality(direct \ open) = Cardinality(direct) - Cardinality(open)
  BY ONLY <1>4, <1>5, Taken
<1>11. Total = Cardinality(direct) + Cardinality(SessionsAt(AllLoops))
  BY ONLY <1>4, <1>5, Added DEF Total
<1>12. q.dispatched + q.gated + Cardinality(SessionsAt(q.left)) = Total
  BY ONLY <1>5, <1>8, <1>10, <1>11
<1>13. QuotaInv'
  <2>1. Share(sending[c]) = Sessions /\ Share(sending'[c]) = SessionsAt(AllLoops)
    BY <1>1, <1>7, <1>8, SharesAre DEF p
  <2>2. /\ IsFiniteSet(Undispatched') /\ Cardinality(Undispatched) \in Nat
        /\ Cardinality(Undispatched') =
             Cardinality(Undispatched) - Total + Cardinality(SessionsAt(AllLoops))
    BY <1>7, <2>1, ShareChanges DEF DirectInv, QuotaInv, Total
  <2>3. Queued' = Queued /\ Cardinality(Queued) \in Nat
    BY <1>1, FS_CardinalityType DEF Queued, DirectInv, QuotaInv
  <2>4. Cardinality(Undispatched') = Cardinality(Undispatched) - Cardinality(direct)
    BY ONLY <1>5, <1>11, <2>2
  <2>5. inFlight = Held => inFlight' = Held'
    BY <1>1, <1>2, <1>5, <2>2, <2>3, <2>4 DEF Held
  <2>6. inFlight <= MaxDirectInFlight => inFlight' <= MaxDirectInFlight
    BY <1>1, <1>2, <1>5
  <2> QED BY <1>1, <2>2, <2>3, <2>5, <2>6 DEF DirectInv, QuotaInv, DirectQuotaExact
<1>14. \A m \in DirectMsgs : q.gated = 0 /\ q.msg = m =>
          \A s \in Sessions \ SessionsAt(q.left) : Served(m, s)'
  <2>1. SUFFICES ASSUME NEW m \in DirectMsgs, q.gated = 0, q.msg = m,
                        NEW s \in Sessions \ SessionsAt(q.left)
                 PROVE  [msg |-> m, to |-> s] \in written'
    BY DEF Served
  <2>2. direct \ open = {}
    BY <1>5, <1>8, <2>1, FS_EmptySet
  <2>3. s \in open
    BY <1>4, <1>8, <2>1, <2>2
  <2> QED BY <1>1, <1>8, <2>1, <2>3 DEF Copies
<1>15. \A m \in DirectMsgs : \A s \in Sessions : Served(m, s) => Served(m, s)'
  BY <1>1, ServedStays
<1> QED BY <1>1, <1>7, <1>9, <1>12, <1>13, <1>14, <1>15, CallerStep

LEMMA DirectDispatchKeeps ==
    ASSUME DirectInv, NEW c \in Callers, DirectDispatch(c)
    PROVE  DirectInv'
<1> DEFINE p == sending[c]
           l == NextLoop(p.left)
           k == Cardinality(SessionsOf(l))
           q == [p EXCEPT !.left = @ \ {l}, !.dispatched = @ + k]
<1>1. /\ p.at = "dispatch" /\ p.left # {} /\ inFlight' = inFlight
      /\ batches' = [batches EXCEPT ![l] = Append(@, p.msg)]
      /\ sending' = [sending EXCEPT ![c] = q]
      /\ begun' = begun /\ congested' = congested /\ said' = said /\ written' = written
      /\ skippedThenFailed' = skippedThenFailed
  BY DEF DirectDispatch
<1>2. /\ p \in Progress /\ inFlight \in Int /\ sending \in [Callers -> Progress]
      /\ batches \in [Loops -> Seq(DirectMsgs)]
  BY DEF DirectInv, DirectTypes
<1>3. p \in [at : {"reserve", "scan", "dispatch"}, msg : DirectMsgs, dispatched : Nat,
             gated : Nat, left : SUBSET AllLoops]
  BY <1>1, <1>2 DEF Progress, NotSending
<1>4. l \in p.left /\ l \in AllLoops /\ l \in Loops
  <2>1. p.left \in SUBSET AllLoops
    BY <1>3
  <2> QED BY <1>1, <2>1, NextLoopIs, LoopsAre
<1>5. /\ SessionsOf(l) \subseteq SessionsAt(p.left)
      /\ SessionsAt(p.left \ {l}) = SessionsAt(p.left) \ SessionsOf(l)
  BY <1>4 DEF SessionsOf, SessionsAt
<1>6. IsFiniteSet(SessionsAt(p.left)) /\ k \in Nat
  BY SessionsAreFinite DEF SessionsAt, SessionsOf
<1> HIDE DEF k, l
<1>7. /\ q.at = "dispatch" /\ q.left = p.left \ {l} /\ q.msg = p.msg /\ q.gated = p.gated
      /\ q.dispatched = p.dispatched + k /\ q \in Progress
      /\ p.msg \in DirectMsgs /\ p.dispatched \in Nat /\ p.gated \in Nat
  <2>1. /\ q.at = p.at /\ q.left = p.left \ {l} /\ q.msg = p.msg /\ q.gated = p.gated
        /\ q.dispatched = p.dispatched + k /\ p.dispatched \in Nat
    BY ONLY <1>3
  <2>2. q \in [at : {"reserve", "scan", "dispatch"}, msg : DirectMsgs, dispatched : Nat,
               gated : Nat, left : SUBSET AllLoops]
    <3>1. p.left \ {l} \in SUBSET AllLoops /\ p.dispatched + k \in Nat
      BY ONLY <1>3, <1>6
    <3> QED BY ONLY <1>3, <3>1
  <2> HIDE DEF q
  <2> QED BY <1>1, <1>3, <2>1, <2>2 DEF Progress
<1>8. /\ sending'[c] = q /\ \A d \in Callers \ {c} : sending'[d] = sending[d]
      /\ sending' \in [Callers -> Progress]
  BY <1>1, <1>2, <1>7
<1> HIDE DEF p, q
<1>9. DirectTypes'
  <2>1. batches' \in [Loops -> Seq(DirectMsgs)]
    BY <1>1, <1>2, <1>4, <1>7
  <2> QED BY <1>1, <1>8, <2>1 DEF DirectInv, DirectTypes
<1>10. /\ Cardinality(SessionsAt(q.left)) = Cardinality(SessionsAt(p.left)) - k
       /\ Cardinality(SessionsAt(p.left)) \in Nat
  BY <1>5, <1>6, <1>7, Taken DEF k
<1>11. q.dispatched + q.gated + Cardinality(SessionsAt(q.left)) = Total
  <2>1. p.dispatched + p.gated + Cardinality(SessionsAt(p.left)) = Total
    BY <1>1 DEF DirectInv, CountsInv, p
  <2> QED BY ONLY <1>6, <1>7, <1>10, <2>1
<1>12. QuotaInv'
  <2>1. Share(sending[c]) = SessionsAt(p.left) /\ Share(sending'[c]) = SessionsAt(q.left)
    BY <1>1, <1>7, <1>8, SharesAre DEF p
  <2>2. /\ IsFiniteSet(Undispatched') /\ Cardinality(Undispatched) \in Nat
        /\ Cardinality(Undispatched') =
             Cardinality(Undispatched) - Cardinality(SessionsAt(p.left))
                                       + Cardinality(SessionsAt(q.left))
    BY <1>8, <2>1, ShareChanges DEF DirectInv, QuotaInv
  <2>3. /\ IsFiniteSet(Queued') /\ Cardinality(Queued) \in Nat
        /\ Cardinality(Queued') = Cardinality(Queued) + k
    BY <1>1, <1>2, <1>4, <1>7, QueuedGrows DEF DirectInv, QuotaInv, k
  <2>4. Held' = Held
    BY <1>6, <1>10, <2>2, <2>3 DEF Held
  <2> QED BY <1>1, <2>2, <2>3, <2>4 DEF DirectInv, QuotaInv, DirectQuotaExact
<1>13. \A j \in Loops : Range(batches[j]) \subseteq Range(batches'[j])
  <2>1. SUFFICES ASSUME NEW j \in Loops, NEW i \in DOMAIN batches[j]
                 PROVE  i \in DOMAIN batches'[j] /\ batches'[j][i] = batches[j][i]
    BY DEF Range
  <2>2. CASE j # l
    BY <1>1, <1>2, <2>2
  <2>3. CASE j = l
    BY <1>1, <1>2, <1>4, <1>7, <2>3
  <2> QED BY <2>2, <2>3
<1>14. p.msg \in Range(batches'[l])
  <2>1. batches'[l] = Append(batches[l], p.msg) /\ batches[l] \in Seq(DirectMsgs)
    BY <1>1, <1>2, <1>4
  <2>2. Len(batches[l]) + 1 \in DOMAIN batches'[l]
        /\ batches'[l][Len(batches[l]) + 1] = p.msg
    BY <2>1, <1>7
  <2> QED BY <2>2 DEF Range
<1>15. \A m \in DirectMsgs : \A s \in Sessions : Served(m, s) => Served(m, s)'
  BY <1>1, <1>13 DEF Served
<1>16. \A m \in DirectMsgs : q.gated = 0 /\ q.msg = m =>
          \A s \in Sessions \ SessionsAt(q.left) : Served(m, s)'
  <2>1. SUFFICES ASSUME NEW m \in DirectMsgs, q.gated = 0, q.msg = m,
                        NEW s \in Sessions \ SessionsAt(q.left)
                 PROVE  Served(m, s)'
    OBVIOUS
  <2>2. CASE s \in SessionsOf(l)
    <3>1. LoopOf[s] = l
      BY <2>2 DEF SessionsOf
    <3> QED BY <1>4, <1>7, <1>14, <2>1, <3>1 DEF Served
  <2>3. CASE s \notin SessionsOf(l)
    <3>1. s \in Sessions \ SessionsAt(p.left)
      BY <1>5, <1>7, <2>1, <2>3
    <3>2. Served(m, s)
      BY <1>1, <1>7, <2>1, <3>1 DEF DirectInv, ServedInv, p
    <3> QED BY <1>15, <3>2
  <2> QED BY <2>2, <2>3
<1> QED BY <1>1, <1>8, <1>9, <1>11, <1>12, <1>15, <1>16, CallerStep

LEMMA DirectDispatchFailsKeeps ==
    ASSUME DirectInv, NEW c \in Callers, DirectDispatchFails(c)
    PROVE  DirectInv'
<1> DEFINE p == sending[c]
<1>1. /\ p.at = "dispatch" /\ inFlight' = inFlight - (Total - p.dispatched)
      /\ said' = [said EXCEPT ![p.msg] = "failed"]
      /\ sending' = [sending EXCEPT ![c] = NotSending]
      /\ begun' = begun /\ batches' = batches /\ congested' = congested /\ written' = written
  BY DEF DirectDispatchFails, SayTo
<1>2. skippedThenFailed' = (skippedThenFailed \/ p.gated > 0)
  BY DEF DirectDispatchFails
<1>3. /\ p \in Progress /\ inFlight \in Int /\ sending \in [Callers -> Progress]
      /\ MaxDirectInFlight \in Nat /\ skippedThenFailed \in BOOLEAN
  BY DirectAssumption DEF DirectInv, DirectTypes
<1>4. p \in [at : {"reserve", "scan", "dispatch"}, msg : DirectMsgs, dispatched : Nat,
             gated : Nat, left : SUBSET AllLoops]
  BY <1>1, <1>3 DEF Progress, NotSending
<1>5. /\ sending'[c] = NotSending /\ NotSending.at = "idle"
      /\ \A d \in Callers \ {c} : sending'[d] = sending[d]
      /\ sending' \in [Callers -> Progress]
  BY <1>1, <1>3 DEF Progress, NotSending
<1> HIDE DEF p
<1>6. /\ skippedThenFailed' \in BOOLEAN
      /\ ~skippedThenFailed' => ~skippedThenFailed /\ p.gated = 0
  <2>1. ~skippedThenFailed' => ~skippedThenFailed /\ ~(p.gated > 0)
    BY ONLY <1>2
  <2>2. skippedThenFailed' \in BOOLEAN
    BY ONLY <1>2, SMT
  <2>3. p.gated \in Nat
    BY <1>4
  <2> QED BY ONLY <2>1, <2>2, <2>3
<1>7. DirectTypes'
  <2>1. said' \in [DirectMsgs -> {"nothing", "gated", "full", "failed", "sent"}]
    BY <1>1 DEF DirectInv, DirectTypes
  <2>2. inFlight' \in Int
    <3>1. p.dispatched \in Nat /\ Total \in Nat
      BY <1>4, SessionsAreFinite
    <3> QED BY <1>1, <1>3, <3>1
  <2> QED BY <1>1, <1>5, <1>6, <2>1, <2>2 DEF DirectInv, DirectTypes
<1>8. QuotaInv'
  <2>1. Share(sending[c]) = SessionsAt(p.left) /\ Share(sending'[c]) = {}
    BY <1>1, <1>5, SharesAre DEF p
  <2>2. /\ IsFiniteSet(Undispatched') /\ Cardinality(Undispatched) \in Nat
        /\ Cardinality(Undispatched') =
             Cardinality(Undispatched) - Cardinality(SessionsAt(p.left)) + 0
    BY <1>5, <2>1, ShareChanges, FS_EmptySet DEF DirectInv, QuotaInv
  <2>3. Queued' = Queued /\ IsFiniteSet(Queued) /\ Cardinality(Queued) \in Nat
    BY <1>1, FS_CardinalityType DEF Queued, DirectInv, QuotaInv
  <2>4. /\ p.dispatched + p.gated + Cardinality(SessionsAt(p.left)) = Total
        /\ Cardinality(SessionsAt(p.left)) \in Nat /\ p.dispatched \in Nat /\ p.gated \in Nat
    BY <1>1, <1>4, SessionsAreFinite DEF DirectInv, CountsInv, SessionsAt, p
  <2>5. ASSUME ~skippedThenFailed'
        PROVE  inFlight' = Held' /\ (MaxDirectInFlight # 0 => inFlight' <= MaxDirectInFlight)
    <3>1. p.gated = 0 /\ inFlight = Held
          /\ (MaxDirectInFlight # 0 => inFlight <= MaxDirectInFlight)
      BY <1>6, <2>5 DEF DirectInv, QuotaInv, DirectQuotaExact
    <3>2. inFlight' = inFlight - Cardinality(SessionsAt(p.left))
      BY ONLY <1>1, <1>3, <2>4, <3>1
    <3>3. Held' = Held - Cardinality(SessionsAt(p.left))
      BY <2>2, <2>3, <2>4 DEF Held
    <3> QED BY <1>3, <2>4, <3>1, <3>2, <3>3
  <2> QED BY <2>2, <2>3, <2>5 DEF QuotaInv, DirectQuotaExact
<1>9. \A m \in DirectMsgs : said'[m] = "sent" => said[m] = "sent"
  BY <1>1 DEF DirectInv, DirectTypes
<1>10. sending'[c].at # "dispatch"
  BY <1>5
<1>11. \A m \in DirectMsgs : \A s \in Sessions : Served(m, s) => Served(m, s)'
  BY <1>1, ServedStays
<1> QED BY <1>5, <1>7, <1>8, <1>9, <1>10, <1>11, CallerStep

LEMMA DirectDoneKeeps ==
    ASSUME DirectInv, NEW c \in Callers, DirectDone(c)
    PROVE  DirectInv'
<1> DEFINE p == sending[c]
           what == IF p.gated > 0 THEN "gated" ELSE "sent"
<1>1. /\ p.at = "dispatch" /\ p.left = {} /\ inFlight' = inFlight
      /\ said' = [said EXCEPT ![p.msg] = what]
      /\ sending' = [sending EXCEPT ![c] = NotSending]
      /\ begun' = begun /\ batches' = batches /\ congested' = congested /\ written' = written
      /\ skippedThenFailed' = skippedThenFailed
  BY DEF DirectDone, SayTo
<1>2. p \in Progress /\ sending \in [Callers -> Progress]
  BY DEF DirectInv, DirectTypes
<1>3. p.msg \in DirectMsgs /\ p.gated \in Nat
  BY <1>1, <1>2 DEF Progress, NotSending
<1>4. /\ sending'[c] = NotSending /\ NotSending.at = "idle"
      /\ \A d \in Callers \ {c} : sending'[d] = sending[d]
      /\ sending' \in [Callers -> Progress]
  BY <1>1, <1>2 DEF Progress, NotSending
<1>5. what \in {"gated", "sent"} /\ (what = "sent" => p.gated = 0)
  BY <1>3
<1> HIDE DEF p, what
<1>6. DirectTypes'
  <2>1. said' \in [DirectMsgs -> {"nothing", "gated", "full", "failed", "sent"}]
    BY <1>1, <1>5 DEF DirectInv, DirectTypes
  <2> QED BY <1>1, <1>4, <2>1 DEF DirectInv, DirectTypes
<1>7. QuotaInv'
  <2>1. Share(sending[c]) = {} /\ Share(sending'[c]) = {}
    BY <1>1, <1>4, SharesAre DEF p, SessionsAt
  <2>2. IsFiniteSet(Undispatched') /\ Cardinality(Undispatched') = Cardinality(Undispatched)
    BY <1>4, <2>1, NothingTaken
  <2>3. Queued' = Queued
    BY <1>1 DEF Queued
  <2> QED BY <1>1, <2>2, <2>3 DEF DirectInv, QuotaInv, DirectQuotaExact, Held
<1>8. \A m \in DirectMsgs : \A s \in Sessions : Served(m, s) => Served(m, s)'
  BY <1>1, ServedStays
<1>9. ASSUME NEW m \in DirectMsgs, said'[m] = "sent"
      PROVE  said[m] = "sent" \/ \A s \in Sessions : Served(m, s)'
  <2>1. CASE m # p.msg
    BY <1>1, <1>9, <2>1 DEF DirectInv, DirectTypes
  <2>2. CASE m = p.msg
    <3>1. p.gated = 0
      BY <1>1, <1>5, <1>9, <2>2 DEF DirectInv, DirectTypes
    <3>2. \A s \in Sessions : Served(m, s)
      BY <1>1, <2>2, <3>1 DEF DirectInv, ServedInv, SessionsAt, p
    <3> QED BY <1>8, <3>2
  <2> QED BY <2>1, <2>2
<1>10. sending'[c].at # "dispatch"
  BY <1>4
<1> QED BY <1>4, <1>6, <1>7, <1>8, <1>9, <1>10, CallerStep

\* A step of a loop: what it writes is served once more, the callers go on.
LEMMA ExecuteBatchKeeps ==
    ASSUME DirectInv, NEW l \in Loops, ExecuteBatch(l)
    PROVE  DirectInv'
<1> DEFINE k == Cardinality(SessionsOf(l))
           b == batches[l]
<1>1. /\ b # <<>> /\ written' = written \cup Copies(Head(b), SessionsOf(l))
      /\ inFlight' = inFlight - k /\ batches' = [batches EXCEPT ![l] = Tail(@)]
      /\ sending' = sending /\ congested' = congested /\ begun' = begun /\ said' = said
      /\ skippedThenFailed' = skippedThenFailed
  BY DEF ExecuteBatch
<1>2. /\ batches \in [Loops -> Seq(DirectMsgs)] /\ b \in Seq(DirectMsgs) /\ inFlight \in Int
      /\ MaxDirectInFlight \in Nat
  BY DirectAssumption DEF DirectInv, DirectTypes
<1>3. k \in Nat
  BY SessionsAreFinite DEF SessionsOf
<1> HIDE DEF k
<1>4. DirectTypes'
  <2>1. batches' \in [Loops -> Seq(DirectMsgs)]
    BY <1>1, <1>2
  <2>2. inFlight' \in Int
    BY <1>1, <1>2, <1>3
  <2> QED BY <1>1, <2>1, <2>2 DEF DirectInv, DirectTypes
<1>5. QuotaInv'
  <2>1. /\ IsFiniteSet(Queued') /\ Cardinality(Queued) \in Nat
        /\ Cardinality(Queued') = Cardinality(Queued) - k
    BY <1>1, <1>2, QueuedShrinks DEF DirectInv, QuotaInv, k
  <2>2. Undispatched' = Undispatched
    BY <1>1 DEF Undispatched
  <2>3. IsFiniteSet(Undispatched) /\ Cardinality(Undispatched) \in Nat
    BY FS_CardinalityType DEF DirectInv, QuotaInv
  <2>4. inFlight = Held => inFlight' = Held'
    BY <1>1, <1>2, <1>3, <2>1, <2>2, <2>3 DEF Held
  <2>5. inFlight <= MaxDirectInFlight => inFlight' <= MaxDirectInFlight
    BY <1>1, <1>2, <1>3
  <2> QED BY <1>1, <2>1, <2>2, <2>3, <2>4, <2>5 DEF DirectInv, QuotaInv, DirectQuotaExact
<1>6. \A m \in Range(b) : m = Head(b) \/ m \in Range(batches'[l])
  <2>0. Head(b) = b[1]
    BY <1>1, <1>2
  <2>1. SUFFICES ASSUME NEW i \in DOMAIN b, i # 1 PROVE b[i] \in Range(batches'[l])
    <3>1. \A m \in Range(b) : \E i \in DOMAIN b : m = b[i]
      BY DEF Range
    <3> HIDE DEF b
    <3> QED BY <2>0, <3>1
  <2>2. batches'[l] = Tail(b)
    BY <1>1, <1>2
  <2>3. i - 1 \in DOMAIN Tail(b) /\ Tail(b)[i - 1] = b[i]
    BY <1>1, <1>2, <2>1
  <2> QED BY <2>2, <2>3 DEF Range
<1>7. \A m \in DirectMsgs : \A s \in Sessions : Served(m, s) => Served(m, s)'
  <2>1. SUFFICES ASSUME NEW m \in DirectMsgs, NEW s \in Sessions, Served(m, s)
                 PROVE  Served(m, s)'
    OBVIOUS
  <2>2. CASE [msg |-> m, to |-> s] \in written
    BY <1>1, <2>2 DEF Served
  <2>3. CASE LoopOf[s] \in Loops /\ LoopOf[s] # l /\ m \in Range(batches[LoopOf[s]])
    <3>1. batches'[LoopOf[s]] = batches[LoopOf[s]]
      BY <1>1, <1>2, <2>3
    <3> QED BY <2>3, <3>1 DEF Served
  <2>4. CASE LoopOf[s] = l /\ m \in Range(batches[l])
    <3>1. s \in SessionsOf(l)
      BY <2>4 DEF SessionsOf
    <3>2. CASE m = Head(b)
      BY <1>1, <3>1, <3>2 DEF Served, Copies
    <3>3. CASE m \in Range(batches'[l])
      BY <2>4, <3>3 DEF Served
    <3> QED BY <1>6, <2>4, <3>2, <3>3
  <2> QED BY <2>1, <2>2, <2>3, <2>4 DEF Served
<1>8. CountsInv' /\ ServedInv' /\ DirectPromiseKept'
  <2>1. CountsInv'
    BY <1>1 DEF DirectInv, CountsInv
  <2>2. ServedInv'
    BY <1>1, <1>7 DEF DirectInv, ServedInv
  <2>3. DirectPromiseKept'
    <3>1. SUFFICES ASSUME NEW m \in DirectMsgs, said'[m] = "sent", NEW s \in Sessions
                   PROVE  Served(m, s)'
      BY DEF DirectPromiseKept, Served
    <3>2. Served(m, s)
      BY <1>1, <3>1 DEF DirectInv, DirectPromiseKept, Served
    <3> QED BY <1>7, <3>2
  <2> QED BY <2>1, <2>2, <2>3
<1> QED BY <1>4, <1>5, <1>8 DEF DirectInv

\* The gates do not matter to a message under way.
LEMMA GateMovesKeeps ==
    ASSUME DirectInv, NEW s \in Sessions, GateMoves(s)
    PROVE  DirectInv'
<1>1. /\ sending' = sending /\ inFlight' = inFlight /\ batches' = batches /\ begun' = begun
      /\ written' = written /\ said' = said /\ skippedThenFailed' = skippedThenFailed
  BY DEF GateMoves
<1>2. congested' \subseteq Sessions
  BY DEF GateMoves, DirectInv, DirectTypes
<1>3. DirectTypes'
  BY <1>1, <1>2 DEF DirectInv, DirectTypes
<1>4. CountsInv' /\ ServedInv' /\ DirectPromiseKept'
  BY <1>1 DEF DirectInv, CountsInv, ServedInv, DirectPromiseKept, Served
<1>5. QuotaInv'
  BY <1>1 DEF DirectInv, QuotaInv, DirectQuotaExact, Held, Undispatched, Queued
<1> QED BY <1>3, <1>4, <1>5 DEF DirectInv

LEMMA DirectStutterKeeps == DirectInv /\ UNCHANGED directVars => DirectInv'
<1> SUFFICES ASSUME DirectInv, UNCHANGED directVars PROVE DirectInv'
  OBVIOUS
<1>1. DirectTypes'
  BY DEF directVars, DirectInv, DirectTypes
<1>2. CountsInv' /\ ServedInv' /\ DirectPromiseKept'
  BY DEF directVars, DirectInv, CountsInv, ServedInv, DirectPromiseKept, Served
<1>3. QuotaInv'
  BY DEF directVars, DirectInv, QuotaInv, DirectQuotaExact, Held, Undispatched, Queued
<1> QED BY <1>1, <1>2, <1>3 DEF DirectInv

LEMMA DirectInvAlways == DirectSpec => []DirectInv
<1>1. DirectInv /\ [DirectNext]_directVars => DirectInv'
  <2> SUFFICES ASSUME DirectInv, [DirectNext]_directVars PROVE DirectInv'
    OBVIOUS
  <2>1. CASE \E c \in Callers :
                \/ DirectBegin(c) \/ DirectReserve(c) \/ DirectScan(c) \/ DirectDispatch(c)
                \/ DirectDispatchFails(c) \/ DirectDone(c)
    BY <2>1, DirectBeginKeeps, DirectReserveKeeps, DirectScanKeeps, DirectDispatchKeeps,
       DirectDispatchFailsKeeps, DirectDoneKeeps
  <2>2. CASE \E l \in Loops : ExecuteBatch(l)
    BY <2>2, ExecuteBatchKeeps
  <2>3. CASE \E s \in Sessions : GateMoves(s)
    BY <2>3, GateMovesKeeps
  <2>4. CASE UNCHANGED directVars
    BY <2>4, DirectStutterKeeps
  <2> QED BY <2>1, <2>2, <2>3, <2>4 DEF DirectNext
<1> QED BY <1>1, DirectInitHolds, PTL DEF DirectSpec

(* For any number of callers, sessions and loops the in-flight quota is what is
   queued in loops or about to be, and within its limit, unless a dispatch failed
   after a congested session had been skipped.
   (ChatWebsocket.cc, deliverDirectLocally) *)
THEOREM TheQuotaIsExact == DirectSpec => []DirectQuotaExact
<1>1. DirectInv => DirectQuotaExact
  BY DEF DirectInv, QuotaInv
<1> QED BY <1>1, DirectInvAlways, PTL

(* Who was told 200 has his message at every session of the user, written or in
   the batch of its loop, whatever the gates do meanwhile.  (the comment in the
   batch of deliverDirectLocally) *)
THEOREM ThePromiseIsKept == DirectSpec => []DirectPromiseKept
<1>1. DirectInv => DirectPromiseKept
  BY DEF DirectInv
<1> QED BY <1>1, DirectInvAlways, PTL

(* The types of DirectDelivery.  (deliverDirectLocally) *)
THEOREM DirectTypesKept == DirectSpec => []DirectTypeOK
<1>1. DirectInv => DirectTypeOK
  <2> SUFFICES ASSUME DirectInv PROVE DirectTypeOK OBVIOUS
  <2>1. DirectTypes BY DEF DirectInv
  <2>2. \A c \in Callers : sending[c] \in Progress
    BY <2>1 DEF DirectTypes
  <2>3. \A c \in Callers : sending[c].at \in {"idle", "reserve", "scan", "dispatch"}
    BY <2>2 DEF Progress, NotSending
  <2>4. \A l \in Loops : Range(batches[l]) \subseteq DirectMsgs
    <3>1. \A l \in Loops : batches[l] \in Seq(DirectMsgs)
      BY <2>1 DEF DirectTypes
    <3> QED BY <3>1 DEF Range
  <2> QED BY <2>1, <2>3, <2>4 DEF DirectTypes, DirectTypeOK
<1> QED BY <1>1, DirectInvAlways, PTL
=============================================================================

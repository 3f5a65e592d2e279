-------------------------- MODULE RoomFanoutProofs --------------------------
(***************************************************************************)
(* What TLAPS proves of RoomFanout, for every number of publishers,        *)
(* workers, loops, shards, subscriptions and messages.                     *)
(*                                                                         *)
(* First its type invariant, BookkeepingExact, the agreement of the        *)
(* counters and snapshots the fast paths trust with the member table, and  *)
(* OneClaimPerBusyShard, with an invariant of its own.  The first two are  *)
(* not inductive.  The steps of publishSharedImpl keep the types only      *)
(* because whoever is between taking a number and letting go of pubMtx     *)
(* owns it (Locks); a new id joins a bucket it is not in yet only because  *)
(* every id in the table is an old one (Numbering).  IInv is the           *)
(* conjunction of all of them.                                             *)
(*                                                                         *)
(* The proof goes by groups of variables.  The WhoTouches lemmas say which *)
(* actions write a group, so that each part of IInv is shown only for the  *)
(* actions that can disturb it.                                            *)
(*                                                                         *)
(* Then what a room does with an accepted message: every connection        *)
(* receives the messages in increasing order and none twice                *)
(* (DeliveredInOrder); every message is accounted for at every member it   *)
(* was accepted for (NothingForgotten); without exceptions the room        *)
(* implements the abstract OrderedRoom (IsOrderedRoom); and its limits are *)
(* kept (BackPressureExact).                                               *)
(*                                                                         *)
(* On its way to a connection a number passes four stages: it waits in the *)
(* queue of the shard where the connection is at home, is handed out by    *)
(* the drainer of that shard, is queued on the connection's loop, and is   *)
(* got.  The invariant says that what is further on is smaller (ConnInv,   *)
(* QueueInv), that only one shard and one drainer serve a connection       *)
(* (PlaceInv), and that what is about to be pushed is new (FreshInv).      *)
(*                                                                         *)
(* A number is touched for a connection once it has been handed out for    *)
(* it: it stays touched for ever.  NFInv adds to NothingForgotten the      *)
(* message that is being published: it is accounted for in all buckets     *)
(* but those its publisher has still to push to.  RefInv adds that what    *)
(* has been touched has no gaps, LoadInv that a slot still to be pushed to *)
(* keeps the room it was found to have.                                    *)
(***************************************************************************)
EXTENDS RoomFanout, TLAPS, WellFoundedInduction, FiniteSetTheorems, SequenceTheorems

(* A nonempty set of naturals has a least element and Lowest chooses it: the
   loops over the shard vector that stop at the first hit find one. *)
LEMMA LeastExists ==
    ASSUME NEW S \in SUBSET Nat, S # {}
    PROVE  /\ Lowest(S) \in S
           /\ \A k \in S : Lowest(S) <= k
<1> DEFINE R == {ss \in Nat \X Nat : ss[1] < ss[2]}
<1>1. IsWellFoundedOn(R, Nat)
  BY NatLessThanWellFounded DEF OpToRel
<1>2. \A x, y \in Nat : y < x => <<y, x>> \in R
  OBVIOUS
<1> HIDE DEF R
<1>3. PICK x \in S : \A y \in S : ~(<<y, x>> \in R)
  BY <1>1, WFMin
<1>4. ASSUME NEW y \in S PROVE x <= y
  <2>1. ~(y < x) BY <1>2, <1>3
  <2> QED BY <2>1
<1> QED BY <1>4 DEF Lowest

(* The doubling in shardsFor stops: some rung is not below the cap.  Were all
   of them below, the largest could be doubled. *)
LEMMA RungAtTheTop == \E k \in Rungs : k >= MaxShards
<1> DEFINE Dom == 1 .. (2 * MaxShards)
           M == {2 * MaxShards - k : k \in Rungs}
<1> USE BoundsAssumption
<1> SUFFICES ASSUME \A k \in Rungs : k < MaxShards PROVE FALSE
  BY SMT DEF Rungs
<1>1. 1 \in Rungs
  BY DEF Rungs
<1>2. ASSUME NEW j \in Rungs PROVE 2 * j \in Rungs
  <2>1. j \in Dom /\ j < MaxShards BY DEF Rungs
  <2>2. 2 * j \in Dom BY <2>1
  <2> QED BY <2>1, <2>2 DEF Rungs
<1>3. M \in SUBSET Nat /\ M # {}
  BY <1>1 DEF Rungs
<1>4. PICK m \in M : \A k \in M : m <= k
  <2> HIDE DEF M
  <2> QED BY <1>3, LeastExists
<1>5. PICK j \in Rungs : m = 2 * MaxShards - j
  BY <1>4
<1>6. 2 * MaxShards - 2 * j \in M
  BY <1>2, <1>5
<1>7. j \in Nat \ {0}
  BY DEF Rungs
<1> QED
  <2> HIDE DEF M
  <2> QED BY <1>4, <1>5, <1>6, <1>7

(* shardsFor answers with a shard count between 1 and less than twice the cap,
   whatever the size of the room. *)
LEMMA ShardsForType ==
    ASSUME NEW n \in Nat
    PROVE  ShardsFor(n) \in 1 .. (2 * MaxShards)
<1> DEFINE Fits == {k \in Rungs : ~GrowsPast(k, n)}
<1>1. Rungs \subseteq 1 .. (2 * MaxShards)
  BY DEF Rungs
<1>2. PICK k \in Rungs : k >= MaxShards
  BY RungAtTheTop
<1>3. k \in Fits
  BY <1>1, <1>2, BoundsAssumption DEF GrowsPast
<1>4. Fits \subseteq Rungs
  OBVIOUS
<1>5. Lowest(Fits) \in Fits
  <2> HIDE DEF Fits
  <2>1. Fits \in SUBSET Nat
    BY <1>1, <1>4
  <2> QED BY <1>3, <2>1, LeastExists
<1> QED BY <1>1, <1>5 DEF ShardsFor

(* publishSharedImpl only pushes to slots of the shard vector whose bucket has
   a member, also when nonEmptyShards alone tells it to look for one. *)
LEMMA TargetsInRange ==
    ASSUME TypeOK, BookkeepingExact
    PROVE  /\ DOMAIN dist \subseteq Slots
           /\ TargetSlots \subseteq NonEmptySlots
           /\ NonEmptySlots \subseteq DOMAIN dist
<1>1. DOMAIN dist \subseteq Slots /\ DOMAIN dist \subseteq Nat
  BY BoundsAssumption DEF TypeOK, MemberType, Slots
<1>2. NonEmptySlots \subseteq DOMAIN dist
  BY DEF NonEmptySlots
<1>3. CASE nonEmptyShards = 1
  <2>1. NonEmptySlots # {}
    BY <1>3, FS_EmptySet, 0 # 1 DEF BookkeepingExact
  <2>2. Lowest(NonEmptySlots) \in NonEmptySlots
    BY <1>1, <1>2, <2>1, LeastExists
  <2> QED BY <1>1, <1>2, <1>3, <2>2 DEF TargetSlots
<1>4. CASE nonEmptyShards # 1
  BY <1>1, <1>2, <1>4 DEF TargetSlots
<1> QED BY <1>3, <1>4

(* A slot of the current vector names a shard object. *)
LEMMA CurrentShardsAreShards ==
    ASSUME TypeOK, NEW i \in Slots
    PROVE  Shard(i) \in ShardIds
  BY DEF TypeOK, MemberType, Shard, ShardIds

(* Trimming the journal keeps it a journal. *)
LEMMA LastEntriesType ==
    ASSUME NEW S, NEW j \in Seq(S)
    PROVE  LastEntries(j) \in Seq(S)
<1>1. CASE Len(j) > JournalCap
  <2>1. j # <<>>
    BY <1>1, BoundsAssumption
  <2> QED BY <1>1, <2>1 DEF LastEntries
<1>2. CASE ~(Len(j) > JournalCap)
  BY <1>2 DEF LastEntries
<1> QED BY <1>1, <1>2

-----------------------------------------------------------------------------
(* Which actions write which variables. *)

drainerVars == <<ready, drain, cur, processed, requeue>>
numberVars  == <<pubOwner, seq, journal>>
connVars    == <<inFlight, loopQueue, gated, delivered, skipped, lost, faults, gates>>

USE DEF roomVars, shardVars, pubVars, drainVars, loopVars, gateVars

(* Only subscribe and unsubscribe write the member table and its counters. *)
LEMMA WhoTouchesMembers ==
    ASSUME [Next]_vars
    PROVE  \/ SubscribeJoin
           \/ SubscribeReshape
           \/ \E id \in SubIds : Unsubscribe(id)
           \/ UNCHANGED memberVars
<1>1. ASSUME NEW p \in Publishers,
             PublishEnter(p) \/ PublishBuildThrows(p) \/ PublisherStep(p)
      PROVE  UNCHANGED memberVars
  BY <1>1 DEF PublisherStep, memberVars, PublishEnter, PublishRefused, PublishLock,
          PublishBuildThrows, PublishPush, PublishCommit, InlineDrainNext,
          PublishReturn
<1>2. ASSUME NEW d \in Drainers, DrainStep(d) \/ DispatchThrows(d)
      PROVE  UNCHANGED memberVars
  BY <1>2 DEF DrainStep, memberVars, DrainPop, DrainIdle, DrainYield, SendDirect,
          Dispatch, DispatchThrows
<1>3. ASSUME NEW w \in Workers, WorkerTake(w)
      PROVE  UNCHANGED memberVars
  BY <1>3 DEF memberVars, WorkerTake
<1>4. ASSUME NEW l \in Loops, LoopRun(l)
      PROVE  UNCHANGED memberVars
  BY <1>4 DEF memberVars, LoopRun
<1>5. ASSUME NEW id \in SubIds, GateCloses(id) \/ GateOpens(id)
      PROVE  UNCHANGED memberVars
  BY <1>5 DEF memberVars, GateCloses, GateOpens
<1>6. CASE UNCHANGED vars
  BY <1>6 DEF vars, memberVars
<1> QED
  BY <1>1, <1>2, <1>3, <1>4, <1>5, <1>6 DEF Next

(* Only a publish under pubMtx, and the last member out, write the lock, the
   sequence number and the journal. *)
LEMMA WhoTouchesNumbers ==
    ASSUME [Next]_vars
    PROVE  \/ \E id \in SubIds : Unsubscribe(id)
           \/ \E p \in Publishers :
                  \/ PublishLock(p) \/ PublishBuildThrows(p) \/ PublishCommit(p)
           \/ UNCHANGED numberVars
<1>1. ASSUME NEW p \in Publishers,
             PublishEnter(p) \/ PublishBuildThrows(p) \/ PublisherStep(p)
      PROVE  PublishLock(p) \/ PublishBuildThrows(p) \/ PublishCommit(p)
             \/ UNCHANGED numberVars
  BY <1>1 DEF PublisherStep, numberVars, PublishEnter, PublishRefused, PublishPush,
          InlineDrainNext, PublishReturn
<1>2. ASSUME NEW d \in Drainers, DrainStep(d) \/ DispatchThrows(d)
      PROVE  UNCHANGED numberVars
  BY <1>2 DEF DrainStep, numberVars, DrainPop, DrainIdle, DrainYield, SendDirect,
          Dispatch, DispatchThrows
<1>3. ASSUME NEW w \in Workers, WorkerTake(w)
      PROVE  UNCHANGED numberVars
  BY <1>3 DEF numberVars, WorkerTake
<1>4. ASSUME NEW l \in Loops, LoopRun(l)
      PROVE  UNCHANGED numberVars
  BY <1>4 DEF numberVars, LoopRun
<1>5. ASSUME NEW id \in SubIds, GateCloses(id) \/ GateOpens(id)
      PROVE  UNCHANGED numberVars
  BY <1>5 DEF numberVars, GateCloses, GateOpens
<1>6. ASSUME SubscribeJoin \/ SubscribeReshape
      PROVE  UNCHANGED numberVars
  BY <1>6 DEF numberVars, SubscribeJoin, SubscribeReshape
<1>7. CASE UNCHANGED vars
  BY <1>7 DEF vars, numberVars
<1> QED
  BY <1>1, <1>2, <1>3, <1>4, <1>5, <1>6, <1>7 DEF Next

(* Only these write the queues, the busy flags and the snapshots. *)
LEMMA WhoTouchesShards ==
    ASSUME [Next]_vars
    PROVE  \/ SubscribeJoin
           \/ SubscribeReshape
           \/ \E id \in SubIds : Unsubscribe(id)
           \/ \E p \in Publishers : PublishPush(p)
           \/ \E d \in Drainers :
                  \/ DrainPop(d) \/ DrainIdle(d) \/ DispatchThrows(d)
           \/ UNCHANGED shardVars
<1>1. ASSUME NEW p \in Publishers,
             PublishEnter(p) \/ PublishBuildThrows(p) \/ PublisherStep(p)
      PROVE  PublishPush(p) \/ UNCHANGED shardVars
  BY <1>1 DEF PublisherStep, shardVars, PublishEnter, PublishRefused, PublishLock,
          PublishBuildThrows, PublishCommit, InlineDrainNext, PublishReturn
<1>2. ASSUME NEW d \in Drainers, DrainStep(d) \/ DispatchThrows(d)
      PROVE  DrainPop(d) \/ DrainIdle(d) \/ DispatchThrows(d) \/ UNCHANGED shardVars
  BY <1>2 DEF DrainStep, shardVars, DrainYield, SendDirect, Dispatch
<1>3. ASSUME NEW w \in Workers, WorkerTake(w)
      PROVE  UNCHANGED shardVars
  BY <1>3 DEF shardVars, WorkerTake
<1>4. ASSUME NEW l \in Loops, LoopRun(l)
      PROVE  UNCHANGED shardVars
  BY <1>4 DEF shardVars, LoopRun
<1>5. ASSUME NEW id \in SubIds, GateCloses(id) \/ GateOpens(id)
      PROVE  UNCHANGED shardVars
  BY <1>5 DEF shardVars, GateCloses, GateOpens
<1>6. CASE UNCHANGED vars
  BY <1>6 DEF vars, shardVars
<1> QED
  BY <1>1, <1>2, <1>3, <1>4, <1>5, <1>6 DEF Next

(* Only a publisher's own steps write the locals of publishSharedImpl. *)
LEMMA WhoTouchesPublishers ==
    ASSUME [Next]_vars
    PROVE  \/ \E p \in Publishers :
                  \/ PublishEnter(p) \/ PublishRefused(p) \/ PublishLock(p)
                  \/ PublishBuildThrows(p) \/ PublishPush(p) \/ PublishCommit(p)
                  \/ InlineDrainNext(p) \/ PublishReturn(p)
           \/ UNCHANGED pubVars
<1>1. ASSUME NEW d \in Drainers, DrainStep(d) \/ DispatchThrows(d)
      PROVE  UNCHANGED pubVars
  BY <1>1 DEF DrainStep, pubVars, DrainPop, DrainIdle, DrainYield, SendDirect,
          Dispatch, DispatchThrows
<1>2. ASSUME NEW w \in Workers, WorkerTake(w)
      PROVE  UNCHANGED pubVars
  BY <1>2 DEF pubVars, WorkerTake
<1>3. ASSUME NEW l \in Loops, LoopRun(l)
      PROVE  UNCHANGED pubVars
  BY <1>3 DEF pubVars, LoopRun
<1>4. ASSUME NEW id \in SubIds, Unsubscribe(id) \/ GateCloses(id) \/ GateOpens(id)
      PROVE  UNCHANGED pubVars
  BY <1>4 DEF pubVars, Unsubscribe, GateCloses, GateOpens
<1>5. ASSUME SubscribeJoin \/ SubscribeReshape
      PROVE  UNCHANGED pubVars
  BY <1>5 DEF pubVars, SubscribeJoin, SubscribeReshape
<1>6. CASE UNCHANGED vars
  BY <1>6 DEF vars, pubVars
<1> QED
  BY <1>1, <1>2, <1>3, <1>4, <1>5, <1>6 DEF Next, PublisherStep

(* Only these write the ready queue and the locals of drainShard. *)
LEMMA WhoTouchesDrainers ==
    ASSUME [Next]_vars
    PROVE  \/ \E p \in Publishers :
                  \/ PublishCommit(p) \/ InlineDrainNext(p)
           \/ \E d \in Drainers :
                  \/ DrainPop(d) \/ DrainIdle(d) \/ DrainYield(d) \/ SendDirect(d)
                  \/ DispatchThrows(d) \/ \E l \in Loops : Dispatch(d, l)
           \/ \E w \in Workers : WorkerTake(w)
           \/ UNCHANGED drainerVars
<1>1. ASSUME NEW p \in Publishers,
             PublishEnter(p) \/ PublishBuildThrows(p) \/ PublisherStep(p)
      PROVE  PublishCommit(p) \/ InlineDrainNext(p) \/ UNCHANGED drainerVars
  BY <1>1 DEF PublisherStep, drainerVars, PublishEnter, PublishRefused, PublishLock,
          PublishBuildThrows, PublishPush, PublishReturn
<1>2. ASSUME NEW l \in Loops, LoopRun(l)
      PROVE  UNCHANGED drainerVars
  BY <1>2 DEF drainerVars, LoopRun
<1>3. ASSUME NEW id \in SubIds, Unsubscribe(id) \/ GateCloses(id) \/ GateOpens(id)
      PROVE  UNCHANGED drainerVars
  BY <1>3 DEF drainerVars, Unsubscribe, GateCloses, GateOpens
<1>4. ASSUME SubscribeJoin \/ SubscribeReshape
      PROVE  UNCHANGED drainerVars
  BY <1>4 DEF drainerVars, SubscribeJoin, SubscribeReshape
<1>5. CASE UNCHANGED vars
  BY <1>5 DEF vars, drainerVars
<1> QED
  BY <1>1, <1>2, <1>3, <1>4, <1>5 DEF Next, DrainStep

(* Only these write what the loops, the gates and the connections hold. *)
LEMMA WhoTouchesConnections ==
    ASSUME [Next]_vars
    PROVE  \/ \E id \in SubIds : GateCloses(id)
           \/ \E id \in SubIds : GateOpens(id)
           \/ \E p \in Publishers : PublishBuildThrows(p)
           \/ \E d \in Drainers :
                  \/ SendDirect(d) \/ DispatchThrows(d)
                  \/ \E l \in Loops : Dispatch(d, l)
           \/ \E l \in Loops : LoopRun(l)
           \/ UNCHANGED connVars
<1>1. ASSUME NEW p \in Publishers,
             PublishEnter(p) \/ PublishBuildThrows(p) \/ PublisherStep(p)
      PROVE  PublishBuildThrows(p) \/ UNCHANGED connVars
  BY <1>1 DEF PublisherStep, connVars, PublishEnter, PublishRefused, PublishLock,
          PublishPush, PublishCommit, InlineDrainNext, PublishReturn
<1>2. ASSUME NEW d \in Drainers, DrainStep(d) \/ DispatchThrows(d)
      PROVE  SendDirect(d) \/ DispatchThrows(d) \/ (\E l \in Loops : Dispatch(d, l))
             \/ UNCHANGED connVars
  BY <1>2 DEF DrainStep, connVars, DrainPop, DrainIdle, DrainYield
<1>3. ASSUME NEW w \in Workers, WorkerTake(w)
      PROVE  UNCHANGED connVars
  BY <1>3 DEF connVars, WorkerTake
<1>4. ASSUME NEW id \in SubIds, Unsubscribe(id)
      PROVE  UNCHANGED connVars
  BY <1>4 DEF connVars, Unsubscribe
<1>5. ASSUME SubscribeJoin \/ SubscribeReshape
      PROVE  UNCHANGED connVars
  BY <1>5 DEF connVars, SubscribeJoin, SubscribeReshape
<1>6. CASE UNCHANGED vars
  BY <1>6 DEF vars, connVars
<1> QED
  BY <1>1, <1>2, <1>3, <1>4, <1>5, <1>6 DEF Next

-----------------------------------------------------------------------------
(* The invariant *)

\* Whoever is between taking a number and letting go of pubMtx is its owner.
Locks ==
    /\ \A p \in Publishers : pc[p] \in {"build", "push"} <=> pubOwner = p
    /\ pubOwner # Nobody => seq >= 1
\* Every subscription and every reshape has used up an id.
Numbering == epoch <= nextSubId /\ Members \subseteq 1 .. nextSubId
\* A drainer serves members only of a shard it has.
HandNeedsShard == \A d \in Drainers : cur[d].to # {} => drain[d] # NoShard

IInv == TypeOK /\ Locks /\ HandNeedsShard /\ Numbering /\ BookkeepingExact

(* The invariant holds of an empty room. *)
LEMMA InitInvariant == Init => IInv
<1> SUFFICES ASSUME Init PROVE IInv
  OBVIOUS
<1> USE BoundsAssumption, ThreadsAssumption DEF Init
<1>1. MemberType
  <2>1. dist \in [0 .. (0 - 1) -> SUBSET SubIds]
    OBVIOUS
  <2>2. 0 \in 0 .. (2 * MaxShards)
    OBVIOUS
  <2>3. \E k \in 0 .. (2 * MaxShards) : dist \in [0 .. (k - 1) -> SUBSET SubIds]
    BY <2>1, <2>2
  <2>4. epoch \in Epochs /\ nextSubId \in 0 .. MaxSubs /\ joinedAt \in [SubIds -> 0 .. MaxSeq]
    BY DEF Epochs
  <2>5. subCount \in 0 .. MaxSubs /\ nonEmptyShards \in 0 .. (2 * MaxShards)
    OBVIOUS
  <2>6. retired \in BOOLEAN
    OBVIOUS
  <2> QED BY <2>3, <2>4, <2>5, <2>6 DEF MemberType
<1>2. NumberType
  BY DEF NumberType
<1>3. ShardType
  BY DEF ShardType
<1>4. PublisherType
  BY DEF PublisherType
<1>5. DrainerType
  BY DEF DrainerType, Drainers
<1>6. LoopType
  BY DEF LoopType
<1>7. Members = {} /\ NonEmptySlots = {}
  BY DEF Members, NonEmptySlots
<1>8. Locks /\ HandNeedsShard /\ Numbering
  BY <1>7 DEF Locks, HandNeedsShard, Nothing, Numbering
<1>9. BookkeepingExact
  <2>1. Cardinality({}) = 0
    BY FS_EmptySet
  <2>2. DOMAIN dist = {}
    OBVIOUS
  <2>3. retired <=> (subCount = 0 /\ nextSubId > 0)
    OBVIOUS
  <2>4. nonEmptyShards = Cardinality(NonEmptySlots) /\ subCount = Cardinality(Members)
    BY <1>7, <2>1
  <2> QED BY <2>2, <2>3, <2>4 DEF BookkeepingExact
<1> QED
  BY <1>1, <1>2, <1>3, <1>4, <1>5, <1>6, <1>8, <1>9 DEF IInv, TypeOK

(* Between taking its number and the commit a publish has a number to push or
   to give back. *)
LEMMA SeqWhileBuilding ==
    ASSUME TypeOK, Locks, NEW p \in Publishers, pc[p] \in {"build", "push"}
    PROVE  seq \in 1 .. MaxSeq
<1>1. pubOwner # Nobody
  BY ThreadsAssumption DEF Locks
<1> QED BY <1>1, BoundsAssumption DEF Locks, TypeOK, NumberType

(* publishSharedImpl keeps Locks: pubMtx is taken with the number and let go
   with the commit or with the exception, by the same thread. *)
LEMMA LocksStep ==
    ASSUME IInv, [Next]_vars
    PROVE  Locks'
<1> USE ThreadsAssumption DEF IInv, TypeOK, NumberType, PublisherType, Locks
<1>1. ASSUME NEW p \in Publishers, PublishLock(p)
      PROVE  Locks'
  BY <1>1, BoundsAssumption DEF PublishLock
<1>2. ASSUME NEW p \in Publishers, PublishBuildThrows(p) \/ PublishCommit(p)
      PROVE  Locks'
  BY <1>2 DEF PublishBuildThrows, PublishCommit
<1>3. ASSUME NEW p \in Publishers,
             PublishEnter(p) \/ PublishRefused(p) \/ PublishPush(p) \/ InlineDrainNext(p)
             \/ PublishReturn(p)
      PROVE  Locks'
  BY <1>3 DEF PublishEnter, PublishRefused, PublishPush, InlineDrainNext, PublishReturn
<1>4. CASE UNCHANGED pubVars /\ (UNCHANGED numberVars \/ \E id \in SubIds : Unsubscribe(id))
  BY <1>4 DEF Unsubscribe, numberVars
<1> QED
  BY <1>1, <1>2, <1>3, <1>4, WhoTouchesNumbers, WhoTouchesPublishers

(* The member table and its counters. *)

(* A set within an interval of n numbers is finite and has at most n members. *)
LEMMA WithinInterval ==
    ASSUME NEW n \in Nat, NEW S, S \subseteq 1 .. n \/ S \subseteq 0 .. (n - 1)
    PROVE  IsFiniteSet(S) /\ Cardinality(S) \in 0 .. n
<1>1. PICK T : /\ S \in SUBSET T
               /\ IsFiniteSet(T) /\ Cardinality(T) = n
  <2>1. IsFiniteSet(1 .. n) /\ Cardinality(1 .. n) = n
    BY FS_Interval
  <2>2. IsFiniteSet(0 .. (n - 1)) /\ Cardinality(0 .. (n - 1)) = n
    BY FS_Interval
  <2> QED BY <2>1, <2>2, Zenon
<1>2. IsFiniteSet(S) /\ Cardinality(S) <= Cardinality(T)
  BY <1>1, FS_Subset, Zenon
<1>3. Cardinality(S) \in Nat
  BY <1>2, FS_CardinalityType
<1> QED BY <1>1, <1>2, <1>3

(* The bucket of an id is a slot of the vector. *)
LEMMA Remainder ==
    ASSUME NEW m \in Nat, NEW k \in Nat \ {0}
    PROVE  m % k \in 0 .. (k - 1)
  OBVIOUS

(* What the invariant says of the table, in the form the steps use. *)
LEMMA Table ==
    ASSUME IInv
    PROVE  \E k \in 0 .. (2 * MaxShards) :
              /\ dist \in [0 .. (k - 1) -> SUBSET SubIds]
              /\ DOMAIN dist = 0 .. (k - 1)
              /\ Cardinality(DOMAIN dist) = k
              /\ IsFiniteSet(Members) /\ IsFiniteSet(NonEmptySlots)
              /\ subCount <= nextSubId
<1> USE DEF IInv, TypeOK, MemberType
<1>1. PICK k \in 0 .. (2 * MaxShards) : dist \in [0 .. (k - 1) -> SUBSET SubIds]
  OBVIOUS
<1>2. k \in Nat /\ nextSubId \in Nat
  BY BoundsAssumption
<1>3. DOMAIN dist = 0 .. (k - 1) /\ Cardinality(DOMAIN dist) = k
  <2>1. DOMAIN dist = 0 .. (k - 1)
    BY <1>1
  <2>2. Cardinality(0 .. (k - 1)) = k
    BY <1>2, FS_Interval
  <2> QED BY <2>1, <2>2
<1>4. Members \subseteq 1 .. nextSubId /\ NonEmptySlots \subseteq 0 .. (k - 1)
  BY <1>3 DEF Numbering, NonEmptySlots
<1>5. /\ IsFiniteSet(Members) /\ Cardinality(Members) \in 0 .. nextSubId
      /\ IsFiniteSet(NonEmptySlots)
  BY <1>2, <1>4, WithinInterval
<1> QED
  BY <1>1, <1>2, <1>3, <1>5 DEF BookkeepingExact

(* subscribe without a reshape adds one member, to the bucket and the snapshot
   of its id, and counts it exactly. *)
LEMMA SubscribeJoinTable ==
    ASSUME IInv, SubscribeJoin
    PROVE  MemberType' /\ Numbering' /\ BookkeepingExact'
<1> USE BoundsAssumption
<1> DEFINE id == nextSubId + 1
           i  == id % ShardsFor(subCount + 1)
<1>1. PICK k \in 0 .. (2 * MaxShards) :
              /\ dist \in [0 .. (k - 1) -> SUBSET SubIds]
              /\ Cardinality(DOMAIN dist) = k
              /\ IsFiniteSet(Members) /\ IsFiniteSet(NonEmptySlots)
              /\ subCount <= nextSubId
  BY Table
<1>2. /\ epoch \in Epochs /\ nextSubId \in 0 .. MaxSubs
      /\ subCount \in 0 .. MaxSubs /\ nonEmptyShards \in 0 .. (2 * MaxShards)
      /\ retired \in BOOLEAN /\ joinedAt \in [SubIds -> 0 .. MaxSeq]
      /\ seq \in 0 .. MaxSeq
  BY DEF IInv, TypeOK, MemberType, NumberType
<1>3. ShardsFor(subCount + 1) = k /\ k \in Nat \ {0}
  <2>1. ShardsFor(subCount + 1) \in 1 .. (2 * MaxShards)
    BY <1>2, ShardsForType
  <2>2. ShardsFor(subCount + 1) = Cardinality(DOMAIN dist)
    BY DEF SubscribeJoin
  <2> QED BY <1>1, <2>1, <2>2
<1>4. nextSubId < MaxSubs /\ ~retired
  BY DEF SubscribeJoin, MaySubscribe
<1>5. id \in SubIds /\ i \in 0 .. (k - 1) /\ i = id % k
  <2>1. id \in SubIds /\ id \in Nat
    BY <1>2, <1>4 DEF SubIds
  <2>2. i = id % k
    BY <1>3
  <2>3. id % k \in 0 .. (k - 1)
    BY <1>3, <2>1, Remainder
  <2> QED BY <2>1, <2>2, <2>3
<1>6. /\ dist' = [dist EXCEPT ![i] = @ \cup {id}]
      /\ snap' = [snap EXCEPT ![Shard(i)] = @ \cup {id}]
      /\ nonEmptyShards' = nonEmptyShards + (IF dist[i] = {} THEN 1 ELSE 0)
      /\ subCount' = subCount + 1
      /\ joinedAt' = [joinedAt EXCEPT ![id] = seq]
      /\ nextSubId' = id
      /\ UNCHANGED <<epoch, retired>>
  BY DEF SubscribeJoin
<1> HIDE DEF i
<1>7. dist' \in [0 .. (k - 1) -> SUBSET SubIds]
  BY <1>1, <1>5, <1>6
<1>8. Members \subseteq 1 .. nextSubId /\ epoch <= nextSubId
  BY DEF IInv, Numbering
<1>9. Members' = Members \cup {id}
  BY <1>1, <1>5, <1>6 DEF Members
<1>10. Numbering'
  BY <1>2, <1>6, <1>8, <1>9 DEF Numbering, Epochs
<1>11. subCount' = Cardinality(Members')
  <2>1. id \notin Members
    BY <1>2, <1>8
  <2>2. Cardinality(Members \cup {id}) = Cardinality(Members) + 1
    BY <1>1, <2>1, FS_AddElement
  <2> QED BY <1>6, <1>9, <2>2 DEF IInv, BookkeepingExact
<1>12. nonEmptyShards' = Cardinality(NonEmptySlots')
  <2>1. NonEmptySlots' = NonEmptySlots \cup {i}
    BY <1>1, <1>5, <1>6 DEF NonEmptySlots
  <2>2. i \in NonEmptySlots <=> dist[i] # {}
    BY <1>1, <1>5 DEF NonEmptySlots
  <2>3. Cardinality(NonEmptySlots \cup {i}) =
            IF i \in NonEmptySlots THEN Cardinality(NonEmptySlots)
            ELSE Cardinality(NonEmptySlots) + 1
    BY <1>1, FS_AddElement
  <2>4. nonEmptyShards = Cardinality(NonEmptySlots)
    BY DEF IInv, BookkeepingExact
  <2> QED BY <1>2, <1>6, <2>1, <2>2, <2>3, <2>4
<1>13. \A j \in DOMAIN dist' : snap'[Shard(j)'] = dist'[j]
  <2>1. TAKE j \in DOMAIN dist'
  <2>2. j \in 0 .. (k - 1) /\ j \in DOMAIN dist
    BY <1>1, <1>7
  <2>3. Shard(j)' = Shard(j) /\ (Shard(j) = Shard(i) <=> j = i)
    BY <1>6 DEF Shard
  <2>4. Shard(i) \in ShardIds /\ snap \in [ShardIds -> SUBSET SubIds]
    BY <1>1, <1>2, <1>5 DEF Shard, ShardIds, Slots, IInv, TypeOK, ShardType
  <2>5. snap[Shard(j)] = dist[j]
    BY <2>2 DEF IInv, BookkeepingExact
  <2>6. Shard(j) \in ShardIds
    BY <1>1, <1>2, <2>2 DEF Shard, ShardIds, Slots
  <2> HIDE DEF id
  <2> QED BY <1>1, <1>5, <1>6, <2>2, <2>3, <2>4, <2>5, <2>6
<1>14. \A j \in DOMAIN dist' : \A m \in dist'[j] : m % Cardinality(DOMAIN dist') = j
  <2>1. DOMAIN dist' = DOMAIN dist
    BY <1>6
  <2>2. \A j \in DOMAIN dist : \A m \in dist[j] : m % k = j
    BY <1>1 DEF IInv, BookkeepingExact
  <2> HIDE DEF id
  <2> QED BY <1>1, <1>5, <1>6, <2>1, <2>2
<1>15. BookkeepingExact'
  <2>1. retired' <=> (subCount' = 0 /\ nextSubId' > 0)
    BY <1>2, <1>4, <1>6
  <2> QED BY <1>11, <1>12, <1>13, <1>14, <2>1 DEF BookkeepingExact
<1>16. MemberType'
  <2>1. nonEmptyShards' \in 0 .. (2 * MaxShards) /\ subCount' \in 0 .. MaxSubs
    <3>1. id \in Nat /\ k \in Nat /\ Members' \subseteq 1 .. id
      BY <1>2, <1>3, <1>6, <1>10 DEF Numbering
    <3>2. NonEmptySlots' \subseteq 0 .. (k - 1)
      BY <1>7 DEF NonEmptySlots
    <3>3. Cardinality(Members') \in 0 .. id /\ Cardinality(NonEmptySlots') \in 0 .. k
      BY <3>1, <3>2, WithinInterval
    <3> QED BY <1>1, <1>2, <1>4, <1>11, <1>12, <3>3
  <2>2. joinedAt' \in [SubIds -> 0 .. MaxSeq]
    BY <1>2, <1>5, <1>6
  <2>3. \E j \in 0 .. (2 * MaxShards) : dist' \in [0 .. (j - 1) -> SUBSET SubIds]
    BY <1>7
  <2> QED BY <1>2, <1>4, <1>6, <2>1, <2>2, <2>3 DEF MemberType
<1> QED BY <1>10, <1>15, <1>16

(* reshapeLocked deals every member out anew, and the counters and snapshots it
   recomputes are those of the new table. *)
LEMMA SubscribeReshapeTable ==
    ASSUME IInv, SubscribeReshape
    PROVE  MemberType' /\ Numbering' /\ BookkeepingExact'
<1> USE BoundsAssumption
<1> DEFINE id  == nextSubId + 1
           k   == ShardsFor(subCount + 1)
           all == Members \cup {id}
           bucket == [i \in 0 .. (k - 1) |-> {m \in all : m % k = i}]
<1>1. /\ epoch \in Epochs /\ nextSubId \in 0 .. MaxSubs
      /\ subCount \in 0 .. MaxSubs /\ retired \in BOOLEAN
      /\ joinedAt \in [SubIds -> 0 .. MaxSeq] /\ seq \in 0 .. MaxSeq
      /\ snap \in [ShardIds -> SUBSET SubIds]
  BY DEF IInv, TypeOK, MemberType, NumberType, ShardType
<1>2. k \in 1 .. (2 * MaxShards)
  BY <1>1, ShardsForType
<1>3. nextSubId < MaxSubs /\ ~retired
  BY DEF SubscribeReshape, MaySubscribe
<1>4. id \in SubIds /\ id \in Nat
  BY <1>1, <1>3 DEF SubIds
<1>5. IsFiniteSet(Members) /\ subCount <= nextSubId
  BY Table
<1>6. Members \subseteq 1 .. nextSubId /\ epoch <= nextSubId
  BY DEF IInv, Numbering
<1>7. /\ dist' = bucket
      /\ epoch' = epoch + 1
      /\ snap' = [s \in ShardIds |-> IF s[1] = epoch + 1 /\ s[2] < k
                                     THEN bucket[s[2]] ELSE snap[s]]
      /\ nonEmptyShards' = Cardinality({i \in 0 .. (k - 1) : bucket[i] # {}})
      /\ subCount' = subCount + 1
      /\ joinedAt' = [joinedAt EXCEPT ![id] = seq]
      /\ nextSubId' = id
      /\ UNCHANGED retired
  BY DEF SubscribeReshape, Reshape
<1>8. all \subseteq 1 .. id /\ all \subseteq SubIds
  BY <1>1, <1>3, <1>6 DEF SubIds
<1> HIDE DEF k
<1>9. dist' \in [0 .. (k - 1) -> SUBSET SubIds] /\ DOMAIN dist' = 0 .. (k - 1)
  BY <1>7, <1>8
<1>10. Members' = all
  <2>1. ASSUME NEW m \in all
        PROVE  \E i \in DOMAIN dist' : m \in dist'[i]
    <3>1. m \in Nat
      BY <1>8
    <3>2. m % k \in 0 .. (k - 1)
      BY <1>2, <3>1, Remainder
    <3> QED BY <1>7, <1>9, <3>2
  <2>2. \A i \in DOMAIN dist' : dist'[i] \subseteq all
    BY <1>7, <1>9
  <2> QED BY <2>1, <2>2 DEF Members
<1>11. Numbering'
  BY <1>1, <1>6, <1>7, <1>8, <1>10 DEF Numbering, Epochs
<1>12. subCount' = Cardinality(Members')
  <2>1. id \notin Members
    BY <1>1, <1>6
  <2>2. Cardinality(Members \cup {id}) = Cardinality(Members) + 1
    BY <1>5, <2>1, FS_AddElement
  <2> QED BY <1>7, <1>10, <2>2 DEF IInv, BookkeepingExact
<1>13. nonEmptyShards' = Cardinality(NonEmptySlots')
  <2>1. NonEmptySlots' = {i \in 0 .. (k - 1) : bucket[i] # {}}
    BY <1>7, <1>9 DEF NonEmptySlots
  <2> QED BY <1>7, <2>1
<1>14. \A j \in DOMAIN dist' : snap'[Shard(j)'] = dist'[j]
  <2>1. TAKE j \in DOMAIN dist'
  <2>2. j \in 0 .. (k - 1) /\ j \in Slots /\ j < k
    BY <1>2, <1>9 DEF Slots
  <2>3. epoch + 1 \in Epochs
    BY <1>1, <1>3, <1>6 DEF Epochs
  <2>4. Shard(j)' = <<epoch + 1, j>> /\ <<epoch + 1, j>> \in ShardIds
    BY <1>7, <2>2, <2>3 DEF Shard, ShardIds
  <2>5. dist'[j] = bucket[j]
    BY <1>7
  <2> HIDE DEF bucket
  <2> QED BY <1>7, <2>2, <2>4, <2>5
<1>15. \A j \in DOMAIN dist' : \A m \in dist'[j] : m % Cardinality(DOMAIN dist') = j
  <2>1. Cardinality(0 .. (k - 1)) = k
    BY <1>2, FS_Interval
  <2>2. \A j \in 0 .. (k - 1) : \A m \in dist'[j] : m % k = j
    BY <1>7
  <2> QED BY <1>9, <2>1, <2>2
<1>16. BookkeepingExact'
  <2>1. retired' <=> (subCount' = 0 /\ nextSubId' > 0)
    BY <1>1, <1>3, <1>7
  <2> QED BY <1>12, <1>13, <1>14, <1>15, <2>1 DEF BookkeepingExact
<1>17. MemberType'
  <2>1. nonEmptyShards' \in 0 .. (2 * MaxShards) /\ subCount' \in 0 .. MaxSubs
    <3>1. NonEmptySlots' \subseteq 0 .. (k - 1) /\ k \in Nat
      BY <1>2, <1>9 DEF NonEmptySlots
    <3>2. Cardinality(NonEmptySlots') \in 0 .. k
      BY <3>1, WithinInterval
    <3> QED BY <1>1, <1>2, <1>3, <1>5, <1>7, <1>13, <3>2
  <2>2. joinedAt' \in [SubIds -> 0 .. MaxSeq]
    BY <1>1, <1>4, <1>7
  <2>3. \E j \in 0 .. (2 * MaxShards) : dist' \in [0 .. (j - 1) -> SUBSET SubIds]
    BY <1>2, <1>9
  <2>4. epoch' \in Epochs /\ nextSubId' \in 0 .. MaxSubs
    BY <1>1, <1>3, <1>6, <1>7 DEF Epochs
  <2> QED BY <1>1, <1>7, <2>1, <2>2, <2>3, <2>4 DEF MemberType
<1> QED BY <1>11, <1>16, <1>17

(* unsubscribe takes one member out of the only bucket it is in, and retires the
   room exactly when that was the last. *)
LEMMA UnsubscribeTable ==
    ASSUME IInv, NEW id \in SubIds, Unsubscribe(id)
    PROVE  MemberType' /\ Numbering' /\ BookkeepingExact'
<1> USE BoundsAssumption
<1>1. PICK k \in 0 .. (2 * MaxShards) :
              /\ dist \in [0 .. (k - 1) -> SUBSET SubIds]
              /\ DOMAIN dist = 0 .. (k - 1)
              /\ Cardinality(DOMAIN dist) = k
              /\ IsFiniteSet(Members) /\ IsFiniteSet(NonEmptySlots)
              /\ subCount <= nextSubId
  BY Table
<1>2. /\ epoch \in Epochs /\ nextSubId \in 0 .. MaxSubs
      /\ subCount \in 0 .. MaxSubs /\ nonEmptyShards \in 0 .. (2 * MaxShards)
      /\ retired \in BOOLEAN /\ joinedAt \in [SubIds -> 0 .. MaxSeq]
      /\ snap \in [ShardIds -> SUBSET SubIds]
  BY DEF IInv, TypeOK, MemberType, ShardType
<1>3. PICK i \in DOMAIN dist :
              /\ id \in dist[i]
              /\ dist' = [dist EXCEPT ![i] = @ \ {id}]
              /\ snap' = [snap EXCEPT ![Shard(i)] = dist[i] \ {id}]
              /\ nonEmptyShards' = nonEmptyShards - (IF dist[i] = {id} THEN 1 ELSE 0)
              /\ subCount' = subCount - 1
              /\ retired' = (retired \/ subCount = 1)
              /\ UNCHANGED <<epoch, nextSubId, joinedAt>>
  BY DEF Unsubscribe
<1>4. /\ subCount = Cardinality(Members)
      /\ nonEmptyShards = Cardinality(NonEmptySlots)
      /\ \A j \in DOMAIN dist : snap[Shard(j)] = dist[j]
      /\ \A j \in DOMAIN dist : \A m \in dist[j] : m % k = j
      /\ retired <=> (subCount = 0 /\ nextSubId > 0)
      /\ Members \subseteq 1 .. nextSubId /\ epoch <= nextSubId
  BY <1>1 DEF IInv, BookkeepingExact, Numbering
<1>5. dist' \in [0 .. (k - 1) -> SUBSET SubIds] /\ DOMAIN dist' = 0 .. (k - 1)
  BY <1>1, <1>3
<1>6. id \in Members
  BY <1>3 DEF Members
<1>7. Members' = Members \ {id}
  <2>1. \A j \in DOMAIN dist : j # i => id \notin dist[j]
    BY <1>3, <1>4
  <2>2. \A j \in DOMAIN dist : dist'[j] = dist[j] \ {id}
    BY <1>1, <1>3, <2>1
  <2>3. DOMAIN dist' = DOMAIN dist
    BY <1>3
  <2> QED BY <2>2, <2>3 DEF Members
<1>8. Numbering'
  BY <1>3, <1>4, <1>7 DEF Numbering
<1>9. /\ subCount' = Cardinality(Members') /\ subCount >= 1
  <2>1. Cardinality(Members \ {id}) = Cardinality(Members) - 1
    BY <1>1, <1>6, FS_RemoveElement
  <2>2. Cardinality(Members) # 0
    BY <1>1, <1>6, FS_EmptySet
  <2> QED BY <1>2, <1>3, <1>4, <1>7, <2>1, <2>2
<1>10. nonEmptyShards' = Cardinality(NonEmptySlots') /\ nonEmptyShards >= 1
  <2>1. i \in NonEmptySlots
    BY <1>3 DEF NonEmptySlots
  <2>2. Cardinality(NonEmptySlots \ {i}) = Cardinality(NonEmptySlots) - 1
    BY <1>1, <2>1, FS_RemoveElement
  <2>3. NonEmptySlots' = IF dist[i] = {id} THEN NonEmptySlots \ {i} ELSE NonEmptySlots
    <3>1. dist'[i] = {} <=> dist[i] = {id}
      BY <1>1, <1>3
    <3>2. \A j \in DOMAIN dist : j # i => dist'[j] = dist[j]
      BY <1>1, <1>3
    <3>3. DOMAIN dist' = DOMAIN dist
      BY <1>3
    <3> QED BY <2>1, <3>1, <3>2, <3>3 DEF NonEmptySlots
  <2>4. Cardinality(NonEmptySlots) # 0
    BY <1>1, <2>1, FS_EmptySet
  <2> QED BY <1>2, <1>3, <1>4, <2>2, <2>3, <2>4
<1>11. \A j \in DOMAIN dist' : snap'[Shard(j)'] = dist'[j]
  <2>1. TAKE j \in DOMAIN dist'
  <2>2. j \in DOMAIN dist
    BY <1>3
  <2>3. Shard(j)' = Shard(j) /\ (Shard(j) = Shard(i) <=> j = i)
    BY <1>3 DEF Shard
  <2>4. Shard(i) \in ShardIds /\ Shard(j) \in ShardIds
    BY <1>1, <1>2, <2>2 DEF Shard, ShardIds, Slots
  <2> QED BY <1>1, <1>2, <1>3, <1>4, <2>2, <2>3, <2>4
<1>12. \A j \in DOMAIN dist' : \A m \in dist'[j] : m % Cardinality(DOMAIN dist') = j
  <2>1. DOMAIN dist' = DOMAIN dist /\ \A j \in DOMAIN dist : dist'[j] \subseteq dist[j]
    BY <1>1, <1>3
  <2> QED BY <1>1, <1>4, <2>1
<1>13. BookkeepingExact'
  <2>1. retired' <=> (subCount' = 0 /\ nextSubId' > 0)
    <3>1. subCount' = 0 <=> subCount = 1
      BY <1>2, <1>3
    <3>2. ~retired /\ nextSubId' > 0
      BY <1>1, <1>2, <1>3, <1>4, <1>9
    <3>3. retired' <=> (retired \/ subCount = 1)
      BY <1>3, Zenon
    <3> QED BY <3>1, <3>2, <3>3, Zenon
  <2> QED BY <1>9, <1>10, <1>11, <1>12, <2>1 DEF BookkeepingExact
<1>14. MemberType'
  <2>1. nonEmptyShards' \in 0 .. (2 * MaxShards) /\ subCount' \in 0 .. MaxSubs
    BY <1>2, <1>3, <1>9, <1>10
  <2>2. \E j \in 0 .. (2 * MaxShards) : dist' \in [0 .. (j - 1) -> SUBSET SubIds]
    BY <1>5
  <2> QED BY <1>2, <1>3, <2>1, <2>2 DEF MemberType
<1> QED BY <1>8, <1>13, <1>14

(* Who does not write the table keeps what is said of it. *)
LEMMA MembersUnchanged ==
    ASSUME IInv, UNCHANGED memberVars
    PROVE  MemberType' /\ Numbering' /\ UNCHANGED <<Members, NonEmptySlots>>
  BY DEF IInv, TypeOK, MemberType, Numbering, Members, NonEmptySlots, memberVars

(* Every step keeps the member table well typed and its books exact. *)
LEMMA MemberTableStep ==
    ASSUME IInv, [Next]_vars
    PROVE  MemberType' /\ Numbering' /\ BookkeepingExact'
<1>1. CASE SubscribeJoin
  BY <1>1, SubscribeJoinTable
<1>2. CASE SubscribeReshape
  BY <1>2, SubscribeReshapeTable
<1>3. ASSUME NEW id \in SubIds, Unsubscribe(id)
      PROVE  MemberType' /\ Numbering' /\ BookkeepingExact'
  BY <1>3, UnsubscribeTable
<1>4. CASE UNCHANGED memberVars /\ UNCHANGED snap
  <2>1. /\ UNCHANGED <<Members, NonEmptySlots>>
        /\ \A i \in DOMAIN dist : Shard(i)' = Shard(i)
    BY <1>4, MembersUnchanged DEF memberVars, Shard
  <2>2. BookkeepingExact'
    BY <1>4, <2>1 DEF IInv, BookkeepingExact, memberVars
  <2> QED BY <1>4, <2>2, MembersUnchanged
<1>5. ASSUME NEW p \in Publishers, PublishPush(p)
      PROVE  UNCHANGED memberVars /\ UNCHANGED snap
  BY <1>5 DEF PublishPush, memberVars
<1>6. ASSUME NEW d \in Drainers, DrainPop(d) \/ DrainIdle(d) \/ DispatchThrows(d)
      PROVE  UNCHANGED memberVars /\ UNCHANGED snap
  BY <1>6 DEF DrainPop, DrainIdle, DispatchThrows, memberVars
<1> QED
  BY <1>1, <1>2, <1>3, <1>4, <1>5, <1>6, WhoTouchesMembers, WhoTouchesShards

(* Every step keeps the sequence number within its bound and the journal well
   typed: a number given back was one that had been taken. *)
LEMMA NumberTypeStep ==
    ASSUME IInv, [Next]_vars
    PROVE  NumberType'
<1> USE BoundsAssumption, ThreadsAssumption DEF IInv, TypeOK, NumberType
<1>1. ASSUME NEW id \in SubIds, Unsubscribe(id)
      PROVE  NumberType'
  <2>1. journal' = <<>> \/ UNCHANGED journal
    BY <1>1 DEF Unsubscribe
  <2>2. UNCHANGED <<pubOwner, seq>>
    BY <1>1 DEF Unsubscribe
  <2>3. <<>> \in Seq(1 .. MaxSeq)
    BY EmptySeq
  <2> QED BY <2>1, <2>2, <2>3
<1>2. ASSUME NEW p \in Publishers, PublishLock(p)
      PROVE  NumberType'
  BY <1>2 DEF PublishLock
<1>3. ASSUME NEW p \in Publishers, PublishBuildThrows(p)
      PROVE  NumberType'
  <2>1. seq \in 1 .. MaxSeq
    BY <1>3, SeqWhileBuilding DEF PublishBuildThrows
  <2>2. UNCHANGED journal
    BY <1>3 DEF PublishBuildThrows
  <2> QED BY <1>3, <2>1, <2>2 DEF PublishBuildThrows
<1>4. ASSUME NEW p \in Publishers, PublishCommit(p)
      PROVE  NumberType'
  <2>1. seq \in 1 .. MaxSeq
    BY <1>4, SeqWhileBuilding DEF PublishCommit
  <2>2. Append(journal, seq) \in Seq(1 .. MaxSeq)
    BY <2>1
  <2>3. LastEntries(Append(journal, seq)) \in Seq(1 .. MaxSeq)
    BY <2>2, LastEntriesType
  <2> QED BY <1>4, <2>3 DEF PublishCommit
<1>5. CASE UNCHANGED numberVars
  BY <1>5 DEF numberVars
<1> QED
  BY <1>1, <1>2, <1>3, <1>4, <1>5, WhoTouchesNumbers

(* The shard publishSharedImpl pushes to exists. *)
LEMMA PushedShard ==
    ASSUME TypeOK, NEW p \in Publishers, todo[p] # {}
    PROVE  Shard(Lowest(todo[p])) \in ShardIds
<1>1. todo[p] \in SUBSET Slots
  BY DEF TypeOK, PublisherType
<1>2. Slots \in SUBSET Nat
  BY DEF Slots
<1>3. Lowest(todo[p]) \in Slots
  BY <1>1, <1>2, LeastExists
<1> QED BY <1>3, CurrentShardsAreShards

(* Every step keeps the queues, the busy flags and the snapshots well typed. *)
LEMMA ShardTypeStep ==
    ASSUME IInv, [Next]_vars
    PROVE  ShardType'
<1> USE DEF IInv, TypeOK, ShardType
<1>1. CASE SubscribeJoin
  <2>1. nextSubId + 1 \in SubIds
    BY <1>1, BoundsAssumption DEF SubscribeJoin, MaySubscribe, MemberType, SubIds
  <2> QED BY <1>1, <2>1 DEF SubscribeJoin
<1>2. CASE SubscribeReshape
  <2> DEFINE id == nextSubId + 1
             k  == ShardsFor(subCount + 1)
             bucket == [i \in 0 .. (k - 1) |-> {m \in Members \cup {id} : m % k = i}]
  <2>1. id \in SubIds
    BY <1>2, BoundsAssumption DEF SubscribeReshape, MaySubscribe, MemberType, SubIds
  <2>2. Members \subseteq SubIds
    BY BoundsAssumption DEF Numbering, MemberType, SubIds
  <2>3. k \in Nat \ {0}
    <3>1. subCount + 1 \in Nat /\ 2 * MaxShards \in Nat
      BY BoundsAssumption DEF MemberType
    <3>2. k \in 1 .. (2 * MaxShards)
      BY <3>1, ShardsForType
    <3> QED BY <3>1, <3>2
  <2>4. snap' = [s \in ShardIds |-> IF s[1] = epoch + 1 /\ s[2] < k
                                    THEN bucket[s[2]] ELSE snap[s]]
    BY <1>2 DEF SubscribeReshape, Reshape
  <2>5. UNCHANGED <<queue, busy>>
    BY <1>2 DEF SubscribeReshape
  <2> HIDE DEF id, k
  <2>6. \A i \in 0 .. (k - 1) : bucket[i] \in SUBSET SubIds
    BY <2>1, <2>2
  <2>7. ASSUME NEW s \in ShardIds, s[2] < k
        PROVE  s[2] \in 0 .. (k - 1)
    BY <2>3, <2>7 DEF ShardIds, Slots
  <2> HIDE DEF bucket
  <2>8. \A s \in ShardIds : (IF s[1] = epoch + 1 /\ s[2] < k THEN bucket[s[2]] ELSE snap[s])
                            \in SUBSET SubIds
    BY <2>6, <2>7
  <2>9. snap' \in [ShardIds -> SUBSET SubIds]
    BY <2>4, <2>8
  <2> QED BY <2>5, <2>9
<1>3. ASSUME NEW id \in SubIds, Unsubscribe(id)
      PROVE  ShardType'
  <2>1. PICK i \in DOMAIN dist :
              /\ snap' = [snap EXCEPT ![Shard(i)] = dist[i] \ {id}]
              /\ UNCHANGED <<queue, busy>>
    BY <1>3 DEF Unsubscribe
  <2>2. dist[i] \in SUBSET SubIds
    BY DEF MemberType
  <2> QED BY <2>1, <2>2
<1>4. ASSUME NEW p \in Publishers, PublishPush(p)
      PROVE  ShardType'
  <2> DEFINE s == Shard(Lowest(todo[p]))
  <2>1. seq \in 1 .. MaxSeq
    BY <1>4, SeqWhileBuilding DEF PublishPush
  <2>2. /\ queue' = [queue EXCEPT ![s] = Append(@, seq)]
        /\ busy' = [busy EXCEPT ![s] = TRUE]
        /\ UNCHANGED snap
    BY <1>4 DEF PublishPush
  <2>3. s \in ShardIds
    BY <1>4, PushedShard DEF PublishPush
  <2> HIDE DEF s
  <2> QED BY <2>1, <2>2, <2>3
<1>5. ASSUME NEW d \in Drainers, DrainPop(d)
      PROVE  ShardType'
  <2> DEFINE s == drain[d]
  <2>1. s \in ShardIds /\ queue[s] # <<>>
    BY <1>5 DEF DrainPop, BetweenMessages, DrainerType
  <2>2. queue' = [queue EXCEPT ![s] = Tail(queue[s])] /\ UNCHANGED <<busy, snap>>
    BY <1>5 DEF DrainPop
  <2> HIDE DEF s
  <2>3. Tail(queue[s]) \in Seq(1 .. MaxSeq)
    BY <2>1, HeadTailProperties
  <2> QED BY <2>1, <2>2, <2>3
<1>6. ASSUME NEW d \in Drainers, DrainIdle(d)
      PROVE  ShardType'
  BY <1>6 DEF DrainIdle
<1>7. ASSUME NEW d \in Drainers, DispatchThrows(d)
      PROVE  ShardType'
  <2> DEFINE back == Yields(d) /\ queue[drain[d]] # <<>>
  <2>1. back \in BOOLEAN
    BY DEF Yields
  <2>2. busy' = [busy EXCEPT ![drain[d]] = back] /\ UNCHANGED <<queue, snap>>
    BY <1>7 DEF DispatchThrows
  <2> HIDE DEF back
  <2> QED BY <2>1, <2>2
<1>8. CASE UNCHANGED shardVars
  BY <1>8
<1> QED
  BY <1>1, <1>2, <1>3, <1>4, <1>5, <1>6, <1>7, <1>8, WhoTouchesShards

(* Every step keeps the publishers' locals well typed. *)
LEMMA PublisherTypeStep ==
    ASSUME IInv, [Next]_vars
    PROVE  PublisherType'
<1> USE DEF IInv, TypeOK, PublisherType
<1>1. ASSUME NEW p \in Publishers, PublishEnter(p)
      PROVE  PublisherType'
  <2> DEFINE mode == Workers = {} \/ subCount <= InlineMaxSubs
  <2>1. mode \in BOOLEAN
    OBVIOUS
  <2>2. inlineMode' = [inlineMode EXCEPT ![p] = mode]
    BY <1>1 DEF PublishEnter
  <2>3. pc' = [pc EXCEPT ![p] = "lock"] /\ UNCHANGED <<todo, needWake>>
    BY <1>1 DEF PublishEnter
  <2> HIDE DEF mode
  <2> QED BY <2>1, <2>2, <2>3
<1>2. ASSUME NEW p \in Publishers, PublishRefused(p) \/ PublishReturn(p)
      PROVE  PublisherType'
  BY <1>2 DEF PublishRefused, PublishReturn
<1>3. ASSUME NEW p \in Publishers, PublishLock(p)
      PROVE  PublisherType'
  <2>1. TargetSlots \subseteq Slots
    BY TargetsInRange
  <2> QED BY <1>3, <2>1 DEF PublishLock
<1>4. ASSUME NEW p \in Publishers, PublishBuildThrows(p)
      PROVE  PublisherType'
  BY <1>4 DEF PublishBuildThrows
<1>5. ASSUME NEW p \in Publishers, PublishPush(p)
      PROVE  PublisherType'
  <2> DEFINE i == Lowest(todo[p])
             s == Shard(i)
  <2>1. s \in ShardIds
    BY <1>5, PushedShard DEF PublishPush
  <2>2. /\ pc' = [pc EXCEPT ![p] = "push"]
        /\ todo' = [todo EXCEPT ![p] = @ \ {i}]
        /\ needWake' = IF busy[s] THEN needWake ELSE [needWake EXCEPT ![p] = Append(@, s)]
        /\ UNCHANGED inlineMode
    BY <1>5 DEF PublishPush
  <2> HIDE DEF i, s
  <2> QED BY <2>1, <2>2
<1>6. ASSUME NEW p \in Publishers, PublishCommit(p)
      PROVE  PublisherType'
  <2>1. <<>> \in Seq(ShardIds)
    BY EmptySeq
  <2> QED BY <1>6, <2>1 DEF PublishCommit
<1>7. ASSUME NEW p \in Publishers, InlineDrainNext(p)
      PROVE  PublisherType'
  <2>1. Tail(needWake[p]) \in Seq(ShardIds)
    BY <1>7, HeadTailProperties DEF InlineDrainNext
  <2> QED BY <1>7, <2>1 DEF InlineDrainNext
<1>8. CASE UNCHANGED pubVars
  BY <1>8
<1> QED
  BY <1>1, <1>2, <1>3, <1>4, <1>5, <1>6, <1>7, <1>8, WhoTouchesPublishers

(* What drainShard keeps of a popped message is a batch or nothing. *)
LEMMA InHandType ==
    ASSUME NEW n \in 1 .. MaxSeq, NEW ids \in SUBSET SubIds
    PROVE  InHand(n, ids) \in Batches \cup {Nothing}
<1>1. CASE ids = {}
  BY <1>1 DEF InHand
<1>2. CASE ids # {}
  <2>1. [n |-> n, to |-> ids] \in [n : 1 .. MaxSeq, to : (SUBSET SubIds) \ {{}}]
    BY <1>2
  <2> QED BY <1>2, <2>1 DEF InHand, Batches
<1> QED BY <1>1, <1>2

(* What a drainer with members left to serve holds is a numbered message. *)
LEMMA HandHolds ==
    ASSUME TypeOK, NEW d \in Drainers, cur[d].to # {}
    PROVE  /\ cur[d].n \in 1 .. MaxSeq /\ cur[d].to \in SUBSET SubIds
           /\ drain[d] \in ShardIds \cup {NoShard}
  BY DEF TypeOK, DrainerType, Batches, Nothing

(* A group of fanOutToSnapshot is a finite set of known ids. *)
LEMMA GroupType ==
    ASSUME TypeOK, NEW d \in Drainers, NEW l, Group(d, l) # {}
    PROVE  /\ cur[d].to # {} /\ Group(d, l) \in SUBSET SubIds
           /\ Cardinality(Group(d, l)) \in Nat
<1>1. cur[d].to # {}
  BY DEF Group
<1>2. Group(d, l) \in SUBSET SubIds
  BY <1>1, HandHolds DEF Group
<1>3. Cardinality(Group(d, l)) \in Nat
  <2>1. MaxSubs \in Nat /\ Group(d, l) \subseteq 1 .. MaxSubs
    BY <1>2, BoundsAssumption DEF SubIds
  <2>2. Cardinality(Group(d, l)) \in 0 .. MaxSubs
    BY <2>1, WithinInterval
  <2> QED BY <2>1, <2>2
<1> QED BY <1>1, <1>2, <1>3

(* Every step keeps the ready queue and drainShard's locals well typed, and a
   drainer with members left to serve has a shard. *)
LEMMA DrainerTypeStep ==
    ASSUME IInv, [Next]_vars
    PROVE  DrainerType' /\ HandNeedsShard'
<1> USE DEF IInv, TypeOK, DrainerType, HandNeedsShard
<1>0. Publishers \subseteq Drainers /\ Workers \subseteq Drainers
  BY DEF Drainers
<1>1. ASSUME NEW p \in Publishers, PublishCommit(p)
      PROVE  DrainerType' /\ HandNeedsShard'
  <2>1. ready \o needWake[p] \in Seq(ShardIds)
    BY ConcatProperties DEF PublisherType
  <2>2. ready' \in Seq(ShardIds)
    BY <1>1, <2>1 DEF PublishCommit
  <2>3. UNCHANGED <<drain, cur, processed, requeue>>
    BY <1>1 DEF PublishCommit
  <2> QED BY <2>2, <2>3
<1>2. ASSUME NEW p \in Publishers, InlineDrainNext(p)
      PROVE  DrainerType' /\ HandNeedsShard'
  <2>1. Head(needWake[p]) \in ShardIds
    BY <1>2, HeadTailProperties DEF InlineDrainNext, PublisherType
  <2>2. /\ drain' = [drain EXCEPT ![p] = Head(needWake[p])]
        /\ UNCHANGED <<ready, cur, processed, requeue>>
    BY <1>2 DEF InlineDrainNext
  <2> QED BY <1>0, <2>1, <2>2, ThreadsAssumption
<1>3. ASSUME NEW w \in Workers, WorkerTake(w)
      PROVE  DrainerType' /\ HandNeedsShard'
  <2>1. Head(ready) \in ShardIds /\ Tail(ready) \in Seq(ShardIds)
    BY <1>3, HeadTailProperties DEF WorkerTake
  <2>2. /\ drain' = [drain EXCEPT ![w] = Head(ready)]
        /\ ready' = Tail(ready)
        /\ UNCHANGED <<cur, processed, requeue>>
    BY <1>3 DEF WorkerTake
  <2> QED BY <1>0, <2>1, <2>2, ThreadsAssumption
<1>4. ASSUME NEW d \in Drainers, DrainPop(d)
      PROVE  DrainerType' /\ HandNeedsShard'
  <2> DEFINE s    == drain[d]
             done == IF processed[d] < DrainBatch THEN processed[d] + 1 ELSE DrainBatch
             full == Yields(d) /\ done >= DrainBatch /\ Tail(queue[s]) # <<>>
             hand == InHand(Head(queue[s]), snap[s])
  <2>1. s \in ShardIds /\ queue[s] # <<>>
    BY <1>4 DEF DrainPop, BetweenMessages
  <2>2. Head(queue[s]) \in 1 .. MaxSeq /\ snap[s] \in SUBSET SubIds
    BY <2>1, HeadTailProperties DEF ShardType
  <2>3. hand \in Batches \cup {Nothing}
    BY <2>2, InHandType
  <2>4. done \in 0 .. DrainBatch
    BY BoundsAssumption
  <2>5. full \in BOOLEAN
    BY DEF Yields
  <2>6. /\ cur' = [cur EXCEPT ![d] = hand]
        /\ processed' = [processed EXCEPT ![d] = IF Yields(d) THEN done ELSE @]
        /\ requeue' = [requeue EXCEPT ![d] = full]
        /\ UNCHANGED <<ready, drain>>
    BY <1>4 DEF DrainPop
  <2>7. s # NoShard
    BY <2>1, ThreadsAssumption
  <2> HIDE DEF hand, done, full
  <2> QED BY <2>3, <2>4, <2>5, <2>6, <2>7
<1>5. ASSUME NEW d \in Drainers, LeaveShard(d), ready' \in Seq(ShardIds)
      PROVE  DrainerType' /\ HandNeedsShard'
  <2>1. 0 \in 0 .. DrainBatch
    BY BoundsAssumption
  <2>2. Nothing.to = {}
    BY DEF Nothing
  <2> QED BY <1>5, <2>1, <2>2 DEF LeaveShard
<1>6. ASSUME NEW d \in Drainers, DrainIdle(d) \/ DrainYield(d)
      PROVE  LeaveShard(d) /\ ready' \in Seq(ShardIds)
  <2>1. CASE DrainIdle(d)
    BY <2>1 DEF DrainIdle
  <2>2. CASE DrainYield(d)
    <3>1. drain[d] \in ShardIds
      BY <2>2 DEF DrainYield
    <3> QED BY <2>2, <3>1 DEF DrainYield
  <2> QED BY <1>6, <2>1, <2>2
<1>7. ASSUME NEW d \in Drainers, DispatchThrows(d)
      PROVE  LeaveShard(d) /\ ready' \in Seq(ShardIds)
  <2>1. drain[d] \in ShardIds
    BY <1>7 DEF DispatchThrows
  <2>2. Append(ready, drain[d]) \in Seq(ShardIds)
    BY <2>1
  <2> QED BY <1>7, <2>2 DEF DispatchThrows
<1>8. ASSUME NEW d \in Drainers, NEW l, Group(d, l) # {},
             cur' = [cur EXCEPT ![d] = InHand(@.n, @.to \ Group(d, l))],
             UNCHANGED <<ready, drain, processed, requeue>>
      PROVE  DrainerType' /\ HandNeedsShard'
  <2> DEFINE hand == InHand(cur[d].n, cur[d].to \ Group(d, l))
  <2>1. cur[d].to # {} /\ cur[d].n \in 1 .. MaxSeq /\ cur[d].to \in SUBSET SubIds
    BY <1>8, GroupType, HandHolds
  <2>2. hand \in Batches \cup {Nothing}
    BY <2>1, InHandType
  <2>3. cur' = [cur EXCEPT ![d] = hand] /\ drain[d] # NoShard
    BY <1>8, <2>1
  <2> HIDE DEF hand
  <2> QED BY <1>8, <2>2, <2>3
<1>9. ASSUME NEW d \in Drainers, SendDirect(d)
      PROVE  DrainerType' /\ HandNeedsShard'
  BY <1>8, <1>9 DEF SendDirect
<1>10. ASSUME NEW d \in Drainers, NEW l \in Loops, Dispatch(d, l)
      PROVE  DrainerType' /\ HandNeedsShard'
  BY <1>8, <1>10 DEF Dispatch
<1>11. CASE UNCHANGED drainerVars
  BY <1>11 DEF drainerVars
<1> QED
  BY <1>1, <1>2, <1>3, <1>4, <1>5, <1>6, <1>7, <1>9, <1>10, <1>11, WhoTouchesDrainers

(* What is sent to connections is a numbered message for known ids. *)
LEMMA ReceiveType ==
    ASSUME TypeOK, NEW n \in 1 .. MaxSeq, NEW ids \in SUBSET SubIds, Receive(n, ids)
    PROVE  /\ delivered' \in [SubIds -> Seq(1 .. MaxSeq)]
           /\ skipped' \in SUBSET (SubIds \X (1 .. MaxSeq))
<1> USE DEF TypeOK, LoopType, Receive
<1>1. \A id \in SubIds : Append(delivered[id], n) \in Seq(1 .. MaxSeq)
  OBVIOUS
<1>2. delivered' \in [SubIds -> Seq(1 .. MaxSeq)]
  BY <1>1
<1>3. \A id \in ids : <<id, n>> \in SubIds \X (1 .. MaxSeq)
  OBVIOUS
<1> QED BY <1>2, <1>3

(* Every step keeps the in-flight count, the loop queues and what the
   connections received well typed. *)
LEMMA LoopTypeStep ==
    ASSUME IInv, [Next]_vars
    PROVE  LoopType'
<1> USE DEF IInv, TypeOK, LoopType
<1>1. ASSUME NEW id \in SubIds, GateCloses(id)
      PROVE  LoopType'
  BY <1>1, BoundsAssumption DEF GateCloses
<1>2. ASSUME NEW id \in SubIds, GateOpens(id)
      PROVE  LoopType'
  BY <1>2 DEF GateOpens
<1>3. ASSUME NEW p \in Publishers, PublishBuildThrows(p)
      PROVE  LoopType'
  BY <1>3, BoundsAssumption DEF PublishBuildThrows
<1>4. ASSUME NEW d \in Drainers, SendDirect(d)
      PROVE  LoopType'
  <2>1. Group(d, NoLoop) # {} /\ Receive(cur[d].n, Group(d, NoLoop))
    BY <1>4 DEF SendDirect
  <2>2. cur[d].n \in 1 .. MaxSeq /\ Group(d, NoLoop) \in SUBSET SubIds
    BY <2>1, GroupType, HandHolds
  <2>3. /\ delivered' \in [SubIds -> Seq(1 .. MaxSeq)]
        /\ skipped' \in SUBSET (SubIds \X (1 .. MaxSeq))
    BY <2>1, <2>2, ReceiveType
  <2>4. UNCHANGED <<inFlight, loopQueue, gated, lost, faults, gates>>
    BY <1>4 DEF SendDirect
  <2> QED BY <2>3, <2>4
<1>5. ASSUME NEW d \in Drainers, DispatchThrows(d)
      PROVE  LoopType'
  <2>1. /\ cur[d].to # {} /\ faults < MaxFaults /\ faults' = faults + 1
        /\ lost' = lost \cup {<<id, cur[d].n>> : id \in cur[d].to}
        /\ UNCHANGED <<inFlight, loopQueue, gated, delivered, skipped, gates>>
    BY <1>5 DEF DispatchThrows
  <2>2. cur[d].n \in 1 .. MaxSeq /\ cur[d].to \in SUBSET SubIds
    BY <2>1, HandHolds
  <2>3. lost' \in SUBSET (SubIds \X (1 .. MaxSeq))
    BY <2>1, <2>2
  <2>4. faults' \in 0 .. MaxFaults
    BY <2>1, BoundsAssumption
  <2> QED BY <2>1, <2>3, <2>4
<1>6. ASSUME NEW d \in Drainers, NEW l \in Loops, Dispatch(d, l)
      PROVE  LoopType'
  <2> DEFINE batch == [n |-> cur[d].n, to |-> Group(d, l)]
  <2>1. /\ Group(d, l) # {}
        /\ inFlight' = inFlight + Cardinality(Group(d, l))
        /\ loopQueue' = [loopQueue EXCEPT ![l] = Append(@, batch)]
        /\ UNCHANGED <<gated, delivered, skipped, lost, faults, gates>>
    BY <1>6 DEF Dispatch
  <2>2. /\ cur[d].n \in 1 .. MaxSeq /\ Group(d, l) \in SUBSET SubIds
        /\ Cardinality(Group(d, l)) \in Nat
    BY <2>1, GroupType, HandHolds
  <2>3. batch \in Batches
    BY <2>1, <2>2 DEF Batches
  <2> HIDE DEF batch
  <2>4. loopQueue' \in [Loops -> Seq(Batches)]
    BY <2>1, <2>3
  <2> QED BY <2>1, <2>2, <2>4
<1>7. ASSUME NEW l \in Loops, LoopRun(l)
      PROVE  LoopType'
  <2> DEFINE batch == Head(loopQueue[l])
  <2>1. batch \in Batches /\ Tail(loopQueue[l]) \in Seq(Batches)
    BY <1>7, HeadTailProperties DEF LoopRun
  <2>2. batch.n \in 1 .. MaxSeq /\ batch.to \in SUBSET SubIds
    BY <2>1 DEF Batches
  <2>3. /\ loopQueue' = [loopQueue EXCEPT ![l] = Tail(@)]
        /\ Receive(batch.n, batch.to)
        /\ inFlight' = inFlight - Cardinality(batch.to)
        /\ UNCHANGED <<gated, lost, faults, gates>>
    BY <1>7 DEF LoopRun
  <2> HIDE DEF batch
  <2>4. /\ delivered' \in [SubIds -> Seq(1 .. MaxSeq)]
        /\ skipped' \in SUBSET (SubIds \X (1 .. MaxSeq))
    BY <2>2, <2>3, ReceiveType
  <2>5. inFlight' \in Int
    <3>1. MaxSubs \in Nat /\ batch.to \subseteq 1 .. MaxSubs
      BY <2>2, BoundsAssumption DEF SubIds
    <3>2. Cardinality(batch.to) \in 0 .. MaxSubs
      BY <3>1, WithinInterval
    <3> QED BY <2>3, <3>2
  <2>6. loopQueue' \in [Loops -> Seq(Batches)]
    BY <2>1, <2>3
  <2> QED BY <2>3, <2>4, <2>5, <2>6
<1>8. CASE UNCHANGED connVars
  BY <1>8 DEF connVars
<1> QED
  BY <1>1, <1>2, <1>3, <1>4, <1>5, <1>6, <1>7, <1>8, WhoTouchesConnections

-----------------------------------------------------------------------------
(* The theorems *)

(* Every step keeps the invariant. *)
LEMMA StepInvariant == IInv /\ [Next]_vars => IInv'
<1> SUFFICES ASSUME IInv, [Next]_vars PROVE IInv'
  OBVIOUS
<1>1. MemberType' /\ Numbering' /\ BookkeepingExact'
  BY MemberTableStep
<1>2. NumberType' /\ ShardType' /\ PublisherType' /\ LoopType'
  BY NumberTypeStep, ShardTypeStep, PublisherTypeStep, LoopTypeStep
<1>3. DrainerType' /\ HandNeedsShard' /\ Locks'
  BY DrainerTypeStep, LocksStep
<1> QED BY <1>1, <1>2, <1>3 DEF IInv, TypeOK

(* The room of RoomRegistryT never leaves the invariant. *)
LEMMA InvariantHolds == Spec => []IInv
<1>1. Init => IInv
  BY InitInvariant
<1>2. IInv /\ [Next]_vars => IInv'
  BY StepInvariant
<1> QED BY <1>1, <1>2, PTL DEF Spec

(* Every variable of the room, its shards, the threads and the loops keeps its
   type, and every counter its bound. *)
THEOREM TypeCorrect == Spec => []TypeOK
<1>1. IInv => TypeOK
  BY DEF IInv
<1> QED BY <1>1, InvariantHolds, PTL

(* The counters and snapshots publishSharedImpl, fanOutToSnapshot and
   unsubscribe trust without looking at the member table always agree with it:
   nonEmptyShards and subCount are exact, every snapshot is its bucket, every
   member is in the bucket of its id, and the room is retired exactly when it
   has lost its last member. *)
THEOREM BooksAlwaysExact == Spec => []BookkeepingExact
<1>1. IInv => BookkeepingExact
  BY DEF IInv
<1> QED BY <1>1, InvariantHolds, PTL

-----------------------------------------------------------------------------
(***************************************************************************)
(* One party drains each busy shard (OneClaimPerBusyShard), for every      *)
(* number of publishers, workers, shards and messages.                     *)
(*                                                                         *)
(* Three kinds of party can have a shard: a drainer, the ready queue and a *)
(* publisher that has still to wake it.  The invariant says without        *)
(* counting that what they have is busy (HeldIsBusy), that what is busy    *)
(* they have (BusyIsHeld) and that no two have the same (HeldOnce).        *)
(***************************************************************************)
InReady == Range(ready)
ToWake(p) == Range(needWake[p])

HeldIsBusy ==
    /\ \A d \in Drainers : drain[d] # NoShard => busy[drain[d]]
    /\ \A s \in InReady : busy[s]
    /\ \A p \in Publishers : \A s \in ToWake(p) : busy[s]
BusyIsHeld ==
    \A s \in ShardIds : busy[s] =>
        \/ \E d \in Drainers : drain[d] = s
        \/ s \in InReady
        \/ \E p \in Publishers : s \in ToWake(p)
HeldOnce ==
    /\ \A d, e \in Drainers : drain[d] = drain[e] /\ drain[d] # NoShard => d = e
    /\ IsInjective(ready)
    /\ \A p \in Publishers : IsInjective(needWake[p])
    /\ \A d \in Drainers : drain[d] \notin InReady
    /\ \A d \in Drainers, p \in Publishers : drain[d] \notin ToWake(p)
    /\ \A p \in Publishers : InReady \cap ToWake(p) = {}
    /\ \A p, q \in Publishers : p # q => ToWake(p) \cap ToWake(q) = {}
ClaimInv == HeldIsBusy /\ BusyIsHeld /\ HeldOnce

claimVars == <<busy, ready, drain, needWake>>

USE DEF roomVars, shardVars, pubVars, drainVars, loopVars, gateVars

-----------------------------------------------------------------------------
(* Sequences as sets without repetition. *)

(* Appending a new element, as publishSharedImpl and enqueueReady do. *)
LEMMA AppendedOnce ==
    ASSUME NEW S, NEW q \in Seq(S), NEW x \in S
    PROVE  /\ Range(Append(q, x)) = Range(q) \cup {x}
           /\ IsInjective(q) /\ x \notin Range(q) => IsInjective(Append(q, x))
<1>1. /\ Len(q) \in Nat /\ DOMAIN q = 1 .. Len(q)
      /\ DOMAIN Append(q, x) = 1 .. (Len(q) + 1)
      /\ \A i \in 1 .. Len(q) : Append(q, x)[i] = q[i]
      /\ Append(q, x)[Len(q) + 1] = x
  OBVIOUS
<1> DEFINE a == Append(q, x)
           n == Len(q)
<1>2. /\ n \in Nat /\ DOMAIN q = 1 .. n /\ DOMAIN a = 1 .. (n + 1)
      /\ \A i \in 1 .. n : a[i] = q[i]
      /\ a[n + 1] = x
  BY <1>1
<1> HIDE DEF a, n
<1>3. Range(a) = Range(q) \cup {x}
  BY <1>2 DEF Range
<1>4. IsInjective(q) /\ x \notin Range(q) => IsInjective(a)
  BY <1>2 DEF Range, IsInjective
<1> QED BY <1>3, <1>4 DEF a

(* Taking the head, as workerLoop and the inline drain do. *)
LEMMA TakenOnce ==
    ASSUME NEW S, NEW q \in Seq(S), q # <<>>
    PROVE  /\ Head(q) \in Range(q)
           /\ Range(q) = Range(Tail(q)) \cup {Head(q)}
           /\ IsInjective(q) => IsInjective(Tail(q)) /\ Head(q) \notin Range(Tail(q))
<1> DEFINE t == Tail(q)
           n == Len(q)
           h == Head(q)
<1>1. /\ n \in Nat \ {0} /\ DOMAIN q = 1 .. n /\ h = q[1]
      /\ DOMAIN t = 1 .. (n - 1)
      /\ \A i \in 1 .. (n - 1) : t[i] = q[i + 1]
  BY HeadTailProperties, EmptySeq, LenProperties
<1> HIDE DEF t, n, h
<1>2. Range(q) = Range(t) \cup {h}
  <2>1. ASSUME NEW i \in 1 .. n PROVE q[i] \in Range(t) \cup {h}
    <3>1. CASE i = 1
      BY <1>1, <3>1
    <3>2. CASE i # 1
      <4>1. i - 1 \in 1 .. (n - 1) /\ t[i - 1] = q[i]
        BY <1>1, <3>2
      <4> QED BY <1>1, <4>1 DEF Range
    <3> QED BY <3>1, <3>2
  <2>2. Range(q) \subseteq Range(t) \cup {h}
    BY <1>1, <2>1 DEF Range
  <2>3. \A i \in 1 .. (n - 1) : i + 1 \in 1 .. n
    BY <1>1
  <2>4. Range(t) \subseteq Range(q)
    BY <1>1, <2>3 DEF Range
  <2>5. h \in Range(q)
    <3>1. 1 \in 1 .. n
      BY <1>1
    <3> QED BY <1>1, <3>1 DEF Range
  <2> QED BY <2>2, <2>4, <2>5
<1>3. ASSUME IsInjective(q)
      PROVE  IsInjective(t) /\ h \notin Range(t)
  <2>1. \A i \in 1 .. (n - 1) : i + 1 \in 1 .. n /\ i + 1 # 1
    BY <1>1
  <2>2. ASSUME NEW i \in 1 .. (n - 1), NEW j \in 1 .. (n - 1), t[i] = t[j]
        PROVE  i = j
    <3>1. i + 1 = j + 1
      BY <1>1, <1>3, <2>1, <2>2 DEF IsInjective
    <3> QED BY <1>1, <3>1
  <2>3. ASSUME NEW i \in 1 .. (n - 1)
        PROVE  t[i] # h
    <3>1. 1 \in 1 .. n
      BY <1>1
    <3> QED BY <1>1, <1>3, <2>1, <3>1 DEF IsInjective
  <2> QED BY <1>1, <2>2, <2>3 DEF Range, IsInjective
<1> QED BY <1>2, <1>3 DEF t, h

(* Appending a whole list, as enqueueReady's caller does. *)
LEMMA JoinedOnce ==
    ASSUME NEW S, NEW q \in Seq(S), NEW r \in Seq(S)
    PROVE  /\ Range(q \o r) = Range(q) \cup Range(r)
           /\ IsInjective(q) /\ IsInjective(r) /\ Range(q) \cap Range(r) = {}
                => IsInjective(q \o r)
<1> DEFINE c == q \o r
           n == Len(q)
           m == Len(r)
<1>1. /\ n \in Nat /\ m \in Nat /\ DOMAIN q = 1 .. n /\ DOMAIN r = 1 .. m
      /\ DOMAIN c = 1 .. (n + m)
      /\ \A i \in 1 .. (n + m) : c[i] = IF i <= n THEN q[i] ELSE r[i - n]
  BY ConcatProperties, LenProperties
<1> HIDE DEF c, n, m
<1>2. \A i \in 1 .. n : i \in 1 .. (n + m) /\ c[i] = q[i]
  BY <1>1
<1>3. \A i \in 1 .. m : n + i \in 1 .. (n + m) /\ c[n + i] = r[i]
  BY <1>1
<1>4. \A i \in 1 .. (n + m) : i \in 1 .. n \/ (i - n \in 1 .. m /\ c[i] = r[i - n])
  BY <1>1
<1>5. Range(c) = Range(q) \cup Range(r)
  <2>1. Range(c) \subseteq Range(q) \cup Range(r)
    BY <1>1, <1>2, <1>4 DEF Range
  <2>2. Range(q) \subseteq Range(c) /\ Range(r) \subseteq Range(c)
    BY <1>1, <1>2, <1>3 DEF Range
  <2> QED BY <2>1, <2>2
<1>6. ASSUME IsInjective(q), IsInjective(r), Range(q) \cap Range(r) = {},
             NEW i \in 1 .. (n + m), NEW j \in 1 .. (n + m), c[i] = c[j]
      PROVE  i = j
  <2>1. CASE i \in 1 .. n /\ j \in 1 .. n
    BY <1>1, <1>2, <1>6, <2>1 DEF IsInjective
  <2>2. CASE i \notin 1 .. n /\ j \notin 1 .. n
    <3>1. i - n \in 1 .. m /\ j - n \in 1 .. m /\ r[i - n] = r[j - n]
      BY <1>4, <1>6, <2>2
    <3>2. i - n = j - n
      BY <1>1, <1>6, <3>1 DEF IsInjective
    <3> QED BY <1>1, <3>2
  <2>3. ASSUME NEW a \in 1 .. n, NEW b \in 1 .. (n + m), b \notin 1 .. n, c[a] = c[b]
        PROVE  FALSE
    <3>1. c[a] \in Range(q) /\ c[b] \in Range(r)
      BY <1>1, <1>2, <1>4, <2>3 DEF Range
    <3> QED BY <1>6, <2>3, <3>1
  <2> QED BY <1>6, <2>1, <2>2, <2>3
<1> QED BY <1>1, <1>5, <1>6 DEF c, IsInjective

(* What the claims hold are shards. *)
LEMMA HeldAreShards ==
    ASSUME TypeOK
    PROVE  InReady \subseteq ShardIds /\ \A p \in Publishers : ToWake(p) \subseteq ShardIds
<1>1. \A q \in Seq(ShardIds) : Range(q) \subseteq ShardIds
  BY DEF Range
<1> QED BY <1>1 DEF TypeOK, DrainerType, PublisherType, InReady, ToWake

-----------------------------------------------------------------------------
(* An empty room has no claims. *)
LEMMA InitClaims == Init => ClaimInv
<1> SUFFICES ASSUME Init PROVE ClaimInv
  OBVIOUS
<1>1. Range(<<>>) = {} /\ IsInjective(<<>>)
  BY DEF Range, IsInjective
<1>2. InReady = {} /\ \A p \in Publishers : ToWake(p) = {}
  BY <1>1 DEF Init, InReady, ToWake
<1>3. HeldIsBusy
  BY <1>2 DEF Init, HeldIsBusy
<1>4. BusyIsHeld
  BY DEF Init, BusyIsHeld
<1>5. HeldOnce
  BY <1>1, <1>2 DEF Init, HeldOnce
<1> QED BY <1>3, <1>4, <1>5 DEF ClaimInv

(* publishSharedImpl wakes a shard on the idle -> busy edge only, when nobody
   has it; at a busy one somebody has it already. *)
LEMMA PushClaims ==
    ASSUME IInv, ClaimInv, NEW p \in Publishers, PublishPush(p)
    PROVE  ClaimInv'
<1> DEFINE s == Shard(Lowest(todo[p]))
<1>1. s \in ShardIds
  BY PushedShard DEF PublishPush, IInv
<1>2. /\ busy' = [busy EXCEPT ![s] = TRUE]
      /\ needWake' = IF busy[s] THEN needWake ELSE [needWake EXCEPT ![p] = Append(@, s)]
      /\ UNCHANGED <<ready, drain>>
  BY DEF PublishPush
<1> HIDE DEF s
<1>3. busy \in [ShardIds -> BOOLEAN] /\ needWake \in [Publishers -> Seq(ShardIds)]
  BY DEF IInv, TypeOK, ShardType, PublisherType
<1>4. CASE busy[s]
  <2>1. UNCHANGED claimVars
    BY <1>1, <1>2, <1>3, <1>4 DEF claimVars
  <2> QED BY <2>1 DEF ClaimInv, HeldIsBusy, BusyIsHeld, HeldOnce, claimVars, InReady, ToWake
<1>5. CASE ~busy[s]
  <2>1. /\ needWake' = [needWake EXCEPT ![p] = Append(@, s)]
        /\ ToWake(p)' = ToWake(p) \cup {s}
        /\ \A q \in Publishers \ {p} : needWake'[q] = needWake[q] /\ ToWake(q)' = ToWake(q)
        /\ InReady' = InReady
    <3>1. /\ needWake'[p] = Append(needWake[p], s)
          /\ \A q \in Publishers \ {p} : needWake'[q] = needWake[q]
      BY <1>2, <1>3, <1>5
    <3>2. Range(Append(needWake[p], s)) = Range(needWake[p]) \cup {s}
      BY <1>1, <1>3, AppendedOnce
    <3> QED BY <1>2, <1>5, <3>1, <3>2 DEF ToWake, InReady
  <2>2. /\ \A d \in Drainers : drain[d] # s
        /\ s \notin InReady
        /\ \A q \in Publishers : s \notin ToWake(q)
    BY <1>1, <1>5, ThreadsAssumption DEF ClaimInv, HeldIsBusy
  <2>3. HeldIsBusy'
    BY <1>1, <1>2, <1>3, <2>1, HeldAreShards DEF ClaimInv, HeldIsBusy, IInv, TypeOK, DrainerType
  <2>4. BusyIsHeld'
    BY <1>1, <1>2, <1>3, <2>1 DEF ClaimInv, BusyIsHeld
  <2>5. IsInjective(needWake'[p])
    BY <1>1, <1>2, <1>3, <2>1, <2>2, AppendedOnce DEF ClaimInv, HeldOnce, ToWake
  <2>6. HeldOnce'
    BY <1>2, <2>1, <2>2, <2>5 DEF ClaimInv, HeldOnce
  <2> QED BY <2>3, <2>4, <2>6 DEF ClaimInv
<1> QED BY <1>4, <1>5

(* At the commit the shards to wake go to the ready queue, or stay with the
   publisher that drains them itself. *)
LEMMA CommitClaims ==
    ASSUME IInv, ClaimInv, NEW p \in Publishers, PublishCommit(p)
    PROVE  ClaimInv'
<1>1. UNCHANGED <<busy, drain>>
  BY DEF PublishCommit
<1>2. CASE UNCHANGED <<ready, needWake>>
  BY <1>1, <1>2 DEF ClaimInv, HeldIsBusy, BusyIsHeld, HeldOnce, InReady, ToWake
<1>3. CASE /\ ready' = ready \o needWake[p]
           /\ needWake' = [needWake EXCEPT ![p] = <<>>]
  <2>1. ready \in Seq(ShardIds) /\ needWake \in [Publishers -> Seq(ShardIds)]
    BY DEF IInv, TypeOK, DrainerType, PublisherType
  <2>2. /\ needWake'[p] = <<>>
        /\ \A q \in Publishers \ {p} : needWake'[q] = needWake[q]
    BY <1>3, <2>1
  <2>3. /\ ToWake(p)' = {} /\ IsInjective(needWake'[p])
        /\ \A q \in Publishers \ {p} : ToWake(q)' = ToWake(q)
    BY <2>2 DEF ToWake, Range, IsInjective
  <2>4. InReady' = InReady \cup ToWake(p) /\ IsInjective(ready')
    BY <1>3, <2>1, JoinedOnce DEF InReady, ToWake, ClaimInv, HeldOnce
  <2>5. HeldIsBusy'
    BY <1>1, <2>3, <2>4 DEF ClaimInv, HeldIsBusy
  <2>6. BusyIsHeld'
    BY <1>1, <2>3, <2>4 DEF ClaimInv, BusyIsHeld
  <2>7. HeldOnce'
    BY <1>1, <2>2, <2>3, <2>4 DEF ClaimInv, HeldOnce
  <2> QED BY <2>5, <2>6, <2>7 DEF ClaimInv
<1> QED BY <1>2, <1>3 DEF PublishCommit

(* An inline drain takes over a shard from its own list. *)
LEMMA InlineClaims ==
    ASSUME IInv, ClaimInv, NEW p \in Publishers, InlineDrainNext(p)
    PROVE  ClaimInv'
<1> DEFINE s == Head(needWake[p])
<1>1. /\ drain[p] = NoShard /\ needWake[p] # <<>>
      /\ drain' = [drain EXCEPT ![p] = s]
      /\ needWake' = [needWake EXCEPT ![p] = Tail(@)]
      /\ UNCHANGED <<busy, ready>>
  BY DEF InlineDrainNext
<1>2. /\ needWake \in [Publishers -> Seq(ShardIds)]
      /\ drain \in [Drainers -> ShardIds \cup {NoShard}]
      /\ p \in Drainers
  BY DEF IInv, TypeOK, PublisherType, DrainerType, Drainers
<1>3. /\ s \in ToWake(p)
      /\ ToWake(p) = Range(Tail(needWake[p])) \cup {s}
      /\ IsInjective(Tail(needWake[p])) /\ s \notin Range(Tail(needWake[p]))
  BY <1>1, <1>2, TakenOnce DEF ToWake, ClaimInv, HeldOnce
<1> HIDE DEF s
<1>4. /\ needWake'[p] = Tail(needWake[p])
      /\ \A q \in Publishers \ {p} : needWake'[q] = needWake[q]
      /\ drain'[p] = s /\ \A d \in Drainers \ {p} : drain'[d] = drain[d]
  BY <1>1, <1>2
<1>5. /\ ToWake(p) = ToWake(p)' \cup {s} /\ s \notin ToWake(p)' /\ IsInjective(needWake'[p])
      /\ \A q \in Publishers \ {p} : ToWake(q)' = ToWake(q)
      /\ InReady' = InReady
  BY <1>1, <1>3, <1>4 DEF ToWake, InReady
<1>6. HeldIsBusy'
  BY <1>1, <1>3, <1>4, <1>5 DEF ClaimInv, HeldIsBusy
<1>7. BusyIsHeld'
  <2>1. ASSUME NEW t \in ShardIds, busy[t]
        PROVE  \/ \E d \in Drainers : drain'[d] = t
               \/ t \in InReady
               \/ \E q \in Publishers : t \in ToWake(q)'
    <3>1. CASE \E d \in Drainers : drain[d] = t
      BY <1>1, <1>4, <2>1, <3>1, ThreadsAssumption
    <3>2. CASE \E q \in Publishers : t \in ToWake(q)
      BY <1>2, <1>4, <1>5, <3>2
    <3> QED BY <2>1, <3>1, <3>2 DEF ClaimInv, BusyIsHeld
  <2> QED BY <1>1, <1>5, <2>1 DEF BusyIsHeld
<1>8. HeldOnce'
  <2> USE DEF ClaimInv, HeldOnce
  <2>1. \A d, e \in Drainers : drain'[d] = drain'[e] /\ drain'[d] # NoShard => d = e
    BY <1>3, <1>4
  <2>2. IsInjective(ready') /\ \A q \in Publishers : IsInjective(needWake'[q])
    BY <1>1, <1>4, <1>5
  <2>3. \A d \in Drainers : drain'[d] \notin InReady'
    BY <1>3, <1>4, <1>5
  <2>4. \A d \in Drainers, q \in Publishers : drain'[d] \notin ToWake(q)'
    BY <1>3, <1>4, <1>5
  <2>5. /\ \A q \in Publishers : InReady' \cap ToWake(q)' = {}
        /\ \A q, r \in Publishers : q # r => ToWake(q)' \cap ToWake(r)' = {}
    BY <1>5
  <2> QED BY <2>1, <2>2, <2>3, <2>4, <2>5
<1> QED BY <1>6, <1>7, <1>8 DEF ClaimInv

(* A worker takes over a shard from the ready queue. *)
LEMMA TakeClaims ==
    ASSUME IInv, ClaimInv, NEW w \in Workers, WorkerTake(w)
    PROVE  ClaimInv'
<1> DEFINE s == Head(ready)
<1>1. /\ drain[w] = NoShard /\ ready # <<>>
      /\ drain' = [drain EXCEPT ![w] = s]
      /\ ready' = Tail(ready)
      /\ UNCHANGED <<busy, needWake>>
  BY DEF WorkerTake
<1>2. /\ ready \in Seq(ShardIds)
      /\ drain \in [Drainers -> ShardIds \cup {NoShard}]
      /\ w \in Drainers
  BY DEF IInv, TypeOK, DrainerType, Drainers
<1>3. /\ s \in InReady
      /\ InReady = InReady' \cup {s}
      /\ IsInjective(ready') /\ s \notin InReady'
  BY <1>1, <1>2, TakenOnce DEF InReady, ClaimInv, HeldOnce
<1> HIDE DEF s
<1>4. drain'[w] = s /\ \A d \in Drainers \ {w} : drain'[d] = drain[d]
  BY <1>1, <1>2
<1>5. \A q \in Publishers : ToWake(q)' = ToWake(q)
  BY <1>1 DEF ToWake
<1>6. HeldIsBusy'
  BY <1>1, <1>3, <1>4, <1>5 DEF ClaimInv, HeldIsBusy
<1>7. BusyIsHeld'
  BY <1>1, <1>2, <1>3, <1>4, <1>5, ThreadsAssumption DEF ClaimInv, BusyIsHeld
<1>8. HeldOnce'
  BY <1>1, <1>2, <1>3, <1>4, <1>5 DEF ClaimInv, HeldOnce
<1> QED BY <1>6, <1>7, <1>8 DEF ClaimInv

(* drainShard lets go of its shard: it is then idle and nobody has it, or busy
   and back in the ready queue. *)
LEMMA LeaveClaims ==
    ASSUME IInv, ClaimInv, NEW d \in Drainers, NEW back \in BOOLEAN,
           drain[d] # NoShard, LeaveShard(d), UNCHANGED needWake,
           busy' = [busy EXCEPT ![drain[d]] = back],
           ready' = IF back THEN Append(ready, drain[d]) ELSE ready
    PROVE  ClaimInv'
<1> DEFINE s == drain[d]
<1>1. /\ ready \in Seq(ShardIds) /\ busy \in [ShardIds -> BOOLEAN]
      /\ drain \in [Drainers -> ShardIds \cup {NoShard}]
      /\ s \in ShardIds
  BY DEF IInv, TypeOK, DrainerType, ShardType
<1>2. /\ drain'[d] = NoShard /\ \A e \in Drainers \ {d} : drain'[e] = drain[e]
      /\ busy'[s] = back /\ \A t \in ShardIds \ {s} : busy'[t] = busy[t]
  BY <1>1 DEF LeaveShard
<1>3. /\ \A e \in Drainers \ {d} : drain[e] # s
      /\ s \notin InReady
      /\ \A p \in Publishers : s \notin ToWake(p)
  BY DEF ClaimInv, HeldOnce
<1>4. /\ InReady' = IF back THEN InReady \cup {s} ELSE InReady
      /\ IsInjective(ready')
  BY <1>1, <1>3, AppendedOnce DEF InReady, ClaimInv, HeldOnce
<1>5. \A p \in Publishers : ToWake(p)' = ToWake(p)
  BY DEF ToWake
<1>6. NoShard \notin InReady /\ \A p \in Publishers : NoShard \notin ToWake(p)
  BY HeldAreShards, ThreadsAssumption DEF IInv
<1> HIDE DEF s
<1>7. HeldIsBusy'
  BY <1>1, <1>2, <1>3, <1>4, <1>5, HeldAreShards DEF ClaimInv, HeldIsBusy, IInv
<1>8. BusyIsHeld'
  BY <1>1, <1>2, <1>3, <1>4, <1>5, ThreadsAssumption DEF ClaimInv, BusyIsHeld, s
<1>9. HeldOnce'
  <2> USE DEF ClaimInv, HeldOnce
  <2>1. \A c, e \in Drainers : drain'[c] = drain'[e] /\ drain'[c] # NoShard => c = e
    BY <1>2
  <2>2. IsInjective(ready') /\ \A q \in Publishers : IsInjective(needWake'[q])
    BY <1>4
  <2>3. \A e \in Drainers : drain'[e] \notin InReady'
    BY <1>1, <1>2, <1>3, <1>4, <1>6, ThreadsAssumption
  <2>4. \A e \in Drainers, q \in Publishers : drain'[e] \notin ToWake(q)'
    BY <1>2, <1>5, <1>6
  <2>5. /\ \A q \in Publishers : InReady' \cap ToWake(q)' = {}
        /\ \A q, r \in Publishers : q # r => ToWake(q)' \cap ToWake(r)' = {}
    BY <1>3, <1>4, <1>5
  <2> QED BY <2>1, <2>2, <2>3, <2>4, <2>5
<1> QED BY <1>7, <1>8, <1>9 DEF ClaimInv

(* Only these write the busy flags or move a shard from hand to hand. *)
LEMMA WhoTouchesClaims ==
    ASSUME [Next]_vars
    PROVE  \/ \E p \in Publishers :
                  PublishPush(p) \/ PublishCommit(p) \/ InlineDrainNext(p)
           \/ \E w \in Workers : WorkerTake(w)
           \/ \E d \in Drainers : DrainIdle(d) \/ DrainYield(d) \/ DispatchThrows(d)
           \/ UNCHANGED claimVars
<1> USE DEF claimVars
<1>1. ASSUME NEW p \in Publishers,
             PublishEnter(p) \/ PublishBuildThrows(p) \/ PublisherStep(p)
      PROVE  PublishPush(p) \/ PublishCommit(p) \/ InlineDrainNext(p)
             \/ UNCHANGED claimVars
  BY <1>1 DEF PublisherStep, PublishEnter, PublishRefused, PublishLock,
          PublishBuildThrows, PublishReturn
<1>2. ASSUME NEW d \in Drainers, DrainStep(d) \/ DispatchThrows(d)
      PROVE  DrainIdle(d) \/ DrainYield(d) \/ DispatchThrows(d) \/ UNCHANGED claimVars
  BY <1>2 DEF DrainStep, DrainPop, SendDirect, Dispatch
<1>3. ASSUME NEW l \in Loops, LoopRun(l)
      PROVE  UNCHANGED claimVars
  BY <1>3 DEF LoopRun
<1>4. ASSUME NEW id \in SubIds, Unsubscribe(id) \/ GateCloses(id) \/ GateOpens(id)
      PROVE  UNCHANGED claimVars
  BY <1>4 DEF Unsubscribe, GateCloses, GateOpens
<1>5. ASSUME SubscribeJoin \/ SubscribeReshape
      PROVE  UNCHANGED claimVars
  BY <1>5 DEF SubscribeJoin, SubscribeReshape
<1>6. CASE UNCHANGED vars
  BY <1>6 DEF vars
<1> QED BY <1>1, <1>2, <1>3, <1>4, <1>5, <1>6 DEF Next

(* Every step keeps the claims in order. *)
LEMMA ClaimStep ==
    ASSUME IInv, ClaimInv, [Next]_vars
    PROVE  ClaimInv'
<1>1. ASSUME NEW d \in Drainers, DrainIdle(d)
      PROVE  ClaimInv'
  <2>1. /\ drain[d] # NoShard /\ LeaveShard(d) /\ UNCHANGED needWake
        /\ busy' = [busy EXCEPT ![drain[d]] = FALSE] /\ ready' = ready
    BY <1>1 DEF DrainIdle, BetweenMessages
  <2> QED BY <2>1, LeaveClaims
<1>2. ASSUME NEW d \in Drainers, DrainYield(d)
      PROVE  ClaimInv'
  <2>1. /\ drain[d] # NoShard /\ LeaveShard(d) /\ UNCHANGED <<busy, needWake>>
        /\ ready' = Append(ready, drain[d])
    BY <1>2 DEF DrainYield
  <2>2. drain[d] \in ShardIds /\ busy[drain[d]] /\ busy \in [ShardIds -> BOOLEAN]
    BY <2>1 DEF IInv, TypeOK, DrainerType, ShardType, ClaimInv, HeldIsBusy
  <2>3. busy' = [busy EXCEPT ![drain[d]] = TRUE]
    BY <2>1, <2>2
  <2> QED BY <2>1, <2>3, LeaveClaims
<1>3. ASSUME NEW d \in Drainers, DispatchThrows(d)
      PROVE  ClaimInv'
  <2> DEFINE back == Yields(d) /\ queue[drain[d]] # <<>>
  <2>1. back \in BOOLEAN
    BY DEF Yields
  <2>2. /\ cur[d].to # {} /\ LeaveShard(d) /\ UNCHANGED needWake
        /\ busy' = [busy EXCEPT ![drain[d]] = back]
        /\ ready' = IF back THEN Append(ready, drain[d]) ELSE ready
    BY <1>3 DEF DispatchThrows
  <2>3. drain[d] # NoShard
    BY <2>2 DEF IInv, HandNeedsShard
  <2> HIDE DEF back
  <2> QED BY <2>1, <2>2, <2>3, LeaveClaims
<1>4. CASE UNCHANGED claimVars
  BY <1>4 DEF ClaimInv, HeldIsBusy, BusyIsHeld, HeldOnce, claimVars, InReady, ToWake
<1> QED
  BY <1>1, <1>2, <1>3, <1>4, WhoTouchesClaims, PushClaims, CommitClaims, InlineClaims,
     TakeClaims

(* Claims in order are one claim for each busy shard and none for an idle one. *)
LEMMA OneClaim ==
    ASSUME TypeOK, ClaimInv
    PROVE  OneClaimPerBusyShard
<1> SUFFICES ASSUME NEW s \in ShardIds
             PROVE  Cardinality(Claims(s)) = IF busy[s] THEN 1 ELSE 0
  BY DEF OneClaimPerBusyShard
<1> DEFINE D == {<<"drain", d>> : d \in {d \in Drainers : drain[d] = s}}
           R == {<<"ready", i>> : i \in {i \in DOMAIN ready : ready[i] = s}}
           W(p) == {<<"wake", p, i>> : i \in {i \in DOMAIN needWake[p] : needWake[p][i] = s}}
<1>1. Claims(s) = D \cup R \cup UNION {W(p) : p \in Publishers}
  BY DEF Claims
<1>2. /\ D # {} <=> \E d \in Drainers : drain[d] = s
      /\ R # {} <=> s \in InReady
      /\ \A p \in Publishers : W(p) # {} <=> s \in ToWake(p)
  BY DEF InReady, ToWake, Range
<1>3. s # NoShard
  BY ThreadsAssumption
<1>4. /\ \A x, y \in D : x = y
      /\ \A x, y \in R : x = y
      /\ \A p \in Publishers : \A x, y \in W(p) : x = y
  BY <1>3 DEF ClaimInv, HeldOnce, IsInjective
<1>5. /\ D # {} => R = {} /\ \A p \in Publishers : W(p) = {}
      /\ R # {} => \A p \in Publishers : W(p) = {}
      /\ \A p, q \in Publishers : W(p) # {} /\ W(q) # {} => p = q
  BY <1>2 DEF ClaimInv, HeldOnce
<1> HIDE DEF D, R, W
<1>6. \A x, y \in Claims(s) : x = y
  BY <1>1, <1>4, <1>5
<1>7. busy[s] <=> Claims(s) # {}
  <2>1. Claims(s) # {} <=> D # {} \/ R # {} \/ \E p \in Publishers : W(p) # {}
    BY <1>1
  <2>2. busy[s] => Claims(s) # {}
    BY <1>2, <2>1 DEF ClaimInv, BusyIsHeld
  <2>3. Claims(s) # {} => busy[s]
    BY <1>2, <1>3, <2>1 DEF ClaimInv, HeldIsBusy
  <2> QED BY <2>2, <2>3
<1>8. CASE Claims(s) = {}
  BY <1>7, <1>8, FS_EmptySet
<1>9. CASE Claims(s) # {}
  <2>1. PICK c : Claims(s) = {c}
    BY <1>6, <1>9
  <2> QED BY <1>7, <1>9, <2>1, FS_Singleton
<1> QED BY <1>8, <1>9

(* The claims are in order in every reachable state. *)
LEMMA ClaimsHold == Spec => [](IInv /\ ClaimInv)
<1>1. Init => IInv /\ ClaimInv
  BY InitInvariant, InitClaims
<1>2. IInv /\ ClaimInv /\ [Next]_vars => (IInv /\ ClaimInv)'
  BY StepInvariant, ClaimStep
<1> QED BY <1>1, <1>2, PTL DEF Spec

(* The promise of the busy flag in publishSharedImpl and drainShard, whatever
   throws and however many threads publish and drain: a shard marked busy is
   with exactly one party that will drain it, a shard marked idle with none. *)
THEOREM OneDrainer == Spec => []OneClaimPerBusyShard
<1>1. IInv /\ ClaimInv => OneClaimPerBusyShard
  BY OneClaim DEF IInv
<1> QED BY <1>1, ClaimsHold, PTL

-----------------------------------------------------------------------------
(* Idle shards *)

IdleInv == faults = 0 => \A s \in ShardIds : ~busy[s] => queue[s] = <<>>

(* Until something throws every step keeps idle shards empty: a push makes the
   shard busy, a pop is from a busy one, and a drainer that finds nothing is
   the only one to make it idle. *)
LEMMA IdleStep ==
    ASSUME IInv, ClaimInv, IdleInv, [Next]_vars
    PROVE  IdleInv'
<1>1. /\ faults \in Nat
      /\ busy \in [ShardIds -> BOOLEAN] /\ queue \in [ShardIds -> Seq(1 .. MaxSeq)]
      /\ drain \in [Drainers -> ShardIds \cup {NoShard}]
  BY BoundsAssumption DEF IInv, TypeOK, LoopType, ShardType, DrainerType
<1>2. ASSUME faults' = faults + 1
      PROVE  IdleInv'
  BY <1>1, <1>2 DEF IdleInv
<1>3. ASSUME UNCHANGED <<faults, busy, queue>>
      PROVE  IdleInv'
  BY <1>3 DEF IdleInv
<1>4. ASSUME NEW p \in Publishers, PublishPush(p)
      PROVE  IdleInv'
  <2> DEFINE s == Shard(Lowest(todo[p]))
  <2>1. /\ queue' = [queue EXCEPT ![s] = Append(@, seq)]
        /\ busy' = [busy EXCEPT ![s] = TRUE]
        /\ UNCHANGED faults
    BY <1>4 DEF PublishPush
  <2>2. s \in ShardIds
    BY <1>4, PushedShard DEF PublishPush, IInv
  <2> HIDE DEF s
  <2> QED BY <1>1, <2>1, <2>2 DEF IdleInv
<1>5. ASSUME NEW d \in Drainers, DrainPop(d)
      PROVE  IdleInv'
  <2>1. /\ drain[d] # NoShard
        /\ queue' = [queue EXCEPT ![drain[d]] = Tail(queue[drain[d]])]
        /\ UNCHANGED <<faults, busy>>
    BY <1>5 DEF DrainPop, BetweenMessages
  <2>2. busy[drain[d]]
    BY <2>1 DEF ClaimInv, HeldIsBusy
  <2> QED BY <1>1, <2>1, <2>2 DEF IdleInv
<1>6. ASSUME NEW d \in Drainers, DrainIdle(d)
      PROVE  IdleInv'
  <2>1. /\ queue[drain[d]] = <<>>
        /\ busy' = [busy EXCEPT ![drain[d]] = FALSE]
        /\ UNCHANGED <<faults, queue>>
    BY <1>6 DEF DrainIdle
  <2> QED BY <1>1, <2>1 DEF IdleInv
<1>7. ASSUME NEW d \in Drainers, DispatchThrows(d)
      PROVE  faults' = faults + 1
  BY <1>7 DEF DispatchThrows
<1>8. ASSUME NEW p \in Publishers, PublishBuildThrows(p)
      PROVE  faults' = faults + 1
  BY <1>8 DEF PublishBuildThrows
<1>9. ASSUME SubscribeJoin \/ SubscribeReshape \/ \E id \in SubIds : Unsubscribe(id)
      PROVE  UNCHANGED <<faults, busy, queue>>
  BY <1>9 DEF SubscribeJoin, SubscribeReshape, Unsubscribe
<1>10. UNCHANGED faults \/ faults' = faults + 1
  <2>1. ASSUME \/ \E id \in SubIds : GateCloses(id) \/ GateOpens(id)
               \/ \E d \in Drainers : SendDirect(d) \/ \E l \in Loops : Dispatch(d, l)
               \/ \E l \in Loops : LoopRun(l)
        PROVE  UNCHANGED faults
    BY <2>1 DEF GateCloses, GateOpens, SendDirect, Dispatch, LoopRun
  <2> QED BY <1>7, <1>8, <2>1, WhoTouchesConnections DEF connVars
<1> QED
  BY <1>2, <1>3, <1>4, <1>5, <1>6, <1>7, <1>9, <1>10, WhoTouchesShards

(* The claim of reshapeLocked that an idle shard has nothing queued holds as
   long as no build() or dispatch has thrown: the first exception is all it
   takes to break it (run fanout_inline_throw), and nothing less does. *)
THEOREM IdleUntilFault == Spec => [](faults = 0 => IdleShardIsEmpty)
<1>1. Init => IInv /\ ClaimInv /\ IdleInv
  BY InitInvariant, InitClaims DEF Init, IdleInv
<1>2. IInv /\ ClaimInv /\ IdleInv /\ [Next]_vars => (IInv /\ ClaimInv /\ IdleInv)'
  BY StepInvariant, ClaimStep, IdleStep
<1>3. IdleInv => (faults = 0 => IdleShardIsEmpty)
  BY DEF IdleInv, IdleShardIsEmpty
<1> QED BY <1>1, <1>2, <1>3, PTL DEF Spec

(***************************************************************************)
(* Order.                                                                  *)
(***************************************************************************)


Numbers == 1 .. MaxSeq
Reached(id, n) == n \in Range(delivered[id]) \/ <<id, n>> \in skipped
Queued(id, n) ==
    \E l \in Loops : \E i \in DOMAIN loopQueue[l] :
        loopQueue[l][i].n = n /\ id \in loopQueue[l][i].to
Handed(id, n) == \E d \in Drainers : cur[d].n = n /\ id \in cur[d].to
Sent(id, n) == Reached(id, n) \/ Queued(id, n) \/ Handed(id, n)
AtHome(id, i) == i \in DOMAIN dist /\ id % Cardinality(DOMAIN dist) = i

LoopsInOrder ==
    \A l \in Loops : \A i, j \in DOMAIN loopQueue[l] :
        /\ \A id \in loopQueue[l][i].to : LoopOf[id] = l
        /\ i < j => \A id \in loopQueue[l][i].to \cap loopQueue[l][j].to :
                        loopQueue[l][i].n < loopQueue[l][j].n
StagesInOrder ==
    \A id \in SubIds, n, m \in Numbers :
        /\ Reached(id, n) /\ Queued(id, m) => n < m
        /\ (Reached(id, n) \/ Queued(id, n)) /\ Handed(id, m) => n < m
ConnInv == DeliveredInOrder /\ LoopsInOrder /\ StagesInOrder

HandAtHome ==
    \A d \in Drainers : \A id \in cur[d].to :
        \E i \in Slots : AtHome(id, i) /\ drain[d] = Shard(i)
BusyIsCurrent == \A s \in ShardIds : busy[s] => s \in CurrentShards
LaterShardsUnused == \A s \in ShardIds : s[1] > epoch => queue[s] = <<>>
PlaceInv == HandAtHome /\ BusyIsCurrent /\ LaterShardsUnused

QueuesInOrder ==
    \A s \in ShardIds : \A i, j \in DOMAIN queue[s] : i < j => queue[s][i] < queue[s][j]
SentBeforeWaiting ==
    \A id \in SubIds, i \in Slots, n, m \in Numbers :
        AtHome(id, i) /\ Sent(id, n) /\ m \in Range(queue[Shard(i)]) => n < m
QueueInv == QueuesInOrder /\ SentBeforeWaiting

NumberedUpTo(last) ==
    /\ \A s \in ShardIds : \A m \in Range(queue[s]) : m <= last
    /\ \A id \in SubIds, n \in Numbers : Sent(id, n) => n <= last
RoomToPush(i) ==
    /\ i \in DOMAIN dist
    /\ \A m \in Range(queue[Shard(i)]) : m < seq
    /\ \A id \in SubIds, n \in Numbers : AtHome(id, i) /\ Sent(id, n) => n < seq
FreshInv ==
    /\ NumberedUpTo(seq)
    /\ \A p \in Publishers :
          /\ pc[p] = "build" => NumberedUpTo(seq - 1)
          /\ \A i \in todo[p] : pc[p] \in {"build", "push"} /\ RoomToPush(i)

OrderInv == ConnInv /\ PlaceInv /\ QueueInv /\ FreshInv

USE DEF roomVars, shardVars, pubVars, drainVars, loopVars, gateVars

-----------------------------------------------------------------------------
(* Increasing sequences. *)

Rises(q) == \A i, j \in DOMAIN q : i < j => q[i] < q[j]

(* A larger number at the end keeps a queue increasing. *)
LEMMA AppendRises ==
    ASSUME NEW q \in Seq(Numbers), NEW x \in Numbers,
           Rises(q), \A m \in Range(q) : m < x
    PROVE  Rises(Append(q, x))
<1> DEFINE a == Append(q, x)
           n == Len(q)
<1>1. /\ n \in Nat /\ DOMAIN q = 1 .. n /\ DOMAIN a = 1 .. (n + 1)
      /\ \A i \in 1 .. n : a[i] = q[i] /\ q[i] \in Range(q)
      /\ a[n + 1] = x
  BY DEF Range
<1> HIDE DEF a, n
<1>2. ASSUME NEW i \in 1 .. (n + 1), NEW j \in 1 .. (n + 1), i < j
      PROVE  a[i] < a[j]
  <2>1. i \in 1 .. n
    BY <1>1, <1>2
  <2>2. CASE j \in 1 .. n
    BY <1>1, <1>2, <2>1, <2>2 DEF Rises
  <2>3. CASE j = n + 1
    BY <1>1, <2>1, <2>3
  <2> QED BY <1>1, <2>2, <2>3
<1> QED BY <1>1, <1>2 DEF Rises, a

(* The head of an increasing queue is smaller than what is left of it. *)
LEMMA TailRises ==
    ASSUME NEW q \in Seq(Numbers), q # <<>>, Rises(q)
    PROVE  /\ Rises(Tail(q)) /\ Range(Tail(q)) \subseteq Range(q)
           /\ Head(q) \in Range(q)
           /\ \A m \in Range(Tail(q)) : Head(q) < m
<1> DEFINE t == Tail(q)
           n == Len(q)
           h == Head(q)
<1>1. /\ n \in Nat \ {0} /\ DOMAIN q = 1 .. n /\ h = q[1]
      /\ DOMAIN t = 1 .. (n - 1)
      /\ \A i \in 1 .. (n - 1) : t[i] = q[i + 1]
  BY HeadTailProperties, EmptySeq, LenProperties
<1> HIDE DEF t, n, h
<1>2. \A i \in 1 .. (n - 1) : i + 1 \in 1 .. n /\ 1 < i + 1
  BY <1>1
<1>3. 1 \in 1 .. n
  BY <1>1
<1>4. Rises(t)
  <2>1. ASSUME NEW i \in 1 .. (n - 1), NEW j \in 1 .. (n - 1), i < j
        PROVE  t[i] < t[j]
    <3>1. i + 1 < j + 1
      BY <1>1, <2>1
    <3> QED BY <1>1, <1>2, <3>1 DEF Rises
  <2> QED BY <1>1, <2>1 DEF Rises
<1>5. Range(t) \subseteq Range(q) /\ h \in Range(q)
  BY <1>1, <1>2, <1>3 DEF Range
<1>6. \A m \in Range(t) : h < m
  BY <1>1, <1>2, <1>3 DEF Range, Rises
<1> QED BY <1>4, <1>5, <1>6 DEF t, h

-----------------------------------------------------------------------------
(* Who serves whom. *)

(* A message in hand is a number, its drainer has the home shard. *)
LEMMA InHandFacts ==
    ASSUME IInv, ClaimInv, PlaceInv, NEW d \in Drainers, NEW id \in cur[d].to
    PROVE  /\ id \in SubIds /\ cur[d].n \in Numbers
           /\ drain[d] \in ShardIds /\ busy[drain[d]]
           /\ Handed(id, cur[d].n)
           /\ \E i \in Slots : AtHome(id, i) /\ drain[d] = Shard(i)
<1>1. cur[d].to # {} /\ drain[d] # NoShard
  BY DEF IInv, HandNeedsShard
<1>2. id \in SubIds /\ cur[d].n \in Numbers /\ drain[d] \in ShardIds
  BY <1>1, HandHolds DEF IInv, Numbers
<1>3. busy[drain[d]]
  BY <1>1 DEF ClaimInv, HeldIsBusy
<1>4. Handed(id, cur[d].n)
  BY DEF Handed
<1> QED BY <1>2, <1>3, <1>4 DEF PlaceInv, HandAtHome

(* No connection is served by two drainers. *)
LEMMA OneServes ==
    ASSUME IInv, ClaimInv, PlaceInv, NEW d \in Drainers, NEW e \in Drainers,
           NEW id \in cur[d].to, id \in cur[e].to
    PROVE  d = e
<1>1. PICK i \in Slots : AtHome(id, i) /\ drain[d] = Shard(i)
  BY InHandFacts
<1>2. PICK j \in Slots : AtHome(id, j) /\ drain[e] = Shard(j)
  BY InHandFacts
<1>3. i = j
  BY <1>1, <1>2 DEF AtHome
<1>4. drain[d] # NoShard
  BY InHandFacts, ThreadsAssumption
<1> QED BY <1>1, <1>2, <1>3, <1>4 DEF ClaimInv, HeldOnce

(* A drainer between messages has a current shard, and the members in its
   snapshot are at home there. *)
LEMMA PopFacts ==
    ASSUME IInv, ClaimInv, PlaceInv, NEW d \in Drainers, BetweenMessages(d)
    PROVE  /\ drain[d] \in ShardIds
           /\ \E i \in Slots : /\ drain[d] = Shard(i) /\ i \in DOMAIN dist
                               /\ \A id \in snap[drain[d]] : id \in SubIds /\ AtHome(id, i)
<1>1. drain[d] # NoShard /\ drain[d] \in ShardIds
  BY DEF BetweenMessages, IInv, TypeOK, DrainerType
<1>2. drain[d] \in CurrentShards
  BY <1>1 DEF ClaimInv, HeldIsBusy, PlaceInv, BusyIsCurrent
<1>3. PICK i \in DOMAIN dist : drain[d] = Shard(i)
  BY <1>2 DEF CurrentShards
<1>4. i \in Slots
  BY TargetsInRange DEF IInv
<1>5. snap[drain[d]] = dist[i] /\ \A id \in dist[i] : AtHome(id, i)
  BY <1>3 DEF IInv, BookkeepingExact, AtHome
<1>6. dist[i] \subseteq SubIds
  BY DEF IInv, TypeOK, MemberType
<1> QED BY <1>1, <1>3, <1>4, <1>5, <1>6

-----------------------------------------------------------------------------
(* The stages a connection's numbers are in, action by action. *)

(* Letting go of a shard only takes messages out of hand. *)
LEMMA LeaveStages ==
    ASSUME IInv, NEW d \in Drainers, LeaveShard(d), UNCHANGED <<delivered, skipped, loopQueue>>
    PROVE  \A id \in SubIds, n \in Numbers :
               /\ Reached(id, n)' <=> Reached(id, n)
               /\ Queued(id, n)' <=> Queued(id, n)
               /\ Handed(id, n)' => Handed(id, n)
<1>1. cur'[d].to = {} /\ \A e \in Drainers \ {d} : cur'[e] = cur[e]
  BY DEF IInv, TypeOK, DrainerType, LeaveShard, Nothing
<1> QED BY <1>1 DEF Reached, Queued, Handed

(* drainShard pops the head of the queue for the members of the snapshot. *)
LEMMA PopStages ==
    ASSUME IInv, NEW d \in Drainers, DrainPop(d)
    PROVE  /\ \A id \in SubIds, n \in Numbers :
                  /\ Reached(id, n)' <=> Reached(id, n)
                  /\ Queued(id, n)' <=> Queued(id, n)
                  /\ Handed(id, n)' =>
                        \/ Handed(id, n)
                        \/ id \in snap[drain[d]] /\ n = Head(queue[drain[d]])
           /\ cur'[d].to \subseteq snap[drain[d]]
           /\ \A e \in Drainers \ {d} : cur'[e] = cur[e]
<1>1. /\ cur' = [cur EXCEPT ![d] = InHand(Head(queue[drain[d]]), snap[drain[d]])]
      /\ UNCHANGED <<delivered, skipped, loopQueue>>
  BY DEF DrainPop
<1>2. /\ cur'[d] = InHand(Head(queue[drain[d]]), snap[drain[d]])
      /\ \A e \in Drainers \ {d} : cur'[e] = cur[e]
  BY <1>1 DEF IInv, TypeOK, DrainerType
<1>3. /\ cur'[d].to \subseteq snap[drain[d]]
      /\ \A id \in cur'[d].to : cur'[d].n = Head(queue[drain[d]])
  BY <1>2 DEF InHand, Nothing
<1> QED BY <1>1, <1>2, <1>3 DEF Reached, Queued, Handed

(* Serving a group takes its members out of the drainer's hand, and no other
   drainer has them. *)
LEMMA GroupStages ==
    ASSUME IInv, ClaimInv, PlaceInv, NEW d \in Drainers, NEW l, Group(d, l) # {},
           cur' = [cur EXCEPT ![d] = InHand(@.n, @.to \ Group(d, l))]
    PROVE  /\ cur[d].n \in Numbers /\ Group(d, l) \subseteq SubIds
           /\ \A id \in Group(d, l) :
                  LoopOf[id] = l /\ Handed(id, cur[d].n) /\ \A n : ~Handed(id, n)'
           /\ \A id \in SubIds, n \in Numbers : Handed(id, n)' => Handed(id, n)
           /\ \A e \in Drainers : cur'[e].to \subseteq cur[e].to
<1>1. cur[d].n \in Numbers /\ Group(d, l) \subseteq SubIds /\ Group(d, l) \subseteq cur[d].to
  BY GroupType, HandHolds DEF IInv, Numbers, Group
<1>2. /\ cur'[d] = InHand(cur[d].n, cur[d].to \ Group(d, l))
      /\ \A e \in Drainers \ {d} : cur'[e] = cur[e]
  BY DEF IInv, TypeOK, DrainerType
<1>3. /\ cur'[d].to = cur[d].to \ Group(d, l)
      /\ \A id \in cur'[d].to : cur'[d].n = cur[d].n
  BY <1>2 DEF InHand, Nothing
<1>4. ASSUME NEW id \in Group(d, l), NEW n
      PROVE  LoopOf[id] = l /\ Handed(id, cur[d].n) /\ ~Handed(id, n)'
  <2>1. \A e \in Drainers : id \notin cur'[e].to
    BY <1>1, <1>2, <1>3, OneServes
  <2> QED BY <1>1, <2>1 DEF Group, Handed
<1>5. \A id \in SubIds, n \in Numbers : Handed(id, n)' => Handed(id, n)
  BY <1>2, <1>3 DEF Handed
<1> QED BY <1>1, <1>2, <1>3, <1>4, <1>5

(* A message sent on the spot is got by the open connections of the group. *)
LEMMA ReceiveStages ==
    ASSUME IInv, NEW n \in Numbers, NEW ids \in SUBSET SubIds, Receive(n, ids)
    PROVE  /\ \A id \in SubIds, m \in Numbers :
                  Reached(id, m)' => Reached(id, m) \/ (id \in ids /\ m = n)
           /\ DeliveredInOrder /\ (\A id \in ids, m \in Numbers : Reached(id, m) => m < n)
                => DeliveredInOrder'
<1>1. /\ delivered \in [SubIds -> Seq(Numbers)]
      /\ \A id \in SubIds : delivered'[id] = IF id \in Open(ids) THEN Append(delivered[id], n)
                                             ELSE delivered[id]
      /\ skipped' = skipped \cup {<<id, n>> : id \in ids \ Open(ids)}
  BY DEF IInv, TypeOK, LoopType, Numbers, Receive
<1>2. Open(ids) \subseteq ids
  BY DEF Open
<1>3. ASSUME NEW id \in SubIds, NEW m \in Numbers, Reached(id, m)'
      PROVE  Reached(id, m) \/ (id \in ids /\ m = n)
  <2>1. Range(Append(delivered[id], n)) = Range(delivered[id]) \cup {n}
    BY <1>1, AppendedOnce
  <2>2. <<id, m>> \in skipped' => <<id, m>> \in skipped \/ (id \in ids /\ m = n)
    BY <1>1
  <2> QED BY <1>1, <1>2, <1>3, <2>1, <2>2 DEF Reached
<1>4. ASSUME DeliveredInOrder, \A id \in ids, m \in Numbers : Reached(id, m) => m < n,
             NEW id \in SubIds
      PROVE  Rises(delivered'[id])
  <2>1. Rises(delivered[id]) /\ delivered[id] \in Seq(Numbers)
    BY <1>1, <1>4 DEF DeliveredInOrder, Rises
  <2>2. CASE id \in Open(ids)
    <3>1. \A m \in Range(delivered[id]) : m \in Numbers
      BY <2>1 DEF Range
    <3>2. \A m \in Range(delivered[id]) : m < n
      BY <1>2, <1>4, <2>2, <3>1 DEF Reached
    <3> QED BY <1>1, <2>1, <2>2, <3>2, AppendRises
  <2>3. CASE id \notin Open(ids)
    BY <1>1, <2>1, <2>3
  <2> QED BY <2>2, <2>3
<1> QED BY <1>3, <1>4 DEF DeliveredInOrder, Rises

(* A batch that is dispatched is queued for its group. *)
LEMMA DispatchStages ==
    ASSUME IInv, NEW d \in Drainers, NEW l \in Loops, Dispatch(d, l)
    PROVE  /\ \A id \in SubIds, n \in Numbers :
                  /\ Reached(id, n)' <=> Reached(id, n)
                  /\ Queued(id, n)' => Queued(id, n) \/ (id \in Group(d, l) /\ n = cur[d].n)
<1> DEFINE b == [n |-> cur[d].n, to |-> Group(d, l)]
<1>1. /\ loopQueue' = [loopQueue EXCEPT ![l] = Append(@, b)]
      /\ UNCHANGED <<delivered, skipped>>
      /\ b.n = cur[d].n /\ b.to = Group(d, l)
  BY DEF Dispatch
<1> HIDE DEF b
<1>2. /\ loopQueue \in [Loops -> Seq(Batches)]
      /\ \A k \in Loops \ {l} : loopQueue'[k] = loopQueue[k]
      /\ loopQueue'[l] = Append(loopQueue[l], b)
  BY <1>1 DEF IInv, TypeOK, LoopType
<1>3. /\ loopQueue[l] \in Seq(Batches)
      /\ DOMAIN loopQueue'[l] = 1 .. (Len(loopQueue[l]) + 1)
      /\ DOMAIN loopQueue[l] = 1 .. Len(loopQueue[l])
      /\ \A i \in 1 .. Len(loopQueue[l]) : loopQueue'[l][i] = loopQueue[l][i]
      /\ loopQueue'[l][Len(loopQueue[l]) + 1] = b
  BY <1>2
<1>4. \A i \in DOMAIN loopQueue'[l] :
          \/ i \in DOMAIN loopQueue[l] /\ loopQueue'[l][i] = loopQueue[l][i]
          \/ loopQueue'[l][i] = b
  BY <1>3
<1>5. ASSUME NEW id \in SubIds, NEW n \in Numbers, Queued(id, n)'
      PROVE  Queued(id, n) \/ (id \in Group(d, l) /\ n = cur[d].n)
  <2>1. PICK k \in Loops : \E i \in DOMAIN loopQueue'[k] :
            loopQueue'[k][i].n = n /\ id \in loopQueue'[k][i].to
    BY <1>5 DEF Queued
  <2>2. CASE k = l
    BY <1>1, <1>4, <2>1, <2>2 DEF Queued
  <2>3. CASE k # l
    BY <1>2, <2>1, <2>3 DEF Queued
  <2> QED BY <2>2, <2>3
<1> QED BY <1>1, <1>5 DEF Reached

(* The batches of a loop stay in order when one with a larger number comes. *)
LEMMA DispatchLoops ==
    ASSUME IInv, LoopsInOrder, NEW d \in Drainers, NEW l \in Loops, Dispatch(d, l),
           \A id \in Group(d, l) : LoopOf[id] = l,
           \A id \in Group(d, l), m \in Numbers : Queued(id, m) => m < cur[d].n
    PROVE  LoopsInOrder'
<1> DEFINE b == [n |-> cur[d].n, to |-> Group(d, l)]
<1>1. /\ loopQueue' = [loopQueue EXCEPT ![l] = Append(@, b)]
      /\ b.n = cur[d].n /\ b.to = Group(d, l)
  BY DEF Dispatch
<1> HIDE DEF b
<1>2. /\ loopQueue \in [Loops -> Seq(Batches)]
      /\ \A k \in Loops \ {l} : loopQueue'[k] = loopQueue[k]
      /\ loopQueue'[l] = Append(loopQueue[l], b)
  BY <1>1 DEF IInv, TypeOK, LoopType
<1> DEFINE len == Len(loopQueue[l])
<1>3. /\ loopQueue[l] \in Seq(Batches) /\ len \in Nat
      /\ DOMAIN loopQueue'[l] = 1 .. (len + 1)
      /\ DOMAIN loopQueue[l] = 1 .. len
      /\ \A i \in 1 .. len : loopQueue'[l][i] = loopQueue[l][i] /\ loopQueue[l][i] \in Batches
      /\ loopQueue'[l][len + 1] = b
  BY <1>2
<1> HIDE DEF len
<1>4. ASSUME NEW i \in 1 .. len, NEW id \in loopQueue[l][i].to \cap b.to
      PROVE  loopQueue[l][i].n < b.n
  <2>1. loopQueue[l][i].n \in Numbers /\ Queued(id, loopQueue[l][i].n)
    BY <1>3, <1>4 DEF Queued, Batches, Numbers
  <2> QED BY <1>1, <1>4, <2>1
<1>5. ASSUME NEW i \in 1 .. (len + 1), NEW j \in 1 .. (len + 1)
      PROVE  /\ \A id \in loopQueue'[l][i].to : LoopOf[id] = l
             /\ i < j => \A id \in loopQueue'[l][i].to \cap loopQueue'[l][j].to :
                             loopQueue'[l][i].n < loopQueue'[l][j].n
  <2>1. CASE i \in 1 .. len
    <3>1. CASE j \in 1 .. len
      BY <1>3, <2>1, <3>1 DEF LoopsInOrder
    <3>2. CASE j = len + 1
      BY <1>3, <1>4, <2>1, <3>2 DEF LoopsInOrder
    <3> QED BY <1>3, <3>1, <3>2
  <2>2. CASE i = len + 1
    BY <1>1, <1>3, <2>2
  <2> QED BY <1>3, <2>1, <2>2
<1>6. ASSUME NEW k \in Loops
      PROVE  \A i, j \in DOMAIN loopQueue'[k] :
                /\ \A id \in loopQueue'[k][i].to : LoopOf[id] = k
                /\ i < j => \A id \in loopQueue'[k][i].to \cap loopQueue'[k][j].to :
                                loopQueue'[k][i].n < loopQueue'[k][j].n
  <2>1. CASE k = l
    BY <1>3, <1>5, <2>1
  <2>2. CASE k # l
    BY <1>2, <2>2 DEF LoopsInOrder
  <2> QED BY <2>1, <2>2
<1> QED BY <1>6 DEF LoopsInOrder

(* A loop runs its oldest batch: what it still has for the same connections is
   larger. *)
LEMMA RunStages ==
    ASSUME IInv, LoopsInOrder, NEW l \in Loops, LoopRun(l)
    PROVE  LET b == Head(loopQueue[l])
           IN  /\ b.n \in Numbers /\ b.to \in SUBSET SubIds /\ Receive(b.n, b.to)
               /\ \A id \in b.to : Queued(id, b.n)
               /\ \A id \in SubIds, n \in Numbers :
                      /\ Queued(id, n)' => Queued(id, n)
                      /\ Queued(id, n)' /\ id \in b.to => b.n < n
                      /\ Handed(id, n)' <=> Handed(id, n)
               /\ LoopsInOrder'
<1> DEFINE b == Head(loopQueue[l])
           q == loopQueue[l]
           len == Len(q)
<1>1. /\ q \in Seq(Batches) /\ q # <<>> /\ Receive(b.n, b.to) /\ UNCHANGED cur
      /\ loopQueue' = [loopQueue EXCEPT ![l] = Tail(@)]
      /\ loopQueue \in [Loops -> Seq(Batches)]
  BY DEF LoopRun, IInv, TypeOK, LoopType
<1>2. /\ len \in Nat \ {0} /\ DOMAIN q = 1 .. len /\ b = q[1] /\ b \in Batches
      /\ loopQueue'[l] = Tail(q)
      /\ DOMAIN Tail(q) = 1 .. (len - 1)
      /\ \A i \in 1 .. (len - 1) : Tail(q)[i] = q[i + 1]
      /\ \A k \in Loops \ {l} : loopQueue'[k] = loopQueue[k]
  BY <1>1, HeadTailProperties, EmptySeq, LenProperties
<1>3. b.n \in Numbers /\ b.to \in SUBSET SubIds
  BY <1>2 DEF Batches, Numbers
<1> HIDE DEF b, len
<1>4. \A i \in 1 .. (len - 1) : i + 1 \in DOMAIN q /\ loopQueue'[l][i] = q[i + 1] /\ 1 < i + 1
  BY <1>2
<1>5. 1 \in DOMAIN q
  BY <1>2
<1>6. \A id \in b.to : Queued(id, b.n)
  BY <1>2, <1>5 DEF Queued
<1>7. ASSUME NEW id \in SubIds, NEW n \in Numbers, Queued(id, n)'
      PROVE  Queued(id, n) /\ (id \in b.to => b.n < n)
  <2>0. PICK k \in Loops : \E i \in DOMAIN loopQueue'[k] :
            loopQueue'[k][i].n = n /\ id \in loopQueue'[k][i].to
    BY <1>7 DEF Queued
  <2>1. PICK i \in DOMAIN loopQueue'[k] :
            loopQueue'[k][i].n = n /\ id \in loopQueue'[k][i].to
    BY <2>0
  <2>2. CASE k = l
    <3>1. i + 1 \in DOMAIN q /\ q[i + 1].n = n /\ id \in q[i + 1].to /\ 1 < i + 1
      BY <1>2, <1>4, <2>1, <2>2
    <3>2. Queued(id, n)
      BY <3>1 DEF Queued
    <3>3. id \in b.to => b.n < n
      BY <1>2, <1>5, <3>1 DEF LoopsInOrder
    <3> QED BY <3>2, <3>3
  <2>3. CASE k # l
    <3>1. Queued(id, n) /\ LoopOf[id] = k
      BY <1>2, <2>1, <2>3 DEF Queued, LoopsInOrder
    <3>2. id \notin b.to
      BY <1>2, <1>5, <2>3, <3>1 DEF LoopsInOrder
    <3> QED BY <3>1, <3>2
  <2> QED BY <2>2, <2>3
<1>8. \A id \in SubIds, n \in Numbers : Handed(id, n)' <=> Handed(id, n)
  BY <1>1 DEF Handed
<1>9. ASSUME NEW k \in Loops, NEW i \in DOMAIN loopQueue'[k], NEW j \in DOMAIN loopQueue'[k]
      PROVE  /\ \A id \in loopQueue'[k][i].to : LoopOf[id] = k
             /\ i < j => \A id \in loopQueue'[k][i].to \cap loopQueue'[k][j].to :
                             loopQueue'[k][i].n < loopQueue'[k][j].n
  <2>1. CASE k = l
    <3>1. i \in 1 .. (len - 1) /\ j \in 1 .. (len - 1)
      BY <1>2, <2>1
    <3>2. i < j => i + 1 < j + 1
      BY <1>2, <3>1
    <3> QED BY <1>4, <2>1, <3>1, <3>2 DEF LoopsInOrder
  <2>2. CASE k # l
    BY <1>2, <2>2 DEF LoopsInOrder
  <2> QED BY <2>1, <2>2
<1>10. LoopsInOrder'
  BY <1>9 DEF LoopsInOrder
<1> QED BY <1>1, <1>3, <1>6, <1>7, <1>8, <1>10 DEF b

-----------------------------------------------------------------------------
(* The stages stay in order *)

connStages == <<delivered, skipped, loopQueue, cur>>

(* Only these move a message from stage to stage. *)
LEMMA WhoTouchesStages ==
    ASSUME [Next]_vars
    PROVE  \/ \E d \in Drainers :
                  \/ DrainPop(d) \/ DrainIdle(d) \/ DrainYield(d) \/ DispatchThrows(d)
                  \/ SendDirect(d) \/ \E l \in Loops : Dispatch(d, l)
           \/ \E l \in Loops : LoopRun(l)
           \/ UNCHANGED connStages
<1> USE DEF connStages
<1>1. ASSUME NEW p \in Publishers,
             PublishEnter(p) \/ PublishBuildThrows(p) \/ PublisherStep(p)
      PROVE  UNCHANGED connStages
  BY <1>1 DEF PublisherStep, PublishEnter, PublishRefused, PublishLock,
          PublishBuildThrows, PublishPush, PublishCommit, InlineDrainNext, PublishReturn
<1>2. ASSUME NEW w \in Workers, WorkerTake(w)
      PROVE  UNCHANGED connStages
  BY <1>2 DEF WorkerTake
<1>3. ASSUME NEW id \in SubIds, Unsubscribe(id) \/ GateCloses(id) \/ GateOpens(id)
      PROVE  UNCHANGED connStages
  BY <1>3 DEF Unsubscribe, GateCloses, GateOpens
<1>4. ASSUME SubscribeJoin \/ SubscribeReshape
      PROVE  UNCHANGED connStages
  BY <1>4 DEF SubscribeJoin, SubscribeReshape
<1>5. CASE UNCHANGED vars
  BY <1>5 DEF vars
<1> QED BY <1>1, <1>2, <1>3, <1>4, <1>5 DEF Next, DrainStep

(* Letting go of a shard disturbs no connection. *)
LEMMA LeaveConn ==
    ASSUME IInv, ConnInv, NEW d \in Drainers, LeaveShard(d),
           UNCHANGED <<delivered, skipped, loopQueue>>
    PROVE  ConnInv'
<1>1. DeliveredInOrder' /\ LoopsInOrder'
  BY DEF ConnInv, DeliveredInOrder, LoopsInOrder
<1>2. StagesInOrder'
  BY LeaveStages DEF ConnInv, StagesInOrder
<1> QED BY <1>1, <1>2 DEF ConnInv

(* What is popped comes after all that was sent to the members it is for. *)
LEMMA PopConn ==
    ASSUME IInv, ClaimInv, PlaceInv, QueueInv, ConnInv, NEW d \in Drainers, DrainPop(d)
    PROVE  ConnInv'
<1> DEFINE s == drain[d]
           h == Head(queue[s])
<1>1. DeliveredInOrder' /\ LoopsInOrder'
  BY DEF ConnInv, DeliveredInOrder, LoopsInOrder, DrainPop
<1>2. PICK i \in Slots : /\ s = Shard(i) /\ i \in DOMAIN dist
                         /\ \A id \in snap[s] : id \in SubIds /\ AtHome(id, i)
  BY PopFacts DEF DrainPop
<1>3. h \in Range(queue[s]) /\ h \in Numbers
  <2>1. queue[s] \in Seq(Numbers) /\ queue[s] # <<>>
    BY PopFacts DEF DrainPop, IInv, TypeOK, ShardType, Numbers
  <2>2. \A m \in Range(queue[s]) : m \in Numbers
    BY <2>1 DEF Range
  <2> QED BY <2>1, <2>2, TakenOnce
<1>5. \A id \in snap[s], n \in Numbers : Sent(id, n) => n < h
  BY <1>2, <1>3 DEF QueueInv, SentBeforeWaiting
<1> HIDE DEF s, h
<1>6. \A id \in SubIds, n \in Numbers :
          /\ Reached(id, n)' <=> Reached(id, n)
          /\ Queued(id, n)' <=> Queued(id, n)
          /\ Handed(id, n)' => Handed(id, n) \/ (id \in snap[s] /\ n = h)
  BY PopStages DEF s, h
<1>7. StagesInOrder'
  BY <1>5, <1>6 DEF ConnInv, StagesInOrder, Sent
<1> QED BY <1>1, <1>7 DEF ConnInv

(* A group served through its loop. *)
LEMMA DispatchConn ==
    ASSUME IInv, ClaimInv, PlaceInv, ConnInv, NEW d \in Drainers, NEW l \in Loops,
           Dispatch(d, l)
    PROVE  ConnInv'
<1>1. /\ cur[d].n \in Numbers /\ Group(d, l) \subseteq SubIds
      /\ \A id \in Group(d, l) :
             LoopOf[id] = l /\ Handed(id, cur[d].n) /\ \A n : ~Handed(id, n)'
      /\ \A id \in SubIds, n \in Numbers : Handed(id, n)' => Handed(id, n)
  BY GroupStages DEF Dispatch
<1>2. \A id \in SubIds, n \in Numbers :
          /\ Reached(id, n)' <=> Reached(id, n)
          /\ Queued(id, n)' => Queued(id, n) \/ (id \in Group(d, l) /\ n = cur[d].n)
  BY DispatchStages
<1>3. \A id \in Group(d, l), m \in Numbers : Reached(id, m) \/ Queued(id, m) => m < cur[d].n
  BY <1>1 DEF ConnInv, StagesInOrder
<1>4. DeliveredInOrder'
  BY DEF ConnInv, DeliveredInOrder, Dispatch
<1>5. LoopsInOrder'
  BY <1>1, <1>3, DispatchLoops DEF ConnInv
<1>6. StagesInOrder'
  BY <1>1, <1>2, <1>3 DEF ConnInv, StagesInOrder
<1> QED BY <1>4, <1>5, <1>6 DEF ConnInv

(* A group without a loop. *)
LEMMA DirectConn ==
    ASSUME IInv, ClaimInv, PlaceInv, ConnInv, NEW d \in Drainers, SendDirect(d)
    PROVE  ConnInv'
<1> DEFINE g == Group(d, NoLoop)
<1>1. /\ cur[d].n \in Numbers /\ g \subseteq SubIds
      /\ \A id \in g : LoopOf[id] = NoLoop /\ Handed(id, cur[d].n) /\ \A n : ~Handed(id, n)'
      /\ \A id \in SubIds, n \in Numbers : Handed(id, n)' => Handed(id, n)
  BY GroupStages DEF SendDirect
<1>2. Receive(cur[d].n, g) /\ UNCHANGED loopQueue
  BY DEF SendDirect
<1> HIDE DEF g
<1>3. \A id \in SubIds, n \in Numbers :
          /\ Reached(id, n)' => Reached(id, n) \/ (id \in g /\ n = cur[d].n)
          /\ Queued(id, n)' <=> Queued(id, n)
  BY <1>1, <1>2, ReceiveStages DEF Queued
<1>4. \A id \in g, m \in Numbers : Reached(id, m) \/ Queued(id, m) => m < cur[d].n
  BY <1>1 DEF ConnInv, StagesInOrder
<1>5. \A id \in g, m \in Numbers : ~Queued(id, m)
  <2>1. \A k \in Loops : k # NoLoop
    BY ThreadsAssumption
  <2> QED BY <1>1, <2>1 DEF Queued, ConnInv, LoopsInOrder
<1>6. DeliveredInOrder'
  BY <1>1, <1>2, <1>4, ReceiveStages DEF ConnInv
<1>7. LoopsInOrder'
  BY <1>2 DEF ConnInv, LoopsInOrder
<1>8. StagesInOrder'
  BY <1>1, <1>3, <1>4, <1>5 DEF ConnInv, StagesInOrder
<1> QED BY <1>6, <1>7, <1>8 DEF ConnInv

(* A batch reaches its connections. *)
LEMMA RunConn ==
    ASSUME IInv, ConnInv, NEW l \in Loops, LoopRun(l)
    PROVE  ConnInv'
<1> DEFINE b == Head(loopQueue[l])
<1>1. /\ b.n \in Numbers /\ b.to \in SUBSET SubIds /\ Receive(b.n, b.to)
      /\ \A id \in b.to : Queued(id, b.n)
      /\ \A id \in SubIds, n \in Numbers :
             /\ Queued(id, n)' => Queued(id, n)
             /\ Queued(id, n)' /\ id \in b.to => b.n < n
             /\ Handed(id, n)' <=> Handed(id, n)
      /\ LoopsInOrder'
  BY RunStages DEF ConnInv
<1> HIDE DEF b
<1>2. \A id \in SubIds, n \in Numbers : Reached(id, n)' => Reached(id, n) \/ (id \in b.to /\ n = b.n)
  BY <1>1, ReceiveStages
<1>3. \A id \in b.to, m \in Numbers : Reached(id, m) => m < b.n
  BY <1>1 DEF ConnInv, StagesInOrder
<1>4. DeliveredInOrder'
  BY <1>1, <1>3, ReceiveStages DEF ConnInv
<1>5. StagesInOrder'
  BY <1>1, <1>2 DEF ConnInv, StagesInOrder
<1> QED BY <1>1, <1>4, <1>5 DEF ConnInv

(* Every step keeps what the connections have and will get in order. *)
LEMMA ConnStep ==
    ASSUME IInv, ClaimInv, OrderInv, [Next]_vars
    PROVE  ConnInv'
<1> USE DEF OrderInv
<1>1. ASSUME NEW d \in Drainers, DrainIdle(d) \/ DrainYield(d) \/ DispatchThrows(d)
      PROVE  ConnInv'
  <2>1. LeaveShard(d) /\ UNCHANGED <<delivered, skipped, loopQueue>>
    BY <1>1 DEF DrainIdle, DrainYield, DispatchThrows
  <2> QED BY <2>1, LeaveConn
<1>2. CASE UNCHANGED connStages
  BY <1>2 DEF connStages, ConnInv, DeliveredInOrder, LoopsInOrder, StagesInOrder, Reached,
          Queued, Handed
<1> QED
  BY <1>1, <1>2, WhoTouchesStages, PopConn, DispatchConn, DirectConn, RunConn

(* No step sends a number that was not sent before, except that one is popped. *)
LEMMA SentStep ==
    ASSUME IInv, ClaimInv, OrderInv, [Next]_vars, NEW id \in SubIds, NEW n \in Numbers,
           Sent(id, n)'
    PROVE  \/ Sent(id, n)
           \/ \E d \in Drainers :
                  DrainPop(d) /\ id \in snap[drain[d]] /\ n = Head(queue[drain[d]])
<1> USE DEF OrderInv, Sent
<1>1. ASSUME NEW d \in Drainers, DrainIdle(d) \/ DrainYield(d) \/ DispatchThrows(d)
      PROVE  Sent(id, n)
  <2>1. LeaveShard(d) /\ UNCHANGED <<delivered, skipped, loopQueue>>
    BY <1>1 DEF DrainIdle, DrainYield, DispatchThrows
  <2> QED BY <2>1, LeaveStages
<1>2. ASSUME NEW d \in Drainers, DrainPop(d), ~Sent(id, n)
      PROVE  id \in snap[drain[d]] /\ n = Head(queue[drain[d]])
  BY <1>2, PopStages
<1>3. ASSUME NEW d \in Drainers, NEW l \in Loops, Dispatch(d, l)
      PROVE  Sent(id, n)
  <2>1. /\ \A i \in Group(d, l) : Handed(i, cur[d].n)
        /\ Handed(id, n)' => Handed(id, n)
    BY <1>3, GroupStages DEF Dispatch
  <2> QED BY <1>3, <2>1, DispatchStages
<1>4. ASSUME NEW d \in Drainers, SendDirect(d)
      PROVE  Sent(id, n)
  <2>1. /\ cur[d].n \in Numbers /\ Group(d, NoLoop) \subseteq SubIds
        /\ \A i \in Group(d, NoLoop) : Handed(i, cur[d].n)
        /\ Handed(id, n)' => Handed(id, n)
    BY <1>4, GroupStages DEF SendDirect
  <2>2. Receive(cur[d].n, Group(d, NoLoop)) /\ UNCHANGED loopQueue
    BY <1>4 DEF SendDirect
  <2>3. Reached(id, n)' => Reached(id, n) \/ (id \in Group(d, NoLoop) /\ n = cur[d].n)
    BY <2>1, <2>2, ReceiveStages
  <2>4. Queued(id, n)' <=> Queued(id, n)
    BY <2>2 DEF Queued
  <2> QED BY <2>1, <2>3, <2>4
<1>5. ASSUME NEW l \in Loops, LoopRun(l)
      PROVE  Sent(id, n)
  <2> DEFINE b == Head(loopQueue[l])
  <2>1. /\ b.n \in Numbers /\ b.to \in SUBSET SubIds /\ Receive(b.n, b.to)
        /\ \A i \in b.to : Queued(i, b.n)
        /\ Queued(id, n)' => Queued(id, n)
        /\ Handed(id, n)' <=> Handed(id, n)
    BY <1>5, RunStages DEF ConnInv
  <2> HIDE DEF b
  <2>2. Reached(id, n)' => Reached(id, n) \/ (id \in b.to /\ n = b.n)
    BY <2>1, ReceiveStages
  <2> QED BY <2>1, <2>2
<1>6. CASE UNCHANGED connStages
  BY <1>6 DEF connStages, Reached, Queued, Handed
<1> QED BY <1>1, <1>2, <1>3, <1>4, <1>5, <1>6, WhoTouchesStages

-----------------------------------------------------------------------------
(* The shards stay where they are *)

(* Only a reshape changes the shard a connection is at home in. *)
LEMMA SameHomes ==
    ASSUME [Next]_vars
    PROVE  SubscribeReshape \/ (epoch' = epoch /\ DOMAIN dist' = DOMAIN dist)
<1>1. CASE SubscribeJoin
  BY <1>1 DEF SubscribeJoin
<1>2. ASSUME NEW id \in SubIds, Unsubscribe(id)
      PROVE  epoch' = epoch /\ DOMAIN dist' = DOMAIN dist
  BY <1>2 DEF Unsubscribe
<1>3. CASE UNCHANGED memberVars
  BY <1>3 DEF memberVars
<1> QED BY <1>1, <1>2, <1>3, WhoTouchesMembers

(* A reshape finds every shard object idle and nothing in anyone's hand, and
   the shard objects it creates were never used. *)
LEMMA ReshapeFacts ==
    ASSUME IInv, ClaimInv, PlaceInv, SubscribeReshape
    PROVE  /\ \A s \in ShardIds : ~busy[s]
           /\ \A d \in Drainers : cur[d].to = {}
           /\ epoch' = epoch + 1 /\ UNCHANGED <<busy, queue, cur, drain, delivered, skipped, loopQueue>>
           /\ \A i \in Slots : Shard(i)' \in ShardIds /\ Shard(i)'[1] > epoch
<1>1. epoch' = epoch + 1 /\ UNCHANGED <<busy, queue, cur, drain, delivered, skipped, loopQueue>>
  BY DEF SubscribeReshape, Reshape
<1>2. \A s \in ShardIds : ~busy[s]
  BY DEF SubscribeReshape, PlaceInv, BusyIsCurrent
<1>3. \A d \in Drainers : cur[d].to = {}
  BY <1>2 DEF IInv, HandNeedsShard, TypeOK, DrainerType, ClaimInv, HeldIsBusy
<1>4. epoch \in Nat /\ epoch' \in Epochs
  <2>1. MemberType'
    BY SubscribeReshapeTable
  <2> QED BY <2>1 DEF MemberType, IInv, TypeOK, Epochs
<1>5. ASSUME NEW i \in Slots
      PROVE  Shard(i)' \in ShardIds /\ Shard(i)'[1] > epoch
  <2>1. Shard(i)' = <<epoch', i>>
    BY DEF Shard
  <2> QED BY <1>1, <1>4, <2>1 DEF ShardIds
<1> QED BY <1>1, <1>2, <1>3, <1>5

(* The shard publishSharedImpl pushes to is a current one. *)
LEMMA PushFacts ==
    ASSUME IInv, FreshInv, NEW p \in Publishers, PublishPush(p)
    PROVE  LET i == Lowest(todo[p])
               s == Shard(i)
           IN  /\ i \in todo[p] /\ RoomToPush(i) /\ s \in ShardIds /\ s \in CurrentShards
               /\ seq \in Numbers
               /\ queue[s] \in Seq(Numbers)
               /\ queue'[s] = Append(queue[s], seq)
               /\ \A t \in ShardIds \ {s} : queue'[t] = queue[t]
               /\ busy' = [busy EXCEPT ![s] = TRUE]
<1> DEFINE i == Lowest(todo[p])
           s == Shard(i)
<1>1. /\ pc[p] \in {"build", "push"} /\ todo[p] # {}
      /\ queue' = [queue EXCEPT ![s] = Append(@, seq)]
      /\ busy' = [busy EXCEPT ![s] = TRUE]
  BY DEF PublishPush
<1>2. s \in ShardIds
  BY <1>1, PushedShard DEF IInv
<1>3. i \in todo[p]
  <2>1. todo[p] \in SUBSET Nat
    BY DEF IInv, TypeOK, PublisherType, Slots
  <2> QED BY <1>1, <2>1, LeastExists
<1> HIDE DEF i
<1>4. RoomToPush(i) /\ i \in DOMAIN dist
  BY <1>3 DEF FreshInv, RoomToPush
<1>5. s \in CurrentShards
  BY <1>4 DEF CurrentShards
<1>6. seq \in Numbers
  BY <1>1, SeqWhileBuilding DEF IInv, Numbers
<1> HIDE DEF s
<1>7. queue \in [ShardIds -> Seq(Numbers)]
  BY DEF IInv, TypeOK, ShardType, Numbers
<1>8. /\ queue'[s] = Append(queue[s], seq)
      /\ \A t \in ShardIds \ {s} : queue'[t] = queue[t]
  BY <1>1, <1>2, <1>7
<1> QED BY <1>1, <1>2, <1>3, <1>4, <1>5, <1>6, <1>7, <1>8 DEF i, s

(* Only a push and a pop change a queue. *)
LEMMA WhoTouchesQueues ==
    ASSUME [Next]_vars
    PROVE  \/ \E p \in Publishers : PublishPush(p)
           \/ \E d \in Drainers : DrainPop(d)
           \/ UNCHANGED queue
<1>1. CASE SubscribeJoin \/ SubscribeReshape
  BY <1>1 DEF SubscribeJoin, SubscribeReshape
<1>2. ASSUME NEW id \in SubIds, Unsubscribe(id)
      PROVE  UNCHANGED queue
  BY <1>2 DEF Unsubscribe
<1>3. ASSUME NEW d \in Drainers, DrainIdle(d) \/ DispatchThrows(d)
      PROVE  UNCHANGED queue
  BY <1>3 DEF DrainIdle, DispatchThrows
<1> QED BY <1>1, <1>2, <1>3, WhoTouchesShards

(* A pop takes the head of a queue that rises. *)
LEMMA PopQueue ==
    ASSUME IInv, ClaimInv, PlaceInv, QueueInv, NEW d \in Drainers, DrainPop(d)
    PROVE  LET s == drain[d]
           IN  /\ s \in ShardIds /\ queue[s] # <<>>
               /\ Rises(queue'[s])
               /\ Head(queue[s]) \in Range(queue[s])
               /\ Range(queue'[s]) \subseteq Range(queue[s])
               /\ \A m \in Range(queue'[s]) : Head(queue[s]) < m
               /\ \A t \in ShardIds \ {s} : queue'[t] = queue[t]
<1> DEFINE s == drain[d]
<1>1. BetweenMessages(d) /\ queue[s] # <<>> /\ queue' = [queue EXCEPT ![s] = Tail(queue[s])]
  BY DEF DrainPop
<1>2. s \in ShardIds
  BY <1>1, PopFacts
<1> HIDE DEF s
<1>3. queue \in [ShardIds -> Seq(Numbers)] /\ Rises(queue[s])
  BY <1>2 DEF IInv, TypeOK, ShardType, Numbers, QueueInv, QueuesInOrder, Rises
<1>4. queue'[s] = Tail(queue[s]) /\ \A t \in ShardIds \ {s} : queue'[t] = queue[t]
  BY <1>1, <1>2, <1>3
<1>5. queue[s] \in Seq(Numbers)
  BY <1>2, <1>3
<1> QED BY <1>1, <1>2, <1>3, <1>4, <1>5, TailRises DEF s

(* Whoever has a message in hand has the home shard of those it is for. *)
LEMMA HandStep ==
    ASSUME IInv, ClaimInv, PlaceInv, [Next]_vars
    PROVE  HandAtHome'
<1>1. CASE SubscribeReshape
  BY <1>1, ReshapeFacts DEF HandAtHome
<1>2. CASE epoch' = epoch /\ DOMAIN dist' = DOMAIN dist
  <2>1. \A i \in Slots : /\ Shard(i)' = Shard(i)
                         /\ \A id \in SubIds : AtHome(id, i)' <=> AtHome(id, i)
    BY <1>2 DEF Shard, AtHome
  <2>2. \A d \in Drainers : \A id \in cur[d].to :
            id \in SubIds /\ \E i \in Slots : AtHome(id, i)' /\ drain[d] = Shard(i)'
    BY <2>1, InHandFacts
  <2>3. ASSUME \A e \in Drainers : cur'[e].to \subseteq cur[e].to,
               \A e \in Drainers : cur'[e].to # {} => drain'[e] = drain[e]
        PROVE  HandAtHome'
    BY <2>2, <2>3 DEF HandAtHome
  <2>4. ASSUME NEW d \in Drainers, DrainPop(d)
        PROVE  HandAtHome'
    <3>1. drain' = drain /\ BetweenMessages(d)
      BY <2>4 DEF DrainPop
    <3>2. PICK i \in Slots : /\ drain[d] = Shard(i) /\ i \in DOMAIN dist
                             /\ \A id \in snap[drain[d]] : id \in SubIds /\ AtHome(id, i)
      BY <3>1, PopFacts
    <3>3. cur'[d].to \subseteq snap[drain[d]] /\ \A e \in Drainers \ {d} : cur'[e] = cur[e]
      BY <2>4, PopStages
    <3>4. \A id \in cur'[d].to : AtHome(id, i)' /\ drain'[d] = Shard(i)'
      BY <2>1, <3>1, <3>2, <3>3
    <3>5. \A e \in Drainers \ {d} : \A id \in cur'[e].to :
              \E j \in Slots : AtHome(id, j)' /\ drain'[e] = Shard(j)'
      BY <2>2, <3>1, <3>3
    <3> QED BY <3>4, <3>5 DEF HandAtHome
  <2>5. ASSUME NEW d \in Drainers, DrainIdle(d) \/ DrainYield(d) \/ DispatchThrows(d)
        PROVE  HandAtHome'
    <3>1. LeaveShard(d)
      BY <2>5 DEF DrainIdle, DrainYield, DispatchThrows
    <3>2. /\ cur'[d].to = {}
          /\ \A e \in Drainers \ {d} : cur'[e] = cur[e] /\ drain'[e] = drain[e]
      BY <3>1 DEF IInv, TypeOK, DrainerType, LeaveShard, Nothing
    <3> QED BY <2>3, <3>2
  <2>6. ASSUME NEW d \in Drainers, NEW s, drain[d] = NoShard,
               drain' = [drain EXCEPT ![d] = s], UNCHANGED cur
        PROVE  HandAtHome'
    <3>1. cur[d].to = {}
      BY <2>6 DEF IInv, HandNeedsShard
    <3>2. \A e \in Drainers \ {d} : drain'[e] = drain[e]
      BY <2>6 DEF IInv, TypeOK, DrainerType
    <3> QED BY <2>3, <2>6, <3>1, <3>2
  <2>7. ASSUME NEW d \in Drainers, NEW l, Group(d, l) # {}, UNCHANGED drain,
               cur' = [cur EXCEPT ![d] = InHand(@.n, @.to \ Group(d, l))]
        PROVE  HandAtHome'
    <3>1. \A e \in Drainers : cur'[e].to \subseteq cur[e].to
      BY <2>7, GroupStages
    <3> QED BY <2>3, <2>7, <3>1
  <2>8. ASSUME NEW d \in Drainers, SendDirect(d) \/ \E l \in Loops : Dispatch(d, l)
        PROVE  HandAtHome'
    BY <2>7, <2>8 DEF SendDirect, Dispatch
  <2>9. ASSUME NEW p \in Publishers, InlineDrainNext(p)
        PROVE  HandAtHome'
    BY <2>6, <2>9 DEF InlineDrainNext, Drainers
  <2>10. ASSUME NEW w \in Workers, WorkerTake(w)
         PROVE  HandAtHome'
    BY <2>6, <2>10 DEF WorkerTake, Drainers
  <2>11. CASE UNCHANGED <<cur, drain>>
    BY <2>3, <2>11
  <2>12. ASSUME NEW p \in Publishers, PublishCommit(p)
         PROVE  UNCHANGED <<cur, drain>>
    BY <2>12 DEF PublishCommit
  <2> QED
    BY <2>4, <2>5, <2>8, <2>9, <2>10, <2>11, <2>12, WhoTouchesDrainers DEF drainerVars
<1> QED BY <1>1, <1>2, SameHomes

(* Only current shards are busy, and those a later reshape will create are
   untouched. *)
LEMMA PlaceStep ==
    ASSUME IInv, ClaimInv, OrderInv, [Next]_vars
    PROVE  PlaceInv'
<1> USE DEF OrderInv
<1>1. CASE SubscribeReshape
  <2>1. BusyIsCurrent'
    BY <1>1, ReshapeFacts DEF BusyIsCurrent
  <2>2. LaterShardsUnused'
    <3>1. \A s \in ShardIds : s[1] \in Int /\ epoch \in Int
      BY DEF ShardIds, Epochs, IInv, TypeOK, MemberType
    <3> QED BY <1>1, <3>1, ReshapeFacts DEF PlaceInv, LaterShardsUnused
  <2> QED BY <2>1, <2>2, HandStep DEF PlaceInv
<1>2. CASE epoch' = epoch /\ DOMAIN dist' = DOMAIN dist
  <2>1. CurrentShards' = CurrentShards
    BY <1>2 DEF CurrentShards, Shard
  <2>2. busy \in [ShardIds -> BOOLEAN]
    BY DEF IInv, TypeOK, ShardType
  <2>3. BusyIsCurrent'
    <3>1. ASSUME NEW p \in Publishers, PublishPush(p)
          PROVE  BusyIsCurrent'
      BY <2>1, <2>2, <3>1, PushFacts DEF PlaceInv, BusyIsCurrent
    <3>2. ASSUME NEW d \in Drainers, DrainIdle(d) \/ DispatchThrows(d)
          PROVE  BusyIsCurrent'
      <4>1. PICK back \in BOOLEAN : busy' = [busy EXCEPT ![drain[d]] = back]
        BY <3>2 DEF DrainIdle, DispatchThrows, Yields
      <4>2. drain[d] # NoShard
        BY <3>2 DEF DrainIdle, BetweenMessages, DispatchThrows, IInv, HandNeedsShard
      <4>3. busy[drain[d]]
        BY <4>2 DEF ClaimInv, HeldIsBusy
      <4> QED BY <2>1, <2>2, <4>1, <4>3 DEF PlaceInv, BusyIsCurrent
    <3>3. CASE UNCHANGED busy
      BY <2>1, <3>3 DEF PlaceInv, BusyIsCurrent
    <3>4. ASSUME SubscribeJoin \/ SubscribeReshape \/ (\E id \in SubIds : Unsubscribe(id))
                 \/ (\E d \in Drainers : DrainPop(d)) \/ UNCHANGED shardVars
          PROVE  UNCHANGED busy
      BY <3>4 DEF SubscribeJoin, SubscribeReshape, Unsubscribe, DrainPop
    <3> QED BY <3>1, <3>2, <3>3, <3>4, WhoTouchesShards
  <2>4. LaterShardsUnused'
    <3>1. ASSUME NEW p \in Publishers, PublishPush(p)
          PROVE  LaterShardsUnused'
      <4>1. \A i : ~(Shard(i)[1] > epoch)
        BY DEF Shard, IInv, TypeOK, MemberType, Epochs
      <4> QED BY <1>2, <3>1, <4>1, PushFacts DEF PlaceInv, LaterShardsUnused
    <3>2. ASSUME NEW d \in Drainers, DrainPop(d)
          PROVE  LaterShardsUnused'
      BY <1>2, <3>2, PopQueue DEF PlaceInv, LaterShardsUnused
    <3>3. CASE UNCHANGED queue
      BY <1>2, <3>3 DEF PlaceInv, LaterShardsUnused
    <3> QED BY <3>1, <3>2, <3>3, WhoTouchesQueues
  <2> QED BY <2>3, <2>4, HandStep DEF PlaceInv
<1> QED BY <1>1, <1>2, SameHomes

-----------------------------------------------------------------------------
(* The queues stay in order *)

(* What is newly sent was waiting at the home shard of its connection. *)
LEMMA SentFrom ==
    ASSUME IInv, ClaimInv, OrderInv, [Next]_vars, NEW id \in SubIds, NEW n \in Numbers,
           Sent(id, n)'
    PROVE  \/ Sent(id, n)
           \/ \E i \in Slots : /\ AtHome(id, i) /\ Shard(i) \in ShardIds
                               /\ n \in Range(queue[Shard(i)])
                               /\ \A m \in Range(queue'[Shard(i)]) : n < m
<1>1. ASSUME NEW d \in Drainers, DrainPop(d), id \in snap[drain[d]],
             n = Head(queue[drain[d]])
      PROVE  \E i \in Slots : /\ AtHome(id, i) /\ Shard(i) \in ShardIds
                              /\ n \in Range(queue[Shard(i)])
                              /\ \A m \in Range(queue'[Shard(i)]) : n < m
  <2>1. BetweenMessages(d)
    BY <1>1 DEF DrainPop
  <2>2. PICK i \in Slots : drain[d] = Shard(i) /\ AtHome(id, i)
    BY <1>1, <2>1, PopFacts DEF OrderInv
  <2> QED BY <1>1, <2>2, PopQueue DEF OrderInv
<1> QED BY <1>1, SentStep

(* Every step keeps the queues increasing and above all that was sent. *)
LEMMA QueueStep ==
    ASSUME IInv, ClaimInv, OrderInv, [Next]_vars
    PROVE  QueueInv'
<1> USE DEF OrderInv
<1>1. ASSUME NEW p \in Publishers, PublishPush(p)
      PROVE  QueuesInOrder'
  <2> DEFINE s == Shard(Lowest(todo[p]))
  <2>1. /\ s \in ShardIds /\ seq \in Numbers /\ queue[s] \in Seq(Numbers)
        /\ \A m \in Range(queue[s]) : m < seq
        /\ queue'[s] = Append(queue[s], seq)
        /\ \A t \in ShardIds \ {s} : queue'[t] = queue[t]
    BY <1>1, PushFacts DEF RoomToPush
  <2> HIDE DEF s
  <2>2. Rises(queue[s])
    BY <2>1 DEF QueueInv, QueuesInOrder, Rises
  <2>3. Rises(queue'[s])
    BY <2>1, <2>2, AppendRises
  <2> QED BY <2>1, <2>3 DEF QueueInv, QueuesInOrder, Rises
<1>2. ASSUME NEW d \in Drainers, DrainPop(d)
      PROVE  QueuesInOrder'
  BY <1>2, PopQueue DEF QueueInv, QueuesInOrder, Rises
<1>3. ASSUME UNCHANGED queue
      PROVE  QueuesInOrder'
  BY <1>3 DEF QueueInv, QueuesInOrder
<1>4. QueuesInOrder'
  BY <1>1, <1>2, <1>3, WhoTouchesQueues
<1>5. CASE SubscribeReshape
  <2>0. /\ \A i \in Slots : Shard(i)' \in ShardIds /\ Shard(i)'[1] > epoch
        /\ UNCHANGED queue
    BY <1>5, ReshapeFacts
  <2>1. \A i \in Slots : queue'[Shard(i)'] = <<>>
    BY <2>0 DEF PlaceInv, LaterShardsUnused
  <2>2. Range(<<>>) = {}
    BY DEF Range
  <2>3. \A i \in Slots : \A m : m \notin Range(queue'[Shard(i)'])
    BY <2>1, <2>2
  <2>4. SentBeforeWaiting'
    BY <2>3 DEF SentBeforeWaiting
  <2> QED BY <1>4, <2>4 DEF QueueInv
<1>6. CASE epoch' = epoch /\ DOMAIN dist' = DOMAIN dist
  <2>1. ASSUME NEW id \in SubIds, NEW i \in Slots, NEW n \in Numbers, NEW m \in Numbers,
               AtHome(id, i)', Sent(id, n)', m \in Range(queue'[Shard(i)'])
        PROVE  n < m
    <3>1. AtHome(id, i) /\ Shard(i)' = Shard(i) /\ Shard(i) \in ShardIds
      BY <1>6, <2>1, CurrentShardsAreShards DEF AtHome, Shard, IInv
    <3>2. CASE Sent(id, n)
      <4>1. ASSUME NEW p \in Publishers, PublishPush(p)
            PROVE  n < m
        <5> DEFINE j == Lowest(todo[p])
        <5>1. /\ RoomToPush(j) /\ seq \in Numbers
              /\ queue[Shard(j)] \in Seq(Numbers)
              /\ queue'[Shard(j)] = Append(queue[Shard(j)], seq)
              /\ \A t \in ShardIds \ {Shard(j)} : queue'[t] = queue[t]
          BY <4>1, PushFacts
        <5> HIDE DEF j
        <5>2. CASE m \in Range(queue[Shard(i)])
          BY <3>1, <3>2, <5>2 DEF QueueInv, SentBeforeWaiting
        <5>3. CASE m \notin Range(queue[Shard(i)])
          <6>1. i = j /\ m = seq
            <7>1. Range(Append(queue[Shard(j)], seq)) = Range(queue[Shard(j)]) \cup {seq}
              BY <5>1, AppendedOnce
            <7>2. Shard(i) = Shard(j)
              BY <2>1, <3>1, <5>1, <5>3
            <7> QED BY <2>1, <3>1, <5>1, <5>3, <7>1, <7>2 DEF Shard
          <6> QED BY <3>1, <3>2, <5>1, <6>1 DEF RoomToPush
        <5> QED BY <5>2, <5>3
      <4>2. ASSUME m \in Range(queue[Shard(i)])
            PROVE  n < m
        BY <3>1, <3>2, <4>2 DEF QueueInv, SentBeforeWaiting
      <4>3. ASSUME NEW d \in Drainers, DrainPop(d)
            PROVE  m \in Range(queue[Shard(i)])
        BY <2>1, <3>1, <4>3, PopQueue
      <4>4. CASE UNCHANGED queue
        BY <2>1, <3>1, <4>2, <4>4
      <4> QED BY <4>1, <4>2, <4>3, <4>4, WhoTouchesQueues
    <3>3. CASE ~Sent(id, n)
      <4>1. PICK j \in Slots : AtHome(id, j) /\ \A k \in Range(queue'[Shard(j)]) : n < k
        BY <2>1, <3>3, SentFrom
      <4>2. i = j
        BY <3>1, <4>1 DEF AtHome
      <4> QED BY <2>1, <3>1, <4>1, <4>2
    <3> QED BY <3>2, <3>3
  <2>2. SentBeforeWaiting'
    BY <2>1 DEF SentBeforeWaiting
  <2> QED BY <1>4, <2>2 DEF QueueInv
<1> QED BY <1>5, <1>6, SameHomes

-----------------------------------------------------------------------------
(* What is pushed is new *)

(* Nothing that is queued or sent has a larger number afterwards, except that
   publishSharedImpl pushes its own. *)
LEMMA NumberedStep ==
    ASSUME IInv, ClaimInv, OrderInv, [Next]_vars, NEW last \in Int, NumberedUpTo(last),
           \A p \in Publishers : PublishPush(p) => seq <= last
    PROVE  /\ \A s \in ShardIds : \A m \in Range(queue'[s]) : m <= last
           /\ \A id \in SubIds, n \in Numbers : Sent(id, n)' => n <= last
<1> USE DEF OrderInv
<1>1. ASSUME NEW s \in ShardIds, NEW m \in Range(queue'[s])
      PROVE  m <= last
  <2>1. ASSUME NEW p \in Publishers, PublishPush(p)
        PROVE  m <= last
    <3> DEFINE t == Shard(Lowest(todo[p]))
    <3>1. /\ seq \in Numbers /\ queue[t] \in Seq(Numbers)
          /\ queue'[t] = Append(queue[t], seq)
          /\ \A r \in ShardIds \ {t} : queue'[r] = queue[r]
      BY <2>1, PushFacts
    <3> HIDE DEF t
    <3>2. Range(Append(queue[t], seq)) = Range(queue[t]) \cup {seq}
      BY <3>1, AppendedOnce
    <3> QED BY <1>1, <2>1, <3>1, <3>2 DEF NumberedUpTo
  <2>2. ASSUME NEW d \in Drainers, DrainPop(d)
        PROVE  m <= last
    <3>1. m \in Range(queue[s])
      BY <1>1, <2>2, PopQueue
    <3> QED BY <3>1 DEF NumberedUpTo
  <2>3. ASSUME UNCHANGED queue
        PROVE  m <= last
    BY <1>1, <2>3 DEF NumberedUpTo
  <2> QED BY <2>1, <2>2, <2>3, WhoTouchesQueues
<1>2. ASSUME NEW id \in SubIds, NEW n \in Numbers, Sent(id, n)'
      PROVE  n <= last
  BY <1>2, SentFrom DEF NumberedUpTo
<1> QED BY <1>1, <1>2

(* A slot still to be pushed to stays clear of the number in flight: its queue
   is written by this push only, and what is sent comes from that queue. *)
LEMMA RoomStays ==
    ASSUME IInv, ClaimInv, OrderInv, [Next]_vars, NEW i \in Slots, RoomToPush(i),
           UNCHANGED <<seq, epoch>>, DOMAIN dist' = DOMAIN dist,
           \A p \in Publishers : PublishPush(p) => i # Lowest(todo[p])
    PROVE  RoomToPush(i)'
<1> USE DEF OrderInv
<1>1. Shard(i)' = Shard(i) /\ Shard(i) \in ShardIds /\ i \in DOMAIN dist'
  BY CurrentShardsAreShards DEF Shard, IInv, RoomToPush
<1>2. Range(queue'[Shard(i)]) \subseteq Range(queue[Shard(i)])
  <2>1. ASSUME NEW p \in Publishers, PublishPush(p)
        PROVE  queue'[Shard(i)] = queue[Shard(i)]
    <3>1. Shard(i) # Shard(Lowest(todo[p]))
      BY <2>1 DEF Shard
    <3> QED BY <1>1, <2>1, <3>1, PushFacts
  <2>2. ASSUME NEW d \in Drainers, DrainPop(d)
        PROVE  Range(queue'[Shard(i)]) \subseteq Range(queue[Shard(i)])
    BY <1>1, <2>2, PopQueue
  <2> QED BY <2>1, <2>2, WhoTouchesQueues
<1>3. ASSUME NEW id \in SubIds, NEW n \in Numbers, AtHome(id, i)', Sent(id, n)'
      PROVE  n < seq
  <2>1. AtHome(id, i)
    BY <1>3 DEF AtHome
  <2>2. CASE Sent(id, n)
    BY <2>1, <2>2 DEF RoomToPush
  <2>3. CASE ~Sent(id, n)
    <3>1. PICK j \in Slots : AtHome(id, j) /\ n \in Range(queue[Shard(j)])
      BY <1>3, <2>3, SentFrom
    <3>2. i = j
      BY <2>1, <3>1 DEF AtHome
    <3> QED BY <3>1, <3>2 DEF RoomToPush
  <2> QED BY <2>2, <2>3
<1> QED BY <1>1, <1>2, <1>3 DEF RoomToPush

(* Under pubMtx nothing else moves a number, a lock or the table. *)
LEMMA OwnerAlone ==
    ASSUME IInv, FreshInv, NEW p \in Publishers, NEW q \in Publishers \ {p},
           pubOwner \in {Nobody, p}
    PROVE  pc[q] \notin {"build", "push"} /\ todo[q] = {}
<1>1. pubOwner # q
  BY ThreadsAssumption
<1> QED BY <1>1 DEF IInv, Locks, FreshInv

(* Every step keeps what is about to be pushed new. *)
LEMMA FreshStep ==
    ASSUME IInv, ClaimInv, OrderInv, [Next]_vars
    PROVE  FreshInv'
<1> USE DEF OrderInv
<1>1. /\ seq \in Nat /\ MaxSeq \in Nat
      /\ pc \in [Publishers -> {"idle", "lock", "build", "push", "drain"}]
      /\ todo \in [Publishers -> SUBSET Slots]
      /\ pubOwner \in Publishers \cup {Nobody}
      /\ \A s \in ShardIds : \A m \in Range(queue[s]) : m \in Numbers
  <2>1. \A f \in Seq(Numbers) : \A m \in Range(f) : m \in Numbers
    BY DEF Range
  <2> QED BY <2>1, BoundsAssumption DEF IInv, TypeOK, NumberType, PublisherType, ShardType, Numbers
<1>2. ASSUME NEW p \in Publishers, PublishLock(p)
      PROVE  FreshInv'
  <2>1. /\ pubOwner = Nobody /\ seq' = seq + 1
        /\ todo' = [todo EXCEPT ![p] = TargetSlots]
        /\ pc' = [pc EXCEPT ![p] = "build"]
        /\ UNCHANGED <<dist, epoch, queue, delivered, skipped, loopQueue, cur>>
    BY <1>2 DEF PublishLock
  <2>2. \A id \in SubIds, n \in Numbers : Sent(id, n)' <=> Sent(id, n)
    BY <2>1 DEF Sent, Reached, Queued, Handed
  <2>3. /\ \A s \in ShardIds : \A m \in Range(queue'[s]) : m <= seq
        /\ \A id \in SubIds, n \in Numbers : Sent(id, n)' => n <= seq
    BY <2>1, <2>2 DEF FreshInv, NumberedUpTo
  <2>4. NumberedUpTo(seq)'
    <3>1. \A m \in Numbers : m <= seq => m <= seq + 1
      BY <1>1 DEF Numbers
    <3> QED BY <1>1, <2>1, <2>3, <3>1 DEF NumberedUpTo
  <2>5. NumberedUpTo(seq - 1)'
    <3>1. seq' - 1 = seq
      BY <1>1, <2>1
    <3> QED BY <2>3, <3>1 DEF NumberedUpTo
  <2>6. ASSUME NEW i \in todo'[p]
        PROVE  RoomToPush(i)'
    <3>1. i \in DOMAIN dist /\ i \in Slots
      BY <1>1, <2>1, <2>6, TargetsInRange DEF IInv
    <3>2. Shard(i)' = Shard(i) /\ Shard(i) \in ShardIds
      BY <2>1, <3>1, CurrentShardsAreShards DEF Shard, IInv
    <3>3. \A m \in Numbers : m <= seq => m < seq'
      BY <1>1, <2>1 DEF Numbers
    <3>4. \A m \in Range(queue'[Shard(i)]) : m < seq'
      BY <1>1, <2>1, <2>3, <3>2, <3>3
    <3> QED BY <2>1, <2>3, <3>1, <3>2, <3>3, <3>4 DEF RoomToPush
  <2>7. \A q \in Publishers \ {p} : pc'[q] # "build" /\ todo'[q] = {}
    BY <1>1, <2>1, OwnerAlone
  <2> QED BY <1>1, <2>1, <2>4, <2>5, <2>6, <2>7 DEF FreshInv
<1>3. ASSUME NEW p \in Publishers, PublishBuildThrows(p)
      PROVE  FreshInv'
  <2>1. /\ pc[p] = "build" /\ seq' = seq - 1
        /\ todo' = [todo EXCEPT ![p] = {}]
        /\ pc' = [pc EXCEPT ![p] = "idle"]
        /\ UNCHANGED <<queue, delivered, skipped, loopQueue, cur>>
    BY <1>3 DEF PublishBuildThrows
  <2>2. pubOwner = p
    BY <2>1 DEF IInv, Locks
  <2>3. NumberedUpTo(seq)'
    BY <2>1 DEF FreshInv, NumberedUpTo, Sent, Reached, Queued, Handed
  <2>4. \A q \in Publishers : pc'[q] # "build" /\ todo'[q] = {}
    BY <1>1, <2>1, <2>2, OwnerAlone
  <2> QED BY <2>3, <2>4 DEF FreshInv
<1>4. ASSUME NEW p \in Publishers, PublishPush(p)
      PROVE  FreshInv'
  <2> DEFINE i == Lowest(todo[p])
  <2>1. /\ pc[p] \in {"build", "push"}
        /\ pc' = [pc EXCEPT ![p] = "push"]
        /\ todo' = [todo EXCEPT ![p] = @ \ {i}]
        /\ UNCHANGED <<seq, epoch, dist>>
    BY <1>4 DEF PublishPush
  <2>2. pubOwner = p
    BY <2>1 DEF IInv, Locks
  <2>3. \A q \in Publishers \ {p} : pc[q] \notin {"build", "push"} /\ todo[q] = {}
    BY <2>2, OwnerAlone
  <2>4. \A q \in Publishers : PublishPush(q) => q = p
    BY <2>3 DEF PublishPush
  <2>5. NumberedUpTo(seq)'
    BY <1>1, <2>1, NumberedStep DEF FreshInv, NumberedUpTo
  <2>6. ASSUME NEW j \in todo'[p]
        PROVE  RoomToPush(j)'
    <3>1. j \in todo[p] /\ j # i /\ j \in Slots /\ RoomToPush(j)
      BY <1>1, <2>1, <2>6 DEF FreshInv
    <3> HIDE DEF i
    <3>2. \A q \in Publishers : PublishPush(q) => j # Lowest(todo[q])
      BY <2>4, <3>1 DEF i
    <3> QED BY <2>1, <3>1, <3>2, RoomStays
  <2>7. pc'[p] = "push" /\ \A q \in Publishers \ {p} : pc'[q] # "build" /\ todo'[q] = {}
    BY <1>1, <2>1, <2>3
  <2> QED BY <2>5, <2>6, <2>7 DEF FreshInv
<1>5. ASSUME NEW p \in Publishers,
             \/ PublishEnter(p) \/ PublishRefused(p) \/ PublishCommit(p)
             \/ InlineDrainNext(p) \/ PublishReturn(p)
      PROVE  FreshInv'
  <2>1. /\ UNCHANGED <<seq, epoch, dist, todo, queue, delivered, skipped, loopQueue, cur>>
        /\ \A q \in Publishers : pc'[q] = "build" => pc[q] = "build"
        /\ \A q \in Publishers : pc[q] \in {"build", "push"} /\ todo[q] # {} => pc'[q] = pc[q]
    BY <1>1, <1>5 DEF PublishEnter, PublishRefused, PublishCommit, InlineDrainNext,
                      PublishReturn
  <2>2. \A i \in Slots : RoomToPush(i)' <=> RoomToPush(i)
    BY <2>1 DEF RoomToPush, Sent, Reached, Queued, Handed, AtHome, Shard
  <2>3. NumberedUpTo(seq)' /\ (NumberedUpTo(seq - 1) => NumberedUpTo(seq - 1)')
    BY <2>1 DEF FreshInv, NumberedUpTo, Sent, Reached, Queued, Handed
  <2>4. \A q \in Publishers : todo'[q] \subseteq Slots
    BY <1>1, <2>1
  <2> QED BY <2>1, <2>2, <2>3, <2>4 DEF FreshInv
<1>6. ASSUME UNCHANGED <<pc, todo, seq>>
      PROVE  FreshInv'
  <2>1. \A p \in Publishers : ~PublishPush(p)
    <3>1. ASSUME NEW p \in Publishers, PublishPush(p)
          PROVE  FALSE
      <4>1. Lowest(todo[p]) \in todo[p]
        BY <3>1, PushFacts
      <4>2. todo' = [todo EXCEPT ![p] = @ \ {Lowest(todo[p])}]
        BY <3>1 DEF PublishPush
      <4> QED BY <1>1, <1>6, <4>1, <4>2
    <3> QED BY <3>1
  <2>2. NumberedUpTo(seq)'
    BY <1>1, <1>6, <2>1, NumberedStep DEF FreshInv, NumberedUpTo
  <2>3. NumberedUpTo(seq - 1) => NumberedUpTo(seq - 1)'
    <3>1. seq - 1 \in Int
      BY <1>1
    <3> QED BY <1>6, <2>1, <3>1, NumberedStep DEF NumberedUpTo
  <2>4. ASSUME NEW p \in Publishers, NEW i \in todo'[p]
        PROVE  pc'[p] \in {"build", "push"} /\ RoomToPush(i)'
    <3>1. i \in Slots /\ RoomToPush(i) /\ pc[p] \in {"build", "push"}
      BY <1>1, <1>6, <2>4 DEF FreshInv
    <3>2. pubOwner # Nobody
      BY <3>1, ThreadsAssumption DEF IInv, Locks
    <3>3. epoch' = epoch /\ dist' = dist
      BY <3>2, WhoTouchesMembers DEF SubscribeJoin, SubscribeReshape, MaySubscribe,
                                     Unsubscribe, memberVars
    <3>4. RoomToPush(i)'
      BY <1>6, <2>1, <3>1, <3>3, RoomStays
    <3> QED BY <1>6, <3>1, <3>4
  <2> QED BY <1>6, <2>2, <2>3, <2>4 DEF FreshInv
<1>7. CASE UNCHANGED pubVars
  <2>1. ASSUME UNCHANGED seq
        PROVE  FreshInv'
    BY <1>6, <1>7, <2>1
  <2>2. ASSUME NEW id \in SubIds, Unsubscribe(id)
        PROVE  UNCHANGED seq
    BY <2>2 DEF Unsubscribe
  <2> QED BY <1>2, <1>3, <1>5, <2>1, <2>2, WhoTouchesNumbers DEF numberVars
<1> QED
  BY <1>2, <1>3, <1>4, <1>5, <1>7, WhoTouchesPublishers

-----------------------------------------------------------------------------
(* The theorem *)

(* In an empty room there is nothing to be out of order. *)
LEMMA InitOrder == Init => OrderInv
<1> SUFFICES ASSUME Init PROVE OrderInv
  OBVIOUS
<1>1. /\ Range(<<>>) = {} /\ DOMAIN <<>> = {}
      /\ \A s \in ShardIds : queue[s] = <<>>
      /\ skipped = {} /\ \A id \in SubIds : delivered[id] = <<>>
      /\ \A l \in Loops : loopQueue[l] = <<>>
      /\ \A d \in Drainers : cur[d].to = {}
      /\ \A s \in ShardIds : ~busy[s]
      /\ \A p \in Publishers : pc[p] = "idle" /\ todo[p] = {}
  BY DEF Init, Range, Nothing
<1>2. \A id \in SubIds, n \in Numbers : ~Reached(id, n) /\ ~Queued(id, n) /\ ~Handed(id, n)
  BY <1>1 DEF Reached, Queued, Handed
<1>3. ConnInv
  BY <1>1, <1>2 DEF ConnInv, DeliveredInOrder, LoopsInOrder, StagesInOrder
<1>4. PlaceInv
  BY <1>1 DEF PlaceInv, HandAtHome, BusyIsCurrent, LaterShardsUnused
<1>5. QueueInv
  BY <1>1, <1>2 DEF QueueInv, QueuesInOrder, SentBeforeWaiting, Sent
<1>6. FreshInv
  BY <1>1, <1>2 DEF FreshInv, NumberedUpTo, Sent
<1> QED BY <1>3, <1>4, <1>5, <1>6 DEF OrderInv

(* Every connection receives the messages of the room in increasing order and
   none twice: however many threads publish, whoever drains the shards, through
   whichever loop, with members joining, leaving and being dealt out anew and
   exceptions thrown meanwhile. *)
THEOREM InOrder == Spec => []DeliveredInOrder
<1>1. Init => IInv /\ ClaimInv /\ OrderInv
  BY InitInvariant, InitClaims, InitOrder
<1>2. IInv /\ ClaimInv /\ OrderInv /\ [Next]_vars => (IInv /\ ClaimInv /\ OrderInv)'
  BY StepInvariant, ClaimStep, ConnStep, PlaceStep, QueueStep, FreshStep DEF OrderInv
<1>3. IInv /\ ClaimInv /\ OrderInv => DeliveredInOrder
  BY DEF OrderInv, ConnInv
<1> QED BY <1>1, <1>2, <1>3, PTL DEF Spec

(***************************************************************************)
(* Nothing forgotten, the refinement, and the limits.                      *)
(***************************************************************************)

Touched(id, n) == Sent(id, n) \/ <<id, n>> \in lost
Waiting(id, n) == \E i \in DOMAIN dist : id \in dist[i] /\ n \in Range(queue[Shard(i)])
Accounted(id, n) == Touched(id, n) \/ Waiting(id, n)

AcceptedInv ==
    \A id \in Members : \A n \in (joinedAt[id] + 1) .. Accepted : Accounted(id, n)
PushedInv ==
    \A p \in Publishers : pc[p] \in {"build", "push"} =>
        \A i \in DOMAIN dist : i \notin todo[p] =>
            \A id \in dist[i] : Accounted(id, seq)
\* A reshape that has anybody to deal out finds nothing queued for them.
OneShardInv == MaxShards = 1 => DOMAIN dist \subseteq {0}
NFInv == AcceptedInv /\ PushedInv

USE DEF roomVars, shardVars, pubVars, drainVars, loopVars, gateVars

-----------------------------------------------------------------------------
(* What is touched stays touched. *)

(* Only an exception thrown by a dispatch writes lost. *)
LEMMA LostGrows ==
    ASSUME [Next]_vars
    PROVE  lost \subseteq lost' /\ (UNCHANGED lost \/ \E d \in Drainers : DispatchThrows(d))
<1>1. ASSUME NEW id \in SubIds, GateCloses(id) \/ GateOpens(id)
      PROVE  UNCHANGED lost
  BY <1>1 DEF GateCloses, GateOpens
<1>2. ASSUME NEW p \in Publishers, PublishBuildThrows(p)
      PROVE  UNCHANGED lost
  BY <1>2 DEF PublishBuildThrows
<1>3. ASSUME NEW d \in Drainers, SendDirect(d) \/ \E l \in Loops : Dispatch(d, l)
      PROVE  UNCHANGED lost
  BY <1>3 DEF SendDirect, Dispatch
<1>4. ASSUME NEW d \in Drainers, DispatchThrows(d)
      PROVE  lost \subseteq lost'
  BY <1>4 DEF DispatchThrows
<1>5. ASSUME NEW l \in Loops, LoopRun(l)
      PROVE  UNCHANGED lost
  BY <1>5 DEF LoopRun
<1> QED
  BY <1>1, <1>2, <1>3, <1>4, <1>5, WhoTouchesConnections DEF connVars

(* Receiving takes nothing back: what a connection has got it keeps, and each
   of those a batch is for has got it, or skipped it at its closed gate. *)
LEMMA ReceiveKeeps ==
    ASSUME IInv, NEW n \in Numbers, NEW ids \in SUBSET SubIds, Receive(n, ids)
    PROVE  /\ \A id \in SubIds, m \in Numbers : Reached(id, m) => Reached(id, m)'
           /\ \A id \in ids, m \in Numbers : m = n => Reached(id, m)'
<1>1. /\ delivered \in [SubIds -> Seq(Numbers)]
      /\ \A id \in SubIds : delivered'[id] = IF id \in Open(ids) THEN Append(delivered[id], n)
                                             ELSE delivered[id]
      /\ skipped' = skipped \cup {<<id, n>> : id \in ids \ Open(ids)}
  BY DEF IInv, TypeOK, LoopType, Numbers, Receive
<1>2. \A id \in SubIds : Range(Append(delivered[id], n)) = Range(delivered[id]) \cup {n}
  BY <1>1, AppendedOnce
<1>3. \A id \in SubIds : Range(delivered[id]) \subseteq Range(delivered'[id])
  BY <1>1, <1>2
<1>4. \A id \in Open(ids) : id \in SubIds => n \in Range(delivered'[id])
  BY <1>1, <1>2
<1> QED BY <1>1, <1>3, <1>4 DEF Reached

(* Serving a group leaves the rest of the message in the drainer's hand. *)
LEMMA GroupKeeps ==
    ASSUME IInv, NEW d \in Drainers, NEW l,
           cur' = [cur EXCEPT ![d] = InHand(@.n, @.to \ Group(d, l))]
    PROVE  \A id \in SubIds, n \in Numbers :
               Handed(id, n) => Handed(id, n)' \/ (id \in Group(d, l) /\ n = cur[d].n)
<1>1. /\ cur'[d] = InHand(cur[d].n, cur[d].to \ Group(d, l))
      /\ \A e \in Drainers \ {d} : cur'[e] = cur[e]
  BY DEF IInv, TypeOK, DrainerType
<1>2. \A id \in cur[d].to \ Group(d, l) : id \in cur'[d].to /\ cur'[d].n = cur[d].n
  BY <1>1 DEF InHand
<1> QED BY <1>1, <1>2 DEF Handed

(* A batch that is dispatched is queued for its whole group, behind what the
   loop had. *)
LEMMA DispatchKeeps ==
    ASSUME IInv, NEW d \in Drainers, NEW l \in Loops, Dispatch(d, l)
    PROVE  /\ \A id \in SubIds, n \in Numbers : Queued(id, n) => Queued(id, n)'
           /\ \A id \in Group(d, l), n \in Numbers : n = cur[d].n => Queued(id, n)'
<1> DEFINE b == [n |-> cur[d].n, to |-> Group(d, l)]
<1>1. /\ loopQueue' = [loopQueue EXCEPT ![l] = Append(@, b)]
      /\ b.n = cur[d].n /\ b.to = Group(d, l)
  BY DEF Dispatch
<1> HIDE DEF b
<1>2. /\ loopQueue \in [Loops -> Seq(Batches)]
      /\ \A k \in Loops \ {l} : loopQueue'[k] = loopQueue[k]
      /\ loopQueue'[l] = Append(loopQueue[l], b)
  BY <1>1 DEF IInv, TypeOK, LoopType
<1>3. /\ loopQueue[l] \in Seq(Batches)
      /\ DOMAIN loopQueue'[l] = 1 .. (Len(loopQueue[l]) + 1)
      /\ DOMAIN loopQueue[l] = 1 .. Len(loopQueue[l])
      /\ \A i \in 1 .. Len(loopQueue[l]) : loopQueue'[l][i] = loopQueue[l][i]
      /\ loopQueue'[l][Len(loopQueue[l]) + 1] = b
      /\ Len(loopQueue[l]) + 1 \in 1 .. (Len(loopQueue[l]) + 1)
  BY <1>2
<1>4. \A i \in DOMAIN loopQueue[l] :
          i \in DOMAIN loopQueue'[l] /\ loopQueue'[l][i] = loopQueue[l][i]
  BY <1>3
<1>5. \E i \in DOMAIN loopQueue'[l] : loopQueue'[l][i] = b
  BY <1>3
<1>6. ASSUME NEW id \in SubIds, NEW n \in Numbers, NEW k \in Loops,
             NEW i \in DOMAIN loopQueue[k], loopQueue[k][i].n = n, id \in loopQueue[k][i].to
      PROVE  Queued(id, n)'
  <2>1. i \in DOMAIN loopQueue'[k] /\ loopQueue'[k][i] = loopQueue[k][i]
    BY <1>2, <1>4, <1>6
  <2> QED BY <1>6, <2>1 DEF Queued
<1>7. \A id \in Group(d, l), n \in Numbers : n = cur[d].n => Queued(id, n)'
  <2>1. ASSUME NEW id \in Group(d, l)
        PROVE  \E i \in DOMAIN loopQueue'[l] :
                   loopQueue'[l][i].n = cur[d].n /\ id \in loopQueue'[l][i].to
    BY <1>1, <1>5
  <2> QED BY <2>1 DEF Queued
<1> QED BY <1>6, <1>7 DEF Queued

(* A loop that runs its oldest batch keeps the others. *)
LEMMA RunKeeps ==
    ASSUME IInv, NEW l \in Loops, LoopRun(l)
    PROVE  LET b == Head(loopQueue[l])
           IN  \A id \in SubIds, n \in Numbers :
                   Queued(id, n) => Queued(id, n)' \/ (id \in b.to /\ n = b.n)
<1> DEFINE b == Head(loopQueue[l])
           q == loopQueue[l]
           len == Len(q)
<1>1. /\ q \in Seq(Batches) /\ q # <<>>
      /\ loopQueue' = [loopQueue EXCEPT ![l] = Tail(@)]
      /\ loopQueue \in [Loops -> Seq(Batches)]
  BY DEF LoopRun, IInv, TypeOK, LoopType
<1>2. /\ len \in Nat \ {0} /\ DOMAIN q = 1 .. len /\ b = q[1]
      /\ loopQueue'[l] = Tail(q)
      /\ DOMAIN Tail(q) = 1 .. (len - 1)
      /\ \A i \in 1 .. (len - 1) : Tail(q)[i] = q[i + 1]
      /\ \A k \in Loops \ {l} : loopQueue'[k] = loopQueue[k]
  BY <1>1, HeadTailProperties, EmptySeq, LenProperties
<1> HIDE DEF b, len
<1>3. ASSUME NEW i \in DOMAIN q, i # 1
      PROVE  i - 1 \in DOMAIN loopQueue'[l] /\ loopQueue'[l][i - 1] = q[i]
  <2>1. i - 1 \in 1 .. (len - 1) /\ (i - 1) + 1 = i
    BY <1>2, <1>3
  <2> QED BY <1>2, <2>1
<1>4. ASSUME NEW id \in SubIds, NEW n \in Numbers, NEW k \in Loops,
             NEW i \in DOMAIN loopQueue[k], loopQueue[k][i].n = n, id \in loopQueue[k][i].to
      PROVE  Queued(id, n)' \/ (id \in b.to /\ n = b.n)
  <2>1. CASE k # l
    BY <1>2, <1>4, <2>1 DEF Queued
  <2>2. CASE k = l /\ i = 1
    BY <1>2, <1>4, <2>2
  <2>3. CASE k = l /\ i # 1
    BY <1>3, <1>4, <2>3 DEF Queued
  <2> QED BY <2>1, <2>2, <2>3
<1> QED BY <1>4 DEF Queued, b

(* Every step leaves touched what was: from hand to loop to connection, or
   lost for good when a dispatch throws. *)
LEMMA TouchedStays ==
    ASSUME IInv, ClaimInv, PlaceInv, ConnInv, [Next]_vars,
           NEW id \in SubIds, NEW n \in Numbers, Touched(id, n)
    PROVE  Touched(id, n)'
<1>0. lost \subseteq lost' /\ (UNCHANGED lost \/ \E d \in Drainers : DispatchThrows(d))
  BY LostGrows
<1>1. ASSUME NEW d \in Drainers, DrainIdle(d) \/ DrainYield(d)
      PROVE  Sent(id, n) => Sent(id, n)'
  <2>1. cur[d].to = {} /\ LeaveShard(d) /\ UNCHANGED <<delivered, skipped, loopQueue>>
    BY <1>1 DEF DrainIdle, DrainYield, BetweenMessages
  <2>2. \A e \in Drainers \ {d} : cur'[e] = cur[e]
    BY <2>1 DEF IInv, TypeOK, DrainerType, LeaveShard
  <2> QED BY <2>1, <2>2 DEF Sent, Reached, Queued, Handed
<1>2. ASSUME NEW d \in Drainers, DrainPop(d)
      PROVE  Sent(id, n) => Sent(id, n)'
  <2>1. cur[d].to = {} /\ UNCHANGED <<delivered, skipped, loopQueue>>
    BY <1>2 DEF DrainPop, BetweenMessages
  <2>2. \A e \in Drainers \ {d} : cur'[e] = cur[e]
    BY <1>2, PopStages
  <2> QED BY <2>1, <2>2 DEF Sent, Reached, Queued, Handed
<1>3. ASSUME NEW d \in Drainers, DispatchThrows(d)
      PROVE  Touched(id, n)'
  <2>1. /\ LeaveShard(d) /\ UNCHANGED <<delivered, skipped, loopQueue>>
        /\ lost' = lost \cup {<<x, cur[d].n>> : x \in cur[d].to}
    BY <1>3 DEF DispatchThrows
  <2>2. \A e \in Drainers \ {d} : cur'[e] = cur[e]
    BY <2>1 DEF IInv, TypeOK, DrainerType, LeaveShard
  <2>3. Handed(id, n) => Handed(id, n)' \/ <<id, n>> \in lost'
    BY <2>1, <2>2 DEF Handed
  <2> QED BY <1>0, <2>1, <2>3 DEF Touched, Sent, Reached, Queued
<1>4. ASSUME NEW d \in Drainers, SendDirect(d)
      PROVE  Sent(id, n) => Sent(id, n)'
  <2>1. /\ Group(d, NoLoop) # {} /\ Receive(cur[d].n, Group(d, NoLoop)) /\ UNCHANGED loopQueue
        /\ cur' = [cur EXCEPT ![d] = InHand(@.n, @.to \ Group(d, NoLoop))]
    BY <1>4 DEF SendDirect
  <2>2. cur[d].n \in Numbers /\ Group(d, NoLoop) \in SUBSET SubIds
    BY <2>1, GroupType, HandHolds DEF IInv, Numbers
  <2>3. Handed(id, n) => Handed(id, n)' \/ (id \in Group(d, NoLoop) /\ n = cur[d].n)
    BY <2>1, GroupKeeps
  <2>4. /\ Reached(id, n) => Reached(id, n)'
        /\ id \in Group(d, NoLoop) /\ n = cur[d].n => Reached(id, n)'
    BY <2>1, <2>2, ReceiveKeeps
  <2>5. Queued(id, n) => Queued(id, n)'
    BY <2>1 DEF Queued
  <2> QED BY <2>3, <2>4, <2>5 DEF Sent
<1>5. ASSUME NEW d \in Drainers, NEW l \in Loops, Dispatch(d, l)
      PROVE  Sent(id, n) => Sent(id, n)'
  <2>1. /\ UNCHANGED <<delivered, skipped>>
        /\ cur' = [cur EXCEPT ![d] = InHand(@.n, @.to \ Group(d, l))]
    BY <1>5 DEF Dispatch
  <2>2. Handed(id, n) => Handed(id, n)' \/ (id \in Group(d, l) /\ n = cur[d].n)
    BY <2>1, GroupKeeps
  <2>3. /\ Queued(id, n) => Queued(id, n)'
        /\ id \in Group(d, l) /\ n = cur[d].n => Queued(id, n)'
    BY <1>5, DispatchKeeps
  <2>4. Reached(id, n) => Reached(id, n)'
    BY <2>1 DEF Reached
  <2> QED BY <2>2, <2>3, <2>4 DEF Sent
<1>6. ASSUME NEW l \in Loops, LoopRun(l)
      PROVE  Sent(id, n) => Sent(id, n)'
  <2> DEFINE b == Head(loopQueue[l])
  <2>1. /\ b.n \in Numbers /\ b.to \in SUBSET SubIds /\ Receive(b.n, b.to)
        /\ Handed(id, n)' <=> Handed(id, n)
    BY <1>6, RunStages DEF ConnInv
  <2>2. Queued(id, n) => Queued(id, n)' \/ (id \in b.to /\ n = b.n)
    BY <1>6, RunKeeps
  <2> HIDE DEF b
  <2>3. /\ Reached(id, n) => Reached(id, n)'
        /\ id \in b.to /\ n = b.n => Reached(id, n)'
    BY <2>1, ReceiveKeeps
  <2> QED BY <2>1, <2>2, <2>3 DEF Sent
<1>7. ASSUME UNCHANGED connStages
      PROVE  Sent(id, n) => Sent(id, n)'
  BY <1>7 DEF connStages, Sent, Reached, Queued, Handed
<1>8. <<id, n>> \in lost => Touched(id, n)'
  BY <1>0 DEF Touched
<1> QED
  BY <1>1, <1>2, <1>3, <1>4, <1>5, <1>6, <1>7, <1>8, WhoTouchesStages DEF Touched

-----------------------------------------------------------------------------
(* What waits keeps waiting until it is handed out. *)

(* shardsFor stops at one shard when that is the cap. *)
LEMMA OneShardOnly ==
    ASSUME MaxShards = 1, NEW n \in Nat
    PROVE  ShardsFor(n) = 1
<1>1. 1 \in Rungs /\ \A k \in Rungs : k \in 1 .. 2
  BY DEF Rungs
<1>2. 2 \notin Rungs
  <2>1. {1} \in SUBSET (1 .. (2 * MaxShards)) /\ 1 \in {1}
    BY 1 \in 1 .. 2
  <2>2. \A j \in {1} : j < MaxShards => 2 * j \in {1}
    OBVIOUS
  <2>3. 2 \notin {1}
    OBVIOUS
  <2> QED BY <2>1, <2>2, <2>3 DEF Rungs
<1>3. Rungs = {1}
  BY <1>1, <1>2
<1>4. {k \in Rungs : ~GrowsPast(k, n)} = {1}
  BY <1>3 DEF GrowsPast
<1>5. Lowest({1}) = 1
  BY LeastExists
<1> QED BY <1>4, <1>5 DEF ShardsFor

(* A reshape that finds somebody to deal out again finds more than one shard:
   with a single shard the only reshape is the first subscription's. *)
LEMMA FirstReshape ==
    ASSUME IInv, OneShardInv, SubscribeReshape, MaxShards = 1
    PROVE  Members = {}
<1>1. ShardsFor(subCount + 1) = 1
  BY OneShardOnly DEF IInv, TypeOK, MemberType
<1>2. 1 # Cardinality(DOMAIN dist)
  BY <1>1 DEF SubscribeReshape
<1>3. PICK k \in 0 .. (2 * MaxShards) :
          DOMAIN dist = 0 .. (k - 1) /\ Cardinality(DOMAIN dist) = k
  BY Table
<1>4. k = 0
  <2>1. k # 1
    BY <1>2, <1>3
  <2>2. k = 2 => 1 \in DOMAIN dist
    BY <1>3
  <2> QED BY <1>3, <2>1, <2>2 DEF OneShardInv
<1> QED BY <1>3, <1>4 DEF Members

(* With one shard the table stays one shard wide. *)
LEMMA OneShardStep ==
    ASSUME IInv, OneShardInv, [Next]_vars
    PROVE  OneShardInv'
<1>1. ASSUME SubscribeReshape, MaxShards = 1
      PROVE  DOMAIN dist' \subseteq {0}
  <2>1. ShardsFor(subCount + 1) = 1 /\ DOMAIN dist' = 0 .. (ShardsFor(subCount + 1) - 1)
    BY <1>1, OneShardOnly DEF IInv, TypeOK, MemberType, SubscribeReshape, Reshape
  <2> QED BY <2>1
<1> QED BY <1>1, SameHomes DEF OneShardInv

(* A member and a number that waits for it: every step leaves it waiting or
   hands it out, unless the member leaves, or a reshape meets a shard that an
   exception left idle with messages queued. *)
LEMMA AccountedStays ==
    ASSUME IInv, ClaimInv, OrderInv, OneShardInv, [Next]_vars,
           MaxShards = 1 \/ IdleShardIsEmpty,
           NEW id \in Members, NEW n \in Numbers, id \in Members', Accounted(id, n)
    PROVE  Accounted(id, n)'
<1> USE DEF OrderInv
<1>0. id \in SubIds /\ DOMAIN dist \subseteq Slots
  BY TargetsInRange DEF IInv, TypeOK, MemberType, Members
<1>1. CASE Touched(id, n)
  BY <1>0, <1>1, TouchedStays DEF Accounted
<1>2. ASSUME Waiting(id, n)
      PROVE  Accounted(id, n)'
  <2>1. PICK i \in DOMAIN dist : id \in dist[i] /\ n \in Range(queue[Shard(i)])
    BY <1>2 DEF Waiting
  <2> DEFINE s == Shard(i)
  <2>2. s \in ShardIds /\ s \in CurrentShards /\ i \in Slots
    BY <1>0, CurrentShardsAreShards DEF IInv, CurrentShards
  <2>3. ~SubscribeReshape
    <3> SUFFICES ASSUME SubscribeReshape PROVE FALSE
      OBVIOUS
    <3>1. Members # {} /\ pubOwner = Nobody /\ ~busy[s]
      BY <2>2, ReshapeFacts DEF SubscribeReshape, MaySubscribe
    <3>2. IdleShardIsEmpty
      BY <3>1, FirstReshape
    <3>3. queue[s] = <<>>
      BY <2>2, <3>1, <3>2 DEF IdleShardIsEmpty
    <3> QED BY <2>1, <3>3 DEF Range
  <2>4. epoch' = epoch /\ DOMAIN dist' = DOMAIN dist
    BY <2>3, SameHomes
  <2>5. id \in dist'[i]
    <3>1. CASE SubscribeJoin
      BY <2>1, <3>1 DEF SubscribeJoin, IInv, TypeOK, MemberType
    <3>2. ASSUME NEW x \in SubIds, Unsubscribe(x)
          PROVE  id \in dist'[i]
      <4>1. PICK j \in DOMAIN dist : x \in dist[j] /\ dist' = [dist EXCEPT ![j] = @ \ {x}]
        BY <3>2 DEF Unsubscribe
      <4>2. \A k \in DOMAIN dist : id \in dist[k] => k = i
        BY <2>1 DEF IInv, BookkeepingExact
      <4>3. PICK k \in DOMAIN dist' : id \in dist'[k]
        BY DEF Members
      <4>4. k \in DOMAIN dist /\ id \in dist[k]
        BY <4>1, <4>3
      <4> QED BY <4>2, <4>3, <4>4
    <3>3. CASE UNCHANGED memberVars
      BY <2>1, <3>3 DEF memberVars
    <3> QED BY <2>3, <3>1, <3>2, <3>3, WhoTouchesMembers
  <2>6. n \in Range(queue'[s]) => Waiting(id, n)'
    BY <2>4, <2>5 DEF Waiting, Shard
  <2>7. ASSUME NEW p \in Publishers, PublishPush(p)
        PROVE  Range(queue[s]) \subseteq Range(queue'[s])
    <3> DEFINE t == Shard(Lowest(todo[p]))
    <3>1. /\ queue[t] \in Seq(Numbers) /\ seq \in Numbers
          /\ queue'[t] = Append(queue[t], seq)
          /\ \A u \in ShardIds \ {t} : queue'[u] = queue[u]
      BY <2>7, PushFacts
    <3>2. Range(queue[t]) \subseteq Range(queue'[t])
      BY <3>1, AppendedOnce
    <3> QED BY <2>2, <3>1, <3>2
  <2>8. ASSUME NEW d \in Drainers, DrainPop(d)
        PROVE  n \in Range(queue'[s]) \/ Touched(id, n)'
    <3>1. CASE drain[d] # s
      BY <2>1, <2>2, <2>8, <3>1, PopQueue
    <3>2. CASE drain[d] = s
      <4>1. /\ queue' = [queue EXCEPT ![s] = Tail(queue[s])] /\ queue[s] # <<>>
            /\ cur' = [cur EXCEPT ![d] = InHand(Head(queue[s]), snap[s])]
        BY <2>8, <3>2 DEF DrainPop
      <4>2. queue[s] \in Seq(Numbers) /\ queue'[s] = Tail(queue[s])
        BY <2>2, <4>1 DEF IInv, TypeOK, ShardType, Numbers
      <4>3. n = Head(queue[s]) \/ n \in Range(queue'[s])
        BY <2>1, <4>1, <4>2, TakenOnce
      <4>4. id \in snap[s]
        BY <2>1 DEF IInv, BookkeepingExact
      <4>5. cur'[d] = InHand(Head(queue[s]), snap[s])
        BY <4>1 DEF IInv, TypeOK, DrainerType
      <4>6. n = Head(queue[s]) => Handed(id, n)'
        BY <4>4, <4>5 DEF Handed, InHand
      <4> QED BY <4>3, <4>6 DEF Touched, Sent
    <3> QED BY <3>1, <3>2
  <2> HIDE DEF s
  <2> QED
    BY <2>1, <2>6, <2>7, <2>8, WhoTouchesQueues DEF Accounted, s
<1> QED BY <1>1, <1>2 DEF Accounted

-----------------------------------------------------------------------------
(* The invariant *)

(* A publish pushes to every bucket with a member, also when nonEmptyShards
   tells it to stop at the first it finds. *)
LEMMA TargetsAreAll ==
    ASSUME IInv
    PROVE  TargetSlots = NonEmptySlots
<1>1. CASE nonEmptyShards = 1
  <2>1. PICK j : NonEmptySlots = {j}
    BY <1>1, Table, FS_Singleton DEF IInv, BookkeepingExact
  <2>2. Lowest(NonEmptySlots) \in NonEmptySlots
    <3>1. NonEmptySlots \subseteq Nat
      BY TargetsInRange, BoundsAssumption DEF IInv, Slots
    <3> QED BY <2>1, <3>1, LeastExists
  <2> QED BY <1>1, <2>1, <2>2 DEF TargetSlots
<1>2. CASE nonEmptyShards # 1
  BY <1>2 DEF TargetSlots
<1> QED BY <1>1, <1>2

(* A message becomes accepted when its publisher lets go of pubMtx, and by no
   other step. *)
LEMMA AcceptedBy ==
    ASSUME IInv, [Next]_vars
    PROVE  /\ Accepted \in 0 .. MaxSeq \/ Accepted = -1
           /\ \/ Accepted' = Accepted
              \/ \E p \in Publishers : /\ PublishCommit(p) /\ Accepted = seq - 1 /\ Accepted' = seq
                                       /\ seq \in Numbers
<1>1. seq \in 0 .. MaxSeq /\ pubOwner \in Publishers \cup {Nobody}
  BY DEF IInv, TypeOK, NumberType
<1>2. ASSUME NEW p \in Publishers, PublishLock(p)
      PROVE  Accepted' = Accepted
  BY <1>1, <1>2, ThreadsAssumption DEF PublishLock, Accepted
<1>3. ASSUME NEW p \in Publishers, PublishBuildThrows(p)
      PROVE  Accepted' = Accepted
  <2>1. pubOwner = p /\ p # Nobody /\ pubOwner' = Nobody /\ seq' = seq - 1
    BY <1>3, ThreadsAssumption DEF IInv, Locks, PublishBuildThrows
  <2> QED BY <2>1 DEF Accepted
<1>4. ASSUME NEW p \in Publishers, PublishCommit(p)
      PROVE  Accepted = seq - 1 /\ Accepted' = seq /\ seq \in Numbers
  <2>1. pubOwner = p /\ p # Nobody /\ pubOwner' = Nobody /\ seq' = seq
    BY <1>4, ThreadsAssumption DEF IInv, Locks, PublishCommit
  <2>2. seq \in Numbers
    BY <1>4, SeqWhileBuilding DEF IInv, PublishCommit, Numbers
  <2> QED BY <2>1, <2>2 DEF Accepted
<1>5. ASSUME NEW id \in SubIds, Unsubscribe(id)
      PROVE  Accepted' = Accepted
  BY <1>5 DEF Unsubscribe, Accepted
<1>6. ASSUME UNCHANGED numberVars
      PROVE  Accepted' = Accepted
  BY <1>6 DEF numberVars, Accepted
<1>7. Accepted \in 0 .. MaxSeq \/ Accepted = -1
  BY <1>1, BoundsAssumption DEF Accepted
<1> QED
  BY <1>2, <1>3, <1>4, <1>5, <1>6, <1>7, WhoTouchesNumbers

(* Whoever is a member after a step was one before, owed the same messages, or
   has just joined and is owed none yet. *)
LEMMA MembersStep ==
    ASSUME IInv, [Next]_vars, NEW id \in Members'
    PROVE  \/ id \in Members /\ joinedAt'[id] = joinedAt[id]
           \/ joinedAt'[id] = Accepted /\ Accepted' = Accepted
<1>1. ASSUME SubscribeJoin \/ SubscribeReshape
      PROVE  \/ id \in Members /\ joinedAt'[id] = joinedAt[id]
             \/ joinedAt'[id] = Accepted /\ Accepted' = Accepted
  <2> DEFINE new == nextSubId + 1
  <2>1. /\ joinedAt' = [joinedAt EXCEPT ![new] = seq] /\ new \in SubIds
        /\ pubOwner = Nobody /\ UNCHANGED <<pubOwner, seq>>
    <3>1. MaySubscribe /\ UNCHANGED <<pubOwner, seq>>
      BY <1>1 DEF SubscribeJoin, SubscribeReshape
    <3>2. joinedAt' = [joinedAt EXCEPT ![new] = seq]
      BY <1>1 DEF SubscribeJoin, SubscribeReshape
    <3>3. new \in SubIds
      BY <3>1, BoundsAssumption DEF MaySubscribe, IInv, TypeOK, MemberType, SubIds
    <3> QED BY <3>1, <3>2, <3>3 DEF MaySubscribe
  <2>2. joinedAt'[new] = Accepted /\ Accepted' = Accepted
    BY <2>1 DEF IInv, TypeOK, MemberType, Accepted
  <2>3. id \in Members \cup {new}
    <3>1. PICK i \in DOMAIN dist' : id \in dist'[i]
      BY DEF Members
    <3>2. CASE SubscribeJoin
      BY <3>1, <3>2 DEF SubscribeJoin, IInv, TypeOK, MemberType, Members
    <3>3. CASE SubscribeReshape
      BY <3>1, <3>3 DEF SubscribeReshape, Reshape
    <3> QED BY <1>1, <3>2, <3>3
  <2>4. id # new => joinedAt'[id] = joinedAt[id]
    BY <2>1 DEF IInv, TypeOK, MemberType
  <2> HIDE DEF new
  <2> QED BY <2>2, <2>3, <2>4
<1>2. ASSUME NEW x \in SubIds, Unsubscribe(x)
      PROVE  id \in Members /\ joinedAt'[id] = joinedAt[id]
  BY <1>2 DEF Unsubscribe, Members, IInv, TypeOK, MemberType
<1>3. ASSUME UNCHANGED memberVars
      PROVE  id \in Members /\ joinedAt'[id] = joinedAt[id]
  BY <1>3 DEF memberVars, Members
<1> QED BY <1>1, <1>2, <1>3, WhoTouchesMembers

(* What was accepted is accounted for, and what has just been was pushed to
   every bucket. *)
LEMMA AcceptedStep ==
    ASSUME IInv, ClaimInv, OrderInv, OneShardInv, NFInv, [Next]_vars,
           MaxShards = 1 \/ IdleShardIsEmpty
    PROVE  AcceptedInv'
<1> SUFFICES ASSUME NEW id \in Members', NEW n \in (joinedAt'[id] + 1) .. Accepted'
             PROVE  Accounted(id, n)'
  BY DEF AcceptedInv
<1>0. /\ Accepted \in Int /\ Accepted' \in Int /\ IInv'
      /\ Accepted' = Accepted \/ \E p \in Publishers :
             PublishCommit(p) /\ Accepted = seq - 1 /\ Accepted' = seq /\ seq \in Numbers
  BY AcceptedBy, StepInvariant DEF Numbers
<1>1. joinedAt'[id] \in Nat /\ n \in Nat /\ n > joinedAt'[id] /\ n <= Accepted'
  <2>1. Members' \subseteq SubIds
    BY <1>0 DEF IInv, TypeOK, MemberType, Members
  <2>2. joinedAt'[id] \in Nat
    BY <1>0, <2>1, BoundsAssumption DEF IInv, TypeOK, MemberType
  <2> QED BY <1>0, <2>2
<1>2. n \in Numbers
  <2>1. Accepted' <= MaxSeq
    <3>1. seq' \in 0 .. MaxSeq
      BY <1>0 DEF IInv, TypeOK, NumberType
    <3>2. Accepted' = seq' \/ Accepted' = seq' - 1
      BY DEF Accepted
    <3> QED BY <3>1, <3>2, BoundsAssumption
  <2> QED BY <1>0, <1>1, <2>1, BoundsAssumption DEF Numbers
<1>3. id \in Members /\ joinedAt'[id] = joinedAt[id]
  <2>1. ~(joinedAt'[id] = Accepted /\ Accepted' = Accepted)
    BY <1>0, <1>1
  <2> QED BY <2>1, MembersStep
<1>4. CASE n <= Accepted
  <2>1. n \in (joinedAt[id] + 1) .. Accepted
    BY <1>0, <1>1, <1>3, <1>4
  <2>2. Accounted(id, n)
    BY <1>3, <2>1 DEF NFInv, AcceptedInv
  <2> QED BY <1>2, <1>3, <2>2, AccountedStays
<1>5. CASE ~(n <= Accepted)
  <2>1. PICK p \in Publishers :
            PublishCommit(p) /\ Accepted = seq - 1 /\ Accepted' = seq /\ seq \in Numbers
    BY <1>0, <1>1, <1>5
  <2>2. n = seq
    BY <1>1, <1>5, <2>1 DEF Numbers
  <2>3. PICK i \in DOMAIN dist : id \in dist[i]
    BY <1>3 DEF Members
  <2>4. Accounted(id, seq)
    BY <2>1, <2>3 DEF PublishCommit, NFInv, PushedInv
  <2> QED BY <1>2, <1>3, <2>2, <2>4, AccountedStays
<1> QED BY <1>4, <1>5

(* Only the publisher that owns pubMtx pushes, and nobody else's step changes
   what it has still to do, its number or the buckets. *)
LEMMA WhilePushing ==
    ASSUME IInv, [Next]_vars, NEW p \in Publishers, pc'[p] \in {"build", "push"}
    PROVE  \/ PublishLock(p)
           \/ /\ pc[p] \in {"build", "push"} /\ UNCHANGED <<seq, dist>>
              /\ PublishPush(p) \/ todo'[p] = todo[p]
<1>1. Locks /\ Locks' /\ pubOwner' = p /\ p # Nobody
  BY StepInvariant, ThreadsAssumption DEF IInv, Locks
<1>2. CASE pubOwner # p
  <2>1. ~UNCHANGED pubOwner
    BY <1>1, <1>2
  <2>2. \A x \in SubIds : Unsubscribe(x) => UNCHANGED pubOwner
    BY DEF Unsubscribe
  <2>3. PICK q \in Publishers : PublishLock(q) \/ PublishBuildThrows(q) \/ PublishCommit(q)
    BY <2>1, <2>2, WhoTouchesNumbers DEF numberVars
  <2> QED BY <1>1, <2>3 DEF PublishLock, PublishBuildThrows, PublishCommit
<1>3. CASE pubOwner = p
  <2>1. pc[p] \in {"build", "push"} /\ pubOwner # Nobody /\ UNCHANGED pubOwner
    BY <1>1, <1>3 DEF Locks
  <2>2. /\ ~SubscribeJoin /\ ~SubscribeReshape /\ \A x \in SubIds : ~Unsubscribe(x)
        /\ \A q \in Publishers : ~PublishLock(q) /\ ~PublishRefused(q)
    BY <2>1 DEF SubscribeJoin, SubscribeReshape, MaySubscribe, Unsubscribe, PublishLock,
                PublishRefused
  <2>3. \A q \in Publishers : ~PublishBuildThrows(q) /\ ~PublishCommit(q)
    BY <1>1 DEF PublishBuildThrows, PublishCommit
  <2>4. UNCHANGED <<seq, dist>>
    BY <2>2, <2>3, WhoTouchesNumbers, WhoTouchesMembers DEF numberVars, memberVars
  <2>5. \A q \in Publishers : PublishPush(q) => q = p
    BY <1>1, <1>3 DEF PublishPush, Locks
  <2>6. \A q \in Publishers : PublishEnter(q) \/ InlineDrainNext(q) \/ PublishReturn(q)
                              => UNCHANGED todo
    BY DEF PublishEnter, InlineDrainNext, PublishReturn
  <2>7. PublishPush(p) \/ todo' = todo
    BY <2>2, <2>3, <2>5, <2>6, WhoTouchesPublishers
  <2> QED BY <2>1, <2>4, <2>7
<1> QED BY <1>2, <1>3

(* The message being published is accounted for wherever it has been pushed. *)
LEMMA PushedStep ==
    ASSUME IInv, ClaimInv, OrderInv, OneShardInv, NFInv, [Next]_vars,
           MaxShards = 1 \/ IdleShardIsEmpty
    PROVE  PushedInv'
<1> SUFFICES ASSUME NEW p \in Publishers, pc'[p] \in {"build", "push"},
                    NEW i \in DOMAIN dist', i \notin todo'[p], NEW id \in dist'[i]
             PROVE  Accounted(id, seq)'
  BY DEF PushedInv
<1>1. CASE PublishLock(p)
  <2>1. UNCHANGED dist /\ todo'[p] = TargetSlots
    BY <1>1 DEF PublishLock, IInv, TypeOK, PublisherType
  <2>2. i \in NonEmptySlots
    BY <2>1 DEF NonEmptySlots
  <2> QED BY <2>1, <2>2, TargetsAreAll
<1>2. ASSUME pc[p] \in {"build", "push"}, UNCHANGED <<seq, dist>>
      PROVE  seq \in Numbers /\ (i \notin todo[p] => Accounted(id, seq)')
  <2>1. seq \in Numbers
    BY <1>2, SeqWhileBuilding DEF IInv, Numbers
  <2>2. id \in Members /\ id \in Members' /\ id \in dist[i] /\ i \in DOMAIN dist
    BY <1>2 DEF Members
  <2>3. i \notin todo[p] => Accounted(id, seq)
    BY <1>2, <2>2 DEF NFInv, PushedInv
  <2>4. ASSUME Accounted(id, seq)
        PROVE  Accounted(id, seq)'
    <3>1. \A n \in Numbers : Accounted(id, n) => Accounted(id, n)'
      BY <2>2, AccountedStays
    <3>2. PICK n \in Numbers : n = seq
      BY <2>1
    <3>3. Accounted(id, n)'
      BY <2>4, <3>1, <3>2
    <3>4. seq' = n
      BY <1>2, <3>2
    <3> QED BY <3>3, <3>4 DEF Accounted, Touched, Sent, Reached, Queued, Handed, Waiting
  <2> QED BY <2>1, <2>3, <2>4
<1>3. ASSUME pc[p] \in {"build", "push"}, UNCHANGED <<seq, dist>>, PublishPush(p)
      PROVE  Accounted(id, seq)'
  <2>1. CASE i = Lowest(todo[p])
    <3>1. /\ queue[Shard(i)] \in Seq(Numbers) /\ seq \in Numbers
          /\ queue'[Shard(i)] = Append(queue[Shard(i)], seq)
      BY <1>3, <2>1, PushFacts DEF OrderInv
    <3>2. seq \in Range(queue'[Shard(i)])
      BY <3>1, AppendedOnce
    <3>3. UNCHANGED epoch
      BY <1>3 DEF PublishPush
    <3> QED BY <1>3, <3>2, <3>3 DEF Accounted, Waiting, Shard
  <2>2. CASE i # Lowest(todo[p])
    <3>1. i \notin todo[p]
      BY <1>3, <2>2 DEF PublishPush, IInv, TypeOK, PublisherType
    <3> QED BY <1>2, <1>3, <3>1
  <2> QED BY <2>1, <2>2
<1> QED BY <1>1, <1>2, <1>3, WhilePushing

(* All of it in one step. *)
LEMMA NFStep ==
    ASSUME IInv, ClaimInv, OrderInv, OneShardInv, NFInv, [Next]_vars,
           MaxShards = 1 \/ IdleShardIsEmpty
    PROVE  NFInv'
  BY AcceptedStep, PushedStep DEF NFInv

(* An empty room owes nothing. *)
LEMMA InitNF == Init => NFInv /\ OneShardInv
<1> SUFFICES ASSUME Init PROVE NFInv /\ OneShardInv
  OBVIOUS
<1>1. DOMAIN dist = {} /\ Members = {}
  BY DEF Init, Members
<1> QED BY <1>1 DEF NFInv, AcceptedInv, PushedInv, OneShardInv

(* What is accounted for is on its way or settled. *)
LEMMA AccountedMeans == NFInv => NothingForgotten
<1>1. \A id, n : Accounted(id, n) => OnItsWay(id, n) \/ Settled(id, n)
  BY DEF Accounted, Touched, Sent, Reached, Queued, Handed, Waiting, OnItsWay, Settled
<1> QED BY <1>1 DEF NFInv, AcceptedInv, NothingForgotten

(* The invariants of the earlier modules hold together. *)
LEMMA OrderHolds == Spec => [](IInv /\ ClaimInv /\ OrderInv /\ OneShardInv)
<1>1. Init => IInv /\ ClaimInv /\ OrderInv /\ OneShardInv
  BY InitInvariant, InitClaims, InitOrder, InitNF
<1>2. IInv /\ ClaimInv /\ OrderInv /\ OneShardInv /\ [Next]_vars
      => (IInv /\ ClaimInv /\ OrderInv /\ OneShardInv)'
  BY StepInvariant, ClaimStep, ConnStep, PlaceStep, QueueStep, FreshStep, OneShardStep
  DEF OrderInv
<1> QED BY <1>1, <1>2, PTL DEF Spec

(* No step takes an exception back. *)
LEMMA FaultsRemain ==
    ASSUME IInv, [Next]_vars
    PROVE  faults' = faults \/ (faults' = faults + 1 /\ faults' # 0)
<1>1. faults \in Nat
  BY BoundsAssumption DEF IInv, TypeOK, LoopType
<1>2. ASSUME \/ \E p \in Publishers : PublishBuildThrows(p)
             \/ \E d \in Drainers : DispatchThrows(d)
      PROVE  faults' = faults + 1
  BY <1>2 DEF PublishBuildThrows, DispatchThrows
<1>3. ASSUME \/ \E id \in SubIds : GateCloses(id) \/ GateOpens(id)
             \/ \E d \in Drainers : SendDirect(d) \/ \E l \in Loops : Dispatch(d, l)
             \/ \E l \in Loops : LoopRun(l)
      PROVE  faults' = faults
  BY <1>3 DEF GateCloses, GateOpens, SendDirect, Dispatch, LoopRun
<1> QED BY <1>1, <1>2, <1>3, WhoTouchesConnections DEF connVars

(* The heart of reshapeLocked's comment: a room whose idle shards are empty
   forgets nobody.  Every message accepted since a member joined is queued in
   its bucket, in a drainer's hand, on its loop, delivered, skipped at its
   closed gate or lost to a dispatch that threw, whatever the threads do and
   however the members are dealt out anew. *)
THEOREM EmptyIdleShardsForgetNothing == Spec /\ []IdleShardIsEmpty => []NothingForgotten
<1> DEFINE All == IInv /\ ClaimInv /\ OrderInv /\ OneShardInv
<1>1. Init => NFInv
  BY InitNF
<1>2. All /\ IdleShardIsEmpty /\ NFInv /\ [Next]_vars => NFInv'
  BY NFStep
<1>3. Spec => []All
  BY OrderHolds
<1>4. NFInv => NothingForgotten
  BY AccountedMeans
<1> HIDE DEF All
<1> QED BY <1>1, <1>2, <1>3, <1>4, PTL DEF Spec

(* Hence nothing is forgotten before the first exception, and nothing ever in
   the default configuration, which has one shard: no accepted message reaches
   only some of the shards, and re-dealing the members loses none. *)
THEOREM NothingIsForgotten ==
    Spec => []((faults = 0 \/ MaxShards = 1) => NothingForgotten)
<1> DEFINE All == IInv /\ ClaimInv /\ OrderInv /\ OneShardInv
           Sound == faults = 0 \/ MaxShards = 1
           Inv == IdleInv /\ (Sound => NFInv)
<1>1. Init => Inv
  BY InitNF DEF Init, IdleInv
<1>2. All /\ Inv /\ [Next]_vars => Inv'
  <2> SUFFICES ASSUME All, Inv, [Next]_vars PROVE Inv'
    OBVIOUS
  <2>1. IdleInv'
    BY IdleStep
  <2>2. ASSUME Sound'
        PROVE  NFInv'
    <3>1. MaxShards = 1 \/ faults = 0
      BY <2>2, FaultsRemain
    <3>2. MaxShards = 1 \/ IdleShardIsEmpty
      BY <3>1 DEF IdleInv, IdleShardIsEmpty
    <3> QED BY <3>1, <3>2, NFStep
  <2> QED BY <2>1, <2>2
<1>3. Spec => []All
  BY OrderHolds
<1>4. Inv => (Sound => NothingForgotten)
  BY AccountedMeans
<1> HIDE DEF All, Inv
<1>5. Spec => [](Sound => NothingForgotten)
  BY <1>1, <1>2, <1>3, <1>4, PTL DEF Spec
<1> QED BY <1>5

-----------------------------------------------------------------------------
(* The abstract room *)

\* Until an exception: no id is served before it is given out, and once a
\* message has been handed out for a member so have all since it joined.
FreshIds == \A id \in SubIds, n \in Numbers : Sent(id, n) => id <= nextSubId
Gapless ==
    \A id \in SubIds, n, m \in Numbers :
        Sent(id, n) /\ joinedAt[id] < m /\ m < n => Sent(id, m)
RefInv == lost = {} /\ FreshIds /\ Gapless

(* An id that is served is in the snapshot, hence in the table. *)
LEMMA ServedIsMember ==
    ASSUME IInv, ClaimInv, OrderInv, NEW d \in Drainers, DrainPop(d),
           NEW id \in snap[drain[d]]
    PROVE  /\ id \in Members /\ id \in SubIds /\ id <= nextSubId
           /\ \A n \in Numbers : Waiting(id, n) => n = Head(queue[drain[d]])
                                                   \/ Head(queue[drain[d]]) < n
<1>1. PICK i \in Slots : /\ drain[d] = Shard(i) /\ i \in DOMAIN dist
                         /\ \A x \in snap[drain[d]] : x \in SubIds /\ AtHome(x, i)
  BY PopFacts DEF DrainPop, OrderInv
<1>2. id \in dist[i]
  BY <1>1 DEF IInv, BookkeepingExact
<1>3. id \in Members /\ id \in SubIds
  BY <1>1, <1>2 DEF Members
<1>4. id <= nextSubId
  BY <1>3 DEF IInv, Numbering, TypeOK, MemberType
<1>5. ASSUME NEW n \in Numbers, Waiting(id, n)
      PROVE  n = Head(queue[drain[d]]) \/ Head(queue[drain[d]]) < n
  <2>1. PICK j \in DOMAIN dist : id \in dist[j] /\ n \in Range(queue[Shard(j)])
    BY <1>5 DEF Waiting
  <2>2. j = i
    BY <1>1, <1>2, <2>1 DEF IInv, BookkeepingExact
  <2>3. /\ queue[drain[d]] \in Seq(Numbers) /\ queue[drain[d]] # <<>>
        /\ queue'[drain[d]] = Tail(queue[drain[d]])
        /\ \A m \in Range(queue'[drain[d]]) : Head(queue[drain[d]]) < m
    BY <1>1, CurrentShardsAreShards, PopQueue DEF DrainPop, OrderInv, IInv, TypeOK, ShardType, Numbers
  <2> QED BY <1>1, <2>1, <2>2, <2>3, TakenOnce
<1> QED BY <1>3, <1>4, <1>5

(* Without exceptions every step keeps what is handed out free of gaps: the
   head of a queue is handed out only when all before it have been. *)
LEMMA RefStep ==
    ASSUME IInv, ClaimInv, OrderInv, NFInv, RefInv, [Next]_vars, faults = 0, faults' = 0
    PROVE  RefInv'
<1>1. lost' = {}
  <2>1. \A d \in Drainers : ~DispatchThrows(d)
    BY DEF DispatchThrows
  <2> QED BY <2>1, LostGrows DEF RefInv
<1>2. nextSubId' = nextSubId \/ nextSubId' = nextSubId + 1
  BY WhoTouchesMembers DEF SubscribeJoin, SubscribeReshape, Unsubscribe, memberVars
<1>3. nextSubId \in Nat /\ nextSubId' \in Nat
  BY <1>2 DEF IInv, TypeOK, MemberType
<1>4. ASSUME NEW id \in SubIds, NEW n \in Numbers, Sent(id, n)'
      PROVE  id <= nextSubId /\ id <= nextSubId'
  <2>1. CASE Sent(id, n)
    BY <1>2, <1>3, <2>1 DEF RefInv, FreshIds, SubIds
  <2>2. ASSUME NEW d \in Drainers, DrainPop(d), id \in snap[drain[d]]
        PROVE  id <= nextSubId
    BY <2>2, ServedIsMember
  <2>3. id <= nextSubId
    BY <1>4, <2>1, <2>2, SentStep
  <2> QED BY <1>2, <1>3, <2>3 DEF SubIds
<1>5. ASSUME NEW id \in SubIds, NEW n \in Numbers, NEW m \in Numbers,
             Sent(id, n)', joinedAt'[id] < m, m < n
      PROVE  Sent(id, m)'
  <2>1. joinedAt'[id] = joinedAt[id]
    <3>1. id # nextSubId + 1
      BY <1>3, <1>4, <1>5 DEF SubIds
    <3>2. \/ UNCHANGED joinedAt
          \/ joinedAt' = [joinedAt EXCEPT ![nextSubId + 1] = seq]
      BY WhoTouchesMembers DEF SubscribeJoin, SubscribeReshape, Unsubscribe, memberVars
    <3> QED BY <3>1, <3>2 DEF IInv, TypeOK, MemberType
  <2>2. Sent(id, m) => Sent(id, m)'
    BY <1>1, TouchedStays DEF OrderInv, Touched
  <2>3. CASE Sent(id, n)
    BY <1>5, <2>1, <2>2, <2>3 DEF RefInv, Gapless
  <2>4. ASSUME NEW d \in Drainers, DrainPop(d), id \in snap[drain[d]],
               n = Head(queue[drain[d]])
        PROVE  Sent(id, m)
    <3>1. id \in Members /\ \A k \in Numbers : Waiting(id, k) => k = n \/ n < k
      BY <2>4, ServedIsMember
    <3>2. n <= seq
      <4>1. drain[d] \in ShardIds /\ n \in Range(queue[drain[d]])
        BY <2>4, PopQueue DEF OrderInv
      <4> QED BY <4>1 DEF OrderInv, FreshInv, NumberedUpTo
    <3>3. m \in (joinedAt[id] + 1) .. Accepted
      <4>1. seq \in Nat /\ joinedAt[id] \in Nat
        BY BoundsAssumption DEF IInv, TypeOK, NumberType, MemberType
      <4>2. Accepted \in Int /\ Accepted >= seq - 1
        BY <4>1 DEF Accepted
      <4> QED BY <1>5, <2>1, <3>2, <4>1, <4>2 DEF Numbers
    <3>4. Accounted(id, m)
      BY <3>1, <3>3 DEF NFInv, AcceptedInv
    <3>5. ~Waiting(id, m)
      BY <1>5, <3>1 DEF Numbers
    <3> QED BY <3>4, <3>5 DEF Accounted, Touched, RefInv
  <2> QED BY <1>5, <2>2, <2>3, <2>4, SentStep
<1> QED BY <1>1, <1>4, <1>5 DEF RefInv, FreshIds, Gapless

(* The largest of some numbers, 0 if there are none. *)
Largest(ns) == IF ns = {} THEN 0 ELSE CHOOSE n \in ns : \A m \in ns : m <= n
LEMMA LargestIs ==
    ASSUME NEW ns \in SUBSET Numbers
    PROVE  /\ Largest(ns) \in 0 .. MaxSeq /\ (Largest(ns) # 0 => Largest(ns) \in ns)
           /\ \A m \in ns : m <= Largest(ns)
<1>0. MaxSeq \in Nat
  BY BoundsAssumption
<1>1. CASE ns = {}
  BY <1>0, <1>1 DEF Largest
<1>2. CASE ns # {}
  <2> DEFINE gaps == {MaxSeq - n : n \in ns}
  <2>1. gaps \in SUBSET Nat /\ gaps # {}
    <3>1. \A n \in ns : MaxSeq - n \in Nat
      <4>1. \A n \in ns : n \in 1 .. MaxSeq
        BY DEF Numbers
      <4> QED BY ONLY <4>1, <1>0
    <3>2. gaps \in SUBSET Nat
      BY ONLY <3>1
    <3>3. PICK n \in ns : TRUE
      BY ONLY <1>2
    <3>4. MaxSeq - n \in gaps
      BY ONLY <3>3
    <3> HIDE DEF gaps
    <3> QED BY ONLY <3>2, <3>4
  <2>2. PICK g \in gaps : \A h \in gaps : g <= h
    <3> HIDE DEF gaps
    <3> QED BY <2>1, LeastExists
  <2>3. PICK n \in ns : g = MaxSeq - n
    BY <2>2
  <2>4. \A m \in ns : m <= n
    <3>1. ASSUME NEW m \in ns PROVE m <= n
      <4>1. MaxSeq - n <= MaxSeq - m
        BY <2>2, <2>3
      <4> QED BY <1>0, <4>1 DEF Numbers
    <3> QED BY <3>1
  <2>5. Largest(ns) \in ns /\ \A m \in ns : m <= Largest(ns)
    BY <1>2, <2>4 DEF Largest
  <2>6. Largest(ns) \in 1 .. MaxSeq
    BY <2>5 DEF Numbers
  <2> QED BY <1>0, <2>5, <2>6
<1> QED BY <1>1, <1>2

(* The refinement mapping sends a connection to the last number that reached
   it, before and after every step. *)
LEMMA LastSettledIs ==
    ASSUME IInv, IInv', NEW id \in SubIds
    PROVE  /\ LastSettled(id) = Largest({n \in Numbers : Reached(id, n)})
           /\ LastSettled(id)' = Largest({n \in Numbers : Reached(id, n)'})
<1>1. Range(delivered[id]) \subseteq Numbers /\ Range(delivered'[id]) \subseteq Numbers
  <2>1. delivered[id] \in Seq(Numbers) /\ delivered'[id] \in Seq(Numbers)
    BY DEF IInv, TypeOK, LoopType, Numbers
  <2> QED BY <2>1 DEF Range
<1>2. Range(delivered[id]) \cup {n \in 1 .. MaxSeq : <<id, n>> \in skipped}
        = {n \in Numbers : Reached(id, n)}
  BY <1>1 DEF Reached, Numbers
<1>3. Range(delivered'[id]) \cup {n \in 1 .. MaxSeq : <<id, n>> \in skipped'}
        = {n \in Numbers : Reached(id, n)'}
  BY <1>1 DEF Reached, Numbers
<1>4. LastSettled(id) = Largest(Range(delivered[id])
                                \cup {n \in 1 .. MaxSeq : <<id, n>> \in skipped})
  BY Zenon DEF LastSettled, Largest
<1>5. LastSettled(id)' = Largest(Range(delivered'[id])
                                 \cup {n \in 1 .. MaxSeq : <<id, n>> \in skipped'})
  BY Zenon DEF LastSettled, Largest
<1> QED BY <1>2, <1>3, <1>4, <1>5

(* subscribe adds the new id to the members, into whichever bucket. *)
LEMMA JoinMembers ==
    ASSUME IInv, SubscribeJoin \/ SubscribeReshape
    PROVE  /\ Members' = Members \cup {nextSubId + 1}
           /\ nextSubId + 1 \in SubIds \ Members
           /\ joinedAt' = [joinedAt EXCEPT ![nextSubId + 1] = seq]
           /\ UNCHANGED <<seq, delivered, skipped>>
<1> DEFINE new == nextSubId + 1
           k   == ShardsFor(subCount + 1)
<1>1. k \in Nat \ {0} /\ new \in Nat /\ subCount + 1 \in Nat /\ nextSubId \in Nat
  BY ShardsForType, BoundsAssumption DEF IInv, TypeOK, MemberType
<1>2. new \in SubIds \ Members
  <2>1. MaySubscribe
    BY DEF SubscribeJoin, SubscribeReshape
  <2>2. new \in SubIds
    BY <1>1, <2>1, BoundsAssumption DEF MaySubscribe, SubIds
  <2> QED BY <1>1, <2>2 DEF IInv, Numbering
<1>3. /\ joinedAt' = [joinedAt EXCEPT ![new] = seq]
      /\ UNCHANGED <<seq, delivered, skipped>>
  BY DEF SubscribeJoin, SubscribeReshape
<1>4. CASE SubscribeJoin
  <2>1. k = Cardinality(DOMAIN dist) /\ dist' = [dist EXCEPT ![new % k] = @ \cup {new}]
    BY <1>4 DEF SubscribeJoin
  <2>2. DOMAIN dist = 0 .. (k - 1)
    BY <2>1, Table
  <2>3. new % k \in DOMAIN dist
    BY <1>1, <2>2, Remainder
  <2> HIDE DEF new, k
  <2>4. Members' = Members \cup {new}
    BY <2>1, <2>3 DEF Members
  <2> QED BY <1>2, <1>3, <2>4 DEF new
<1>5. CASE SubscribeReshape
  <2>1. dist' = [i \in 0 .. (k - 1) |-> {m \in Members \cup {new} : m % k = i}]
    BY <1>5 DEF SubscribeReshape, Reshape
  <2>2. Members \cup {new} \subseteq Nat
    BY <1>1 DEF IInv, Numbering
  <2> HIDE DEF new, k
  <2>3. \A m \in Members \cup {new} : m % k \in 0 .. (k - 1)
    BY <1>1, <2>2, Remainder
  <2>4. Members' = Members \cup {new}
    BY <2>1, <2>3 DEF Members
  <2> QED BY <1>2, <1>3, <2>4 DEF new
<1> QED BY <1>4, <1>5

(* unsubscribe takes the id out of the members. *)
LEMMA LeaveMembers ==
    ASSUME IInv, NEW id \in SubIds, Unsubscribe(id)
    PROVE  /\ Members' = Members \ {id} /\ id \in Members
           /\ UNCHANGED <<joinedAt, seq, delivered, skipped>>
<1>1. PICK i \in DOMAIN dist : id \in dist[i] /\ dist' = [dist EXCEPT ![i] = @ \ {id}]
  BY DEF Unsubscribe
<1>2. \A j \in DOMAIN dist : id \in dist[j] => j = i
  BY <1>1 DEF IInv, BookkeepingExact
<1>3. UNCHANGED <<joinedAt, seq, delivered, skipped>>
  BY DEF Unsubscribe
<1> QED BY <1>1, <1>2, <1>3 DEF Members

(* The abstract NextFor, with what the room has for its variables. *)
MayReachNext(id, n) ==
    /\ n \in (LastSettled(id) + 1) .. seq
    /\ n <= joinedAt[id] + 1 \/ n = LastSettled(id) + 1

(* A batch whose number comes right after what its connections have is one
   that the abstract room may let reach them. *)
LEMMA ReceiveIsReach ==
    ASSUME IInv, IInv', OrderInv, RefInv,
           NEW n \in Numbers, NEW ids \in SUBSET SubIds, Receive(n, ids),
           \A id \in ids : Sent(id, n),
           \A id \in ids, m \in Numbers : Sent(id, m) /\ m < n => Reached(id, m),
           \A id \in ids, m \in Numbers : Reached(id, m) => m < n
    PROVE  \A id \in SubIds : LastSettled(id)' = LastSettled(id)
                              \/ MayReachNext(id, LastSettled(id)')
<1> SUFFICES ASSUME NEW id \in SubIds
             PROVE  LastSettled(id)' = LastSettled(id) \/ MayReachNext(id, LastSettled(id)')
  OBVIOUS
<1> DEFINE old == {m \in Numbers : Reached(id, m)}
           new == {m \in Numbers : Reached(id, m)'}
<1>1. /\ LastSettled(id) = Largest(old) /\ LastSettled(id)' = Largest(new)
      /\ old \in SUBSET Numbers /\ new \in SUBSET Numbers
  BY LastSettledIs
<1>2. CASE id \notin ids
  <2>1. old = new
    BY <1>2, ReceiveKeeps, ReceiveStages
  <2> QED BY <1>1, <2>1
<1>3. CASE id \in ids
  <2>1. new = old \cup {n} /\ \A m \in old : m < n
    BY <1>3, ReceiveKeeps, ReceiveStages
  <2> HIDE DEF old, new
  <2>2. Largest(new) = n
    <3>1. Largest(new) \in new /\ n <= Largest(new)
      <4>1. n \in new /\ \A m \in new : m <= Largest(new)
        BY <1>1, <2>1, LargestIs
      <4>2. Largest(new) # 0
        BY <1>1, <4>1, LargestIs, BoundsAssumption DEF Numbers
      <4> QED BY <1>1, <4>1, <4>2, LargestIs
    <3>2. \A m \in new : m <= n
      BY <1>1, <2>1 DEF Numbers
    <3>3. Largest(new) \in Numbers /\ Largest(new) <= n
      BY <1>1, <3>1, <3>2
    <3>4. Largest(new) \in Int /\ n \in Int
      BY <3>3, BoundsAssumption DEF Numbers
    <3> QED BY <3>1, <3>3, <3>4
  <2>3. Largest(old) \in Nat /\ Largest(old) < n
    BY <1>1, <2>1, LargestIs, BoundsAssumption DEF Numbers
  <2>4. n <= seq /\ Sent(id, n)
    BY <1>3 DEF OrderInv, FreshInv, NumberedUpTo
  <2>5. seq \in Nat /\ joinedAt[id] \in Nat
    BY BoundsAssumption DEF IInv, TypeOK, NumberType, MemberType
  <2>6. ASSUME ~(n <= joinedAt[id] + 1)
        PROVE  n = Largest(old) + 1
    <3>1. n - 1 \in Numbers /\ joinedAt[id] < n - 1 /\ n - 1 < n
      <4>1. MaxSeq \in Nat /\ n \in 1 .. MaxSeq /\ joinedAt[id] \in Nat
        BY <2>5, BoundsAssumption DEF Numbers
      <4> QED BY <2>6, <4>1 DEF Numbers
    <3>2. Sent(id, n - 1)
      BY <2>4, <3>1 DEF RefInv, Gapless
    <3>3. Reached(id, n - 1)
      BY <1>3, <3>1, <3>2
    <3>4. n - 1 \in old
      BY <3>1, <3>3 DEF old
    <3>5. n - 1 <= Largest(old)
      BY <1>1, <3>4, LargestIs
    <3> QED BY <2>3, <3>5 DEF Numbers
  <2>7. n \in (Largest(old) + 1) .. seq
    BY <2>3, <2>4, <2>5 DEF Numbers
  <2> QED BY <1>1, <2>2, <2>6, <2>7 DEF MayReachNext
<1> QED BY <1>2, <1>3

(* A loop's oldest batch is the next message for each of its connections. *)
LEMMA RunIsReach ==
    ASSUME IInv, IInv', ClaimInv, OrderInv, RefInv, NEW l \in Loops, LoopRun(l)
    PROVE  \A id \in SubIds : LastSettled(id)' = LastSettled(id)
                              \/ MayReachNext(id, LastSettled(id)')
<1> DEFINE b == Head(loopQueue[l])
<1>1. /\ b.n \in Numbers /\ b.to \in SUBSET SubIds /\ Receive(b.n, b.to)
      /\ \A id \in b.to : Queued(id, b.n)
      /\ \A id \in b.to, m \in Numbers : Queued(id, m)' => b.n < m
  BY RunStages DEF OrderInv, ConnInv
<1>2. \A id \in b.to, m \in Numbers : Queued(id, m) => Queued(id, m)' \/ m = b.n
  BY <1>1, RunKeeps
<1> HIDE DEF b
<1>3. \A id \in b.to, m \in Numbers : Reached(id, m) => m < b.n
  BY <1>1 DEF OrderInv, ConnInv, StagesInOrder
<1>4. ASSUME NEW id \in b.to, NEW m \in Numbers, Sent(id, m), m < b.n
      PROVE  Reached(id, m)
  <2>1. ~Queued(id, m)
    BY <1>1, <1>2, <1>4 DEF Numbers
  <2>2. ~Handed(id, m)
    <3>1. Handed(id, m) => b.n < m
      BY <1>1, <1>4 DEF OrderInv, ConnInv, StagesInOrder
    <3> QED BY <1>1, <1>4, <3>1 DEF Numbers
  <2> QED BY <1>4, <2>1, <2>2 DEF Sent
<1> QED BY <1>1, <1>3, <1>4, ReceiveIsReach DEF Sent

(* So is a message that is sent on the spot. *)
LEMMA DirectIsReach ==
    ASSUME IInv, IInv', ClaimInv, OrderInv, RefInv, NEW d \in Drainers, SendDirect(d)
    PROVE  \A id \in SubIds : LastSettled(id)' = LastSettled(id)
                              \/ MayReachNext(id, LastSettled(id)')
<1> DEFINE g == Group(d, NoLoop)
           n == cur[d].n
<1>1. /\ g # {} /\ Receive(n, g)
      /\ cur' = [cur EXCEPT ![d] = InHand(@.n, @.to \ Group(d, NoLoop))]
  BY DEF SendDirect
<1>2. /\ n \in Numbers /\ g \in SUBSET SubIds
      /\ \A id \in g : LoopOf[id] = NoLoop /\ Handed(id, n)
  BY <1>1, GroupStages DEF OrderInv
<1>3. \A id \in g, m \in Numbers : Reached(id, m) => m < n
  BY <1>2 DEF OrderInv, ConnInv, StagesInOrder
<1>4. ASSUME NEW id \in g, NEW m \in Numbers, Sent(id, m), m < n
      PROVE  Reached(id, m)
  <2>1. ~Queued(id, m)
    BY <1>2, ThreadsAssumption DEF Queued, OrderInv, ConnInv, LoopsInOrder
  <2>2. ~Handed(id, m)
    <3> SUFFICES ASSUME Handed(id, m) PROVE FALSE
      OBVIOUS
    <3>1. PICK e \in Drainers : cur[e].n = m /\ id \in cur[e].to
      BY DEF Handed
    <3>2. e = d
      BY <3>1, OneServes DEF OrderInv, Group
    <3> QED BY <1>2, <1>4, <3>1, <3>2 DEF Numbers
  <2> QED BY <1>4, <2>1, <2>2 DEF Sent
<1> HIDE DEF g, n
<1> QED BY <1>1, <1>2, <1>3, <1>4, ReceiveIsReach DEF Sent

(* Every step of the room is one of the abstract room's, or none. *)
LEMMA StepRefines ==
    ASSUME IInv, IInv', ClaimInv, OrderInv, RefInv, [Next]_vars, faults = 0, faults' = 0
    PROVE  [Abstract!Next]_(Abstract!vars)
<1>1. ASSUME \A id \in SubIds : LastSettled(id)' = LastSettled(id) \/ MayReachNext(id, LastSettled(id)'),
             UNCHANGED <<Members, joinedAt, seq>>
      PROVE  Abstract!Next
  <2>1. \A id \in SubIds : LastSettled(id)' \in 0 .. MaxSeq
    <3>1. \A id \in SubIds : LastSettled(id)' = Largest({n \in Numbers : Reached(id, n)'})
      BY LastSettledIs
    <3> QED BY <3>1, LargestIs
  <2>2. [id \in SubIds |-> LastSettled(id)'] \in [SubIds -> 0 .. MaxSeq]
    BY <2>1
  <2>3. Abstract!Reach
    BY <1>1, <2>2 DEF Abstract!Reach, Abstract!NextFor, MayReachNext
  <2> QED BY <2>3 DEF Abstract!Next
<1>2. ASSUME UNCHANGED <<delivered, skipped>>
      PROVE  \A id \in SubIds : LastSettled(id)' = LastSettled(id)
  <2>1. \A id \in SubIds, n \in Numbers : Reached(id, n)' <=> Reached(id, n)
    BY <1>2 DEF Reached
  <2>2. \A id \in SubIds : {n \in Numbers : Reached(id, n)'} = {n \in Numbers : Reached(id, n)}
    BY <2>1
  <2> QED BY <2>2, LastSettledIs
<1>3. CASE SubscribeJoin \/ SubscribeReshape
  <2> DEFINE new == nextSubId + 1
  <2>1. /\ Members' = Members \cup {new} /\ new \in SubIds \ Members
        /\ joinedAt' = [joinedAt EXCEPT ![new] = seq]
        /\ UNCHANGED <<seq, delivered, skipped>>
    BY <1>3, JoinMembers
  <2>2. LastSettled(new) = 0
    <3>1. nextSubId \in Nat
      BY DEF IInv, TypeOK, MemberType
    <3>2. \A n \in Numbers : ~Reached(new, n)
      BY <2>1, <3>1 DEF RefInv, FreshIds, Sent
    <3>3. {n \in Numbers : Reached(new, n)} = {}
      BY <3>2
    <3> QED BY <2>1, <3>3, LastSettledIs DEF Largest
  <2>3. \A id \in SubIds : LastSettled(id)' = LastSettled(id)
    BY <1>2, <2>1
  <2> HIDE DEF new
  <2>4. Abstract!Join(new)
    BY <2>1, <2>2, <2>3 DEF Abstract!Join
  <2> QED BY <2>1, <2>4 DEF Abstract!Next
<1>4. ASSUME NEW id \in SubIds, Unsubscribe(id)
      PROVE  Abstract!Next
  <2>1. /\ Members' = Members \ {id} /\ id \in Members
        /\ UNCHANGED <<joinedAt, seq, delivered, skipped>>
    BY <1>4, LeaveMembers
  <2>2. \A x \in SubIds : LastSettled(x)' = LastSettled(x)
    BY <1>2, <2>1
  <2>3. Abstract!Leave(id)
    BY <2>1, <2>2 DEF Abstract!Leave
  <2> QED BY <2>3 DEF Abstract!Next
<1>5. ASSUME NEW p \in Publishers, PublishLock(p), UNCHANGED <<Members, joinedAt>>
      PROVE  Abstract!Next
  <2>1. seq < MaxSeq /\ seq' = seq + 1 /\ UNCHANGED <<delivered, skipped>>
    BY <1>5 DEF PublishLock
  <2>2. \A id \in SubIds : LastSettled(id)' = LastSettled(id)
    BY <1>2, <2>1
  <2>3. Abstract!Accept
    BY <1>5, <2>1, <2>2 DEF Abstract!Accept
  <2> QED BY <2>3 DEF Abstract!Next
<1>6. ASSUME UNCHANGED <<Members, joinedAt, seq>>, UNCHANGED <<delivered, skipped>>
      PROVE  UNCHANGED Abstract!vars
  BY <1>2, <1>6 DEF Abstract!vars
<1>7. ASSUME UNCHANGED memberVars
      PROVE  UNCHANGED <<Members, joinedAt>>
  BY <1>7 DEF memberVars, Members
<1>8. ASSUME UNCHANGED memberVars
      PROVE  UNCHANGED seq \/ \E p \in Publishers : PublishLock(p)
  <2>1. \A p \in Publishers : ~PublishBuildThrows(p)
    BY DEF PublishBuildThrows
  <2>2. \A p \in Publishers : PublishCommit(p) => UNCHANGED seq
    BY DEF PublishCommit
  <2>3. \A id \in SubIds : Unsubscribe(id) => UNCHANGED seq
    BY DEF Unsubscribe
  <2> QED BY <2>1, <2>2, <2>3, WhoTouchesNumbers DEF numberVars
<1>9. CASE UNCHANGED memberVars
  <2>1. CASE UNCHANGED <<delivered, skipped>>
    BY <1>5, <1>6, <1>7, <1>8, <1>9, <2>1
  <2>2. ASSUME NEW l \in Loops, LoopRun(l)
        PROVE  Abstract!Next
    <3>1. UNCHANGED seq
      BY <2>2 DEF LoopRun
    <3> QED BY <1>1, <1>7, <1>9, <2>2, <3>1, RunIsReach
  <2>3. ASSUME NEW d \in Drainers, SendDirect(d)
        PROVE  Abstract!Next
    <3>1. UNCHANGED seq
      BY <2>3 DEF SendDirect
    <3> QED BY <1>1, <1>7, <1>9, <2>3, <3>1, DirectIsReach
  <2>4. \/ UNCHANGED <<delivered, skipped>>
        \/ \E l \in Loops : LoopRun(l)
        \/ \E d \in Drainers : SendDirect(d)
    <3>1. ASSUME NEW d \in Drainers,
                 \/ DrainPop(d) \/ DrainIdle(d) \/ DrainYield(d) \/ DispatchThrows(d)
                 \/ \E l \in Loops : Dispatch(d, l)
          PROVE  UNCHANGED <<delivered, skipped>>
      BY <3>1 DEF DrainPop, DrainIdle, DrainYield, DispatchThrows, Dispatch
    <3> QED BY <3>1, WhoTouchesStages DEF connStages
  <2> QED BY <2>1, <2>2, <2>3, <2>4
<1> QED BY <1>3, <1>4, <1>9, WhoTouchesMembers

(* An empty room is an empty abstract room. *)
LEMMA InitRefines == Init => RefInv /\ Abstract!Init
<1> SUFFICES ASSUME Init PROVE RefInv /\ Abstract!Init
  OBVIOUS
<1>1. /\ Members = {} /\ lost = {} /\ skipped = {}
      /\ joinedAt = [id \in SubIds |-> 0] /\ seq = 0
      /\ \A id \in SubIds : delivered[id] = <<>>
  BY DEF Init, Members
<1>2. \A id \in SubIds, n \in Numbers : ~Sent(id, n)
  BY DEF Init, Sent, Reached, Queued, Handed, Nothing, Range
<1>3. \A id \in SubIds : LastSettled(id) = 0
  <2>1. \A id \in SubIds : Range(delivered[id]) = {} /\ {n \in 1 .. MaxSeq : <<id, n>> \in skipped} = {}
    BY <1>1 DEF Range
  <2> QED BY <2>1 DEF LastSettled
<1> QED BY <1>1, <1>2, <1>3 DEF RefInv, FreshIds, Gapless, Abstract!Init

(* As long as nothing throws, the room with its shards, drainers and loops does
   nothing that one queue per member could not do: it implements OrderedRoom,
   members being reached in order and, of the messages accepted after they
   joined, by every one. *)
THEOREM RoomIsOrdered == Spec /\ [](faults = 0) => IsOrderedRoom
<1> DEFINE All == IInv /\ ClaimInv /\ OrderInv /\ OneShardInv
           Inv == IdleInv /\ NFInv /\ RefInv
           Quiet == faults = 0
<1>1. Init => Inv /\ Abstract!Init
  BY InitNF, InitRefines DEF Init, IdleInv
<1>2. All /\ Quiet /\ Quiet' /\ Inv /\ [Next]_vars => Inv'
  <2> SUFFICES ASSUME All, Quiet, Quiet', Inv, [Next]_vars PROVE Inv'
    OBVIOUS
  <2>1. IdleInv'
    BY IdleStep
  <2>2. IdleShardIsEmpty
    BY DEF IdleInv, IdleShardIsEmpty
  <2>3. NFInv'
    BY <2>2, NFStep
  <2>4. RefInv'
    BY RefStep
  <2> QED BY <2>1, <2>3, <2>4
<1>3. All /\ All' /\ Quiet /\ Quiet' /\ Inv /\ [Next]_vars => [Abstract!Next]_(Abstract!vars)
  BY StepRefines
<1>4. Spec => []All
  BY OrderHolds
<1> HIDE DEF All, Inv, Quiet
<1>5. Spec /\ []Quiet => Abstract!Spec
  BY <1>1, <1>2, <1>3, <1>4, PTL DEF Spec, Abstract!Spec
<1> QED BY <1>5 DEF Quiet, IsOrderedRoom

-----------------------------------------------------------------------------
(* Back-pressure *)

\* Under pubMtx a slot still to be pushed to keeps the room it was found to have.
RoomLeft ==
    \A p \in Publishers : \A i \in todo[p] : Len(queue[Shard(i)]) < BacklogPerShard
QueueBound == \A s \in ShardIds : Len(queue[s]) <= BacklogPerShard
InFlightExact == IsFiniteSet(InLoops) /\ inFlight = Cardinality(InLoops)
LoadInv == RoomLeft /\ QueueBound /\ InFlightExact

(* The check of PublishLock still holds at the push: nobody else pushes, and
   drainers only make room. *)
LEMMA RoomLeftStep ==
    ASSUME IInv, ClaimInv, OrderInv, LoadInv, [Next]_vars
    PROVE  RoomLeft' /\ QueueBound'
<1> USE DEF OrderInv
<1>0. BacklogPerShard \in Nat /\ \A s \in ShardIds : queue[s] \in Seq(Numbers)
  BY BoundsAssumption DEF IInv, TypeOK, ShardType, Numbers
<1>1. ASSUME NEW p \in Publishers, PublishPush(p)
      PROVE  LET s == Shard(Lowest(todo[p]))
             IN  /\ Len(queue'[s]) = Len(queue[s]) + 1 /\ Len(queue[s]) < BacklogPerShard
                 /\ s \in ShardIds /\ \A t \in ShardIds \ {s} : queue'[t] = queue[t]
  <2> DEFINE s == Shard(Lowest(todo[p]))
  <2>1. /\ queue[s] \in Seq(Numbers) /\ seq \in Numbers /\ queue'[s] = Append(queue[s], seq)
        /\ \A t \in ShardIds \ {s} : queue'[t] = queue[t]
        /\ Lowest(todo[p]) \in todo[p] /\ s \in ShardIds
    BY <1>1, PushFacts
  <2>2. Len(queue[s]) < BacklogPerShard
    BY <2>1 DEF LoadInv, RoomLeft
  <2> QED BY <2>1, <2>2
<1>2. ASSUME NEW d \in Drainers, DrainPop(d), NEW s \in ShardIds
      PROVE  Len(queue'[s]) <= Len(queue[s])
  <2>1. CASE s # drain[d]
    BY <1>0, <1>2, <2>1, PopQueue
  <2>2. CASE s = drain[d]
    <3>1. queue' = [queue EXCEPT ![s] = Tail(queue[s])] /\ queue[s] # <<>>
      BY <1>2, <2>2 DEF DrainPop
    <3>2. queue'[s] = Tail(queue[s])
      BY <3>1 DEF IInv, TypeOK, ShardType
    <3> QED BY <1>0, <3>1, <3>2
  <2> QED BY <2>1, <2>2
<1>3. ASSUME NEW s \in ShardIds, \A p \in Publishers : PublishPush(p) => s # Shard(Lowest(todo[p]))
      PROVE  Len(queue'[s]) <= Len(queue[s])
  BY <1>0, <1>1, <1>2, <1>3, WhoTouchesQueues
<1>4. QueueBound'
  <2>1. ASSUME NEW s \in ShardIds
        PROVE  Len(queue'[s]) <= BacklogPerShard
    <3>1. Len(queue[s]) <= BacklogPerShard /\ Len(queue[s]) \in Nat
      BY <1>0 DEF LoadInv, QueueBound
    <3>2. CASE \A p \in Publishers : PublishPush(p) => s # Shard(Lowest(todo[p]))
      <4>1. Len(queue'[s]) <= Len(queue[s]) /\ Len(queue'[s]) \in Nat
        <5>1. queue'[s] \in Seq(Numbers)
          BY StepInvariant DEF IInv, TypeOK, ShardType, Numbers
        <5> QED BY <1>3, <3>2, <5>1
      <4> QED BY <1>0, <3>1, <4>1
    <3>3. CASE \E p \in Publishers : PublishPush(p) /\ s = Shard(Lowest(todo[p]))
      BY <1>0, <1>1, <3>1, <3>3
    <3> QED BY <3>2, <3>3
  <2> QED BY <2>1 DEF QueueBound
<1>5. ASSUME NEW p \in Publishers, NEW i \in todo'[p]
      PROVE  Len(queue'[Shard(i)']) < BacklogPerShard
  <2>1. pc'[p] \in {"build", "push"}
    BY <1>5, FreshStep DEF FreshInv
  <2>2. CASE PublishLock(p)
    <3>1. i \in TargetSlots /\ ~SomeTargetFull /\ UNCHANGED <<queue, epoch>>
      BY <1>5, <2>2 DEF PublishLock, IInv, TypeOK, PublisherType
    <3>2. i \in Slots
      BY <3>1, TargetsInRange DEF IInv
    <3>3. Len(queue[Shard(i)]) \in Nat
      BY <1>0, <3>2, CurrentShardsAreShards DEF IInv
    <3> QED BY <1>0, <3>1, <3>3 DEF SomeTargetFull, Shard
  <2>3. ASSUME pc[p] \in {"build", "push"}, PublishPush(p) \/ todo'[p] = todo[p]
        PROVE  Len(queue'[Shard(i)']) < BacklogPerShard
    <3>1. pubOwner = p /\ p # Nobody
      BY <2>3, ThreadsAssumption DEF IInv, Locks
    <3>2. epoch' = epoch
      BY <3>1, SameHomes DEF SubscribeReshape, MaySubscribe
    <3>3. i \in todo[p] /\ (PublishPush(p) => i # Lowest(todo[p]))
      BY <1>5, <2>3 DEF PublishPush, IInv, TypeOK, PublisherType
    <3>4. \A q \in Publishers : PublishPush(q) => q = p
      BY <3>1 DEF PublishPush, IInv, Locks
    <3>5. i \in Slots /\ Shard(i) \in ShardIds
      BY <3>3, CurrentShardsAreShards DEF IInv, TypeOK, PublisherType
    <3>6. \A q \in Publishers : PublishPush(q) => Shard(i) # Shard(Lowest(todo[q]))
      BY <3>3, <3>4 DEF Shard
    <3>7. Len(queue'[Shard(i)]) <= Len(queue[Shard(i)]) /\ Len(queue[Shard(i)]) < BacklogPerShard
      BY <1>3, <3>3, <3>5, <3>6 DEF LoadInv, RoomLeft
    <3>8. Len(queue[Shard(i)]) \in Nat /\ Len(queue'[Shard(i)]) \in Nat
      <4>1. queue'[Shard(i)] \in Seq(Numbers)
        BY <3>5, StepInvariant DEF IInv, TypeOK, ShardType, Numbers
      <4> QED BY <1>0, <3>5, <4>1
    <3> QED BY <1>0, <3>2, <3>7, <3>8 DEF Shard
  <2> QED BY <2>1, <2>2, <2>3, WhilePushing
<1> QED BY <1>4, <1>5 DEF RoomLeft

(* What is in flight, one triple for each connection of each batch. *)
LEMMA InLoopsAre ==
    \A x : x \in InLoops <=> \E l \in Loops : \E i \in DOMAIN loopQueue[l] :
                                \E id \in loopQueue[l][i].to : x = <<l, i, id>>
  BY DEF InLoops

(* The set after a step, spelt out for the cited queues. *)
LEMMA InLoopsWillBe ==
    \A x : x \in InLoops' <=> \E l \in Loops : \E i \in DOMAIN loopQueue'[l] :
                                 \E id \in loopQueue'[l][i].to : x = <<l, i, id>>
  BY DEF InLoops

(* A batch counts as many as it has connections. *)
Batch(l, k, ids) == {<<l, k, id>> : id \in ids}
LEMMA BatchCount ==
    ASSUME NEW l, NEW k, NEW ids \in SUBSET SubIds
    PROVE  /\ IsFiniteSet(Batch(l, k, ids)) /\ Cardinality(Batch(l, k, ids)) = Cardinality(ids)
           /\ Cardinality(ids) \in Nat
<1> DEFINE f == [id \in ids |-> <<l, k, id>>]
<1>1. IsFiniteSet(ids) /\ Cardinality(ids) \in Nat
  <2>1. IsFiniteSet(ids)
    BY WithinInterval, BoundsAssumption DEF SubIds
  <2> QED BY <2>1, FS_CardinalityType
<1>2. f \in Bijection(ids, Batch(l, k, ids))
  <2>1. /\ f \in [ids -> Batch(l, k, ids)]
        /\ \A a, b \in ids : f[a] = f[b] => a = b
        /\ \A t \in Batch(l, k, ids) : \E a \in ids : f[a] = t
    BY DEF Batch
  <2> HIDE DEF f
  <2> QED BY <2>1 DEF Bijection, Injection, Surjection, IsInjective
<1> QED BY <1>1, <1>2, FS_Bijection DEF ExistsBijection

(* A dispatch adds to the count what it adds to the loop. *)
LEMMA DispatchCounts ==
    ASSUME IInv, InFlightExact, NEW d \in Drainers, NEW l \in Loops, Dispatch(d, l)
    PROVE  InFlightExact'
<1> DEFINE b == [n |-> cur[d].n, to |-> Group(d, l)]
           len == Len(loopQueue[l])
           new == Batch(l, len + 1, Group(d, l))
<1>1. /\ loopQueue' = [loopQueue EXCEPT ![l] = Append(@, b)]
      /\ inFlight' = inFlight + Cardinality(Group(d, l))
      /\ b.to = Group(d, l) /\ Group(d, l) # {}
  BY DEF Dispatch
<1>2. Group(d, l) \in SUBSET SubIds
  BY <1>1, GroupType DEF IInv
<1> HIDE DEF b
<1>3. /\ loopQueue \in [Loops -> Seq(Batches)]
      /\ \A k \in Loops \ {l} : loopQueue'[k] = loopQueue[k]
      /\ loopQueue'[l] = Append(loopQueue[l], b)
  BY <1>1 DEF IInv, TypeOK, LoopType
<1>4. /\ loopQueue[l] \in Seq(Batches) /\ len \in Nat
      /\ DOMAIN loopQueue'[l] = 1 .. (len + 1)
      /\ DOMAIN loopQueue[l] = 1 .. len
      /\ \A i \in 1 .. len : loopQueue'[l][i] = loopQueue[l][i]
      /\ loopQueue'[l][len + 1] = b
  BY <1>3
<1> HIDE DEF len
<1>5. IsFiniteSet(new) /\ Cardinality(new) = Cardinality(Group(d, l))
  BY <1>2, BatchCount
<1>6. new \cap InLoops = {}
  <2>1. \A i \in DOMAIN loopQueue[l] : i # len + 1
    BY <1>4
  <2> QED BY <2>1, InLoopsAre DEF Batch
<1>7. InLoops' = InLoops \cup new
  <2>1. ASSUME NEW x \in InLoops'
        PROVE  x \in InLoops \cup new
    <3>0. PICK k \in Loops : \E i \in DOMAIN loopQueue'[k] :
              \E id \in loopQueue'[k][i].to : x = <<k, i, id>>
      BY InLoopsWillBe
    <3>1. PICK i \in DOMAIN loopQueue'[k] : \E id \in loopQueue'[k][i].to : x = <<k, i, id>>
      BY <3>0
    <3>2. CASE k # l
      BY <1>3, <3>1, <3>2, InLoopsAre
    <3>3. CASE k = l /\ i \in 1 .. len
      BY <1>4, <3>1, <3>3, InLoopsAre
    <3>4. CASE k = l /\ i = len + 1
      BY <1>1, <1>4, <3>1, <3>4 DEF Batch
    <3> QED BY <1>4, <3>1, <3>2, <3>3, <3>4
  <2>2. ASSUME NEW x \in InLoops
        PROVE  x \in InLoops'
    <3>0. PICK k \in Loops : \E i \in DOMAIN loopQueue[k] :
              \E id \in loopQueue[k][i].to : x = <<k, i, id>>
      BY InLoopsAre
    <3>1. PICK i \in DOMAIN loopQueue[k] : \E id \in loopQueue[k][i].to : x = <<k, i, id>>
      BY <3>0
    <3>2. i \in DOMAIN loopQueue'[k] /\ loopQueue'[k][i] = loopQueue[k][i]
      <4>1. CASE k # l
        BY <1>3, <4>1
      <4>2. CASE k = l
        BY <1>4, <4>2
      <4> QED BY <4>1, <4>2
    <3> QED BY <3>1, <3>2, InLoopsWillBe
  <2>3. ASSUME NEW x \in new
        PROVE  x \in InLoops'
    <3>1. len + 1 \in DOMAIN loopQueue'[l] /\ loopQueue'[l][len + 1].to = Group(d, l)
      BY <1>1, <1>4
    <3> QED BY <3>1, InLoopsWillBe DEF Batch
  <2> QED BY <2>1, <2>2, <2>3
<1> HIDE DEF new
<1>8. /\ IsFiniteSet(InLoops \cup new)
      /\ Cardinality(InLoops \cup new) = Cardinality(InLoops) + Cardinality(new)
  <2>1. InLoops \cap new = {}
    BY <1>6
  <2>2. Cardinality(InLoops \cap new) = 0
    BY <2>1, FS_EmptySet
  <2>3. Cardinality(InLoops) \in Nat /\ Cardinality(new) \in Nat
    BY <1>5, FS_CardinalityType DEF InFlightExact
  <2>4. /\ IsFiniteSet(InLoops \cup new)
        /\ Cardinality(InLoops \cup new)
             = Cardinality(InLoops) + Cardinality(new) - Cardinality(InLoops \cap new)
    BY <1>5, FS_Union DEF InFlightExact
  <2> QED BY <2>2, <2>3, <2>4
<1>9. IsFiniteSet(InLoops') /\ Cardinality(InLoops') = Cardinality(InLoops) + Cardinality(new)
  BY <1>7, <1>8
<1> QED BY <1>1, <1>5, <1>9 DEF InFlightExact

(* A batch that has run is no longer counted, and the others move up. *)
LEMMA RunCounts ==
    ASSUME IInv, InFlightExact, NEW l \in Loops, LoopRun(l)
    PROVE  InFlightExact'
<1> DEFINE b == Head(loopQueue[l])
           q == loopQueue[l]
           len == Len(q)
           run == Batch(l, 1, b.to)
           rest == InLoops \ run
           up == [x \in rest |-> IF x[1] = l THEN <<l, x[2] - 1, x[3]>> ELSE x]
<1>1. /\ q \in Seq(Batches) /\ q # <<>>
      /\ loopQueue' = [loopQueue EXCEPT ![l] = Tail(@)]
      /\ loopQueue \in [Loops -> Seq(Batches)]
      /\ inFlight' = inFlight - Cardinality(b.to)
  BY DEF LoopRun, IInv, TypeOK, LoopType
<1>2. /\ len \in Nat \ {0} /\ DOMAIN q = 1 .. len /\ b = q[1] /\ b \in Batches
      /\ loopQueue'[l] = Tail(q)
      /\ DOMAIN Tail(q) = 1 .. (len - 1)
      /\ \A i \in 1 .. (len - 1) : Tail(q)[i] = q[i + 1]
      /\ \A k \in Loops \ {l} : loopQueue'[k] = loopQueue[k]
  BY <1>1, HeadTailProperties, EmptySeq, LenProperties
<1>3. b.to \in SUBSET SubIds
  BY <1>2 DEF Batches
<1> HIDE DEF b, len
<1>4. /\ IsFiniteSet(run) /\ Cardinality(run) = Cardinality(b.to)
      /\ run \subseteq InLoops
  <2>1. 1 \in DOMAIN loopQueue[l] /\ loopQueue[l][1].to = b.to
    BY <1>2
  <2>2. run \subseteq InLoops
    BY <2>1, InLoopsAre DEF Batch
  <2> QED BY <1>3, <2>2, BatchCount
<1>5. ASSUME NEW x \in rest
      PROVE  \/ \E k \in Loops \ {l} : \E i \in DOMAIN loopQueue[k] :
                    \E id \in loopQueue[k][i].to : x = <<k, i, id>>
             \/ \E i \in (1 .. len) \ {1} : \E id \in q[i].to : x = <<l, i, id>>
  <2>0. PICK k \in Loops : \E i \in DOMAIN loopQueue[k] :
            \E id \in loopQueue[k][i].to : x = <<k, i, id>>
    BY InLoopsAre
  <2>1. PICK i \in DOMAIN loopQueue[k] : \E id \in loopQueue[k][i].to : x = <<k, i, id>>
    BY <2>0
  <2>2. CASE k = l
    <3>1. i # 1
      BY <1>2, <1>5, <2>1, <2>2 DEF Batch
    <3> QED BY <1>2, <2>1, <2>2, <3>1
  <2> QED BY <2>1, <2>2
<1>6. ASSUME NEW i \in (1 .. len) \ {1}
      PROVE  i - 1 \in DOMAIN loopQueue'[l] /\ loopQueue'[l][i - 1] = q[i]
  <2>1. i - 1 \in 1 .. (len - 1) /\ (i - 1) + 1 = i
    BY <1>2
  <2> QED BY <1>2, <2>1
<1>7. ASSUME NEW i \in DOMAIN loopQueue'[l]
      PROVE  /\ i + 1 \in (1 .. len) \ {1} /\ loopQueue'[l][i] = q[i + 1]
             /\ i = (i + 1) - 1
  BY <1>2
<1>8. \A x \in rest : up[x] \in InLoops'
  <2>1. ASSUME NEW x \in rest PROVE up[x] \in InLoops'
    <3>1. up[x] = IF x[1] = l THEN <<l, x[2] - 1, x[3]>> ELSE x
      OBVIOUS
    <3> HIDE DEF rest, up
    <3>2. CASE \E k \in Loops \ {l} : \E i \in DOMAIN loopQueue[k] :
                  \E id \in loopQueue[k][i].to : x = <<k, i, id>>
      <4>1. up[x] = x
        BY <3>1, <3>2
      <4>2. x \in InLoops'
        BY <1>2, <3>2, InLoopsWillBe
      <4> QED BY <4>1, <4>2
    <3>3. CASE \E i \in (1 .. len) \ {1} : \E id \in q[i].to : x = <<l, i, id>>
      <4>1. PICK i \in (1 .. len) \ {1} : \E id \in q[i].to : x = <<l, i, id>>
        BY <3>3
      <4>2. PICK id \in q[i].to : x = <<l, i, id>>
        BY <4>1
      <4>3. up[x] = <<l, i - 1, id>>
        BY <3>1, <4>2
      <4> QED BY <1>6, <4>2, <4>3, InLoopsWillBe
    <3> QED BY <1>5, <2>1, <3>2, <3>3
  <2> QED BY <2>1
<1>9. \A x, y \in rest : up[x] = up[y] => x = y
  <2>1. ASSUME NEW x \in rest, NEW y \in rest, up[x] = up[y] PROVE x = y
    <3>1. PICK kx, ix, ax : x = <<kx, ix, ax>> /\ (kx = l => ix \in 1 .. len)
      BY <1>5
    <3>2. PICK ky, iy, ay : y = <<ky, iy, ay>> /\ (ky = l => iy \in 1 .. len)
      BY <1>5
    <3>3. /\ up[x] = IF kx = l THEN <<l, ix - 1, ax>> ELSE x
          /\ up[y] = IF ky = l THEN <<l, iy - 1, ay>> ELSE y
      BY <3>1, <3>2
    <3> HIDE DEF rest, up
    <3>4. kx = ky
      BY <2>1, <3>1, <3>2, <3>3
    <3>5. kx = l => ix - 1 = iy - 1 /\ ax = ay
      <4>1. kx = l => <<l, ix - 1, ax>> = <<l, iy - 1, ay>>
        BY <2>1, <3>3, <3>4
      <4> QED BY <4>1
    <3>6. kx = l => ix = iy
      BY <1>2, <3>1, <3>2, <3>4, <3>5
    <3> QED BY <2>1, <3>1, <3>2, <3>3, <3>4, <3>5, <3>6
  <2> QED BY <2>1
<1>10. \A y \in InLoops' : \E x \in rest : up[x] = y
  <2>1. ASSUME NEW y \in InLoops' PROVE \E x \in rest : up[x] = y
    <3>0. PICK k \in Loops : \E i \in DOMAIN loopQueue'[k] :
              \E id \in loopQueue'[k][i].to : y = <<k, i, id>>
      BY InLoopsWillBe
    <3>00. PICK i \in DOMAIN loopQueue'[k] : \E id \in loopQueue'[k][i].to : y = <<k, i, id>>
      BY <3>0
    <3>1. PICK id \in loopQueue'[k][i].to : y = <<k, i, id>>
      BY <3>00
    <3>2. CASE k # l
      <4>1. y \in rest
        BY <1>2, <3>1, <3>2, InLoopsAre DEF Batch
      <4>2. up[y] = y
        BY <3>1, <3>2, <4>1
      <4> QED BY <4>1, <4>2
    <3>3. CASE k = l
      <4> DEFINE x == <<l, i + 1, id>>
      <4>1. i + 1 \in (1 .. len) \ {1} /\ id \in q[i + 1].to /\ i = (i + 1) - 1
        BY <1>7, <3>1, <3>3
      <4>2. x \in InLoops
        BY <1>2, <4>1, InLoopsAre
      <4>3. x \in rest
        BY <4>1, <4>2 DEF Batch
      <4>4. up[x] = <<l, (i + 1) - 1, id>>
        BY <4>3
      <4> QED BY <3>1, <3>3, <4>1, <4>3, <4>4
    <3> QED BY <3>2, <3>3
  <2> QED BY <2>1
<1>11. IsFiniteSet(rest) /\ Cardinality(rest) = Cardinality(InLoops) - Cardinality(run)
  <2>1. InLoops \cap run = run
    BY <1>4
  <2> QED BY <2>1, FS_Difference DEF InFlightExact
<1>12. up \in Bijection(rest, InLoops')
  <2>1. up \in [rest -> InLoops']
    BY <1>8
  <2> HIDE DEF up, rest
  <2> QED BY <1>9, <1>10, <2>1 DEF Bijection, Injection, Surjection, IsInjective
<1>13. IsFiniteSet(InLoops') /\ Cardinality(InLoops') = Cardinality(rest)
  <2> HIDE DEF up, rest
  <2> QED BY <1>11, <1>12, FS_Bijection DEF ExistsBijection
<1> QED BY <1>1, <1>4, <1>11, <1>13 DEF InFlightExact

(* Every step keeps the count exact; whatever throws, throws before it counts. *)
LEMMA LoadStep ==
    ASSUME IInv, ClaimInv, OrderInv, LoadInv, [Next]_vars
    PROVE  LoadInv'
<1>1. ASSUME UNCHANGED <<inFlight, loopQueue>>
      PROVE  InFlightExact'
  BY <1>1 DEF LoadInv, InFlightExact, InLoops
<1>2. ASSUME \/ \E id \in SubIds : GateCloses(id)
             \/ \E id \in SubIds : GateOpens(id)
             \/ \E p \in Publishers : PublishBuildThrows(p)
             \/ \E d \in Drainers : SendDirect(d) \/ DispatchThrows(d)
      PROVE  UNCHANGED <<inFlight, loopQueue>>
  BY <1>2 DEF GateCloses, GateOpens, PublishBuildThrows, SendDirect, DispatchThrows
<1>3. InFlightExact'
  BY <1>1, <1>2, DispatchCounts, RunCounts, WhoTouchesConnections DEF LoadInv, connVars
<1> QED BY <1>3, RoomLeftStep DEF LoadInv

(* publishSharedImpl and fanOutToSnapshot keep to their limits: a shard queue
   never exceeds backlogPerShard, although the check of all shards and the
   pushes are separate critical sections, and the in-flight count that maxInFlight
   is compared with is exactly what the loops have still to run, although
   dispatches throw and loops run meanwhile. *)
THEOREM BackPressureHolds == Spec => []BackPressureExact
<1> DEFINE All == IInv /\ ClaimInv /\ OrderInv /\ OneShardInv
<1>1. Init => LoadInv
  <2> SUFFICES ASSUME Init PROVE LoadInv
    OBVIOUS
  <2>1. InLoops = {}
    BY InLoopsAre DEF Init
  <2>2. InFlightExact
    BY <2>1, FS_EmptySet DEF Init, InFlightExact
  <2>3. RoomLeft
    BY DEF Init, RoomLeft
  <2>4. QueueBound
    BY BoundsAssumption DEF Init, QueueBound
  <2> QED BY <2>2, <2>3, <2>4 DEF LoadInv
<1>2. All /\ LoadInv /\ [Next]_vars => LoadInv'
  BY LoadStep
<1>3. Spec => []All
  BY OrderHolds
<1>4. LoadInv => BackPressureExact
  BY DEF LoadInv, QueueBound, InFlightExact, BackPressureExact
<1> HIDE DEF All
<1> QED BY <1>1, <1>2, <1>3, <1>4, PTL DEF Spec
=============================================================================

----------------------------- MODULE RoomFanout -----------------------------
(***************************************************************************)
(* One room of RoomRegistryT (ws_controllers/RoomRegistry.h): how a        *)
(* published message travels from the publishing thread to the event loop  *)
(* of every subscriber.                                                    *)
(*                                                                         *)
(*   publish  --pubMtx-->  shard queues  --one drainer each-->  loop       *)
(*   queues   --loop thread-->  connections                                *)
(*                                                                         *)
(* The grain of atomicity is the lock: what the code does under one shard  *)
(* mutex, under poolMtx_, or alone under pubMtx is one action.  A publish  *)
(* holds pubMtx across several actions, because drainers and loops run     *)
(* meanwhile.  What happens to the room's name afterwards (lookup,         *)
(* re-creation, retained journals) is module RoomTable.                    *)
(*                                                                         *)
(* A message is its room sequence number; a connection is its              *)
(* subscription id.  Statistics that only metrics read are left out.       *)
(***************************************************************************)
EXTENDS Integers, Sequences, FiniteSets, Functions

CONSTANTS
    Publishers,     \* threads that publish (IO threads, the cluster bus thread)
    Workers,        \* the fan-out pool; {} is the default configuration
    Loops,          \* trantor event loops that own connections
    NoLoop,         \* the loop handle of a subscription made without one
    LoopOf,         \* [SubIds -> Loops \cup {NoLoop}], fixed at subscription
    NoShard, Nobody,
    MaxShards, SubsPerShard, InlineMaxSubs, BacklogPerShard, MaxInFlight,
    DrainBatch, JournalCap, MaxSubscribersPerRoom,      \* struct Options
    MaxSubs,        \* bound: subscriptions ever made
    MaxSeq,         \* bound: messages ever accepted
    MaxFaults,      \* bound: exceptions thrown by build() or loop.dispatch()
    MaxGates        \* bound: times a congestion gate closes

SubIds == 1 .. MaxSubs

\* A shard object: the reshape that created it and its slot.
Epochs   == 0 .. MaxSubs
Slots    == 0 .. (2 * MaxShards - 1)
ShardIds == Epochs \X Slots

Drainers == Publishers \cup Workers

ASSUME BoundsAssumption ==
    /\ MaxShards \in Nat \ {0} /\ SubsPerShard \in Nat \ {0}
    /\ InlineMaxSubs \in Nat /\ BacklogPerShard \in Nat /\ MaxInFlight \in Nat
    /\ DrainBatch \in Nat \ {0} /\ JournalCap \in Nat
    /\ MaxSubscribersPerRoom \in Nat
    /\ MaxSubs \in Nat /\ MaxSeq \in Nat /\ MaxFaults \in Nat /\ MaxGates \in Nat
ASSUME ThreadsAssumption ==
    /\ Publishers \cap Workers = {}
    /\ Nobody \notin Publishers
    /\ NoShard \notin ShardIds
    /\ NoLoop \notin Loops
    /\ LoopOf \in [SubIds -> Loops \cup {NoLoop}]
\* Without a pool the constructor forces a single shard.
ASSUME SingleShardAssumption == Workers = {} => MaxShards = 1

VARIABLES
    \* struct Room
    pubOwner,       \* who holds pubMtx across actions
    dist,           \* slot -> the ids of its bucket; DOMAIN dist is the shard vector
    epoch,          \* which reshape built the current shard objects
    subCount, nonEmptyShards, retired, seq, journal,
    \* struct Shard, for every shard object ever made
    queue, busy, snap,
    \* struct RoomRegistryT
    nextSubId, ready, inFlight,
    \* the threads: publishSharedImpl's locals, drainShard's locals
    pc, inlineMode, todo, needWake,
    drain, cur, processed, requeue,
    \* the event loops and the connections
    loopQueue, gated, delivered,
    \* history: when an id joined, what the gate and an exception cost it
    joinedAt, skipped, lost,
    faults, gates

roomVars   == <<pubOwner, dist, epoch, subCount, nonEmptyShards, retired, seq, journal>>
memberVars == <<dist, epoch, subCount, nonEmptyShards, retired, nextSubId, joinedAt>>
shardVars  == <<queue, busy, snap>>
pubVars    == <<pc, inlineMode, todo, needWake>>
drainVars  == <<drain, cur, processed, requeue>>
loopVars   == <<inFlight, loopQueue, delivered, skipped>>
gateVars   == <<gated, gates>>
vars == <<roomVars, shardVars, nextSubId, ready, pubVars, drainVars, loopVars,
          gateVars, joinedAt, lost, faults>>

-----------------------------------------------------------------------------
Shard(i) == <<epoch, i>>
CurrentShards == {Shard(i) : i \in DOMAIN dist}
Members == UNION {dist[i] : i \in DOMAIN dist}
NonEmptySlots == {i \in DOMAIN dist : dist[i] # {}}
Lowest(S) == CHOOSE i \in S : \A j \in S : i <= j

\* shardsFor: doubles from 1 while below the cap and the room is big enough.
\* The rungs it can stop at are what 1 and doubling below the cap generate.
Rungs ==
    {k \in 1 .. (2 * MaxShards) :
        \A S \in SUBSET (1 .. (2 * MaxShards)) :
            1 \in S /\ (\A j \in S : j < MaxShards => 2 * j \in S) => k \in S}
GrowsPast(k, n) == k < MaxShards /\ n >= k * SubsPerShard
ShardsFor(n) == Lowest({k \in Rungs : ~GrowsPast(k, n)})

\* The message a drainer has popped and the members it has yet to serve.
Nothing == [n |-> 0, to |-> {}]
InHand(n, ids) == IF ids = {} THEN Nothing ELSE [n |-> n, to |-> ids]

Init ==
    /\ pubOwner = Nobody /\ dist = <<>> /\ epoch = 0
    /\ subCount = 0 /\ nonEmptyShards = 0 /\ retired = FALSE
    /\ seq = 0 /\ journal = <<>>
    /\ queue = [s \in ShardIds |-> <<>>]
    /\ busy = [s \in ShardIds |-> FALSE]
    /\ snap = [s \in ShardIds |-> {}]
    /\ nextSubId = 0 /\ ready = <<>> /\ inFlight = 0
    /\ pc = [p \in Publishers |-> "idle"]
    /\ inlineMode = [p \in Publishers |-> FALSE]
    /\ todo = [p \in Publishers |-> {}]
    /\ needWake = [p \in Publishers |-> <<>>]
    /\ drain = [d \in Drainers |-> NoShard]
    /\ cur = [d \in Drainers |-> Nothing]
    /\ processed = [d \in Drainers |-> 0]
    /\ requeue = [d \in Drainers |-> FALSE]
    /\ loopQueue = [l \in Loops |-> <<>>]
    /\ gated = [id \in SubIds |-> FALSE]
    /\ delivered = [id \in SubIds |-> <<>>]
    /\ joinedAt = [id \in SubIds |-> 0]
    /\ skipped = {} /\ lost = {} /\ faults = 0 /\ gates = 0

-----------------------------------------------------------------------------
(* subscribe *)

\* Enough seats, and a room that is still in the table (a retired one sends
\* the caller back to getOrCreateRoom, a full one returns id 0).
MaySubscribe ==
    /\ pubOwner = Nobody
    /\ ~retired
    /\ nextSubId < MaxSubs
    /\ MaxSubscribersPerRoom = 0 \/ subCount < MaxSubscribersPerRoom

\* The shard count stays: the new entry joins the bucket id % k.
SubscribeJoin ==
    LET id == nextSubId + 1
        k  == ShardsFor(subCount + 1)
        i  == id % k
    IN  /\ MaySubscribe
        /\ k = Cardinality(DOMAIN dist)
        /\ nextSubId' = id
        /\ dist' = [dist EXCEPT ![i] = @ \cup {id}]
        /\ snap' = [snap EXCEPT ![Shard(i)] = @ \cup {id}]
        /\ nonEmptyShards' = nonEmptyShards + (IF dist[i] = {} THEN 1 ELSE 0)
        /\ subCount' = subCount + 1
        /\ joinedAt' = [joinedAt EXCEPT ![id] = seq]
        /\ UNCHANGED <<pubOwner, epoch, retired, seq, journal, queue, busy, ready,
                       pubVars, drainVars, loopVars, gateVars, lost, faults>>

\* The shard count changes: only when every shard is idle (otherwise the
\* caller lets go of pubMtx and tries again), all members are dealt out anew
\* to k fresh shard objects.  reshapeLocked.
ReshapeKeepsCount(k, id) ==      \* mutant: the counter is not reset first
    LET bucket == [i \in 0 .. (k - 1) |-> {m \in Members \cup {id} : m % k = i}]
    IN  /\ dist' = bucket
        /\ epoch' = epoch + 1
        /\ snap' = [s \in ShardIds |-> IF s[1] = epoch + 1 /\ s[2] < k
                                       THEN bucket[s[2]] ELSE snap[s]]
        /\ nonEmptyShards' = nonEmptyShards
                             + Cardinality({i \in 0 .. (k - 1) : bucket[i] # {}})

Reshape(k, id) ==
    LET bucket == [i \in 0 .. (k - 1) |-> {m \in Members \cup {id} : m % k = i}]
    IN  /\ dist' = bucket
        /\ epoch' = epoch + 1
        /\ snap' = [s \in ShardIds |-> IF s[1] = epoch + 1 /\ s[2] < k
                                       THEN bucket[s[2]] ELSE snap[s]]
        /\ nonEmptyShards' = Cardinality({i \in 0 .. (k - 1) : bucket[i] # {}})

SubscribeReshapeUnchecked ==     \* mutant: does not wait for idle shards
    LET id == nextSubId + 1
        k  == ShardsFor(subCount + 1)
    IN  /\ MaySubscribe
        /\ k # Cardinality(DOMAIN dist)
        /\ nextSubId' = id
        /\ Reshape(k, id)
        /\ subCount' = subCount + 1
        /\ joinedAt' = [joinedAt EXCEPT ![id] = seq]
        /\ UNCHANGED <<pubOwner, retired, seq, journal, queue, busy, ready,
                       pubVars, drainVars, loopVars, gateVars, lost, faults>>

SubscribeReshape ==
    LET id == nextSubId + 1
        k  == ShardsFor(subCount + 1)
    IN  /\ MaySubscribe
        /\ k # Cardinality(DOMAIN dist)
        /\ \A s \in CurrentShards : ~busy[s]
        /\ nextSubId' = id
        /\ Reshape(k, id)
        /\ subCount' = subCount + 1
        /\ joinedAt' = [joinedAt EXCEPT ![id] = seq]
        /\ UNCHANGED <<pubOwner, retired, seq, journal, queue, busy, ready,
                       pubVars, drainVars, loopVars, gateVars, lost, faults>>

UnsubscribeAnyone(id) ==         \* mutant: an unknown id is not passed over
    \E i \in DOMAIN dist :
        LET last == subCount = 1
        IN  /\ pubOwner = Nobody
            /\ id <= nextSubId
            /\ dist' = [dist EXCEPT ![i] = @ \ {id}]
            /\ snap' = [snap EXCEPT ![Shard(i)] = dist[i] \ {id}]
            /\ nonEmptyShards' = nonEmptyShards - (IF dist[i] = {id} THEN 1 ELSE 0)
            /\ subCount' = subCount - 1
            /\ retired' = (retired \/ last)
            /\ journal' = IF last THEN <<>> ELSE journal
            /\ UNCHANGED <<pubOwner, epoch, seq, queue, busy, nextSubId, ready, joinedAt,
                           pubVars, drainVars, loopVars, gateVars, lost, faults>>

(* unsubscribe: the last one out retires the room, and its journal moves to
   the registry's retained journals. *)
Unsubscribe(id) ==
    \E i \in DOMAIN dist :
        LET last == subCount = 1
        IN  /\ pubOwner = Nobody
            /\ id \in dist[i]
            /\ dist' = [dist EXCEPT ![i] = @ \ {id}]
            /\ snap' = [snap EXCEPT ![Shard(i)] = dist[i] \ {id}]
            /\ nonEmptyShards' = nonEmptyShards - (IF dist[i] = {id} THEN 1 ELSE 0)
            /\ subCount' = subCount - 1
            /\ retired' = (retired \/ last)
            /\ journal' = IF last THEN <<>> ELSE journal
            /\ UNCHANGED <<pubOwner, epoch, seq, queue, busy, nextSubId, ready, joinedAt,
                           pubVars, drainVars, loopVars, gateVars, lost, faults>>

-----------------------------------------------------------------------------
(* publishSharedImpl *)

\* Before the lock: the in-flight limit, the room (by handle or by name: a
\* retired one is not found) and the choice of inline fan-out.
PublishEnter(p) ==
    /\ pc[p] = "idle"
    /\ MaxInFlight = 0 \/ inFlight < MaxInFlight
    /\ ~retired
    /\ pc' = [pc EXCEPT ![p] = "lock"]
    /\ inlineMode' = [inlineMode EXCEPT ![p] = Workers = {} \/ subCount <= InlineMaxSubs]
    /\ UNCHANGED <<roomVars, shardVars, nextSubId, ready, todo, needWake, drainVars,
                   loopVars, gateVars, joinedAt, lost, faults>>

\* The shards a message goes to: with exactly one non-empty shard the first
\* that is found, otherwise all of them.
TargetSlotsWithRoom ==           \* mutant: passes over full shards one by one
    {i \in NonEmptySlots : Len(queue[Shard(i)]) < BacklogPerShard}
TargetSlots == IF nonEmptyShards = 1 THEN {Lowest(NonEmptySlots)} ELSE NonEmptySlots
SomeTargetOverfull ==            \* mutant: one too many
    \E i \in TargetSlots : Len(queue[Shard(i)]) > BacklogPerShard
SomeTargetFull == \E i \in TargetSlots : Len(queue[Shard(i)]) >= BacklogPerShard

\* Under pubMtx, all or nothing: one full shard refuses the whole message.
PublishRefused(p) ==
    /\ pc[p] = "lock" /\ pubOwner = Nobody
    /\ SomeTargetFull
    /\ pc' = [pc EXCEPT ![p] = "idle"]
    /\ UNCHANGED <<roomVars, shardVars, nextSubId, ready, inlineMode, todo, needWake,
                   drainVars, loopVars, gateVars, joinedAt, lost, faults>>

\* The number is taken only once the message is certain to be accepted.
PublishLock(p) ==
    /\ pc[p] = "lock" /\ pubOwner = Nobody
    /\ ~SomeTargetFull
    /\ seq < MaxSeq
    /\ pubOwner' = p
    /\ seq' = seq + 1
    /\ todo' = [todo EXCEPT ![p] = TargetSlots]
    /\ pc' = [pc EXCEPT ![p] = "build"]
    /\ UNCHANGED <<dist, epoch, subCount, nonEmptyShards, retired, journal, shardVars,
                   nextSubId, ready, inlineMode, needWake, drainVars, loopVars, gateVars,
                   joinedAt, lost, faults>>

\* build(seq) throws: the number is given back before the lock is.
PublishBuildThrows(p) ==
    /\ pc[p] = "build" /\ faults < MaxFaults
    /\ faults' = faults + 1
    /\ seq' = seq - 1
    /\ pubOwner' = Nobody
    /\ todo' = [todo EXCEPT ![p] = {}]
    /\ pc' = [pc EXCEPT ![p] = "idle"]
    /\ UNCHANGED <<dist, epoch, subCount, nonEmptyShards, retired, journal, shardVars,
                   nextSubId, ready, inlineMode, needWake, drainVars, loopVars, gateVars,
                   joinedAt, lost>>

\* Mutant of the next: rings the bell for every message.
PublishPushAlwaysWakes(p) ==
    LET i == Lowest(todo[p])
        s == Shard(i)
    IN  /\ pc[p] \in {"build", "push"} /\ todo[p] # {}
        /\ pc' = [pc EXCEPT ![p] = "push"]
        /\ todo' = [todo EXCEPT ![p] = @ \ {i}]
        /\ queue' = [queue EXCEPT ![s] = Append(@, seq)]
        /\ busy' = [busy EXCEPT ![s] = TRUE]
        /\ needWake' = [needWake EXCEPT ![p] = Append(@, s)]
        /\ UNCHANGED <<roomVars, snap, nextSubId, ready, inlineMode, drainVars, loopVars,
                       gateVars, joinedAt, lost, faults>>

\* One shard after the other: push and ring the bell on the idle -> busy edge.
PublishPush(p) ==
    LET i == Lowest(todo[p])
        s == Shard(i)
    IN  /\ pc[p] \in {"build", "push"} /\ todo[p] # {}
        /\ pc' = [pc EXCEPT ![p] = "push"]
        /\ todo' = [todo EXCEPT ![p] = @ \ {i}]
        /\ queue' = [queue EXCEPT ![s] = Append(@, seq)]
        /\ busy' = [busy EXCEPT ![s] = TRUE]
        /\ needWake' = IF busy[s] THEN needWake
                       ELSE [needWake EXCEPT ![p] = Append(@, s)]
        /\ UNCHANGED <<roomVars, snap, nextSubId, ready, inlineMode, drainVars, loopVars,
                       gateVars, joinedAt, lost, faults>>

\* Still under pubMtx: hand the woken shards to the pool (or keep them, to
\* drain inline), record the message in the journal, let go of the lock.
LastEntries(j) == IF Len(j) > JournalCap THEN Tail(j) ELSE j
PublishCommit(p) ==
    /\ pc[p] \in {"build", "push"} /\ todo[p] = {}
    /\ pubOwner' = Nobody
    /\ journal' = LastEntries(Append(journal, seq))
    /\ IF inlineMode[p]
       THEN /\ pc' = [pc EXCEPT ![p] = "drain"]
            /\ UNCHANGED <<ready, needWake>>
       ELSE /\ pc' = [pc EXCEPT ![p] = "idle"]
            /\ ready' = ready \o needWake[p]
            /\ needWake' = [needWake EXCEPT ![p] = <<>>]
    /\ UNCHANGED <<dist, epoch, subCount, nonEmptyShards, retired, seq, shardVars,
                   nextSubId, inlineMode, todo, drainVars, loopVars, gateVars, joinedAt,
                   lost, faults>>

\* Inline fan-out drains the woken shards one after the other, then returns.
InlineDrainNext(p) ==
    /\ pc[p] = "drain" /\ drain[p] = NoShard /\ needWake[p] # <<>>
    /\ drain' = [drain EXCEPT ![p] = Head(needWake[p])]
    /\ needWake' = [needWake EXCEPT ![p] = Tail(@)]
    /\ UNCHANGED <<roomVars, shardVars, nextSubId, ready, pc, inlineMode, todo, cur,
                   processed, requeue, loopVars, gateVars, joinedAt, lost, faults>>

PublishReturn(p) ==
    /\ pc[p] = "drain" /\ drain[p] = NoShard /\ needWake[p] = <<>>
    /\ pc' = [pc EXCEPT ![p] = "idle"]
    /\ UNCHANGED <<roomVars, shardVars, nextSubId, ready, inlineMode, todo, needWake,
                   drainVars, loopVars, gateVars, joinedAt, lost, faults>>

-----------------------------------------------------------------------------
(* drainShard and fanOutToSnapshot: by a pool worker, or by a publisher *)

\* workerLoop takes the oldest ready shard (how it spins and parks before is
\* the matter of the pool, not of the room).
WorkerTake(w) ==
    /\ drain[w] = NoShard /\ ready # <<>>
    /\ drain' = [drain EXCEPT ![w] = Head(ready)]
    /\ ready' = Tail(ready)
    /\ UNCHANGED <<roomVars, shardVars, nextSubId, pubVars, cur, processed, requeue,
                   loopVars, gateVars, joinedAt, lost, faults>>

Yields(d) == d \in Workers
BetweenMessages(d) == drain[d] # NoShard /\ cur[d].to = {} /\ ~requeue[d]

\* Under the shard lock: take the oldest message with the snapshot of now; a
\* worker that has done its batch will hand the shard back after this one.
DrainPop(d) ==
    LET s    == drain[d]
        rest == Tail(queue[s])
        done == IF processed[d] < DrainBatch THEN processed[d] + 1 ELSE DrainBatch
    IN  /\ BetweenMessages(d) /\ queue[s] # <<>>
        /\ queue' = [queue EXCEPT ![s] = rest]
        /\ cur' = [cur EXCEPT ![d] = InHand(Head(queue[s]), snap[s])]
        /\ processed' = [processed EXCEPT ![d] = IF Yields(d) THEN done ELSE @]
        /\ requeue' = [requeue EXCEPT ![d] = Yields(d) /\ done >= DrainBatch /\ rest # <<>>]
        /\ UNCHANGED <<roomVars, busy, snap, nextSubId, ready, pubVars, drain,
                       loopVars, gateVars, joinedAt, lost, faults>>

LeaveShard(d) ==
    /\ drain' = [drain EXCEPT ![d] = NoShard]
    /\ cur' = [cur EXCEPT ![d] = Nothing]
    /\ processed' = [processed EXCEPT ![d] = 0]
    /\ requeue' = [requeue EXCEPT ![d] = FALSE]

\* Under the shard lock: nothing left, so the shard becomes idle.
DrainIdle(d) ==
    /\ BetweenMessages(d) /\ queue[drain[d]] = <<>>
    /\ busy' = [busy EXCEPT ![drain[d]] = FALSE]
    /\ LeaveShard(d)
    /\ UNCHANGED <<roomVars, queue, snap, nextSubId, ready, pubVars, loopVars, gateVars,
                   joinedAt, lost, faults>>

\* Mutant of the next: the shard stays busy, but nobody has it.
DrainYieldDropsShard(d) ==
    /\ drain[d] # NoShard /\ cur[d].to = {} /\ requeue[d]
    /\ LeaveShard(d)
    /\ UNCHANGED <<roomVars, shardVars, nextSubId, ready, pubVars, loopVars, gateVars,
                   joinedAt, lost, faults>>

\* The batch is done and messages are left: back to the pool, still busy.
DrainYield(d) ==
    /\ drain[d] # NoShard /\ cur[d].to = {} /\ requeue[d]
    /\ ready' = Append(ready, drain[d])
    /\ LeaveShard(d)
    /\ UNCHANGED <<roomVars, shardVars, nextSubId, pubVars, loopVars, gateVars, joinedAt,
                   lost, faults>>

Group(d, l) == {id \in cur[d].to : LoopOf[id] = l}
Open(ids) == {id \in ids : ~gated[id]}
Receive(n, ids) ==
    /\ delivered' = [id \in SubIds |-> IF id \in Open(ids) THEN Append(delivered[id], n)
                                       ELSE delivered[id]]
    /\ skipped' = skipped \cup {<<id, n>> : id \in ids \ Open(ids)}

\* Mutant of the next: a publisher that drains inline sends at once, past what
\* the loop has queued.
DispatchOrSendNow(d, l) ==
    /\ Group(d, l) # {}
    /\ cur' = [cur EXCEPT ![d] = InHand(@.n, @.to \ Group(d, l))]
    /\ IF d \in Publishers
       THEN /\ Receive(cur[d].n, Group(d, l))
            /\ UNCHANGED <<inFlight, loopQueue>>
       ELSE /\ inFlight' = inFlight + Cardinality(Group(d, l))
            /\ loopQueue' = [loopQueue EXCEPT ![l] =
                                Append(@, [n |-> cur[d].n, to |-> Group(d, l)])]
            /\ UNCHANGED <<delivered, skipped>>
    /\ UNCHANGED <<roomVars, shardVars, nextSubId, ready, pubVars, drain, processed,
                   requeue, gateVars, joinedAt, lost, faults>>

\* One group: count it as in flight, then queue one batch on its loop.
Dispatch(d, l) ==
    /\ Group(d, l) # {}
    /\ inFlight' = inFlight + Cardinality(Group(d, l))
    /\ loopQueue' = [loopQueue EXCEPT ![l] = Append(@, [n |-> cur[d].n, to |-> Group(d, l)])]
    /\ cur' = [cur EXCEPT ![d] = InHand(@.n, @.to \ Group(d, l))]
    /\ UNCHANGED <<roomVars, shardVars, nextSubId, ready, pubVars, drain, processed,
                   requeue, delivered, skipped, gateVars, joinedAt, lost, faults>>

\* A group without a loop handle is served on the spot.
SendDirect(d) ==
    /\ Group(d, NoLoop) # {}
    /\ Receive(cur[d].n, Group(d, NoLoop))
    /\ cur' = [cur EXCEPT ![d] = InHand(@.n, @.to \ Group(d, NoLoop))]
    /\ UNCHANGED <<roomVars, shardVars, nextSubId, ready, pubVars, drain, processed,
                   requeue, inFlight, loopQueue, gateVars, joinedAt, lost, faults>>

\* Mutant of the next: a worker leaves the shard idle whatever is still queued.
DispatchThrowsGoesIdle(d) ==
    /\ cur[d].to # {} /\ faults < MaxFaults
    /\ faults' = faults + 1
    /\ lost' = lost \cup {<<id, cur[d].n>> : id \in cur[d].to}
    /\ busy' = [busy EXCEPT ![drain[d]] = FALSE]
    /\ LeaveShard(d)
    /\ UNCHANGED <<roomVars, queue, snap, nextSubId, ready, pubVars, loopVars, gateVars,
                   joinedAt>>

\* dispatch throws: the batch is uncounted again, the groups not yet served
\* lose the message.  With messages left a worker hands the shard back, still
\* busy; an inline drainer leaves it idle.
DispatchThrows(d) ==
    LET s    == drain[d]
        back == Yields(d) /\ queue[s] # <<>>
    IN  /\ cur[d].to # {} /\ faults < MaxFaults
        /\ faults' = faults + 1
        /\ lost' = lost \cup {<<id, cur[d].n>> : id \in cur[d].to}
        /\ busy' = [busy EXCEPT ![s] = back]
        /\ ready' = IF back THEN Append(ready, s) ELSE ready
        /\ LeaveShard(d)
        /\ UNCHANGED <<roomVars, queue, snap, nextSubId, pubVars, loopVars, gateVars,
                       joinedAt>>

\* A loop thread runs its oldest batch: every connection whose gate is open
\* gets the message, then the batch is no longer in flight.
LoopRun(l) ==
    LET batch == Head(loopQueue[l])
    IN  /\ loopQueue[l] # <<>>
        /\ loopQueue' = [loopQueue EXCEPT ![l] = Tail(@)]
        /\ Receive(batch.n, batch.to)
        /\ inFlight' = inFlight - Cardinality(batch.to)
        /\ UNCHANGED <<roomVars, shardVars, nextSubId, ready, pubVars, drainVars, gateVars,
                       joinedAt, lost, faults>>

\* The owner of a connection closes its gate at the high-water mark and
\* reopens it when the backlog has drained (Entry::gate).
GateCloses(id) ==
    /\ id <= nextSubId /\ ~gated[id] /\ gates < MaxGates
    /\ gated' = [gated EXCEPT ![id] = TRUE]
    /\ gates' = gates + 1
    /\ UNCHANGED <<roomVars, shardVars, nextSubId, ready, pubVars, drainVars, loopVars,
                   joinedAt, lost, faults>>

GateOpens(id) ==
    /\ gated[id]
    /\ gated' = [gated EXCEPT ![id] = FALSE]
    /\ UNCHANGED <<roomVars, shardVars, nextSubId, ready, pubVars, drainVars, loopVars,
                   gates, joinedAt, lost, faults>>

-----------------------------------------------------------------------------
PublisherStep(p) ==
    \/ PublishRefused(p) \/ PublishLock(p) \/ PublishPush(p) \/ PublishCommit(p)
    \/ InlineDrainNext(p) \/ PublishReturn(p)
DrainStep(d) ==
    \/ DrainPop(d) \/ DrainIdle(d) \/ DrainYield(d) \/ SendDirect(d)
    \/ \E l \in Loops : Dispatch(d, l)

Next ==
    \/ SubscribeJoin \/ SubscribeReshape
    \/ \E id \in SubIds : Unsubscribe(id) \/ GateCloses(id) \/ GateOpens(id)
    \/ \E p \in Publishers : PublishEnter(p) \/ PublishBuildThrows(p) \/ PublisherStep(p)
    \/ \E w \in Workers : WorkerTake(w)
    \/ \E d \in Drainers : DrainStep(d) \/ DispatchThrows(d)
    \/ \E l \in Loops : LoopRun(l)

Spec == Init /\ [][Next]_vars

\* A thread that has begun a call finishes it, pool workers and loops keep
\* running; nobody has to subscribe, publish, leave, fail or congest.
Fairness ==
    /\ \A p \in Publishers : WF_vars(PublisherStep(p))
    /\ \A w \in Workers : WF_vars(WorkerTake(w))
    /\ \A d \in Drainers : WF_vars(DrainStep(d))
    /\ \A l \in Loops : WF_vars(LoopRun(l))

FairSpec == Spec /\ Fairness

-----------------------------------------------------------------------------
(* Properties *)

Batches == [n : 1 .. MaxSeq, to : (SUBSET SubIds) \ {{}}]

MemberType ==
    /\ \E k \in 0 .. (2 * MaxShards) : dist \in [0 .. (k - 1) -> SUBSET SubIds]
    /\ epoch \in Epochs /\ nextSubId \in 0 .. MaxSubs
    /\ subCount \in 0 .. MaxSubs /\ nonEmptyShards \in 0 .. (2 * MaxShards)
    /\ retired \in BOOLEAN
    /\ joinedAt \in [SubIds -> 0 .. MaxSeq]
NumberType ==
    /\ pubOwner \in Publishers \cup {Nobody}
    /\ seq \in 0 .. MaxSeq /\ journal \in Seq(1 .. MaxSeq)
ShardType ==
    /\ queue \in [ShardIds -> Seq(1 .. MaxSeq)]
    /\ busy \in [ShardIds -> BOOLEAN]
    /\ snap \in [ShardIds -> SUBSET SubIds]
PublisherType ==
    /\ pc \in [Publishers -> {"idle", "lock", "build", "push", "drain"}]
    /\ inlineMode \in [Publishers -> BOOLEAN]
    /\ todo \in [Publishers -> SUBSET Slots]
    /\ needWake \in [Publishers -> Seq(ShardIds)]
DrainerType ==
    /\ ready \in Seq(ShardIds)
    /\ drain \in [Drainers -> ShardIds \cup {NoShard}]
    /\ cur \in [Drainers -> Batches \cup {Nothing}]
    /\ processed \in [Drainers -> 0 .. DrainBatch]
    /\ requeue \in [Drainers -> BOOLEAN]
LoopType ==
    /\ inFlight \in Int
    /\ loopQueue \in [Loops -> Seq(Batches)]
    /\ gated \in [SubIds -> BOOLEAN]
    /\ delivered \in [SubIds -> Seq(1 .. MaxSeq)]
    /\ skipped \in SUBSET (SubIds \X (1 .. MaxSeq))
    /\ lost \in SUBSET (SubIds \X (1 .. MaxSeq))
    /\ faults \in 0 .. MaxFaults /\ gates \in 0 .. MaxGates
TypeOK ==
    MemberType /\ NumberType /\ ShardType /\ PublisherType /\ DrainerType /\ LoopType

(* A busy shard has exactly one party that will drain it - a drainer, an entry
   of the ready queue or a publisher that has still to wake it - and an idle
   shard has none.  Two would break the FIFO, none would strand the queue: the
   promise of the busy flag in publishSharedImpl and drainShard. *)
Claims(s) ==
    {<<"drain", d>> : d \in {d \in Drainers : drain[d] = s}}
    \cup {<<"ready", i>> : i \in {i \in DOMAIN ready : ready[i] = s}}
    \cup UNION {{<<"wake", p, i>> : i \in {i \in DOMAIN needWake[p] : needWake[p][i] = s}} :
                p \in Publishers}
OneClaimPerBusyShard ==
    \A s \in ShardIds : Cardinality(Claims(s)) = IF busy[s] THEN 1 ELSE 0

(* Holding pubMtx, "busy = false" means "nothing is queued" (the claim in the
   comment of reshapeLocked on which re-dealing the members relies). *)
IdleShardIsEmpty ==
    pubOwner = Nobody => \A s \in ShardIds : ~busy[s] => queue[s] = <<>>

(* Every connection receives the messages of the room in increasing order and
   none twice, whoever drained them, through whichever shard and loop. *)
DeliveredInOrder ==
    \A id \in SubIds : \A i, j \in DOMAIN delivered[id] :
        i < j => delivered[id][i] < delivered[id][j]

(* Every message accepted since a member joined is on its way to it or has
   been settled: delivered, or skipped at its closed gate, or lost to a
   dispatch that threw.  In particular no accepted message reaches only some
   of the shards, and re-dealing the members loses none. *)
OnItsWay(id, n) ==
    \/ \E l \in Loops : \E i \in DOMAIN loopQueue[l] :
            loopQueue[l][i].n = n /\ id \in loopQueue[l][i].to
    \/ \E d \in Drainers : cur[d].n = n /\ id \in cur[d].to
    \/ \E i \in DOMAIN dist : id \in dist[i] /\ n \in Range(queue[Shard(i)])
Settled(id, n) == n \in Range(delivered[id]) \/ <<id, n>> \in skipped \cup lost
Accepted == IF pubOwner = Nobody THEN seq ELSE seq - 1
NothingForgotten ==
    \A id \in Members : \A n \in (joinedAt[id] + 1) .. Accepted :
        OnItsWay(id, n) \/ Settled(id, n)

(* The counters and snapshots that the fast paths trust say what the member
   table says: nonEmptyShards (the single-shard publish), subCount (inline
   fan-out, retirement), the snapshots (who is served) and id % k. *)
BookkeepingExact ==
    /\ nonEmptyShards = Cardinality(NonEmptySlots)
    /\ subCount = Cardinality(Members)
    /\ \A i \in DOMAIN dist : /\ snap[Shard(i)] = dist[i]
                              /\ \A id \in dist[i] : id % Cardinality(DOMAIN dist) = i
    /\ retired <=> (subCount = 0 /\ nextSubId > 0)

(* Back-pressure: no shard queue exceeds its limit although the check and the
   push are separate critical sections, and the in-flight count is what the
   loop queues hold - one for each connection of each batch - although batches
   fail and loops run meanwhile. *)
InLoops ==
    UNION {UNION {{<<l, i, id>> : id \in loopQueue[l][i].to} : i \in DOMAIN loopQueue[l]} :
           l \in Loops}
BackPressureExact ==
    /\ \A s \in ShardIds : Len(queue[s]) <= BacklogPerShard
    /\ inFlight = Cardinality(InLoops)

(* Every message accepted for a member is eventually settled for it, unless it
   leaves: no lost wake-up, no starved shard, no batch that never runs.  (At
   most MaxSeq messages are ever accepted, so that nobody being owed anything
   time and again means that each debt is paid.) *)
Owed(id, n) == id \in Members /\ n \in (joinedAt[id] + 1) .. Accepted /\ ~Settled(id, n)
EventuallySettled == []<>(\A id \in SubIds, n \in 1 .. MaxSeq : ~Owed(id, n))

(* Without faults the room is an ordered room: a message reaches a member when
   it is sent to it or skipped at its closed gate. *)
LastSettled(id) ==
    LET ns == Range(delivered[id]) \cup {n \in 1 .. MaxSeq : <<id, n>> \in skipped}
    IN  IF ns = {} THEN 0 ELSE CHOOSE n \in ns : \A m \in ns : m <= n
Abstract == INSTANCE OrderedRoom WITH
    Subscribers <- SubIds, members <- Members, accepted <- seq,
    reached <- [id \in SubIds |-> LastSettled(id)]
IsOrderedRoom == Abstract!Spec

=============================================================================

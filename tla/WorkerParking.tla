--------------------------- MODULE WorkerParking ----------------------------
(***************************************************************************)
(* How the fan-out workers sleep and are woken                             *)
(* (ws_controllers/RoomRegistry.h, enqueueReady and workerLoop).           *)
(* RoomFanout takes a ready shard for one that some worker will drain;     *)
(* this module is what that rests on.  A drain is one step here, at the    *)
(* end of which the shard may be put back.                                 *)
(***************************************************************************)
EXTENDS Integers, Sequences, FiniteSets, Functions

CONSTANTS
    Publishers, PoolWorkers, ReadyShards,
    MaxDrains           \* bound: times a shard becomes ready

\* Without workers publishers drain inline and nothing gets ready.
ASSUME ParkingAssumption ==
    /\ Publishers \cap PoolWorkers = {} /\ PoolWorkers # {}
    /\ MaxDrains \in Nat

VARIABLES
    readyQueue,     \* ready_
    readyCount,     \* readyCount_, read without the lock by those that spin
    parked,         \* parked_
    poolStop,       \* stop_
    doing,          \* thread -> what it does
    signalled,      \* workers in wait() that a notify has reached
    drains          \* shard -> times it became ready

parkingVars == <<readyQueue, readyCount, parked, poolStop, doing, signalled, drains>>

Doing(t, at) == doing[t].at = at
Spinning == [at |-> "spin"]
Away == [at |-> "away"]
After(t) == IF t \in Publishers THEN Away ELSE Spinning

ParkingInit ==
    /\ readyQueue = <<>> /\ readyCount = 0 /\ parked = 0 /\ poolStop = FALSE
    /\ doing = [t \in Publishers \cup PoolWorkers |-> After(t)]
    /\ signalled = {}
    /\ drains = [sh \in ReadyShards |-> 0]

-----------------------------------------------------------------------------
(* enqueueReady, by a publisher or by a worker that puts a shard back *)

Draining(w, sh) == doing[w] = [at |-> "drain", shard |-> sh]
Idle(sh) == sh \notin Range(readyQueue) /\ \A w \in PoolWorkers : ~Draining(w, sh)

\* A shard is in the queue or drained by one worker, never both (RoomFanout).
EnqueuePush(t, sh) ==
    /\ \/ t \in Publishers /\ Doing(t, "away") /\ Idle(sh) /\ ~poolStop
       \/ t \in PoolWorkers /\ Draining(t, sh)
    /\ drains[sh] < MaxDrains
    /\ drains' = [drains EXCEPT ![sh] = @ + 1]
    /\ readyQueue' = Append(readyQueue, sh)
    /\ readyCount' = readyCount + 1
    /\ doing' = [doing EXCEPT ![t] = [at |-> "pushed"]]
    /\ UNCHANGED <<parked, poolStop, signalled>>

Waiting == {t \in PoolWorkers : Doing(t, "wait") /\ t \notin signalled}

\* parked_ is read after the lock was released.
EnqueueNotify(t) ==
    /\ Doing(t, "pushed")
    /\ \E reached \in {{}} \cup {{w} : w \in Waiting} :
        /\ reached = {} => parked = 0 \/ Waiting = {}
        /\ reached # {} => parked > 0
        /\ signalled' = signalled \cup reached
    /\ doing' = [doing EXCEPT ![t] = After(t)]
    /\ UNCHANGED <<readyQueue, readyCount, parked, poolStop, drains>>

-----------------------------------------------------------------------------
(* workerLoop *)

Take(w) ==
    /\ doing' = [doing EXCEPT ![w] = [at |-> "drain", shard |-> Head(readyQueue)]]
    /\ readyQueue' = Tail(readyQueue)
    /\ readyCount' = readyCount - 1

SpinSees(w) ==
    /\ Doing(w, "spin") /\ readyCount # 0
    /\ doing' = [doing EXCEPT ![w] = [at |-> "look"]]
    /\ UNCHANGED <<readyQueue, readyCount, parked, poolStop, signalled, drains>>

\* One look under the lock, and the spinning is over.
SpinTakes(w) ==
    /\ Doing(w, "look")
    /\ IF readyQueue # <<>>
         THEN Take(w)
         ELSE /\ doing' = [doing EXCEPT ![w] = [at |-> "park"]]
              /\ UNCHANGED <<readyQueue, readyCount>>
    /\ UNCHANGED <<parked, poolStop, signalled, drains>>

\* All the rounds have seen zero.
SpinEnds(w) ==
    /\ Doing(w, "spin")
    /\ doing' = [doing EXCEPT ![w] = [at |-> "park"]]
    /\ UNCHANGED <<readyQueue, readyCount, parked, poolStop, signalled, drains>>

\* Under the lock, once the predicate holds.
Leaves(w) ==
    IF readyQueue # <<>>
      THEN Take(w)
      ELSE doing' = [doing EXCEPT ![w] = [at |-> "gone"]] /\ UNCHANGED <<readyQueue, readyCount>>

ParkUnseen(w) ==                \* mutant: the predicate is not looked at before the first wait
    /\ Doing(w, "park")
    /\ parked' = parked + 1
    /\ doing' = [doing EXCEPT ![w] = [at |-> "wait"]]
    /\ UNCHANGED <<readyQueue, readyCount, poolStop, signalled, drains>>

\* Counted, and asleep unless there is something to do: one critical section.
Park(w) ==
    /\ Doing(w, "park")
    /\ IF poolStop \/ readyQueue # <<>>
         THEN Leaves(w) /\ UNCHANGED parked
         ELSE /\ parked' = parked + 1
              /\ doing' = [doing EXCEPT ![w] = [at |-> "wait"]]
              /\ UNCHANGED <<readyQueue, readyCount>>
    /\ UNCHANGED <<poolStop, signalled, drains>>

\* Back from wait(): by the time it has the lock another worker may have taken the shard.
ComesBack(w) ==
    /\ Doing(w, "wait")
    /\ signalled' = signalled \ {w}
    /\ IF poolStop \/ readyQueue # <<>>
         THEN Leaves(w) /\ parked' = parked - 1
         ELSE UNCHANGED <<doing, readyQueue, readyCount, parked>>
    /\ UNCHANGED <<poolStop, drains>>

\* A notify has reached it.
Wake(w) == w \in signalled /\ ComesBack(w)

\* The standard lets wait() wake on its own; with nothing to do it sleeps on.
WakeAlone(w) ==
    /\ w \notin signalled /\ (poolStop \/ readyQueue # <<>>)
    /\ ComesBack(w)

\* The shard's queue is empty: it goes idle.
DrainEnds(w) ==
    /\ Doing(w, "drain")
    /\ doing' = [doing EXCEPT ![w] = Spinning]
    /\ UNCHANGED <<readyQueue, readyCount, parked, poolStop, signalled, drains>>

\* The destructor; nobody publishes any more.
StopPool ==
    /\ ~poolStop /\ \A t \in Publishers : Doing(t, "away")
    /\ poolStop' = TRUE
    /\ signalled' = signalled \cup Waiting
    /\ UNCHANGED <<readyQueue, readyCount, parked, doing, drains>>

PoolWorker(w) ==
    \/ SpinSees(w) \/ SpinTakes(w) \/ SpinEnds(w) \/ Park(w) \/ Wake(w) \/ DrainEnds(w)
    \/ EnqueueNotify(w)

ParkingNext ==
    \/ \E w \in PoolWorkers : PoolWorker(w) \/ WakeAlone(w)
    \/ \E p \in Publishers : EnqueueNotify(p)
    \/ \E t \in Publishers \cup PoolWorkers : \E sh \in ReadyShards : EnqueuePush(t, sh)
    \/ StopPool

\* Threads that can go on do; nobody counts on waking without a notify.
ParkingSafety == ParkingInit /\ [][ParkingNext]_parkingVars
ParkingSpec ==
    /\ ParkingSafety
    /\ \A w \in PoolWorkers : WF_parkingVars(PoolWorker(w))
    /\ \A p \in Publishers : WF_parkingVars(EnqueueNotify(p))

-----------------------------------------------------------------------------
(* Properties *)

ParkingTypeOK ==
    /\ readyCount = Len(readyQueue)
    /\ parked = Cardinality({w \in PoolWorkers : Doing(w, "wait")})
    /\ Range(readyQueue) \subseteq ReadyShards /\ signalled \subseteq PoolWorkers

\* A shard that is ready is drained, and the workers all leave once the pool is
\* stopped: no wake-up is lost between "seen empty" and "asleep", nor to a worker
\* that took the shard first.  (enqueueReady, workerLoop)
ReadyShardIsDrained ==
    /\ \A sh \in ReadyShards : sh \in Range(readyQueue) ~> sh \notin Range(readyQueue)
    /\ poolStop ~> \A w \in PoolWorkers : Doing(w, "gone")
=============================================================================

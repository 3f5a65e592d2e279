---------------------------- MODULE PersistQueue ----------------------------
(***************************************************************************)
(* From an accepted message to the broker: produceKafkaAsync               *)
(* (ws_controllers/ChatWebsocket.cc), the queue with one worker thread per *)
(* stripe (utils/OrderedTaskQueue.h) and the producer behind it            *)
(* (KafkaManager.cpp: getTopic, safeProduce, the delivery report, stop).   *)
(*                                                                         *)
(* A key is a room, whose messages are submitted under its pubMtx, one     *)
(* after another; task n of a key is its n-th message.  At exit the queue  *)
(* is destroyed first, then the producer.  Which keys share a stripe is    *)
(* the hash's choice: here the constant StripeOf.                          *)
(***************************************************************************)
EXTENDS Integers, Sequences, FiniteSets, Functions

CONSTANTS
    Submitters,         \* IO threads
    ArchiveKeys,
    Stripes, StripeOf,
    MaxPending,         \* the limit of the queue
    MaxPerKey           \* bound: key -> messages of it

ASSUME QueueAssumption ==
    /\ StripeOf \in [ArchiveKeys -> Stripes]
    /\ MaxPending \in Nat \ {0} /\ MaxPerKey \in [ArchiveKeys -> Nat]

VARIABLES
    submitting,     \* submitter -> the task it has in hand and where it is
    submitted,      \* key -> messages submitted so far
    tasks,          \* stripe -> its queue
    pendingTasks,   \* pending_
    working,        \* stripe -> what its worker does
    stopped,        \* stripes told to stop
    exiting,        \* "no", "queue" (its destructor runs), "producer", "done"
    local,          \* librdkafka's own queue
    brokerLog,      \* what the broker has, in its order
    \* history and counters, as sets of tasks: refused by the queue
    \* (ws_kafka_persist_dropped), refused by the producer (ws_kafka_produce_failed),
    \* reported as not delivered (ws_kafka_delivery_failed), thrown away at exit
    dropped, failed, undelivered, discarded

queueVars == <<submitting, submitted, tasks, pendingTasks, working, stopped, exiting, local,
               brokerLog, dropped, failed, undelivered, discarded>>

Nothing == [at |-> "idle"]
Asleep == [at |-> "asleep"]

QueueInit ==
    /\ submitting = [p \in Submitters |-> Nothing]
    /\ submitted = [k \in ArchiveKeys |-> 0]
    /\ tasks = [s \in Stripes |-> <<>>] /\ pendingTasks = 0
    /\ working = [s \in Stripes |-> Nothing]
    /\ stopped = {} /\ exiting = "no"
    /\ local = <<>> /\ brokerLog = <<>>
    /\ dropped = {} /\ failed = {} /\ undelivered = {} /\ discarded = {}

-----------------------------------------------------------------------------
(* submit *)

InHand(p) == submitting[p].at # "idle"
Drop(t) == dropped' = dropped \cup {t}
OutSame == UNCHANGED <<exiting, local, brokerLog, failed, undelivered, discarded>>

\* pending_ is read without a lock.
SubmitChecks(p, k) ==
    LET t == <<k, submitted[k] + 1>>
    IN  /\ exiting = "no" /\ ~InHand(p) /\ submitted[k] < MaxPerKey[k]
        /\ \A q \in Submitters : InHand(q) => submitting[q].task[1] # k
        /\ submitted' = [submitted EXCEPT ![k] = @ + 1]
        /\ IF pendingTasks >= MaxPending
             THEN Drop(t) /\ UNCHANGED submitting
             ELSE /\ submitting' = [submitting EXCEPT ![p] = [at |-> "push", task |-> t]]
                  /\ UNCHANGED dropped
        /\ UNCHANGED <<tasks, pendingTasks, working, stopped>> /\ OutSame

StripeSpread(t) == CHOOSE s \in Stripes :       \* mutant: tasks are spread, not keys
    Cardinality({r \in Stripes : Len(tasks[r]) < Len(tasks[s])}) = 0
StripeIndex(t) == StripeOf[t[1]]

\* Under the stripe's lock.
SubmitPushes(p) ==
    LET t == submitting[p].task
        s == StripeIndex(t)
    IN  /\ submitting[p].at = "push"
        /\ IF Len(tasks[s]) >= MaxPending
             THEN /\ Drop(t) /\ submitting' = [submitting EXCEPT ![p] = Nothing]
                  /\ UNCHANGED <<tasks, pendingTasks>>
             ELSE /\ tasks' = [tasks EXCEPT ![s] = Append(@, t)]
                  /\ pendingTasks' = pendingTasks + 1
                  /\ submitting' = [submitting EXCEPT ![p].at = "notify"]
                  /\ UNCHANGED dropped
        /\ UNCHANGED <<submitted, working, stopped>> /\ OutSame

Woken(s) == IF working[s] = Asleep THEN Nothing ELSE working[s]

\* notify_one, after the lock.
SubmitNotifies(p) ==
    LET s == StripeIndex(submitting[p].task)
    IN  /\ submitting[p].at = "notify"
        /\ submitting' = [submitting EXCEPT ![p] = Nothing]
        /\ working' = [working EXCEPT ![s] = Woken(s)]
        /\ UNCHANGED <<submitted, tasks, pendingTasks, stopped, dropped>> /\ OutSame

-----------------------------------------------------------------------------
(* workerLoop *)

WorkerSame == UNCHANGED <<submitting, submitted, stopped, exiting, brokerLog, dropped,
                          undelivered, discarded>>

WorkerSleepsUnseen(s) ==        \* mutant: a wait without a predicate
    /\ working[s] = Nothing /\ s \notin stopped
    /\ working' = [working EXCEPT ![s] = Asleep]
    /\ UNCHANGED <<tasks, pendingTasks, local, failed>> /\ WorkerSame

WorkerSleeps(s) ==
    /\ working[s] = Nothing /\ tasks[s] = <<>> /\ s \notin stopped
    /\ working' = [working EXCEPT ![s] = Asleep]
    /\ UNCHANGED <<tasks, pendingTasks, local, failed>> /\ WorkerSame

WorkerTakes(s) ==
    /\ working[s] = Nothing /\ tasks[s] # <<>>
    /\ working' = [working EXCEPT ![s] = [at |-> "taken", task |-> Head(tasks[s])]]
    /\ tasks' = [tasks EXCEPT ![s] = Tail(@)]
    /\ UNCHANGED <<pendingTasks, local, failed>> /\ WorkerSame

\* The count goes down after the lock.
WorkerCounts(s) ==
    /\ working[s].at = "taken"
    /\ pendingTasks' = pendingTasks - 1
    /\ working' = [working EXCEPT ![s].at = "produce"]
    /\ UNCHANGED <<tasks, local, failed>> /\ WorkerSame

\* getTopic and safeProduce: into librdkafka's queue, or an error that is counted.
\* No second attempt.
WorkerProduces(s) ==
    /\ working[s].at = "produce"
    /\ \/ local' = Append(local, working[s].task) /\ UNCHANGED failed
       \/ failed' = failed \cup {working[s].task} /\ UNCHANGED local
    /\ working' = [working EXCEPT ![s] = Nothing]
    /\ UNCHANGED <<tasks, pendingTasks>> /\ WorkerSame

Gone == [at |-> "gone"]

WorkerLeaves(s) ==
    /\ working[s] = Nothing /\ tasks[s] = <<>> /\ s \in stopped
    /\ working' = [working EXCEPT ![s] = Gone]
    /\ UNCHANGED <<tasks, pendingTasks, local, failed>> /\ WorkerSame

-----------------------------------------------------------------------------
(* The producer *)

BrokerSame == UNCHANGED <<submitting, submitted, tasks, pendingTasks, working, stopped,
                          dropped, failed>>

\* An idempotent producer: retries neither double nor reorder what is delivered.
Deliver ==
    /\ local # <<>>
    /\ brokerLog' = Append(brokerLog, Head(local))
    /\ local' = Tail(local)
    /\ UNCHANGED <<exiting, undelivered, discarded>> /\ BrokerSame

\* delivery.timeout.ms is over.
DeliveryFails ==
    /\ local # <<>>
    /\ undelivered' = undelivered \cup {Head(local)}
    /\ local' = Tail(local)
    /\ UNCHANGED <<exiting, brokerLog, discarded>> /\ BrokerSame

-----------------------------------------------------------------------------
(* Exit *)

ExitSame == UNCHANGED <<submitting, submitted, tasks, pendingTasks, brokerLog, dropped, failed,
                        undelivered>>

\* The event loops have ended: nobody submits any more.
ExitBegins ==
    /\ exiting = "no" /\ \A p \in Submitters : ~InHand(p)
    /\ exiting' = "queue"
    /\ UNCHANGED <<working, stopped, local, discarded>> /\ ExitSame

\* The queue's destructor, stripe by stripe.
StopStripe(s) ==
    /\ exiting = "queue" /\ s \notin stopped
    /\ stopped' = stopped \cup {s}
    /\ working' = [working EXCEPT ![s] = Woken(s)]
    /\ UNCHANGED <<exiting, local, discarded>> /\ ExitSame

JoinWorkers ==
    /\ exiting = "queue" /\ \A s \in Stripes : working[s] = Gone
    /\ exiting' = "producer"
    /\ UNCHANGED <<working, stopped, local, discarded>> /\ ExitSame

\* KafkaManager::stop: a flush that waits five seconds, then the producer goes with
\* what it still holds.
StopProducer ==
    /\ exiting = "producer"
    /\ discarded' = discarded \cup Range(local)
    /\ local' = <<>>
    /\ exiting' = "done"
    /\ UNCHANGED <<working, stopped>> /\ ExitSame

Worker(s) == WorkerSleeps(s) \/ WorkerTakes(s) \/ WorkerCounts(s) \/ WorkerProduces(s)
             \/ WorkerLeaves(s)
Submits(p) == SubmitPushes(p) \/ SubmitNotifies(p)

QueueNext ==
    \/ \E p \in Submitters : Submits(p) \/ \E k \in ArchiveKeys : SubmitChecks(p, k)
    \/ \E s \in Stripes : Worker(s) \/ StopStripe(s)
    \/ Deliver \/ DeliveryFails
    \/ ExitBegins \/ JoinWorkers \/ StopProducer

\* Threads that can go on do, and an exit that has begun goes on.
QueueSafety == QueueInit /\ [][QueueNext]_queueVars
QueueSpec ==
    /\ QueueSafety
    /\ \A p \in Submitters : WF_queueVars(Submits(p))
    /\ \A s \in Stripes : WF_queueVars(Worker(s)) /\ WF_queueVars(StopStripe(s))
    /\ WF_queueVars(JoinWorkers)

-----------------------------------------------------------------------------
(* Properties *)

AllTasks == UNION {{k} \X (1 .. MaxPerKey[k]) : k \in ArchiveKeys}

QueueTypeOK ==
    /\ pendingTasks \in Nat
    /\ \A s \in Stripes : Range(tasks[s]) \subseteq AllTasks
    /\ Range(local) \subseteq AllTasks /\ Range(brokerLog) \subseteq AllTasks
    /\ exiting \in {"no", "queue", "producer", "done"}

\* The archive of a room has its messages in the order of their numbers, with
\* holes where one was dropped or failed but never two the wrong way round.
\* (one stripe for a key, one worker for a stripe, one attempt)
BrokerInOrder == \A m, n \in DOMAIN brokerLog :
    m < n /\ brokerLog[m][1] = brokerLog[n][1] => brokerLog[m][2] < brokerLog[n][2]

HeldTask(t) ==
    \/ \E p \in Submitters : submitting[p] = [at |-> "push", task |-> t]
    \/ \E s \in Stripes : \/ t \in Range(tasks[s])
                          \/ working[s] = [at |-> "taken", task |-> t]
                          \/ working[s] = [at |-> "produce", task |-> t]

\* Every message submitted is in exactly one place, and after the queue has been
\* destroyed none is left in it: what is not in the broker's log is in a counter,
\* but for what the last flush left behind.  (~OrderedTaskQueue drains)
TasksInOnePlace ==
    /\ \A k \in ArchiveKeys : \A n \in 1 .. submitted[k] :
        LET t == <<k, n>>
            places == <<HeldTask(t), t \in Range(local), t \in Range(brokerLog), t \in dropped,
                        t \in failed, t \in undelivered, t \in discarded>>
        IN  Cardinality({x \in DOMAIN places : places[x]}) = 1
    /\ exiting \in {"producer", "done"} => ~\E t \in AllTasks : HeldTask(t)

\* No task sleeps in the queue with its worker, and an exit comes to its end.
\* (notify after the push; the predicate of the wait)
QueueDrains ==
    /\ \A s \in Stripes : []<>(tasks[s] = <<>>)
    /\ []<>(exiting # "queue")

\* Every task gets somewhere, and nowhere twice.
EveryTaskAccounted == []TasksInOnePlace /\ QueueDrains
=============================================================================

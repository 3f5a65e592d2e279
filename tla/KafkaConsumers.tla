--------------------------- MODULE KafkaConsumers ---------------------------
(***************************************************************************)
(* The two consumers (kafkaManager/AsyncKafkaConsumer.h, ...One.h), the    *)
(* pool their messages are handled on (coroutinePool/TbbCoroutinePool.h)   *)
(* and the order in which the process takes them down (aop/Application.h,  *)
(* main.cc).                                                               *)
(*                                                                         *)
(* exit() runs static destructors and atexit handlers from one stack,      *)
(* last in first out, while every other thread goes on.  The pool is a     *)
(* function-local static: it enters the stack when it is first used, which *)
(* is when the first message arrives.  Using it after its destructor is    *)
(* undefined: a task may run all the same, and a wait may return at once.  *)
(***************************************************************************)
EXTENDS Integers, Sequences, FiniteSets, SequencesExt

CONSTANTS
    FirstConsumer, SecondConsumer,
    MaxActiveTasks,     \* 32768
    MaxOffset           \* bound: messages for a consumer

ASSUME ConsumersAssumption ==
    /\ FirstConsumer # SecondConsumer
    /\ {FirstConsumer, SecondConsumer} \cap {"logger", "hook", "pool"} = {}
    /\ MaxActiveTasks \in Nat /\ MaxOffset \in Nat

Consumers == {FirstConsumer, SecondConsumer}
Messages == Consumers \X (1 .. MaxOffset)

VARIABLES
    booting,        \* what the start has still to do
    statics,        \* what exit() has to undo, the latest last
    unwinding,      \* what exit() is undoing: the steps left of it
    pool,           \* "none", "alive", "dead", "misused" (see Misuse)
    poller,         \* consumer -> "none", "polling", "gone"
    stopAsked,      \* stop_
    message,        \* message -> where it is
    open,           \* consumers whose rd_kafka_t exists
    committed,      \* consumer -> the offset committed last
    loggerUp,
    poolFirst       \* history: exit() took the pool down while a thread polled

kafkaVars == <<booting, statics, unwinding, pool, poller, stopAsked, message, open, committed,
               loggerUp, poolFirst>>

Step(op, what) == [op |-> op, what |-> what]

\* The logger is touched first, the hook is registered last.
BootOrder == <<Step("static", "logger"),
               Step("start", FirstConsumer), Step("static", FirstConsumer),
               Step("start", SecondConsumer), Step("static", SecondConsumer),
               Step("static", "hook")>>

KafkaInit ==
    /\ booting = BootOrder
    /\ statics = <<>> /\ unwinding = <<>>
    /\ pool = "none"
    /\ poller = [c \in Consumers |-> "none"]
    /\ stopAsked = {} /\ open = {} /\ loggerUp = TRUE /\ poolFirst = FALSE
    /\ message = [m \in Messages |-> "broker"]
    /\ committed = [c \in Consumers |-> 0]

-----------------------------------------------------------------------------
(* Start *)

BootSame == UNCHANGED <<unwinding, pool, stopAsked, message, committed, loggerUp, poolFirst>>

\* A consumer's poll threads run before its constructor has returned.
Boot ==
    /\ booting # <<>>
    /\ LET s == Head(booting)
       IN  IF s.op = "start"
             THEN /\ poller' = [poller EXCEPT ![s.what] = "polling"]
                  /\ open' = open \cup {s.what}
                  /\ UNCHANGED statics
             ELSE statics' = Append(statics, s.what) /\ UNCHANGED <<poller, open>>
    /\ booting' = Tail(booting)
    /\ BootSame

\* The second consumer cannot be made (the same goes for the first: then there is
\* nothing to take down).  The start goes on without it and without the hook.
BootGivesUp ==
    /\ booting # <<>> /\ Head(booting) = Step("start", SecondConsumer)
    /\ booting' = <<>>
    /\ UNCHANGED <<statics, poller, open>> /\ BootSame

-----------------------------------------------------------------------------
(* Poll threads and tasks *)

InPool(m) == message[m] \in {"task", "handled", "committed"}
Active == {m \in Messages : InPool(m)}
PoolSame == UNCHANGED <<booting, statics, unwinding, pool, stopAsked, poller, open, loggerUp,
                        poolFirst>>

\* instance(): the first use builds it.
UsePool ==
    /\ pool' = (IF pool = "none" THEN "alive" ELSE pool)
    /\ statics' = (IF pool = "none" THEN Append(statics, "pool") ELSE statics)

\* consumeMessages and submitMessageTask; the pool's refusal is not looked at, and
\* the message is never handled nor freed.
Poll(c, n) ==
    LET m == <<c, n>>
    IN  /\ poller[c] = "polling" /\ c \notin stopAsked
        /\ message[m] = "broker"
        /\ \A k \in 1 .. n - 1 : message[<<c, k>>] # "broker"
        /\ IF Cardinality(Active) > MaxActiveTasks
             THEN message' = [message EXCEPT ![m] = "leaked"] /\ UsePool
             ELSE /\ message' = [message EXCEPT ![m] = "task"]
                  /\ IF pool \in {"dead", "misused"}
                       THEN pool' = "misused" /\ UNCHANGED statics
                       ELSE UsePool
        /\ UNCHANGED <<booting, unwinding, stopAsked, poller, open, committed, loggerUp,
                       poolFirst>>

PollEnds(c) ==
    /\ poller[c] = "polling" /\ c \in stopAsked
    /\ poller' = [poller EXCEPT ![c] = "gone"]
    /\ UNCHANGED <<booting, statics, unwinding, pool, stopAsked, message, open, committed,
                   loggerUp, poolFirst>>

\* An error for a message, or an exception of the handler: logged, freed.
TaskFails(m) ==
    /\ message[m] = "task"
    /\ message' = [message EXCEPT ![m] = "freed"]
    /\ UNCHANGED committed /\ PoolSame

TaskHandles(m) ==
    /\ message[m] = "task"
    /\ message' = [message EXCEPT ![m] = "handled"]
    /\ UNCHANGED committed /\ PoolSame

\* Tasks of one partition run side by side: the last to commit wins.
TaskCommits(m) ==
    /\ message[m] = "handled"
    /\ message' = [message EXCEPT ![m] = "committed"]
    /\ committed' = [committed EXCEPT ![m[1]] = m[2]]
    /\ PoolSame

TaskFrees(m) ==
    /\ message[m] = "committed"
    /\ message' = [message EXCEPT ![m] = "freed"]
    /\ UNCHANGED committed /\ PoolSame

-----------------------------------------------------------------------------
(* Exit *)

RequestStopNoWait(c) == <<Step("stop", c), Step("join", c)>>    \* mutant: tasks are left
RequestStop(c) == <<Step("stop", c), Step("join", c), Step("wait", c)>>

\* What undoing an entry of the stack consists of.
Undoing(what) ==
    CASE what = "hook" -> RequestStop(FirstConsumer) \o RequestStop(SecondConsumer)
                          \o <<Step("wait", what)>>
      [] what = "pool" -> <<Step("wait", what), Step("end", what)>>
      [] what = "logger" -> <<Step("end", what)>>
      [] OTHER -> Append(RequestStop(what), Step("end", what))

\* The event loops have ended, or a port is taken and trantor calls exit(1).
ExitNext ==
    /\ booting = <<>> /\ unwinding = <<>> /\ statics # <<>>
    /\ unwinding' = Undoing(Last(statics))
    /\ statics' = Front(statics)
    /\ poolFirst' = (poolFirst \/ (Last(statics) = "pool" /\ \E c \in Consumers : poller[c] = "polling"))
    /\ UNCHANGED <<booting, pool, poller, stopAsked, message, open, committed, loggerUp>>

Undo == Head(unwinding)
Undone(op) == unwinding # <<>> /\ Undo.op = op /\ unwinding' = Tail(unwinding)
UndoSame == UNCHANGED <<booting, poller, message, committed, poolFirst>>

UndoStop ==
    /\ Undone("stop")
    /\ stopAsked' = stopAsked \cup {Undo.what}
    /\ UNCHANGED <<statics, pool, open, loggerUp>> /\ UndoSame

UndoJoin ==
    /\ Undone("join")
    /\ poller[Undo.what] # "polling"
    /\ UNCHANGED <<statics, pool, stopAsked, open, loggerUp>> /\ UndoSame

\* waitAll; nothing can be said of it once the pool is dead.
UndoWait ==
    /\ Undone("wait")
    /\ pool \in {"dead", "misused"} \/ Active = {}
    /\ UsePool
    /\ UNCHANGED <<stopAsked, open, loggerUp>> /\ UndoSame

\* Misuse: a poll thread nobody has stopped hands the pool a task between the wait of
\* its destructor and its end, or after it.
Destroyed == IF Active = {} THEN "dead" ELSE "misused"

UndoEnd ==
    /\ Undone("end")
    /\ LET what == Undo.what
       IN  /\ pool' = (IF what = "pool" THEN Destroyed ELSE pool)
           /\ open' = open \ {what}
           /\ loggerUp' = (loggerUp /\ what # "logger")
    /\ UNCHANGED <<statics, stopAsked>> /\ UndoSame

KafkaNext ==
    \/ Boot \/ BootGivesUp \/ ExitNext \/ UndoStop \/ UndoJoin \/ UndoWait \/ UndoEnd
    \/ \E c \in Consumers : PollEnds(c) \/ \E n \in 1 .. MaxOffset : Poll(c, n)
    \/ \E m \in Messages : TaskFails(m) \/ TaskHandles(m) \/ TaskCommits(m) \/ TaskFrees(m)

KafkaSpec == KafkaInit /\ [][KafkaNext]_kafkaVars

-----------------------------------------------------------------------------
(* Properties *)

KafkaTypeOK ==
    /\ pool \in {"none", "alive", "dead", "misused"}
    /\ poller \in [Consumers -> {"none", "polling", "gone"}]
    /\ message \in [Messages -> {"broker", "task", "handled", "committed", "freed", "leaked"}]
    /\ stopAsked \subseteq Consumers /\ open \subseteq Consumers
    /\ committed \in [Consumers -> 0 .. MaxOffset]
    /\ loggerUp \in BOOLEAN /\ poolFirst \in BOOLEAN

\* A message in hand has the pool it is handled on, its rd_kafka_t and the logger.
Supplied(m) == InPool(m) => pool = "alive" /\ m[1] \in open /\ loggerUp

\* Whatever point of the start or of the exit the process is at, a poll thread has its
\* rd_kafka_t and the logger, and a message in hand has what Supplied says, unless exit()
\* came to the pool before anybody had stopped the poll threads.  That case is not
\* excused by the comments: it is TasksEndFirst, which does not hold.
TasksOutlivedByTheirConsumer ==
    /\ \A c \in Consumers : poller[c] = "polling" => c \in open /\ loggerUp
    /\ ~poolFirst => \A m \in Messages : Supplied(m)

\* The hook is registered last of all, so that it should run before anything is destroyed.
HookRegistered == booting = <<>> /\ poller[SecondConsumer] # "none"

\* "On the way out the consumers must first be stopped, then the pool drained", and only
\* then comes what the tasks use (Application.h, AsyncKafkaConsumer.h): with the hook in
\* place no message is in hand without its pool, its rd_kafka_t and the logger.
TasksEndFirst == HookRegistered => \A m \in Messages : Supplied(m)
=============================================================================

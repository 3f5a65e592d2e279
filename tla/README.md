# loong-boot: a verification development in TLA+

loong-boot is a C++ server built on drogon: a chat over WebSockets with rooms,
replay after reconnection and a Redis bus between instances, a Kafka archive
behind it, and beside it HTTP demonstration end points, statement builders and
helpers. This directory keeps TLA+ models of the parts of it that are concurrent
or stateful, the TLC runs that check them and the proofs about them.

## 1. The system

Paths are relative to the repository's sources.

| component | state | operations | interacts with | hard behaviour |
|---|---|---|---|---|
| **Room fan-out** `ws_controllers/RoomRegistry.h` | per room: member buckets (`dist`), shards (queue, `busy`, snapshot), `seq`, journal, counters; registry: ready queue, in-flight count | `subscribe`, `unsubscribe`, `publishSharedImpl`, `drainShard`, `fanOutToSnapshot`, `workerLoop` | called by the connection's IO thread and by the cluster bus; hands batches to trantor event loops | one drainer per shard, lock-free wake-up by `busy`, re-dealing of members, all-or-nothing admission, exceptions between two steps |
| **Room table, journals** (same file) | `rooms_`, `roomSeqWatermark_`, `retainedJournals_`, `journalOrder_`, `journalRetainedEntries_` | `getOrCreateRoom`, the tail of `unsubscribe`, `replay`, `enforceJournalBudget` | every operation looks up under `roomsMtx_` and acts under `pubMtx` later | the room may be retired and made again in between; books kept by hand |
| **Pool parking** (same file) | `ready_`, `readyCount_`, `parked_`, the condition variable | `enqueueReady`, `workerLoop`, the destructor | fan-out | notify without the lock, spinning, lost wake-ups |
| **Chat messages** `ws_controllers/ChatWebsocket.cc` | `dedupSeen`, in-flight quota | `handleNewMessage`, `deliverDirectLocally`, `sweepDedupTable` | room registry, persistence queue, bus | look-up and registration are apart; exceptions after acceptance |
| **Cluster bus** (same file) | `clusterBusReady`, last echo, last number per origin and room | `publishToCluster`, the subscription's callback in `initClusterBus`, `checkClusterRoomSeq`, `probeClusterBus` | Redis pub/sub, other instances | loss, reordering, restart of an origin, late echoes |
| **Connections, flow control** (same file, `ChatWebsocket.h`) | `userNameToConn`, gates, congestion times, token buckets | `handleNewConnection`, `handleConnectionClosed`, `sweepConnectionFlow`, idle eviction, `allowMessage` | room registry (gates), event loops | half-made connections, gate opened while congested, integer refill |
| **Browser client** `chat.html`, with `handleSync` | cursor, sync state and buffer, pending messages | `beginSync`, `applyIncoming`, `handleSyncDone`, `flushPendingAcks` | server, over a connection that breaks | time-outs racing late answers, retries, restarts of the server |
| **Persistence queue** `utils/OrderedTaskQueue.h`, `KafkaManager.cpp` | stripes, `pending_`, the producer's out-queue | `submit`, workers, the destructor, delivery reports, `stop` | publishers, Kafka | order per key, limit checked outside the lock, an exit while tasks come in |
| **Consumers, exit** `kafkaManager/`, `coroutinePool/`, `aop/Application.h` | poll threads, tasks in hand, open consumers, statics still to be undone | poll, submit, handle, commit, free; boot, exit hook, destructors | pool, logger | order of destruction, refused tasks, a start that fails half-way |
| **Message ids** `utils/SnowflakeId.h` | one packed atomic | `next` | chat messages | compare-and-swap, clock set back, restart |
| **Limited log** `utils/RateLimitedLog.h` | last time, suppressed count | `allow`, `takeSuppressed`, the timer's flush | everything that logs | lost race, tail of a burst |
| **Word filter** `service/` | tries of words and stop words | `insert`, `getSensitive`, `replaceSensitive` | controllers | overlapping words, stop words inside a hit |
| **SQL builders** `utils/Sql*.h` | clauses, values, rows of a batch | `where`..., `having`, `set`, `exec`, `batch` | database | values bound by position; batches cut into statements |
| metrics, HTTP controllers, filters, encodings, MQTT, retry helper, tests | none that a model would add to | | | not modelled (section 6) |

What makes each component correct, in one line each:

* fan-out: each member gets the room's messages in order, none twice and none
  missing except through its own closed gate or an exception; every accepted
  message is eventually settled; no queue exceeds its limit;
* room table: nobody sits in a room that messages cannot find, numbers rise
  across re-creation, replay never says "nothing missed" when something was, the
  journal limits are kept by books that balance;
* pool: no shard waits in the ready queue while all workers sleep;
* chat messages: a message sent again is not delivered again, and the
  acknowledgement says what happened; 200 for a direct message is kept;
* bus: an instance reported ready does receive, soon enough after it stops to; the
  gap counter overlooks no loss (that it counts nothing else does not hold, section 5);
  clients see one series of numbers;
* connections: after close nothing of the connection is left in any table; a
  congested connection is skipped and later served again; a silent one goes;
* browser client: the cursor passes nothing that was neither shown nor reported
  missing; a message sent is acknowledged or given up in the end;
* persistence queue: the broker has a room's messages in order; every task
  accepted is run, once, also when the process ends;
* consumers, exit: nothing a task or a poll thread uses is destroyed under it (which
  holds of the pool only as long as exit() comes to it after the hook, section 5);
* ids: no two calls return the same id; log: every occurrence is reported;
* word filter: the result spells no listed word, and no other character is masked;
* SQL builders: every hole gets its own value; a batch does what its rows would
  do one after the other.

## 2. Modules

| module | models | kind |
|---|---|---|
| `OrderedRoom` | what a room promises, without shards or threads | abstract specification |
| `RoomFanout` | one room from `subscribe` and `publish` to the connections | detailed specification |
| `RoomTable` | rooms by name, re-creation, watermarks, journals, replay, budget | specification |
| `WorkerParking` | how the pool's workers spin, park, wake and stop | specification |
| `ChatMessages` | one message through `handleNewMessage` | specification |
| `DirectDelivery` | a message to all sessions of a user | specification |
| `ClusterBus` | instances numbering, publishing, receiving and comparing | specification |
| `BusProbe` | the probe and the verdict on the bus | specification |
| `ChatSessions` | connections from opening to closing, the timer | specification |
| `MessageRate` | the token bucket | specification |
| `RoomClient` | the page with the part of the server it catches up with | specification |
| `PersistQueue` | striped queue, producer, exit | specification |
| `KafkaConsumers` | consumers, task pool, start and exit of the process | specification |
| `MessageIds`, `LogLimiter` | two lock-free helpers | specifications |
| `TextFilter`, `SqlBuilders` | two sequential algorithms over all small inputs, with reference definitions | specifications |
| `MCRoomFanout`, `MCRoomTable`, `MCDirectDelivery` | constants and symmetry for TLC | instances |
| `MCRoomTables` | `RoomTable` in two bounded settings in one run | instance |
| `MCChatServer`, `MCProcess` | several specifications in one run | instances |
| `RoomFanoutProofs` | types, books and claims of `RoomFanout`; order, nothing forgotten, the refinement of `OrderedRoom`, back-pressure | proofs |
| `RoomTableProofs` | types, no orphans, books, the budget of `RoomTable`; numbers, journals and replay across re-creation | proofs |
| `DataProofs` | the word filter (`TextFilter`), the statement builders and their batches (`SqlBuilders`) | proofs |
| `ServerProofs` | `MCChatServer` and `MCProcess` are their parts, and keep what these keep | proofs |
| `ProcessProofs` | connections (`ChatSessions`), their rate (`MessageRate`), the queue of the archive (`PersistQueue`), consumers and exit (`KafkaConsumers`), sleeping workers, log lines and the bus verdict (`WorkerParking`, `LogLimiter`, `BusProbe`) | proofs |
| `ChatProofs` | ids (`MessageIds`), answers to messages (`ChatMessages`), quota and promise of `DirectDelivery` | proofs |
| `ClusterBusProofs` | what instances send and notice (`ClusterBus`) | proofs |
| `RoomClientProofs` | the page's types and its catching up (`RoomClient`) | proofs |

### RoomFanout

The grain of atomicity is the lock. What the code does under one `Shard::mtx`,
under `poolMtx_`, or alone under `pubMtx` is one action. A publish keeps
`pubMtx` over several actions (`pubOwner`), because drainers and loops go on
meanwhile:

| code | actions |
|---|---|
| `subscribe` (`shardsFor`, `reshapeLocked`) | `SubscribeJoin` (the shard count stays), `SubscribeReshape` (it changes, all shards idle) |
| `unsubscribe` | `Unsubscribe` |
| `publishSharedImpl` | `PublishEnter`, then `PublishRefused` or `PublishLock`; `PublishBuildThrows`, or `PublishPush` once per target shard and `PublishCommit`; with inline fan-out also `InlineDrainNext` and `PublishReturn` |
| `workerLoop` | `WorkerTake` |
| `drainShard` | `DrainPop`, `DrainIdle`, `DrainYield`, `DispatchThrows` |
| `fanOutToSnapshot` | `Dispatch` per loop group, `SendDirect` for members without a loop |
| the batch on a loop thread | `LoopRun` |
| `Entry::gate`, written by `ChatWebsocket` | `GateCloses`, `GateOpens` |

A message is its room number, a connection its subscription id. A shard object
is named by the reshape that made it and its slot, so that a drainer still holding
an old object after a reshape is visible as such. `joinedAt`, `skipped` and `lost`
are history variables: they record when an id joined and what its gate or an
exception cost it. The fast path of the single non-empty shard and the general
two-phase path of `publishSharedImpl` differ only in how they find the target
shards (`TargetSlots`). `reserve` calls, statistics, payload bytes and the trace
id are left out. The room ends with its last member here; what follows is
`RoomTable`.

### RoomTable

One action is one hold of `roomsMtx_` or of one `pubMtx`. Each operation is split
where the code lets go of one lock before it takes the next: `SubscribeFind` /
`SubscribeCreate` then `SubscribeEnter` or `SubscribeRetry`; `PublishFind` then
`PublishCommit`; `ReplayFind` then `ReplayRead`; `Unsubscribe` then `Erase` (the
last leaver keeps `pubMtx` while it waits for `roomsMtx_`: the set `erasing`);
`BudgetScan`, `BudgetMeasure` and `BudgetClear` once per room, `BudgetEnd`. A room
object is a number, given in the order of creation, so that two objects of one
name can be told apart. `heard` and `spoke` are history: what the members of a
name had a chance to get, and when somebody last spoke there.

`Publishers` find a room by name. The cached handle of the code (`publish` with a
`RoomHandle`) gives the same two steps: read `retired`, later lock.

### How the two fit together

`RoomFanout` follows one room object for its life; `RoomTable` follows names over
many objects, with a publish reduced to its number and the members at the commit.
The number, the journal and `retired` are in both with the same updates:
`PublishLock` to `PublishCommit` of the first is `PublishCommit` of the second
(both under one hold of `pubMtx`), `Unsubscribe` likewise.

### WorkerParking

`RoomFanout` takes a ready shard for one that some worker will drain (`WorkerTake` is
fair there). That rests on `WorkerParking`, where a drain is one step but waiting is
taken apart: `enqueueReady` is `EnqueuePush` (queue and counters under `poolMtx_`) and
later `EnqueueNotify` (which reads `parked_` without the lock); a worker spins without the lock
(`SpinSees`, `SpinTakes`, `SpinEnds`) and parks (`Park`: one hold of the lock; it sleeps
only if the predicate is false, and otherwise takes a shard or leaves at once). `parked`
counts a worker from its first sleep until it leaves `wait`; that the code counts one
that does not sleep up and down again shows only to a notifier, which then finds nobody
to wake. `Wake` is a worker that a notify has reached: it takes a shard, leaves, or,
when another was faster, goes on sleeping; `WakeAlone` is one that wakes on its own,
which the standard permits and nothing counts on (no fairness). After a drain
`EnqueuePush` by the worker puts the shard back, or `DrainEnds` makes it idle;
`StopPool` is the destructor.

### Messages

| code | actions |
|---|---|
| `handleNewMessage`, deduplication | `Lookup`, later `Register`; `SweepDedupTable`, `EntriesAge` |
| ... to a room (`fanOutRoom`, `persistRoomMessage`) | `RoomAccepts`, `RoomEmpty`, `RoomRefuses`, `RoomBroadcasts`, `RoomAnswers` |
| ... to a user | `DirectAccepts`, `DirectRefused`, `DirectAbsent`, `DirectAnswers` |
| ... its `catch` | `HandlerFails` between any two of them |
| `deliverDirectLocally` | `DirectBegin`, `DirectReserve`, `DirectScan`, `DirectDispatch`, `DirectDispatchFails`, `DirectDone`, `ExecuteBatch` on the loop |
| high-water mark and sweep, as seen by a delivery | `GateMoves` |

In `ChatMessages` what a room or a user's sessions say to a message is a free
choice; the modules that make it are `RoomFanout` and `DirectDelivery`. A key stands
for the triple of sender, room and client key. `excused` is history: messages
whose second copy may be delivered because both were handled at once, an exception
came between delivery and registration, or the entry was lost with a full table or
to its age. The code and its comments accept these.

### Bus

| code | actions |
|---|---|
| `fanOutRoom`, then `publishToCluster` after the lock | `EnterRoom`, `PublishRoom`, `PublishNotice`, then `HandToRedis` or `PublishFails` |
| Redis | `LosePacket`; any order |
| the callback in `initClusterBus`, with `checkClusterRoomSeq` | `ReceiveOwn`; `ReceiveAccepted`, `ReceiveNobody`, `ReceiveRefused` (all with `CheckClusterRoomSeq`) |
| a new process | `RestartInstance` (new `instId`, numbers from one) |
| `initClusterBus`, `probeClusterBus`, the echo | `BusStarts`, `BusStartFails`, `ProbeRound`, `Echo` |

`BusProbe` counts time in rounds of the timer; `DeadRounds` is `kDeadNanos /
kPeriodNanos`. The link goes down and comes back at any moment.

### Connections and client

`ChatSessions` has one step per hold of a lock or per call that may throw:
`Opens` (or `OpensBare`, which fails before a context is set), `EntersTable`,
`Subscribes` or `RoomFull`, `Joins`, with `OpeningFails` between any two;
`LeavesTable`, `LeavesRoom` or `ClosesBare` at the end. The timer works on a copy:
`EvictSnapshot`, `EvictNext`, `SweepSnapshot`, `SweepReads`, `SweepOpens`,
`TimerRests`. `HighWater` is the callback of the connection's output buffer (its two
stores, the gate and then the moment of congestion, are one step: a sweep that comes
between them judges by the old moment, as one that has read it just before does);
`CalmsDown` is the passing of time. `MessageRate` has `AllowFromBucket`,
`AllowRefilled`, `Refuse`, with time in ticks and the same integer divisions.

`RoomClient` is `chat.html` and, as the other end, `handleSync`, the journal and the
live frames of one room. Handlers of the page are actions (`ReceiveLive`,
`ReceiveBuffered`, `ReceiveOverflow`, `SyncDone`, `SyncRefused`, `ReceiveAck`,
`OnClose`), so are its timers (`SyncTimeout`, `RetrySync`, `AckTimeout`,
`BackOffOver`). The connection keeps order and loses what is under way when it goes.

### Processes and helpers

`PersistQueue`: `SubmitChecks` (the limit, without the lock; `submit` does not look at
the stop flag),
`SubmitPushes`, `SubmitNotifies`; `WorkerTakes`, `WorkerCounts`, `WorkerProduces`,
`WorkerSleeps`, `WorkerLeaves` per stripe; `Deliver`, `DeliveryFails`; at exit
`ExitBegins`, `StopStripe`, `JoinWorkers`, `StopProducer`. `TasksInOnePlace` counts a task
as dropped, failed, waiting, in hand or at the broker, never two of these.

`KafkaConsumers`: exit is a stack of what is to be undone (`statics`), each entry
expanding into the calls of that destructor or hook (`Undoing`). The pool is a
function-local static and enters the stack when it is first used: at boot, when a
message comes before the hook is registered, or on top of the hook, when the first one
comes later. `pool = "misused"` marks a use after its destructor, which is undefined; what
may then happen is a free choice. `poolFirst` is history: exit() came to the pool
while a thread still polled. `Supplied` says what a message in hand needs.
`TasksOutlivedByTheirConsumer` asks it of every behaviour without `poolFirst`; that there
is no other once the hook is registered, as the comments have it, is `TasksEndFirst`,
and the run `exit_pool` shows that there is.

`MessageIds`: `ReadClock`, `ReadState`, `Swap` (compare-and-swap, weak), `ClockSet`,
`RestartProcess`. `LogLimiter`: `AllowReadsClock`, `AllowReadsLast`, `Race`, `Refused`,
`WriteLine`, and the timer's `FlushTakes`, `FlushWrites`.

`TextFilter` computes the filter's answer with recursive functions over positions
and compares it with a definition by stretches of the text: one that spells a word has
the word's characters in their order and nothing but stop characters besides. `SqlBuilders` keeps of a
text only what decides where its holes are; the calls on a builder come in any order,
and a batch is executed statement by statement (`ChunkGoes`, `ChunkFails`) on a
small table.

### Several specifications in one run

The parts in `MCChatServer` and in `MCProcess` share no variable; how they affect
each other is in each of them as a free choice (a room refuses, a gate closes, an
exception comes). A product of their states would therefore show nothing more. The
variable `part` (`mover` in `MCProcess`), chosen at the start, says which one moves; the
fairness of a part is asked for only where that part moves. `ServerProofs` proves that
either of the two is, part by part, what the modules of the parts specify.

## 3. What TLC checks

All runs use `CHECK_DEADLOCK FALSE`: every bound (subscriptions, messages,
objects, faults) ends the behaviour when it is used up, and a server with no
client is supposed to stand still.

| run | shows |
|---|---|
| `fanout_pooled` | pool of two workers, one publisher, up to two shards, queue limit 1, batch 1: types, one drainer per busy shard, idle shards empty, order, nothing forgotten, books, back-pressure |
| `fanout_mixed` | two publishers (inline for small rooms), one worker, a member without a loop, one gate closure: refinement of `OrderedRoom`, and under fairness every accepted message is settled |
| `tables` | one name, re-created, replayed from every cursor while the budget runs, or two names that compete for one retained journal with one entry: replay is honest, journals unbroken, no orphan members, counters balance, numbers rise, each round of the budget gets back within its cap |
| `chat_server` | safety of bus, messages, direct delivery, rate, client, consumers, ids, word filter, builders |
| `process` | liveness of sessions, probe, client, queue, parking, log; tables without zombies or ghosts; order at the broker |
| `fanout_inline_throw`, `table_orphan`, `table_watermark`, `direct_quota`, `bus_gaps`, `exit_pool`, `page_skips` | *violations* (section 5) |

What the properties of the two large runs say:

| property | of | in words |
|---|---|---|
| `OneNumberSpace` | `ClusterBus` | clients of an instance see one series of numbers per room, and what was written here once |
| `LossNoticed`, `RegressionsHonest` | `ClusterBus` | no message that was broadcast and is missing escapes the gap counter, which besides holds only numbers that came late or were never broadcast; a regression is a late or doubled packet, also across restarts |
| `RetriedOnce`, `AckIsTrue` | `ChatMessages` | no second delivery of a retry; what the ACK says happened, and 503 or 404 left nothing behind |
| `DirectQuotaExact`, `DirectPromiseKept` | `DirectDelivery` | the quota is what is queued; who was told 200 has it everywhere |
| `RateFair` | `MessageRate` | never more than the rate (in whole ticks) and two bursts allow, and only a flood is cut off |
| `CatchUpHonest` | `RoomClient` | answers say what they leave out; an undisturbed cursor skips nothing |
| `TasksOutlivedByTheirConsumer` | `KafkaConsumers` | who polls has its consumer and the logger; unless exit() came to the pool while somebody polled, a message in hand has those and the pool |
| `IdsRise`, `CensorExact`, `BuilderSound`, `BatchAsOneByOne` | helpers | see section 1 |
| `NeitherZombieNorGhost`, `TimerKeepsUp` | `ChatSessions` | tables hold exactly the live connections; silent ones go and calm gates open |
| `BusJudged` | `BusProbe` | a dead bus is called alive for `DeadRounds` rounds at most, and a live one is used again |
| `PendingSettles` | `RoomClient` | no message of the page hangs while the connection stands |
| `BrokerInOrder`, `EveryTaskAccounted` | `PersistQueue` | order per room; each task in one place and in the end somewhere |
| `ReadyShardIsDrained` | `WorkerParking` | no lost wake-up, and all workers leave after stop |
| `EveryOccurrenceReported` | `LogLimiter` | the lines speak of everything in the end |

**Bounds of the room.** Three subscriptions with `SubsPerShard = 2` cross the
threshold from one shard to two, and back when members leave; two messages with a
queue limit and batch of one produce refusals, yields and hand-backs; two workers
give the races between two drainers of one room; `MaxFaults = 1` lets one exception
fall between any two steps. `MaxInFlight = 3` is reached by two messages to two
members. In `tables` a behaviour chooses one of two settings at its
start (`setting`): one name with two objects, three messages and a reader, or two names
with three objects and two messages. Two or three objects give every overlap of
an old and a new object; three messages with a journal of two give a cursor
before, in and after the journal; a single retained journal of one entry makes
every eviction path happen.

**Bounds of `chat_server`.** Two instances with one room, three numbers each, one
loss and one restart: a gap, a late packet and a fresh series at once, with a table
of one baseline that has to be emptied. Two handlers and a deduplication table of one
entry. Three sessions on two loops and one without, three messages and a quota of
four: the second delivery meets the limit. Two tokens in five ticks with a burst of
one over twelve ticks: a refill never comes out even. A page with three numbers, a journal and a buffer
of one, two connections, one restart of the server. Two consumers with two messages
and room for one task, at boot and at exit. Two threads for ids, two ids in a millisecond, a clock
from 0 to 2, one restart. All texts of up to four out of five characters against
all lists out of four words that overlap, nest and differ in case. Builders with four
calls; batches of three rows over two keys and four shapes of row, one or two rows in
a statement.

**Bounds of `process`.** Two connections with one name and room for one member; a
bus dead after three rounds, two probes under way; a page with one message of its own
and one of the room, two attempts; two submitters, two keys on two stripes and a limit
of one; two publishers, two pool workers, two shards that become ready twice; two
loggers. A higher bound repeats these situations and adds none that we could name.
Numbers that count up in the code for ever stop at the bounds marked so where the
constants are declared.

**Fairness** is asked only of what a running thread or timer does next; none of it
waits for a lock that is held for ever.

| module | weak fairness of | nothing assumed of |
|---|---|---|
| `RoomFanout` | a publisher inside a call, a worker taking a ready shard, a drainer, a loop | joining, leaving, starting a publish, gates, exceptions |
| `WorkerParking` | each worker, each `EnqueueNotify` | publishing, stopping |
| `ChatSessions` | the timer, a handler that has begun, the passing of time after congestion | peers |
| `BusProbe` | the timer's round, a probe that came back | the link |
| `RoomClient` | handlers of both sides, the page's timers | user, network, gate |
| `PersistQueue` | a submit that has begun, workers, an exit that has begun | delivery by Kafka |
| `LogLimiter` | a call that has begun, the timer's flush | further calls |

**Mutants.** Each property is also run against a plausible bug of the code, kept
next to the definition it changes and marked `mutant`; PROJECT.json names them.

## 4. What is proved

By TLAPS, for every value of the constants that meets the assumption of its module
(`BoundsAssumption`, `ThreadsAssumption`, `TableAssumption`, `SessionsAssumption`,
`QueueAssumption`, `MessagesAssumption`, `BusAssumption`, `IdsAssumption`,
`DirectAssumption`, `RateAssumption`, `ConsumersAssumption`, `ClientAssumption`, `ParkingAssumption`,
`LimiterAssumption`, `ProbeAssumption`, `FilterAssumption`, `SqlAssumption`: types of the
constants and that names of different things differ; the last two also that words have
no stop characters and that what a caller writes ends outside of quotes and comments), so for any number of threads, rooms, sessions,
connections, messages and faults:

| module | theorem | says |
|---|---|---|
| `RoomFanoutProofs` | `TypeCorrect` | `Spec => []TypeOK` |
| | `BooksAlwaysExact` | `Spec => []BookkeepingExact`: `nonEmptyShards`, `subCount`, the snapshots and the rule `id % k` agree with the member table |
| | `OneDrainer` | `Spec => []OneClaimPerBusyShard` |
| | `IdleUntilFault` | `Spec => [](faults = 0 => IdleShardIsEmpty)` |
| | `InOrder` | `Spec => []DeliveredInOrder` |
| | `NothingIsForgotten` | `Spec => []((faults = 0 \/ MaxShards = 1) => NothingForgotten)` |
| | `EmptyIdleShardsForgetNothing` | `Spec /\ []IdleShardIsEmpty => []NothingForgotten` |
| | `RoomIsOrdered` | `Spec /\ [](faults = 0) => IsOrderedRoom`, the refinement |
| | `BackPressureHolds` | `Spec => []BackPressureExact` |
| `RoomTableProofs` | `TypesKept`, `NobodyIsOrphaned`, `BooksOfJournalsBalance` | `Spec => []` of `TypeOK`, `NoOrphanMembers`, `RetainedExact` |
| | `BudgetIsRestored` | `Spec => BudgetRestored`, an action property |
| | `JournalsStayUnbroken`, `HeardNumbersKeepRising`, `ReplaysAreHonest` | `Spec /\ []MarksFit => []` of `JournalsUnbroken`, `HeardNumbersRise`, `ReplayHonest` |
| | `EnoughMarksSuffice` | the same from `Spec` alone when no more names than `MaxWatermarks` exist |
| `ProcessProofs` | `NoZombiesNoGhosts`, `SessionTypesKept` | `SessSafety => []` of `NeitherZombieNorGhost`, `SessTypeOK` |
| | `ArchiveIsInOrder`, `NoTaskIsLost`, `QueueTypesKept` | `QueueSafety => []` of `BrokerInOrder`, `TasksInOnePlace`, `QueueTypeOK` |
| | `RateIsFair`, `RateTypesKept` | `RateSpec => []` of `RateFair`, `RateTypeOK` |
| | `NothingEndsUnderATask`, `ConsumerTypesKept` | `KafkaSpec => []` of `TasksOutlivedByTheirConsumer`, `KafkaTypeOK` |
| | `NobodySleepsOverWork`, `ParkingTypesKept` | `ParkingSafety => []` of `NoWakeUpIsLost`, `ParkingTypeOK` |
| | `NoOccurrenceIsLost`, `LimiterTypesKept` | `LimiterSafety => []` of `EveryOccurrenceCounted`, `LimiterTypeOK` |
| | `FakeAcksAreBounded`, `ProbeTypesKept` | `ProbeSafety => []` of `FakeAcksBounded`, `ProbeTypeOK` |
| `ChatProofs` | `IdsAlwaysRise`, `IdTypesKept` | `IdsSpec => []` of `IdsRise`, `IdsTypeOK` |
| | `AcksAreTrue`, `ARetryIsNotDeliveredTwice`, `MessageTypesKept` | `MsgSpec => []` of `AckIsTrue`, `RetriedOnce`, `MsgTypeOK` |
| | `TheQuotaIsExact`, `ThePromiseIsKept`, `DirectTypesKept` | `DirectSpec => []` of `DirectQuotaExact`, `DirectPromiseKept`, `DirectTypeOK` |
| `ClusterBusProofs` | `RoomsHaveOneNumberSpace`, `LossIsNoticed`, `RegressionsAreHonest`, `BusTypesKept` | `BusSpec => []` of `OneNumberSpace`, `LossNoticed`, `RegressionsHonest`, `BusTypeOK` |
| `RoomClientProofs` | `CatchingUpIsHonest`, `ClientTypeCorrect` | `ClientSafety => []` of `CatchUpHonest`, `ClientTypeOK` |
| `DataProofs` | `FilterIsExact`, `FilterTypesOK` | `FilterSpec => []` of `CensorExact`, `FilterTypeOK` |
| | `BuilderIsSound`, `BatchesAsOneByOne`, `SqlTypesOK` | `SqlSpec => []` of `BuilderSound`, `BatchAsOneByOne`, `SqlTypeOK` |
| `ServerProofs` | `ServerIsItsParts`, `ProcessIsItsParts` | `MCChatServer`'s `Spec` implies the specification of each of its parts, `MCProcess`'s `ProcessSpec` the safety of each of its own |
| | `ServerTypesKept`, `ServerKeepsItsPromises` | `Spec => []` of `ServerTypeOK` and of the other fourteen invariants of `chat_server` |
| | `ProcessTypesKept`, `ProcessKeepsItsPromises` | `ProcessSpec => []` of `ProcessTypeOK` and of the other invariants of `process`, with the safety halves of what it checks of liveness |

`SessSafety`, `QueueSafety` and so on are a part's specification without its fairness, which
no proof of an invariant needs: `SessSpec` is `SessSafety` and the fairness.

**Hypotheses.** Three results need more than the specification, and in each case a run
shows that they would be false without it. Hypotheses inside a property are of the same
kind: `~poolFirst` in `TasksOutlivedByTheirConsumer` (`exit_pool`), `skippedThenFailed` in
`DirectQuotaExact` (`direct_quota`), `~broken` in `CatchUpHonest` (`page_skips`), the numbers
never broadcast in `LossNoticed` (`bus_gaps`), `~overtaken` in `IdsRise` (a finding without
a run).

* `faults = 0 \/ MaxShards = 1`: an exception while a publisher drains inline leaves
  messages in an idle shard (`fanout_inline_throw`), and a later reshape throws them
  away. Where nothing has thrown, or there is nothing to reshape (one shard, which
  the constructor forces where there is no pool), nothing is forgotten.
  `EmptyIdleShardsForgetNothing` says that the stranded queue is the only way.
* `[](faults = 0)` for the refinement: what an exception loses, `OrderedRoom` never
  loses. It is the setting of `fanout_mixed`, which checks the same.
* `MarksFit`, at the moment a name is erased the table of watermarks has room for it:
  `table_watermark` shows numbers starting again when it has not. `EnoughMarks` bounds
  the names instead, which is what makes the hypothesis true in a deployment.

### Room fan-out

Layer by layer one inductive invariant grows; the actions are looked at only
where they write what the layer speaks of (the `WhoTouches...` lemmas).

**`IInv`** `== TypeOK /\ Locks /\ HandNeedsShard /\ Numbering /\ BookkeepingExact`. The
counters are exact after a join only if the joining id is new: `Numbering` bounds the
members and the reshapes by the ids given out. A number can be given back only by the
one who took it: `Locks` ties `pubOwner` to the publisher's program counter.
`HandNeedsShard` says that who has a message in hand has a shard.

**`ClaimInv`** `== HeldIsBusy /\ BusyIsHeld /\ HeldOnce`. Counting claims is not inductive
in a form a prover can use, so the invariant says instead that what the drainers, the
ready queue and the publishers' wake lists hold is busy, that what is busy somebody
holds, and that no two hold the same and no list has it twice. `OneClaim` turns this
into the cardinality of the property.

**`OrderInv`** `== ConnInv /\ PlaceInv /\ QueueInv /\ FreshInv`. A number passes four stages on
its way to a connection: waiting at the shard where the connection is at home
(`id % k`), in a drainer's hand, queued on the connection's loop, got. `ConnInv` and
`QueueInv` say that what is further on is smaller. This holds only because no connection
is served from two sides: `PlaceInv` says that whoever has a message in hand has the
home shard of those it is for, that only current shard objects are busy (hence a
reshape, which waits for idle shards, finds nothing in anyone's hand), and that shard
objects of later reshapes are untouched. `FreshInv` says that the number taken under
`pubMtx` is larger than all that is queued or sent, and stays so for every slot still to
be pushed although drainers and loops run meanwhile. Order survives the stranded queue
of `fanout_inline_throw`: what an exception loses is gone, what it leaves is in order.

**`NFInv`** `== AcceptedInv /\ PushedInv`. A number is touched for a connection once it was
handed out for it, and stays so; until then it waits in the queue of the connection's
bucket. `NothingForgotten` alone is not inductive: the message being published is
already numbered and in some queues only, so `PushedInv` says in which.

**`RefInv`** `== lost = {} /\ FreshIds /\ Gapless`. The refinement maps a member to the
highest number handed out for it, as in `RoomFanout`'s `INSTANCE`. That a batch is a
`Reach` step of `OrderedRoom` is that it goes to the next number of each member: what
was handed out has no gaps since the member joined (`Gapless`), from `NFInv` and the
order.

**`LoadInv`** `== RoomLeft /\ QueueBound /\ InFlightExact`. The limit is checked for all
shards before the first is pushed to; `RoomLeft` says that a slot still to be pushed to
keeps its room, since only the owner of `pubMtx` pushes and drainers only take.

### Room table and journals

**`IInv`** of `RoomTableProofs` says of an object whether it is made, in the table, retired,
or between the two locks of its last leaver (`erasing`), which is what makes
`NoOrphanMembers` inductive; that what a thread has looked up was made, though it may
have gone since; and that the shelf of retained journals and its books agree
(`Books`), with what retaining, evicting and handing over do to both.

**`BudgetInv`**: a round works from measurements that go stale. What the rooms hold beyond
what was measured arrived since the round began (`Weight(BeyondOf) <= budget.added`),
and the total is at least what the measurements still held add up to. Sums over rooms are
cardinalities of sets of (object, place) pairs, about which the library has facts.

**`RunsInv`**: a name has a last number and a journal whether there is a room or not
(`Last`, `Kept`), and so has every object ever made, which a publisher may still hold
after the room is gone. Both journals are unbroken runs up to the last number, agree
with what members have heard, and what a reader between its two locks is owed is in the
journal of what it found, or gone from it.

### Process, messages, bus

**`SessInv`**: at which stage of a connection's life the table and the room hold it. What
comes first in the opening is undone first in the closing, also when the opening broke
off, so that each handler finds what its stage promises.

**`OrderInv`** of `ProcessProofs`: along broker, librdkafka, worker, stripe and submitter the
messages of a key only get younger (`Pipeline`), and a key is only in its stripe. That
no task is in two places follows from the order; that none is lost is `PlaceInv`, with
`ExitInv` for what the exit has stopped; `CountInv` makes `pending_` the number of what
waits.

**`RateInv`**: the quota of a bucket that is refilled only when it is empty cannot be read
off its level. `BucketInv` says for every tick `s` up to now that since `s` the bucket has
given less than one burst, or that what it gave and still holds is at most two bursts and
what came in the time from `s` to its last fill; a fill adds no more than one burst, or
what came since the fill before. `RefusedInv` puts all refusals since the last message
that was let through within the time of one token after the last fill, which stays where
it is when nothing comes. The lemmas on integer division are stated for all numbers.

**`KafkaInv`** speaks of what the start has still to do (a suffix of `BootOrder`), what the
exit has still to undo (`statics`, with the logger at the bottom) and the steps left of
what it is undoing. Whoever polls lies in the stack, or its `join` is among the steps left,
or its constructor is about to return (`Joined`); a live pool lies in the stack or its end
is ahead (`PoolInv`); before the end of a consumer stand its `stop`, `join` and `wait`, and
what is behind it has held since (`EndInv`). Then the logger goes last and alone
(`LoggerGoes`). Of the pool itself `CoverInv` says: unless exit() came to it while
somebody polled (`poolFirst`), nobody polls any more when its destructor begins, and nobody
will, since the start is over; so no task is added, and what the destructor waits for is
the last one (`PollingIsOver`, `PoolEnding`). Then it was never used after its end.

**`ParkingInv`**: liveness of the pool is out of the prover's reach; what can be proved is
that there is always somebody for the scheduler to run. `ReadyIsAttended` says that while
a shard is ready some thread has pushed and not notified yet, or is a worker that is
awake or notified. The delicate step is a publisher that reads `parked_` as 0 or finds no
sleeper left to notify: `ParkedInv` says what `parked_` counts, `StopIsHeard` that no worker
has gone before the stop, so that some worker is awake and will look under the lock.
`EveryOccurrenceCounted` and `FakeAcksBounded` are the same kind of half: a sum over the
places an occurrence can be at, and an echo that cannot be younger than the outage.

**`DirectInv`**: a caller between its reservation and its last batch holds quota for exactly
the sessions not yet served (`CountsInv`: what it dispatched, what it skipped and the
sessions of the loops left are all sessions), and a loop one for each session and batch
queued in it. The two sets (`Undispatched`, `Queued`) change by one caller's share or one
batch at a time, which is `QuotaInv`. `ServedInv` says of every session whose loop is no
longer left that its copy is written or queued, whence the promise at the answer.

**`IdsInv`** adds to the rising ids that the packed state is never below an id given out
(`StateAhead`), and that in a life not overtaken by its clock every thread has read a
time past all earlier ids (`ClockAhead`), from which `PastEarlier` follows.

**`TruthInv`** and **`OnceInv`** (`ChatProofs`): every id is given once; a message leaves
something behind only once it was accepted; whoever was told no is finished and nobody
gets its id again, so an answer stays true. Of a key that was not excused one copy at a
time is served, and an accepted copy is in the table or its handler is on the way there,
so that a copy still to be delivered is the first.

**`SpaceInv`** and **`SeenInv`** (`ClusterBusProofs`): the name of a packet tells which life
of which instance numbered it (`NumbersGiven`); a packet is with its origin or was given
to Redis, once for every subscriber (`OnTheWay`); what a room took will not come again
(`InTheRooms`). The receiver's table holds the highest number of every name and room
heard of since it was emptied (`TablesTell`). Then a packet changes the gap counter by
what it changes in the set of missing numbers (`HolesGrow`: a late packet fills a hole
that stays counted, hence the regressions on the other side) and the other counter by
what it changes in the set of late packets. `HolesCounted` is the sum over all missing
numbers; they are of two kinds (`HolesAreTwoKinds`), lost and never broadcast, and the
property keeps the two apart.

**`CatchInv`** (`RoomClientProofs`): where the page's cursor may stand depends on what is
under way between page and server. While nothing went wrong (`~broken`), either nothing
is being caught up with and the cursor has a `Base`, a number up to which the page knows
everything since its first message while all that is on its way is known or beyond
(`Quiet`); or exactly one sync is under way, as a request naming such a base or as an
answer (`Catching`), and before an answer come the frames it claims (`Answers`). A page
without a first message starts anywhere, so until then what is under way must rise
(`RisingInv`). That one sync is under way at a time is the page's doing, that the answer
comes behind its frames the connection's. Steps that concern neither (acknowledgements,
sending again, the gate) move the frames at most one to the front (`Shifted`).
`SyncHonest`, the server's half, holds whatever went wrong, by the `sent` of the answer.

### Texts and statements

What a loop over a text or over rows computes is a recursive function here, and what it
computes for every input is an induction over its data. The library's induction theorems
take an operator as a parameter, which the installed provers cannot instantiate;
`DataProofs` takes the least counterexample of a set instead (`WFMin` with
`NatLessThanWellFounded`): `InductionOnSet`, `InductionUpTo` and `InductionOnSeq` have the
property as a set of numbers or of sequences. That a recursive function equals its
equations has to be proved too, since a definition by `CHOOSE` says so only if such a
function exists: `WalkExists`, `FoldExists` and `FoldUnique`.

**`FilterInv`**: the trie is the set of prefixes of the words loaded (`TrieOfWords`), and the
answer to the text checked last is exact. Words have no stop characters, so that a
character of the text either goes on in the trie or is skipped, never both. By induction
from the end of the text, a walk that finds a word ends where the text spells one
(`WordEndTruthful`), and where the rest of a word can be read the walk finds the end of a
word, not behind it (`WordEndFinds`). By induction on its position the search then
collects hits with two properties (`HitsExact`): each is a stretch that the walk found, and
no walk from a place in none of them finds anything. So a stretch that still spelled a
word could begin in no hit, where it would have been found, nor in one, where it would
have a mask.

**`BuilderInv`**: each clause of a builder has as many holes, quotes and comments left
out, as it has values. What ends outside of quotes and comments can be put after one
another and its holes add up (the conditions on what a caller writes in `SqlAssumption`:
`validateWhere` counts the holes of a clause alone and cannot see the next one); the
values, taken clause by clause in the order of the text, then fit.

**`BatchInv`**: the rows a batch still has to write are a tail of its normal rows, for an
update one for each key in the order the keys first came (`MergeRows`). A key in the tail
has not been touched; every other has what the rows given would have made of it one after
the other. Merging keeps for each key and column the last value given, which is what
writing the rows one after the other leaves there. Rows inserted are the normal rows before
the tail; keys deleted lie between those before the tail and all.

### Only model-checked

Every invariant, the action property and the refinement that the passing runs check are
theorems (some under the hypotheses above). What is left to TLC alone:

* Liveness (`EventuallySettled`, `TimerKeepsUp`, `BusJudged`, `PendingSettles`,
  `QueueDrains` in `EveryTaskAccounted`, `ReadyShardIsDrained`, `EveryOccurrenceReported`) and everything under
  fairness: outside the reach of the prover.

What proving changed in the models: a member that joins while messages are still
queued at its shard gets those too, several of them perhaps; `OrderedRoom` had not
allowed that, and the bounds of the run hid it. `NextFor` now does. `LossNoticed` counts
the holes as one set instead of summing over keys, and `BackPressureExact` the batches as
one set instead of summing over loops: the same numbers, in a form about which something
can be proved. `RateFair` had promised one message for the time of a token and not for
`TimeOf(1)`: the proof failed where the moment of the last fill moves, which it does by
whole ticks (`rateLastNanos_` advances by `refill * 1'000'000'000 / perSec`), and TLC found
the violation after twenty ticks of Rate 2 in 5. In the code the difference is below a
nanosecond for every refill. `let` now counts up to the end of each tick, and the index of
groups in `DirectDelivery` became the set of loops left, both for the sake of the proofs.
`ApplyBuffer` moves the cursor once, to the highest buffered number, instead of folding
`Advance` over the buffer; TLC found the two equal. `TextFilter` and `SqlBuilders` were
written with folds of the community modules and with functions of two arguments; their
loops are now functions of a position, and `Spells` names the places of a word's
characters instead of comparing what is left of a text when stop characters are taken
out. Proving `CensorExact` also showed that an empty line of the word file, which the
code inserts as the root of the trie, is a word that is never found; the run's lists now
have one. `BuilderSound` needs that no caller's condition is the `1 = 1` the builder
writes for an empty `NOT IN`: the property tells the two apart by their text, the code
by who wrote it.

## 5. Where the code and its comments disagree

With a run that shows it:

* `fanout_inline_throw`: without a pool an exception from `dispatch` leaves the
  shard idle with messages queued (RoomRegistry.h:1948); comments at 1771 and 1931
  say this cannot be. The next publish to the shard drains them, but a reshape before
  that discards them: it asks only that no shard is busy (RoomRegistry.h:467). With
  more than one shard that is how a message can be lost to members whom no exception
  concerned; `NothingIsForgotten` is proved with exactly this excluded.
* `table_orphan`: a publisher that looked the room up before it was retired
  commits to the dead object (RoomRegistry.h:820), against the comment at 779.
* `table_watermark`: clearing all watermarks restarts numbers
  (RoomRegistry.h:613), against the comment at 2156 that no delivery depends on it.
* `direct_quota`: when a dispatch throws, the share of sessions already skipped as
  congested is given back twice (ChatWebsocket.cc:1336); the comment at 1335 says
  "exactly the remaining share". `DirectQuotaExact` leaves such behaviours out
  (`skippedThenFailed`) and shows that nothing else makes the quota wrong.
* `bus_gaps`: join and leave notices and messages received from the bus take numbers of the
  origin's room and are not broadcast (`broadcastToCluster` is false at
  ChatWebsocket.cc:977 and 1100); every other instance counts them as lost
  (ChatWebsocket.cc:1605). The comment at 1604 calls a gap messages from this origin that
  did not reach this instance, PrometheusMetrics.h:530 messages missing from the bus.
  `LossNoticed` says what does hold: no real loss is overlooked.
* `exit_pool`: the pool is a local static (TbbCoroutinePool.h:17). When the first message
  comes after the hook was registered, exit() destroys it before the hook has stopped
  the poll threads, which go on handing it tasks. Application.h:112-113 and 241-247 and
  AsyncKafkaConsumer.h:74 describe the order as safe; the line that might have touched the
  pool early is commented out (Application.h:145).
* `page_skips`: a sync that times out lets buffered live frames move the saved cursor
  past what the sync did not bring (chat.html:1099); comments at 622 and 808 say
  that the next reconnection fills the gap.

Without a run:

* The shard count also shrinks (RoomRegistry.h:460, comment at 1741).
* A cursor beyond the last number with an empty journal is not reported (RoomRegistry.h:1063,
  comment at 1025).
* A re-created room is taken for the longest silent (RoomRegistry.h:1509): its journal comes
  back, `lastPublishNanos` does not. The comment at 1246 says that the longest silent goes
  first.
* The gate is not looked at again when a batch of a direct delivery runs
  (ChatWebsocket.cc:1320, comments at 1170 and 1240, while 1309 says so itself).
* A restart whose clock is not past the ids given out repeats them (SnowflakeId.h:51):
  ChatWebsocket.h:1012 says that ids repeat neither across restarts nor across instances,
  SnowflakeId.h:36 that a clock set back must not repeat one. `IdsRise` excuses such a life
  (`overtaken`), and within any life nothing.
* `isStopCharacter` compares a byte with code points above 0x2000 and is never true
  (TrieServiceImpl.cpp:15), while the comments at 16, 19 and 22 name the ranges it stops at.
* `kSBCSpace` is 0x508 (SbcConvertServiceImpl.cpp:21); the comment there says full-width
  space, which is U+3000, so that a full-width space is not folded.

Observed while modelling. These are no disagreements we could quote a line for, and are
part of the models where they concern them:

* a bus that was never heard (`lastEcho == 0`) is never judged dead, which the comment at
  ChatWebsocket.cc:1722 wants, though for the start only (the summary at
  ChatWebsocket.h:543 leaves it out); the second of two copies handled at once is
  acknowledged with an id of its own; a direct delivery that fails half-way is answered 503;
* a connection refused because the room is full still sends a leave notice (the comment at
  ChatWebsocket.cc:907 rules out the join notice); the bucket lets up to twice a burst
  through in a moment; a refused sync (503) hides `reset`; the page keeps the highest number
  of an old instance after it changed servers, and does not ask for a jump within three
  seconds of a gap sync, as chat.html:628 intends;
* consumers commit in the order in which handlers end, which skips failed messages;
  `submitMessageTask` ignores a refusal and leaks the message; a consumer whose
  constructor throws leaves a joinable thread;
* `ThreadPool::setThreadCount`, which nothing calls, would wait for its own threads; stop
  words are loaded unfolded;
* `SqlQuery::count` with `distinct` over several fields counts rows without it; batch
  keys `1` and `1u` are different keys.

## 6. Not modelled, and what is left

Not modelled:

* HTTP controllers: each request is one sequence of calls into framework, database
  or Redis and shares no state with others. Filters: stateless decisions on one
  request. Metrics: relaxed counters that no decision reads.
* `sql.h`: formats strings from JSON; names, order, limit and group of the typed
  builders: text without holes. AES, base64, MD5 and the like: byte algorithms
  without shared state.
* The MQTT client: nothing starts it. `retry_utils` and `ThreadPool`: nothing uses them.
* Inside Kafka, Redis, drogon and trantor: configuration, metadata, partition
  assignment, reconnection; they are the environment's free choices.
* That tries cut characters to 16 bits: the models' characters are distinct there too.

Next:

1. Weaker hypotheses where a theorem has one: what a room promises after an exception
   (`RoomIsOrdered`), and what a replay promises once watermarks were given up (`MarksFit`).
2. The five hazards without a property, where a model could say something about them.

----------------------------- MODULE RoomTable ------------------------------
(***************************************************************************)
(* The room table of RoomRegistryT (ws_controllers/RoomRegistry.h): rooms  *)
(* are made on the first subscription, retired when the last member leaves *)
(* and made again under the same name.  What outlives a room object is its *)
(* sequence watermark and, within two limits, its replay journal.          *)
(*                                                                         *)
(* One action is what happens under one hold of roomsMtx_ or of a room's   *)
(* pubMtx.  Every operation looks the object up first and locks it later,  *)
(* so that in between the room may be retired and a namesake made.  How a  *)
(* message reaches the members is module RoomFanout; here it is its number *)
(* and the members at the moment it was accepted.                          *)
(***************************************************************************)
EXTENDS Integers, Sequences, FiniteSets, Functions

CONSTANTS
    Names,              \* room names
    Clients,            \* subscribers
    Publishers, Readers,    \* threads that publish, that replay
    None,
    JournalCap, JournalActiveCap,       \* struct Options
    MaxWatermarks,      \* kMaxSeqWatermarks
    MaxJournalRooms, MaxJournalEntries, \* kMaxJournalRooms, kMaxJournalEntries
    MaxObjs,            \* bound: room objects ever made
    MaxMsgs,            \* bound: messages ever accepted
    MaxScans            \* bound: rounds of the journal budget

Objs == 1 .. MaxObjs
Seqs == 1 .. MaxMsgs

ASSUME TableAssumption ==
    /\ JournalCap \in Nat /\ JournalActiveCap \in Nat /\ MaxWatermarks \in Nat \ {0}
    /\ MaxJournalRooms \in Nat /\ MaxJournalEntries \in Nat
    /\ MaxObjs \in Nat /\ MaxMsgs \in Nat /\ MaxScans \in Nat
    /\ None \notin Objs /\ None \notin Names

VARIABLES
    \* struct Room, for every object ever made (by the order of their making)
    made, nameOf, subs, retired, seq, journal, lastPublish,
    erasing,            \* objects whose last leaver holds pubMtx and awaits roomsMtx_
    \* the tables under roomsMtx_
    rooms,              \* name -> object, or None
    watermark,          \* name -> last number of a retired room; DOMAIN: names marked
    retained,           \* name -> journal of a retired room; DOMAIN: names retained
    order,              \* journalOrder_
    retainedEntries,    \* journalRetainedEntries_
    \* the threads, between lookup and lock
    joining, publishing, replaying, budget,
    \* history: for each name the messages that had somebody to reach, and when
    \* the last one was accepted; messages accepted in all
    heard, spoke, msgs,
    scans

objVars   == <<made, nameOf, subs, retired, seq, journal, lastPublish, erasing>>
tableVars == <<rooms, watermark, retained, order, retainedEntries>>
histVars  == <<heard, spoke, msgs>>
vars == <<objVars, tableVars, joining, publishing, replaying, budget, histVars, scans>>

Idle == [at |-> "idle"]

Init ==
    /\ made = 0
    /\ nameOf = [o \in Objs |-> None] /\ subs = [o \in Objs |-> {}]
    /\ retired = [o \in Objs |-> FALSE] /\ seq = [o \in Objs |-> 0]
    /\ journal = [o \in Objs |-> <<>>] /\ lastPublish = [o \in Objs |-> 0]
    /\ erasing = {}
    /\ rooms = [n \in Names |-> None]
    /\ watermark = <<>> /\ retained = <<>> /\ order = <<>> /\ retainedEntries = 0
    /\ joining = [c \in Clients |-> None]
    /\ publishing = [p \in Publishers |-> None]
    /\ replaying = [r \in Readers |-> Idle]
    /\ budget = Idle
    /\ heard = [n \in Names |-> <<>>] /\ spoke = [n \in Names |-> 0]
    /\ msgs = 0 /\ scans = 0

-----------------------------------------------------------------------------
(* getOrCreateRoom, subscribe *)

Without(f, n) == Restrict(f, DOMAIN f \ {n})
With(f, n, v) == [m \in DOMAIN f \cup {n} |-> IF m = n THEN v ELSE f[m]]

Least(S) == CHOOSE k \in S : \A j \in S : k <= j

\* forgetJournalOrderLocked: the first mention goes.
Forget(ord, n) ==
    LET first == Least({i \in DOMAIN ord : ord[i] = n})
    IN  IF n \in Range(ord) THEN SubSeq(ord, 1, first - 1) \o SubSeq(ord, first + 1, Len(ord))
        ELSE ord

Subscribed(c) == \E o \in Objs : c \in subs[o]
MaySubscribe(c) == joining[c] = None /\ ~Subscribed(c)

SubscribeFind(c, n) ==
    /\ MaySubscribe(c) /\ rooms[n] # None
    /\ joining' = [joining EXCEPT ![c] = rooms[n]]
    /\ UNCHANGED <<objVars, tableVars, publishing, replaying, budget, histVars, scans>>

SubscribeCreateUnbalanced(c, n) == \* mutant: the counter is not told
    LET o   == made + 1
        old == IF n \in DOMAIN retained THEN retained[n] ELSE <<>>
    IN  /\ MaySubscribe(c) /\ rooms[n] = None /\ made < MaxObjs
        /\ made' = o
        /\ nameOf' = [nameOf EXCEPT ![o] = n]
        /\ seq' = [seq EXCEPT ![o] = IF n \in DOMAIN watermark THEN watermark[n] ELSE 0]
        /\ journal' = [journal EXCEPT ![o] = old]
        /\ rooms' = [rooms EXCEPT ![n] = o]
        /\ watermark' = Without(watermark, n)
        /\ retained' = Without(retained, n)
        /\ order' = IF n \in DOMAIN retained THEN Forget(order, n) ELSE order
        /\ joining' = [joining EXCEPT ![c] = o]
        /\ UNCHANGED <<subs, retired, lastPublish, erasing, retainedEntries, publishing,
                       replaying, budget, histVars, scans>>

\* A new object takes over the number and the journal its name left behind.
SubscribeCreate(c, n) ==
    LET o   == made + 1
        old == IF n \in DOMAIN retained THEN retained[n] ELSE <<>>
    IN  /\ MaySubscribe(c) /\ rooms[n] = None /\ made < MaxObjs
        /\ made' = o
        /\ nameOf' = [nameOf EXCEPT ![o] = n]
        /\ seq' = [seq EXCEPT ![o] = IF n \in DOMAIN watermark THEN watermark[n] ELSE 0]
        /\ journal' = [journal EXCEPT ![o] = old]
        /\ rooms' = [rooms EXCEPT ![n] = o]
        /\ watermark' = Without(watermark, n)
        /\ retained' = Without(retained, n)
        /\ order' = IF n \in DOMAIN retained THEN Forget(order, n) ELSE order
        /\ retainedEntries' = retainedEntries - Len(old)
        /\ joining' = [joining EXCEPT ![c] = o]
        /\ budget' = IF budget.at = "idle" THEN budget
                     ELSE [budget EXCEPT !.added = @ + Len(old)]
        /\ UNCHANGED <<subs, retired, lastPublish, erasing, publishing, replaying, histVars,
                       scans>>

\* Under pubMtx: a retired room sends the subscriber back to the table.
SubscribeRetry(c) ==
    /\ joining[c] # None /\ joining[c] \notin erasing
    /\ retired[joining[c]]
    /\ joining' = [joining EXCEPT ![c] = None]
    /\ UNCHANGED <<objVars, tableVars, publishing, replaying, budget, histVars, scans>>

SubscribeEnterUnchecked(c) ==    \* mutant: does not look at retired
    LET o == joining[c]
    IN  /\ o # None /\ o \notin erasing
        /\ subs' = [subs EXCEPT ![o] = @ \cup {c}]
        /\ joining' = [joining EXCEPT ![c] = None]
        /\ UNCHANGED <<made, nameOf, retired, seq, journal, lastPublish, erasing, tableVars,
                       publishing, replaying, budget, histVars, scans>>

SubscribeEnter(c) ==
    LET o == joining[c]
    IN  /\ o # None /\ o \notin erasing
        /\ ~retired[o]
        /\ subs' = [subs EXCEPT ![o] = @ \cup {c}]
        /\ joining' = [joining EXCEPT ![c] = None]
        /\ UNCHANGED <<made, nameOf, retired, seq, journal, lastPublish, erasing, tableVars,
                       publishing, replaying, budget, histVars, scans>>

-----------------------------------------------------------------------------
(* unsubscribe *)

\* The room the name stands for, under pubMtx (it cannot be retired in between,
\* as long as c is a member).  The last one out marks the room retired and,
\* still under pubMtx, goes for the exclusive roomsMtx_.
Unsubscribe(c) ==
    \E o \in {rooms[n] : n \in Names} \ {None} :
        LET last == subs[o] = {c}
        IN  /\ c \in subs[o]
            /\ subs' = [subs EXCEPT ![o] = @ \ {c}]
            /\ retired' = [retired EXCEPT ![o] = last]
            /\ erasing' = IF last THEN erasing \cup {o} ELSE erasing
            /\ UNCHANGED <<made, nameOf, seq, journal, lastPublish, tableVars, joining,
                           publishing, replaying, budget, histVars, scans>>

\* How many entries journals have between them.
Entries(js) == UNION {{<<n, i>> : i \in DOMAIN js[n]} : n \in DOMAIN js}
EntriesOf(js) == Cardinality(Entries(js))

\* retainJournalLocked, evictOldestJournalLocked: the oldest go until both
\* limits hold.  k is how many.
Evicted(ret, ord, count, k) ==
    LET gone == {ord[i] : i \in 1 .. k} \cap DOMAIN ret
    IN  [ret   |-> Restrict(ret, DOMAIN ret \ gone),
         ord   |-> SubSeq(ord, k + 1, Len(ord)),
         count |-> count - EntriesOf(Restrict(ret, gone))]
WithinLimits(x) ==
    Cardinality(DOMAIN x.ret) <= MaxJournalRooms /\ x.count <= MaxJournalEntries
EvictToLimits(ret, ord, count) ==
    LET enough == {k \in 0 .. Len(ord) :
                      k = Len(ord) \/ WithinLimits(Evicted(ret, ord, count, k))}
    IN  Evicted(ret, ord, count, Least(enough))

Retain(n, j) ==
    LET known == n \in DOMAIN retained
        after == EvictToLimits(
                    With(retained, n, j),
                    IF known THEN order ELSE Append(order, n),
                    retainedEntries + Len(j) - (IF known THEN Len(retained[n]) ELSE 0))
    IN  /\ retained' = after.ret /\ order' = after.ord /\ retainedEntries' = after.count

EraseForgetsNumber(o) ==         \* mutant: the watermark is not recorded
    LET n == nameOf[o]
    IN  /\ o \in erasing
        /\ erasing' = erasing \ {o}
        /\ rooms' = [rooms EXCEPT ![n] = None]
        /\ IF journal[o] # <<>>
           THEN Retain(n, journal[o]) /\ journal' = [journal EXCEPT ![o] = <<>>]
           ELSE UNCHANGED <<retained, order, retainedEntries, journal>>
        /\ UNCHANGED <<made, nameOf, subs, retired, seq, lastPublish, watermark, joining,
                       publishing, replaying, budget, histVars, scans>>

\* Under roomsMtx_ too: the name is free again, its number and its journal stay.
Erase(o) ==
    LET n == nameOf[o]
    IN  /\ o \in erasing
        /\ erasing' = erasing \ {o}
        /\ IF rooms[n] # o
           THEN UNCHANGED <<tableVars, journal>>
           ELSE /\ rooms' = [rooms EXCEPT ![n] = None]
                /\ watermark' = With(IF Cardinality(DOMAIN watermark) >= MaxWatermarks
                                     THEN <<>> ELSE watermark, n, seq[o])
                /\ IF JournalCap # 0 /\ journal[o] # <<>>
                   THEN /\ Retain(n, journal[o])
                        /\ journal' = [journal EXCEPT ![o] = <<>>]
                   ELSE UNCHANGED <<retained, order, retainedEntries, journal>>
        /\ UNCHANGED <<made, nameOf, subs, retired, seq, lastPublish, joining, publishing,
                       replaying, budget, histVars, scans>>

-----------------------------------------------------------------------------
(* publishSharedImpl: the room is found by its cached handle or its name, then
   locked; nothing in between or after looks at retired again. *)

PublishFind(p, n) ==
    /\ publishing[p] = None /\ rooms[n] # None
    /\ publishing' = [publishing EXCEPT ![p] = rooms[n]]
    /\ UNCHANGED <<objVars, tableVars, joining, replaying, budget, histVars, scans>>

LastEntriesAndOne(j) ==          \* mutant: off by one
    IF Len(j) > JournalCap + 1 THEN Tail(j) ELSE j
LastEntries(j) == IF Len(j) > JournalCap THEN Tail(j) ELSE j
PublishCommit(p) ==
    LET o == publishing[p]
        n == nameOf[o]
        m == [seq |-> seq[o] + 1, payload |-> msgs + 1]
        logged == LastEntries(Append(journal[o], m))
    IN  /\ o # None /\ o \notin erasing
        /\ msgs < MaxMsgs
        /\ publishing' = [publishing EXCEPT ![p] = None]
        /\ seq' = [seq EXCEPT ![o] = m.seq]
        /\ journal' = [journal EXCEPT ![o] = logged]
        /\ lastPublish' = IF JournalCap = 0 THEN lastPublish
                          ELSE [lastPublish EXCEPT ![o] = m.payload]
        /\ spoke' = [spoke EXCEPT ![n] = m.payload]
        /\ heard' = IF subs[o] = {} THEN heard ELSE [heard EXCEPT ![n] = Append(@, m)]
        /\ msgs' = msgs + 1
        /\ budget' = IF budget.at = "idle" THEN budget
                     ELSE [budget EXCEPT !.added = @ + Len(logged) - Len(journal[o])]
        /\ UNCHANGED <<made, nameOf, subs, retired, erasing, tableVars, joining, replaying,
                       scans>>

-----------------------------------------------------------------------------
(* replay: the entries after a cursor, or reset where they are not all there.
   The entries of an answer are in the order of the journal; here, which. *)

After(j, since) == {e \in Range(j) : e.seq > since}

AnswerTrusting(j, max, since) == \* mutant: an empty journal means nothing was missed
    [max     |-> max,
     entries |-> IF since = 0 \/ since > max THEN {} ELSE After(j, since),
     reset   |-> since # 0 /\ j # <<>> /\ (since + 1 < j[1].seq \/ since > max)]

Answer(j, max, since) ==
    [max     |-> max,
     entries |-> IF since = 0 \/ since > max THEN {} ELSE After(j, since),
     reset   |-> since # 0 /\ IF j = <<>> THEN since < max
                              ELSE since + 1 < j[1].seq \/ since > max]

\* replayFromRetained
AnswerRetained(n, since) ==
    LET j    == retained[n]
        last == IF j = <<>> THEN 0 ELSE j[Len(j)].seq
        mark == IF n \in DOMAIN watermark THEN watermark[n] ELSE 0
    IN  IF n \notin DOMAIN retained
        THEN [max |-> 0, entries |-> {}, reset |-> since # 0]
        ELSE Answer(j, IF mark > last THEN mark ELSE last, since)

Due(n, since) == After(heard[n], since)
Found(n, since) ==
    [at |-> "found", room |-> rooms[n], since |-> since, due |-> Due(n, since)]
Done(found, answer) ==
    [at |-> "done", since |-> found.since, due |-> found.due, answer |-> answer]

\* A room that is not in the table is answered for at once.
ReplayFind(r, n, since) ==
    /\ replaying[r] = Idle
    /\ replaying' = [replaying EXCEPT ![r] =
            IF rooms[n] = None THEN Done(Found(n, since), AnswerRetained(n, since))
            ELSE Found(n, since)]
    /\ UNCHANGED <<objVars, tableVars, joining, publishing, budget, histVars, scans>>

ReplayRead(r) ==
    LET found == replaying[r]
        o     == found.room
    IN  /\ found.at = "found" /\ o \notin erasing
        /\ replaying' = [replaying EXCEPT ![r] =
                Done(found, Answer(journal[o], seq[o], found.since))]
        /\ UNCHANGED <<objVars, tableVars, joining, publishing, budget, histVars, scans>>

-----------------------------------------------------------------------------
(* enforceJournalBudget: measure every room, then clear journals, those of the
   rooms that have been silent for longest first, until the measured total is
   within the cap. *)

BudgetScan ==
    /\ budget.at = "idle" /\ scans < MaxScans
    /\ JournalActiveCap # 0 /\ JournalCap # 0
    /\ scans' = scans + 1
    /\ budget' = [at |-> "busy", toMeasure |-> {rooms[n] : n \in Names} \ {None},
                  size |-> <<>>, last |-> <<>>, total |-> 0,
                  added |-> 0]     \* added is history
    /\ UNCHANGED <<objVars, tableVars, joining, publishing, replaying, histVars>>

BudgetMeasure(o) ==
    LET n == Len(journal[o])
        b == [budget EXCEPT !.toMeasure = @ \ {o}]
    IN  /\ budget.at = "busy" /\ o \in budget.toMeasure /\ o \notin erasing
        /\ budget' = IF n = 0 THEN b
                     ELSE [b EXCEPT !.size = With(@, o, n), !.total = @ + n,
                                    !.last = With(@, o, lastPublish[o])]
        /\ UNCHANGED <<objVars, tableVars, joining, publishing, replaying, histVars, scans>>

Measured == budget.at = "busy" /\ budget.toMeasure = {}

\* A journal that has meanwhile gone is passed over; the total goes down by
\* what was measured, not by what is there now.
BudgetClear(o) ==
    /\ Measured /\ budget.total > JournalActiveCap
    /\ o \in DOMAIN budget.size /\ o \notin erasing
    /\ \A q \in DOMAIN budget.last : budget.last[o] <= budget.last[q]
    /\ budget' = [budget EXCEPT
            !.size = Without(@, o), !.last = Without(@, o),
            !.total = IF journal[o] = <<>> THEN @
                      ELSE IF @ > budget.size[o] THEN @ - budget.size[o] ELSE 0]
    /\ journal' = [journal EXCEPT ![o] = <<>>]
    /\ UNCHANGED <<made, nameOf, subs, retired, seq, lastPublish, erasing, tableVars, joining,
                   publishing, replaying, histVars, scans>>

BudgetEndEarly ==                \* mutant: off by one
    /\ Measured
    /\ budget.total <= JournalActiveCap + 1 \/ DOMAIN budget.size = {}
    /\ budget' = Idle
    /\ UNCHANGED <<objVars, tableVars, joining, publishing, replaying, histVars, scans>>

BudgetEnd ==
    /\ Measured
    /\ budget.total <= JournalActiveCap \/ DOMAIN budget.size = {}
    /\ budget' = Idle
    /\ UNCHANGED <<objVars, tableVars, joining, publishing, replaying, histVars, scans>>

-----------------------------------------------------------------------------
Next ==
    \/ \E c \in Clients :
            \/ \E n \in Names : SubscribeFind(c, n) \/ SubscribeCreate(c, n)
            \/ SubscribeRetry(c) \/ SubscribeEnter(c) \/ Unsubscribe(c)
    \/ \E o \in Objs : Erase(o) \/ BudgetMeasure(o) \/ BudgetClear(o)
    \/ \E p \in Publishers : PublishCommit(p) \/ \E n \in Names : PublishFind(p, n)
    \/ \E r \in Readers :
            \/ ReplayRead(r)
            \/ \E n \in Names, since \in 0 .. MaxMsgs : ReplayFind(r, n, since)
    \/ BudgetScan \/ BudgetEnd

Spec == Init /\ [][Next]_vars

-----------------------------------------------------------------------------
(* Properties *)

Messages == [seq : Seqs, payload : Seqs]
IsPartial(f, S, T) == DOMAIN f \subseteq S /\ f \in [DOMAIN f -> T]
Answers == [max : Nat, entries : SUBSET Messages, reset : BOOLEAN]
Replays ==
    {Idle}
    \cup [at : {"found"}, room : Objs, since : Nat, due : SUBSET Messages]
    \cup [at : {"done"}, since : Nat, due : SUBSET Messages, answer : Answers]
IsRound(b) ==
    /\ b \in [at : {"busy"}, toMeasure : SUBSET Objs, size : {b.size}, last : {b.last},
              total : Nat, added : Nat]
    /\ IsPartial(b.size, Objs, Nat) /\ IsPartial(b.last, Objs, Nat)

TypeOK ==
    /\ made \in 0 .. MaxObjs
    /\ nameOf \in [Objs -> Names \cup {None}]
    /\ subs \in [Objs -> SUBSET Clients]
    /\ retired \in [Objs -> BOOLEAN]
    /\ seq \in [Objs -> Nat]
    /\ journal \in [Objs -> Seq(Messages)]
    /\ \A o \in Objs : Len(journal[o]) <= JournalCap
    /\ lastPublish \in [Objs -> Nat]
    /\ erasing \subseteq Objs
    /\ rooms \in [Names -> Objs \cup {None}]
    /\ IsPartial(watermark, Names, Nat)
    /\ IsPartial(retained, Names, Seq(Messages))
    /\ order \in Seq(Names) /\ retainedEntries \in Nat
    /\ joining \in [Clients -> Objs \cup {None}]
    /\ publishing \in [Publishers -> Objs \cup {None}]
    /\ replaying \in [Readers -> Replays]
    /\ budget = Idle \/ IsRound(budget)
    /\ heard \in [Names -> Seq(Messages)]
    /\ spoke \in [Names -> 0 .. MaxMsgs] /\ msgs \in 0 .. MaxMsgs /\ scans \in 0 .. MaxScans

(* Nobody is a member of a room that messages no longer find: an object with
   members is not retired and is the one its name stands for (the "orphan room"
   of subscribe and struct Room). *)
NoOrphanMembers ==
    \A o \in Objs : subs[o] # {} => ~retired[o] /\ nameOf[o] # None /\ rooms[nameOf[o]] = o

(* The numbers under which a room's members get messages keep rising, however
   often the room is retired and made again in between: clients keep the number
   as their cursor and throw away what they have seen (roomSeqWatermark_). *)
HeardNumbersRise ==
    \A n \in Names : \A i, j \in DOMAIN heard[n] : i < j => heard[n][i].seq < heard[n][j].seq

(* An answer without reset is complete: every message that members of the room
   had got beyond the cursor when replay began is among its entries, although
   the room may be retired, made again or cleared by the budget before it is
   read ("a false success" in the comments of replay). *)
ReplayHonest ==
    \A r \in Readers :
        LET a == replaying[r]
        IN  a.at = "done" /\ a.since # 0 /\ ~a.answer.reset
                => a.due \subseteq a.answer.entries

(* What replay relies on: the journal a name has, in its room or retained, is
   an unbroken run of numbers up to the last one issued. *)
UnbrokenUpTo(j, last) == \A i \in DOMAIN j : j[i].seq = last - Len(j) + i
JournalsUnbroken ==
    /\ \A n \in Names : rooms[n] # None => UnbrokenUpTo(journal[rooms[n]], seq[rooms[n]])
    /\ \A n \in DOMAIN retained :
            n \in DOMAIN watermark /\ UnbrokenUpTo(retained[n], watermark[n])

(* The books of the retained journals balance across any number of retirements,
   evictions and re-creations, and only rooms that are gone have one: the
   counter once leaked and made other rooms lose their journals (comments of
   getOrCreateRoom). *)
RetainedExact ==
    /\ retainedEntries = EntriesOf(retained)
    /\ Range(order) = DOMAIN retained /\ Len(order) = Cardinality(DOMAIN retained)
    /\ WithinLimits([ret |-> retained, count |-> retainedEntries])
    /\ \A n \in DOMAIN retained : rooms[n] = None

(* A round of the budget leaves the rooms with no more than the cap plus what
   arrived while it ran, although it works from measurements that go stale. *)
LiveRooms == {n \in Names : rooms[n] # None}
LiveEntries == EntriesOf([n \in LiveRooms |-> journal[rooms[n]]])
BudgetRestored ==
    [][budget.at = "busy" /\ budget'.at = "idle"
        => LiveEntries <= JournalActiveCap + budget.added]_vars

(* A message that is accepted while its room has members is accepted for them
   (comment of publishSharedImpl: it is not put into an orphan room, "silently
   lost"). *)
AcceptedIsHeard ==
    [][\A n \in Names :
        spoke'[n] # spoke[n] /\ rooms[n] # None /\ subs[rooms[n]] # {}
            => heard'[n] # heard[n]]_vars

=============================================================================

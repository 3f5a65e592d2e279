-------------------------- MODULE RoomClientProofs --------------------------
(***************************************************************************)
(* What is proved of the page that catches up with what it has missed      *)
(* (RoomClient: chat.html and handleSync): its types, and CatchUpHonest.   *)
(*                                                                         *)
(* Where the page's cursor may stand depends on what is under way.  While  *)
(* nothing has gone wrong either nothing is being caught up with and the   *)
(* cursor has a Base to go on from (Quiet), or one catching up is under    *)
(* way, as a request or as an answer (Catching): it names the number from  *)
(* which on the page has a Base, and before an answer come the frames it   *)
(* claims (Answers).  The frames that come before the page's first message *)
(* rise (RisingInv), or it would start in the middle of them.              *)
(*                                                                         *)
(* Steps that touch neither (acknowledgements, sending again, the gate)    *)
(* only move the frames to the front: Shifted and Sideways deal with them. *)
(***************************************************************************)
EXTENDS RoomClient, TLAPS, FiniteSetTheorems, SequenceTheorems, FunctionTheorems,
        WellFoundedInduction

(***************************************************************************)
(* The invariant.                                                          *)
(***************************************************************************)

(* Where frames, or requests, of a kind are among those under way; and the numbers a
   page has yet to take in: under way, queued by the server, or buffered. *)
OfKind(s, kind) == {i \in DOMAIN s : s[i].kind = kind}
Coming(d, queued, buffered) == {d[i].seq : i \in OfKind(d, "room")} \cup Range(queued) \cup buffered
OnWay == Coming(down, server.outbox, Range(page.buffer))

(* A page whose cursor is at c can be caught up from b on: up to b it knows everything
   from its first number on, and what is on its way is known or beyond b. *)
Base(b, c, knows, coming) ==
    /\ b \in 0 .. c /\ (b = 0 <=> c = 0)
    /\ \A n \in 1 .. b : (\E m \in knows : m < n) => n \in knows
    /\ \A f \in coming : f \in knows \/ f > b

(* Where the page's cursor stands while nothing has gone wrong. *)
CursorInv ==
    /\ server.inst = 1 /\ ~page.retrying
    /\ page.cursor.inst = (IF page.cursor.seq = 0 THEN 0 ELSE 1)
    /\ page.seen = page.cursor.seq /\ page.cursor.seq <= server.max
    /\ known \subseteq 1 .. page.cursor.seq
    /\ page.cursor.seq > 0 => page.cursor.seq \in known
    /\ OnWay \subseteq 1 .. server.max

(* The numbers under way and those queued behind them rise. *)
RisingIn(d, queued) ==
    /\ \A i, j \in OfKind(d, "room") : i < j => d[i].seq < d[j].seq
    /\ \A i \in OfKind(d, "room"), j \in DOMAIN queued : d[i].seq < queued[j]
    /\ \A i, j \in DOMAIN queued : i < j => queued[i] < queued[j]
RisingInv == page.cursor.seq = 0 => RisingIn(down, server.outbox)

Quiet ==
    /\ ~page.syncing /\ page.buffer = <<>> /\ OfKind(up, "sync") = {} /\ OfKind(down, "done") = {}
    /\ Base(page.cursor.seq, page.cursor.seq, known, OnWay)
    /\ link = "open" => page.instance = 1

(* What the answer at place i under way has brought, once the page has read the frames
   before it. *)
Answers(d, i, c, max, buffered) == d[i].code # 503 =>
    /\ d[i].inst = 1 /\ d[i].seq \in c .. max
    /\ \A j \in OfKind(d, "room") : j < i => d[j].seq <= d[i].seq
    /\ \A f \in buffered : f <= d[i].seq
    /\ d[i].code = 200 /\ d[i].since # 0 =>
        \A n \in d[i].since + 1 .. d[i].seq :
            n \in buffered \/ \E j \in OfKind(d, "room") : j < i /\ d[j].seq = n

AtMostOne(S) == \A i, j \in S : i = j

Catching ==
    /\ page.syncing /\ link = "open"
    /\ AtMostOne(OfKind(up, "sync")) /\ AtMostOne(OfKind(down, "done"))
    /\ OfKind(up, "sync") = {} \/ OfKind(down, "done") = {}
    /\ \A i \in OfKind(up, "sync") :
        /\ Base(up[i].since, page.cursor.seq, known, OnWay)
        /\ up[i].since # 0 => up[i].inst = 1
    /\ \A i \in OfKind(down, "done") :
        /\ Base(down[i].since, page.cursor.seq, known, OnWay)
        /\ Answers(down, i, page.cursor.seq, server.max, Range(page.buffer))

CatchInv == ~broken => CursorInv /\ RisingInv /\ (Quiet \/ Catching)

(***************************************************************************)
(* Types.                                                                  *)
(***************************************************************************)

Numbers == 0 .. MaxRoomNumber
Requests == [kind : {"sync"}, since : Numbers, inst : Nat] \cup [kind : {"message"}, id : Nat]
FrameSet == [kind : {"room"}, seq : 1 .. MaxRoomNumber]
            \cup [kind : {"done"}, code : {200, 206, 503}, seq : Numbers, inst : Nat,
                  since : Numbers, sent : SUBSET Int]
            \cup [kind : {"ack"}, id : Nat, code : {200, 404, 503}]
PendingSet == [id : Nat, attempts : 0 .. MaxSendAttempts, timer : {"none", "ack", "backoff"}]
Pages == [cursor : [inst : Nat, seq : Numbers], seen : Numbers, instance : Nat,
          syncing : BOOLEAN, buffer : Seq(1 .. MaxRoomNumber), retrying : BOOLEAN,
          retries : Nat, gapAsked : BOOLEAN, pending : PendingSet, sent : Nat]

ClientTypes ==
    /\ server \in [inst : Nat, max : Numbers, shut : BOOLEAN, outbox : Seq(1 .. MaxRoomNumber),
                   synced : BOOLEAN]
    /\ link \in {"closed", "open", "closing"}
    /\ up \in Seq(Requests) /\ down \in Seq(FrameSet)
    /\ page \in Pages /\ Len(page.buffer) <= MaxSyncBuffer
    /\ conns \in 0 .. MaxPageConns /\ gates \in 0 .. MaxPageGates
    /\ known \subseteq 1 .. MaxRoomNumber /\ broken \in BOOLEAN

(* Helpers of the page, field by field. *)
LEMMA AdvanceIs ==
    ASSUME NEW pg \in Pages, NEW n \in Numbers
    PROVE  LET q == Advance(pg, n)
           IN  /\ q \in Pages
               /\ q.seen = (IF n > pg.seen THEN n ELSE pg.seen)
               /\ q.cursor = (IF n > pg.seen THEN [inst |-> pg.instance, seq |-> n] ELSE pg.cursor)
               /\ q.instance = pg.instance /\ q.buffer = pg.buffer /\ q.pending = pg.pending
               /\ q.syncing = pg.syncing /\ q.retrying = pg.retrying
<1>1. CASE n > pg.seen
  <2>1. n # 0 /\ pg.seen \in Numbers
    BY <1>1 DEF Pages, Numbers
  <2> DEFINE r == [pg EXCEPT !.seen = n]
             c == [inst |-> pg.instance, seq |-> n]
  <2>2. /\ r \in Pages /\ r.seen = n /\ r.instance = pg.instance /\ r.cursor = pg.cursor
        /\ r.buffer = pg.buffer /\ r.pending = pg.pending
        /\ r.syncing = pg.syncing /\ r.retrying = pg.retrying
    BY DEF Pages
  <2>3. c \in [inst : Nat, seq : Numbers]
    BY DEF Pages
  <2>4. Advance(pg, n) = [r EXCEPT !.cursor = c]
    BY <1>1, <2>1, <2>2 DEF Advance, SaveCursor
  <2> HIDE DEF r, c
  <2> DEFINE q == Advance(pg, n)
  <2>5. q \in Pages /\ q.cursor = c
    BY <2>2, <2>3, <2>4 DEF Pages
  <2>6. /\ q.seen = r.seen /\ q.instance = r.instance /\ q.buffer = r.buffer
        /\ q.pending = r.pending /\ q.syncing = r.syncing /\ q.retrying = r.retrying
    BY <2>2, <2>4 DEF Pages
  <2> QED BY <1>1, <2>2, <2>5, <2>6 DEF c
<1>2. CASE ~(n > pg.seen)
  BY <1>2 DEF Advance
<1> QED BY <1>1, <1>2

LEMMA EndSyncIs ==
    ASSUME NEW pg \in Pages
    PROVE  LET q == EndSync(pg)
           IN  /\ q \in Pages /\ q.syncing = FALSE /\ q.buffer = <<>>
               /\ q.seen = pg.seen /\ q.cursor = pg.cursor /\ q.instance = pg.instance
               /\ q.pending = pg.pending /\ q.retrying = pg.retrying
<1>1. <<>> \in Seq(1 .. MaxRoomNumber)
  BY EmptySeq
<1> QED BY <1>1 DEF EndSync, Pages

LEMMA BeginSyncIs ==
    ASSUME NEW pg \in Pages
    PROVE  LET q == BeginSync(pg)
           IN  /\ q \in Pages /\ q.syncing = TRUE /\ q.buffer = <<>> /\ q.retrying = FALSE
               /\ q.instance = pg.cursor.inst /\ q.seen = pg.cursor.seq
               /\ q.cursor = pg.cursor /\ q.pending = pg.pending
<1>1. <<>> \in Seq(1 .. MaxRoomNumber)
  BY EmptySeq
<1> QED BY <1>1 DEF BeginSync, Pages

LEMMA HighestIs ==
    ASSUME NEW S, S \subseteq Numbers, 0 \in S
    PROVE  Max(S) \in S /\ \A x \in S : x <= Max(S)
<1>1. \E m \in S : \A x \in S : m >= x
  <2> DEFINE Bounds0 == {k \in Nat : \A x \in S : x <= k}
  <2>1. MaxRoomNumber \in Bounds0
    BY ClientAssumption DEF Numbers
  <2>2. PICK k \in Bounds0 : \A j \in Bounds0 : ~(<<j, k>> \in OpToRel(<, Nat))
    <3>1. IsWellFoundedOn(OpToRel(<, Nat), Nat)
      BY NatLessThanWellFounded
    <3> HIDE DEF Bounds0
    <3>2. Bounds0 \subseteq Nat /\ Bounds0 # {}
      BY <2>1 DEF Bounds0
    <3> QED BY <3>1, <3>2, WFMin
  <2>3. \A j \in Bounds0 : ~(j < k)
    BY <2>2 DEF OpToRel
  <2>4. k \in S
    <3> SUFFICES ASSUME k \notin S PROVE FALSE
      OBVIOUS
    <3>1. k # 0
      OBVIOUS
    <3>2. k - 1 \in Bounds0
      BY <3>1 DEF Numbers
    <3> QED BY <2>3, <3>2
  <2> QED BY <2>4 DEF Numbers
<1> QED BY <1>1 DEF Max, Numbers

LEMMA ApplyBufferIs ==
    ASSUME NEW pg \in Pages
    PROVE  LET q == ApplyBuffer(pg)
           IN  /\ q \in Pages /\ q.syncing = FALSE /\ q.buffer = <<>>
               /\ q.instance = pg.instance /\ q.pending = pg.pending /\ q.retrying = pg.retrying
               /\ (\A f \in Range(pg.buffer) : f <= pg.seen) => q.seen = pg.seen /\ q.cursor = pg.cursor
<1> DEFINE S == Range(pg.buffer) \cup {0}
<1>1. pg.buffer \in Seq(1 .. MaxRoomNumber) /\ pg.seen \in Numbers
  BY DEF Pages
<1>2. S \subseteq Numbers
  <2>1. Range(pg.buffer) \subseteq 1 .. MaxRoomNumber
    BY <1>1, RangeOfSeq
  <2> QED BY <2>1, ClientAssumption DEF Numbers
<1>3. Max(S) \in S /\ \A x \in S : x <= Max(S)
  BY <1>2, HighestIs
<1>4. Max(S) \in Numbers
  BY <1>2, <1>3
<1>5. ApplyBuffer(pg) = EndSync(Advance(pg, Max(S)))
  BY DEF ApplyBuffer
<1>6. ASSUME \A f \in Range(pg.buffer) : f <= pg.seen PROVE ~(Max(S) > pg.seen)
  <2>1. \A x \in S : x <= pg.seen
    BY <1>1, <1>6 DEF Numbers
  <2>2. Max(S) <= pg.seen
    BY ONLY <2>1, <1>3
  <2> HIDE DEF S
  <2> QED BY <1>1, <1>4, <2>2 DEF Numbers
<1> HIDE DEF S
<1>7. Advance(pg, Max(S)) \in Pages
  BY <1>4, AdvanceIs
<1> DEFINE r == Advance(pg, Max(S))
           q == EndSync(r)
<1>8. /\ r.instance = pg.instance /\ r.pending = pg.pending /\ r.retrying = pg.retrying
      /\ ~(Max(S) > pg.seen) => r.seen = pg.seen /\ r.cursor = pg.cursor
  BY <1>4, AdvanceIs
<1>9. /\ q \in Pages /\ q.syncing = FALSE /\ q.buffer = <<>>
      /\ q.seen = r.seen /\ q.cursor = r.cursor /\ q.instance = r.instance
      /\ q.pending = r.pending /\ q.retrying = r.retrying
  BY <1>7, EndSyncIs
<1> HIDE DEF q, r
<1>10. ApplyBuffer(pg) = q
  BY <1>5 DEF q, r
<1> QED BY <1>6, <1>8, <1>9, <1>10

LEMMA WithPendingIs ==
    ASSUME NEW pg \in Pages, NEW attempts \in 0 .. MaxSendAttempts,
           NEW timer \in {"none", "ack", "backoff"}
    PROVE  LET q == WithPending(pg, attempts, timer)
           IN  /\ q \in Pages /\ q.syncing = pg.syncing /\ q.buffer = pg.buffer
               /\ q.instance = pg.instance /\ q.retrying = pg.retrying
               /\ q.seen = pg.seen /\ q.cursor = pg.cursor
<1> DEFINE p == [id |-> pg.pending.id, attempts |-> attempts, timer |-> timer]
<1>1. pg.pending \in PendingSet
  BY DEF Pages
<1>2. p \in PendingSet
  BY <1>1 DEF PendingSet
<1>3. WithPending(pg, attempts, timer) = [pg EXCEPT !.pending = p]
  BY DEF WithPending
<1> HIDE DEF p
<1> QED BY <1>2, <1>3 DEF Pages

LEMMA FlushIs ==
    ASSUME NEW pg \in Pages
    PROVE  LET q == Flush(pg)
           IN  /\ q \in Pages /\ q.syncing = pg.syncing /\ q.buffer = pg.buffer
               /\ q.instance = pg.instance /\ q.retrying = pg.retrying
               /\ q.seen = pg.seen /\ q.cursor = pg.cursor
<1>1. CASE ~HasPending(pg)
  BY <1>1 DEF Flush
<1>2. CASE HasPending(pg) /\ LastAttempt(pg)
  <2>1. NoMessagePending \in PendingSet
    BY ClientAssumption DEF NoMessagePending, PendingSet
  <2>2. Flush(pg) = [pg EXCEPT !.pending = NoMessagePending]
    BY <1>2 DEF Flush, FailPending
  <2> QED BY <2>1, <2>2 DEF Pages
<1>3. CASE HasPending(pg) /\ ~LastAttempt(pg)
  <2>1. Flush(pg) = WithPending(pg, pg.pending.attempts + 1, "ack")
    BY <1>3 DEF Flush
  <2>2. pg.pending \in PendingSet
    BY DEF Pages
  <2>3. pg.pending.attempts + 1 \in 0 .. MaxSendAttempts
    BY <1>3, <2>2, ClientAssumption DEF LastAttempt, PendingSet
  <2> QED BY <2>1, <2>3, WithPendingIs
<1> QED BY <1>1, <1>2, <1>3

LEMMA FlushedIs ==
    ASSUME NEW pg \in Pages
    PROVE  /\ Flushed(pg) \in Seq(Requests)
           /\ \A i \in DOMAIN Flushed(pg) : Flushed(pg)[i].kind = "message"
<1>1. MessageRequest(pg) \in Requests /\ MessageRequest(pg).kind = "message"
  BY DEF MessageRequest, Requests, Pages, PendingSet
<1>2. Flushed(pg) = <<MessageRequest(pg)>> \/ Flushed(pg) = <<>>
  BY DEF Flushed
<1>3. CASE Flushed(pg) = <<>>
  BY <1>3, EmptySeq
<1>4. CASE Flushed(pg) = <<MessageRequest(pg)>>
  BY <1>1, <1>4
<1> QED BY <1>2, <1>3, <1>4

(* What a handler takes and hands over. *)
LEMMA TakeIs ==
    ASSUME ClientTypes, NEW kind, NextFrame(kind)
    PROVE  /\ Tail(down) \in Seq(FrameSet) /\ Head(down) \in FrameSet /\ Head(down).kind = kind
           /\ Len(down) \in Nat \ {0} /\ link = "open"
<1>1. down \in Seq(FrameSet) /\ down # <<>> /\ link = "open" /\ Head(down).kind = kind
  BY DEF ClientTypes, NextFrame
<1>2. Tail(down) \in Seq(FrameSet) /\ Head(down) \in FrameSet
  BY ONLY <1>1, HeadTailProperties
<1>3. Len(down) \in Nat \ {0}
  BY ONLY <1>1, EmptySeq, LenProperties
<1> QED BY <1>1, <1>2, <1>3

LEMMA AskIs ==
    ASSUME ClientTypes, NEW kind, NextRequest(kind)
    PROVE  /\ Tail(up) \in Seq(Requests) /\ Head(up) \in Requests /\ Head(up).kind = kind
           /\ Len(up) \in Nat \ {0} /\ link = "open"
<1>1. up \in Seq(Requests) /\ up # <<>> /\ link = "open" /\ Head(up).kind = kind
  BY DEF ClientTypes, NextRequest
<1>2. Tail(up) \in Seq(Requests) /\ Head(up) \in Requests
  BY ONLY <1>1, HeadTailProperties
<1>3. Len(up) \in Nat \ {0}
  BY ONLY <1>1, EmptySeq, LenProperties
<1> QED BY <1>1, <1>2, <1>3

LEMMA RoomFrameIs ==
    ASSUME NEW f \in FrameSet, f.kind = "room"
    PROVE  f.seq \in 1 .. MaxRoomNumber
BY DEF FrameSet

LEMMA DoneFrameIs ==
    ASSUME NEW f \in FrameSet, f.kind = "done"
    PROVE  /\ f.seq \in Numbers /\ f.since \in Numbers /\ f.inst \in Nat
           /\ f.code \in {200, 206, 503}
BY DEF FrameSet

LEMMA SyncAskIs ==
    ASSUME NEW r \in Requests, r.kind = "sync"
    PROVE  r.since \in Numbers /\ r.inst \in Nat
BY DEF Requests

LEMMA SyncRequestIs ==
    ASSUME NEW pg \in Pages
    PROVE  SyncRequest(pg) \in Requests /\ SyncRequest(pg).kind = "sync"
           /\ SyncRequest(pg).since = pg.cursor.seq /\ SyncRequest(pg).inst = pg.cursor.inst
BY DEF SyncRequest, Requests, Pages

LEMMA MessageRequestIs ==
    ASSUME NEW pg \in Pages
    PROVE  MessageRequest(pg) \in Requests /\ MessageRequest(pg).kind = "message"
BY DEF MessageRequest, Requests, Pages, PendingSet

LEMMA BufferIs ==
    ASSUME ClientTypes
    PROVE  Range(page.buffer) \subseteq 1 .. MaxRoomNumber
<1>1. page.buffer \in Seq(1 .. MaxRoomNumber)
  BY DEF ClientTypes, Pages
<1> QED BY ONLY <1>1, RangeOfSeq

LEMMA PairMaxIs ==
    ASSUME NEW a \in Int, NEW b \in Int
    PROVE  /\ Max({a, b}) \in {a, b} /\ a <= Max({a, b}) /\ b <= Max({a, b})
<1>1. \E m \in {a, b} : \A x \in {a, b} : m >= x
  OBVIOUS
<1>2. Max({a, b}) \in {a, b} /\ \A x \in {a, b} : Max({a, b}) >= x
  BY <1>1 DEF Max
<1>3. CASE Max({a, b}) = a
  BY <1>2, <1>3
<1>4. CASE Max({a, b}) = b
  BY <1>2, <1>4
<1> QED BY <1>2, <1>3, <1>4

(* The replay of a catching up: which numbers go, and what the answer says. *)
ReplayFrames(first, last) ==
    [n \in 1 .. last - first + 1 |-> [kind |-> "room", seq |-> first + n - 1]]

ReplayAnswer(since, first, last, seq, code) ==
    /\ since \in Numbers /\ first \in 1 .. server.max + 1 /\ last \in first - 1 .. server.max
    /\ seq \in Numbers /\ code \in {200, 206, 503}
    /\ code = 503 => seq = (IF last < first THEN since ELSE last)
    /\ code # 503 => seq = server.max /\ last = server.max
    /\ code = 200 /\ since # 0 => first = since + 1
    /\ since = 0 => first = server.max + 1
    /\ since # 0 /\ since <= server.max => since < first
    /\ (Head(up).since # 0 => Head(up).inst \in {0, server.inst}) => since = Head(up).since
    /\ down' = (down \o ReplayFrames(first, last))
               \o <<DoneFrame(code, seq, since, first .. last)>>

LEMMA HandleSyncIs ==
    ASSUME ClientTypes, HandleSync
    PROVE  /\ \E since, first, last, seq, code : ReplayAnswer(since, first, last, seq, code)
           /\ up' = Tail(up) /\ UNCHANGED <<link, page, conns, known, broken>>
           /\ server'.inst = server.inst /\ server'.max = server.max
           /\ server'.outbox = server.outbox
           /\ server' \in [inst : Nat, max : Numbers, shut : BOOLEAN,
                           outbox : Seq(1 .. MaxRoomNumber), synced : BOOLEAN]
           /\ gates' \in 0 .. MaxPageGates
<1> DEFINE ask     == Head(up)
           foreign == ask.since # 0 /\ ask.inst # NoInstance /\ ask.inst # server.inst
           since   == IF foreign THEN 0 ELSE ask.since
           reset   == since # 0 /\ (since + 1 < Oldest \/ since > server.max)
           first   == IF since = 0 \/ since > server.max THEN server.max + 1
                      ELSE Max({since + 1, Oldest})
           all(last)  == last = server.max
           seq(last)  == IF all(last) THEN server.max ELSE IF last < first THEN since ELSE last
           code(last) == IF ~all(last) THEN 503 ELSE IF reset \/ foreign THEN 206 ELSE 200
<1>1. NextRequest("sync")
  BY DEF HandleSync
<1>2. ask.since \in Numbers /\ ask.inst \in Nat
  BY <1>1, AskIs, SyncAskIs
<1>3. /\ server.max \in Numbers /\ server.inst \in Nat /\ server.shut \in BOOLEAN
      /\ server.outbox \in Seq(1 .. MaxRoomNumber)
  BY DEF ClientTypes
<1>4. PICK last \in first - 1 .. server.max :
        /\ ~all(last) => gates < MaxPageGates
        /\ gates' = (IF all(last) THEN gates ELSE gates + 1)
        /\ server' = [server EXCEPT !.synced = TRUE, !.shut = ~all(last)]
        /\ down' = (down \o ReplayFrames(first, last))
                   \o <<DoneFrame(code(last), seq(last), since, first .. last)>>
  BY DEF HandleSync, ReplayFrames
<1>5. since \in Numbers
  BY <1>2, ClientAssumption DEF Numbers
<1>6. Oldest \in {1, server.max - JournalKeeps + 1} /\ 1 <= Oldest
  <2> DEFINE o == (server.max - JournalKeeps) + 1
  <2>1. o \in Int /\ 1 \in Int
    BY <1>3, ClientAssumption DEF Numbers
  <2> HIDE DEF o
  <2>2. Max({1, o}) \in {1, o} /\ 1 <= Max({1, o})
    BY <2>1, PairMaxIs
  <2>3. Oldest = Max({1, o})
    BY DEF Oldest, o
  <2> QED BY <2>2, <2>3 DEF o
<1>7. /\ first \in 1 .. server.max + 1 /\ (~reset /\ since # 0 => first = since + 1)
      /\ since = 0 => first = server.max + 1
      /\ since # 0 /\ since <= server.max => since < first
  <2>1. CASE since = 0 \/ since > server.max
    <3>1. first = server.max + 1
      BY <2>1
    <3> HIDE DEF first, since
    <3> QED BY <1>3, <1>5, <2>1, <3>1 DEF Numbers
  <2>2. CASE ~(since = 0 \/ since > server.max)
    <3>1. Oldest \in Int /\ since + 1 \in Int
      BY <1>3, <1>5, <1>6, ClientAssumption DEF Numbers
    <3>2. first \in {since + 1, Oldest} /\ since + 1 <= first /\ Oldest <= first
      BY <2>2, <3>1, PairMaxIs
    <3>3. 1 <= since /\ since <= server.max /\ Oldest <= server.max
      BY <1>3, <1>5, <1>6, <2>2, ClientAssumption DEF Numbers
    <3> HIDE DEF first, since
    <3> QED BY <1>3, <1>5, <3>1, <3>2, <3>3 DEF Numbers
  <2> QED BY <2>1, <2>2
<1>8. ReplayAnswer(since, first, last, seq(last), code(last))
  <2>1. seq(last) \in Numbers
    <3>1. server.max \in 0 .. MaxRoomNumber /\ since \in 0 .. MaxRoomNumber
      BY <1>3, <1>5 DEF Numbers
    <3>2. last >= first => last \in 0 .. MaxRoomNumber
      <4> HIDE DEF first, since
      <4>1. first \in 1 .. server.max + 1 /\ last \in first - 1 .. server.max
        BY <1>4, <1>7
      <4> QED BY <3>1, <4>1, ClientAssumption
    <3>3. last \in Int /\ first \in Int
      <4> HIDE DEF first, since
      <4> QED BY <1>4, <1>7, <3>1, ClientAssumption
    <3> HIDE DEF first, since
    <3>4. last < first \/ last >= first
      BY <3>3
    <3> QED BY <3>1, <3>2, <3>4 DEF Numbers
  <2>2. code(last) \in {200, 206, 503}
    OBVIOUS
  <2>3. code(last) = 503 => seq(last) = (IF last < first THEN since ELSE last)
    OBVIOUS
  <2>4. code(last) # 503 => seq(last) = server.max /\ last = server.max
    OBVIOUS
  <2>5. /\ code(last) = 200 /\ since # 0 => first = since + 1
        /\ since = 0 => first = server.max + 1
        /\ since # 0 /\ since <= server.max => since < first
    <3>1. code(last) = 200 => ~reset
      OBVIOUS
    <3> HIDE DEF first, since, code, reset
    <3> QED BY <1>7, <3>1
  <2>6. (ask.since # 0 => ask.inst \in {0, server.inst}) => since = ask.since
    BY DEF NoInstance
  <2> HIDE DEF first, since, seq, code
  <2> QED BY <1>4, <1>5, <1>7, <2>1, <2>2, <2>3, <2>4, <2>5, <2>6 DEF ReplayAnswer
<1>9. up' = Tail(up) /\ UNCHANGED <<link, page, conns, known, broken>>
  BY DEF HandleSync, PageSame
<1>10. gates' \in 0 .. MaxPageGates
  <2>1. gates \in 0 .. MaxPageGates
    BY DEF ClientTypes
  <2>2. gates' = gates \/ (gates < MaxPageGates /\ gates' = gates + 1)
    BY <1>4
  <2> QED BY ONLY <2>1, <2>2, ClientAssumption
<1>11. /\ server'.inst = server.inst /\ server'.max = server.max
       /\ server'.outbox = server.outbox
       /\ server' \in [inst : Nat, max : Numbers, shut : BOOLEAN,
                       outbox : Seq(1 .. MaxRoomNumber), synced : BOOLEAN]
  <2> DEFINE b == ~all(last)
  <2>1. b \in BOOLEAN
    OBVIOUS
  <2>2. server' = [server EXCEPT !.synced = TRUE, !.shut = b]
    BY <1>4
  <2> HIDE DEF b
  <2> QED BY <2>1, <2>2 DEF ClientTypes
<1> QED BY <1>8, <1>9, <1>10, <1>11

LEMMA ReplayFramesIs ==
    ASSUME NEW first \in Nat \ {0}, NEW last \in first - 1 .. MaxRoomNumber
    PROVE  /\ ReplayFrames(first, last) \in Seq(FrameSet)
           /\ Len(ReplayFrames(first, last)) = last - first + 1
           /\ \A n \in 1 .. last - first + 1 :
                ReplayFrames(first, last)[n] = [kind |-> "room", seq |-> first + n - 1]
<1> DEFINE k == last - first + 1
<1>1. k \in Nat
  BY ClientAssumption
<1>2. \A n \in 1 .. k : [kind |-> "room", seq |-> first + n - 1] \in FrameSet
  <2> TAKE n \in 1 .. k
  <2>1. first + n - 1 \in 1 .. MaxRoomNumber
    BY ClientAssumption
  <2> QED BY <2>1 DEF FrameSet
<1>3. ReplayFrames(first, last) \in [1 .. k -> FrameSet]
  BY <1>2 DEF ReplayFrames
<1>4. ReplayFrames(first, last) \in Seq(FrameSet)
  BY <1>1, <1>3, SeqDef
<1> HIDE DEF k
<1>5. Len(ReplayFrames(first, last)) = k
  BY <1>1, <1>3, <1>4
<1> QED BY <1>4, <1>5 DEF ReplayFrames, k

ServerSet == [inst : Nat, max : Numbers, shut : BOOLEAN, outbox : Seq(1 .. MaxRoomNumber),
              synced : BOOLEAN]

(* A page that has taken one frame, live or out of its buffer. *)
LEMMA ShowTypes ==
    ASSUME NEW pg \in Pages, NEW n \in 1 .. MaxRoomNumber, up \in Seq(Requests),
           NEW first \in Seq(Requests), Show(pg, n, first), Len(pg.buffer) <= MaxSyncBuffer
    PROVE  page' \in Pages /\ Len(page'.buffer) <= MaxSyncBuffer /\ up' \in Seq(Requests)
<1>1. n \in Numbers
  BY DEF Numbers
<1>2. up \o first \in Seq(Requests)
  BY ConcatProperties
<1>3. CASE page' = Advance(pg, n) /\ up' = up \o first
  BY <1>1, <1>2, <1>3, AdvanceIs
<1>4. CASE /\ page' = Advance(AtJump(pg, n), n)
           /\ up' = (up \o first) \o <<SyncRequest(AtJump(pg, n))>>
  <2> DEFINE g == [pg EXCEPT !.gapAsked = TRUE]
  <2>1. g \in Pages
    BY DEF Pages
  <2> HIDE DEF g
  <2>2. AtJump(pg, n) = BeginSync(g)
    BY DEF AtJump, g
  <2>3. AtJump(pg, n) \in Pages /\ AtJump(pg, n).buffer = <<>>
    BY <2>1, <2>2, BeginSyncIs
  <2>4. page' \in Pages /\ page'.buffer = <<>>
    BY <1>1, <1>4, <2>3, AdvanceIs
  <2>5. SyncRequest(AtJump(pg, n)) \in Requests
    BY <2>3, SyncRequestIs
  <2>6. <<SyncRequest(AtJump(pg, n))>> \in Seq(Requests)
    BY <2>5
  <2>7. up' \in Seq(Requests)
    BY ONLY <1>2, <1>4, <2>6, ConcatProperties
  <2> QED BY <2>4, <2>7, ClientAssumption
<1> QED BY <1>3, <1>4 DEF Show

LEMMA PageTypesStep ==
    ASSUME ClientTypes, PageHandler
    PROVE  ClientTypes'
<1>0. /\ page \in Pages /\ up \in Seq(Requests) /\ down \in Seq(FrameSet) /\ server \in ServerSet
      /\ Len(page.buffer) <= MaxSyncBuffer /\ known \subseteq 1 .. MaxRoomNumber
      /\ Range(page.buffer) \subseteq 1 .. MaxRoomNumber /\ <<>> \in Seq(Requests)
      /\ Len(<<>>) = 0
  BY BufferIs, EmptySeq DEF ClientTypes, ServerSet
<1>1. ASSUME TakeFrame, NEW kind, NextFrame(kind), page' \in Pages,
             Len(page'.buffer) <= MaxSyncBuffer,
             up' \in Seq(Requests), known' \subseteq 1 .. MaxRoomNumber, broken' \in BOOLEAN
      PROVE  ClientTypes'
  <2>1. down' \in Seq(FrameSet) /\ UNCHANGED <<server, link, conns, gates>>
    BY <1>1, TakeIs DEF TakeFrame
  <2> QED BY <1>1, <2>1 DEF ClientTypes
<1>2. CASE OnClose
  <2>1. EndSync(page) \in Pages /\ EndSync(page).buffer = <<>>
    BY <1>0, EndSyncIs
  <2>2. page' \in Pages /\ page'.buffer = <<>>
    BY <1>2, <2>1 DEF OnClose, Pages
  <2> QED BY <1>0, <1>2, <2>2, ClientAssumption DEF OnClose, ClientTypes
<1>3. CASE ReceiveLive
  <2>1. Head(down).seq \in 1 .. MaxRoomNumber /\ NextFrame("room")
    BY <1>3, TakeIs, RoomFrameIs DEF ReceiveLive
  <2>2. page' \in Pages /\ Len(page'.buffer) <= MaxSyncBuffer /\ up' \in Seq(Requests)
    BY <1>0, <1>3, <2>1, ShowTypes DEF ReceiveLive
  <2>3. broken' \in BOOLEAN
    BY <1>3 DEF ReceiveLive, Show, ClientTypes
  <2>4. known' \subseteq 1 .. MaxRoomNumber /\ TakeFrame
    BY <1>0, <1>3, <2>1 DEF ReceiveLive
  <2> QED BY <1>1, <2>1, <2>2, <2>3, <2>4
<1>4. CASE ReceiveBuffered
  <2>1. Head(down).seq \in 1 .. MaxRoomNumber /\ NextFrame("room")
    BY <1>4, TakeIs, RoomFrameIs DEF ReceiveBuffered
  <2> DEFINE b == Append(page.buffer, Head(down).seq)
  <2>2. page.buffer \in Seq(1 .. MaxRoomNumber)
    BY <1>0 DEF Pages
  <2>3. b \in Seq(1 .. MaxRoomNumber) /\ Len(b) = Len(page.buffer) + 1
    BY ONLY <2>1, <2>2, AppendProperties
  <2>4. Len(b) <= MaxSyncBuffer
    <3>1. Len(page.buffer) < MaxSyncBuffer /\ Len(page.buffer) \in Nat
      BY <1>4, <2>2, LenProperties DEF ReceiveBuffered
    <3> QED BY <2>3, <3>1, ClientAssumption
  <2>5. page' = [page EXCEPT !.buffer = b]
    BY <1>4 DEF ReceiveBuffered
  <2> HIDE DEF b
  <2>6. page' \in Pages /\ page'.buffer = b
    BY <1>0, <2>3, <2>5 DEF Pages
  <2>7. TakeFrame /\ UNCHANGED <<up, known, broken>>
    BY <1>4 DEF ReceiveBuffered
  <2>8. broken' \in BOOLEAN
    BY <2>7 DEF ClientTypes
  <2> QED BY <1>0, <1>1, <2>1, <2>4, <2>6, <2>7, <2>8
<1>5. CASE ReceiveOverflow
  <2> DEFINE pg == ApplyBuffer(page)
             n == Head(down).seq
             g == Flush(pg)
  <2>1. n \in 1 .. MaxRoomNumber /\ NextFrame("room")
    BY <1>5, TakeIs, RoomFrameIs DEF ReceiveOverflow
  <2>2. pg \in Pages /\ pg.buffer = <<>>
    BY <1>0, ApplyBufferIs
  <2>3. g \in Pages /\ g.buffer = <<>>
    BY <2>2, FlushIs
  <2>4. Flushed(pg) \in Seq(Requests)
    BY <2>2, FlushedIs
  <2>5. \/ page' = Advance(g, n) /\ up' = up \o Flushed(pg)
        \/ /\ page' = Advance(AtJump(g, n), n)
           /\ up' = (up \o Flushed(pg)) \o <<SyncRequest(AtJump(pg, n))>>
    BY <1>5 DEF ReceiveOverflow
  <2>6. known' \subseteq 1 .. MaxRoomNumber /\ TakeFrame /\ broken' \in BOOLEAN
    BY <1>0, <1>5, <2>1 DEF ReceiveOverflow
  <2>7. up \o Flushed(pg) \in Seq(Requests)
    BY ONLY <1>0, <2>4, ConcatProperties
  <2>8. n \in Numbers
    BY <2>1 DEF Numbers
  <2>9. ASSUME NEW q \in Pages PROVE AtJump(q, n) \in Pages /\ AtJump(q, n).buffer = <<>>
    <3> DEFINE r == [q EXCEPT !.gapAsked = TRUE]
    <3>1. r \in Pages
      BY DEF Pages
    <3> HIDE DEF r
    <3>2. AtJump(q, n) = BeginSync(r)
      BY DEF AtJump, r
    <3> QED BY <3>1, <3>2, BeginSyncIs
  <2> HIDE DEF pg, n, g
  <2>10. CASE page' = Advance(g, n) /\ up' = up \o Flushed(pg)
    <3>1. page' \in Pages /\ page'.buffer = <<>>
      BY <2>3, <2>8, <2>10, AdvanceIs
    <3> QED BY <1>0, <1>1, <2>1, <2>6, <2>7, <2>10, <3>1, ClientAssumption
  <2>11. CASE /\ page' = Advance(AtJump(g, n), n)
              /\ up' = (up \o Flushed(pg)) \o <<SyncRequest(AtJump(pg, n))>>
    <3>1. AtJump(g, n) \in Pages /\ AtJump(g, n).buffer = <<>> /\ AtJump(pg, n) \in Pages
      BY <2>2, <2>3, <2>9
    <3>2. page' \in Pages /\ page'.buffer = <<>>
      BY <2>8, <2>11, <3>1, AdvanceIs
    <3>3. SyncRequest(AtJump(pg, n)) \in Requests
      BY <3>1, SyncRequestIs
    <3>4. <<SyncRequest(AtJump(pg, n))>> \in Seq(Requests)
      BY <3>3
    <3>5. up' \in Seq(Requests)
      BY ONLY <2>7, <2>11, <3>4, ConcatProperties
    <3> QED BY <1>0, <1>1, <2>1, <2>6, <3>2, <3>5, ClientAssumption
  <2> QED BY <2>5, <2>10, <2>11
<1>6. CASE SyncDone
  <2> DEFINE done == Head(down)
             m == Max({page.seen, done.seq})
             told == [page EXCEPT !.instance = done.inst, !.retries = 0, !.seen = m]
             saved == SaveCursor(told, done.seq)
             pg == ApplyBuffer(saved)
  <2>1. /\ done.seq \in Numbers /\ done.inst \in Nat /\ NextFrame("done")
        /\ done \in FrameSet
    BY <1>6, TakeIs, DoneFrameIs DEF SyncDone
  <2>2. m \in Numbers
    <3>1. page.seen \in Numbers
      BY <1>0 DEF Pages
    <3>2. m \in {page.seen, done.seq}
      <4>1. page.seen \in Int /\ done.seq \in Int
        BY <2>1, <3>1 DEF Numbers
      <4> QED BY ONLY <4>1, PairMaxIs
    <3> QED BY <2>1, <3>1, <3>2
  <2>3. told \in Pages /\ told.instance = done.inst
    <3> HIDE DEF m, done
    <3> QED BY <1>0, <2>1, <2>2 DEF Pages
  <2>4. saved \in Pages
    <3>1. [inst |-> told.instance, seq |-> done.seq] \in [inst : Nat, seq : Numbers]
      BY <2>1, <2>3
    <3> HIDE DEF told, done
    <3> QED BY <2>3, <3>1 DEF SaveCursor, Pages
  <2>5. pg \in Pages /\ pg.buffer = <<>>
    <3> HIDE DEF saved
    <3> QED BY <2>4, ApplyBufferIs
  <2>6. /\ page' = Flush(pg) /\ up' = up \o Flushed(pg) /\ TakeFrame /\ UNCHANGED broken
        /\ known' = known \cup Range(page.buffer)
                    \cup (IF done.code = 206 \/ done.since = 0 THEN 1 .. done.seq ELSE {})
    BY <1>6 DEF SyncDone
  <2> HIDE DEF pg, saved, told, m, done
  <2>7. page' \in Pages /\ page'.buffer = <<>>
    BY <2>5, <2>6, FlushIs
  <2>8. Flushed(pg) \in Seq(Requests)
    BY <2>5, FlushedIs
  <2>9. up' \in Seq(Requests)
    BY ONLY <1>0, <2>6, <2>8, ConcatProperties
  <2>10. known' \subseteq 1 .. MaxRoomNumber
    <3>1. 1 .. done.seq \subseteq 1 .. MaxRoomNumber
      BY <2>1, ClientAssumption DEF Numbers
    <3> QED BY <1>0, <2>6, <3>1
  <2>11. broken' \in BOOLEAN
    BY <2>6 DEF ClientTypes
  <2> QED BY <1>0, <1>1, <2>1, <2>6, <2>7, <2>9, <2>10, <2>11, ClientAssumption
<1>7. CASE SyncRefused
  <2> DEFINE done == Head(down)
             told == [page EXCEPT !.instance = done.inst, !.retries = page.retries + 1]
             pg == ApplyBuffer(told)
  <2>1. done.inst \in Nat /\ NextFrame("done")
    BY <1>7, TakeIs, DoneFrameIs DEF SyncRefused
  <2>2. told \in Pages
    <3> DEFINE k == page.retries + 1
    <3>1. k \in Nat
      BY <1>0 DEF Pages
    <3> HIDE DEF done, k
    <3>2. [page EXCEPT !.instance = done.inst, !.retries = k] \in Pages
      BY <1>0, <2>1, <3>1 DEF Pages
    <3> QED BY <3>2 DEF k
  <2>3. pg \in Pages /\ pg.buffer = <<>>
    <3> HIDE DEF told
    <3> QED BY <2>2, ApplyBufferIs
  <2>4. /\ \/ page' = [pg EXCEPT !.retrying = TRUE] /\ UNCHANGED up
           \/ page' = Flush(pg) /\ up' = up \o Flushed(pg)
        /\ known' = known \cup Range(page.buffer) /\ broken' = TRUE /\ TakeFrame
    BY <1>7 DEF SyncRefused
  <2> HIDE DEF pg, told, done
  <2>5. CASE page' = [pg EXCEPT !.retrying = TRUE] /\ UNCHANGED up
    <3>1. page' \in Pages /\ page'.buffer = <<>>
      BY <2>3, <2>5 DEF Pages
    <3> QED BY <1>0, <1>1, <2>1, <2>4, <2>5, <3>1, ClientAssumption
  <2>6. CASE page' = Flush(pg) /\ up' = up \o Flushed(pg)
    <3>1. page' \in Pages /\ page'.buffer = <<>>
      BY <2>3, <2>6, FlushIs
    <3>2. Flushed(pg) \in Seq(Requests)
      BY <2>3, FlushedIs
    <3>3. up' \in Seq(Requests)
      BY ONLY <1>0, <2>6, <3>2, ConcatProperties
    <3> QED BY <1>0, <1>1, <2>1, <2>4, <3>1, <3>3, ClientAssumption
  <2> QED BY <2>4, <2>5, <2>6
<1>8. CASE ReceiveAck
  <2>1. page' \in Pages /\ page'.buffer = page.buffer
    <3>1. page.pending \in PendingSet /\ NoMessagePending \in PendingSet
      BY <1>0, ClientAssumption DEF Pages, PendingSet, NoMessagePending
    <3>2. ~LastAttempt(page) => page.pending.attempts + 1 \in 0 .. MaxSendAttempts
      BY <3>1, ClientAssumption DEF LastAttempt, PendingSet
    <3>3. CASE page' = page
      BY <1>0, <3>3
    <3>4. CASE ~LastAttempt(page) /\ page' = WithPending(page, page.pending.attempts + 1, "backoff")
      BY <1>0, <3>2, <3>4, WithPendingIs
    <3>5. CASE page' = [page EXCEPT !.pending = NoMessagePending]
      BY <1>0, <3>1, <3>5 DEF Pages
    <3> QED BY <1>8, <3>3, <3>4, <3>5 DEF ReceiveAck, FailPending
  <2>2. NextFrame("ack") /\ TakeFrame /\ UNCHANGED <<up, known, broken>>
    BY <1>8 DEF ReceiveAck
  <2>3. broken' \in BOOLEAN
    BY <2>2 DEF ClientTypes
  <2> QED BY <1>0, <1>1, <2>1, <2>2, <2>3
<1> QED BY <1>2, <1>3, <1>4, <1>5, <1>6, <1>7, <1>8 DEF PageHandler

LEMMA TimerTypesStep ==
    ASSUME ClientTypes, PageTimer \/ SendMessage
    PROVE  ClientTypes'
<1>0. /\ page \in Pages /\ up \in Seq(Requests) /\ page.pending \in PendingSet
      /\ Len(page.buffer) <= MaxSyncBuffer /\ known \subseteq 1 .. MaxRoomNumber
      /\ Range(page.buffer) \subseteq 1 .. MaxRoomNumber
      /\ <<>> \in Seq(Requests) /\ Len(<<>>) = 0 /\ broken \in BOOLEAN
      /\ NoMessagePending \in PendingSet
  BY BufferIs, EmptySeq, ClientAssumption
     DEF ClientTypes, Pages, NoMessagePending, PendingSet
<1>1. ASSUME UNCHANGED <<server, link, down, conns, gates>>, page' \in Pages,
             Len(page'.buffer) <= MaxSyncBuffer,
             up' \in Seq(Requests), known' \subseteq 1 .. MaxRoomNumber, broken' \in BOOLEAN
      PROVE  ClientTypes'
  BY <1>1 DEF ClientTypes
<1>2. \A r \in Requests : Append(up, r) \in Seq(Requests)
  BY <1>0, AppendProperties
<1>3. MessageRequest(page) \in Requests
  BY <1>0, MessageRequestIs
<1>4. CASE SyncTimeout
  <2> DEFINE pg == ApplyBuffer(page)
  <2>1. pg \in Pages /\ pg.buffer = <<>>
    BY <1>0, ApplyBufferIs
  <2>2. Flush(pg) \in Pages /\ Flush(pg).buffer = <<>>
    <3> HIDE DEF pg
    <3> QED BY <2>1, FlushIs
  <2>3. page' \in Pages /\ page'.buffer = <<>>
    <3> HIDE DEF pg
    <3>1. page' = Flush(pg) \/ page' = pg
      BY <1>4 DEF SyncTimeout, pg
    <3> QED BY <2>1, <2>2, <3>1
  <2>4. up' \in Seq(Requests)
    <3>1. Flushed(page) \in Seq(Requests)
      BY <1>0, FlushedIs
    <3>2. up' = up \o Flushed(page) \/ up' = up
      BY <1>4 DEF SyncTimeout
    <3> QED BY ONLY <1>0, <3>1, <3>2, ConcatProperties
  <2>5. /\ known' = known \cup Range(page.buffer) /\ broken' = TRUE
        /\ UNCHANGED <<server, link, down, conns, gates>>
    BY <1>4 DEF SyncTimeout
  <2> HIDE DEF pg
  <2>6. Len(page'.buffer) <= MaxSyncBuffer
    BY <1>0, <2>3, ClientAssumption
  <2>7. known' \subseteq 1 .. MaxRoomNumber /\ broken' \in BOOLEAN
    BY <1>0, <2>5
  <2> QED BY <1>1, <2>3, <2>4, <2>5, <2>6, <2>7
<1>5. CASE RetrySync
  <2>1. UNCHANGED <<server, link, down, conns, gates, known, broken>>
    BY <1>5 DEF RetrySync
  <2>2. CASE page' = [page EXCEPT !.retrying = FALSE] /\ UNCHANGED up
    <3>1. page' \in Pages /\ page'.buffer = page.buffer
      BY <1>0, <2>2 DEF Pages
    <3> QED BY <1>0, <1>1, <2>1, <2>2, <3>1
  <2>3. CASE page' = BeginSync(page) /\ up' = Append(up, SyncRequest(page))
    <3>1. page' \in Pages /\ page'.buffer = <<>> /\ SyncRequest(page) \in Requests
      BY <1>0, <2>3, BeginSyncIs, SyncRequestIs
    <3>2. up' \in Seq(Requests)
      BY <1>2, <2>3, <3>1
    <3> QED BY <1>0, <1>1, <2>1, <3>1, <3>2, ClientAssumption
  <2> QED BY <1>5, <2>2, <2>3 DEF RetrySync
<1>6. ASSUME NEW a \in 0 .. MaxSendAttempts, Resend(a), OwnSame PROVE ClientTypes'
  <2>1. page' \in Pages /\ page'.buffer = page.buffer
    <3>1. page' = WithPending(page, a, "ack") \/ page' = WithPending(page, a, "none")
      BY <1>6 DEF Resend
    <3> QED BY <1>0, <3>1, WithPendingIs
  <2>2. up' \in Seq(Requests)
    <3>1. up' = up \/ up' = Append(up, MessageRequest(page))
      BY <1>6 DEF Resend
    <3> QED BY <1>0, <1>2, <1>3, <3>1
  <2> QED BY <1>0, <1>1, <1>6, <2>1, <2>2 DEF OwnSame
<1>7. CASE AckTimeout
  <2>1. CASE LastAttempt(page) /\ page' = FailPending(page) /\ UNCHANGED up
    <3>1. page' \in Pages /\ page'.buffer = page.buffer
      BY <1>0, <2>1 DEF FailPending, Pages
    <3> QED BY <1>0, <1>1, <1>7, <2>1, <3>1 DEF AckTimeout, OwnSame
  <2>2. CASE ~LastAttempt(page) /\ Resend(page.pending.attempts + 1)
    <3>1. page.pending.attempts + 1 \in 0 .. MaxSendAttempts
      BY <1>0, <2>2, ClientAssumption DEF LastAttempt, PendingSet
    <3>2. OwnSame
      BY <1>7 DEF AckTimeout
    <3> QED BY <1>6, <2>2, <3>1, <3>2
  <2> QED BY <1>7, <2>1, <2>2 DEF AckTimeout
<1>8. CASE BackOffOver
  <2>1. page.pending.attempts \in 0 .. MaxSendAttempts
    BY <1>0 DEF PendingSet
  <2> QED BY <1>6, <1>8, <2>1 DEF BackOffOver
<1>9. CASE SendMessage
  <2> DEFINE p == [id |-> page.sent + 1, attempts |-> 1, timer |-> "ack"]
             k == page.sent + 1
  <2>1. k \in Nat /\ 1 \in 0 .. MaxSendAttempts
    BY <1>0, ClientAssumption DEF Pages
  <2>2. p \in PendingSet
    BY <2>1 DEF PendingSet
  <2>3. page' = [page EXCEPT !.sent = k, !.pending = p]
    BY <1>9 DEF SendMessage
  <2> HIDE DEF p, k
  <2>4. page' \in Pages /\ page'.buffer = page.buffer
    BY <1>0, <2>1, <2>2, <2>3 DEF Pages
  <2>5. up' = Append(up, MessageRequest(page'))
    BY <1>9 DEF SendMessage
  <2>6. MessageRequest(page') \in Requests
    BY <2>4, MessageRequestIs
  <2>7. up' \in Seq(Requests)
    BY <1>2, <2>5, <2>6
  <2> QED BY <1>0, <1>1, <1>9, <2>4, <2>7 DEF SendMessage, OwnSame
<1> QED BY <1>4, <1>5, <1>7, <1>8, <1>9 DEF PageTimer

LEMMA ServerTypesStep ==
    ASSUME ClientTypes, ServerHandler \/ PublishToRoom \/ GateShuts \/ GateOpens
    PROVE  ClientTypes'
<1>0. /\ server \in ServerSet /\ down \in Seq(FrameSet) /\ up \in Seq(Requests)
      /\ gates \in 0 .. MaxPageGates /\ server.outbox \in Seq(1 .. MaxRoomNumber)
      /\ server.max \in Numbers /\ server.inst \in Nat
  BY DEF ClientTypes, ServerSet
<1>1. ASSUME PageSame, server' \in ServerSet, up' \in Seq(Requests), down' \in Seq(FrameSet),
             gates' \in 0 .. MaxPageGates
      PROVE  ClientTypes'
  BY <1>1 DEF ClientTypes, PageSame, ServerSet
<1>2. \A f \in FrameSet : Append(down, f) \in Seq(FrameSet)
  BY <1>0, AppendProperties
<1>3. CASE SyncBusy
  <2>1. NextRequest("sync")
    BY <1>3 DEF SyncBusy
  <2>2. Head(up).since \in Numbers /\ Tail(up) \in Seq(Requests)
    BY <2>1, AskIs, SyncAskIs
  <2>3. DoneFrame(503, Head(up).since, Head(up).since, {}) \in FrameSet
    BY <1>0, <2>2 DEF DoneFrame, FrameSet
  <2> QED BY <1>0, <1>1, <1>2, <1>3, <2>2, <2>3 DEF SyncBusy
<1>4. CASE HandleSync
  <2>1. PICK since, first, last, seq, code : ReplayAnswer(since, first, last, seq, code)
    BY <1>4, HandleSyncIs
  <2>2. /\ since \in Numbers /\ first \in 1 .. server.max + 1 /\ last \in first - 1 .. server.max
        /\ seq \in Numbers /\ code \in {200, 206, 503}
        /\ down' = (down \o ReplayFrames(first, last))
                   \o <<DoneFrame(code, seq, since, first .. last)>>
    BY <2>1 DEF ReplayAnswer
  <2>3. first \in Nat \ {0} /\ last \in first - 1 .. MaxRoomNumber
    BY <1>0, <2>2, ClientAssumption DEF Numbers
  <2>4. ReplayFrames(first, last) \in Seq(FrameSet)
    BY <2>3, ReplayFramesIs
  <2>5. DoneFrame(code, seq, since, first .. last) \in FrameSet
    <3>1. first .. last \in SUBSET Int
      OBVIOUS
    <3> QED BY <1>0, <2>2, <3>1 DEF DoneFrame, FrameSet
  <2>6. <<DoneFrame(code, seq, since, first .. last)>> \in Seq(FrameSet)
    BY <2>5
  <2>7. down \o ReplayFrames(first, last) \in Seq(FrameSet)
    BY ONLY <1>0, <2>4, ConcatProperties
  <2>8. down' \in Seq(FrameSet)
    BY ONLY <2>2, <2>6, <2>7, ConcatProperties
  <2>9. Tail(up) \in Seq(Requests)
    BY <1>4, AskIs DEF HandleSync
  <2>10. server' \in ServerSet /\ gates' \in 0 .. MaxPageGates /\ up' = Tail(up) /\ PageSame
    BY <1>4, HandleSyncIs DEF ServerSet, PageSame
  <2> QED BY <1>1, <2>8, <2>9, <2>10
<1>5. CASE HandleMessage
  <2>1. Tail(up) \in Seq(Requests) /\ Head(up) \in Requests /\ Head(up).kind = "message"
    BY <1>5, AskIs DEF HandleMessage
  <2>2. Head(up).id \in Nat
    BY <2>1 DEF Requests
  <2>3. \A code \in {200, 404, 503} : [kind |-> "ack", id |-> Head(up).id, code |-> code] \in FrameSet
    BY <2>2 DEF FrameSet
  <2>4. down' \in Seq(FrameSet)
    <3>1. CASE UNCHANGED down
      BY <1>0, <3>1
    <3>2. CASE \E code \in {200, 404, 503} :
                down' = Append(down, [kind |-> "ack", id |-> Head(up).id, code |-> code])
      <4>1. PICK code \in {200, 404, 503} :
                down' = Append(down, [kind |-> "ack", id |-> Head(up).id, code |-> code])
        BY <3>2
      <4>2. [kind |-> "ack", id |-> Head(up).id, code |-> code] \in FrameSet
        BY <2>3
      <4> QED BY <1>2, <4>1, <4>2
    <3> QED BY <1>5, <3>1, <3>2 DEF HandleMessage
  <2>5. up' = Tail(up) /\ UNCHANGED <<server, gates>> /\ PageSame
    BY <1>5 DEF HandleMessage
  <2> QED BY <1>0, <1>1, <2>1, <2>4, <2>5
<1>6. CASE DeliverLive
  <2>1. server.outbox # <<>>
    BY <1>6 DEF DeliverLive
  <2>2. Head(server.outbox) \in 1 .. MaxRoomNumber /\ Tail(server.outbox) \in Seq(1 .. MaxRoomNumber)
    BY ONLY <1>0, <2>1, HeadTailProperties
  <2>3. [kind |-> "room", seq |-> Head(server.outbox)] \in FrameSet
    BY <2>2 DEF FrameSet
  <2>4. down' \in Seq(FrameSet)
    BY <1>0, <1>2, <1>6, <2>3 DEF DeliverLive
  <2>5. server' \in ServerSet
    BY <1>0, <1>6, <2>2 DEF DeliverLive, ServerSet
  <2>6. UNCHANGED <<up, gates>> /\ PageSame
    BY <1>6 DEF DeliverLive
  <2> QED BY <1>0, <1>1, <2>4, <2>5, <2>6
<1>7. CASE PublishToRoom
  <2>1. server.max + 1 \in 1 .. MaxRoomNumber
    BY <1>0, <1>7, ClientAssumption DEF PublishToRoom, Numbers
  <2>2. Append(server.outbox, server.max + 1) \in Seq(1 .. MaxRoomNumber)
    BY ONLY <1>0, <2>1, AppendProperties
  <2> DEFINE m == server.max + 1
             o == IF link = "open" THEN Append(server.outbox, m) ELSE server.outbox
  <2>3. m \in Numbers /\ o \in Seq(1 .. MaxRoomNumber)
    <3>1. m \in Numbers
      BY <2>1 DEF Numbers
    <3>2. o \in Seq(1 .. MaxRoomNumber)
      BY <1>0, <2>2
    <3> QED BY <3>1, <3>2
  <2>4. server' = [server EXCEPT !.max = m, !.outbox = o]
    BY <1>7 DEF PublishToRoom
  <2> HIDE DEF m, o
  <2>5. server' \in ServerSet
    BY <1>0, <2>3, <2>4 DEF ServerSet
  <2>6. UNCHANGED <<up, down, gates>> /\ PageSame
    BY <1>7 DEF PublishToRoom
  <2> QED BY <1>0, <1>1, <2>5, <2>6
<1>8. CASE GateShuts
  <2>1. server' = [server EXCEPT !.shut = TRUE] /\ gates < MaxPageGates /\ gates' = gates + 1
    BY <1>8 DEF GateShuts
  <2>2. server' \in ServerSet
    BY <1>0, <2>1 DEF ServerSet
  <2>3. gates' \in 0 .. MaxPageGates
    BY <1>0, <2>1, ClientAssumption
  <2> QED BY <1>0, <1>1, <1>8, <2>2, <2>3 DEF GateShuts
<1>9. CASE GateOpens
  <2>1. server' \in ServerSet
    BY <1>0, <1>9 DEF ServerSet, GateOpens
  <2> QED BY <1>0, <1>1, <1>9, <2>1 DEF GateOpens
<1> QED BY <1>3, <1>4, <1>5, <1>6, <1>7, <1>8, <1>9 DEF ServerHandler

LEMMA LinkTypesStep ==
    ASSUME ClientTypes, Connect \/ Disconnect \/ RestartServer
    PROVE  ClientTypes'
<1>0. /\ server \in ServerSet /\ page \in Pages /\ conns \in 0 .. MaxPageConns
      /\ Len(page.buffer) <= MaxSyncBuffer /\ broken \in BOOLEAN
      /\ <<>> \in Seq(Requests) /\ <<>> \in Seq(FrameSet) /\ <<>> \in Seq(1 .. MaxRoomNumber)
      /\ Len(<<>>) = 0
  BY EmptySeq DEF ClientTypes, ServerSet
<1>1. CASE Connect
  <2> DEFINE fresh == [page EXCEPT !.retries = 0]
  <2>1. fresh \in Pages /\ fresh.buffer = page.buffer
    BY <1>0 DEF Pages
  <2>2. \/ page' = fresh /\ up' = <<>>
        \/ page' = BeginSync(fresh) /\ up' = <<SyncRequest(page)>>
    BY <1>1 DEF Connect
  <2> HIDE DEF fresh
  <2>3. BeginSync(fresh) \in Pages /\ BeginSync(fresh).buffer = <<>>
    BY <2>1, BeginSyncIs
  <2>4. SyncRequest(page) \in Requests
    BY <1>0, SyncRequestIs
  <2>5. <<SyncRequest(page)>> \in Seq(Requests)
    BY <2>4
  <2>6. page' \in Pages /\ Len(page'.buffer) <= MaxSyncBuffer /\ up' \in Seq(Requests)
    <3>1. CASE page' = fresh /\ up' = <<>>
      BY <1>0, <2>1, <3>1
    <3>2. CASE page' = BeginSync(fresh) /\ up' = <<SyncRequest(page)>>
      <4>1. page' \in Pages /\ page'.buffer = <<>>
        BY <2>3, <3>2
      <4>2. Len(page'.buffer) <= MaxSyncBuffer
        BY <1>0, <4>1, ClientAssumption
      <4>3. up' \in Seq(Requests)
        BY <2>5, <3>2
      <4> QED BY <4>1, <4>2, <4>3
    <3> QED BY <2>2, <3>1, <3>2
  <2>7. server' \in ServerSet
    BY <1>0, <1>1 DEF Connect, ServerSet
  <2>8. conns' \in 0 .. MaxPageConns
    <3>1. conns < MaxPageConns /\ conns' = conns + 1
      BY <1>1 DEF Connect
    <3> QED BY <1>0, <3>1, ClientAssumption
  <2>9. link' = "open" /\ down' = <<>> /\ UNCHANGED <<gates, known, broken>>
    BY <1>1 DEF Connect
  <2> QED BY <1>0, <2>6, <2>7, <2>8, <2>9 DEF ClientTypes, ServerSet
<1>2. CASE Disconnect
  <2>1. server' \in ServerSet
    BY <1>0, <1>2 DEF Disconnect, ServerSet
  <2>2. broken' \in BOOLEAN
    BY <1>0, <1>2 DEF Disconnect, Pages
  <2>3. link' = "closing" /\ up' = <<>> /\ down' = <<>> /\ UNCHANGED <<page, conns, gates, known>>
    BY <1>2 DEF Disconnect
  <2> QED BY <1>0, <2>1, <2>2, <2>3 DEF ClientTypes, ServerSet
<1>3. CASE RestartServer
  <2>1. 0 \in Numbers
    BY ClientAssumption DEF Numbers
  <2>2. server.inst + 1 \in Nat
    BY <1>0 DEF ServerSet
  <2>3. server' \in ServerSet
    BY <1>0, <1>3, <2>1, <2>2 DEF RestartServer, ServerSet
  <2>4. /\ link' = (IF link = "open" THEN "closing" ELSE link) /\ up' = <<>> /\ down' = <<>>
        /\ known' = {} /\ broken' = TRUE /\ UNCHANGED <<page, conns, gates>>
    BY <1>3 DEF RestartServer
  <2> QED BY <1>0, <2>3, <2>4 DEF ClientTypes, ServerSet
<1> QED BY <1>1, <1>2, <1>3

LEMMA ClientTypesInit == ClientInit => ClientTypes
<1> SUFFICES ASSUME ClientInit PROVE ClientTypes
  OBVIOUS
<1>1. /\ <<>> \in Seq(Requests) /\ <<>> \in Seq(FrameSet) /\ <<>> \in Seq(1 .. MaxRoomNumber)
      /\ Len(<<>>) = 0
  BY EmptySeq
<1>2. 0 \in Numbers /\ 0 \in 0 .. MaxSendAttempts /\ 0 \in 0 .. MaxPageConns
      /\ 0 \in 0 .. MaxPageGates
  BY ClientAssumption DEF Numbers
<1>3. NoMessagePending \in PendingSet
  BY <1>2 DEF NoMessagePending, PendingSet
<1>4. page = PageInit /\ PageInit \in Pages /\ PageInit.buffer = <<>>
  BY <1>1, <1>2, <1>3 DEF ClientInit, PageInit, Pages, NoInstance
<1>5. server \in ServerSet
  BY <1>1, <1>2 DEF ClientInit, ServerSet
<1>6. Len(page.buffer) <= MaxSyncBuffer
  BY <1>1, <1>4, ClientAssumption
<1>7. up \in Seq(Requests) /\ down \in Seq(FrameSet)
  BY <1>1 DEF ClientInit
<1>8. /\ conns \in 0 .. MaxPageConns /\ gates \in 0 .. MaxPageGates /\ broken \in BOOLEAN
      /\ known \subseteq 1 .. MaxRoomNumber /\ link \in {"closed", "open", "closing"}
  BY <1>2 DEF ClientInit
<1> QED BY <1>4, <1>5, <1>6, <1>7, <1>8 DEF ClientTypes, ServerSet

LEMMA ClientTypesStep == ClientTypes /\ [ClientNext]_clientVars => ClientTypes'
<1> SUFFICES ASSUME ClientTypes, [ClientNext]_clientVars PROVE ClientTypes'
  OBVIOUS
<1>1. CASE UNCHANGED clientVars
  BY <1>1 DEF ClientTypes, clientVars
<1>2. CASE ClientNext
  BY <1>2, PageTypesStep, TimerTypesStep, ServerTypesStep, LinkTypesStep DEF ClientNext
<1> QED BY <1>1, <1>2

(***************************************************************************)
(* What becomes of places when something is taken or added.                *)
(***************************************************************************)

LEMMA SeqDomain ==
    ASSUME NEW S, NEW s \in Seq(S)
    PROVE  DOMAIN s = 1 .. Len(s) /\ Len(s) \in Nat /\ DOMAIN s \subseteq Nat
BY LenProperties

LEMMA TailPlaces ==
    ASSUME NEW S, NEW s \in Seq(S), s # <<>>
    PROVE  /\ Tail(s) \in Seq(S)
           /\ 1 \in DOMAIN s /\ s[1] = Head(s)
           /\ \A i \in DOMAIN Tail(s) : i \in Nat /\ i >= 1 /\ i + 1 \in DOMAIN s /\ Tail(s)[i] = s[i + 1]
           /\ \A j \in DOMAIN s : j \in Nat /\ j >= 1
                /\ (j # 1 => j - 1 \in DOMAIN Tail(s) /\ Tail(s)[j - 1] = s[j])
<1>1. /\ Tail(s) \in Seq(S) /\ Len(Tail(s)) = Len(s) - 1 /\ Head(s) = s[1]
      /\ \A i \in 1 .. Len(s) - 1 : Tail(s)[i] = s[i + 1]
  BY ONLY s \in Seq(S), s # <<>>, HeadTailProperties
<1>2. Len(s) \in Nat /\ Len(s) # 0
  BY EmptySeq, LenProperties
<1>3. DOMAIN s = 1 .. Len(s) /\ DOMAIN Tail(s) = 1 .. Len(s) - 1
  BY <1>1, SeqDomain
<1> QED BY <1>1, <1>2, <1>3

LEMMA AppendPlaces ==
    ASSUME NEW S, NEW s \in Seq(S), NEW e \in S
    PROVE  /\ Append(s, e) \in Seq(S) /\ Len(s) \in Nat
           /\ Len(s) + 1 \in DOMAIN Append(s, e) /\ Append(s, e)[Len(s) + 1] = e
           /\ \A i \in DOMAIN s : i \in Nat /\ i <= Len(s)
                                  /\ i \in DOMAIN Append(s, e) /\ Append(s, e)[i] = s[i]
           /\ \A i \in DOMAIN Append(s, e) : i \in Nat /\ (i \in DOMAIN s \/ i = Len(s) + 1)
<1>1. /\ Append(s, e) \in Seq(S) /\ Len(Append(s, e)) = Len(s) + 1
      /\ \A i \in 1 .. Len(s) : Append(s, e)[i] = s[i]
      /\ Append(s, e)[Len(s) + 1] = e
  BY AppendProperties
<1>2. Len(s) \in Nat /\ DOMAIN s = 1 .. Len(s) /\ DOMAIN Append(s, e) = 1 .. Len(s) + 1
  BY <1>1, SeqDomain
<1> QED BY <1>1, <1>2

LEMMA ConcatPlaces ==
    ASSUME NEW S, NEW s \in Seq(S), NEW t \in Seq(S)
    PROVE  /\ s \o t \in Seq(S) /\ Len(s) \in Nat /\ Len(t) \in Nat /\ Len(s \o t) = Len(s) + Len(t)
           /\ \A i \in DOMAIN s : i \in Nat /\ i <= Len(s) /\ i \in DOMAIN (s \o t) /\ (s \o t)[i] = s[i]
           /\ \A i \in 1 .. Len(t) : /\ Len(s) + i \in DOMAIN (s \o t)
                                     /\ (s \o t)[Len(s) + i] = t[i]
           /\ \A i \in DOMAIN (s \o t) : i \in Nat /\
                (i \in DOMAIN s \/ (i - Len(s) \in 1 .. Len(t) /\ (s \o t)[i] = t[i - Len(s)]))
<1>1. /\ s \o t \in Seq(S) /\ Len(s \o t) = Len(s) + Len(t)
      /\ \A i \in 1 .. Len(s) + Len(t) :
            (s \o t)[i] = IF i <= Len(s) THEN s[i] ELSE t[i - Len(s)]
  BY ConcatProperties
<1>2. /\ Len(s) \in Nat /\ Len(t) \in Nat /\ DOMAIN s = 1 .. Len(s)
      /\ DOMAIN (s \o t) = 1 .. Len(s) + Len(t)
  BY <1>1, SeqDomain
<1>3. ASSUME NEW i \in 1 .. Len(t)
      PROVE  Len(s) + i \in DOMAIN (s \o t) /\ (s \o t)[Len(s) + i] = t[i]
  <2>1. Len(s) + i \in 1 .. Len(s) + Len(t) /\ ~(Len(s) + i <= Len(s)) /\ (Len(s) + i) - Len(s) = i
    BY <1>2
  <2> QED BY <1>1, <1>2, <2>1
<1>4. ASSUME NEW i \in DOMAIN (s \o t)
      PROVE  i \in Nat /\ (i \in DOMAIN s \/ (i - Len(s) \in 1 .. Len(t) /\ (s \o t)[i] = t[i - Len(s)]))
  BY <1>1, <1>2
<1>5. \A i \in DOMAIN s : i \in Nat /\ i <= Len(s) /\ i \in DOMAIN (s \o t) /\ (s \o t)[i] = s[i]
  BY <1>1, <1>2
<1> QED BY <1>1, <1>2, <1>3, <1>4, <1>5

(* t holds what s holds of some kinds, k places further to the front. *)
Shifted(s, t, k, kinds) ==
    /\ k \in Nat
    /\ \A i \in DOMAIN t : i \in Nat /\ (t[i].kind \in kinds => i + k \in DOMAIN s /\ t[i] = s[i + k])
    /\ \A j \in DOMAIN s : j \in Nat
        /\ (s[j].kind \in kinds => j - k \in DOMAIN t /\ t[j - k] = s[j])

LEMMA ShiftedSame ==
    ASSUME NEW S, NEW s \in Seq(S), NEW kinds
    PROVE  Shifted(s, s, 0, kinds)
<1>1. \A i \in DOMAIN s : i \in Nat /\ i + 0 = i /\ i - 0 = i
  BY SeqDomain
<1> QED BY <1>1 DEF Shifted

LEMMA ShiftedAppend ==
    ASSUME NEW S, NEW s \in Seq(S), NEW e \in S, NEW kinds, e.kind \notin kinds
    PROVE  Shifted(s, Append(s, e), 0, kinds)
<1>1. \A i \in DOMAIN Append(s, e) : i \in Nat /\ i + 0 = i
  BY AppendPlaces
<1>2. \A i \in DOMAIN s : i \in Nat /\ i - 0 = i
  BY SeqDomain
<1> QED BY <1>1, <1>2, AppendPlaces DEF Shifted

LEMMA ShiftedConcat ==
    ASSUME NEW S, NEW s \in Seq(S), NEW t \in Seq(S), NEW kinds,
           \A i \in DOMAIN t : t[i].kind \notin kinds
    PROVE  Shifted(s, s \o t, 0, kinds)
<1>1. \A i \in DOMAIN (s \o t) : i \in Nat /\ i + 0 = i
  BY ConcatPlaces
<1>2. \A i \in DOMAIN s : i \in Nat /\ i - 0 = i
  BY SeqDomain
<1>3. DOMAIN t = 1 .. Len(t)
  BY SeqDomain
<1>4. \A i \in DOMAIN (s \o t) : (s \o t)[i].kind \in kinds => i \in DOMAIN s
  BY <1>3, ConcatPlaces
<1> QED BY <1>1, <1>2, <1>4, ConcatPlaces DEF Shifted

LEMMA ShiftedTail ==
    ASSUME NEW S, NEW s \in Seq(S), s # <<>>, NEW kinds, Head(s).kind \notin kinds
    PROVE  Shifted(s, Tail(s), 1, kinds)
<1>1. \A j \in DOMAIN s : s[j].kind \in kinds => j # 1
  BY TailPlaces
<1> QED BY <1>1, TailPlaces DEF Shifted

LEMMA ShiftedAt ==
    ASSUME NEW s, NEW t, NEW k, NEW kinds, Shifted(s, t, k, kinds), NEW kind \in kinds
    PROVE  /\ \A i \in OfKind(t, kind) : i \in Nat /\ i + k \in OfKind(s, kind) /\ t[i] = s[i + k]
           /\ \A j \in OfKind(s, kind) : j \in Nat /\ j - k \in OfKind(t, kind) /\ t[j - k] = s[j]
           /\ k \in Nat
BY DEF Shifted, OfKind

LEMMA ShiftedFrames ==
    ASSUME NEW d, NEW e, NEW k, Shifted(d, e, k, {"room", "done"}),
           NEW queued, NEW buffered
    PROVE  /\ Coming(e, queued, buffered) = Coming(d, queued, buffered)
           /\ RisingIn(d, queued) => RisingIn(e, queued)
           /\ \A i \in OfKind(e, "done"), c, max \in Int :
                Answers(d, i + k, c, max, buffered) => Answers(e, i, c, max, buffered)
<1>1. /\ \A i \in OfKind(e, "room") : i \in Nat /\ i + k \in OfKind(d, "room") /\ e[i] = d[i + k]
      /\ \A j \in OfKind(d, "room") : j \in Nat /\ j - k \in OfKind(e, "room") /\ e[j - k] = d[j]
      /\ k \in Nat
  BY ShiftedAt
<1>2. \A i \in OfKind(e, "done") : i \in Nat /\ i + k \in OfKind(d, "done") /\ e[i] = d[i + k]
  BY ShiftedAt
<1>3. Coming(e, queued, buffered) = Coming(d, queued, buffered)
  BY <1>1 DEF Coming
<1>4. ASSUME RisingIn(d, queued) PROVE RisingIn(e, queued)
  <2>1. ASSUME NEW i \in OfKind(e, "room"), NEW j \in OfKind(e, "room"), i < j
        PROVE  e[i].seq < e[j].seq
    <3>1. i + k < j + k
      BY <1>1, <2>1
    <3> QED BY <1>1, <1>4, <3>1 DEF RisingIn
  <2>2. \A i \in OfKind(e, "room"), j \in DOMAIN queued : e[i].seq < queued[j]
    BY <1>1, <1>4 DEF RisingIn
  <2> QED BY <1>4, <2>1, <2>2 DEF RisingIn
<1>5. ASSUME NEW i \in OfKind(e, "done"), NEW c \in Int, NEW max \in Int,
             Answers(d, i + k, c, max, buffered), e[i].code # 503
      PROVE  Answers(e, i, c, max, buffered)
  <2>1. e[i] = d[i + k] /\ i \in Nat
    BY <1>2
  <2>2. e[i].inst = 1 /\ e[i].seq \in c .. max /\ \A f \in buffered : f <= e[i].seq
    BY <1>5, <2>1 DEF Answers
  <2>3. ASSUME NEW j \in OfKind(e, "room"), j < i PROVE e[j].seq <= e[i].seq
    <3>1. j + k \in OfKind(d, "room") /\ e[j] = d[j + k] /\ j + k < i + k
      BY <1>1, <2>1, <2>3
    <3> QED BY <1>5, <2>1, <3>1 DEF Answers
  <2>4. ASSUME e[i].code = 200, e[i].since # 0, NEW n \in e[i].since + 1 .. e[i].seq,
               n \notin buffered
        PROVE  \E j \in OfKind(e, "room") : j < i /\ e[j].seq = n
    <3>1. PICK j \in OfKind(d, "room") : j < i + k /\ d[j].seq = n
      BY <1>5, <2>1, <2>4 DEF Answers
    <3>2. j - k \in OfKind(e, "room") /\ e[j - k] = d[j] /\ j - k < i
      BY <1>1, <2>1, <3>1
    <3> QED BY <3>1, <3>2
  <2> QED BY <2>2, <2>3, <2>4 DEF Answers
<1>6. \A i \in OfKind(e, "done"), c, max \in Int :
        Answers(d, i + k, c, max, buffered) => Answers(e, i, c, max, buffered)
  BY <1>5 DEF Answers
<1> QED BY <1>3, <1>4, <1>6

(* A base stays one while the page knows what it knew and new numbers are beyond it. *)
LEMMA BaseKept ==
    ASSUME NEW b, NEW c, NEW knows, NEW coming, NEW more, Base(b, c, knows, coming),
           \A f \in more : f \in coming \/ f > b
    PROVE  Base(b, c, knows, more)
BY DEF Base

(***************************************************************************)
(* Steps that take no part in a catching up.                               *)
(***************************************************************************)

PageKept ==
    /\ page'.cursor = page.cursor /\ page'.seen = page.seen /\ page'.instance = page.instance
    /\ page'.syncing = page.syncing /\ page'.buffer = page.buffer
    /\ page'.retrying = page.retrying
ServerKept ==
    server'.inst = server.inst /\ server'.max = server.max /\ server'.outbox = server.outbox
FramesKept(k) == Shifted(down, down', k, {"room", "done"})
SyncsKept(k) == Shifted(up, up', k, {"sync"})

LEMMA NumberedFrames ==
    ASSUME ClientTypes
    PROVE  /\ page.cursor.seq \in Int /\ server.max \in Int /\ page.seen \in Int
           /\ page.cursor.seq \in Nat /\ server.max \in Nat
           /\ known \subseteq Int /\ OnWay \subseteq 1 .. MaxRoomNumber
<1>1. page.cursor.seq \in Numbers /\ server.max \in Numbers /\ page.seen \in Numbers
  BY DEF ClientTypes, Pages
<1>2. \A i \in OfKind(down, "room") : down[i].seq \in 1 .. MaxRoomNumber
  <2> TAKE i \in OfKind(down, "room")
  <2>1. down \in Seq(FrameSet)
    BY DEF ClientTypes
  <2>2. i \in DOMAIN down /\ down[i].kind = "room"
    BY DEF OfKind
  <2>3. down[i] \in FrameSet
    <3>1. DOMAIN down = 1 .. Len(down)
      BY <2>1, SeqDomain
    <3> QED BY <2>1, <2>2, <3>1, ElementOfSeq
  <2> QED BY <2>2, <2>3, RoomFrameIs
<1>3. Range(server.outbox) \subseteq 1 .. MaxRoomNumber
  <2>1. server.outbox \in Seq(1 .. MaxRoomNumber)
    BY DEF ClientTypes
  <2> QED BY ONLY <2>1, RangeOfSeq
<1>4. OnWay \subseteq 1 .. MaxRoomNumber
  BY <1>2, <1>3, BufferIs DEF OnWay, Coming
<1>5. known \subseteq 1 .. MaxRoomNumber
  BY DEF ClientTypes
<1> QED BY <1>1, <1>4, <1>5, ClientAssumption DEF Numbers

LEMMA Sideways ==
    ASSUME ClientTypes, CatchInv, PageKept, ServerKept, UNCHANGED <<link, known, broken>>,
           NEW k, FramesKept(k), NEW l, SyncsKept(l)
    PROVE  CatchInv'
<1> SUFFICES ASSUME ~broken PROVE (CursorInv /\ RisingInv /\ (Quiet \/ Catching))'
  BY DEF CatchInv
<1>0. CursorInv /\ RisingInv /\ (Quiet \/ Catching)
  BY DEF CatchInv
<1>1. OnWay' = OnWay
  <2>1. Coming(down', server.outbox, Range(page.buffer)) = OnWay
    BY ShiftedFrames DEF FramesKept, OnWay
  <2> QED BY <2>1 DEF OnWay, ServerKept, PageKept
<1>2. CursorInv'
  BY <1>0, <1>1 DEF CursorInv, PageKept, ServerKept
<1>3. RisingInv'
  <2>1. RisingIn(down, server.outbox) => RisingIn(down', server.outbox)
    BY ShiftedFrames DEF FramesKept
  <2> QED BY <1>0, <2>1 DEF RisingInv, PageKept, ServerKept
<1>4. /\ \A i \in OfKind(down', "done") : /\ i + k \in OfKind(down, "done") /\ down'[i] = down[i + k]
                                          /\ i \in Nat
      /\ k \in Nat
  BY ShiftedAt DEF FramesKept
<1>5. /\ \A i \in OfKind(up', "sync") : /\ i + l \in OfKind(up, "sync") /\ up'[i] = up[i + l]
                                        /\ i \in Nat
      /\ l \in Nat
  BY ShiftedAt DEF SyncsKept
<1>6. CASE Quiet
  <2>1. OfKind(down', "done") = {} /\ OfKind(up', "sync") = {}
    BY <1>4, <1>5, <1>6 DEF Quiet
  <2> QED BY <1>1, <1>2, <1>3, <1>6, <2>1 DEF Quiet, PageKept
<1>7. CASE Catching
  <2>1. AtMostOne(OfKind(up', "sync"))
    <3>1. ASSUME NEW i \in OfKind(up', "sync"), NEW j \in OfKind(up', "sync") PROVE i = j
      <4>1. i + l = j + l
        BY <1>5, <1>7 DEF Catching, AtMostOne
      <4> QED BY <1>5, <4>1
    <3> QED BY <3>1 DEF AtMostOne
  <2>2. AtMostOne(OfKind(down', "done"))
    <3>1. ASSUME NEW i \in OfKind(down', "done"), NEW j \in OfKind(down', "done") PROVE i = j
      <4>1. i + k = j + k
        BY <1>4, <1>7 DEF Catching, AtMostOne
      <4> QED BY <1>4, <4>1
    <3> QED BY <3>1 DEF AtMostOne
  <2>3. OfKind(up', "sync") = {} \/ OfKind(down', "done") = {}
    BY <1>4, <1>5, <1>7 DEF Catching
  <2>4. ASSUME NEW i \in OfKind(up', "sync")
        PROVE  /\ Base(up'[i].since, page.cursor.seq, known, OnWay)
               /\ up'[i].since # 0 => up'[i].inst = 1
    BY <1>5, <1>7 DEF Catching
  <2>5. ASSUME NEW i \in OfKind(down', "done")
        PROVE  /\ Base(down'[i].since, page.cursor.seq, known, OnWay)
               /\ Answers(down', i, page.cursor.seq, server.max, Range(page.buffer))
    <3>1. /\ Base(down[i + k].since, page.cursor.seq, known, OnWay)
          /\ Answers(down, i + k, page.cursor.seq, server.max, Range(page.buffer))
      BY <1>4, <1>7 DEF Catching
    <3>2. page.cursor.seq \in Int /\ server.max \in Int
      BY NumberedFrames
    <3>3. \A c, max \in Int : Answers(down, i + k, c, max, Range(page.buffer)) =>
                              Answers(down', i, c, max, Range(page.buffer))
      <4>1. Shifted(down, down', k, {"room", "done"})
        BY DEF FramesKept
      <4> QED BY ONLY <2>5, <4>1, ShiftedFrames
    <3>4. Answers(down', i, page.cursor.seq, server.max, Range(page.buffer))
      BY ONLY <3>1, <3>2, <3>3
    <3> QED BY <1>4, <3>1, <3>4
  <2> QED BY <1>1, <1>2, <1>3, <1>7, <2>1, <2>2, <2>3, <2>4, <2>5
          DEF Catching, PageKept, ServerKept
<1> QED BY <1>0, <1>6, <1>7

LEMMA NothingReceived ==
    ASSUME ClientTypes, UNCHANGED down PROVE FramesKept(0)
<1>1. down \in Seq(FrameSet)
  BY DEF ClientTypes
<1> QED BY <1>1, ShiftedSame DEF FramesKept

LEMMA NothingAsked ==
    ASSUME ClientTypes, UNCHANGED up PROVE SyncsKept(0)
<1>1. up \in Seq(Requests)
  BY DEF ClientTypes
<1> QED BY <1>1, ShiftedSame DEF SyncsKept

LEMMA MessageAsked ==
    ASSUME ClientTypes, NEW pg \in Pages, up' = Append(up, MessageRequest(pg)) PROVE SyncsKept(0)
<1>1. up \in Seq(Requests)
  BY DEF ClientTypes
<1>2. MessageRequest(pg) \in Requests /\ MessageRequest(pg).kind \notin {"sync"}
  BY MessageRequestIs
<1> QED BY <1>1, <1>2, ShiftedAppend DEF SyncsKept

(* Sending and sending again, acknowledgements, and the gate. *)
LEMMA AsideStep ==
    ASSUME ClientTypes, CatchInv,
           \/ AckTimeout \/ BackOffOver \/ SendMessage \/ ReceiveAck
           \/ HandleMessage \/ GateShuts \/ GateOpens
    PROVE  CatchInv'
<1>0. page \in Pages /\ up \in Seq(Requests) /\ down \in Seq(FrameSet) /\ page.pending \in PendingSet
      /\ NoMessagePending \in PendingSet
  BY ClientAssumption DEF ClientTypes, Pages, NoMessagePending, PendingSet
<1>1. ASSUME NEW p, page' = [page EXCEPT !.pending = p] PROVE PageKept
  BY <1>0, <1>1 DEF PageKept, Pages
<1>2. ASSUME NEW a, Resend(a), OwnSame PROVE CatchInv'
  <2>1. PageKept
    <3>1. page' = WithPending(page, a, "ack") \/ page' = WithPending(page, a, "none")
      BY <1>2 DEF Resend
    <3> QED BY <1>1, <3>1 DEF WithPending
  <2>2. SyncsKept(0)
    <3>1. UNCHANGED up \/ up' = Append(up, MessageRequest(page))
      BY <1>2 DEF Resend
    <3> QED BY <1>0, <3>1, NothingAsked, MessageAsked
  <2> QED BY <1>2, <2>1, <2>2, Sideways, NothingReceived DEF OwnSame, ServerKept
<1>3. CASE AckTimeout
  <2>1. CASE page' = FailPending(page) /\ UNCHANGED up
    <3>1. PageKept
      BY <1>1, <2>1 DEF FailPending
    <3> QED BY <1>3, <2>1, <3>1, Sideways, NothingReceived, NothingAsked
            DEF AckTimeout, OwnSame, ServerKept
  <2>2. CASE Resend(page.pending.attempts + 1)
    BY <1>2, <1>3, <2>2 DEF AckTimeout
  <2> QED BY <1>3, <2>1, <2>2 DEF AckTimeout
<1>4. CASE BackOffOver
  BY <1>2, <1>4 DEF BackOffOver
<1>5. CASE SendMessage
  <2>1. PageKept
    BY <1>0, <1>5 DEF SendMessage, PageKept, Pages
  <2>2. page' \in Pages
    <3>1. ClientTypes'
      BY <1>5, TimerTypesStep
    <3> QED BY <3>1 DEF ClientTypes
  <2>3. SyncsKept(0)
    BY <1>5, <2>2, MessageAsked DEF SendMessage
  <2> QED BY <1>5, <2>1, <2>3, Sideways, NothingReceived DEF SendMessage, OwnSame, ServerKept
<1>6. CASE ReceiveAck
  <2>1. PageKept
    <3>1. \/ page' = page
          \/ page' = WithPending(page, page.pending.attempts + 1, "backoff")
          \/ page' = FailPending(page)
      BY <1>6 DEF ReceiveAck
    <3> QED BY <1>1, <3>1 DEF WithPending, FailPending, PageKept
  <2>2. FramesKept(1)
    <3>1. down # <<>> /\ Head(down).kind \notin {"room", "done"} /\ down' = Tail(down)
      BY <1>6 DEF ReceiveAck, NextFrame, TakeFrame
    <3> QED BY <1>0, <3>1, ShiftedTail DEF FramesKept
  <2> QED BY <1>6, <2>1, <2>2, Sideways, NothingAsked DEF ReceiveAck, TakeFrame, ServerKept
<1>7. CASE HandleMessage
  <2>1. up # <<>> /\ Head(up).kind = "message" /\ up' = Tail(up) /\ Head(up) \in Requests
    BY <1>7, AskIs DEF HandleMessage, NextRequest
  <2>2. SyncsKept(1)
    <3>1. Head(up).kind \notin {"sync"}
      BY <2>1
    <3> QED BY <1>0, <2>1, <3>1, ShiftedTail DEF SyncsKept
  <2>3. FramesKept(0)
    <3>1. CASE UNCHANGED down
      BY <3>1, NothingReceived
    <3>2. CASE \E code \in {200, 404, 503} :
                down' = Append(down, [kind |-> "ack", id |-> Head(up).id, code |-> code])
      <4>1. PICK code \in {200, 404, 503} :
                down' = Append(down, [kind |-> "ack", id |-> Head(up).id, code |-> code])
        BY <3>2
      <4>2. Head(up).id \in Nat
        BY <2>1 DEF Requests
      <4> DEFINE a == [kind |-> "ack", id |-> Head(up).id, code |-> code]
      <4>3. a \in FrameSet /\ a.kind \notin {"room", "done"}
        BY <4>2 DEF FrameSet
      <4>4. down' = Append(down, a)
        BY <4>1
      <4> HIDE DEF a
      <4> QED BY <1>0, <4>3, <4>4, ShiftedAppend DEF FramesKept
    <3> QED BY <1>7, <3>1, <3>2 DEF HandleMessage
  <2>4. PageKept /\ ServerKept /\ UNCHANGED <<link, known, broken>>
    BY <1>7 DEF HandleMessage, PageSame, PageKept, ServerKept
  <2> QED BY <2>2, <2>3, <2>4, Sideways
<1>8. CASE GateShuts \/ GateOpens
  <2>1. server' = [server EXCEPT !.shut = TRUE] \/ server' = [server EXCEPT !.shut = FALSE]
    BY <1>8 DEF GateShuts, GateOpens
  <2>2. ServerKept
    BY <2>1 DEF ServerKept, ClientTypes
  <2>3. PageKept /\ UNCHANGED <<up, down, link, known, broken>>
    BY <1>8 DEF GateShuts, GateOpens, PageSame, PageKept
  <2> QED BY <2>2, <2>3, Sideways, NothingReceived, NothingAsked
<1> QED BY <1>3, <1>4, <1>5, <1>6, <1>7, <1>8

(***************************************************************************)
(* An answer claims no more than was sent.                                 *)
(***************************************************************************)

HonestFrame(f) == f.kind = "done" =>
    /\ f.code = 200 /\ f.since # 0 => f.sent = f.since + 1 .. f.seq
    /\ f.code = 503 => f.seq \in f.sent \cup {f.since}

LEMMA HonestStep ==
    ASSUME ClientTypes, SyncHonest, [ClientNext]_clientVars
    PROVE  SyncHonest'
<1>0. down \in Seq(FrameSet) /\ \A n \in DOMAIN down : HonestFrame(down[n])
  BY DEF SyncHonest, HonestFrame, ClientTypes
<1>1. ASSUME \A n \in DOMAIN down' : HonestFrame(down'[n]) PROVE SyncHonest'
  BY <1>1 DEF SyncHonest, HonestFrame
<1>2. CASE UNCHANGED down
  BY <1>0, <1>1, <1>2
<1>3. CASE down' = <<>>
  <2>1. DOMAIN down' = {}
    BY <1>3
  <2> QED BY <1>1, <2>1
<1>4. CASE down # <<>> /\ down' = Tail(down)
  <2>1. \A i \in DOMAIN Tail(down) : i + 1 \in DOMAIN down /\ Tail(down)[i] = down[i + 1]
    BY <1>0, <1>4, TailPlaces
  <2> QED BY <1>0, <1>1, <1>4, <2>1
<1>5. ASSUME NEW f \in FrameSet, HonestFrame(f), down' = Append(down, f) PROVE SyncHonest'
  <2>1. \A i \in DOMAIN Append(down, f) :
            Append(down, f)[i] = f \/ (i \in DOMAIN down /\ Append(down, f)[i] = down[i])
    BY <1>0, AppendPlaces
  <2> QED BY <1>0, <1>1, <1>5, <2>1
<1>6. CASE SyncBusy
  <2> DEFINE s == Head(up).since
             f == DoneFrame(503, s, s, {})
  <2>1. s \in Numbers
    BY <1>6, AskIs, SyncAskIs DEF SyncBusy
  <2>2. server.inst \in Nat
    BY DEF ClientTypes
  <2> HIDE DEF s
  <2>3. f \in FrameSet /\ HonestFrame(f)
    BY <2>1, <2>2 DEF DoneFrame, FrameSet, HonestFrame
  <2>4. down' = Append(down, f)
    BY <1>6 DEF SyncBusy, s
  <2> HIDE DEF f
  <2> QED BY <1>5, <2>3, <2>4
<1>7. CASE HandleSync
  <2>1. PICK since, first, last, seq, code : ReplayAnswer(since, first, last, seq, code)
    BY <1>7, HandleSyncIs
  <2>2. /\ since \in Numbers /\ first \in 1 .. server.max + 1 /\ last \in first - 1 .. server.max
        /\ seq \in Numbers /\ code \in {200, 206, 503}
        /\ code = 503 => seq = (IF last < first THEN since ELSE last)
        /\ code # 503 => seq = server.max /\ last = server.max
        /\ code = 200 /\ since # 0 => first = since + 1
    BY <2>1 DEF ReplayAnswer
  <2>3. server.max \in Numbers /\ server.inst \in Nat
    BY DEF ClientTypes
  <2>4. first \in Nat \ {0} /\ last \in first - 1 .. MaxRoomNumber
    BY <2>2, <2>3, ClientAssumption DEF Numbers
  <2> DEFINE r == ReplayFrames(first, last)
             f == DoneFrame(code, seq, since, first .. last)
  <2>5. r \in Seq(FrameSet) /\ \A n \in DOMAIN r : r[n].kind = "room"
    <3>1. /\ r \in Seq(FrameSet) /\ Len(r) = last - first + 1
          /\ \A n \in 1 .. last - first + 1 : r[n] = [kind |-> "room", seq |-> first + n - 1]
      BY <2>4, ReplayFramesIs
    <3>2. DOMAIN r = 1 .. last - first + 1
      <4> HIDE DEF r
      <4> QED BY <3>1, SeqDomain
    <3> HIDE DEF r
    <3> QED BY <3>1, <3>2
  <2>6. f \in FrameSet /\ f.kind = "done" /\ f.code = code /\ f.since = since /\ f.seq = seq
        /\ f.sent = first .. last
    <3>1. first .. last \in SUBSET Int
      OBVIOUS
    <3> QED BY <2>2, <2>3, <3>1 DEF DoneFrame, FrameSet
  <2>7. HonestFrame(f)
    <3>1. code = 503 => seq \in first .. last \cup {since}
      <4>1. last \in Int /\ first \in Int
        BY <2>4, ClientAssumption
      <4>2. ~(last < first) => last \in first .. last
        BY <4>1
      <4> QED BY <2>2, <4>2
    <3>2. code = 200 /\ since # 0 => first .. last = since + 1 .. seq
      BY <2>2
    <3> HIDE DEF f
    <3> QED BY <2>6, <3>1, <3>2 DEF HonestFrame
  <2>8. down' = (down \o r) \o <<f>>
    BY <2>1 DEF ReplayAnswer
  <2> HIDE DEF r, f
  <2>9. <<f>> \in Seq(FrameSet) /\ Len(<<f>>) = 1 /\ <<f>>[1] = f
    BY <2>6
  <2>10. down \o r \in Seq(FrameSet)
    BY <1>0, <2>5, ConcatPlaces
  <2>11. \A i \in DOMAIN (down \o r) : HonestFrame((down \o r)[i])
    <3> TAKE i \in DOMAIN (down \o r)
    <3>1. CASE i \in DOMAIN down
      BY <1>0, <2>5, <3>1, ConcatPlaces
    <3>2. CASE i - Len(down) \in 1 .. Len(r) /\ (down \o r)[i] = r[i - Len(down)]
      <4>1. DOMAIN r = 1 .. Len(r)
        BY <2>5, SeqDomain
      <4> QED BY <2>5, <3>2, <4>1 DEF HonestFrame
    <3> QED BY <1>0, <2>5, <3>1, <3>2, ConcatPlaces
  <2>12. \A i \in DOMAIN down' : HonestFrame(down'[i])
    <3>1. ASSUME NEW i \in DOMAIN ((down \o r) \o <<f>>)
          PROVE  HonestFrame(((down \o r) \o <<f>>)[i])
      <4> DEFINE t == down \o r
                 u == <<f>>
      <4>1. t \in Seq(FrameSet) /\ u \in Seq(FrameSet) /\ Len(u) = 1 /\ u[1] = f
        BY <2>9, <2>10
      <4>2. \A j \in DOMAIN t : HonestFrame(t[j])
        BY <2>11
      <4>3. i \in DOMAIN (t \o u)
        BY <3>1
      <4> HIDE DEF t, u
      <4>4. i \in Nat /\ (i \in DOMAIN t \/ (i - Len(t) \in 1 .. Len(u) /\ (t \o u)[i] = u[i - Len(t)]))
        BY <4>1, <4>3, ConcatPlaces
      <4>5. i \in DOMAIN t => (t \o u)[i] = t[i]
        BY <4>1, ConcatPlaces
      <4>6. HonestFrame((t \o u)[i])
        <5>1. CASE i \in DOMAIN t
          BY <4>2, <4>5, <5>1
        <5>2. CASE i - Len(t) \in 1 .. Len(u) /\ (t \o u)[i] = u[i - Len(t)]
          <6>1. i - Len(t) = 1
            BY <4>1, <5>2
          <6> QED BY <2>7, <4>1, <5>2, <6>1
        <5> QED BY <4>4, <5>1, <5>2
      <4> QED BY <4>6 DEF t, u
    <3> QED BY <2>8, <3>1
  <2> QED BY <1>1, <2>12
<1>8. CASE HandleMessage
  <2>1. Head(up).id \in Nat
    BY <1>8, AskIs DEF HandleMessage, Requests
  <2>2. \A code \in {200, 404, 503} :
            LET f == [kind |-> "ack", id |-> Head(up).id, code |-> code]
            IN  f \in FrameSet /\ HonestFrame(f)
    BY <2>1 DEF FrameSet, HonestFrame
  <2>3. CASE \E code \in {200, 404, 503} :
                down' = Append(down, [kind |-> "ack", id |-> Head(up).id, code |-> code])
    <3>1. PICK code \in {200, 404, 503} :
                down' = Append(down, [kind |-> "ack", id |-> Head(up).id, code |-> code])
      BY <2>3
    <3> QED BY <1>5, <2>2, <3>1
  <2> QED BY <1>2, <1>8, <2>3 DEF HandleMessage
<1>9. CASE DeliverLive
  <2> DEFINE f == [kind |-> "room", seq |-> Head(server.outbox)]
  <2>1. server.outbox # <<>> /\ server.outbox \in Seq(1 .. MaxRoomNumber)
    BY <1>9 DEF DeliverLive, ClientTypes
  <2>2. Head(server.outbox) \in 1 .. MaxRoomNumber
    BY ONLY <2>1, HeadTailProperties
  <2>3. f \in FrameSet /\ HonestFrame(f)
    BY <2>2 DEF FrameSet, HonestFrame
  <2>4. down' = down \/ down' = Append(down, f)
    BY <1>9 DEF DeliverLive
  <2> HIDE DEF f
  <2> QED BY <1>2, <1>5, <2>3, <2>4
<1>10. CASE OnClose \/ SyncTimeout \/ RetrySync \/ AckTimeout \/ BackOffOver \/ SendMessage
            \/ PublishToRoom \/ GateShuts \/ GateOpens
  BY <1>2, <1>10 DEF OnClose, SyncTimeout, RetrySync, AckTimeout, BackOffOver, SendMessage,
                     OwnSame, PublishToRoom, GateShuts, GateOpens
<1>11. CASE ReceiveLive \/ ReceiveBuffered \/ ReceiveOverflow \/ SyncDone \/ SyncRefused \/ ReceiveAck
  <2>1. down # <<>> /\ down' = Tail(down)
    BY <1>11 DEF ReceiveLive, ReceiveBuffered, ReceiveOverflow, SyncDone, SyncRefused, ReceiveAck,
                 NextFrame, TakeFrame
  <2> QED BY <1>4, <2>1
<1>12. CASE Connect \/ Disconnect \/ RestartServer
  BY <1>3, <1>12 DEF Connect, Disconnect, RestartServer
<1>13. CASE UNCHANGED clientVars
  BY <1>2, <1>13 DEF clientVars
<1> QED BY <1>6, <1>7, <1>8, <1>9, <1>10, <1>11, <1>12, <1>13
        DEF ClientNext, PageHandler, PageTimer, ServerHandler

(***************************************************************************)
(* Steps of the connection.                                                *)
(***************************************************************************)

LEMMA NothingComing ==
    ASSUME NEW d, d = <<>>, NEW queued, queued = <<>>
    PROVE  /\ OfKind(d, "room") = {} /\ OfKind(d, "done") = {} /\ OfKind(d, "sync") = {}
           /\ Range(queued) = {} /\ DOMAIN queued = {} /\ RisingIn(d, queued)
<1>1. DOMAIN d = {} /\ DOMAIN queued = {}
  OBVIOUS
<1> QED BY <1>1 DEF OfKind, RisingIn, Range

LEMMA LinkStep ==
    ASSUME ClientTypes, CatchInv, Connect \/ Disconnect \/ OnClose
    PROVE  CatchInv'
<1> SUFFICES ASSUME ~broken' PROVE (CursorInv /\ RisingInv /\ (Quiet \/ Catching))'
  BY DEF CatchInv
<1>0. /\ ~broken /\ CursorInv /\ RisingInv /\ (Quiet \/ Catching)
      /\ page \in Pages /\ server \in ServerSet
  BY DEF CatchInv, Connect, Disconnect, OnClose, ClientTypes, ServerSet
<1>1. CASE Connect
  <2> DEFINE fresh == [page EXCEPT !.retries = 0]
  <2>1. Quiet
    BY <1>0, <1>1 DEF Connect, Catching
  <2>2. fresh \in Pages /\ fresh.cursor = page.cursor
    BY <1>0 DEF Pages
  <2>3. page' = BeginSync(fresh) /\ up' = <<SyncRequest(page)>>
    BY <1>1, <2>1 DEF Connect, Quiet
  <2> HIDE DEF fresh
  <2>4. /\ page'.syncing = TRUE /\ page'.buffer = <<>> /\ page'.retrying = FALSE
        /\ page'.seen = page.cursor.seq /\ page'.cursor = page.cursor
    BY <2>2, <2>3, BeginSyncIs
  <2>5. /\ link' = "open" /\ down' = <<>> /\ UNCHANGED <<known, broken>>
        /\ server'.inst = server.inst /\ server'.max = server.max /\ server'.outbox = <<>>
    BY <1>0, <1>1 DEF Connect, ServerSet
  <2>6. OnWay' = {}
    <3>1. OfKind(down', "room") = {} /\ Range(server'.outbox) = {} /\ Range(page'.buffer) = {}
      BY <2>4, <2>5, NothingComing
    <3> QED BY <3>1 DEF OnWay, Coming
  <2>7. CursorInv'
    BY <1>0, <2>4, <2>5, <2>6 DEF CursorInv
  <2>8. RisingInv'
    BY <2>5, NothingComing DEF RisingInv
  <2>9. OfKind(down', "done") = {}
    BY <2>5, NothingComing
  <2>10. \A i \in OfKind(up', "sync") : i = 1 /\ up'[i] = SyncRequest(page)
    BY <2>3 DEF OfKind
  <2>11. Base(page.cursor.seq, page.cursor.seq, known, {})
    BY <2>1, BaseKept DEF Quiet
  <2>12. /\ SyncRequest(page).since = page.cursor.seq
         /\ SyncRequest(page).since # 0 => SyncRequest(page).inst = 1
    BY <1>0 DEF SyncRequest, CursorInv
  <2>13. Catching'
    BY <2>4, <2>5, <2>6, <2>9, <2>10, <2>11, <2>12 DEF Catching, AtMostOne
  <2> QED BY <2>7, <2>8, <2>13
<1>2. CASE Disconnect
  <2>1. Quiet
    BY <1>0, <1>2 DEF Disconnect, Catching
  <2>2. /\ link' = "closing" /\ up' = <<>> /\ down' = <<>> /\ UNCHANGED <<page, known>>
        /\ server'.inst = server.inst /\ server'.max = server.max /\ server'.outbox = <<>>
    BY <1>0, <1>2 DEF Disconnect, ServerSet
  <2>3. OnWay' = {}
    <3>1. page'.buffer = <<>>
      BY <2>1, <2>2 DEF Quiet
    <3>2. OfKind(down', "room") = {} /\ Range(server'.outbox) = {} /\ Range(page'.buffer) = {}
      BY <2>2, <3>1, NothingComing
    <3> QED BY <3>2 DEF OnWay, Coming
  <2>4. CursorInv'
    BY <1>0, <2>2, <2>3 DEF CursorInv
  <2>5. RisingInv'
    BY <2>2, NothingComing DEF RisingInv
  <2>6. OfKind(down', "done") = {} /\ OfKind(up', "sync") = {}
    BY <2>2, NothingComing
  <2>7. Base(page.cursor.seq, page.cursor.seq, known, {})
    BY <2>1, BaseKept DEF Quiet
  <2>8. Quiet'
    BY <2>1, <2>2, <2>3, <2>6, <2>7 DEF Quiet
  <2> QED BY <2>4, <2>5, <2>8
<1>3. CASE OnClose
  <2>1. Quiet
    BY <1>0, <1>3 DEF OnClose, Catching
  <2>2. EndSync(page) \in Pages /\ EndSync(page).syncing = FALSE /\ EndSync(page).buffer = <<>>
        /\ EndSync(page).seen = page.seen /\ EndSync(page).cursor = page.cursor
    BY <1>0, EndSyncIs
  <2>3. page' = [EndSync(page) EXCEPT !.retrying = FALSE]
    BY <1>3 DEF OnClose
  <2>4. /\ page'.syncing = FALSE /\ page'.buffer = page.buffer /\ page'.retrying = FALSE
        /\ page'.seen = page.seen /\ page'.cursor = page.cursor
    BY <2>1, <2>2, <2>3 DEF Pages, Quiet
  <2>5. link' = "closed" /\ UNCHANGED <<server, up, down, known>>
    BY <1>3 DEF OnClose
  <2>6. OnWay' = OnWay
    BY <2>4, <2>5 DEF OnWay
  <2>7. CursorInv'
    BY <1>0, <2>4, <2>5, <2>6 DEF CursorInv
  <2>8. RisingInv'
    BY <1>0, <2>4, <2>5 DEF RisingInv
  <2>9. Quiet'
    BY <2>1, <2>4, <2>5, <2>6 DEF Quiet
  <2> QED BY <2>7, <2>8, <2>9
<1> QED BY <1>1, <1>2, <1>3

(***************************************************************************)
(* Steps of the room: a number is given out, and goes to the page.         *)
(***************************************************************************)

LEMMA RoomPublishStep ==
    ASSUME ClientTypes, CatchInv, PublishToRoom
    PROVE  CatchInv'
<1> SUFFICES ASSUME ~broken PROVE (CursorInv /\ RisingInv /\ (Quiet \/ Catching))'
  BY DEF CatchInv, PublishToRoom, PageSame
<1>0. /\ CursorInv /\ RisingInv /\ (Quiet \/ Catching) /\ server \in ServerSet
      /\ server.outbox \in Seq(1 .. MaxRoomNumber)
  BY DEF CatchInv, ClientTypes, ServerSet
<1> DEFINE m == server.max + 1
           q == Append(server.outbox, m)
<1>1. /\ server'.inst = server.inst /\ server'.max = m
      /\ server'.outbox = server.outbox \/ server'.outbox = q
      /\ UNCHANGED <<up, down, link, page, known>>
  BY <1>0 DEF PublishToRoom, PageSame, ServerSet
<1>2. /\ page.cursor.seq \in Nat /\ server.max \in Nat /\ page.cursor.seq <= server.max
      /\ OnWay \subseteq 1 .. server.max
  BY <1>0, NumberedFrames DEF CursorInv
<1>3. m \in 1 .. MaxRoomNumber
  BY <1>2, ClientAssumption DEF PublishToRoom
<1>4. /\ q \in Seq(1 .. MaxRoomNumber)
      /\ \A i \in DOMAIN q : i \in Nat
            /\ (\/ i \in DOMAIN server.outbox /\ i <= Len(server.outbox) /\ q[i] = server.outbox[i]
                \/ i = Len(server.outbox) + 1 /\ q[i] = m)
      /\ Len(server.outbox) \in Nat
  BY <1>0, <1>3, AppendPlaces
<1> HIDE DEF q
<1>5. \A f \in OnWay' : f \in OnWay \/ f = m
  <2>1. \A f \in Range(q) : f \in Range(server.outbox) \/ f = m
    BY <1>4 DEF Range
  <2> QED BY <1>1, <2>1 DEF OnWay, Coming
<1>6. m > server.max /\ m > page.cursor.seq
  BY <1>2
<1>7. CursorInv'
  <2>1. OnWay' \subseteq 1 .. m
    <3>1. \A x \in 1 .. server.max : x \in 1 .. m
      BY <1>2
    <3>2. m \in 1 .. m
      BY <1>2
    <3>3. OnWay \subseteq 1 .. server.max
      BY <1>2
    <3> HIDE DEF m
    <3> QED BY <1>5, <3>1, <3>2, <3>3, Zenon
  <2>2. page.cursor.seq <= m
    BY <1>2
  <2> HIDE DEF m
  <2> QED BY <1>0, <1>1, <2>1, <2>2 DEF CursorInv
<1>8. RisingInv'
  <2> SUFFICES ASSUME page.cursor.seq = 0 PROVE RisingIn(down, server'.outbox)
    BY <1>1 DEF RisingInv
  <2>1. RisingIn(down, server.outbox)
    BY <1>0 DEF RisingInv
  <2>2. \A i \in OfKind(down, "room") : down[i].seq < m /\ down[i].seq \in Int
    BY <1>2 DEF OnWay, Coming
  <2>3. \A i \in DOMAIN server.outbox : server.outbox[i] < m /\ i \in Nat
    <3>1. \A i \in DOMAIN server.outbox : server.outbox[i] \in OnWay /\ i \in Nat
      BY <1>0, SeqDomain DEF OnWay, Coming, Range
    <3>2. \A x \in 1 .. server.max : x < m
      BY <1>2
    <3>3. OnWay \subseteq 1 .. server.max
      BY <1>2
    <3> HIDE DEF m
    <3> QED BY <3>1, <3>2, <3>3, Zenon
  <2> HIDE DEF m
  <2>4. RisingIn(down, q)
    <3>1. \A i \in OfKind(down, "room"), j \in DOMAIN q : down[i].seq < q[j]
      BY <1>4, <2>1, <2>2 DEF RisingIn
    <3>2. ASSUME NEW i \in DOMAIN q, NEW j \in DOMAIN q, i < j PROVE q[i] < q[j]
      <4>1. i \in DOMAIN server.outbox /\ q[i] = server.outbox[i]
        BY <1>4, <3>2
      <4>2. CASE j \in DOMAIN server.outbox /\ q[j] = server.outbox[j]
        BY <2>1, <3>2, <4>1, <4>2 DEF RisingIn
      <4>3. CASE q[j] = m
        BY <2>3, <4>1, <4>3
      <4> QED BY <1>4, <4>2, <4>3
    <3> QED BY <2>1, <3>1, <3>2 DEF RisingIn
  <2> QED BY <1>1, <2>1, <2>4
<1>9. \A b : Base(b, page.cursor.seq, known, OnWay) => Base(b, page.cursor.seq, known, OnWay')
  <2> SUFFICES ASSUME NEW b, Base(b, page.cursor.seq, known, OnWay)
               PROVE  Base(b, page.cursor.seq, known, OnWay')
    OBVIOUS
  <2>1. b \in 0 .. page.cursor.seq
    BY DEF Base
  <2>2. m > b
    BY <1>2, <2>1
  <2>3. \A f \in OnWay' : f \in OnWay \/ f > b
    BY <1>5, <2>2
  <2> QED BY <2>3, BaseKept
<1>10. CASE Quiet
  <2>1. Quiet'
    BY <1>1, <1>9, <1>10 DEF Quiet
  <2> QED BY <1>7, <1>8, <2>1
<1>11. CASE Catching
  <2>1. \A i \in OfKind(down, "done") :
            Answers(down, i, page.cursor.seq, server.max, Range(page.buffer))
            => Answers(down, i, page.cursor.seq, m, Range(page.buffer))
    <3>1. \A x \in page.cursor.seq .. server.max : x \in page.cursor.seq .. m
      BY <1>2
    <3> HIDE DEF m
    <3> QED BY <3>1 DEF Answers
  <2> HIDE DEF m
  <2>2. Catching'
    BY <1>1, <1>9, <1>11, <2>1 DEF Catching
  <2> QED BY <1>7, <1>8, <2>2
<1> QED BY <1>0, <1>10, <1>11

LEMMA FrameDeliverStep ==
    ASSUME ClientTypes, CatchInv, DeliverLive
    PROVE  CatchInv'
<1> SUFFICES ASSUME ~broken PROVE (CursorInv /\ RisingInv /\ (Quiet \/ Catching))'
  BY DEF CatchInv, DeliverLive, PageSame
<1>0. /\ CursorInv /\ RisingInv /\ (Quiet \/ Catching) /\ server \in ServerSet
      /\ server.outbox \in Seq(1 .. MaxRoomNumber) /\ server.outbox # <<>>
      /\ down \in Seq(FrameSet)
  BY DEF CatchInv, ClientTypes, ServerSet, DeliverLive
<1> DEFINE n == Head(server.outbox)
           q == Tail(server.outbox)
           f == [kind |-> "room", seq |-> n]
           e == Append(down, f)
<1>1. /\ server'.inst = server.inst /\ server'.max = server.max /\ server'.outbox = q
      /\ down' = down \/ down' = e
      /\ UNCHANGED <<up, link, page, known>>
  BY <1>0 DEF DeliverLive, PageSame, ServerSet
<1>2. /\ 1 \in DOMAIN server.outbox /\ server.outbox[1] = n
      /\ \A i \in DOMAIN q : i \in Nat /\ i >= 1 /\ i + 1 \in DOMAIN server.outbox
                             /\ q[i] = server.outbox[i + 1]
  BY <1>0, TailPlaces
<1>3. n \in OnWay /\ n \in 1 .. MaxRoomNumber
  <2>1. n \in OnWay
    BY <1>2 DEF OnWay, Coming, Range
  <2> QED BY <2>1, NumberedFrames
<1>4. f \in FrameSet /\ f.kind = "room" /\ f.seq = n
  <2> HIDE DEF n
  <2> QED BY <1>3 DEF FrameSet
<1> HIDE DEF f
<1>5. /\ Len(down) \in Nat /\ Len(down) + 1 \in DOMAIN e /\ e[Len(down) + 1] = f
      /\ \A i \in DOMAIN down : i \in Nat /\ i <= Len(down) /\ i \in DOMAIN e /\ e[i] = down[i]
      /\ \A i \in DOMAIN e : i \in Nat /\ (i \in DOMAIN down \/ i = Len(down) + 1)
  BY <1>0, <1>4, AppendPlaces
<1> HIDE DEF e, n, q
<1>6. /\ \A i \in OfKind(down, "room") : i \in Nat /\ i <= Len(down) /\ i \in OfKind(e, "room") /\ e[i] = down[i]
      /\ \A i \in OfKind(e, "room") : i \in Nat
            /\ (i \in OfKind(down, "room") \/ (i = Len(down) + 1 /\ e[i].seq = n))
      /\ OfKind(e, "done") = OfKind(down, "done")
      /\ \A i \in OfKind(down, "done") : i \in Nat /\ i <= Len(down) /\ e[i] = down[i]
  BY <1>4, <1>5 DEF OfKind
<1>7. OnWay' \subseteq OnWay
  <2>1. Range(q) \subseteq Range(server.outbox)
    BY <1>2 DEF Range
  <2> QED BY <1>1, <1>3, <1>6, <2>1 DEF OnWay, Coming
<1>8. CursorInv'
  BY <1>0, <1>1, <1>7 DEF CursorInv
<1>9. RisingInv'
  <2> SUFFICES ASSUME page.cursor.seq = 0 PROVE RisingIn(down', q)
    BY <1>1 DEF RisingInv
  <2>1. RisingIn(down, server.outbox)
    BY <1>0 DEF RisingInv
  <2>2. \A i, j \in DOMAIN q : i < j => q[i] < q[j]
    <3>1. \A i, j \in DOMAIN q : i < j => i + 1 < j + 1
      BY <1>2
    <3> QED BY <1>2, <2>1, <3>1 DEF RisingIn
  <2>3. \A i \in OfKind(down, "room"), j \in DOMAIN q : down[i].seq < q[j]
    BY <1>2, <2>1 DEF RisingIn
  <2>4. \A j \in DOMAIN q : n < q[j]
    <3>1. \A j \in DOMAIN q : 1 < j + 1
      BY <1>2
    <3> QED BY <1>2, <2>1, <3>1 DEF RisingIn
  <2>5. \A i \in OfKind(down, "room") : down[i].seq < n
    BY <1>2, <2>1 DEF RisingIn
  <2>6. RisingIn(down, q)
    BY <2>1, <2>2, <2>3 DEF RisingIn
  <2>7. RisingIn(e, q)
    <3>1. ASSUME NEW i \in OfKind(e, "room"), NEW j \in OfKind(e, "room"), i < j
          PROVE  e[i].seq < e[j].seq
      <4>1. i \in OfKind(down, "room") /\ e[i] = down[i]
        BY <1>5, <1>6, <3>1
      <4>2. CASE j \in OfKind(down, "room")
        BY <1>6, <2>1, <3>1, <4>1, <4>2 DEF RisingIn
      <4>3. CASE j = Len(down) + 1 /\ e[j].seq = n
        BY <2>5, <4>1, <4>3
      <4> QED BY <1>6, <4>2, <4>3
    <3>2. \A i \in OfKind(e, "room"), j \in DOMAIN q : e[i].seq < q[j]
      BY <1>6, <2>3, <2>4
    <3> QED BY <2>2, <3>1, <3>2 DEF RisingIn
  <2> QED BY <1>1, <2>6, <2>7
<1>10. \A b : Base(b, page.cursor.seq, known, OnWay) => Base(b, page.cursor.seq, known, OnWay')
  BY <1>7, BaseKept
<1>11. OfKind(down', "done") = OfKind(down, "done") /\ \A i \in OfKind(down, "done") : down'[i] = down[i]
  BY <1>1, <1>6
<1>12. CASE Quiet
  <2>1. Quiet'
    BY <1>1, <1>10, <1>11, <1>12 DEF Quiet
  <2> QED BY <1>8, <1>9, <2>1
<1>13. CASE Catching
  <2>1. ASSUME NEW i \in OfKind(down, "done"),
               Answers(down, i, page.cursor.seq, server.max, Range(page.buffer))
        PROVE  Answers(e, i, page.cursor.seq, server.max, Range(page.buffer))
    <3>1. \A j \in OfKind(e, "room") : j < i => j \in OfKind(down, "room") /\ e[j] = down[j]
      BY <1>5, <1>6
    <3>2. \A j \in OfKind(down, "room") : j \in OfKind(e, "room") /\ e[j] = down[j]
      BY <1>6
    <3>3. e[i] = down[i]
      BY <1>6
    <3> QED BY <2>1, <3>1, <3>2, <3>3 DEF Answers
  <2>2. \A i \in OfKind(down, "done") :
            Answers(down', i, page.cursor.seq, server.max, Range(page.buffer))
    BY <1>1, <1>13, <2>1 DEF Catching
  <2>3. Catching'
    BY <1>1, <1>10, <1>11, <1>13, <2>2 DEF Catching
  <2> QED BY <1>8, <1>9, <2>3
<1> QED BY <1>0, <1>12, <1>13

(***************************************************************************)
(* Steps of the page: a frame is taken.                                    *)
(***************************************************************************)

(* Places when the first frame has been taken. *)
LEMMA FrameTaken ==
    ASSUME ClientTypes, NEW kind, NextFrame(kind), down' = Tail(down)
    PROVE  /\ 1 \in OfKind(down, kind) /\ down[1] = Head(down)
           /\ \A k : \A i \in OfKind(down', k) :
                i \in Nat /\ i >= 1 /\ i + 1 \in OfKind(down, k) /\ down'[i] = down[i + 1]
           /\ \A k : \A j \in OfKind(down, k) : j \in Nat /\ j >= 1 /\
                (j # 1 => j - 1 \in OfKind(down', k) /\ down'[j - 1] = down[j])
           /\ \A queued : RisingIn(down, queued) => RisingIn(down', queued)
           /\ \A queued, buffered : Coming(down', queued, buffered) \subseteq Coming(down, queued, buffered)
<1>1. down \in Seq(FrameSet) /\ down # <<>> /\ Head(down).kind = kind
  BY DEF NextFrame, ClientTypes
<1>2. /\ 1 \in DOMAIN down /\ down[1] = Head(down)
      /\ \A i \in DOMAIN down' : i \in Nat /\ i >= 1 /\ i + 1 \in DOMAIN down /\ down'[i] = down[i + 1]
      /\ \A j \in DOMAIN down : j \in Nat /\ j >= 1
            /\ (j # 1 => j - 1 \in DOMAIN down' /\ down'[j - 1] = down[j])
  BY <1>1, TailPlaces
<1>3. 1 \in OfKind(down, kind)
  BY <1>1, <1>2 DEF OfKind
<1>4. \A k : \A i \in OfKind(down', k) :
        i \in Nat /\ i >= 1 /\ i + 1 \in OfKind(down, k) /\ down'[i] = down[i + 1]
  BY <1>2 DEF OfKind
<1>5. \A k : \A j \in OfKind(down, k) : j \in Nat /\ j >= 1 /\
        (j # 1 => j - 1 \in OfKind(down', k) /\ down'[j - 1] = down[j])
  BY <1>2 DEF OfKind
<1>6. \A i \in OfKind(down', "room") :
        i \in Nat /\ i >= 1 /\ i + 1 \in OfKind(down, "room") /\ down'[i] = down[i + 1]
  BY ONLY <1>4
<1>7. ASSUME NEW queued, RisingIn(down, queued) PROVE RisingIn(down', queued)
  <2>1. ASSUME NEW i \in OfKind(down', "room"), NEW j \in OfKind(down', "room"), i < j
        PROVE  down'[i].seq < down'[j].seq
    <3>1. /\ i + 1 \in OfKind(down, "room") /\ j + 1 \in OfKind(down, "room") /\ i + 1 < j + 1
          /\ down'[i] = down[i + 1] /\ down'[j] = down[j + 1]
      <4>1. i \in Nat /\ j \in Nat
        BY <1>6
      <4>2. i + 1 < j + 1
        BY <2>1, <4>1
      <4> QED BY <1>6, <4>2
    <3> QED BY <1>7, <3>1 DEF RisingIn
  <2>2. \A i \in OfKind(down', "room"), j \in DOMAIN queued : down'[i].seq < queued[j]
    BY <1>6, <1>7 DEF RisingIn
  <2> QED BY <1>7, <2>1, <2>2 DEF RisingIn
<1>8. \A queued, buffered : Coming(down', queued, buffered) \subseteq Coming(down, queued, buffered)
  <2>1. {down'[i].seq : i \in OfKind(down', "room")} \subseteq {down[i].seq : i \in OfKind(down, "room")}
    BY <1>6
  <2> QED BY <2>1 DEF Coming
<1> QED BY <1>2, <1>3, <1>4, <1>5, <1>7, <1>8

LEMMA BufferedStep ==
    ASSUME ClientTypes, CatchInv, ReceiveBuffered
    PROVE  CatchInv'
<1> SUFFICES ASSUME ~broken PROVE (CursorInv /\ RisingInv /\ (Quiet \/ Catching))'
  BY DEF CatchInv, ReceiveBuffered
<1> DEFINE n == down[1].seq
<1>0. /\ CursorInv /\ RisingInv /\ Catching /\ page \in Pages
      /\ page.buffer \in Seq(1 .. MaxRoomNumber) /\ NextFrame("room") /\ down' = Tail(down)
  BY DEF CatchInv, ReceiveBuffered, Quiet, TakeFrame, ClientTypes, Pages
<1>1. /\ 1 \in OfKind(down, "room") /\ down[1] = Head(down)
      /\ \A k : \A i \in OfKind(down', k) :
            i \in Nat /\ i >= 1 /\ i + 1 \in OfKind(down, k) /\ down'[i] = down[i + 1]
      /\ \A k : \A j \in OfKind(down, k) : j \in Nat /\ j >= 1 /\
            (j # 1 => j - 1 \in OfKind(down', k) /\ down'[j - 1] = down[j])
      /\ RisingIn(down, server.outbox) => RisingIn(down', server.outbox)
      /\ Coming(down', server.outbox, Range(page.buffer)) \subseteq OnWay
  BY <1>0, FrameTaken DEF OnWay
<1>2. /\ page'.cursor = page.cursor /\ page'.seen = page.seen /\ page'.syncing = page.syncing
      /\ page'.retrying = page.retrying /\ page'.buffer = Append(page.buffer, n)
      /\ UNCHANGED <<server, link, up, known>>
  BY <1>0, <1>1 DEF ReceiveBuffered, TakeFrame, Pages
<1>3. n \in OnWay /\ n \in 1 .. MaxRoomNumber
  <2>1. n \in OnWay
    BY <1>1 DEF OnWay, Coming
  <2> QED BY <2>1, NumberedFrames
<1>4. Range(page'.buffer) = Range(page.buffer) \cup {n}
  <2> HIDE DEF n
  <2>1. /\ \A i \in DOMAIN page.buffer : i \in DOMAIN page'.buffer /\ page'.buffer[i] = page.buffer[i]
        /\ \A i \in DOMAIN page'.buffer : i \in DOMAIN page.buffer \/ page'.buffer[i] = n
        /\ \E i \in DOMAIN page'.buffer : page'.buffer[i] = n
    BY <1>0, <1>2, <1>3, AppendPlaces
  <2> QED BY <2>1 DEF Range
<1> HIDE DEF n
<1>5. OnWay' \subseteq OnWay
  <2>1. OnWay' \subseteq Coming(down', server.outbox, Range(page.buffer)) \cup {n}
    BY <1>2, <1>4 DEF OnWay, Coming
  <2> QED BY <1>1, <1>3, <2>1
<1>6. CursorInv'
  BY <1>0, <1>2, <1>5 DEF CursorInv
<1>7. RisingInv'
  BY <1>0, <1>1, <1>2 DEF RisingInv
<1>8. \A b : Base(b, page.cursor.seq, known, OnWay) => Base(b, page.cursor.seq, known, OnWay')
  BY <1>5, BaseKept
<1>9. AtMostOne(OfKind(down', "done"))
  <2>1. ASSUME NEW i \in OfKind(down', "done"), NEW j \in OfKind(down', "done") PROVE i = j
    <3>1. i + 1 = j + 1 /\ i \in Nat /\ j \in Nat
      BY <1>0, <1>1 DEF Catching, AtMostOne
    <3> QED BY <3>1
  <2> QED BY <2>1 DEF AtMostOne
<1>10. OfKind(up', "sync") = {} \/ OfKind(down', "done") = {}
  BY <1>0, <1>1, <1>2 DEF Catching
<1>11. ASSUME NEW i \in OfKind(down', "done")
       PROVE  /\ Base(down'[i].since, page.cursor.seq, known, OnWay')
              /\ Answers(down', i, page.cursor.seq, server.max, Range(page'.buffer))
  <2>1. i \in Nat /\ i >= 1 /\ i + 1 \in OfKind(down, "done") /\ down'[i] = down[i + 1]
    BY <1>1
  <2>2. Base(down'[i].since, page.cursor.seq, known, OnWay')
    BY <1>0, <1>8, <2>1 DEF Catching
  <2>3. Answers(down, i + 1, page.cursor.seq, server.max, Range(page.buffer))
    BY <1>0, <2>1 DEF Catching
  <2>4. ASSUME down'[i].code # 503
        PROVE  Answers(down', i, page.cursor.seq, server.max, Range(page'.buffer))
    <3>1. /\ down'[i].inst = 1 /\ down'[i].seq \in page.cursor.seq .. server.max
          /\ \A j \in OfKind(down, "room") : j < i + 1 => down[j].seq <= down'[i].seq
          /\ \A f \in Range(page.buffer) : f <= down'[i].seq
      BY <2>1, <2>3, <2>4 DEF Answers
    <3>2. \A f \in Range(page'.buffer) : f <= down'[i].seq
      <4>1. 1 < i + 1
        BY <2>1
      <4>2. n <= down'[i].seq
        BY <1>1, <3>1, <4>1 DEF n
      <4> QED BY <1>4, <3>1, <4>2
    <3>3. ASSUME NEW j \in OfKind(down', "room"), j < i PROVE down'[j].seq <= down'[i].seq
      <4>1. j + 1 \in OfKind(down, "room") /\ down'[j] = down[j + 1] /\ j + 1 < i + 1
        BY <1>1, <2>1, <3>3
      <4> QED BY <3>1, <4>1
    <3>4. ASSUME down'[i].code = 200, down'[i].since # 0,
                 NEW x \in down'[i].since + 1 .. down'[i].seq, x \notin Range(page'.buffer)
          PROVE  \E j \in OfKind(down', "room") : j < i /\ down'[j].seq = x
      <4>1. PICK j \in OfKind(down, "room") : j < i + 1 /\ down[j].seq = x
        BY <1>4, <2>1, <2>3, <2>4, <3>4 DEF Answers
      <4>2. j # 1
        BY <1>4, <3>4, <4>1 DEF n
      <4>3. j - 1 \in OfKind(down', "room") /\ down'[j - 1] = down[j] /\ j - 1 < i
        BY <1>1, <2>1, <4>1, <4>2
      <4> QED BY <4>1, <4>3
    <3> QED BY <3>1, <3>2, <3>3, <3>4 DEF Answers
  <2>5. Answers(down', i, page.cursor.seq, server.max, Range(page'.buffer))
    BY <2>4 DEF Answers
  <2> QED BY <2>2, <2>5
<1>12. \A i \in OfKind(up', "sync") : /\ Base(up'[i].since, page.cursor.seq, known, OnWay')
                                      /\ up'[i].since # 0 => up'[i].inst = 1
  BY <1>0, <1>2, <1>8 DEF Catching
<1>13. Catching'
  BY <1>0, <1>2, <1>9, <1>10, <1>11, <1>12 DEF Catching
<1> QED BY <1>6, <1>7, <1>13

LEMMA LiveStep ==
    ASSUME ClientTypes, CatchInv, ReceiveLive
    PROVE  CatchInv'
<1> SUFFICES ASSUME ~broken' PROVE (CursorInv /\ RisingInv /\ (Quiet \/ Catching))'
  BY DEF CatchInv
<1> DEFINE n == down[1].seq
           c == page.cursor.seq
<1>0. /\ ~broken /\ page \in Pages /\ up \in Seq(Requests)
      /\ NextFrame("room") /\ ~page.syncing /\ down' = Tail(down)
  BY DEF ReceiveLive, Show, TakeFrame, ClientTypes
<1>1. CursorInv /\ RisingInv /\ Quiet
  BY <1>0 DEF CatchInv, Catching
<1>2. /\ 1 \in OfKind(down, "room") /\ down[1] = Head(down)
      /\ \A k : \A i \in OfKind(down', k) :
            i \in Nat /\ i >= 1 /\ i + 1 \in OfKind(down, k) /\ down'[i] = down[i + 1]
      /\ Coming(down', server.outbox, Range(page.buffer)) \subseteq OnWay
  BY <1>0, FrameTaken DEF OnWay
<1>3. /\ UNCHANGED <<server, link>> /\ link = "open"
      /\ known' = known \cup {n} /\ Show(page, n, <<>>)
  BY <1>0, <1>2 DEF ReceiveLive, TakeFrame, NextFrame
<1>4. n \in OnWay /\ n \in Numbers /\ n \in 1 .. server.max
  <2>1. n \in OnWay
    BY <1>2 DEF OnWay, Coming
  <2>2. n \in 1 .. MaxRoomNumber
    BY <2>1, NumberedFrames
  <2>3. n \in 1 .. server.max
    BY <1>1, <2>1 DEF CursorInv
  <2> HIDE DEF n
  <2>4. n \in Numbers
    BY <2>2, ClientAssumption DEF Numbers
  <2> QED BY <2>1, <2>3, <2>4
<1>5. /\ c \in Nat /\ server.max \in Nat /\ page.seen = c /\ c <= server.max
      /\ known \subseteq 1 .. c /\ (c > 0 => c \in known)
      /\ page.cursor.inst = (IF c = 0 THEN 0 ELSE 1)
      /\ page.instance = 1 /\ page.buffer = <<>> /\ OfKind(up, "sync") = {} /\ OfKind(down, "done") = {}
      /\ server.inst = 1 /\ ~page.retrying /\ OnWay \subseteq 1 .. server.max
      /\ Base(c, c, known, OnWay)
  BY <1>1, <1>3, NumberedFrames DEF CursorInv, Quiet
<1>6. OfKind(down', "done") = {}
  <2>1. \A i \in OfKind(down', "done") : i + 1 \in OfKind(down, "done")
    BY ONLY <1>2
  <2> QED BY <1>5, <2>1
\* Before the page's first message, whatever comes after this one has a higher number.
<1>7. ASSUME c = 0, page'.buffer = <<>>, NEW f \in OnWay' PROVE f > n
  <2>1. RisingIn(down, server.outbox)
    BY <1>1, <1>7 DEF RisingInv
  <2>2. CASE \E i \in OfKind(down', "room") : f = down'[i].seq
    <3>1. PICK i \in OfKind(down', "room") : f = down'[i].seq
      BY <2>2
    <3>2. i \in Nat /\ i >= 1 /\ i + 1 \in OfKind(down, "room") /\ down'[i] = down[i + 1]
      BY ONLY <1>2, <3>1
    <3>3. 1 < i + 1
      BY <3>2
    <3>4. n < f
      BY <1>2, <2>1, <3>1, <3>2, <3>3 DEF RisingIn
    <3>5. f \in OnWay
      BY <3>1, <3>2 DEF OnWay, Coming
    <3> QED BY <1>4, <1>5, <3>4, <3>5
  <2>3. CASE f \in Range(server.outbox)
    <3>1. PICK j \in DOMAIN server.outbox : f = server.outbox[j]
      BY <2>3 DEF Range
    <3>2. n < f
      BY <1>2, <2>1, <3>1 DEF RisingIn
    <3>3. f \in OnWay
      BY <2>3 DEF OnWay, Coming
    <3> QED BY <1>4, <1>5, <3>2, <3>3
  <2>4. Range(page'.buffer) = {}
    BY <1>7, NothingComing
  <2> QED BY <1>3, <1>7, <2>2, <2>3, <2>4 DEF OnWay, Coming
<1>8. ASSUME page'.buffer = <<>> PROVE OnWay' \subseteq OnWay
  BY <1>2, <1>3, <1>5, <1>8 DEF OnWay
<1> HIDE DEF n, c
\* No jump.
<1>9. CASE ~Jump(page, n) /\ page' = Advance(page, n) /\ up' = up \o <<>>
  <2>1. /\ page'.seen = (IF n > page.seen THEN n ELSE page.seen)
        /\ page'.cursor = (IF n > page.seen THEN [inst |-> page.instance, seq |-> n] ELSE page.cursor)
        /\ page'.instance = page.instance /\ page'.buffer = <<>>
        /\ page'.syncing = page.syncing /\ page'.retrying = page.retrying
    BY <1>0, <1>4, <1>5, <1>9, AdvanceIs
  <2>2. up' = up
    BY ONLY <1>0, <1>9, ConcatEmptySeq
  <2>3. CASE n > c
    <3>1. page'.cursor = [inst |-> 1, seq |-> n] /\ page'.seen = n
      BY <1>5, <2>1, <2>3
    <3>2. c = 0 \/ n = c + 1
      BY <1>4, <1>5, <1>9, <2>3 DEF Jump
    <3>3. c = 0 => known = {}
      BY <1>5
    <3>4. known' \subseteq 1 .. n /\ n \in known' /\ n > 0 /\ n <= server.max
      BY <1>3, <1>4, <1>5, <2>3
    <3>5. CursorInv'
      <4>1. OnWay' \subseteq 1 .. server.max
        BY <1>5, <1>8, <2>1
      <4> QED BY <1>3, <1>5, <2>1, <3>1, <3>4, <4>1 DEF CursorInv
    <3>6. RisingInv'
      BY <3>1, <3>4 DEF RisingInv
    <3>7. Base(n, n, known', OnWay')
      <4>1. n \in 0 .. n /\ (n = 0 <=> n = 0)
        BY <1>4
      <4>2. ASSUME NEW x \in 1 .. n, NEW m \in known', m < x PROVE x \in known'
        <5>1. CASE c = 0
          BY <1>3, <1>4, <3>3, <4>2, <5>1
        <5>2. CASE c # 0
          <6>1. n = c + 1
            BY <3>2, <5>2
          <6>2. CASE x = n
            BY <1>3, <6>2
          <6>3. CASE x # n
            <7>1. x \in 1 .. c /\ m \in known
              BY <1>3, <1>4, <1>5, <4>2, <6>1, <6>3
            <7> QED BY <1>3, <1>5, <4>2, <7>1 DEF Base
          <6> QED BY <6>2, <6>3
        <5> QED BY <5>1, <5>2
      <4>3. ASSUME NEW f \in OnWay' PROVE f \in known' \/ f > n
        <5>1. CASE c = 0
          BY <1>7, <2>1, <4>3, <5>1
        <5>2. CASE c # 0
          <6>1. f \in OnWay /\ f \in 1 .. server.max
            BY <1>5, <1>8, <2>1, <4>3
          <6>2. f \in known \/ f > c
            BY <1>5, <6>1 DEF Base
          <6>3. f > c => f = n \/ f > n
            BY <1>4, <1>5, <3>2, <5>2, <6>1
          <6> QED BY <1>3, <6>2, <6>3
        <5> QED BY <5>1, <5>2
      <4> QED BY <4>1, <4>2, <4>3 DEF Base
    <3>8. Quiet'
      BY <1>0, <1>5, <1>6, <2>1, <2>2, <3>1, <3>7 DEF Quiet
    <3> QED BY <3>5, <3>6, <3>8
  <2>4. CASE ~(n > c)
    <3>1. page'.cursor = page.cursor /\ page'.seen = page.seen
      BY <1>5, <2>1, <2>4
    <3>2. OnWay' \subseteq OnWay
      BY <1>8, <2>1
    <3>3. n \in known
      BY <1>4, <1>5, <2>4 DEF Base
    <3>4. known' = known
      BY <1>3, <3>3
    <3>5. CursorInv'
      BY <1>1, <1>3, <2>1, <3>1, <3>2, <3>4 DEF CursorInv
    <3>6. RisingInv'
      <4>1. c > 0
        BY <1>4, <1>5, <2>4
      <4> QED BY <3>1, <4>1 DEF RisingInv, c
    <3>7. Base(c, c, known, OnWay')
      BY <1>5, <3>2, BaseKept
    <3>8. Quiet'
      BY <1>0, <1>5, <1>6, <2>1, <2>2, <3>1, <3>4, <3>7 DEF Quiet, c
    <3> QED BY <3>5, <3>6, <3>8
  <2> QED BY <2>3, <2>4
\* A jump that leads to a catching up from where the cursor stood.
<1>10. CASE /\ Jump(page, n) /\ page' = Advance(AtJump(page, n), n)
            /\ up' = (up \o <<>>) \o <<SyncRequest(AtJump(page, n))>>
  <2> DEFINE g == [page EXCEPT !.gapAsked = TRUE]
             h == BeginSync(g)
             r == SyncRequest(h)
  <2>1. g \in Pages /\ g.cursor = page.cursor
    BY <1>0 DEF Pages
  <2> HIDE DEF g
  <2>2. /\ h \in Pages /\ h.syncing = TRUE /\ h.buffer = <<>> /\ h.retrying = FALSE
        /\ h.instance = page.cursor.inst /\ h.seen = c /\ h.cursor = page.cursor
    BY <2>1, BeginSyncIs DEF c
  <2>3. AtJump(page, n) = h
    BY DEF AtJump, g
  <2> HIDE DEF h
  <2>4. r \in Requests /\ r.kind = "sync" /\ r.since = c /\ r.inst = page.cursor.inst
    BY <2>2, SyncRequestIs DEF c
  <2>5. page' = Advance(h, n) /\ up' = Append(up, r)
    <3>1. up \o <<>> = up
      BY ONLY <1>0, ConcatEmptySeq
    <3>2. up' = up \o <<r>>
      BY <1>10, <2>3, <3>1
    <3> HIDE DEF r
    <3>3. up \o <<r>> = Append(up, r)
      BY <1>0, <2>4, AppendIsConcat
    <3> QED BY <1>10, <2>3, <3>2, <3>3
  <2> HIDE DEF r
  <2>6. c > 0 /\ n > c
    BY <1>4, <1>5, <1>10 DEF Jump
  <2>7. /\ page'.cursor = [inst |-> 1, seq |-> n] /\ page'.seen = n
        /\ page'.syncing = TRUE /\ page'.buffer = <<>> /\ page'.retrying = FALSE
    BY <1>4, <1>5, <2>2, <2>5, <2>6, AdvanceIs
  <2>8. OnWay' \subseteq OnWay
    BY <1>8, <2>7
  <2>9. CursorInv'
    <3>1. known' \subseteq 1 .. n /\ n \in known' /\ n > 0 /\ n <= server.max
      BY <1>3, <1>4, <1>5, <2>6
    <3> QED BY <1>3, <1>5, <2>7, <2>8, <3>1 DEF CursorInv
  <2>10. RisingInv'
    BY <1>4, <2>7 DEF RisingInv
  <2>11. Base(c, n, known', OnWay')
    <3>1. c \in 0 .. n /\ (c = 0 <=> n = 0)
      BY <1>4, <1>5, <2>6
    <3>2. ASSUME NEW x \in 1 .. c, NEW m \in known', m < x PROVE x \in known'
      <4>1. m \in known
        BY <1>3, <1>4, <1>5, <2>6, <3>2
      <4> QED BY <1>3, <1>5, <3>2, <4>1 DEF Base
    <3>3. \A f \in OnWay' : f \in known' \/ f > c
      BY <1>3, <1>5, <2>8 DEF Base
    <3> QED BY <3>1, <3>2, <3>3 DEF Base
  <2>12. \A i \in OfKind(up', "sync") : i = Len(up) + 1 /\ up'[i] = r
    <3>1. /\ \A i \in DOMAIN up' : i \in DOMAIN up \/ i = Len(up) + 1
          /\ \A i \in DOMAIN up : up'[i] = up[i]
          /\ up'[Len(up) + 1] = r
      BY <1>0, <2>4, <2>5, AppendPlaces
    <3> QED BY <1>5, <3>1 DEF OfKind
  <2>13. Catching'
    <3>1. page'.syncing /\ link' = "open" /\ page'.cursor.seq = n
      BY <1>3, <2>7
    <3>2. AtMostOne(OfKind(up', "sync")) /\ AtMostOne(OfKind(down', "done"))
      BY <1>6, <2>12 DEF AtMostOne
    <3>3. ASSUME NEW i \in OfKind(up', "sync")
          PROVE  /\ Base(up'[i].since, n, known', OnWay')
                 /\ up'[i].since # 0 => up'[i].inst = 1
      <4>1. up'[i].since = c /\ up'[i].inst = 1
        BY <1>5, <2>4, <2>6, <2>12
      <4> QED BY <2>11, <4>1
    <3> QED BY <1>6, <3>1, <3>2, <3>3 DEF Catching
  <2> QED BY <2>9, <2>10, <2>13
<1> QED BY <1>0, <1>3, <1>9, <1>10 DEF Show

LEMMA DoneStep ==
    ASSUME ClientTypes, CatchInv, SyncDone
    PROVE  CatchInv'
<1> SUFFICES ASSUME ~broken PROVE (CursorInv /\ RisingInv /\ (Quiet \/ Catching))'
  BY DEF CatchInv, SyncDone
<1> DEFINE done == Head(down)
           c == page.cursor.seq
           B == Range(page.buffer)
           full == done.code = 206 \/ done.since = 0
           m == Max({page.seen, done.seq})
           told == [page EXCEPT !.instance = done.inst, !.retries = 0, !.seen = m]
           saved == SaveCursor(told, done.seq)
           pg == ApplyBuffer(saved)
           s == done.seq
           since == done.since
<1>0. /\ page \in Pages /\ up \in Seq(Requests) /\ NextFrame("done") /\ done.code # 503
      /\ down' = Tail(down) /\ UNCHANGED <<server, link, broken>> /\ link = "open"
      /\ page' = Flush(pg) /\ up' = up \o Flushed(pg)
      /\ known' = known \cup B \cup (IF full THEN 1 .. s ELSE {})
  BY DEF SyncDone, ClientTypes, TakeFrame, NextFrame
<1>1. /\ 1 \in OfKind(down, "done") /\ down[1] = done
      /\ \A k : \A i \in OfKind(down', k) :
            i \in Nat /\ i >= 1 /\ i + 1 \in OfKind(down, k) /\ down'[i] = down[i + 1]
      /\ \A k : \A j \in OfKind(down, k) : j \in Nat /\ j >= 1 /\
            (j # 1 => j - 1 \in OfKind(down', k) /\ down'[j - 1] = down[j])
      /\ \A queued : RisingIn(down, queued) => RisingIn(down', queued)
      /\ Coming(down', server.outbox, B) \subseteq OnWay
  <2>1. NextFrame("done") /\ down' = Tail(down)
    BY <1>0
  <2>2. 1 \in OfKind(down, "done") /\ down[1] = done
    BY <2>1, FrameTaken
  <2>3. /\ \A k : \A i \in OfKind(down', k) :
                i \in Nat /\ i >= 1 /\ i + 1 \in OfKind(down, k) /\ down'[i] = down[i + 1]
        /\ \A k : \A j \in OfKind(down, k) : j \in Nat /\ j >= 1 /\
                (j # 1 => j - 1 \in OfKind(down', k) /\ down'[j - 1] = down[j])
    BY <2>1, FrameTaken
  <2>4. \A queued : RisingIn(down, queued) => RisingIn(down', queued)
    BY <2>1, FrameTaken
  <2>5. Coming(down', server.outbox, B) \subseteq Coming(down, server.outbox, B)
    BY <2>1, FrameTaken
  <2> HIDE DEF done
  <2> QED BY <2>2, <2>3, <2>4, <2>5 DEF OnWay
<1>2. CursorInv /\ RisingInv /\ Catching
  BY <1>1 DEF CatchInv, Quiet
<1>3. /\ s \in Numbers /\ since \in Numbers /\ done.inst \in Nat /\ done.code \in {200, 206}
  BY <1>0, TakeIs, DoneFrameIs
<1>4. /\ c \in Nat /\ server.max \in Nat /\ page.seen = c /\ c <= server.max
      /\ known \subseteq 1 .. c /\ (c > 0 => c \in known)
      /\ page.cursor.inst = (IF c = 0 THEN 0 ELSE 1)
      /\ server.inst = 1 /\ ~page.retrying /\ OnWay \subseteq 1 .. server.max
      /\ Base(since, c, known, OnWay)
      /\ OfKind(up, "sync") = {} /\ AtMostOne(OfKind(down, "done"))
  BY <1>1, <1>2, NumberedFrames DEF CursorInv, Catching
<1>5. B \subseteq OnWay
  BY DEF OnWay, Coming
<1>6. /\ done.inst = 1 /\ s \in c .. server.max /\ s \in Nat /\ since \in Nat /\ since <= c
      /\ \A f \in B : f <= s
      /\ ~full => \A n \in since + 1 .. s : n \in B
  <2>1. Answers(down, 1, c, server.max, B)
    BY <1>1, <1>2 DEF Catching
  <2>2. \A j \in OfKind(down, "room") : ~(j < 1)
    <3>1. \A j \in OfKind(down, "room") : j \in Nat /\ j >= 1
      BY ONLY <1>1
    <3> QED BY <3>1
  <2>3. done.inst = 1 /\ s \in c .. server.max /\ \A f \in B : f <= s
    BY <1>0, <1>1, <2>1 DEF Answers
  <2>4. ~full => \A n \in since + 1 .. s : n \in B
    <3>1. ~full => done.code = 200 /\ since # 0
      BY <1>3
    <3> QED BY <1>0, <1>1, <2>1, <2>2, <3>1 DEF Answers
  <2>5. since \in 0 .. c
    BY <1>4 DEF Base
  <2>6. s \in Nat /\ since \in Nat /\ since <= c
    BY <1>4, <2>3, <2>5
  <2> QED BY <2>3, <2>4, <2>6
<1> HIDE DEF full
\* Where the answer leaves the page.
<1>7. m = s
  <2>1. page.seen \in Int /\ s \in Int /\ page.seen <= s
    BY <1>4, <1>6
  <2> HIDE DEF s
  <2>2. m \in {page.seen, s} /\ page.seen <= m /\ s <= m
    BY <2>1, PairMaxIs DEF s
  <2> HIDE DEF m
  <2> QED BY <2>1, <2>2
<1>8. /\ told \in Pages /\ told.instance = 1 /\ told.seen = s /\ told.cursor = page.cursor
      /\ told.buffer = page.buffer /\ told.retrying = page.retrying
  <2>1. s \in Numbers /\ done.inst = 1 /\ page \in Pages
    BY <1>0, <1>3, <1>6
  <2>2. told = [page EXCEPT !.instance = 1, !.retries = 0, !.seen = s]
    BY <1>7, <2>1
  <2> HIDE DEF told, s
  <2> QED BY <2>1, <2>2 DEF Pages
<1> HIDE DEF told, m
<1>9. /\ saved \in Pages /\ saved.instance = 1 /\ saved.seen = s
      /\ saved.cursor = (IF s = 0 THEN page.cursor ELSE [inst |-> 1, seq |-> s])
      /\ saved.buffer = page.buffer /\ saved.retrying = page.retrying
  <2> HIDE DEF s
  <2>1. s \in Numbers /\ SaveCursor(told, s) = saved
    BY <1>3 DEF s
  <2>2. [inst |-> 1, seq |-> s] \in [inst : Nat, seq : Numbers]
    BY <2>1
  <2>3. CASE s = 0
    <3>1. saved = told
      BY <2>1, <2>3 DEF SaveCursor
    <3> HIDE DEF saved
    <3> QED BY <1>8, <2>3, <3>1
  <2>4. CASE s # 0
    <3>1. saved = [told EXCEPT !.cursor = [inst |-> 1, seq |-> s]]
      BY <1>8, <2>1, <2>4 DEF SaveCursor
    <3> HIDE DEF saved
    <3> QED BY <1>8, <2>2, <2>4, <3>1 DEF Pages
  <2> QED BY <2>3, <2>4
<1> HIDE DEF saved
<1>10. /\ pg \in Pages /\ pg.syncing = FALSE /\ pg.buffer = <<>> /\ pg.instance = 1
       /\ pg.retrying = page.retrying /\ pg.seen = s /\ pg.cursor = saved.cursor
  <2>1. \A f \in Range(saved.buffer) : f <= saved.seen
    BY <1>6, <1>9
  <2> QED BY <1>9, <2>1, ApplyBufferIs
<1> HIDE DEF pg
<1>11. /\ page'.syncing = FALSE /\ page'.buffer = <<>> /\ page'.instance = 1
       /\ page'.retrying = page.retrying /\ page'.seen = s /\ page'.cursor = saved.cursor
  BY <1>0, <1>10, FlushIs
<1>12. page'.cursor.seq = s /\ page'.cursor.inst = (IF s = 0 THEN 0 ELSE 1)
  <2>1. s = 0 => c = 0
    BY <1>4, <1>6
  <2> HIDE DEF s
  <2> QED BY <1>4, <1>9, <1>11, <2>1
<1>13. OnWay' \subseteq OnWay
  <2>1. Range(page'.buffer) = {}
    BY <1>11, NothingComing
  <2> QED BY <1>0, <1>1, <2>1 DEF OnWay, Coming
\* What the page knows now.
<1>14. known' \subseteq 1 .. s
  <2>1. \A x \in known : x \in 1 .. s
    BY <1>4, <1>6
  <2>2. \A x \in B : x \in 1 .. s
    <3>1. \A x \in B : x \in 1 .. server.max
      BY <1>4, <1>5
    <3> QED BY <1>4, <1>6, <3>1
  <2> QED BY <1>0, <2>1, <2>2
<1>15. s > 0 => s \in known'
  <2>1. CASE full
    BY <1>0, <1>6, <2>1
  <2>2. CASE ~full /\ since < s
    <3>1. s \in since + 1 .. s
      BY <1>6, <2>2
    <3> QED BY <1>0, <1>6, <2>2, <3>1
  <2>3. CASE ~(since < s)
    <3>1. s = c
      BY <1>4, <1>6, <2>3
    <3> QED BY <1>0, <1>4, <3>1
  <2> QED BY <2>1, <2>2, <2>3
<1>16. Base(s, s, known', OnWay')
  <2>1. s \in 0 .. s /\ (s = 0 <=> s = 0)
    BY <1>6
  <2>2. ASSUME NEW x \in 1 .. s, NEW y \in known', y < x PROVE x \in known'
    <3>1. CASE full
      BY <1>0, <3>1
    <3>2. CASE ~full
      <4>1. CASE x > since
        <5>1. x \in since + 1 .. s
          BY <1>6, <4>1
        <5> QED BY <1>0, <1>6, <3>2, <5>1
      <4>2. CASE ~(x > since)
        <5>1. x \in 1 .. since
          BY <1>6, <4>2
        <5>2. y \in known
          <6>1. y \in known \/ y \in B
            BY <1>0, <3>2
          <6>2. y \in B => y \in known \/ y > since
            BY <1>4, <1>5 DEF Base
          <6>3. y \in Int
            BY <1>6, <1>14
          <6>4. ~(y > since)
            BY <1>6, <2>2, <4>2, <6>3
          <6> QED BY <6>1, <6>2, <6>4
        <5>3. x \in known
          BY <1>4, <2>2, <5>1, <5>2 DEF Base
        <5> QED BY <1>0, <5>3
      <4> QED BY <4>1, <4>2
    <3> QED BY <3>1, <3>2
  <2>3. ASSUME NEW f \in OnWay' PROVE f \in known' \/ f > s
    <3>1. f \in OnWay /\ f \in 1 .. server.max
      BY <1>4, <1>13
    <3>2. CASE full
      <4>1. f \in 1 .. s \/ f > s
        BY <1>4, <1>6, <3>1
      <4> QED BY <1>0, <3>2, <4>1
    <3>3. CASE ~full
      <4>1. f \in known \/ f > since
        BY <1>4, <3>1 DEF Base
      <4>2. f > since => f \in since + 1 .. s \/ f > s
        BY <1>4, <1>6, <3>1
      <4> QED BY <1>0, <1>6, <3>3, <4>1, <4>2
    <3> QED BY <3>2, <3>3
  <2> QED BY <2>1, <2>2, <2>3 DEF Base
<1> HIDE DEF s, since, c, B, done
<1>17. CursorInv'
  <2>1. s <= server.max
    BY <1>4, <1>6
  <2>2. OnWay' \subseteq 1 .. server.max
    BY <1>4, <1>13
  <2> QED BY <1>0, <1>4, <1>11, <1>12, <1>14, <1>15, <2>1, <2>2 DEF CursorInv
<1>18. RisingInv'
  <2> SUFFICES ASSUME s = 0 PROVE RisingIn(down', server.outbox)
    BY <1>0, <1>12 DEF RisingInv
  <2>1. c = 0
    BY <1>4, <1>6
  <2> QED BY <1>1, <1>2, <2>1 DEF RisingInv, c
<1>19. OfKind(up', "sync") = {}
  <2>1. Flushed(pg) \in Seq(Requests) /\ \A i \in DOMAIN Flushed(pg) : Flushed(pg)[i].kind = "message"
    BY <1>10, FlushedIs
  <2>2. \A i \in DOMAIN Flushed(pg) : Flushed(pg)[i].kind \notin {"sync"}
    BY <2>1
  <2>3. Shifted(up, up', 0, {"sync"})
    BY <1>0, <2>1, <2>2, ShiftedConcat
  <2>4. \A i \in OfKind(up', "sync") : i + 0 \in OfKind(up, "sync")
    BY <2>3, ShiftedAt
  <2> QED BY <1>4, <2>4
<1>20. OfKind(down', "done") = {}
  <2> SUFFICES ASSUME NEW i \in OfKind(down', "done") PROVE FALSE
    OBVIOUS
  <2>1. i \in Nat /\ i >= 1 /\ i + 1 \in OfKind(down, "done")
    BY ONLY <1>1
  <2>2. i + 1 = 1
    BY <1>1, <1>4, <2>1 DEF AtMostOne
  <2> QED BY <2>1, <2>2
<1>21. Quiet'
  BY <1>0, <1>11, <1>12, <1>16, <1>19, <1>20 DEF Quiet
<1> QED BY <1>17, <1>18, <1>21

(***************************************************************************)
(* Steps of the server: it answers a catching up.                          *)
(***************************************************************************)

LEMMA BusyStep ==
    ASSUME ClientTypes, CatchInv, SyncBusy
    PROVE  CatchInv'
<1> SUFFICES ASSUME ~broken PROVE (CursorInv /\ RisingInv /\ (Quiet \/ Catching))'
  BY DEF CatchInv, SyncBusy, PageSame
<1> DEFINE s == Head(up).since
           f == DoneFrame(503, s, s, {})
<1>0. /\ up \in Seq(Requests) /\ up # <<>> /\ Head(up).kind = "sync" /\ up' = Tail(up)
      /\ down \in Seq(FrameSet) /\ down' = Append(down, f) /\ s \in Numbers
      /\ server.inst \in Nat /\ UNCHANGED <<server, link, page, known, broken>>
  BY AskIs, SyncAskIs DEF SyncBusy, NextRequest, PageSame, ClientTypes
<1>1. /\ 1 \in OfKind(up, "sync") /\ up[1] = Head(up)
      /\ \A i \in OfKind(up', "sync") : i \in Nat /\ i >= 1 /\ i + 1 \in OfKind(up, "sync")
  BY <1>0, TailPlaces DEF OfKind
<1>2. CursorInv /\ RisingInv /\ Catching
  BY <1>1 DEF CatchInv, Quiet
<1>3. OfKind(up', "sync") = {}
  <2> SUFFICES ASSUME NEW i \in OfKind(up', "sync") PROVE FALSE
    OBVIOUS
  <2>1. i \in Nat /\ i >= 1 /\ i + 1 = 1
    BY <1>1, <1>2 DEF Catching, AtMostOne
  <2> QED BY <2>1
<1>4. OfKind(down, "done") = {} /\ Base(s, page.cursor.seq, known, OnWay)
  BY <1>1, <1>2 DEF Catching
<1> HIDE DEF s
<1>5. f \in FrameSet /\ f.kind = "done" /\ f.code = 503 /\ f.since = s
  BY <1>0 DEF DoneFrame, FrameSet
<1> HIDE DEF f
<1>6. /\ \A i \in DOMAIN down : i \in DOMAIN down' /\ down'[i] = down[i]
      /\ \A i \in DOMAIN down' : i \in DOMAIN down \/ (i = Len(down) + 1 /\ down'[i] = f)
  BY <1>0, <1>5, AppendPlaces
<1>7. /\ OfKind(down', "room") = OfKind(down, "room") /\ \A i \in OfKind(down, "room") : down'[i] = down[i]
      /\ \A i \in OfKind(down', "done") : i = Len(down) + 1 /\ down'[i] = f
  BY <1>4, <1>5, <1>6 DEF OfKind
<1>8. OnWay' = OnWay
  BY <1>0, <1>7 DEF OnWay, Coming
<1>9. CursorInv'
  BY <1>0, <1>2, <1>8 DEF CursorInv
<1>10. RisingInv'
  BY <1>0, <1>2, <1>7 DEF RisingInv, RisingIn
<1>11. Catching'
  BY <1>0, <1>2, <1>3, <1>4, <1>5, <1>7, <1>8 DEF Catching, AtMostOne, Answers
<1> QED BY <1>9, <1>10, <1>11

LEMMA ReplayStep ==
    ASSUME ClientTypes, CatchInv, HandleSync
    PROVE  CatchInv'
<1> SUFFICES ASSUME ~broken PROVE (CursorInv /\ RisingInv /\ (Quiet \/ Catching))'
  BY HandleSyncIs DEF CatchInv
<1> DEFINE c == page.cursor.seq
           B == Range(page.buffer)
<1>0. /\ up \in Seq(Requests) /\ up # <<>> /\ Head(up).kind = "sync" /\ up' = Tail(up)
      /\ down \in Seq(FrameSet) /\ Head(up).since \in Numbers /\ Head(up).inst \in Nat
      /\ server'.inst = server.inst /\ server'.max = server.max /\ server'.outbox = server.outbox
      /\ UNCHANGED <<link, page, known, broken>>
  <2>1. NextRequest("sync")
    BY DEF HandleSync
  <2>2. up # <<>> /\ Head(up).kind = "sync" /\ Head(up).since \in Numbers /\ Head(up).inst \in Nat
    BY <2>1, AskIs, SyncAskIs DEF NextRequest
  <2>3. /\ up' = Tail(up) /\ UNCHANGED <<link, page, known, broken>>
        /\ server'.inst = server.inst /\ server'.max = server.max
        /\ server'.outbox = server.outbox
    BY HandleSyncIs
  <2> QED BY <2>2, <2>3 DEF ClientTypes
<1>1. /\ 1 \in OfKind(up, "sync") /\ up[1] = Head(up)
      /\ \A i \in OfKind(up', "sync") : i \in Nat /\ i >= 1 /\ i + 1 \in OfKind(up, "sync")
  BY <1>0, TailPlaces DEF OfKind
<1>2. CursorInv /\ RisingInv /\ Catching
  BY <1>1 DEF CatchInv, Quiet
<1>3. OfKind(up', "sync") = {}
  <2> SUFFICES ASSUME NEW i \in OfKind(up', "sync") PROVE FALSE
    OBVIOUS
  <2>1. i \in Nat /\ i >= 1 /\ i + 1 = 1
    BY <1>1, <1>2 DEF Catching, AtMostOne
  <2> QED BY <2>1
<1>4. PICK since, first, last, seq, code : ReplayAnswer(since, first, last, seq, code)
  BY HandleSyncIs
<1>5. /\ since = Head(up).since
      /\ OfKind(down, "done") = {} /\ Base(since, c, known, OnWay)
  <2>1. /\ Base(up[1].since, c, known, OnWay) /\ (up[1].since # 0 => up[1].inst = 1)
        /\ OfKind(down, "done") = {} /\ server.inst = 1
    BY <1>1, <1>2 DEF Catching, CursorInv
  <2>2. since = Head(up).since
    BY <1>1, <1>4, <2>1 DEF ReplayAnswer
  <2> QED BY <1>1, <2>1, <2>2
<1>6. /\ c \in Nat /\ server.max \in Nat /\ server.max \in Numbers /\ c <= server.max
      /\ server.inst = 1 /\ OnWay \subseteq 1 .. server.max
  <2>1. server.max \in Numbers
    BY DEF ClientTypes
  <2> QED BY <1>2, <2>1, NumberedFrames DEF CursorInv
<1>7. /\ since \in Nat /\ first \in Nat /\ first >= 1 /\ last \in first - 1 .. server.max
      /\ seq \in Numbers /\ code \in {200, 206, 503} /\ since \in Numbers
      /\ code # 503 => seq = server.max /\ last = server.max
      /\ code = 200 /\ since # 0 => first = since + 1
      /\ since = 0 => first = server.max + 1
      /\ since # 0 => since < first
      /\ first \in Nat \ {0} /\ last \in first - 1 .. MaxRoomNumber
  <2>1. since \in 0 .. c
    BY <1>5 DEF Base
  <2>2. since <= server.max
    BY <1>6, <2>1
  <2>3. first \in 1 .. server.max + 1 /\ last \in first - 1 .. server.max
    BY <1>4 DEF ReplayAnswer
  <2>4. /\ since \in Nat /\ first \in Nat /\ first >= 1 /\ first \in Nat \ {0}
        /\ last \in first - 1 .. MaxRoomNumber
    BY <1>6, <2>1, <2>3, ClientAssumption DEF Numbers
  <2> QED BY <1>4, <2>2, <2>3, <2>4 DEF ReplayAnswer
<1> DEFINE r == ReplayFrames(first, last)
           f == DoneFrame(code, seq, since, first .. last)
           t == down \o r
           k == Len(down)
<1>8. /\ r \in Seq(FrameSet) /\ Len(r) = last - first + 1
      /\ \A n \in 1 .. last - first + 1 : r[n] = [kind |-> "room", seq |-> first + n - 1]
  <2>1. first \in Nat \ {0} /\ last \in first - 1 .. MaxRoomNumber
    BY ONLY <1>7
  <2> QED BY <2>1, ReplayFramesIs
<1>9. f \in FrameSet /\ f.kind = "done" /\ f.code = code /\ f.since = since /\ f.seq = seq
      /\ f.inst = 1
  <2>1. first .. last \in SUBSET Int
    OBVIOUS
  <2> QED BY <1>6, <1>7, <2>1 DEF DoneFrame, FrameSet
<1>10. down' = Append(t, f) /\ t \in Seq(FrameSet)
  <2>1. down' = t \o <<f>>
    BY <1>4 DEF ReplayAnswer
  <2> HIDE DEF r, f
  <2>2. t \in Seq(FrameSet)
    BY <1>0, <1>8, ConcatPlaces
  <2> HIDE DEF t
  <2> QED BY <1>9, <2>1, <2>2, AppendIsConcat
<1> HIDE DEF r, f
<1>11. /\ k \in Nat
       /\ \A i \in DOMAIN down : i \in Nat /\ i <= k /\ i \in DOMAIN t /\ t[i] = down[i]
       /\ \A n \in 1 .. last - first + 1 :
            k + n \in DOMAIN t /\ t[k + n] = [kind |-> "room", seq |-> first + n - 1]
       /\ \A i \in DOMAIN t : i \in Nat /\
            (i \in DOMAIN down \/ (i - k \in 1 .. last - first + 1 /\ t[i] = r[i - k]))
  BY <1>0, <1>8, ConcatPlaces
<1> HIDE DEF t, k
<1>12. /\ Len(t) \in Nat
       /\ \A i \in DOMAIN t : i \in Nat /\ i <= Len(t) /\ i \in DOMAIN down' /\ down'[i] = t[i]
       /\ \A i \in DOMAIN down' : i \in DOMAIN t \/ (i = Len(t) + 1 /\ down'[i] = f)
  BY <1>9, <1>10, AppendPlaces
\* The frames under way now: those that were, the replay, and the answer behind them.
<1>13. \A i \in OfKind(down, "room") : i \in OfKind(down', "room") /\ down'[i] = down[i]
  BY <1>11, <1>12 DEF OfKind
<1>14. ASSUME NEW n \in first .. last
       PROVE  \E i \in OfKind(down', "room") : i <= Len(t) /\ down'[i].seq = n
  <2> DEFINE p == n - first + 1
  <2>1. p \in 1 .. last - first + 1 /\ first + p - 1 = n
    BY <1>7
  <2> HIDE DEF p
  <2>2. k + p \in DOMAIN t /\ t[k + p] = [kind |-> "room", seq |-> n]
    BY <1>11, <2>1
  <2>3. k + p \in OfKind(down', "room") /\ down'[k + p].seq = n /\ k + p <= Len(t)
    BY <1>12, <2>2 DEF OfKind
  <2> QED BY <2>3
<1>15. ASSUME NEW i \in OfKind(down', "room")
       PROVE  i \in DOMAIN t
              /\ ((i \in OfKind(down, "room") /\ down'[i] = down[i]) \/ down'[i].seq \in first .. last)
  <2>1. i \in DOMAIN t /\ down'[i] = t[i] /\ t[i].kind = "room"
    BY <1>9, <1>12 DEF OfKind
  <2>2. CASE i \in DOMAIN down
    BY <1>11, <2>1, <2>2 DEF OfKind
  <2>3. CASE i - k \in 1 .. last - first + 1 /\ t[i] = r[i - k]
    <3> DEFINE p == i - k
    <3>1. r[p] = [kind |-> "room", seq |-> first + p - 1] /\ p \in 1 .. last - first + 1
      BY <1>8, <2>3
    <3>2. first + p - 1 \in first .. last
      <4> HIDE DEF p
      <4> QED BY <1>7, <3>1
    <3> HIDE DEF p
    <3>3. down'[i].seq = first + p - 1
      BY <2>1, <2>3, <3>1 DEF p
    <3> QED BY <2>1, <3>2, <3>3
  <2> QED BY <1>11, <2>1, <2>2, <2>3
<1>16. \A i \in OfKind(down', "done") : i = Len(t) + 1 /\ down'[i] = f
  <2> SUFFICES ASSUME NEW i \in OfKind(down', "done"), i \in DOMAIN t PROVE FALSE
    BY <1>12 DEF OfKind
  <2>1. down'[i] = t[i] /\ t[i].kind = "done"
    BY <1>12 DEF OfKind
  <2>2. i \in DOMAIN down => t[i] = down[i]
    BY <1>11
  <2>3. i - k \in 1 .. last - first + 1 /\ t[i] = r[i - k] => t[i].kind = "room"
    BY <1>8
  <2> QED BY <1>5, <1>11, <2>1, <2>2, <2>3 DEF OfKind
<1>17. \A x \in OnWay' : x \in OnWay \/ x \in first .. last
  BY <1>0, <1>15 DEF OnWay, Coming
<1>18. \A x \in first .. last : x \in 1 .. server.max /\ x > since
  BY <1>6, <1>7
<1>19. CursorInv'
  BY <1>0, <1>2, <1>6, <1>17, <1>18 DEF CursorInv
<1>20. RisingInv'
  <2> SUFFICES ASSUME c = 0 PROVE RisingIn(down', server.outbox)
    BY <1>0 DEF RisingInv
  <2>1. since = 0
    BY <1>5 DEF Base
  <2>2. first .. last = {}
    BY <1>6, <1>7, <2>1
  <2>3. \A i \in OfKind(down', "room") : i \in OfKind(down, "room") /\ down'[i] = down[i]
    BY <1>15, <2>2
  <2>4. RisingIn(down, server.outbox)
    BY <1>2 DEF RisingInv
  <2> HIDE DEF c
  <2> QED BY <2>3, <2>4 DEF RisingIn
<1>21. Base(since, c, known, OnWay')
  BY <1>5, <1>17, <1>18, BaseKept
<1>22. ASSUME NEW i \in OfKind(down', "done") PROVE Answers(down', i, c, server.max, B)
  <2> SUFFICES ASSUME code # 503 PROVE Answers(down', i, c, server.max, B)
    BY <1>9, <1>16 DEF Answers
  <2>1. i = Len(t) + 1 /\ down'[i] = f
    BY <1>16
  <2>2. seq = server.max /\ last = server.max
    BY <1>7
  <2>3. seq \in c .. server.max
    BY <1>6, <2>2
  <2>4. \A j \in OfKind(down', "room") : down'[j].seq <= seq
    <3>1. \A j \in OfKind(down', "room") : down'[j].seq \in 1 .. server.max
      <4>1. \A j \in OfKind(down, "room") : down[j].seq \in 1 .. server.max
        BY <1>6 DEF OnWay, Coming
      <4> QED BY <1>15, <1>18, <4>1
    <3> QED BY <1>6, <2>2, <3>1
  <2>5. \A x \in B : x <= seq
    <3>1. \A x \in B : x \in 1 .. server.max
      BY <1>6 DEF OnWay, Coming
    <3> QED BY <1>6, <2>2, <3>1
  <2>6. ASSUME code = 200, since # 0, NEW n \in since + 1 .. seq
        PROVE  \E j \in OfKind(down', "room") : j < i /\ down'[j].seq = n
    <3>1. n \in first .. last
      BY <1>7, <2>2, <2>6
    <3>2. PICK j \in OfKind(down', "room") : j <= Len(t) /\ down'[j].seq = n
      BY <1>14, <3>1
    <3>3. j < i
      BY <1>12, <1>15, <2>1, <3>2
    <3> QED BY <3>2, <3>3
  <2> HIDE DEF c, B
  <2> QED BY <1>9, <2>1, <2>3, <2>4, <2>5, <2>6 DEF Answers
<1>23. Catching'
  <2>1. AtMostOne(OfKind(up', "sync")) /\ AtMostOne(OfKind(down', "done"))
    BY <1>3, <1>16 DEF AtMostOne
  <2>2. page'.syncing /\ link' = "open"
    BY <1>0, <1>2 DEF Catching
  <2>3. \A i \in OfKind(down', "done") : Base(down'[i].since, c, known, OnWay')
    BY <1>9, <1>16, <1>21
  <2> QED BY <1>0, <1>3, <1>22, <2>1, <2>2, <2>3 DEF Catching
<1> QED BY <1>19, <1>20, <1>23

(***************************************************************************)
(* Together.                                                               *)
(***************************************************************************)

LEMMA CatchInit == ClientInit => CatchInv
<1> SUFFICES ASSUME ClientInit PROVE CursorInv /\ RisingInv /\ Quiet
  BY DEF CatchInv
<1>1. /\ server.inst = 1 /\ server.max = 0 /\ server.outbox = <<>> /\ up = <<>> /\ down = <<>>
      /\ page.cursor = [inst |-> 0, seq |-> 0] /\ page.seen = 0 /\ page.buffer = <<>>
      /\ ~page.syncing /\ ~page.retrying /\ known = {} /\ link = "closed"
  BY DEF ClientInit, PageInit, NoInstance
<1>2. OnWay = {}
  <2>1. OfKind(down, "room") = {} /\ Range(server.outbox) = {} /\ Range(page.buffer) = {}
    BY <1>1, NothingComing
  <2> QED BY <2>1 DEF OnWay, Coming
<1>3. OfKind(up, "sync") = {} /\ OfKind(down, "done") = {} /\ RisingIn(down, server.outbox)
  BY <1>1, NothingComing
<1>4. Base(0, 0, {}, {})
  BY DEF Base
<1> QED BY <1>1, <1>2, <1>3, <1>4 DEF CursorInv, RisingInv, Quiet

LEMMA CatchStep ==
    ASSUME ClientTypes, CatchInv, [ClientNext]_clientVars
    PROVE  CatchInv'
<1>1. CASE broken'
  BY <1>1 DEF CatchInv
<1>2. CASE SyncTimeout \/ SyncRefused \/ ReceiveOverflow \/ RestartServer
  <2>1. broken'
    BY <1>2 DEF SyncTimeout, SyncRefused, ReceiveOverflow, RestartServer
  <2> QED BY <1>1, <2>1
<1>3. CASE RetrySync
  <2>1. broken' = broken /\ page.retrying
    BY <1>3 DEF RetrySync
  <2> QED BY <1>1, <2>1 DEF CatchInv, CursorInv
<1>4. CASE UNCHANGED clientVars
  <2>1. PageKept /\ ServerKept /\ UNCHANGED <<up, down, link, known, broken>>
    BY <1>4 DEF clientVars, PageKept, ServerKept
  <2> QED BY <2>1, Sideways, NothingReceived, NothingAsked
<1>5. CASE Connect \/ Disconnect \/ OnClose
  BY <1>5, LinkStep
<1>6. CASE \/ AckTimeout \/ BackOffOver \/ SendMessage \/ ReceiveAck
           \/ HandleMessage \/ GateShuts \/ GateOpens
  BY <1>6, AsideStep
<1>7. CASE PublishToRoom
  BY <1>7, RoomPublishStep
<1>8. CASE DeliverLive
  BY <1>8, FrameDeliverStep
<1>9. CASE ReceiveLive
  BY <1>9, LiveStep
<1>10. CASE ReceiveBuffered
  BY <1>10, BufferedStep
<1>11. CASE SyncDone
  BY <1>11, DoneStep
<1>12. CASE SyncBusy
  BY <1>12, BusyStep
<1>13. CASE HandleSync
  BY <1>13, ReplayStep
<1> QED BY <1>2, <1>3, <1>4, <1>5, <1>6, <1>7, <1>8, <1>9, <1>10, <1>11, <1>12, <1>13
        DEF ClientNext, PageHandler, PageTimer, ServerHandler

(* The page's and the server's state have the types the code keeps them in: the cursor
   and the buffer hold numbers the room has given out, the buffer is never above its
   limit, and a message is not sent more often than allowed.  (chat.html, handleSync) *)
THEOREM ClientTypeCorrect == ClientSafety => []ClientTypeOK
<1>1. ClientTypes => ClientTypeOK
  <2> SUFFICES ASSUME ClientTypes PROVE ClientTypeOK
    OBVIOUS
  <2>1. page \in Pages /\ page.pending \in PendingSet /\ page.cursor.seq \in Numbers
        /\ page.seen \in Numbers /\ server.max \in Numbers
    BY DEF ClientTypes, Pages
  <2>2. conns \in 0 .. MaxPageConns /\ gates \in 0 .. MaxPageGates
    BY DEF ClientTypes
  <2>3. conns <= MaxPageConns /\ gates <= MaxPageGates
    BY <2>2, ClientAssumption
  <2>4. page.pending.attempts <= MaxSendAttempts
        /\ page.pending.timer \in {"none", "ack", "backoff"}
    BY <2>1, ClientAssumption DEF PendingSet
  <2>5. Len(page.buffer) <= MaxSyncBuffer /\ known \subseteq 1 .. MaxRoomNumber
    BY DEF ClientTypes
  <2> QED BY <2>1, <2>3, <2>4, <2>5, BufferIs DEF ClientTypeOK, Numbers
<1> QED BY <1>1, ClientTypesInit, ClientTypesStep, PTL DEF ClientSafety

(* An answer to a catching up never claims more than was sent, and as long as none was
   refused, cut off or put off and the server goes on, the page's cursor has not passed
   a number that it has neither shown nor been told it may miss: whatever the gate
   skipped, however many connections and catchings up overlap with new messages, and
   whatever was buffered meanwhile.  (handleSync; chat.html beginSync, handleSyncDone) *)
THEOREM CatchingUpIsHonest == ClientSafety => []CatchUpHonest
<1> DEFINE Inv == ClientTypes /\ CatchInv /\ SyncHonest
<1>1. ClientInit => Inv
  <2> SUFFICES ASSUME ClientInit PROVE SyncHonest
    BY ClientTypesInit, CatchInit
  <2>1. DOMAIN down = {}
    BY DEF ClientInit
  <2> QED BY <2>1 DEF SyncHonest
<1>2. Inv /\ [ClientNext]_clientVars => Inv'
  BY ClientTypesStep, CatchStep, HonestStep
<1>3. Inv => CatchUpHonest
  <2> SUFFICES ASSUME Inv, ~broken, CaughtUp PROVE Skipped = {}
    BY DEF CatchUpHonest, CursorKeepsGapsUndisturbed
  <2>1. Base(page.cursor.seq, page.cursor.seq, known, OnWay)
    BY DEF CatchInv, CaughtUp, Quiet, Catching
  <2> QED BY <2>1 DEF Skipped, Base
<1> HIDE DEF Inv
<1> QED BY <1>1, <1>2, <1>3, PTL DEF ClientSafety
=============================================================================

---------------------------- MODULE MessageRate ----------------------------
(***************************************************************************)
(* The token bucket of a connection (ws_controllers/ChatWebsocket.h,       *)
(* Subscriber::allowMessage) and what handleNewMessage does with a client  *)
(* that runs out of it.  The bucket is filled only when it is empty: while *)
(* there are tokens the clock is not read.                                 *)
(*                                                                         *)
(* Time is in ticks; Rate tokens come in PerTicks ticks (one second in the *)
(* code, which computes with nanoseconds and the same integer divisions).  *)
(***************************************************************************)
EXTENDS Integers, FiniteSets, FiniteSetsExt

CONSTANTS
    Rate, PerTicks,     \* maxMsgsPerSec in one second
    Burst,              \* msgBurst
    MaxViolations,      \* refusals in a row after which the connection is closed
    MaxTicks,           \* bound: ticks
    MaxSendsPerTick     \* bound: messages a client sends in one tick

ASSUME RateAssumption ==
    /\ Rate \in Nat \ {0} /\ PerTicks \in Nat \ {0} /\ Burst \in Nat
    /\ MaxViolations \in Nat \ {0} /\ MaxTicks \in Nat \ {0} /\ MaxSendsPerTick \in Nat

VARIABLES
    tick,       \* the clock; it begins at 1, as 0 means "never" to the code
    tokens, filledAt,   \* rateTokens_, rateLastNanos_
    violations, \* consecutiveRateViolations_
    closedForRate,
    \* history: messages sent in this tick; messages let through until the end of each
    \* tick; the first and the last refusal since one was let through
    sends, let, refusedFirst, refusedLast

rateVars == <<tick, tokens, filledAt, violations, closedForRate, sends, let, refusedFirst,
              refusedLast>>

RateInit ==
    /\ tick = 1 /\ tokens = 0 /\ filledAt = 0 /\ violations = 0 /\ closedForRate = FALSE
    /\ sends = 0 /\ let = [t \in 0 .. MaxTicks |-> 0] /\ refusedFirst = 0 /\ refusedLast = 0

Capacity == Max({Burst, 1})

\* The first message finds a full bucket.
FirstSeen == filledAt = 0
Tokens == IF FirstSeen THEN Capacity ELSE tokens
FilledAt == IF FirstSeen THEN tick ELSE filledAt

Refill == ((tick - FilledAt) * Rate) \div PerTicks
TimeOf(n) == (n * PerTicks) \div Rate

Fill(n) == Min({Capacity, n})

Lets ==
    /\ violations' = 0
    /\ let' = [t \in 0 .. MaxTicks |-> IF t < tick THEN let[t] ELSE let[t] + 1]
    /\ refusedFirst' = 0 /\ refusedLast' = 0
    /\ UNCHANGED closedForRate

Sends == ~closedForRate /\ sends < MaxSendsPerTick /\ sends' = sends + 1

\* A token is there: the clock is not read.
AllowFromBucket ==
    /\ Sends /\ Tokens > 0
    /\ tokens' = Tokens - 1 /\ filledAt' = FilledAt
    /\ Lets
    /\ UNCHANGED tick

\* The bucket is empty and time has brought at least one token.
AllowRefilled ==
    /\ Sends /\ Tokens <= 0 /\ Refill > 0
    /\ tokens' = Fill(Refill) - 1
    /\ filledAt' = FilledAt + TimeOf(Refill)
    /\ Lets
    /\ UNCHANGED tick

RefuseForgetful ==      \* mutant: a refusal starts the clock again
    /\ Sends /\ Tokens <= 0 /\ Refill <= 0
    /\ tokens' = Tokens /\ filledAt' = tick
    /\ violations' = violations + 1
    /\ closedForRate' = (violations' >= MaxViolations)
    /\ refusedFirst' = (IF refusedFirst = 0 THEN tick ELSE refusedFirst)
    /\ refusedLast' = tick
    /\ UNCHANGED <<tick, let>>

\* 429, or a closed connection when that goes on.  The moment of the last fill
\* stays: what time has brought so far is kept.
Refuse ==
    /\ Sends /\ Tokens <= 0 /\ Refill <= 0
    /\ tokens' = Tokens /\ filledAt' = FilledAt
    /\ violations' = violations + 1
    /\ closedForRate' = (violations' >= MaxViolations)
    /\ refusedFirst' = (IF refusedFirst = 0 THEN tick ELSE refusedFirst)
    /\ refusedLast' = tick
    /\ UNCHANGED <<tick, let>>

Tick ==
    /\ tick < MaxTicks
    /\ tick' = tick + 1 /\ sends' = 0
    /\ UNCHANGED <<tokens, filledAt, violations, closedForRate, let, refusedFirst, refusedLast>>

RateNext == AllowFromBucket \/ AllowRefilled \/ Refuse \/ Tick

RateSpec == RateInit /\ [][RateNext]_rateVars

-----------------------------------------------------------------------------
(* Properties *)

RateTypeOK ==
    /\ tick \in 1 .. MaxTicks /\ tokens \in 0 .. Capacity /\ filledAt \in 0 .. tick
    /\ violations \in 0 .. MaxViolations

LetIn(s, t) == let[t] - let[s - 1]

\* No stretch of time lets more through than two bursts and one message for every
\* TimeOf(1).  (Two, not one: a bucket left half full stays as it is, and when it is
\* empty at last the whole idle time fills it once more.  TimeOf(1), which may be
\* less than the time of a token: the moment of the last fill moves by whole ticks.)
RateHeld == \A s \in 1 .. tick : \A t \in s .. tick :
    (LetIn(s, t) - 2 * Capacity) * TimeOf(1) <= t - s + 1

\* A client is refused for less than the time of one token, however often it
\* tries: who is a little too fast loses single messages, and only a flood -
\* MaxViolations messages in that time - is cut off.
\* (the comment in the branch without a refill)
OnlyFloodsCutOff == (refusedLast - refusedFirst) * Rate < PerTicks

\* Neither too much is let through nor too little.  (allowMessage)
RateFair == RateHeld /\ OnlyFloodsCutOff
=============================================================================

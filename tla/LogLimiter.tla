----------------------------- MODULE LogLimiter -----------------------------
(***************************************************************************)
(* A rate-limited log line (utils/RateLimitedLog.h): threads race for the  *)
(* right to write it, the losers are counted, the line carries the count,  *)
(* and a timer (flushRateLimiterTails, ws_controllers/ChatWebsocket.cc)    *)
(* reports what is left when a burst is over.                              *)
(***************************************************************************)
EXTENDS Integers, FiniteSets

CONSTANTS
    Loggers,                    \* threads
    Interval,                   \* intervalNs_, in ticks
    MaxLogTime, MaxOccurrences  \* bounds

ASSUME LimiterAssumption ==
    /\ Interval \in Nat \ {0} /\ MaxLogTime \in Nat /\ MaxLogTime >= Interval
    /\ MaxOccurrences \in Nat

VARIABLES
    logTime,        \* the steady clock; starts past the interval
    lastLine,       \* last_
    suppressed,     \* suppressed_
    logging,        \* thread -> where it is in allow() and what it has read
    flushing,       \* the timer holds a count it has taken and not yet written
    occurrences,    \* history: times something happened that deserves a line
    reported        \* history: occurrences the lines written so far speak of

limiterVars == <<logTime, lastLine, suppressed, logging, flushing, occurrences, reported>>

NotLogging == [at |-> "away"]

LimiterInit ==
    /\ logTime = Interval /\ lastLine = 0 /\ suppressed = 0
    /\ logging = [t \in Loggers |-> NotLogging] /\ flushing = 0
    /\ occurrences = 0 /\ reported = 0

LogTick ==
    /\ logTime < MaxLogTime
    /\ logTime' = logTime + 1
    /\ UNCHANGED <<lastLine, suppressed, logging, flushing, occurrences, reported>>

\* allow(): the clock first, then last_.
AllowReadsClock(t) ==
    /\ logging[t] = NotLogging /\ occurrences < MaxOccurrences
    /\ occurrences' = occurrences + 1
    /\ logging' = [logging EXCEPT ![t] = [at |-> "clock", now |-> logTime]]
    /\ UNCHANGED <<logTime, lastLine, suppressed, flushing, reported>>

AllowReadsLast(t) ==
    /\ logging[t].at = "clock"
    /\ LET now == logging[t].now
       IN  logging' = [logging EXCEPT ![t] =
               IF now - lastLine < Interval THEN [at |-> "refused"]
                                            ELSE [at |-> "race", now |-> now, last |-> lastLine]]
    /\ UNCHANGED <<logTime, lastLine, suppressed, flushing, occurrences, reported>>

RaceUncounted(t) ==             \* mutant: who loses the race is not counted
    /\ logging[t].at = "race"
    /\ IF lastLine = logging[t].last
         THEN /\ lastLine' = logging[t].now
              /\ logging' = [logging EXCEPT ![t] = [at |-> "allowed"]]
         ELSE /\ logging' = [logging EXCEPT ![t] = NotLogging]
              /\ UNCHANGED lastLine
    /\ UNCHANGED <<logTime, suppressed, flushing, occurrences, reported>>

\* The compare-and-swap on last_: one thread wins, the others are refused.
Race(t) ==
    /\ logging[t].at = "race"
    /\ IF lastLine = logging[t].last
         THEN /\ lastLine' = logging[t].now
              /\ logging' = [logging EXCEPT ![t] = [at |-> "allowed"]]
         ELSE /\ logging' = [logging EXCEPT ![t] = [at |-> "refused"]]
              /\ UNCHANGED lastLine
    /\ UNCHANGED <<logTime, suppressed, flushing, occurrences, reported>>

Refused(t) ==
    /\ logging[t].at = "refused"
    /\ suppressed' = suppressed + 1
    /\ logging' = [logging EXCEPT ![t] = NotLogging]
    /\ UNCHANGED <<logTime, lastLine, flushing, occurrences, reported>>

\* takeSuppressed, and the line "1 + n occurrence(s)".
WriteLine(t) ==
    /\ logging[t].at = "allowed"
    /\ reported' = reported + 1 + suppressed
    /\ suppressed' = 0
    /\ logging' = [logging EXCEPT ![t] = NotLogging]
    /\ UNCHANGED <<logTime, lastLine, flushing, occurrences>>

\* The timer, every five seconds: takeAllSuppressed, then a line for what is not 0.
FlushTakes ==
    /\ flushing = 0 /\ suppressed # 0
    /\ flushing' = suppressed /\ suppressed' = 0
    /\ UNCHANGED <<logTime, lastLine, logging, occurrences, reported>>

FlushWrites ==
    /\ flushing # 0
    /\ reported' = reported + flushing /\ flushing' = 0
    /\ UNCHANGED <<logTime, lastLine, suppressed, logging, occurrences>>

Allow(t) == AllowReadsLast(t) \/ Race(t) \/ Refused(t) \/ WriteLine(t)
FlushTails == FlushTakes \/ FlushWrites

LimiterNext ==
    \/ LogTick \/ FlushTails
    \/ \E t \in Loggers : AllowReadsClock(t) \/ Allow(t)

\* A call that has begun ends, and the timer goes on.
LimiterSafety == LimiterInit /\ [][LimiterNext]_limiterVars
LimiterSpec ==
    /\ LimiterSafety
    /\ WF_limiterVars(FlushTails) /\ \A t \in Loggers : WF_limiterVars(Allow(t))

-----------------------------------------------------------------------------
(* Properties *)

LimiterTypeOK ==
    /\ suppressed \in Nat /\ flushing \in Nat /\ lastLine \in 0 .. MaxLogTime
    /\ reported \in 0 .. occurrences

\* Sooner or later the lines speak of every occurrence, however the threads raced
\* and although no further line may ever be allowed.  (RateLimitedLog.h: the tail of
\* a burst used to be lost)
EveryOccurrenceReported == []<>(reported = occurrences)
=============================================================================

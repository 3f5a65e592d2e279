----------------------------- MODULE MessageIds -----------------------------
(***************************************************************************)
(* The message numbers of one instance (utils/SnowflakeId.h): threads take *)
(* an id with a compare-and-swap on (millisecond, sequence), the clock may *)
(* be set back at any time, a restart forgets the state.                   *)
(*                                                                         *)
(* Ids of other instances differ in the slot bits as long as               *)
(* LOONG_INSTANCE_ID is given out without repetition; the slot is left out *)
(* of the ids here.                                                        *)
(***************************************************************************)
EXTENDS Integers, Sequences, FiniteSets, SequencesExt

CONSTANTS
    IdThreads,
    SeqLimit,               \* 4096: ids of a millisecond
    MaxClock, MaxIds, MaxRestarts   \* bounds

ASSUME IdsAssumption == SeqLimit \in Nat \ {0} /\ MaxClock \in Nat /\ MaxIds \in Nat

VARIABLES
    clock,          \* what system_clock says
    idState,        \* state: the last id given out, as a number
    calling,        \* caller -> the clock and the state it has read
    issued,         \* history: the ids of this life, in order
    earlierIds,     \* history: those of earlier lives
    restarts,
    overtaken       \* history: a life read a clock that was not past an id of an earlier one

idVars == <<clock, idState, calling, issued, earlierIds, restarts, overtaken>>

NotCalling == [at |-> "away"]

IdsInit ==
    /\ clock \in 0 .. MaxClock
    /\ idState = 0
    /\ calling = [c \in IdThreads |-> NotCalling]
    /\ issued = <<>> /\ earlierIds = {} /\ restarts = 0 /\ overtaken = FALSE

\* The wall clock goes anywhere.
ClockSet(t) ==
    /\ clock # t /\ clock' = t
    /\ UNCHANGED <<idState, calling, issued, earlierIds, restarts, overtaken>>

ReadClock(c) ==
    /\ calling[c] = NotCalling /\ Len(issued) + Cardinality(earlierIds) < MaxIds
    /\ calling' = [calling EXCEPT ![c] = [at |-> "read", now |-> clock]]
    /\ overtaken' = (overtaken \/ \E id \in earlierIds : clock <= id \div SeqLimit)
    /\ UNCHANGED <<clock, idState, issued, earlierIds, restarts>>

ReadState(c) ==
    /\ calling[c].at = "read"
    /\ calling' = [calling EXCEPT ![c] = [at |-> "swap", now |-> calling[c].now, old |-> idState]]
    /\ UNCHANGED <<clock, idState, issued, earlierIds, restarts, overtaken>>

NextStateTrusting(old, now) ==      \* mutant: the clock is believed when it goes back
    IF now = old \div SeqLimit THEN old + 1 ELSE now * SeqLimit

\* A later millisecond starts at sequence 0; otherwise the next number, which past the
\* last sequence is the first of the next millisecond.
NextState(old, now) ==
    IF now > old \div SeqLimit THEN now * SeqLimit ELSE old + 1

\* A swap that fails (also without cause: it is the weak form) has read the state
\* again; the clock is the one read before the first attempt.
Swap(c) ==
    /\ calling[c].at = "swap"
    /\ \/ /\ calling[c].old = idState
          /\ idState' = NextState(idState, calling[c].now)
          /\ issued' = Append(issued, idState')
          /\ calling' = [calling EXCEPT ![c] = NotCalling]
       \/ /\ calling' = [calling EXCEPT ![c].old = idState]
          /\ UNCHANGED <<idState, issued>>
    /\ UNCHANGED <<clock, earlierIds, restarts, overtaken>>

RestartProcess ==
    /\ restarts < MaxRestarts
    /\ restarts' = restarts + 1
    /\ idState' = 0 /\ issued' = <<>>
    /\ earlierIds' = earlierIds \cup ToSet(issued)
    /\ calling' = [c \in IdThreads |-> NotCalling]
    /\ UNCHANGED <<clock, overtaken>>

IdsNext ==
    \/ \E c \in IdThreads : ReadClock(c) \/ ReadState(c) \/ Swap(c)
    \/ \E t \in 0 .. MaxClock : ClockSet(t)
    \/ RestartProcess

IdsSpec == IdsInit /\ [][IdsNext]_idVars

-----------------------------------------------------------------------------
(* Properties *)

IdsTypeOK ==
    /\ clock \in 0 .. MaxClock /\ idState \in Nat
    /\ \A n \in DOMAIN issued : issued[n] \in Nat
    /\ overtaken \in BOOLEAN

\* The ids of an instance rise strictly whatever the clock does and however its
\* threads race, and no id is given out twice in all its lives as long as each life
\* finds the clock past the ids of the ones before.  (SnowflakeId.h: a repeated id is
\* worse than an inexact one)
IdsRise ==
    /\ \A m, n \in DOMAIN issued : m < n => issued[m] < issued[n]
    /\ ~overtaken => \A n \in DOMAIN issued : issued[n] \notin earlierIds
=============================================================================

------------------------------ MODULE BusProbe ------------------------------
(***************************************************************************)
(* Whether the cluster bus is alive (ws_controllers/ChatWebsocket.cc,      *)
(* initClusterBus and probeClusterBus).  Redis tells a client nothing of a *)
(* subscription that is gone, so every instance publishes a probe on each  *)
(* round of its timer and listens for its own echo.  The flag decides what *)
(* the sender of a message to a user who is not here is told: 404, or 200  *)
(* because some other instance may have him.                               *)
(*                                                                         *)
(* Time is counted in rounds of the timer.  An echo after which n rounds   *)
(* have passed is more than n - 1 and at most n periods old, so "older     *)
(* than DeadRounds periods" is first seen in round DeadRounds + 1.         *)
(***************************************************************************)
EXTENDS Integers

CONSTANTS
    DeadRounds,     \* kDeadNanos / kPeriodNanos
    MaxProbesOut,   \* bound: probes under way
    MaxOutage       \* bound: rounds of an outage that are counted

ASSUME ProbeAssumption ==
    /\ DeadRounds \in Nat /\ MaxProbesOut \in Nat \ {0}
    /\ MaxOutage \in Nat /\ MaxOutage > DeadRounds + 1

VARIABLES
    stage,      \* "new", "standalone" (no subscription), "subscribed"
    busReady,   \* clusterBusReady
    echoAge,    \* rounds since lastBusEchoNanos was set; Never while it is 0
    linkUp,     \* Redis forwards to this instance what it publishes
    probesOut,  \* probes under way
    outage      \* history: rounds since the link went down

probeVars == <<stage, busReady, echoAge, linkUp, probesOut, outage>>

Never == -1
AtMost(n, bound) == IF n < bound THEN n ELSE bound

ProbeInit ==
    /\ stage = "new" /\ busReady = FALSE /\ echoAge = Never
    /\ linkUp \in BOOLEAN /\ probesOut = 0 /\ outage = 0

\* The subscription could be made: that is no proof that anything arrives.
BusStarts ==
    /\ stage = "new"
    /\ stage' = "subscribed" /\ busReady' = TRUE
    /\ UNCHANGED <<echoAge, linkUp, probesOut, outage>>

\* No Redis client, or an exception.
BusStartFails ==
    /\ stage = "new"
    /\ stage' = "standalone"
    /\ UNCHANGED <<busReady, echoAge, linkUp, probesOut, outage>>

Older(age) == IF age = Never THEN Never ELSE AtMost(age + 1, DeadRounds + 1)
Dead(age) == age > DeadRounds

\* A probe that is published while the link is down may wait in the client's
\* buffer or be lost.
PublishProbe ==
    probesOut' \in {AtMost(probesOut + 1, MaxProbesOut)}
                   \cup (IF linkUp THEN {} ELSE {probesOut})

ProbeRoundGivesUp ==        \* mutant: no probe once the bus was judged dead
    /\ stage # "new"
    /\ echoAge' = Older(echoAge)
    /\ busReady' = (busReady /\ ~Dead(echoAge'))
    /\ IF Dead(echoAge') THEN UNCHANGED probesOut ELSE PublishProbe
    /\ outage' = IF linkUp THEN 0 ELSE AtMost(outage + 1, MaxOutage)
    /\ UNCHANGED <<stage, linkUp>>

\* Judge first, then probe, also a bus that is dead.
ProbeRound ==
    /\ stage # "new"
    /\ echoAge' = Older(echoAge)
    /\ busReady' = (busReady /\ ~Dead(echoAge'))
    /\ PublishProbe
    /\ outage' = IF linkUp THEN 0 ELSE AtMost(outage + 1, MaxOutage)
    /\ UNCHANGED <<stage, linkUp>>

\* The own probe comes back.
Echo ==
    /\ stage = "subscribed" /\ linkUp /\ probesOut > 0
    /\ probesOut' = probesOut - 1
    /\ echoAge' = 0 /\ busReady' = TRUE
    /\ UNCHANGED <<stage, linkUp, outage>>

\* What was under way may be lost.
LinkDown ==
    /\ linkUp
    /\ linkUp' = FALSE
    /\ probesOut' \in 0 .. probesOut
    /\ outage' = 0
    /\ UNCHANGED <<stage, busReady, echoAge>>

\* The Redis client connects and subscribes again by itself.
LinkUp ==
    /\ ~linkUp
    /\ linkUp' = TRUE /\ outage' = 0
    /\ UNCHANGED <<stage, busReady, echoAge, probesOut>>

ProbeNext == BusStarts \/ BusStartFails \/ ProbeRound \/ Echo \/ LinkDown \/ LinkUp

\* The timer fires and what Redis forwards is handled; the link owes nothing.
ProbeSafety == ProbeInit /\ [][ProbeNext]_probeVars
ProbeSpec == ProbeSafety /\ WF_probeVars(ProbeRound) /\ WF_probeVars(Echo)

-----------------------------------------------------------------------------
(* Properties *)

ProbeTypeOK ==
    /\ stage \in {"new", "standalone", "subscribed"}
    /\ busReady \in BOOLEAN /\ linkUp \in BOOLEAN
    /\ echoAge \in Never .. DeadRounds + 1
    /\ probesOut \in 0 .. MaxProbesOut /\ outage \in 0 .. MaxOutage

\* A sender is told 200 on the word of a dead bus for at most DeadRounds rounds
\* after the link went, whatever came back late; an instance without a
\* subscription never says so.  An instance that has never heard an echo is the
\* exception the code makes.  (probeClusterBus, clusterBusReady)
FakeAcksBounded == busReady =>
    /\ stage = "subscribed"
    /\ outage <= DeadRounds \/ echoAge = Never

\* A bus judged dead is used again once the link is back.  (probes go on after
\* the verdict; the echo sets the flag)
BusRevives == []<>(busReady \/ ~linkUp \/ stage # "subscribed")

\* Both: the bus is judged dead in time and alive again in the end.
BusJudged == []FakeAcksBounded /\ BusRevives
=============================================================================

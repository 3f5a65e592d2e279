---------------------------- MODULE ChatSessions ----------------------------
(***************************************************************************)
(* The life of a chat connection (ws_controllers/ChatWebsocket.cc:         *)
(* handleNewConnection, handleConnectionClosed) and what the five-second   *)
(* timer does with it: evicting silent connections and opening the gates   *)
(* of connections that were congested.                                     *)
(*                                                                         *)
(* The two handlers of a connection run on its IO loop, one after the      *)
(* other; each step below is one hold of a lock or one call that may       *)
(* throw.  The high-water mark callback runs on the same loop between      *)
(* them; the timer runs on the main loop and works on a copy of the table. *)
(***************************************************************************)
EXTENDS Integers, FiniteSets, Functions

CONSTANTS
    Conns,
    UserNames, UserOf,      \* the name a connection gives; names need not be unique
    RoomCap                 \* maxSubscribersPerRoom

ASSUME SessionsAssumption ==
    /\ UserOf \in [Conns -> UserNames]
    /\ RoomCap \in Nat

VARIABLES
    life,       \* how far the handlers of a connection have come
    cut,        \* the connection is closed or being closed
    listed,     \* userNameToConn: name -> its sessions
    members,    \* subscribers of the room
    silent,     \* no frame came for 60 seconds
    gateShut,   \* the gate of the connection's Subscriber
    congestedAt,    \* lastCongestedNanos_: "never", "lately", "past" (congestionClearMs ago)
    timer       \* the timer's round: what it is doing and the rest of its copy

sessVars == <<life, cut, listed, members, silent, gateShut, congestedAt, timer>>

Resting == [at |-> "rest", left |-> {}, now |-> "none"]

SessInit ==
    /\ life = [c \in Conns |-> "away"]
    /\ cut = {}
    /\ listed = [u \in UserNames |-> {}]
    /\ members = {}
    /\ silent = {}
    /\ gateShut = {} /\ congestedAt = [c \in Conns |-> "never"]
    /\ timer = Resting

-----------------------------------------------------------------------------
(* handleNewConnection *)

Becomes(c, stage) == life' = [life EXCEPT ![c] = stage]
Listed == UNION {listed[u] : u \in UserNames}
HasContext(c) == life[c] \notin {"away", "bare", "gone"}
ForceClose(c) == cut' = cut \cup {c}

\* setContext, installConnectionHighWaterMark, recordWsConnect.
Opens(c) ==
    /\ life[c] = "away"
    /\ Becomes(c, "context")
    /\ UNCHANGED <<cut, listed, members, silent, gateShut, congestedAt, timer>>

\* An exception before there is a context.
OpensBare(c) ==
    /\ life[c] = "away"
    /\ Becomes(c, "bare") /\ ForceClose(c)
    /\ UNCHANGED <<listed, members, silent, gateShut, congestedAt, timer>>

EntersTable(c) ==
    /\ life[c] = "context"
    /\ listed' = [listed EXCEPT ![UserOf[c]] = @ \cup {c}]
    /\ Becomes(c, "listed")
    /\ UNCHANGED <<cut, members, silent, gateShut, congestedAt, timer>>

SubscribesOverfull(c) ==    \* mutant: the room's limit is not looked at
    /\ life[c] = "listed"
    /\ members' = members \cup {c}
    /\ Becomes(c, "subscribed")
    /\ UNCHANGED <<cut, listed, silent, gateShut, congestedAt, timer>>

Subscribes(c) ==
    /\ life[c] = "listed" /\ Cardinality(members) < RoomCap
    /\ members' = members \cup {c}
    /\ Becomes(c, "subscribed")
    /\ UNCHANGED <<cut, listed, silent, gateShut, congestedAt, timer>>

\* The room is full: a notice and a close frame; nothing else is undone here.
RoomFull(c) ==
    /\ life[c] = "listed" /\ Cardinality(members) >= RoomCap
    /\ Becomes(c, "open")
    /\ UNCHANGED <<cut, listed, members, silent, gateShut, congestedAt, timer>>

\* loop_, room_, the join notice (which the room may refuse).
Joins(c) ==
    /\ life[c] = "subscribed"
    /\ Becomes(c, "open")
    /\ UNCHANGED <<cut, listed, members, silent, gateShut, congestedAt, timer>>

\* An exception on the way: the connection is closed, whatever was done.
OpeningFails(c) ==
    /\ life[c] \in {"context", "listed", "subscribed"}
    /\ Becomes(c, "open") /\ ForceClose(c)
    /\ UNCHANGED <<listed, members, silent, gateShut, congestedAt, timer>>

-----------------------------------------------------------------------------
(* handleConnectionClosed *)

\* The peer goes, or what it does is answered with a close.
PeerCloses(c) ==
    /\ life[c] = "open" /\ c \notin cut
    /\ ForceClose(c)
    /\ UNCHANGED <<life, listed, members, silent, gateShut, congestedAt, timer>>

ClosesBare(c) ==
    /\ life[c] = "bare" /\ c \in cut
    /\ Becomes(c, "gone")
    /\ UNCHANGED <<cut, listed, members, silent, gateShut, congestedAt, timer>>

LeavesTableByName(c) ==     \* mutant: all sessions of that name are erased
    /\ life[c] = "open" /\ c \in cut
    /\ listed' = [listed EXCEPT ![UserOf[c]] = {}]
    /\ Becomes(c, "leaving")
    /\ UNCHANGED <<cut, members, silent, gateShut, congestedAt, timer>>

\* This connection's session only.
LeavesTable(c) ==
    /\ life[c] = "open" /\ c \in cut
    /\ listed' = [listed EXCEPT ![UserOf[c]] = @ \ {c}]
    /\ Becomes(c, "leaving")
    /\ UNCHANGED <<cut, members, silent, gateShut, congestedAt, timer>>

\* recordWsDisconnect, unsubscribe, the leave notice; with the connection goes its
\* Subscriber (the timer may hold it a while longer, to no effect).
LeavesRoom(c) ==
    /\ life[c] = "leaving"
    /\ members' = members \ {c}
    /\ silent' = silent \ {c} /\ gateShut' = gateShut \ {c}
    /\ congestedAt' = [congestedAt EXCEPT ![c] = "never"]
    /\ Becomes(c, "gone")
    /\ UNCHANGED <<cut, listed, timer>>

-----------------------------------------------------------------------------
(* What comes in, and the high-water mark *)

\* Any frame: touch().
Frame(c) ==
    /\ life[c] = "open" /\ c \notin cut /\ c \in silent
    /\ silent' = silent \ {c}
    /\ UNCHANGED <<life, cut, listed, members, gateShut, congestedAt, timer>>

FallsSilent(c) ==
    /\ HasContext(c) /\ c \notin silent
    /\ silent' = silent \cup {c}
    /\ UNCHANGED <<life, cut, listed, members, gateShut, congestedAt, timer>>

HighWaterUntimed(c) ==      \* mutant: the moment is not noted
    /\ HasContext(c)
    /\ gateShut' = gateShut \cup {c}
    /\ UNCHANGED <<life, cut, listed, members, silent, congestedAt, timer>>

\* The connection's buffer is over the mark while something is written to it.
HighWater(c) ==
    /\ HasContext(c)
    /\ gateShut' = gateShut \cup {c}
    /\ congestedAt' = [congestedAt EXCEPT ![c] = "lately"]
    /\ UNCHANGED <<life, cut, listed, members, silent, timer>>

\* congestionClearMs without a callback.
CalmsDown(c) ==
    /\ congestedAt[c] = "lately"
    /\ congestedAt' = [congestedAt EXCEPT ![c] = "past"]
    /\ UNCHANGED <<life, cut, listed, members, silent, gateShut, timer>>

-----------------------------------------------------------------------------
(* The timer: checkAndEvictIdleConnections, then sweepConnectionFlow *)

EvictSnapshot ==
    /\ timer.at = "rest"
    /\ timer' = [at |-> "evict", left |-> Listed, now |-> "none"]
    /\ UNCHANGED <<life, cut, listed, members, silent, gateShut, congestedAt>>

EvictNext(c) ==
    /\ timer.at = "evict" /\ c \in timer.left
    /\ cut' = IF c \in silent THEN cut \cup {c} ELSE cut
    /\ timer' = [timer EXCEPT !.left = @ \ {c}]
    /\ UNCHANGED <<life, listed, members, silent, gateShut, congestedAt>>

SweepSnapshot ==
    /\ timer.at = "evict" /\ timer.left = {}
    /\ timer' = [at |-> "sweep", left |-> Listed, now |-> "none"]
    /\ UNCHANGED <<life, cut, listed, members, silent, gateShut, congestedAt>>

\* The gate and the moment are read; if the connection is calm its gate is
\* opened in a later step, whatever the callback did in between.
SweepReads(c) ==
    /\ timer.at = "sweep" /\ timer.now = "none" /\ c \in timer.left
    /\ timer' = [timer EXCEPT !.left = @ \ {c},
                              !.now = IF c \in gateShut /\ congestedAt[c] = "past" THEN c ELSE "none"]
    /\ UNCHANGED <<life, cut, listed, members, silent, gateShut, congestedAt>>

SweepOpens ==
    /\ timer.now # "none"
    /\ gateShut' = gateShut \ {timer.now}
    /\ timer' = [timer EXCEPT !.now = "none"]
    /\ UNCHANGED <<life, cut, listed, members, silent, congestedAt>>

TimerRests ==
    /\ timer.at = "sweep" /\ timer.left = {} /\ timer.now = "none"
    /\ timer' = Resting
    /\ UNCHANGED <<life, cut, listed, members, silent, gateShut, congestedAt>>

Handler(c) ==
    \/ Opens(c) \/ OpensBare(c)
    \/ EntersTable(c) \/ Subscribes(c) \/ RoomFull(c) \/ Joins(c) \/ OpeningFails(c)
    \/ ClosesBare(c) \/ LeavesTable(c) \/ LeavesRoom(c)
Timer ==
    \/ EvictSnapshot \/ SweepSnapshot \/ SweepOpens \/ TimerRests
    \/ \E c \in Conns : EvictNext(c) \/ SweepReads(c)

SessNext ==
    \/ \E c \in Conns :
        \/ Handler(c) \/ PeerCloses(c) \/ Frame(c) \/ FallsSilent(c)
        \/ HighWater(c) \/ CalmsDown(c)
    \/ Timer

\* The loops run, the timer fires, time passes; peers owe nothing.
SessFairness ==
    /\ WF_sessVars(Timer)
    /\ \A c \in Conns :
        /\ WF_sessVars(life[c] # "away" /\ Handler(c))
        /\ WF_sessVars(CalmsDown(c))

SessSafety == SessInit /\ [][SessNext]_sessVars
SessSpec == SessSafety /\ SessFairness

-----------------------------------------------------------------------------
(* Properties *)

SessTypeOK ==
    /\ life \in [Conns -> {"away", "bare", "context", "listed", "subscribed", "open",
                           "leaving", "gone"}]
    /\ cut \subseteq Conns /\ silent \subseteq Conns /\ gateShut \subseteq Conns
    /\ Cardinality(members) <= RoomCap
    /\ \A u \in UserNames : \A c \in listed[u] : UserOf[c] = u
    /\ timer.at \in {"rest", "evict", "sweep"} /\ timer.left \subseteq Conns

\* A connection that stays open can be found: by direct messages, the evictor
\* and the sweep; and one that is gone is neither found nor in a room, also when
\* two connections share a name or the opening was broken off half-way.
\* (handleNewConnection, handleConnectionClosed)
NeitherZombieNorGhost == \A c \in Conns :
    /\ life[c] = "open" /\ c \notin cut => c \in Listed
    /\ life[c] = "gone" => c \notin Listed /\ c \notin members

\* A connection that stays silent does not stay.  (checkAndEvictIdleConnections)
SilentLeave(c) == []<>(life[c] \in {"away", "gone"} \/ c \notin silent)

\* A gate does not stay shut over a connection that is open and calm.
\* (sweepConnectionFlow)
CalmGateOpens(c) ==
    []<>(c \notin gateShut \/ congestedAt[c] = "lately" \/ life[c] # "open" \/ c \in cut)

\* The timer reaches every connection, whatever comes and goes while it works off
\* its list.  (checkAndEvictIdleConnections, sweepConnectionFlow)
TimerKeepsUp == \A c \in Conns : SilentLeave(c) /\ CalmGateOpens(c)
=============================================================================

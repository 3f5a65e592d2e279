----------------------------- MODULE MCProcess ------------------------------
(* One TLC run for liveness and for the machinery of a process.  As in
   MCChatServer, mover says which of the parts moves in a behaviour; the fairness
   of each is its module's, asked for only where that part moves. *)
EXTENDS ChatSessions, BusProbe, RoomClient, PersistQueue, WorkerParking, LogLimiter, TLC

CONSTANTS u1, x1, x2, a1, a2, q1, q2

VARIABLE mover

MCUserOf == [c \in Conns |-> u1]
MCStripeOf == a1 :> q1 @@ a2 :> q2
MCMaxPerKey == a1 :> 2 @@ a2 :> 1

ProcessParts == {"sessions", "probe", "client", "queue", "parking", "log"}

ProcessInit ==
    /\ mover \in ProcessParts
    /\ SessInit /\ ProbeInit /\ ClientInit /\ QueueInit /\ ParkingInit /\ LimiterInit
    /\ mover # "probe" => linkUp

MovesAlone(p) == mover = p /\ UNCHANGED mover
SessionsMove == MovesAlone("sessions") /\ SessNext
    /\ UNCHANGED <<probeVars, clientVars, queueVars, parkingVars, limiterVars>>
ProbeMoves == MovesAlone("probe") /\ ProbeNext
    /\ UNCHANGED <<sessVars, clientVars, queueVars, parkingVars, limiterVars>>
PageMoves == MovesAlone("client") /\ ClientNext
    /\ UNCHANGED <<sessVars, probeVars, queueVars, parkingVars, limiterVars>>
QueueMoves == MovesAlone("queue") /\ QueueNext
    /\ UNCHANGED <<sessVars, probeVars, clientVars, parkingVars, limiterVars>>
ParkingMoves == MovesAlone("parking") /\ ParkingNext
    /\ UNCHANGED <<sessVars, probeVars, clientVars, queueVars, limiterVars>>
LogMoves == MovesAlone("log") /\ LimiterNext
    /\ UNCHANGED <<sessVars, probeVars, clientVars, queueVars, parkingVars>>

ProcessNext == SessionsMove \/ ProbeMoves \/ PageMoves \/ QueueMoves \/ ParkingMoves \/ LogMoves

processVars == <<sessVars, probeVars, clientVars, queueVars, parkingVars, limiterVars, mover>>

ProcessFairness ==
    /\ WF_sessVars(mover = "sessions" /\ Timer)
    /\ \A c \in Conns :
        /\ WF_sessVars(mover = "sessions" /\ life[c] # "away" /\ Handler(c))
        /\ WF_sessVars(mover = "sessions" /\ CalmsDown(c))
    /\ WF_probeVars(mover = "probe" /\ ProbeRound) /\ WF_probeVars(mover = "probe" /\ Echo)
    /\ WF_clientVars(mover = "client" /\ PageHandler)
    /\ WF_clientVars(mover = "client" /\ ServerHandler)
    /\ WF_clientVars(mover = "client" /\ SyncTimeout)
    /\ WF_clientVars(mover = "client" /\ RetrySync)
    /\ WF_clientVars(mover = "client" /\ AckTimeout)
    /\ WF_clientVars(mover = "client" /\ BackOffOver)
    /\ \A p \in Submitters : WF_queueVars(mover = "queue" /\ Submits(p))
    /\ \A s \in Stripes :
        /\ WF_queueVars(mover = "queue" /\ Worker(s))
        /\ WF_queueVars(mover = "queue" /\ StopStripe(s))
    /\ WF_queueVars(mover = "queue" /\ JoinWorkers)
    /\ \A w \in PoolWorkers : WF_parkingVars(mover = "parking" /\ PoolWorker(w))
    /\ \A p \in Publishers : WF_parkingVars(mover = "parking" /\ EnqueueNotify(p))
    /\ WF_limiterVars(mover = "log" /\ FlushTails)
    /\ \A t \in Loggers : WF_limiterVars(mover = "log" /\ Allow(t))

ProcessSpec == ProcessInit /\ [][ProcessNext]_processVars /\ ProcessFairness

\* Every variable of every mover is what its module says.
ProcessTypeOK ==
    /\ SessTypeOK /\ ProbeTypeOK /\ ClientTypeOK
    /\ QueueTypeOK /\ ParkingTypeOK /\ LimiterTypeOK
=============================================================================

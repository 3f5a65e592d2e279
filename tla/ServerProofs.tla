---------------------------- MODULE ServerProofs ----------------------------
(***************************************************************************)
(* The parts of MCChatServer and of MCProcess, each moving alone in a      *)
(* behaviour, are what their own modules specify: initial states are       *)
(* initial states of every part, and a step is a step of one part and      *)
(* leaves the variables of the others as they are (ServerIsItsParts,       *)
(* ProcessIsItsParts).  So what is proved of a part holds of the           *)
(* specification that TLC runs, and so do the type invariants and the      *)
(* promises of all parts together.                                         *)
(***************************************************************************)
EXTENDS MCChatServer, MCProcess, ClusterBusProofs, ChatProofs, ProcessProofs, RoomClientProofs,
        DataProofs

(* What moves is one part, by a step of its own. *)
LEMMA ServerStep ==
    ASSUME [Next]_vars
    PROVE  /\ [BusNext]_busVars /\ [MsgNext]_msgVars /\ [DirectNext]_directVars
           /\ [RateNext]_rateVars /\ [ClientNext]_clientVars /\ [KafkaNext]_kafkaVars
           /\ [IdsNext]_idVars /\ [FilterNext]_filterVars /\ [SqlNext]_sqlVars
<1>1. CASE BusMoves BY <1>1 DEF BusMoves
<1>2. CASE MessagesMove BY <1>2 DEF MessagesMove
<1>3. CASE DirectMoves BY <1>3 DEF DirectMoves
<1>4. CASE RateMoves BY <1>4 DEF RateMoves
<1>5. CASE ClientMoves BY <1>5 DEF ClientMoves
<1>6. CASE KafkaMoves BY <1>6 DEF KafkaMoves
<1>7. CASE IdsMove BY <1>7 DEF IdsMove
<1>8. CASE TextMoves BY <1>8 DEF TextMoves
<1>9. CASE SqlMoves BY <1>9 DEF SqlMoves
<1>10. CASE UNCHANGED vars BY <1>10 DEF vars
<1> QED BY <1>1, <1>2, <1>3, <1>4, <1>5, <1>6, <1>7, <1>8, <1>9, <1>10 DEF Next

(* What the run chat_server checks is, part by part, what the modules of the parts
   specify: the bus, the messages, direct deliveries, the rate limit, the page and its
   server, the consumers, the ids, the word filter and the statement builders. *)
THEOREM ServerIsItsParts ==
    Spec => /\ BusSpec /\ MsgSpec /\ DirectSpec /\ RateSpec /\ ClientSafety
            /\ KafkaSpec /\ IdsSpec /\ FilterSpec /\ SqlSpec
<1>1. Init => /\ BusInit /\ MsgInit /\ DirectInit /\ RateInit /\ ClientInit
              /\ KafkaInit /\ IdsInit /\ FilterInit /\ SqlInit
  BY DEF Init
<1>2. [Next]_vars => /\ [BusNext]_busVars /\ [MsgNext]_msgVars /\ [DirectNext]_directVars
                     /\ [RateNext]_rateVars /\ [ClientNext]_clientVars /\ [KafkaNext]_kafkaVars
                     /\ [IdsNext]_idVars /\ [FilterNext]_filterVars /\ [SqlNext]_sqlVars
  BY ServerStep
<1> QED BY <1>1, <1>2, PTL
        DEF Spec, BusSpec, MsgSpec, DirectSpec, RateSpec, ClientSafety, KafkaSpec, IdsSpec,
            FilterSpec, SqlSpec

(* Every variable of every part of the server is what its module says, in every state
   the run chat_server can reach, for any constants. *)
THEOREM ServerTypesKept == Spec => []ServerTypeOK
<1>1. /\ BusTypeOK /\ MsgTypeOK /\ DirectTypeOK /\ RateTypeOK /\ ClientTypeOK
      /\ KafkaTypeOK /\ IdsTypeOK /\ FilterTypeOK /\ SqlTypeOK
      => ServerTypeOK
  BY DEF ServerTypeOK
<1> QED BY <1>1, ServerIsItsParts, BusTypesKept, MessageTypesKept, DirectTypesKept,
           RateTypesKept, ClientTypeCorrect, ConsumerTypesKept, IdTypesKept, FilterTypesOK,
           SqlTypesOK, PTL

(* What was proved of the parts, said of the whole: what the run chat_server checks of
   its nine parts is true of it for any constants. *)
THEOREM ServerKeepsItsPromises ==
    Spec => [](/\ OneNumberSpace /\ LossNoticed /\ RegressionsHonest
               /\ RetriedOnce /\ AckIsTrue /\ DirectQuotaExact /\ DirectPromiseKept
               /\ RateFair /\ CatchUpHonest /\ TasksOutlivedByTheirConsumer /\ IdsRise
               /\ CensorExact /\ BuilderSound /\ BatchAsOneByOne)
BY ServerIsItsParts, RoomsHaveOneNumberSpace, LossIsNoticed, RegressionsAreHonest,
   ARetryIsNotDeliveredTwice, AcksAreTrue, TheQuotaIsExact, ThePromiseIsKept, RateIsFair,
   CatchingUpIsHonest, NothingEndsUnderATask, IdsAlwaysRise, FilterIsExact, BuilderIsSound,
   BatchesAsOneByOne, PTL

(* What moves in a process is one part, by a step of its own. *)
LEMMA ProcessStep ==
    ASSUME [ProcessNext]_processVars
    PROVE  /\ [SessNext]_sessVars /\ [ProbeNext]_probeVars /\ [ClientNext]_clientVars
           /\ [QueueNext]_queueVars /\ [ParkingNext]_parkingVars /\ [LimiterNext]_limiterVars
<1>1. CASE SessionsMove BY <1>1 DEF SessionsMove
<1>2. CASE ProbeMoves BY <1>2 DEF ProbeMoves
<1>3. CASE PageMoves BY <1>3 DEF PageMoves
<1>4. CASE QueueMoves BY <1>4 DEF QueueMoves
<1>5. CASE ParkingMoves BY <1>5 DEF ParkingMoves
<1>6. CASE LogMoves BY <1>6 DEF LogMoves
<1>7. CASE UNCHANGED processVars BY <1>7 DEF processVars
<1> QED BY <1>1, <1>2, <1>3, <1>4, <1>5, <1>6, <1>7 DEF ProcessNext

(* The same of the run process: connections, the bus probe, the page and its server,
   the queue of the archive, the pool's workers and the rate-limited lines, without
   their fairness. *)
THEOREM ProcessIsItsParts ==
    ProcessSpec => /\ SessSafety /\ ProbeSafety /\ ClientSafety
                   /\ QueueSafety /\ ParkingSafety /\ LimiterSafety
<1>1. ProcessInit => /\ SessInit /\ ProbeInit /\ ClientInit
                     /\ QueueInit /\ ParkingInit /\ LimiterInit
  BY DEF ProcessInit
<1>2. [ProcessNext]_processVars =>
          /\ [SessNext]_sessVars /\ [ProbeNext]_probeVars /\ [ClientNext]_clientVars
          /\ [QueueNext]_queueVars /\ [ParkingNext]_parkingVars /\ [LimiterNext]_limiterVars
  BY ProcessStep
<1> QED BY <1>1, <1>2, PTL
        DEF ProcessSpec, SessSafety, ProbeSafety, ClientSafety, QueueSafety, ParkingSafety,
            LimiterSafety

(* Every variable of every part of the process is what its module says, in every state
   the run process can reach, for any constants. *)
THEOREM ProcessTypesKept == ProcessSpec => []ProcessTypeOK
<1>1. /\ SessTypeOK /\ ProbeTypeOK /\ ClientTypeOK
      /\ QueueTypeOK /\ ParkingTypeOK /\ LimiterTypeOK
      => ProcessTypeOK
  BY DEF ProcessTypeOK
<1> QED BY <1>1, ProcessIsItsParts, SessionTypesKept, ProbeTypesKept, ClientTypeCorrect,
           QueueTypesKept, ParkingTypesKept, LimiterTypesKept, PTL

(* And what the run process checks of its states, with the states behind its liveness:
   connections are listed as they are, the archive is in order and loses no task, nobody
   sleeps over work, every occurrence is counted, a dead bus is not trusted for long. *)
THEOREM ProcessKeepsItsPromises ==
    ProcessSpec => [](/\ NeitherZombieNorGhost /\ BrokerInOrder /\ TasksInOnePlace
                      /\ NoWakeUpIsLost /\ EveryOccurrenceCounted /\ FakeAcksBounded
                      /\ CatchUpHonest)
BY ProcessIsItsParts, NoZombiesNoGhosts, ArchiveIsInOrder, NoTaskIsLost, NobodySleepsOverWork,
   NoOccurrenceIsLost, FakeAcksAreBounded, CatchingUpIsHonest, PTL
=============================================================================

---------------------------- MODULE MCChatServer ----------------------------
(* One TLC run for the safety of the parts around the room fan-out.  The parts
   share no variable, so a product of their states would check nothing more:
   part says which of them moves in a behaviour. *)
EXTENDS ClusterBus, ChatMessages, DirectDelivery, MessageRate, RoomClient, TextFilter,
        KafkaConsumers, MessageIds, SqlBuilders, TLC

CONSTANTS i1, i2, b1, h1, h2, k1, d1, c1, c2, s1, s2, s3, l1, l2

VARIABLE part

MCSessionOrder == <<s1, s2, s3>>
MCLoopOf == s1 :> l1 @@ s2 :> NoLoop @@ s3 :> l2
MCFold == [c \in Chars |-> IF c = "A" THEN "a" ELSE c]
MCWordLists == SUBSET {<<>>, <<"a", "b">>, <<"A", "b", "c">>, <<"b", "c">>, <<"c">>}
MCConditions == {<<"?">>, <<"'", "?", "'", "?">>, <<"?", "/*", "?", "*/", "?">>,
                 <<"'", "\\", "'", "?", "'">>}
MCRowShapes == {<<>>, <<"a">>, <<"b", "a">>, <<"a", "a">>}
Symmetric == Permutations({i1, i2}) \cup Permutations({h1, h2}) \cup Permutations({c1, c2})

Parts == {"bus", "messages", "direct", "rate", "client", "kafka", "ids", "text", "sql"}

Init ==
    /\ part \in Parts
    /\ BusInit /\ MsgInit /\ DirectInit /\ RateInit /\ ClientInit
    /\ KafkaInit /\ IdsInit /\ FilterInit /\ SqlInit
    /\ part # "ids" => clock = 0
    /\ part # "text" => toLoad = {}
    /\ part # "sql" => kind = "query"

Moves(p) == part = p /\ UNCHANGED part
BusMoves == Moves("bus") /\ BusNext
    /\ UNCHANGED <<msgVars, directVars, rateVars, clientVars, kafkaVars, idVars, filterVars, sqlVars>>
MessagesMove == Moves("messages") /\ MsgNext
    /\ UNCHANGED <<busVars, directVars, rateVars, clientVars, kafkaVars, idVars, filterVars, sqlVars>>
DirectMoves == Moves("direct") /\ DirectNext
    /\ UNCHANGED <<busVars, msgVars, rateVars, clientVars, kafkaVars, idVars, filterVars, sqlVars>>
RateMoves == Moves("rate") /\ RateNext
    /\ UNCHANGED <<busVars, msgVars, directVars, clientVars, kafkaVars, idVars, filterVars, sqlVars>>
ClientMoves == Moves("client") /\ ClientNext
    /\ UNCHANGED <<busVars, msgVars, directVars, rateVars, kafkaVars, idVars, filterVars, sqlVars>>
KafkaMoves == Moves("kafka") /\ KafkaNext
    /\ UNCHANGED <<busVars, msgVars, directVars, rateVars, clientVars, idVars, filterVars, sqlVars>>
IdsMove == Moves("ids") /\ IdsNext
    /\ UNCHANGED <<busVars, msgVars, directVars, rateVars, clientVars, kafkaVars, filterVars, sqlVars>>
TextMoves == Moves("text") /\ FilterNext
    /\ UNCHANGED <<busVars, msgVars, directVars, rateVars, clientVars, kafkaVars, idVars, sqlVars>>
SqlMoves == Moves("sql") /\ SqlNext
    /\ UNCHANGED <<busVars, msgVars, directVars, rateVars, clientVars, kafkaVars, idVars,
                   filterVars>>

Next == \/ BusMoves \/ MessagesMove \/ DirectMoves \/ RateMoves \/ ClientMoves
        \/ KafkaMoves \/ IdsMove \/ TextMoves \/ SqlMoves

vars == <<busVars, msgVars, directVars, rateVars, clientVars, kafkaVars, idVars, filterVars,
          sqlVars, part>>
Spec == Init /\ [][Next]_vars

\* Every variable of every part is what its module says.
ServerTypeOK ==
    /\ BusTypeOK /\ MsgTypeOK /\ DirectTypeOK /\ RateTypeOK /\ ClientTypeOK
    /\ KafkaTypeOK /\ IdsTypeOK /\ FilterTypeOK /\ SqlTypeOK
=============================================================================

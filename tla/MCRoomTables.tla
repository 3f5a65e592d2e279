---------------------------- MODULE MCRoomTables -----------------------------
(* One TLC run for the safety of the room table, in two settings that bound it
   differently: two names and three objects with two messages ("names"), or one
   name and two objects with three messages and readers ("replay").  setting says
   which of the two a behaviour is in; the steps are those of RoomTable. *)
EXTENDS MCRoomTable

VARIABLE setting

NamesUsed == {nameOf[o] : o \in Objs} \ {None}

NamesOpen == IF setting = "names" \/ NamesUsed = {} THEN Names ELSE NamesUsed
ReadersOpen == IF setting = "names" THEN {} ELSE Readers

TablesInit == setting \in {"names", "replay"} /\ Init

TablesNext ==
    /\ UNCHANGED setting
    /\ \/ \E c \in Clients :
            \/ \E n \in NamesOpen :
                  \/ SubscribeFind(c, n)
                  \/ (setting = "replay" => made < 2) /\ SubscribeCreate(c, n)
            \/ SubscribeRetry(c) \/ SubscribeEnter(c) \/ Unsubscribe(c)
       \/ \E o \in Objs : Erase(o) \/ BudgetMeasure(o) \/ BudgetClear(o)
       \/ \E p \in Publishers :
            \/ (setting = "names" => msgs < 2) /\ PublishCommit(p)
            \/ \E n \in Names : PublishFind(p, n)
       \/ \E r \in ReadersOpen :
            \/ ReplayRead(r)
            \/ \E n \in NamesOpen, since \in 0 .. MaxMsgs : ReplayFind(r, n, since)
       \/ BudgetScan \/ BudgetEnd

TablesSpec == TablesInit /\ [][TablesNext]_<<setting, vars>>
=============================================================================

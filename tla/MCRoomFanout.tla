---------------------------- MODULE MCRoomFanout ----------------------------
(* TLC instances of RoomFanout.  Subscription ids choose their loop by parity;
   id 3 has no loop where the run asks for one. *)
EXTENDS RoomFanout, TLC
CONSTANTS p1, p2, w1, w2, l1, l2, DirectIds
MCLoopOf == [id \in SubIds |-> IF id \in DirectIds THEN NoLoop
                               ELSE IF id % 2 = 1 THEN l1 ELSE l2]
=============================================================================

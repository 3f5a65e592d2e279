-------------------------- MODULE MCDirectDelivery --------------------------
(* DirectDelivery by itself: a user with sessions on two loops and one that has
   none. *)
EXTENDS DirectDelivery, TLC

CONSTANTS c1, c2, s1, s2, s3, l1, l2

MCSessionOrder == <<s1, s2, s3>>
MCLoopOf == s1 :> l1 @@ s2 :> NoLoop @@ s3 :> l2
=============================================================================

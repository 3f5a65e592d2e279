----------------------------- MODULE MCRoomTable -----------------------------
(* TLC instances of RoomTable.  Clients and room names are interchangeable. *)
EXTENDS RoomTable, TLC
CONSTANTS n1, n2, c1, c2, p1, r1
MCSymmetry == Permutations({c1, c2}) \cup Permutations({n1, n2})
=============================================================================

---------------------------- MODULE OrderedRoom -----------------------------
(***************************************************************************)
(* What a chat room promises, without shards, drainers or loops: messages  *)
(* are numbered as they are accepted, and each member is reached by them   *)
(* one after the other, from the first that was accepted after it joined.  *)
(* Of the messages accepted before, it may see some that were still        *)
(* queued, in order but not without holes: a shard whose last member has   *)
(* left is passed over by a publish until it has a member again.           *)
(* Once a member has left, what was already under way may still reach it.  *)
(***************************************************************************)
EXTENDS Integers

CONSTANTS Subscribers, MaxSeq

VARIABLES members, joinedAt, accepted, reached

vars == <<members, joinedAt, accepted, reached>>

Init ==
    /\ members = {}
    /\ joinedAt = [id \in Subscribers |-> 0]
    /\ accepted = 0
    /\ reached = [id \in Subscribers |-> 0]

Join(id) ==
    /\ id \notin members /\ reached[id] = 0
    /\ members' = members \cup {id}
    /\ joinedAt' = [joinedAt EXCEPT ![id] = accepted]
    /\ UNCHANGED <<accepted, reached>>

Leave(id) ==
    /\ id \in members
    /\ members' = members \ {id}
    /\ UNCHANGED <<joinedAt, accepted, reached>>

Accept ==
    /\ accepted < MaxSeq
    /\ accepted' = accepted + 1
    /\ UNCHANGED <<members, joinedAt, reached>>

\* The messages that may reach id next.
NextFor(id) ==
    {n \in (reached[id] + 1) .. accepted : n <= joinedAt[id] + 1 \/ n = reached[id] + 1}

\* A batch reaches some members at once.
Reach ==
    /\ reached' \in [Subscribers -> 0 .. MaxSeq]
    /\ \A id \in Subscribers : reached'[id] = reached[id] \/ reached'[id] \in NextFor(id)
    /\ UNCHANGED <<members, joinedAt, accepted>>

Next == (\E id \in Subscribers : Join(id) \/ Leave(id)) \/ Accept \/ Reach

Spec == Init /\ [][Next]_vars
=============================================================================

--------------------------- MODULE DirectDelivery ---------------------------
(***************************************************************************)
(* A message to a user goes to all sessions of that name                   *)
(* (ws_controllers/ChatWebsocket.cc, deliverDirectLocally).  The caller    *)
(* copies the sessions, refuses when one of them is congested, takes the   *)
(* in-flight quota for all of them at once, and hands one batch to each    *)
(* event loop; a loop returns the quota of a batch when it has written it. *)
(* A session whose loop is not known yet is written directly.  There is no *)
(* journal for such messages: what is skipped is lost.                     *)
(*                                                                         *)
(* Callers are the senders' IO threads and the thread of the Redis         *)
(* subscription.  A session's gate is closed by the high-water mark of its *)
(* connection and opened by a timer, at any moment here.                   *)
(***************************************************************************)
EXTENDS Integers, Sequences, FiniteSets, Functions, FiniteSetsExt

CONSTANTS
    Callers,
    Sessions, SessionOrder,     \* the sessions of the user, as userNameToConn lists them
    Loops, NoLoop, LoopOf,      \* the loop of a session, NoLoop before loop_ is set
    MaxDirectInFlight,          \* 0: unlimited
    MaxDirect,                  \* bound: messages
    MaxGateMoves                \* bound: times a gate closes or opens

DirectMsgs == 1 .. MaxDirect

ASSUME DirectAssumption ==
    /\ LoopOf \in [Sessions -> Loops \cup {NoLoop}] /\ NoLoop \notin Loops
    /\ SessionOrder \in Seq(Sessions) /\ Range(SessionOrder) = Sessions
    /\ Len(SessionOrder) = Cardinality(Sessions)
    /\ MaxDirectInFlight \in Nat /\ MaxDirect \in Nat /\ MaxGateMoves \in Nat

VARIABLES
    sending,    \* caller -> its message and how far it came
    inFlight,   \* directInFlight
    batches,    \* loop -> batches queued in it
    congested,  \* sessions whose gate is closed
    gateMoves,
    \* history: messages begun; copies written; the caller's answer to each message;
    \* a batch failed after a congested session had been skipped
    begun, written, said, skippedThenFailed

directVars == <<sending, inFlight, batches, congested, gateMoves, begun, written, said,
                skippedThenFailed>>

NotSending == [at |-> "idle"]

DirectInit ==
    /\ sending = [c \in Callers |-> NotSending]
    /\ inFlight = 0
    /\ batches = [l \in Loops |-> <<>>]
    /\ congested = {} /\ gateMoves = 0
    /\ begun = 0 /\ written = {} /\ said = [m \in DirectMsgs |-> "nothing"]
    /\ skippedThenFailed = FALSE

-----------------------------------------------------------------------------
Total == Cardinality(Sessions)
SessionsOf(l) == {s \in Sessions : LoopOf[s] = l}

\* The groups are made, and dispatched, in the order of the sessions: the next loop
\* is the one of the first session that is still to be served.
FirstOf(left, n) ==
    /\ LoopOf[SessionOrder[n]] \in left
    /\ \A k \in 1 .. n - 1 : LoopOf[SessionOrder[k]] \notin left
NextLoop(left) == LoopOf[SessionOrder[CHOOSE n \in DOMAIN SessionOrder : FirstOf(left, n)]]
AllLoops == {LoopOf[s] : s \in Sessions} \ {NoLoop}

SayTo(m, what) == said' = [said EXCEPT ![m] = what]

\* The snapshot of the sessions and the check of their gates, all or nothing.
DirectBegin(c) ==
    /\ sending[c].at = "idle" /\ begun < MaxDirect
    /\ begun' = begun + 1
    /\ IF congested # {}
         THEN SayTo(begun + 1, "gated") /\ UNCHANGED sending
         ELSE /\ sending' = [sending EXCEPT ![c] =
                    [at |-> "reserve", msg |-> begun + 1, dispatched |-> 0, gated |-> 0,
                     left |-> {}]]
              /\ UNCHANGED said
    /\ UNCHANGED <<inFlight, batches, congested, gateMoves, written, skippedThenFailed>>

OverLimit == MaxDirectInFlight # 0 /\ inFlight + Total > MaxDirectInFlight
OverLimitSoft == MaxDirectInFlight # 0 /\ inFlight > MaxDirectInFlight  \* mutant: tests before adding

\* The compare-and-swap on the quota; it fails only to try again.
DirectReserveSoft(c) ==         \* mutant: the quota is tested without this message
    /\ sending[c].at = "reserve"
    /\ IF OverLimitSoft
         THEN /\ SayTo(sending[c].msg, "full")
              /\ sending' = [sending EXCEPT ![c] = NotSending]
              /\ UNCHANGED inFlight
         ELSE /\ inFlight' = inFlight + Total
              /\ sending' = [sending EXCEPT ![c].at = "scan"]
              /\ UNCHANGED said
    /\ UNCHANGED <<batches, congested, gateMoves, begun, written, skippedThenFailed>>

DirectReserve(c) ==
    /\ sending[c].at = "reserve"
    /\ IF OverLimit
         THEN /\ SayTo(sending[c].msg, "full")
              /\ sending' = [sending EXCEPT ![c] = NotSending]
              /\ UNCHANGED inFlight
         ELSE /\ inFlight' = inFlight + Total
              /\ sending' = [sending EXCEPT ![c].at = "scan"]
              /\ UNCHANGED said
    /\ UNCHANGED <<batches, congested, gateMoves, begun, written, skippedThenFailed>>

Copies(m, ss) == {[msg |-> m, to |-> s] : s \in ss}

\* Sessions without a loop: written here and now, or skipped when the gate was
\* closed meanwhile.  Either way their quota is returned at once.
DirectScan(c) ==
    LET direct == SessionsOf(NoLoop)
        open   == direct \ congested
    IN  /\ sending[c].at = "scan"
        /\ written' = written \cup Copies(sending[c].msg, open)
        /\ inFlight' = inFlight - Cardinality(direct)
        /\ sending' = [sending EXCEPT ![c] =
                [at |-> "dispatch", msg |-> @.msg, dispatched |-> Cardinality(open),
                 gated |-> Cardinality(direct \ open), left |-> AllLoops]]
        /\ UNCHANGED <<batches, congested, gateMoves, begun, said, skippedThenFailed>>

DirectDispatch(c) ==
    LET s == sending[c]
        l == NextLoop(s.left)
    IN  /\ s.at = "dispatch" /\ s.left # {}
        /\ batches' = [batches EXCEPT ![l] = Append(@, s.msg)]
        /\ sending' = [sending EXCEPT ![c] =
                [s EXCEPT !.left = @ \ {l}, !.dispatched = @ + Cardinality(SessionsOf(l))]]
        /\ UNCHANGED <<inFlight, congested, gateMoves, begun, written, said, skippedThenFailed>>

\* dispatch() throws: the quota of this batch and the ones after it is returned
\* and the exception reaches the message handler.
DirectDispatchFails(c) ==
    LET s == sending[c]
    IN  /\ s.at = "dispatch" /\ s.left # {}
        /\ inFlight' = inFlight - (Total - s.dispatched)
        /\ skippedThenFailed' = (skippedThenFailed \/ s.gated > 0)
        /\ SayTo(s.msg, "failed")
        /\ sending' = [sending EXCEPT ![c] = NotSending]
        /\ UNCHANGED <<batches, congested, gateMoves, begun, written>>

\* A skipped session makes it a 503 although other sessions have the message.
DirectDone(c) ==
    LET s == sending[c]
    IN  /\ s.at = "dispatch" /\ s.left = {}
        /\ SayTo(s.msg, IF s.gated > 0 THEN "gated" ELSE "sent")
        /\ sending' = [sending EXCEPT ![c] = NotSending]
        /\ UNCHANGED <<inFlight, batches, congested, gateMoves, begun, written, skippedThenFailed>>

\* The loop writes a batch.  The gate is not asked again: the sender has been
\* told 200, and one message more does not matter to a full buffer.
ExecuteBatchGated(l) ==         \* mutant: the batch skips congested sessions
    /\ batches[l] # <<>>
    /\ written' = written \cup Copies(Head(batches[l]), SessionsOf(l) \ congested)
    /\ inFlight' = inFlight - Cardinality(SessionsOf(l))
    /\ batches' = [batches EXCEPT ![l] = Tail(@)]
    /\ UNCHANGED <<sending, congested, gateMoves, begun, said, skippedThenFailed>>

ExecuteBatch(l) ==
    /\ batches[l] # <<>>
    /\ written' = written \cup Copies(Head(batches[l]), SessionsOf(l))
    /\ inFlight' = inFlight - Cardinality(SessionsOf(l))
    /\ batches' = [batches EXCEPT ![l] = Tail(@)]
    /\ UNCHANGED <<sending, congested, gateMoves, begun, said, skippedThenFailed>>

\* The high-water mark callback; the timer that opens the gate (module ChatSessions).
GateMoves(s) ==
    /\ gateMoves < MaxGateMoves
    /\ gateMoves' = gateMoves + 1
    /\ congested' = IF s \in congested THEN congested \ {s} ELSE congested \cup {s}
    /\ UNCHANGED <<sending, inFlight, batches, begun, written, said, skippedThenFailed>>

DirectNext ==
    \/ \E c \in Callers :
        \/ DirectBegin(c) \/ DirectReserve(c) \/ DirectScan(c) \/ DirectDispatch(c)
        \/ DirectDispatchFails(c) \/ DirectDone(c)
    \/ \E l \in Loops : ExecuteBatch(l)
    \/ \E s \in Sessions : GateMoves(s)

DirectSpec == DirectInit /\ [][DirectNext]_directVars

-----------------------------------------------------------------------------
(* Properties *)

DirectTypeOK ==
    /\ \A c \in Callers : sending[c].at \in {"idle", "reserve", "scan", "dispatch"}
    /\ inFlight \in Int /\ begun \in 0 .. MaxDirect
    /\ congested \subseteq Sessions
    /\ \A l \in Loops : Range(batches[l]) \subseteq DirectMsgs

\* Copies for which quota is taken: those a caller has still to give to a loop, and
\* those in the batches of the loops.
Undispatched == {cs \in Callers \X Sessions :
    \/ sending[cs[1]].at = "scan"
    \/ sending[cs[1]].at = "dispatch" /\ LoopOf[cs[2]] \in sending[cs[1]].left}
Queued == UNION {{s} \X DOMAIN batches[LoopOf[s]] : s \in {x \in Sessions : LoopOf[x] # NoLoop}}
Held == Cardinality(Undispatched) + Cardinality(Queued)

\* The quota is exactly what is queued in loops or about to be, also after a
\* batch failed to dispatch (but see QuotaNeverOverReturned), and never beyond
\* its limit.  (deliverDirectLocally, directInFlight)
DirectQuotaExact ==
    ~skippedThenFailed =>
        /\ inFlight = Held
        /\ MaxDirectInFlight # 0 => inFlight <= MaxDirectInFlight

\* A failed dispatch returns exactly what was taken and not dispatched.  (the
\* comment at the catch in deliverDirectLocally)
QuotaNeverOverReturned == inFlight >= Held

\* Who was told 200 has his message at every session of the user, as soon as the
\* loops have written what they hold, whether their gates closed meanwhile or not.
\* (the check of the gates happens once; see the comment in the batch)
DirectPromiseKept == \A m \in DirectMsgs : said[m] = "sent" =>
    \A s \in Sessions :
        \/ [msg |-> m, to |-> s] \in written
        \/ LoopOf[s] \in Loops /\ m \in Range(batches[LoopOf[s]])

=============================================================================

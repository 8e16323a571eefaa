----------------------------- MODULE SendQueue ------------------------------
(***************************************************************************)
(* What send_msg and send_msg_to promise: a call takes effect in ONE step, *)
(* in which the whole message joins the end of its peer's queue, or the    *)
(* association begins to close (EOF) or ends (ABORT), and Ok is decided;   *)
(* or it has no effect at all and fails or is cancelled. Each peer gets    *)
(* its messages in that order, nothing joins behind an EOF. SendPath,      *)
(* where a call tries, waits and tries again, implements this.             *)
(***************************************************************************)
EXTENDS Naturals, Sequences

CONSTANTS Peers, MaxSends

VARIABLES
    pending,  \* the messages of calls that have not returned
    outbox,   \* per peer: messages accepted and not acknowledged yet
    closing,  \* peers whose association is shut down gracefully
    outcome   \* per call: what it returned

Messages == [n : 1..MaxSends, peer : Peers, flag : {"NONE", "EOF", "ABORT"}]

vars == <<pending, outbox, closing, outcome>>

Init ==
    /\ pending = {}
    /\ outbox = [p \in Peers |-> << >>]
    /\ closing = {}
    /\ outcome = [n \in 1..MaxSends |-> "none"]

Call(m) ==
    /\ m.n \in 1..MaxSends
    /\ outcome[m.n] = "none"
    /\ outcome' = [outcome EXCEPT ![m.n] = "pending"]
    /\ pending' = pending \cup {m}
    /\ UNCHANGED <<outbox, closing>>

Return(m, result) ==
    /\ m \in pending
    /\ pending' = pending \ {m}
    /\ outcome' = [outcome EXCEPT ![m.n] = result]

Accept(m) ==
    /\ m.flag = "NONE"
    /\ m.peer \notin closing
    /\ Return(m, "ok")
    /\ outbox' = [outbox EXCEPT ![m.peer] = Append(@, m)]
    /\ UNCHANGED closing

AcceptEof(m) ==
    /\ m.flag = "EOF"
    /\ Return(m, "ok")
    /\ closing' = closing \cup {m.peer}
    /\ UNCHANGED outbox

AcceptAbort(m) ==
    /\ m.flag = "ABORT"
    /\ Return(m, "ok")
    /\ outbox' = [outbox EXCEPT ![m.peer] = << >>]
    /\ closing' = closing \ {m.peer}

Fail(m) ==
    /\ \E result \in {"error", "wouldblock", "cancelled"} : Return(m, result)
    /\ UNCHANGED <<outbox, closing>>

\* The peer acknowledges its oldest message.
Deliver(p) ==
    /\ outbox[p] # << >>
    /\ outbox' = [outbox EXCEPT ![p] = Tail(@)]
    /\ UNCHANGED <<pending, closing, outcome>>

\* A graceful shutdown is over once everything before it was acknowledged.
Closed(p) ==
    /\ p \in closing
    /\ outbox[p] = << >>
    /\ closing' = closing \ {p}
    /\ UNCHANGED <<pending, outbox, outcome>>

Lost(p) ==
    /\ outbox' = [outbox EXCEPT ![p] = << >>]
    /\ closing' = closing \ {p}
    /\ UNCHANGED <<pending, outcome>>

Next ==
    \/ \E m \in Messages : Call(m)
    \/ \E m \in pending : Accept(m) \/ AcceptEof(m) \/ AcceptAbort(m) \/ Fail(m)
    \/ \E p \in Peers : Deliver(p) \/ Closed(p) \/ Lost(p)

Spec == Init /\ [][Next]_vars
=============================================================================

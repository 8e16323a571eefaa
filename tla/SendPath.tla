------------------------------ MODULE SendPath ------------------------------
(***************************************************************************)
(* The send path of one SCTP socket: imp::Socket::send_msg called in a     *)
(* loop by write_op (net/common.rs) for SctpStream and SctpEndpoint, or by *)
(* a thread through SctpSocket. The kernel queues a message whole or not   *)
(* at all; messages stay in the send buffer, which all associations of the *)
(* socket share, until the peer acknowledges them. Tokio's readiness is    *)
(* modelled as in RecvPath. Implements SendQueue.                          *)
(***************************************************************************)
EXTENDS Naturals, Sequences, FiniteSetsExt

CONSTANTS
    Writers,     \* tasks and threads that send on this socket
    AsyncSets,   \* the sets of writers that may use the tokio types
    Peers,       \* peers, each reached by an address and, once up, an id
    Lens,        \* lengths of messages
    SndBuf,      \* SO_SNDBUF
    MaxSends,    \* bound: calls of send_msg and send_msg_to
    MaxCancels   \* bound: waits that end early: dropped, or the runtime stops

ASSUME WritersAssumption == AsyncSets \subseteq SUBSET Writers
ASSUME LensAssumption == Lens \subseteq Nat
ASSUME SndBufAssumption == SndBuf \in Nat \ {0}
ASSUME BoundsAssumption == MaxSends \in Nat /\ MaxCancels \in Nat

VARIABLES
    style,    \* "OneToOne" (a stream, with one peer) or "OneToMany"
    async,    \* the writers that go through write_op
    assoc,    \* per peer: "none", "up" or "closing"
    queue,    \* the send buffer, per peer: messages not acknowledged yet
    edge,     \* epoll holds an event the driver has not seen
    ready,    \* tokio's cached write readiness
    fresh,    \* no driver event since the writer's guard was taken
    pc,       \* where each writer is
    msg,      \* the message of the call in progress
    calls,    \* number of calls so far; a call's number names its message
    outcome,  \* per call: what it returned
    taken,    \* history, per call: how often the kernel took its message
    cancels

kernel == <<assoc, queue>>
tokio == <<edge, ready, fresh>>
call == <<pc, msg, outcome>>
vars == <<style, async, kernel, tokio, call, calls, taken, cancels>>

Flags == {"NONE", "EOF", "ABORT"}

NoMsg == [n |-> 0]

\* The peer of a one-to-one socket; the only one an endpoint begins with.
First == CHOOSE p \in Peers : TRUE

Messages ==
    [n : 1..MaxSends, peer : Peers, by : {"id", "addr"}, len : Lens \cup {0}, flag : Flags]

TypeOK ==
    /\ style \in {"OneToOne", "OneToMany"}
    /\ async \in AsyncSets
    /\ assoc \in [Peers -> {"none", "up", "closing"}]
    /\ queue \in [Peers -> Seq(Messages)]
    /\ edge \in BOOLEAN /\ ready \in BOOLEAN
    /\ fresh \in [Writers -> BOOLEAN]
    /\ pc \in [Writers -> {"idle", "writable", "sendmsg", "clear", "wait"}]
    /\ msg \in [Writers -> Messages \cup {NoMsg}]
    /\ calls \in 0..MaxSends
    /\ outcome \in [1..MaxSends -> {"none", "pending", "ok", "error", "wouldblock", "cancelled"}]
    /\ taken \in [1..MaxSends -> Nat]
    /\ cancels \in 0..MaxCancels

Init ==
    /\ style \in {"OneToOne", "OneToMany"}
    /\ async \in AsyncSets
    /\ assoc = [p \in Peers |-> IF p = First THEN "up" ELSE "none"]
    /\ queue = [p \in Peers |-> << >>]
    /\ edge = TRUE
    /\ ready = FALSE
    /\ fresh = [w \in Writers |-> FALSE]
    /\ pc = [w \in Writers |-> "idle"]
    /\ msg = [w \in Writers |-> NoMsg]
    /\ calls = 0
    /\ outcome = [n \in 1..MaxSends |-> "none"]
    /\ taken = [n \in 1..MaxSends |-> 0]
    /\ cancels = 0

-----------------------------------------------------------------------------
(* The kernel and the tokio driver (external).                             *)

Held(q) ==
    LET held[i \in 0..Len(q)] == IF i = 0 THEN 0 ELSE held[i - 1] + q[i].len
    IN  held[Len(q)]

\* The bytes in send buffer q, which the associations share.
Used(q) == MapThenSumSet(LAMBDA p : Held(q[p]), Peers)

HasSpace == Used(queue) < SndBuf

\* What is left of the buffer (sctp_wspace).
Space == IF HasSpace THEN SndBuf - Used(queue) ELSE 0

\* Acknowledged or discarded messages give their space back; the socket is
\* reported writable whenever that leaves space.
Freed == edge' = IF HasSpace' THEN TRUE ELSE edge

\* A peer acknowledges its oldest message; after the last one a graceful
\* shutdown completes.
Ack(p) ==
    /\ queue[p] # << >>
    /\ queue' = [queue EXCEPT ![p] = Tail(@)]
    /\ Freed
    /\ UNCHANGED <<style, async, assoc, ready, fresh, call, calls, taken, cancels>>

ShutdownCompletes(p) ==
    /\ assoc[p] = "closing"
    /\ queue[p] = << >>
    /\ assoc' = [assoc EXCEPT ![p] = "none"]
    /\ UNCHANGED <<style, async, queue, tokio, call, calls, taken, cancels>>

\* The association ends and what was not acknowledged is discarded.
Discard(p) ==
    /\ assoc' = [assoc EXCEPT ![p] = "none"]
    /\ queue' = [queue EXCEPT ![p] = << >>]
    /\ Freed

\* The peer aborts, or is given up.
AssocLost(p) ==
    /\ assoc[p] # "none"
    /\ Discard(p)
    /\ UNCHANGED <<style, async, ready, fresh, call, calls, taken, cancels>>

driver_event ==
    /\ edge
    /\ edge' = FALSE
    /\ ready' = TRUE
    /\ fresh' = [w \in Writers |-> FALSE]
    /\ UNCHANGED <<style, async, kernel, call, calls, taken, cancels>>

\* What sendmsg(2) does with a message (sctp_sendmsg). One-to-one sockets
\* refuse EOF and ABORT; EOF takes no payload and other messages need one, and
\* may be repeated while the association closes. An address without
\* association sets one up, an id without is an error.
Verdict(m) ==
    IF m.len > SndBuf THEN "error"
    ELSE IF m.flag # "NONE" /\ style = "OneToOne" THEN "error"
    ELSE IF (m.flag = "EOF" /\ m.len > 0) \/ (m.flag = "NONE" /\ m.len = 0) THEN "error"
    ELSE IF assoc[m.peer] = "closing" /\ m.flag = "NONE" THEN "error"
    ELSE IF assoc[m.peer] = "none"
            /\ (m.by = "id" \/ m.flag # "NONE" \/ style = "OneToOne") THEN "error"
    ELSE IF m.flag # "NONE" THEN m.flag
    ELSE IF HasSpace THEN "queue" ELSE "full"

-----------------------------------------------------------------------------
(* send_msg, send_msg_to and write_op.                                     *)

\* SctpStream and SctpSocket::send_msg name no destination; the association
\* of a one-to-one socket is implied. Flags come without payload: EOF with one
\* is refused like any invalid message, and ABORT only sends it to the peer.
send_msg_call(w) ==
    /\ pc[w] = "idle"
    /\ calls < MaxSends
    /\ calls' = calls + 1
    /\ \E p \in Peers, by \in {"id", "addr"}, len \in Lens \cup {0}, flag \in Flags :
        /\ style = "OneToOne" => by = "id" /\ p = First
        /\ IF flag = "NONE" THEN len \in Lens ELSE len = 0
        /\ msg' = [msg EXCEPT ![w] =
                [n |-> calls', peer |-> p, by |-> by, len |-> len, flag |-> flag]]
    /\ outcome' = [outcome EXCEPT ![calls'] = "pending"]
    /\ pc' = [pc EXCEPT ![w] = IF w \in async THEN "writable" ELSE "sendmsg"]
    /\ UNCHANGED <<style, async, kernel, tokio, taken, cancels>>

\* io.writable().await resolves.
writable(w) ==
    /\ pc[w] = "writable"
    /\ ready
    /\ pc' = [pc EXCEPT ![w] = "sendmsg"]
    /\ fresh' = [fresh EXCEPT ![w] = TRUE]
    /\ UNCHANGED <<style, async, kernel, edge, ready, msg, outcome, calls, taken, cancels>>

Return(w, result) ==
    /\ pc' = [pc EXCEPT ![w] = "idle"]
    /\ msg' = [msg EXCEPT ![w] = NoMsg]
    /\ outcome' = [outcome EXCEPT ![msg[w].n] = result]

\* writable().await fails: the runtime of the task shuts down.
writable_error(w) ==
    /\ pc[w] = "writable"
    /\ cancels < MaxCancels
    /\ cancels' = cancels + 1
    /\ Return(w, "error")
    /\ UNCHANGED <<style, async, kernel, tokio, calls, taken>>

\* The future's only suspension point is writable().await.
cancel(w) ==
    /\ pc[w] = "writable"
    /\ cancels < MaxCancels
    /\ cancels' = cancels + 1
    /\ Return(w, "cancelled")
    /\ UNCHANGED <<style, async, kernel, tokio, calls, taken>>

Take(m) == taken' = [taken EXCEPT ![m.n] = @ + 1]

\* The message enters the send buffer; an unknown address gets an association.
Queue(m) ==
    /\ queue' = [queue EXCEPT ![m.peer] = Append(@, m)]
    /\ assoc' = [assoc EXCEPT ![m.peer] = "up"]
    /\ Take(m)

\* Mutant: the result of sendmsg is not checked for an error.
cvt_size_unchecked(verdict) == "ok"

\* A negative result is an error, everything else a length.
cvt_size(verdict) == IF verdict = "error" THEN "error" ELSE "ok"

\* Mutant: the readiness is cleared after every call.
try_io_done_clears(w, verdict) ==
    /\ Return(w, cvt_size(verdict))
    /\ ready' = FALSE
    /\ UNCHANGED fresh

\* Mutant: the loop goes on after a success as well.
try_io_done_retries(w, verdict) ==
    /\ pc' = [pc EXCEPT ![w] = IF verdict = "queue" THEN "sendmsg" ELSE "idle"]
    /\ UNCHANGED <<msg, outcome, ready, fresh>>

\* try_io: a result other than WouldBlock ends the loop.
try_io_done(w, verdict) ==
    /\ Return(w, cvt_size(verdict))
    /\ UNCHANGED <<ready, fresh>>

send_msg_queue(w) ==
    /\ pc[w] = "sendmsg"
    /\ Verdict(msg[w]) = "queue"
    /\ Queue(msg[w])
    /\ try_io_done(w, "queue")
    /\ UNCHANGED <<style, async, edge, calls, cancels>>

send_msg_error(w) ==
    /\ pc[w] = "sendmsg"
    /\ Verdict(msg[w]) = "error"
    /\ try_io_done(w, "error")
    /\ UNCHANGED <<style, async, kernel, edge, calls, taken, cancels>>

\* SendFlags::EOF starts a graceful shutdown of the association.
send_msg_eof(w) ==
    /\ pc[w] = "sendmsg"
    /\ Verdict(msg[w]) = "EOF"
    /\ assoc' = [assoc EXCEPT ![msg[w].peer] = "closing"]
    /\ Take(msg[w])
    /\ try_io_done(w, "EOF")
    /\ UNCHANGED <<style, async, queue, edge, calls, cancels>>

\* SendFlags::ABORT ends it at once and discards what it had queued.
send_msg_abort(w) ==
    /\ pc[w] = "sendmsg"
    /\ Verdict(msg[w]) = "ABORT"
    /\ Discard(msg[w].peer)
    /\ Take(msg[w])
    /\ try_io_done(w, "ABORT")
    /\ UNCHANGED <<style, async, calls, cancels>>

\* No space: a non-blocking socket answers EAGAIN, a thread waits inside
\* sendmsg, for the association it found if there is one.
send_msg_full(w) ==
    /\ pc[w] = "sendmsg"
    /\ Verdict(msg[w]) = "full"
    /\ \/ /\ w \in async
          /\ pc' = [pc EXCEPT ![w] = "clear"]
          /\ UNCHANGED msg
       \/ /\ w \notin async
          /\ pc' = [pc EXCEPT ![w] = "wait"]
          /\ msg' = [msg EXCEPT ![w].by = IF assoc[msg[w].peer] = "up" THEN "id" ELSE @]
    /\ UNCHANGED <<style, async, kernel, tokio, outcome, calls, taken, cancels>>

\* Mutant: readiness reported after the guard was taken is cleared too.
clear_ready_stale(w) ==
    /\ pc[w] = "clear"
    /\ ready' = FALSE
    /\ fresh' = [fresh EXCEPT ![w] = FALSE]
    /\ pc' = [pc EXCEPT ![w] = "writable"]
    /\ UNCHANGED <<style, async, kernel, edge, msg, outcome, calls, taken, cancels>>

\* try_io clears the readiness unless an event came after the guard was
\* taken; write_op awaits writable() again, with the same message.
clear_ready(w) ==
    /\ pc[w] = "clear"
    /\ ready' = IF fresh[w] THEN FALSE ELSE ready
    /\ fresh' = [fresh EXCEPT ![w] = FALSE]
    /\ pc' = [pc EXCEPT ![w] = "writable"]
    /\ UNCHANGED <<style, async, kernel, edge, msg, outcome, calls, taken, cancels>>

-----------------------------------------------------------------------------
(* A thread inside sendmsg (sctp_wait_for_sndbuf, external).               *)

\* The association waited for is there, or is still to be set up.
WaitOk(w) ==
    \/ assoc[msg[w].peer] = "up"
    \/ assoc[msg[w].peer] = "none" /\ msg[w].by = "addr"

wait_space(w) ==
    /\ pc[w] = "wait"
    /\ WaitOk(w)
    /\ msg[w].len <= Space
    /\ Queue(msg[w])
    /\ Return(w, "ok")
    /\ UNCHANGED <<style, async, tokio, calls, cancels>>

\* The association ends, or SO_SNDTIMEO elapses.
wait_fails(w) ==
    /\ pc[w] = "wait"
    /\ \/ ~WaitOk(w) /\ Return(w, "error")
       \/ Return(w, "wouldblock")
    /\ UNCHANGED <<style, async, kernel, tokio, calls, taken, cancels>>

-----------------------------------------------------------------------------
send_msg(w) ==
    \/ send_msg_queue(w) \/ send_msg_error(w) \/ send_msg_eof(w)
    \/ send_msg_abort(w) \/ send_msg_full(w)

write_op(w) == writable(w) \/ send_msg(w) \/ clear_ready(w)

Next ==
    \/ \E w \in Writers :
            \/ send_msg_call(w) \/ write_op(w) \/ writable_error(w) \/ cancel(w)
            \/ wait_space(w) \/ wait_fails(w)
    \/ \E p \in Peers : Ack(p) \/ ShutdownCompletes(p) \/ AssocLost(p)
    \/ driver_event

Spec == Init /\ [][Next]_vars

\* The runtime polls its driver and the tasks it woke. Nothing is assumed of
\* the peers: one that closes its window keeps its association alive and never
\* acknowledges.
FairSpec ==
    /\ Spec
    /\ WF_vars(driver_event)
    /\ \A w \in Writers : WF_vars(write_op(w))

-----------------------------------------------------------------------------
(* Properties.                                                             *)

\* A message is handed to the kernel once if its call returned Ok, and never
\* if the call failed, timed out or was cancelled: retries on WouldBlock do not
\* duplicate it and a dropped future leaves nothing behind.
SentOnce ==
    \A n \in 1..MaxSends : taken[n] = IF outcome[n] = "ok" THEN 1 ELSE 0

\* Whenever there is space in the send buffer the readiness is set or about to
\* be reported: no task can clear it for good with a guard that it took before
\* the space came back.
SpaceNoticed == HasSpace => edge \/ ready

Core(m) == [n |-> m.n, peer |-> m.peer, flag |-> m.flag]

Cores(q) == [i \in 1..Len(q) |-> Core(q[i])]

Pending == {Core(msg[w]) : w \in {v \in Writers : pc[v] # "idle"}}

Outbox == [p \in Peers |-> Cores(queue[p])]

Closing == {p \in Peers : assoc[p] = "closing"}

Outgoing == INSTANCE SendQueue WITH
    pending <- Pending, outbox <- Outbox, closing <- Closing

\* Retries, waiting and cancellation are invisible: however the calls of
\* several writers interleave with acknowledgements, lost associations and one
\* another, each takes effect in one step or not at all, and each peer's
\* messages leave in the order in which they were accepted.
ImplementsSendQueue == Outgoing!Spec

\* A call of a task returns unless the send buffer stays full for ever, which
\* one peer that reads nothing can bring about for the whole endpoint. Space
\* that comes back is never missed, not even after calls that failed or were
\* cancelled, or when several tasks compete for it.
SendReturns ==
    \A w \in Writers : pc[w] = "writable" ~> (pc[w] = "idle" \/ []~HasSpace)
=============================================================================

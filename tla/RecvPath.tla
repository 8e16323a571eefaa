------------------------------ MODULE RecvPath ------------------------------
(***************************************************************************)
(* The receive path of one SCTP socket: imp::Socket::recv_msg and          *)
(* reassemble_notification (imp/kernel.rs), called in a loop by read_op    *)
(* (net/common.rs) for the tokio types, or directly by a thread through    *)
(* the blocking SctpSocket (socket.rs).                                    *)
(*                                                                         *)
(* Every system call is one step: between two of them the kernel may queue *)
(* more messages, the tokio driver may report readiness and, since         *)
(* recv_msg takes &self, another reader may run. The kernel's queue and    *)
(* tokio's readiness are external; they are modelled from the use the code *)
(* makes of them.                                                          *)
(***************************************************************************)
EXTENDS Messages

CONSTANTS
    Readers,    \* tasks and threads that call recv_msg on this socket
    AsyncSets,  \* the sets of readers that may use the tokio types
    Caps,       \* lengths of the buffers callers pass
    Scratch,    \* length of the reassembly scratch buffer (4096 in the code)
    MaxCancels  \* bound: recv_msg futures dropped while they wait

ASSUME ReadersAssumption == AsyncSets \subseteq SUBSET Readers
ASSUME CapsAssumption == Caps \subseteq Nat
ASSUME ScratchAssumption == Scratch \in Nat \ {0}
ASSUME MaxCancelsAssumption == MaxCancels \in Nat

VARIABLES
    msgs, head, taken,  \* the kernel queue, as in MessageQueue
    eof,      \* RCV_SHUTDOWN is set
    alive,    \* the association has not been aborted
    skerr,    \* an error is pending on the socket (sk_err)
    edge,     \* epoll holds an event that the driver has not yet seen
    ready,    \* tokio's cached read readiness
    pc,       \* where each reader is
    cap,      \* length of the buffer of the call in progress
    fresh,    \* no driver event since the reader's guard was taken
    out,      \* `out' of reassemble_notification: the bytes collected
    over,     \* `oversized' of reassemble_notification
    ret,      \* what the reader's last call returned
    log,      \* everything handed to callers, in the order of the syscalls
    cancels,  \* futures dropped so far
    async     \* the readers that go through read_op; the others block

kernel == <<msgs, head, taken, eof, alive, skerr>>
tokio == <<edge, ready, fresh>>
reader == <<pc, cap, out, over, ret>>
vars == <<kernel, tokio, reader, log, cancels, async>>

Results == {"none", "ok", "eof", "oversized", "desync", "sockerr", "wouldblock"}

TypeOK ==
    /\ msgs \in Seq(Message)
    /\ head \in 1..(Len(msgs) + 1)
    /\ taken \in Nat
    /\ head <= Len(msgs) => taken < msgs[head].len
    /\ head = Len(msgs) + 1 => taken = 0
    /\ eof \in BOOLEAN
    /\ alive \in BOOLEAN
    /\ skerr \in BOOLEAN
    /\ edge \in BOOLEAN
    /\ ready \in BOOLEAN
    /\ pc \in [Readers -> {"idle", "readable", "recvmsg", "reassemble", "clear"}]
    /\ cap \in [Readers -> Nat]
    /\ fresh \in [Readers -> BOOLEAN]
    /\ out \in [Readers -> Seq(Nat \X Nat)]
    /\ over \in [Readers -> BOOLEAN]
    /\ ret \in [Readers -> Results]
    /\ log \in Seq(Delivery)
    /\ cancels \in 0..MaxCancels
    /\ async \in AsyncSets

\* Sockets are registered edge-triggered; the first registration reports the
\* current state of the socket, hence the initial event.
Init ==
    /\ msgs = << >>
    /\ head = 1
    /\ taken = 0
    /\ eof = FALSE
    /\ alive = TRUE
    /\ skerr = FALSE
    /\ edge = TRUE
    /\ ready = FALSE
    /\ pc = [r \in Readers |-> "idle"]
    /\ cap = [r \in Readers |-> 0]
    /\ fresh = [r \in Readers |-> FALSE]
    /\ out = [r \in Readers |-> << >>]
    /\ over = [r \in Readers |-> FALSE]
    /\ ret = [r \in Readers |-> "none"]
    /\ log = << >>
    /\ cancels = 0
    /\ async \in AsyncSets

-----------------------------------------------------------------------------
(* The kernel and the tokio driver (external).                             *)

\* A message enters the receive queue. Once RCV_SHUTDOWN is set the kernel
\* drops user data but still queues subscribed notifications.
Arrive(msg) ==
    /\ Len(msgs) < MaxMsgs
    /\ msg.kind = "notif" => msg.eor
    /\ msg.kind = "data" => alive /\ ~eof
    /\ msgs' = Append(msgs, msg)
    /\ edge' = TRUE
    /\ UNCHANGED <<head, taken, eof, alive, skerr, ready, fresh, reader, log,
                   cancels, async>>

\* The peer's SHUTDOWN chunk, or Shutdown::Read on this side.
PeerShutdown ==
    /\ alive /\ ~eof
    /\ eof' = TRUE
    /\ edge' = TRUE
    /\ UNCHANGED <<msgs, head, taken, alive, skerr, ready, fresh, reader, log,
                   cancels, async>>

\* The association fails: an error becomes pending. EPOLLERR alone need not
\* count as read readiness.
PeerAbort ==
    /\ alive
    /\ alive' = FALSE
    /\ skerr' = TRUE
    /\ edge' \in {edge, TRUE}
    /\ UNCHANGED <<msgs, head, taken, eof, ready, fresh, reader, log, cancels,
                   async>>

\* The driver fetches the event: readiness is set and the guards that are
\* out become stale, so that they can no longer clear it.
driver_event ==
    /\ edge
    /\ edge' = FALSE
    /\ ready' = TRUE
    /\ fresh' = [r \in Readers |-> FALSE]
    /\ UNCHANGED <<kernel, reader, log, cancels, async>>

-----------------------------------------------------------------------------
(* Results of one recvmsg(2).                                              *)

Queued == head <= Len(msgs)
HeadIsNotif == Queued /\ msgs[head].kind = "notif"
Left == msgs[head].len - taken

\* Mutant: the buffer is announced one byte too short.
Copied_short(room) == IF room <= Left THEN room - 1 ELSE Left

\* recvmsg copies what fits and pushes the rest back to the head of the queue.
Copied(room) == IF room < Left THEN room ELSE Left

Consume(n) ==
    /\ head' = IF n = Left THEN head + 1 ELSE head
    /\ taken' = IF n = Left THEN 0 ELSE taken + n
    /\ UNCHANGED <<msgs, eof, alive, skerr>>

\* MSG_EOR of a receive of n bytes.
Eor(n) == n = Left /\ msgs[head].eor

\* The call is over and its locals are gone.
Return(r, result) ==
    /\ pc' = [pc EXCEPT ![r] = "idle"]
    /\ cap' = [cap EXCEPT ![r] = 0]
    /\ out' = [out EXCEPT ![r] = << >>]
    /\ over' = [over EXCEPT ![r] = FALSE]
    /\ ret' = [ret EXCEPT ![r] = result]

\* Mutant: SCTP_RECVRCVINFO is not set.
enable_rcvinfo_missing == FALSE

\* Every socket the crate creates, accepts or peels off asks for SCTP_RCVINFO.
enable_rcvinfo == TRUE

\* A Data result the caller must read as the end of the association:
\* Data { len: 0, info: None, .. }.
DataResult(n, info) == IF n = 0 /\ ~info THEN "eof" ELSE "ok"

-----------------------------------------------------------------------------
(* read_op and the blocking call.                                          *)

recv_msg_call(r) ==
    /\ pc[r] = "idle"
    /\ \E c \in Caps : cap' = [cap EXCEPT ![r] = c]
    /\ pc' = [pc EXCEPT ![r] = IF r \in async THEN "readable" ELSE "recvmsg"]
    /\ UNCHANGED <<kernel, tokio, out, over, ret, log, cancels, async>>

\* io.readable().await resolves.
readable(r) ==
    /\ pc[r] = "readable"
    /\ ready
    /\ pc' = [pc EXCEPT ![r] = "recvmsg"]
    /\ fresh' = [fresh EXCEPT ![r] = TRUE]
    /\ UNCHANGED <<kernel, edge, ready, cap, out, over, ret, log, cancels, async>>

\* The only suspension point of the future is readable().await.
cancel(r) ==
    /\ pc[r] = "readable"
    /\ cancels < MaxCancels
    /\ cancels' = cancels + 1
    /\ Return(r, "none")
    /\ UNCHANGED <<kernel, tokio, log, async>>

\* Mutant: the readiness is cleared after every call, not only on WouldBlock.
try_io_done_clears(r, result) ==
    /\ Return(r, result)
    /\ ready' = FALSE
    /\ UNCHANGED <<edge, fresh>>

\* The closure of try_io succeeded or failed for good: read_op returns and
\* leaves the readiness as it is.
try_io_done(r, result) ==
    /\ Return(r, result)
    /\ UNCHANGED tokio

\* The closure returned WouldBlock: an async reader goes on to clear the
\* readiness and retries with the same buffer, a blocking caller gets the
\* error (O_NONBLOCK, or SO_RCVTIMEO elapsed).
would_block(r) ==
    IF r \in async
    THEN /\ pc' = [pc EXCEPT ![r] = "clear"]
         /\ out' = [out EXCEPT ![r] = << >>]
         /\ over' = [over EXCEPT ![r] = FALSE]
         /\ UNCHANGED <<tokio, cap, ret>>
    ELSE try_io_done(r, "wouldblock")

\* try_io clears the readiness, unless an event came in after the guard was
\* taken, and the loop of read_op awaits readable() again.
clear_ready(r) ==
    /\ pc[r] = "clear"
    /\ ready' = IF fresh[r] THEN FALSE ELSE ready
    /\ fresh' = [fresh EXCEPT ![r] = FALSE]
    /\ pc' = [pc EXCEPT ![r] = "readable"]
    /\ UNCHANGED <<kernel, edge, cap, out, over, ret, log, cancels, async>>

\* Nothing queued: a pending error is returned and cleared, RCV_SHUTDOWN
\* reads as length 0 without a control message, else WouldBlock.
recv_empty(r) ==
    /\ ~Queued
    /\ \/ /\ skerr
          /\ skerr' = FALSE
          /\ UNCHANGED <<msgs, head, taken, eof, alive>>
          /\ try_io_done(r, "sockerr")
       \/ /\ ~skerr
          /\ eof
          /\ UNCHANGED kernel
          /\ try_io_done(r, IF pc[r] = "recvmsg" THEN DataResult(0, FALSE)
                                                 ELSE "desync")
       \/ /\ ~skerr
          /\ ~eof
          /\ UNCHANGED kernel
          /\ would_block(r)
    /\ UNCHANGED log

-----------------------------------------------------------------------------
(* imp::Socket::recv_msg.                                                  *)

recv_msg_empty(r) ==
    /\ pc[r] = "recvmsg"
    /\ recv_empty(r)
    /\ UNCHANGED <<cancels, async>>

recv_msg_data(r) ==
    /\ pc[r] = "recvmsg"
    /\ Queued
    /\ ~HeadIsNotif
    /\ LET n == Copied(cap[r])
       IN  /\ Consume(n)
           /\ try_io_done(r, DataResult(n, enable_rcvinfo))
           /\ log' = IF n = 0 THEN log
                     ELSE Append(log, GotData(Bytes(head, taken, n), Eor(n)))
    /\ UNCHANGED <<cancels, async>>

\* Mutant: MSG_EOR is not looked at and a first piece is parsed as a whole.
recv_msg_notification_no_eor(r) ==
    /\ pc[r] = "recvmsg"
    /\ HeadIsNotif
    /\ LET n == Copied(cap[r])
       IN  /\ Consume(n)
           /\ log' = Append(log, GotNotification(Bytes(head, taken, n)))
    /\ try_io_done(r, "ok")
    /\ UNCHANGED <<cancels, async>>

\* The notification ends within the caller's buffer: it is parsed there.
recv_msg_notification(r) ==
    /\ pc[r] = "recvmsg"
    /\ HeadIsNotif
    /\ LET n == Copied(cap[r])
       IN  /\ Eor(n)
           /\ Consume(n)
           /\ log' = Append(log, GotNotification(Bytes(head, taken, n)))
    /\ try_io_done(r, "ok")
    /\ UNCHANGED <<cancels, async>>

\* Mutant: reassembly starts although the notification is complete.
recv_msg_partial_no_eor(r) ==
    /\ pc[r] = "recvmsg"
    /\ HeadIsNotif
    /\ LET n == Copied(cap[r])
       IN  /\ Consume(n)
           /\ out' = [out EXCEPT ![r] = Bytes(head, taken, n)]
    /\ pc' = [pc EXCEPT ![r] = "reassemble"]
    /\ over' = [over EXCEPT ![r] = FALSE]
    /\ UNCHANGED <<tokio, cap, ret, log, cancels, async>>

\* It does not: reassemble_notification starts from the first n bytes.
recv_msg_partial(r) ==
    /\ pc[r] = "recvmsg"
    /\ HeadIsNotif
    /\ LET n == Copied(cap[r])
       IN  /\ ~Eor(n)
           /\ Consume(n)
           /\ out' = [out EXCEPT ![r] = Bytes(head, taken, n)]
    /\ pc' = [pc EXCEPT ![r] = "reassemble"]
    /\ over' = [over EXCEPT ![r] = FALSE]
    /\ UNCHANGED <<tokio, cap, ret, log, cancels, async>>

-----------------------------------------------------------------------------
(* imp::Socket::reassemble_notification: one step per turn of its loop.    *)

\* Mutant: `oversized' reflects the last chunk only.
Oversized_last_chunk(r, n) == Len(out[r]) + n > MaxNotification

\* `oversized' is sticky: once a chunk was skipped the notification is lost.
Oversized(r, n) == over[r] \/ Len(out[r]) + n > MaxNotification

\* A chunk is appended unless it takes `out' over the cap.
Extended(r, n) ==
    IF Len(out[r]) + n > MaxNotification THEN out[r]
    ELSE out[r] \o Bytes(head, taken, n)

reassemble_chunk(r) ==
    /\ pc[r] = "reassemble"
    /\ HeadIsNotif
    /\ LET n == Copied(Scratch)
       IN  /\ ~Eor(n)
           /\ Consume(n)
           /\ out' = [out EXCEPT ![r] = Extended(r, n)]
           /\ over' = [over EXCEPT ![r] = Oversized(r, n)]
    /\ UNCHANGED <<tokio, pc, cap, ret, log, cancels, async>>

\* Mutant: MSG_NOTIFICATION is not checked on the pieces that follow.
reassemble_last_unchecked(r) ==
    /\ pc[r] = "reassemble"
    /\ Queued
    /\ LET n == Copied(Scratch)
       IN  /\ Eor(n)
           /\ Consume(n)
           /\ log' = Append(log, GotNotification(Extended(r, n)))
           /\ try_io_done(r, "ok")
    /\ UNCHANGED <<cancels, async>>

reassemble_last(r) ==
    /\ pc[r] = "reassemble"
    /\ HeadIsNotif
    /\ LET n == Copied(Scratch)
       IN  /\ Eor(n)
           /\ Consume(n)
           /\ IF Oversized(r, n)
              THEN /\ log' = Append(log, GotDiscarded)
                   /\ try_io_done(r, "oversized")
              ELSE /\ log' = Append(log, GotNotification(Extended(r, n)))
                   /\ try_io_done(r, "ok")
    /\ UNCHANGED <<cancels, async>>

\* Mutant: the loop skips what is not part of the notification and goes on.
reassemble_desync_skips(r) ==
    /\ pc[r] = "reassemble"
    /\ Queued
    /\ ~HeadIsNotif
    /\ Consume(Copied(Scratch))
    /\ UNCHANGED <<tokio, reader, log, cancels, async>>

\* User data where the rest of the notification should be: the bytes just
\* read and those in `out' are dropped.
reassemble_desync(r) ==
    /\ pc[r] = "reassemble"
    /\ Queued
    /\ ~HeadIsNotif
    /\ Consume(Copied(Scratch))
    /\ try_io_done(r, "desync")
    /\ UNCHANGED <<log, cancels, async>>

reassemble_empty(r) ==
    /\ pc[r] = "reassemble"
    /\ recv_empty(r)
    /\ UNCHANGED <<cancels, async>>

-----------------------------------------------------------------------------
recv_msg(r) ==
    \/ recv_msg_empty(r)
    \/ recv_msg_data(r)
    \/ recv_msg_notification(r)
    \/ recv_msg_partial(r)

reassemble_notification(r) ==
    \/ reassemble_chunk(r)
    \/ reassemble_last(r)
    \/ reassemble_desync(r)
    \/ reassemble_empty(r)

read_op(r) ==
    \/ recv_msg_call(r)
    \/ readable(r)
    \/ recv_msg(r)
    \/ reassemble_notification(r)
    \/ clear_ready(r)

Kernel ==
    \/ \E msg \in Message : Arrive(msg)
    \/ PeerShutdown
    \/ PeerAbort

Next ==
    \/ Kernel
    \/ driver_event
    \/ \E r \in Readers : read_op(r) \/ cancel(r)

Spec == Init /\ [][Next]_vars

-----------------------------------------------------------------------------
(* Properties.                                                             *)

\* Every notification a call returns is one whole notification of the queue:
\* reassembly mixes no two messages and loses no byte in between.
NotificationsWhole ==
    \A i \in 1..Len(log) :
        log[i].kind = "notif" =>
            \E m \in 1..Len(msgs) :
                /\ msgs[m].kind = "notif"
                /\ log[i].bytes = Bytes(m, 0, msgs[m].len)

\* The claim above reassemble_notification: until MSG_EOR the rest of the
\* notification is at the head of the queue, so that the loop never finds
\* the queue empty (WouldBlock) or user data (desynchronized).
ReassemblyCannotBlock ==
    \A r \in Readers : pc[r] = "reassemble" => HeadIsNotif

\* "Refuse to mix user data into a notification rather than corrupt both
\* streams": even when concurrent readers tear a notification apart, no byte
\* of user data is ever parsed as part of one.
NeverMixed ==
    \A i \in 1..Len(log) : \A b \in 1..Len(log[i].bytes) :
        log[i].kind = msgs[log[i].bytes[b][1]].kind

\* A result that reads as end-of-association is one: the peer did shut down
\* and every byte of user data that it sent has been handed out, whatever
\* buffers the calls used.
EofIsFinal ==
    \A r \in Readers : ret[r] = "eof" =>
        /\ eof
        /\ \A m \in head..Len(msgs) : msgs[m].kind = "notif"

\* read_op never loses a wakeup: while something can be read, the readiness
\* is cached or an event that will set it is on its way.
ReadinessKept == Queued \/ eof => edge \/ ready

\* Strengthening of ReadinessKept that a step preserves: a reader about to
\* clear the readiness with a guard that is still fresh found the queue empty
\* after the last event, so whatever is there now has an event of its own.
WakeupInvariant ==
    /\ ReadinessKept
    /\ \A r \in Readers : pc[r] = "clear" /\ fresh[r] =>
            (Queued \/ eof => edge)

\* The receive path implements MessageQueue: a notification that is being
\* reassembled counts as not yet taken.
Reassembling == \E r \in Readers : pc[r] = "reassemble"

\* The two uses of a socket for which reassembly is safe: a single reader, or
\* buffers that every message fits.
Unshared ==
    \/ \A r, s \in Readers : r = s
    \/ \A c \in Caps, n \in Lens : n <= c

\* What a step preserves when the socket is used so: a reassembly is alone,
\* the rest of its notification is at the head of the queue and `out' holds
\* exactly the bytes taken from it, unless the cap was exceeded; no other
\* notification is ever taken in part.
ReassemblyInvariant ==
    /\ \A m \in 1..Len(msgs) : msgs[m].kind = "notif" => msgs[m].eor
    /\ \A r \in Readers : pc[r] \in {"readable", "recvmsg", "clear"} =>
            cap[r] \in Caps
    /\ \A r \in Readers : pc[r] = "reassemble" =>
            /\ HeadIsNotif
            /\ \A s \in Readers : s = r
            /\ Len(out[r]) <= taken
            /\ ~over[r] => out[r] = Bytes(head, 0, taken)
            /\ over[r] => msgs[head].len > MaxNotification
    /\ HeadIsNotif /\ ~Reassembling => taken = 0

Queue == INSTANCE MessageQueue WITH
            taken <- IF Reassembling THEN 0 ELSE taken,
            open <- alive /\ ~eof

ImplementsQueue == Queue!Spec

\* The tokio driver keeps running, and callers keep receiving: a reader that
\* can take a step eventually takes one. Nothing is assumed of the kernel,
\* and cancellation is never forced.
Fairness ==
    /\ WF_vars(driver_event)
    /\ \A r \in Readers : WF_vars(read_op(r))

FairSpec == Spec /\ Fairness

\* Byte i of message m has left the queue; a call has returned it as user data.
Passed(m, i) == m < head \/ (m = head /\ i <= taken)

HandedOut(m, i) ==
    \E k \in 1..Len(log) :
        /\ log[k].kind = "data"
        /\ \E j \in 1..Len(log[k].bytes) : log[k].bytes[j] = <<m, i>>

\* What a step takes off the queue it hands out, or it ends a reassembly with
\* the error "reassembly desynchronized".
TakenIsReported ==
    \A m \in 1..Len(msgs) : \A i \in 1..msgs[m].len :
        msgs[m].kind = "data" /\ ~Passed(m, i) /\ Passed(m, i)' =>
            \/ HandedOut(m, i)'
            \/ \E r \in Readers : /\ pc[r] = "reassemble" /\ pc'[r] = "idle"
                                   /\ ret'[r] = "desync"

\* No byte of user data gets lost in silence, whatever buffers the calls use,
\* whichever of them is cancelled and however the readers disturb each other:
\* the call that takes it off the queue returns it, or else it returns the
\* error of reassemble_notification.
LossIsReported == [][TakenIsReported]_vars

\* Every message that arrives leaves the queue: no wakeup is lost, and neither
\* cancelled calls nor reassembly leave anything behind in it. What becomes of
\* its bytes is the subject of LossIsReported and NeverMixed.
Drained == \A m \in 1..MaxMsgs : Len(msgs) >= m ~> head > m
=============================================================================

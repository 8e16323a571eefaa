------------------------------- MODULE Sockets ------------------------------
(***************************************************************************)
(* The life of sockets and associations: SctpSocket (socket.rs), the tokio *)
(* types SctpListener, SctpEndpoint and SctpStream (net/), and what they   *)
(* do with descriptors in imp/kernel.rs: create, listen, connect,          *)
(* register, accept, peel off, shut down, abort, release, drop. accept,    *)
(* peeloff and connectx take several system calls; between them other      *)
(* tasks, peers and failures intervene.                                    *)
(*                                                                         *)
(* The kernel, the peers and tokio's reactor are external.                 *)
(***************************************************************************)
EXTENDS Naturals, FiniteSets

CONSTANTS
    Socks,   \* file descriptors
    Assocs,  \* associations
    Tasks,   \* tasks and threads that call accept, peeloff or connectx
    None,    \* no socket
    MaxOpened  \* bound: sockets opened other than by accept and peeloff

ASSUME NoneAssumption == None \notin Socks
ASSUME MaxOpenedAssumption == MaxOpened \in Nat

VARIABLES
    sk,     \* each descriptor: who owns it, and its socket's options
    state,  \* each association
    home,   \* the socket an association belongs to
    fate,   \* how far an association's way to a caller has come
    opened, \* sockets opened so far
    doomed, \* associations whose owner got Ok from abort or set_abort_on_drop
    pc,     \* each task's call to accept, peeloff or connectx
    on,     \* the socket it is called on
    new,    \* the socket it has obtained
    fresh   \* no event for that socket since the task's guard was taken

task == <<pc, on, new, fresh>>
vars == <<sk, opened, state, home, fate, doomed, task>>

Async == {"SctpListener", "SctpEndpoint", "SctpStream"}
Handles == Async \cup {"SctpSocket"}
Styles == {"OneToOne", "OneToMany"}

Closed == [owner |-> "closed", style |-> "OneToOne", refs |-> 0,
           listening |-> FALSE, nonblock |-> FALSE, rcvinfo |-> FALSE,
           foreign |-> FALSE, registered |-> FALSE, linger |-> FALSE,
           edge |-> FALSE, ready |-> FALSE]

Sock == [owner : Handles \cup {"closed", "call", "raw"}, style : Styles, refs : 0..2,
         listening : BOOLEAN, nonblock : BOOLEAN, rcvinfo : BOOLEAN,
         foreign : BOOLEAN, registered : BOOLEAN, linger : BOOLEAN,
         edge : BOOLEAN, ready : BOOLEAN]

TypeOK ==
    /\ sk \in [Socks -> Sock]
    /\ state \in [Assocs -> {"none", "setup", "failed", "queued", "up", "shutdown",
                          "aborted", "ended"}]
    /\ home \in [Assocs -> Socks \cup {None}]
    /\ fate \in [Assocs -> {"kernel", "call", "handed", "error"}]
    /\ doomed \subseteq Assocs
    /\ opened \in 0..MaxOpened
    /\ pc \in [Tasks -> {"idle", "readable", "accept4", "clear", "enable_rcvinfo",
                         "register", "established"}]
    /\ on \in [Tasks -> Socks \cup {None}]
    /\ new \in [Tasks -> Socks \cup {None}]
    /\ fresh \in [Tasks -> BOOLEAN]

Init ==
    /\ sk = [s \in Socks |-> Closed]
    /\ state = [a \in Assocs |-> "none"]
    /\ home = [a \in Assocs |-> None]
    /\ fate = [a \in Assocs |-> "kernel"]
    /\ doomed = {}
    /\ opened = 0
    /\ pc = [t \in Tasks |-> "idle"]
    /\ on = [t \in Tasks |-> None]
    /\ new = [t \in Tasks |-> None]
    /\ fresh = [t \in Tasks |-> FALSE]

-----------------------------------------------------------------------------
(* The kernel, the peers and the reactor (external).                       *)

Queue(s) == {a \in Assocs : home[a] = s /\ state[a] = "queued"}

\* A peer's handshake with a listening socket completes. Only a one-to-one
\* socket has an accept queue.
PeerConnects(a) ==
    /\ state[a] = "none"
    /\ \E s \in Socks :
        /\ sk[s].listening
        /\ home' = [home EXCEPT ![a] = s]
        /\ IF sk[s].style = "OneToOne"
           THEN /\ state' = [state EXCEPT ![a] = "queued"]
                /\ fate' = fate
                /\ sk' = [sk EXCEPT ![s].edge = @ \/ sk[s].registered]
           ELSE /\ state' = [state EXCEPT ![a] = "up"]
                /\ fate' = [fate EXCEPT ![a] = "handed"]
                /\ UNCHANGED sk
    /\ UNCHANGED <<doomed, opened, task>>

\* The handshake of a connect completes or fails.
HandshakeEnds(a) ==
    /\ state[a] = "setup"
    /\ \E outcome \in {"up", "failed"} : state' = [state EXCEPT ![a] = outcome]
    /\ UNCHANGED <<sk, home, fate, doomed, opened, task>>

\* The peer shuts the association down or aborts it, or autoclose ends it.
PeerLeaves(a) ==
    /\ state[a] \in {"queued", "up", "shutdown"}
    /\ state' = [state EXCEPT ![a] = "ended"]
    /\ UNCHANGED <<sk, home, fate, doomed, opened, task>>

driver_event(s) ==
    /\ sk[s].edge
    /\ sk' = [sk EXCEPT ![s].edge = FALSE, ![s].ready = TRUE]
    /\ fresh' = [t \in Tasks |-> IF on[t] = s THEN FALSE ELSE fresh[t]]
    /\ UNCHANGED <<state, home, fate, doomed, opened, pc, on, new>>

\* The effect of close(2): all associations of the socket end, with an ABORT
\* if SO_LINGER is zero, else gracefully; one being set up is deleted.
CloseSock(s) == sk' = [sk EXCEPT ![s] = Closed]

EndAssocs(s, linger) ==
    /\ state' = [a \in Assocs |->
                    IF home[a] # s \/ state[a] \notin {"setup", "queued", "up", "shutdown"}
                    THEN state[a]
                    ELSE IF state[a] = "setup" THEN "ended"
                    ELSE IF linger THEN "aborted" ELSE "shutdown"]
    /\ home' = [a \in Assocs |-> IF home[a] = s THEN None ELSE home[a]]

CloseAssocs(s) == EndAssocs(s, sk[s].linger)

-----------------------------------------------------------------------------
(* SctpSocket.                                                             *)

\* imp::Socket::new: socket(2), then enable_rcvinfo; should that fail the
\* descriptor is closed again and nothing has happened.
socket_new(s) ==
    /\ sk[s].owner = "closed"
    /\ opened < MaxOpened
    /\ opened' = opened + 1
    /\ \E style \in Styles :
        sk' = [sk EXCEPT ![s] = [Closed EXCEPT !.owner = "SctpSocket",
                    !.style = style, !.refs = 1, !.rcvinfo = TRUE]]
    /\ UNCHANGED <<state, home, fate, doomed, task>>

\* A descriptor from elsewhere: RCVINFO is not enabled, O_NONBLOCK as it is.
\* One that into_raw_fd gave away is as it was.
from_raw_fd(s) ==
    /\ \/ /\ sk[s].owner = "closed"
          /\ opened < MaxOpened
          /\ opened' = opened + 1
          /\ \E style \in Styles, nonblock \in BOOLEAN :
                sk' = [sk EXCEPT ![s] = [Closed EXCEPT !.owner = "SctpSocket",
                            !.style = style, !.refs = 1, !.nonblock = nonblock,
                            !.foreign = TRUE]]
       \/ /\ sk[s].owner = "raw"
          /\ sk' = [sk EXCEPT ![s].owner = "SctpSocket"]
          /\ UNCHANGED opened
    /\ UNCHANGED <<state, home, fate, doomed, task>>

\* A handle is moved, or dropped for good, only while no call borrows it.
Unborrowed(s) == \A t \in Tasks : on[t] # s

\* The descriptor stays open.
into_raw_fd(s) ==
    /\ sk[s].owner = "SctpSocket"
    /\ Unborrowed(s)
    /\ sk' = [sk EXCEPT ![s].owner = "raw"]
    /\ UNCHANGED <<opened, state, home, fate, doomed, task>>

listen(s) ==
    /\ sk[s].owner = "SctpSocket"
    /\ ~sk[s].listening
    /\ sk[s].style = "OneToOne" => \A a \in Assocs : home[a] # s
    /\ sk' = [sk EXCEPT ![s].listening = TRUE]
    /\ UNCHANGED <<state, home, fate, doomed, opened, task>>

\* The kernel refuses (EISCONN) a one-to-one socket that listens or has an
\* association. How connect and connectx wait is the subject of Connectx.
Connectable(s) ==
    sk[s].style = "OneToOne" =>
        /\ ~sk[s].listening
        /\ \A a \in Assocs : home[a] = s => state[a] \in {"failed", "ended"}

StartSetup(s, f) ==
    \E a \in Assocs :
        /\ state[a] = "none"
        /\ state' = [state EXCEPT ![a] = "setup"]
        /\ home' = [home EXCEPT ![a] = s]
        /\ fate' = [fate EXCEPT ![a] = f]

\* connect and connectx of SctpSocket and SctpEndpoint.
connectx(s) ==
    /\ sk[s].owner \in {"SctpSocket", "SctpEndpoint"}
    /\ Connectable(s)
    /\ StartSetup(s, "handed")
    /\ UNCHANGED <<sk, doomed, opened, task>>

set_nonblocking(s) ==
    /\ sk[s].owner = "SctpSocket"
    /\ \E nonblocking \in BOOLEAN : sk' = [sk EXCEPT ![s].nonblock = nonblocking]
    /\ UNCHANGED <<state, home, fate, doomed, opened, task>>

-----------------------------------------------------------------------------
(* Registration with tokio.                                                *)

\* Mutant: the socket keeps its mode.
register_keeps_mode(s, type) ==
    sk' = [sk EXCEPT ![s].owner = type, ![s].registered = TRUE, ![s].edge = TRUE]

\* register: O_NONBLOCK, then AsyncFd::new, which reports the current state.
register(s, type) ==
    sk' = [sk EXCEPT ![s].owner = type, ![s].nonblock = TRUE,
                     ![s].registered = TRUE, ![s].edge = TRUE]

\* from_socket consumes the SctpSocket: if the socket is of the wrong kind,
\* or cannot be registered, it is closed.
from_socket(s, type, accepted) ==
    /\ sk[s].owner = "SctpSocket"
    /\ Unborrowed(s)
    /\ \/ /\ accepted
          /\ register(s, type)
          /\ UNCHANGED <<state, home>>
       \/ CloseSock(s) /\ CloseAssocs(s)
    /\ UNCHANGED <<fate, doomed, opened, task>>

listener_from_socket(s) ==
    from_socket(s, "SctpListener", sk[s].style = "OneToOne" /\ sk[s].listening)

endpoint_from_socket(s) ==
    from_socket(s, "SctpEndpoint", sk[s].style = "OneToMany")

\* StreamBuilder::connectx and connectx_from_socket, up to the await in
\* established: they consume the socket, which is closed if anything fails.
stream_connectx(t, s) ==
    /\ pc[t] = "idle"
    /\ sk[s].owner = "SctpSocket"
    /\ Unborrowed(s)
    /\ \/ /\ sk[s].style = "OneToOne" /\ Connectable(s)
          /\ StartSetup(s, "call")
          /\ register(s, "call")
          /\ pc' = [pc EXCEPT ![t] = "established"]
          /\ new' = [new EXCEPT ![t] = s]
       \/ /\ CloseSock(s) /\ CloseAssocs(s)
          /\ UNCHANGED <<fate, pc, new>>
    /\ UNCHANGED <<doomed, opened, on, fresh>>

-----------------------------------------------------------------------------
(* accept and peeloff, and the end of connectx.                            *)

\* SctpListener::accept waits for readiness; SctpSocket::accept blocks, or
\* fails, in accept4.
accept(t, s) ==
    /\ pc[t] = "idle"
    /\ sk[s].owner \in {"SctpListener", "SctpSocket"}
    /\ sk[s].listening /\ sk[s].style = "OneToOne"
    /\ on' = [on EXCEPT ![t] = s]
    /\ pc' = [pc EXCEPT ![t] = IF sk[s].owner = "SctpListener" THEN "readable"
                                                              ELSE "accept4"]
    /\ UNCHANGED <<sk, state, home, fate, doomed, opened, new, fresh>>

readable(t) ==
    /\ pc[t] = "readable"
    /\ sk[on[t]].ready
    /\ pc' = [pc EXCEPT ![t] = "accept4"]
    /\ fresh' = [fresh EXCEPT ![t] = TRUE]
    /\ UNCHANGED <<sk, state, home, fate, doomed, opened, on, new>>

Finish(t) ==
    /\ pc' = [pc EXCEPT ![t] = "idle"]
    /\ on' = [on EXCEPT ![t] = None]
    /\ new' = [new EXCEPT ![t] = None]
    /\ fresh' = [fresh EXCEPT ![t] = FALSE]

\* Mutant: the future could also be dropped between accept4 and the
\* registration, its locals not being closed.
cancel_late(t) ==
    /\ pc[t] \in {"readable", "register"}
    /\ Finish(t)
    /\ UNCHANGED <<sk, state, home, fate, doomed, opened>>

\* readable().await is the only point at which the future can be dropped.
cancel(t) ==
    /\ pc[t] = "readable"
    /\ Finish(t)
    /\ UNCHANGED <<sk, state, home, fate, doomed, opened>>

\* A new descriptor s for association a, not yet wrapped in a handle; it is
\* non-blocking if it is meant for an SctpStream.
Obtain(t, s, a) ==
    /\ sk[s].owner = "closed"
    /\ sk' = [sk EXCEPT ![s] = [Closed EXCEPT !.owner = "call", !.refs = 1,
                    !.nonblock = sk[on'[t]].owner \in Async]]
    /\ state' = [state EXCEPT ![a] = IF @ = "queued" THEN "up" ELSE @]
    /\ home' = [home EXCEPT ![a] = s]
    /\ fate' = [fate EXCEPT ![a] = "call"]
    /\ new' = [new EXCEPT ![t] = s]
    /\ pc' = [pc EXCEPT ![t] = "enable_rcvinfo"]
    /\ UNCHANGED <<opened, doomed, fresh>>

accept4(t) ==
    /\ pc[t] = "accept4"
    /\ UNCHANGED on
    /\ \E s \in Socks, a \in Queue(on[t]) : Obtain(t, s, a)

\* No association is waiting: WouldBlock for a non-blocking socket.
accept4_would_block(t) ==
    /\ pc[t] = "accept4"
    /\ Queue(on[t]) = {}
    /\ sk[on[t]].nonblock
    /\ IF sk[on[t]].owner = "SctpListener"
       THEN /\ pc' = [pc EXCEPT ![t] = "clear"]
            /\ UNCHANGED <<on, new, fresh>>
       ELSE Finish(t)
    /\ UNCHANGED <<sk, state, home, fate, doomed, opened>>

\* ECONNABORTED, EINTR or no descriptor left: the queue is unchanged.
accept4_error(t) ==
    /\ pc[t] = "accept4"
    /\ Finish(t)
    /\ UNCHANGED <<sk, state, home, fate, doomed, opened>>

\* Mutant: whatever happened since the guard was taken, readiness is cleared.
clear_ready_stale(t) ==
    /\ pc[t] = "clear"
    /\ sk' = [sk EXCEPT ![on[t]].ready = FALSE]
    /\ fresh' = [fresh EXCEPT ![t] = FALSE]
    /\ pc' = [pc EXCEPT ![t] = "readable"]
    /\ UNCHANGED <<state, home, fate, doomed, opened, on, new>>

\* try_io and the next turn of read_op.
clear_ready(t) ==
    /\ pc[t] = "clear"
    /\ sk' = [sk EXCEPT ![on[t]].ready = @ /\ ~fresh[t]]
    /\ fresh' = [fresh EXCEPT ![t] = FALSE]
    /\ pc' = [pc EXCEPT ![t] = "readable"]
    /\ UNCHANGED <<state, home, fate, doomed, opened, on, new>>

\* SCTP_SOCKOPT_PEELOFF_FLAGS, also for an association being set up (connectx
\* returned its id) or shut down; an id that is not an association of the
\* socket is refused and nothing has happened.
peeloff(t, s) ==
    /\ pc[t] = "idle"
    /\ sk[s].owner \in {"SctpEndpoint", "SctpSocket"}
    /\ sk[s].style = "OneToMany"
    /\ on' = [on EXCEPT ![t] = s]
    /\ \E n \in Socks, a \in Assocs :
            /\ home[a] = s /\ state[a] \in {"setup", "up", "shutdown"}
            /\ Obtain(t, n, a)

Fate(t, f) ==
    fate' = [a \in Assocs |->
                IF home[a] = new[t] /\ fate[a] = "call" THEN f ELSE fate[a]]

\* The new socket is dropped on an early return, and the error returned.
GiveUp(t) ==
    /\ CloseSock(new[t])
    /\ CloseAssocs(new[t])
    /\ Fate(t, "error")
    /\ Finish(t)

\* Mutant: the option is left out for sockets from peeloff.
enable_rcvinfo_accept_only(t) == sk[on[t]].style = "OneToOne"

\* RCVINFO is switched on in every new socket, inherited or not.
enable_rcvinfo(t) == TRUE

\* The second step of accept_with_flags and peeloff_with_flags. It may fail,
\* as may the conversion of the peer's address in accept.
enable_rcvinfo_step(t) ==
    /\ pc[t] = "enable_rcvinfo"
    /\ \/ /\ sk[on[t]].owner \in Async
          /\ sk' = [sk EXCEPT ![new[t]].rcvinfo = enable_rcvinfo(t)]
          /\ pc' = [pc EXCEPT ![t] = "register"]
          /\ UNCHANGED <<state, home, fate, on, new, fresh>>
       \/ /\ sk[on[t]].owner \notin Async
          /\ sk' = [sk EXCEPT ![new[t]].rcvinfo = enable_rcvinfo(t),
                              ![new[t]].owner = "SctpSocket"]
          /\ Fate(t, "handed")
          /\ Finish(t)
          /\ UNCHANGED <<state, home>>
       \/ GiveUp(t)
    /\ UNCHANGED <<opened, doomed>>

\* SctpStream::from_nonblocking_imp.
register_nonblocking(t) ==
    /\ pc[t] = "register"
    /\ \/ /\ sk' = [sk EXCEPT ![new[t]].owner = "SctpStream",
                              ![new[t]].registered = TRUE, ![new[t]].edge = TRUE]
          /\ Fate(t, "handed")
          /\ Finish(t)
          /\ UNCHANGED <<state, home>>
       \/ GiveUp(t)
    /\ UNCHANGED <<opened, doomed>>

\* The outcome has been read: Ok unless the association never came up. The
\* subscription may fail to be withdrawn.
established(t) ==
    /\ pc[t] = "established"
    /\ \A a \in Assocs : home[a] = new[t] => state[a] # "setup"
    /\ \/ /\ \A a \in Assocs : home[a] = new[t] /\ fate[a] = "call" => state[a] # "failed"
          /\ sk' = [sk EXCEPT ![new[t]].owner = "SctpStream"]
          /\ Fate(t, "handed")
          /\ Finish(t)
          /\ UNCHANGED <<state, home>>
       \/ GiveUp(t)
    /\ UNCHANGED <<opened, doomed>>

\* Mutant: something else keeps the socket alive.
drop_connectx_kept(t) ==
    /\ pc[t] = "established"
    /\ Finish(t)
    /\ UNCHANGED <<sk, state, home, fate, doomed, opened>>

\* The future is dropped while it waits for the outcome.
drop_connectx(t) ==
    /\ pc[t] = "established"
    /\ GiveUp(t)
    /\ UNCHANGED <<opened, doomed>>

-----------------------------------------------------------------------------
(* The end of a socket.                                                    *)

\* The stream is put into an Arc and shared.
share(s) ==
    /\ sk[s].owner = "SctpStream"
    /\ sk[s].refs = 1
    /\ sk' = [sk EXCEPT ![s].refs = 2]
    /\ UNCHANGED <<state, home, fate, doomed, opened, task>>

drop(s) ==
    /\ sk[s].owner \in Handles
    /\ Unborrowed(s)
    /\ IF sk[s].refs > 1
       THEN /\ sk' = [sk EXCEPT ![s].refs = @ - 1]
            /\ UNCHANGED <<state, home>>
       ELSE CloseSock(s) /\ CloseAssocs(s)
    /\ UNCHANGED <<fate, doomed, opened, task>>

Of(s) == {a \in Assocs : home[a] = s}

set_abort_on_drop(s) ==
    /\ sk[s].owner = "SctpStream"
    /\ sk' = [sk EXCEPT ![s].linger = TRUE]
    /\ doomed' = doomed \cup Of(s)
    /\ UNCHANGED <<state, home, fate, opened, task>>

\* Mutant: the stream is closed before the option is set.
abort_graceful(s) ==
    /\ sk[s].owner = "SctpStream"
    /\ sk[s].refs = 1
    /\ CloseSock(s) /\ CloseAssocs(s)
    /\ doomed' = doomed \cup Of(s)
    /\ UNCHANGED <<fate, opened, task>>

\* abort consumes the stream: with the option set its drop aborts, and if
\* setting it fails the stream is dropped all the same.
abort(s) ==
    /\ sk[s].owner = "SctpStream"
    /\ sk[s].refs = 1
    /\ CloseSock(s)
    /\ \/ EndAssocs(s, TRUE) /\ doomed' = doomed \cup Of(s)
       \/ CloseAssocs(s) /\ UNCHANGED doomed
    /\ UNCHANGED <<fate, opened, task>>

\* Shutdown::Write or Both; Read does not concern the association, and a
\* one-to-many socket is refused.
shutdown(s) ==
    /\ sk[s].owner \in {"SctpStream", "SctpSocket"}
    /\ sk[s].style = "OneToOne"
    /\ \E a \in Assocs :
        /\ home[a] = s
        /\ state[a] = "up"
        /\ state' = [state EXCEPT ![a] = "shutdown"]
    /\ UNCHANGED <<sk, home, fate, doomed, opened, task>>

\* send_msg with SendFlags EOF or ABORT closes one association of a one-to-many
\* socket. What else send_msg does is the subject of SendPath.
send_close(s) ==
    /\ sk[s].owner \in {"SctpEndpoint", "SctpSocket"}
    /\ sk[s].style = "OneToMany"
    /\ \E a \in Assocs, to \in {"shutdown", "aborted"} :
        /\ home[a] = s
        /\ state[a] = "up" \/ (state[a] = "shutdown" /\ to = "aborted")
        /\ state' = [state EXCEPT ![a] = to]
    /\ UNCHANGED <<sk, home, fate, doomed, opened, task>>

-----------------------------------------------------------------------------
accept_step(t) ==
    \/ readable(t)
    \/ accept4(t)
    \/ accept4_would_block(t)
    \/ clear_ready(t)
    \/ enable_rcvinfo_step(t)
    \/ register_nonblocking(t)
    \/ established(t)

Next ==
    \/ \E a \in Assocs : PeerConnects(a) \/ HandshakeEnds(a) \/ PeerLeaves(a)
    \/ \E s \in Socks :
        \/ socket_new(s) \/ from_raw_fd(s) \/ listen(s) \/ set_nonblocking(s)
        \/ listener_from_socket(s) \/ endpoint_from_socket(s) \/ driver_event(s)
        \/ connectx(s) \/ into_raw_fd(s)
        \/ share(s) \/ drop(s) \/ set_abort_on_drop(s) \/ abort(s) \/ shutdown(s)
        \/ send_close(s)
    \/ \E t \in Tasks :
        \/ cancel(t) \/ drop_connectx(t) \/ accept4_error(t) \/ accept_step(t)
        \/ \E s \in Socks : accept(t, s) \/ peeloff(t, s) \/ stream_connectx(t, s)

Spec == Init /\ [][Next]_vars

-----------------------------------------------------------------------------
(* Properties.                                                             *)

\* A socket behind a tokio type is non-blocking and registered, however it
\* was obtained: no recv_msg, send_msg or accept on it can block the runtime.
AsyncNeverBlocks ==
    \A s \in Socks : sk[s].owner \in Async => sk[s].nonblock /\ sk[s].registered

\* recv_msg relies on RCVINFO, "enabled on every socket this crate creates or
\* obtains (accept/peeloff)", also when the listener or endpoint came from
\* elsewhere.
RcvInfoEverywhere ==
    \A s \in Socks : sk[s].owner \in Handles /\ ~sk[s].foreign => sk[s].rcvinfo

\* No association falls between two chairs: one that accept or peeloff took
\* over, or connectx began, is held by that call, by a handle of the program,
\* or is ended and reported as an error. Cancelling accept loses none, nor a
\* descriptor; "Cancelling this future drops the socket and any association in
\* progress" for connectx.
NoneStranded ==
    /\ \A a \in Assocs :
        /\ fate[a] = "call" =>
            \E t \in Tasks : new[t] = home[a]
                             /\ pc[t] \in {"enable_rcvinfo", "register", "established"}
        /\ fate[a] = "error" => state[a] \notin {"setup", "queued", "up"}
        /\ state[a] \in {"setup", "queued", "up"} => sk[home[a]].owner # "closed"
    /\ \A s \in Socks : sk[s].owner = "call" => \E t \in Tasks : new[t] = s

\* "Makes the final drop of this stream send an immediate ABORT": after abort
\* or set_abort_on_drop returned Ok, the step that closes the socket of an
\* association that is still there aborts it, also one that shutdown is ending.
AbortHonoured ==
    [][\A a \in doomed' :
          home[a] # None /\ home'[a] = None /\ state[a] \in {"up", "shutdown"}
            => state'[a] = "aborted"]_vars

\* An accept queue that is not empty is noticed: the listener's readiness is
\* cached or an event is on its way, also when one event stands for several
\* associations and several tasks accept.
QueueNoticed ==
    \A s \in Socks : sk[s].owner = "SctpListener" /\ Queue(s) # {} =>
        sk[s].edge \/ sk[s].ready
=============================================================================

------------------------------ MODULE Connectx ------------------------------
(***************************************************************************)
(* imp::Socket::connect and connectx (imp/kernel.rs) as SctpSocket and     *)
(* SctpEndpoint use them: several threads or tasks connect one socket,     *)
(* one-to-one or one-to-many, while a reader takes the notifications of    *)
(* its associations. The kernel looks at O_NONBLOCK when a call enters;    *)
(* connectx reads it again with F_GETFL after EINPROGRESS, to tell a       *)
(* connect that goes on in the background from one whose SO_SNDTIMEO       *)
(* expired. An association may be announced before the call that started   *)
(* it has returned its id.                                                 *)
(***************************************************************************)
EXTENDS Naturals, Sequences

CONSTANTS
    Threads,    \* the threads or tasks that connect
    Peers,
    MidCall,    \* may set_nonblocking run while another thread connects?
    MaxCalls,   \* bound: calls on the socket; its mode stays after the last
    MaxAssocs   \* bound: associations, the peers' own included

ASSUME MidCallAssumption == MidCall \in BOOLEAN
ASSUME BoundsAssumption == MaxCalls \in Nat /\ MaxAssocs \in Nat

VARIABLES
    style,       \* "one_to_one" or "one_to_many"
    nonblock,    \* O_NONBLOCK of the open file
    sndtimeo,    \* SO_SNDTIMEO is set
    subscribed,  \* AssocChange is subscribed for associations to come
    asocs,       \* the associations so far, by id
    queue,       \* CommUp and CantStartAssoc notifications waiting on the socket
    streamed,    \* those that a peel-off took along
    seen,        \* those the reader has read
    call,        \* each thread's call
    calls,       \* calls so far
    told         \* what connectx returned Ok for

socket == <<style, nonblock, sndtimeo, subscribed>>
kernel == <<asocs, queue, streamed>>
vars == <<socket, kernel, seen, call, calls, told>>

Ids == 1 .. Len(asocs)
PEER == 0   \* "call" of an association a peer set up

\* no: the call's number; at: the association it started; entered:
\* O_NONBLOCK as the kernel saw it; first: the program had subscribed.
Idle == [pc |-> "idle", fn |-> "none", no |-> 0, at |-> 0, entered |-> FALSE,
         first |-> FALSE, errno |-> "none", ret |-> "none", wanted |-> FALSE]

Init ==
    /\ style \in {"one_to_one", "one_to_many"}
    /\ nonblock \in BOOLEAN
    /\ sndtimeo \in BOOLEAN
    /\ subscribed = FALSE
    /\ asocs = << >>
    /\ queue = << >>
    /\ streamed = {}
    /\ seen = {}
    /\ call = [t \in Threads |-> Idle]
    /\ calls = 0
    /\ told = {}

-----------------------------------------------------------------------------
(* The kernel and the peers (external). An association copies the          *)
(* subscription when it is created; spent: its last INIT is sent.          *)

NewAssoc(p, no, state) ==
    [peer |-> p, call |-> no, state |-> state, notify |-> subscribed,
     peeled |-> FALSE, spent |-> FALSE]

News(id, change) == [id |-> id, change |-> change]

\* The association changes its state, and says so where it is subscribed.
Change(id, state, change) ==
    /\ asocs' = [asocs EXCEPT ![id].state = state,
                              ![id].spent = asocs[id].spent /\ state # "up"]
    /\ LET quiet == ~asocs[id].notify
           away == asocs[id].peeled
       IN  /\ queue' = IF quiet \/ away THEN queue
                       ELSE Append(queue, News(id, change))
           /\ streamed' = IF quiet \/ ~away THEN streamed
                          ELSE streamed \cup {News(id, change)}

\* No answer so far: the INIT is sent for the last time. Only a thread that
\* waits for this association ever sees it.
LastAttempt(id) ==
    /\ \E t \in Threads : call[t].pc = "wait" /\ call[t].at = id
    /\ asocs[id].state = "setup"
    /\ ~asocs[id].spent
    /\ asocs' = [asocs EXCEPT ![id].spent = TRUE]
    /\ UNCHANGED <<socket, queue, streamed, seen, call, calls, told>>

HandshakeEnds(id) ==
    /\ asocs[id].state = "setup"
    /\ Change(id, "up", "CommUp") \/ Change(id, "failed", "CantStartAssoc")
    /\ UNCHANGED <<socket, seen, call, calls, told>>

\* What is announced after CommUp is not followed.
Ends(id, state) ==
    /\ asocs' = [asocs EXCEPT ![id].state = state]
    /\ UNCHANGED <<queue, streamed>>

PeerLeaves(id) ==
    /\ asocs[id].state = "up"
    /\ Ends(id, "over")
    /\ UNCHANGED <<socket, seen, call, calls, told>>

Alive(p) == {id \in Ids : asocs[id].peer = p /\ asocs[id].state \in {"setup", "up"}}

\* An endpoint listens: a peer sets up an association of its own.
PeerConnects(p) ==
    /\ style = "one_to_many"
    /\ Len(asocs) < MaxAssocs
    /\ Alive(p) = {}
    /\ asocs' = Append(asocs, NewAssoc(p, PEER, "up"))
    /\ queue' = IF subscribed
                THEN Append(queue, News(Len(asocs) + 1, "CommUp")) ELSE queue
    /\ UNCHANGED <<socket, streamed, seen, call, calls, told>>

-----------------------------------------------------------------------------
(* The rest of the program, as far as it decides what becomes of an        *)
(* association: subscribe, read, and for ids it knows close and peel off.  *)

subscribe_event ==
    /\ ~subscribed
    /\ subscribed' = TRUE
    /\ UNCHANGED <<style, nonblock, sndtimeo, kernel, seen, call, calls, told>>

recv_msg ==
    /\ queue # << >>
    /\ seen' = seen \cup {Head(queue)}
    /\ queue' = Tail(queue)
    /\ UNCHANGED <<socket, asocs, streamed, call, calls, told>>

Known(id) == (\E r \in told : r.id = id) \/ (\E n \in seen : n.id = id)

\* A message with ABORT ends the handshake or the association; one with EOF
\* ends an association in the handshake without a notification.
send_msg_closing(id) ==
    /\ Known(id)
    /\ ~asocs[id].peeled
    /\ \/ /\ asocs[id].state = "setup"
          /\ Change(id, "failed", "CantStartAssoc")
       \/ /\ asocs[id].state = "setup"
          /\ Ends(id, "dropped")
       \/ /\ asocs[id].state = "up"
          /\ Ends(id, "over")
    /\ UNCHANGED <<socket, seen, call, calls, told>>

\* The queued notifications of the association move with it.
peeloff(id) ==
    LET moves(n) == n.id = id
        stays(n) == n.id # id
    IN  /\ style = "one_to_many"
        /\ Known(id)
        /\ asocs[id].state \in {"setup", "up"}
        /\ ~asocs[id].peeled
        /\ asocs' = [asocs EXCEPT ![id].peeled = TRUE]
        /\ queue' = SelectSeq(queue, stays)
        /\ streamed' = streamed \cup {queue[i] : i \in {j \in 1 .. Len(queue) : moves(queue[j])}}
        /\ UNCHANGED <<socket, seen, call, calls, told>>

-----------------------------------------------------------------------------
(* set_nonblocking: F_GETFL, then F_SETFL if the flags change.             *)

NewMode(saw, wanted) == IF saw = wanted THEN nonblock ELSE wanted

Undisturbed(t) == MidCall \/ \A u \in Threads \ {t} : call[u].pc = "idle"

set_nonblocking_getfl(t) ==
    /\ call[t].pc = "idle"
    /\ calls < MaxCalls
    /\ Undisturbed(t)
    /\ \E wanted \in BOOLEAN :
            call' = [call EXCEPT ![t].wanted = wanted,
                                 ![t].pc = IF nonblock THEN "saw_nonblocking"
                                                       ELSE "saw_blocking"]
    /\ UNCHANGED <<socket, kernel, seen, calls, told>>

set_nonblocking_setfl(t) ==
    /\ call[t].pc \in {"saw_nonblocking", "saw_blocking"}
    /\ nonblock' = NewMode(call[t].pc = "saw_nonblocking", call[t].wanted)
    /\ call' = [call EXCEPT ![t].pc = "idle", ![t].wanted = FALSE]
    /\ UNCHANGED <<style, sndtimeo, subscribed, kernel, seen, calls, told>>

-----------------------------------------------------------------------------
(* connect and connectx.                                                   *)

\* Another thread's set_nonblocking is over, unless MidCall.
Called(t) ==
    /\ call[t].pc = "idle"
    /\ MidCall \/ \A u \in Threads :
            call[u].pc \notin {"saw_nonblocking", "saw_blocking"}
    /\ calls < MaxCalls
    /\ calls' = calls + 1

connectx_no_addrs(t) ==
    /\ Called(t)
    /\ call' = [call EXCEPT ![t] = [Idle EXCEPT !.ret = "invalid_input"]]
    /\ UNCHANGED <<socket, kernel, seen, told>>

\* A one-to-one socket that was established stays so.
Established ==
    style = "one_to_one" /\ \E id \in Ids : asocs[id].state \in {"up", "over"}

\* Why the kernel refuses to connect to p.
Refusal(p) ==
    LET old == Alive(p)
        away(id) == asocs[id].peeled
        up(id) == asocs[id].state = "up"
    IN  IF Established \/ \E id \in old : up(id) /\ ~away(id) THEN "EISCONN"
        ELSE IF \E id \in old : away(id) THEN "EADDRNOTAVAIL"
        ELSE IF old # {} THEN "EALREADY"
        ELSE "none"

\* The call enters the kernel: refused, or the handshake starts; then a
\* non-blocking call is over and a blocking one waits.
enter(t, fn) ==
    \E p \in Peers :
        LET refusal == Refusal(p)
            begun == [Idle EXCEPT !.fn = fn, !.no = calls + 1, !.entered = nonblock,
                                  !.first = subscribed]
        IN  /\ Called(t)
            /\ \/ /\ refusal # "none"
                  /\ call' = [call EXCEPT ![t] = [begun EXCEPT !.pc = "error", !.errno = refusal]]
                  /\ UNCHANGED asocs
               \/ /\ refusal = "none"
                  /\ Len(asocs) < MaxAssocs
                  /\ asocs' = Append(asocs, NewAssoc(p, calls + 1, "setup"))
                  /\ call' = [call EXCEPT ![t] =
                        [begun EXCEPT !.at = Len(asocs) + 1,
                                      !.pc = IF nonblock THEN "error" ELSE "wait",
                                      !.errno = IF nonblock THEN "EINPROGRESS" ELSE "none"]]
            /\ UNCHANGED <<socket, queue, streamed, seen, told>>

connect_enter(t) == enter(t, "connect")
connectx_enter(t) == enter(t, "connectx")

\* sctp_wait_for_connect: established, failed, interrupted or timed out. An
\* association that is up and gone again before the thread runs has failed.
\* Without an answer to the last INIT the error is ETIMEDOUT.
wait_for_connect(t) ==
    /\ call[t].pc = "wait"
    /\ LET state == asocs[call[t].at].state
           ends(pc, errno) == call' = [call EXCEPT ![t].pc = pc, ![t].errno = errno]
       IN  \/ state = "up" /\ ends("done", "none")
           \/ /\ state \in {"failed", "over", "dropped"}
              /\ ends("error", IF asocs[call[t].at].spent THEN "ETIMEDOUT" ELSE "ECONNREFUSED")
           \/ state = "setup" /\ ends("error", "EINTR")
           \/ state = "setup" /\ sndtimeo /\ ends("error", "EINPROGRESS")
    /\ UNCHANGED <<socket, kernel, seen, calls, told>>

Return(t, ret) ==
    call' = [call EXCEPT ![t] = [Idle EXCEPT !.ret = ret, !.at = call[t].at,
                                             !.entered = call[t].entered]]

\* io::Error::last_os_error, told apart by its kind.
last_os_error(errno) == IF errno = "ETIMEDOUT" THEN "timed_out" ELSE "os_error"

connect_return(t) ==
    /\ call[t].fn = "connect"
    /\ \/ call[t].pc = "done" /\ Return(t, "ok")
       \/ call[t].pc = "error" /\ Return(t, last_os_error(call[t].errno))
    /\ UNCHANGED <<socket, kernel, seen, calls, told>>

\* The kernel writes the id on success and on EINPROGRESS.
Written(t) == IF call[t].errno \in {"none", "EINPROGRESS"} THEN call[t].at ELSE 0

\* Mutant: the id as it was before the call.
AssocIdOf_stale(t) == 0

AssocIdOf(t) == Written(t)

ReturnId(t) ==
    /\ Return(t, "ok")
    /\ told' = told \cup {[call |-> call[t].no, id |-> AssocIdOf(t),
                        first |-> call[t].first]}

connectx_ok(t) ==
    /\ call[t].fn = "connectx"
    /\ call[t].pc = "done"
    /\ ReturnId(t)
    /\ UNCHANGED <<socket, kernel, seen, calls>>

\* Mutant: EINPROGRESS always counts as success.
classify_connectx_error_ok(errno, fl_nonblock) ==
    IF errno = "EINPROGRESS" THEN "ok" ELSE last_os_error(errno)

\* Mutant: EINPROGRESS always counts as a timeout.
classify_connectx_error_late(errno, fl_nonblock) ==
    IF errno = "EINPROGRESS" THEN "timed_out" ELSE last_os_error(errno)

\* Mutant: a connect to the peer that is under way already counts as well.
classify_connectx_error_already(errno, fl_nonblock) ==
    IF errno \notin {"EINPROGRESS", "EALREADY"} THEN last_os_error(errno)
    ELSE IF fl_nonblock THEN "ok" ELSE "timed_out"

classify_connectx_error(errno, fl_nonblock) ==
    IF errno # "EINPROGRESS" THEN last_os_error(errno)
    ELSE IF fl_nonblock THEN "ok" ELSE "timed_out"

connectx_error(t) ==
    /\ call[t].fn = "connectx"
    /\ call[t].pc = "error"
    /\ LET ret == classify_connectx_error(call[t].errno, nonblock)
       IN  \/ ret = "ok" /\ ReturnId(t)
           \/ ret # "ok" /\ Return(t, ret) /\ UNCHANGED told
    /\ UNCHANGED <<socket, kernel, seen, calls>>

-----------------------------------------------------------------------------
connecting(t) ==
    \/ connectx_no_addrs(t) \/ connect_enter(t) \/ connectx_enter(t)
    \/ wait_for_connect(t)
    \/ connect_return(t) \/ connectx_ok(t) \/ connectx_error(t)

Next ==
    \/ \E t \in Threads : \/ connecting(t)
                          \/ set_nonblocking_getfl(t) \/ set_nonblocking_setfl(t)
    \/ \E id \in Ids : LastAttempt(id) \/ HandshakeEnds(id) \/ PeerLeaves(id)
    \/ \E p \in Peers : PeerConnects(p)
    \/ subscribe_event \/ recv_msg
    \/ \E id \in Ids : send_msg_closing(id) \/ peeloff(id)

Spec == Init /\ [][Next]_vars

\* The kernel's INIT timer bounds every handshake; the program has a task
\* that keeps reading. Calls are under no obligation to return.
FairSpec ==
    /\ Spec
    /\ \A id \in 1 .. MaxAssocs : WF_vars(id \in Ids /\ HandshakeEnds(id))
    /\ WF_vars(recv_msg)

-----------------------------------------------------------------------------
(* Properties.                                                             *)

\* "On a blocking socket this waits for establishment": a call that the
\* kernel treated as blocking returns Ok only once the association was up.
OkAfterBlockingMeansUp ==
    \A t \in Threads :
        call[t].pc = "idle" /\ call[t].ret = "ok" /\ ~call[t].entered
            => asocs[call[t].at].state \in {"up", "over"}

\* TimedOut is reported only to a caller that waited: until its send timeout
\* expired, or until the handshake was given up after the last INIT. So a
\* caller without a send timeout that gets TimedOut may connect again: the
\* association is gone.
TimedOutMeansWaited ==
    \A t \in Threads :
        call[t].ret = "timed_out" =>
            /\ ~call[t].entered
            /\ \/ sndtimeo
               \/ /\ asocs[call[t].at].spent
                  /\ asocs[call[t].at].state \in {"failed", "dropped"}

\* The id that connectx returns is that of the association this very call
\* started: not that of another call to the same peer, of an association the
\* peer set up, or of none. So whatever the reader may have read about the
\* association before the call returned carries the same id.
IdOfOwnAssociation ==
    \A r \in told : r.id \in Ids /\ asocs[r.id].call = r.call

\* SctpEndpoint::connectx: "success is announced by a CommUp notification
\* carrying the same id (subscribe first), failure by CantStartAssoc". Whoever
\* reads, before or after the call returned, finds one of the two under the
\* returned id, on the stream if the association was peeled off; not if
\* the program ended the handshake with EOF itself.
OutcomeAnnounced ==
    \A id \in 0 .. MaxAssocs :
        (\E r \in told : r.id = id /\ r.first)
            ~> \/ \E n \in seen \cup streamed : n.id = id
               \/ id \in Ids /\ asocs[id].state = "dropped"
=============================================================================

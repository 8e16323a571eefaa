------------------------------ MODULE Connect -------------------------------
(***************************************************************************)
(* Opening an SctpStream (net/stream.rs): StreamBuilder::connectx and      *)
(* SctpStream::connectx_from_socket subscribe to association changes,      *)
(* start a non-blocking connect and let established (net/common.rs) read   *)
(* the socket until the outcome is known; the builder then takes back a    *)
(* subscription that its caller did not ask for. After that the caller     *)
(* reads the stream.                                                       *)
(*                                                                         *)
(* The kernel's handshake, the peer and the receive queue are external.    *)
(* The readiness protocol under the reads is the subject of RecvPath; here *)
(* a read waits until there is something to report.                        *)
(***************************************************************************)
EXTENDS Naturals, Sequences

CONSTANTS
    MaxEvents,  \* bound: messages queued by kernel and peer
    Lossy,      \* the kernel may run out of memory for a notification
    Reused      \* connectx_from_socket may get a socket whose earlier
                \* connect failed, with that outcome still unread

ASSUME MaxEventsAssumption == MaxEvents \in Nat \ {0}
ASSUME FlagsAssumption == Lossy \in BOOLEAN /\ Reused \in BOOLEAN

VARIABLES
    via,      \* "builder" or "from_socket"
    style,    \* socket style handed to connectx_from_socket
    wants,    \* the caller itself subscribed to AssocChange
    others,   \* the caller subscribed to other notification types
    pc,       \* progress of the connect call, "stream" once it returned Ok
    result,   \* what it returned
    got,      \* what the caller received from the stream afterwards
    lost,     \* user data read by `established' and thrown away
    sub,      \* socket's AssocChange subscription (future associations)
    asub,     \* the association's copy of it
    asoc,     \* "none", "setup", "up", "closing" or "closed"
    queue,    \* the receive queue
    skerr,    \* pending socket error
    eof,      \* RCV_SHUTDOWN
    events,   \* messages queued so far
    dropped   \* the kernel could not allocate a notification

call == <<via, style, wants, others>>
backlog == <<events, dropped>>
kernel == <<sub, asub, asoc, queue, skerr, eof, backlog>>
vars == <<call, pc, result, got, lost, kernel>>

AssocChange == {"comm_up", "comm_lost", "cant_start", "restart", "shutdown_comp"}
Queueable == AssocChange \cup {"other", "data"}
Errors == {"invalid_input", "os_error", "refused", "unreachable", "reset",
           "could_not_establish", "closed_during_setup", "data_before_comm_up"}

TypeOK ==
    /\ via \in {"builder", "from_socket"}
    /\ style \in {"OneToOne", "OneToMany"}
    /\ wants \in BOOLEAN /\ others \in BOOLEAN
    /\ pc \in {"build", "register", "connectx", "established", "take_error",
               "unsubscribe", "stream", "failed", "cancelled"}
    /\ result \in {"none", "ok"} \cup Errors
    /\ got \in Seq(Queueable)
    /\ lost \in Nat
    /\ sub \in BOOLEAN /\ asub \in BOOLEAN
    /\ asoc \in {"none", "setup", "up", "closing", "closed"}
    /\ queue \in Seq(Queueable)
    /\ skerr \in {"none", "refused", "unreachable", "reset"}
    /\ eof \in BOOLEAN
    /\ events \in 0..MaxEvents
    /\ dropped \in BOOLEAN

Init ==
    /\ via \in {"builder", "from_socket"}
    /\ style \in {"OneToOne", "OneToMany"}
    /\ via = "builder" => style = "OneToOne"
    /\ others = FALSE
    /\ pc = "build"
    /\ result = "none"
    /\ got = << >>
    /\ lost = 0
    /\ asub = FALSE
    /\ asoc = "none"
    /\ skerr = "none"
    /\ eof = FALSE
    /\ dropped = FALSE
    /\ \/ /\ wants = FALSE
          /\ sub = FALSE
          /\ queue = << >>
          /\ events = 0
       \/ /\ Reused /\ via = "from_socket"
          /\ wants = TRUE
          /\ sub = TRUE
          /\ queue = <<"cant_start">>
          /\ events = 1

-----------------------------------------------------------------------------
(* The kernel and the peer (external).                                     *)

\* Notifications of association changes are queued only if the association
\* is subscribed at that moment; the decision is not revised later.
Post(new) ==
    /\ events + Len(new) <= MaxEvents
    /\ events' = events + Len(new)
    /\ queue' = queue \o new
    /\ UNCHANGED dropped

PostChange(state) ==
    \/ asub /\ Post(<<state>>)
    \/ ~asub /\ Post(<< >>)
    \/ Lossy /\ asub /\ dropped' = TRUE /\ UNCHANGED <<queue, events>>

\* COOKIE-ACK: the association is up, CommUp precedes everything else.
HandshakeDone ==
    /\ asoc = "setup"
    /\ asoc' = "up"
    /\ PostChange("comm_up")
    /\ UNCHANGED <<call, pc, result, got, lost, sub, asub, skerr, eof>>

\* The peer refuses, or the INIT retransmissions are used up: error and
\* notification appear together, under the socket lock.
HandshakeFails ==
    /\ asoc = "setup"
    /\ asoc' = "closed"
    /\ skerr' \in {"refused", "unreachable"}
    /\ PostChange("cant_start")
    /\ UNCHANGED <<call, pc, result, got, lost, sub, asub, eof>>

\* Another notification, e.g. a peer address that was confirmed.
OtherNotification ==
    /\ asoc \in {"setup", "up"}
    /\ others
    /\ events < MaxEvents - 1
    /\ Post(<<"other">>)
    /\ UNCHANGED <<call, pc, result, got, lost, sub, asub, asoc, skerr, eof>>

PeerData ==
    /\ asoc = "up"
    /\ Post(<<"data">>)
    /\ UNCHANGED <<call, pc, result, got, lost, sub, asub, asoc, skerr, eof>>

PeerRestart ==
    /\ asoc = "up"
    /\ PostChange("restart")
    /\ UNCHANGED <<call, pc, result, got, lost, sub, asub, asoc, skerr, eof>>

PeerShutdown ==
    /\ asoc = "up"
    /\ asoc' = "closing"
    /\ eof' = TRUE
    /\ UNCHANGED <<call, pc, result, got, lost, sub, asub, queue, skerr, backlog>>

ShutdownCompletes ==
    /\ asoc = "closing"
    /\ asoc' = "closed"
    /\ PostChange("shutdown_comp")
    /\ UNCHANGED <<call, pc, result, got, lost, sub, asub, skerr, eof>>

PeerAbort ==
    /\ asoc = "up"
    /\ asoc' = "closed"
    /\ skerr' = "reset"
    /\ PostChange("comm_lost")
    /\ UNCHANGED <<call, pc, result, got, lost, sub, asub, eof>>

\* One recvmsg(2) as recv_msg sees it: the head of the queue, else the
\* pending error (which is cleared), else end of file.
Readable == queue # << >> \/ skerr # "none" \/ eof

\* close(2): what is left of the association is torn down.
Drop ==
    /\ asoc' = IF asoc = "none" THEN "none" ELSE "closed"
    /\ queue' = << >>
    /\ skerr' = "none"
    /\ UNCHANGED <<sub, asub, eof, backlog>>

-----------------------------------------------------------------------------
(* Building and starting the connect.                                      *)

\* StreamBuilder::subscribe_events, or subscriptions made on the SctpSocket.
subscribe_events ==
    /\ pc = "build"
    /\ \E assoc_change, other \in BOOLEAN :
        /\ wants' = (wants \/ assoc_change)
        /\ sub' = (sub \/ assoc_change)
        /\ others' = (others \/ other)
    /\ UNCHANGED <<via, style, pc, result, got, lost, asub, asoc, queue, skerr,
                   eof, backlog>>

\* The call fails and its socket is dropped.
Fail(error) ==
    /\ pc' = "failed"
    /\ result' = error
    /\ UNCHANGED <<call, got, lost>>

\* Mutant: the builder does not subscribe, as if writability told the outcome.
connectx_subscribe_skipped ==
    /\ pc = "build"
    /\ style = "OneToOne"
    /\ pc' = "register"
    /\ UNCHANGED <<call, result, got, lost, kernel>>

\* The temporary subscription, made before the association exists.
connectx_subscribe ==
    /\ pc = "build"
    /\ style = "OneToOne"
    /\ sub' = IF via = "builder" /\ wants THEN sub ELSE TRUE
    /\ pc' = "register"
    /\ UNCHANGED <<call, result, got, lost, asub, asoc, queue, skerr, eof, backlog>>

\* Asking for the style or the subscription fails, where it is asked for.
connectx_subscribe_error ==
    /\ pc = "build"
    /\ via = "from_socket" \/ ~wants
    /\ Fail("os_error")
    /\ Drop

\* connectx_from_socket refuses a one-to-many socket.
connectx_wrong_style ==
    /\ pc = "build"
    /\ style # "OneToOne"
    /\ Fail("invalid_input")
    /\ Drop

\* O_NONBLOCK and registration with the reactor, which may fail.
register ==
    /\ pc = "register"
    /\ \/ /\ pc' = "connectx"
          /\ UNCHANGED <<call, result, got, lost, kernel>>
       \/ Fail("os_error") /\ Drop

\* imp::Socket::connectx on the non-blocking socket: no addresses, an error
\* at once, or EINPROGRESS, which counts as success. The new association
\* takes over the socket's subscriptions.
connectx ==
    /\ pc = "connectx"
    /\ \/ \E e \in {"invalid_input", "os_error"} : Fail(e) /\ Drop
       \/ /\ asoc' = "setup"
          /\ asub' = sub
          /\ skerr' = "none"
          /\ pc' = "established"
          /\ UNCHANGED <<call, result, got, lost, sub, queue, eof, backlog>>

-----------------------------------------------------------------------------
(* common::established.                                                    *)

\* Mutant: the temporary subscription is always taken back.
AfterCommUp_always == "unsubscribe"

\* Only the builder takes its subscription back, unless the caller asked for
\* AssocChange too.
AfterCommUp == IF via = "builder" /\ ~wants THEN "unsubscribe" ELSE "stream"

\* Mutant: any association change counts as establishment.
established_message_any ==
    /\ pc = "established"
    /\ queue # << >>
    /\ queue' = Tail(queue)
    /\ lost' = lost
    /\ pc' = AfterCommUp
    /\ result' = IF pc' = "stream" THEN "ok" ELSE "none"
    /\ UNCHANGED <<call, got, sub, asub, asoc, skerr, eof, backlog>>

\* Mutant: user data before CommUp is skipped like a notification.
established_message_skips_data ==
    /\ pc = "established"
    /\ queue # << >>
    /\ Head(queue) # "cant_start"
    /\ queue' = Tail(queue)
    /\ lost' = lost + (IF Head(queue) = "data" THEN 1 ELSE 0)
    /\ pc' = IF Head(queue) = "comm_up" THEN AfterCommUp ELSE pc
    /\ result' = IF pc' = "stream" THEN "ok" ELSE "none"
    /\ UNCHANGED <<call, got, sub, asub, asoc, skerr, eof, backlog>>

\* The outcome is reported by an AssocChange; other notifications are dropped.
established_message ==
    /\ pc = "established"
    /\ queue # << >>
    /\ LET msg == Head(queue)
       IN  \/ /\ msg = "comm_up"
              /\ pc' = AfterCommUp
              /\ result' = IF pc' = "stream" THEN "ok" ELSE "none"
              /\ queue' = Tail(queue)
              /\ UNCHANGED <<call, got, lost, sub, asub, asoc, skerr, eof, backlog>>
           \/ /\ msg \in {"comm_lost", "cant_start"}
              /\ pc' = "take_error"
              /\ queue' = Tail(queue)
              /\ UNCHANGED <<call, result, got, lost, sub, asub, asoc, skerr, eof,
                             backlog>>
           \/ /\ msg \in {"restart", "shutdown_comp", "other"}
              /\ queue' = Tail(queue)
              /\ UNCHANGED <<call, pc, result, got, lost, sub, asub, asoc, skerr,
                             eof, backlog>>
           \/ /\ msg = "data"
              /\ lost' = lost + 1
              /\ pc' = "failed"
              /\ result' = "data_before_comm_up"
              /\ UNCHANGED <<call, got>>
              /\ Drop

\* Nothing queued: recv_msg fails with the pending error, or reads length 0.
established_closed ==
    /\ pc = "established"
    /\ queue = << >>
    /\ Readable
    /\ Fail(IF skerr # "none" THEN skerr ELSE "closed_during_setup")
    /\ Drop

\* Mutant: the kernel's error is not fetched.
take_error_skipped ==
    /\ pc = "take_error"
    /\ Fail("could_not_establish")
    /\ Drop

\* The error behind the failure, or a generic one when there is none.
take_error ==
    /\ pc = "take_error"
    /\ Fail(IF skerr # "none" THEN skerr ELSE "could_not_establish")
    /\ Drop

\* The future is dropped at its only await, and the socket with it.
cancel ==
    /\ pc = "established"
    /\ pc' = "cancelled"
    /\ UNCHANGED <<call, result, got, lost>>
    /\ Drop

\* SCTP_EVENT with a future id on a one-to-one socket changes the current
\* association while there is one, else the socket.
unsubscribe ==
    /\ pc = "unsubscribe"
    /\ \/ /\ asub' = IF asoc = "closed" THEN asub ELSE FALSE
          /\ sub' = IF asoc = "closed" THEN FALSE ELSE sub
          /\ pc' = "stream"
          /\ result' = "ok"
          /\ UNCHANGED <<call, got, lost, asoc, queue, skerr, eof, backlog>>
       \/ Fail("os_error") /\ Drop

-----------------------------------------------------------------------------
(* The caller reads the established stream.                                *)

recv_msg ==
    /\ pc = "stream"
    /\ queue # << >>
    /\ got' = Append(got, Head(queue))
    /\ queue' = Tail(queue)
    /\ UNCHANGED <<call, pc, result, lost, sub, asub, asoc, skerr, eof, backlog>>

recv_msg_error ==
    /\ pc = "stream"
    /\ queue = << >>
    /\ skerr # "none"
    /\ skerr' = "none"
    /\ UNCHANGED <<call, pc, result, got, lost, sub, asub, asoc, queue, eof, backlog>>

-----------------------------------------------------------------------------
Handshake == HandshakeDone \/ HandshakeFails

Peer == OtherNotification \/ PeerData \/ PeerRestart \/ PeerShutdown
            \/ ShutdownCompletes \/ PeerAbort

Caller == connectx_subscribe \/ connectx_subscribe_error \/ connectx_wrong_style
            \/ register \/ connectx
            \/ established_message \/ established_closed \/ take_error
            \/ unsubscribe \/ recv_msg \/ recv_msg_error

Next == Handshake \/ Peer \/ subscribe_events \/ Caller \/ cancel

Spec == Init /\ [][Next]_vars

\* The runtime polls the future when there is something to read, and the
\* kernel's INIT timer ends every handshake.
FairSpec == Spec /\ WF_vars(Caller) /\ WF_vars(Handshake)

-----------------------------------------------------------------------------
(* Properties.                                                             *)

\* A stream is handed out only for an association that came up, and the
\* caller never sees the CommUp that announced it.
OkMeansEstablished ==
    /\ pc \in {"unsubscribe", "stream"} => asoc \in {"up", "closing", "closed"}
                                           /\ skerr \in {"none", "reset"}
    /\ \A i \in 1..Len(got) : got[i] # "comm_up"

\* "Nothing else can be delivered before CommUp, so consuming notifications
\* here cannot swallow user data", as long as the kernel has the memory to
\* queue CommUp.
NoDataSwallowed == ~dropped => lost = 0

\* Should user data come first after all (a CommUp that was never queued),
\* the connect fails: data is not lost behind the caller's back.
NoSilentLoss == lost > 0 => result = "data_before_comm_up" /\ asoc = "closed"

\* The outcome `established' acts on is the outcome of this connect: it does
\* not give up an association whose handshake is still under way.
FailureIsReal == pc = "take_error" => asoc = "closed"

\* A connect that the peer or the network refused reports the kernel's
\* error, not the generic one.
CauseReported ==
    ~dropped => result \notin {"could_not_establish", "closed_during_setup"}

\* The caller's own subscription survives the connect, and the temporary one
\* does not; connectx_from_socket documents that it stays enabled.
SubscriptionRestored ==
    pc = "stream" /\ asoc \in {"up", "closing"} =>
        (asub <=> (wants \/ via = "from_socket"))

\* "Notifications arrive only for subscribed event types": a caller of the
\* builder who never subscribed to AssocChange receives none.
OnlySubscribed ==
    via = "builder" /\ ~wants => \A i \in 1..Len(got) : got[i] \notin AssocChange

\* A connect call ends: no outcome of the handshake goes unnoticed, unless
\* the kernel could not tell it.
ConnectEnds ==
    pc = "established" ~> dropped \/ pc \in {"stream", "failed", "cancelled"}
=============================================================================

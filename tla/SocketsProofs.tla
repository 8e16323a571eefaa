---------------------------- MODULE SocketsProofs ---------------------------
(***************************************************************************)
(* Theorems about Sockets, for every set of descriptors, associations and  *)
(* tasks.                                                                  *)
(***************************************************************************)
EXTENDS Sockets, TLAPS

USE NoneAssumption, MaxOpenedAssumption DEF NoneAssumption, MaxOpenedAssumption

-----------------------------------------------------------------------------
(* The inductive invariant.                                                *)

\* A closed descriptor has no options left, what accept, peeloff or connectx
\* obtained does not listen, and the options of sockets in a handle are right.
\* A socket that into_raw_fd gave away keeps them: from_raw_fd may bring it back.
SockInvariant ==
    \A s \in Socks :
        /\ sk[s].owner = "closed" => sk[s] = Closed
        /\ sk[s].owner \in {"SctpStream", "call"} => ~sk[s].listening
        /\ sk[s].owner \in Async => sk[s].nonblock /\ sk[s].registered
        /\ sk[s].owner \in Handles \cup {"raw"} /\ ~sk[s].foreign => sk[s].rcvinfo

\* A call borrows a handle, which keeps its type, and holds at most one socket
\* that no one else has, prepared as far as the call has come.
Borrowing == {"readable", "accept4", "clear", "enable_rcvinfo", "register"}

Holding == {"enable_rcvinfo", "register", "established"}

TaskShape(t) ==
    /\ IF pc[t] \in Borrowing
       THEN /\ on[t] \in Socks
            /\ sk[on[t]].owner \in {"SctpListener", "SctpEndpoint", "SctpSocket"}
       ELSE on[t] = None
    /\ pc[t] \in {"readable", "clear"} => sk[on[t]].owner = "SctpListener"
    /\ IF pc[t] \in Holding
       THEN new[t] \in Socks /\ sk[new[t]].owner = "call"
       ELSE new[t] = None
    /\ pc[t] = "enable_rcvinfo" /\ sk[on[t]].owner \in Async => sk[new[t]].nonblock
    /\ pc[t] = "register" => sk[new[t]].nonblock /\ sk[new[t]].rcvinfo
    /\ pc[t] = "established" =>
        /\ sk[new[t]].nonblock /\ sk[new[t]].registered
        /\ sk[new[t]].foreign \/ sk[new[t]].rcvinfo

TaskInvariant ==
    /\ \A t \in Tasks : TaskShape(t)
    /\ \A t, u \in Tasks : t # u /\ pc[t] \in Holding => new[t] # new[u]
    /\ \A s \in Socks : sk[s].owner = "call" => \E t \in Tasks : new[t] = s

\* An association that is not over belongs to an open socket of a kind that
\* can have it.
AssocInvariant ==
    \A a \in Assocs :
        /\ state[a] = "none" => home[a] = None /\ fate[a] = "kernel"
        /\ state[a] \in {"setup", "queued", "up"} => home[a] # None
        /\ home[a] # None => sk[home[a]].owner # "closed"
        /\ state[a] = "queued" => sk[home[a]].listening

\* One that a call is working on belongs to the socket of that call.
FateInvariant ==
    \A a \in Assocs :
        /\ fate[a] = "call" =>
            /\ home[a] # None
            /\ \E t \in Tasks : new[t] = home[a] /\ pc[t] \in Holding
        /\ fate[a] = "error" => state[a] \notin {"setup", "queued", "up"}

\* One that the final drop must abort has no socket any more, or belongs to a
\* stream that lingers for no time.
AbortInvariant ==
    \A a \in doomed :
        /\ state[a] # "none"
        /\ home[a] # None => sk[home[a]].owner = "SctpStream" /\ sk[home[a]].linger

\* A task that is about to clear a listener's readiness with a valid guard saw
\* its queue empty, and an association queued since then has an event to come.
ClearInvariant ==
    \A t \in Tasks : pc[t] = "clear" /\ fresh[t] /\ Queue(on[t]) # {} => sk[on[t]].edge

OwnershipInvariant ==
    TypeOK /\ SockInvariant /\ TaskInvariant /\ AssocInvariant /\ FateInvariant

Inv == OwnershipInvariant /\ AbortInvariant /\ ClearInvariant /\ QueueNoticed

States == {"none", "setup", "failed", "queued", "up", "shutdown", "aborted", "ended"}

Fates == {"kernel", "call", "handed", "error"}

PCs == {"idle", "readable", "accept4", "clear", "enable_rcvinfo", "register", "established"}

-----------------------------------------------------------------------------
(* Type correctness.                                                       *)

\* A closed descriptor is a descriptor.
LEMMA ClosedType == Closed \in Sock
  BY DEF Closed, Sock, Handles, Async, Styles

\* Closing a socket and ending its associations is well typed.
LEMMA EndType ==
    ASSUME TypeOK, NEW s \in Socks, NEW linger \in BOOLEAN, CloseSock(s), EndAssocs(s, linger)
    PROVE  /\ sk' \in [Socks -> Sock]
           /\ state' \in [Assocs -> States]
           /\ home' \in [Assocs -> Socks \cup {None}]
  <1>1. sk' \in [Socks -> Sock]
    BY ClosedType DEF TypeOK, CloseSock
  <1>2. state' \in [Assocs -> States]
    BY DEF TypeOK, EndAssocs, States
  <1>3. home' \in [Assocs -> Socks \cup {None}]
    BY DEF TypeOK, EndAssocs
  <1> QED
    BY <1>1, <1>2, <1>3

LEMMA CloseType ==
    ASSUME TypeOK, NEW s \in Socks, CloseSock(s), CloseAssocs(s)
    PROVE  /\ sk' \in [Socks -> Sock]
           /\ state' \in [Assocs -> States]
           /\ home' \in [Assocs -> Socks \cup {None}]
  <1>1. sk[s].linger \in BOOLEAN
    BY DEF TypeOK, Sock
  <1> QED
    BY <1>1, EndType DEF CloseAssocs

\* Changing the owner or an option of a descriptor is well typed.
LEMMA OptionType ==
    ASSUME NEW r \in Sock, NEW o \in Handles \cup {"closed", "call", "raw"},
           NEW n \in 0..2, NEW b \in BOOLEAN
    PROVE  /\ [r EXCEPT !.owner = o] \in Sock
           /\ [r EXCEPT !.refs = n] \in Sock
           /\ [r EXCEPT !.listening = b] \in Sock
           /\ [r EXCEPT !.nonblock = b] \in Sock
           /\ [r EXCEPT !.rcvinfo = b] \in Sock
           /\ [r EXCEPT !.rcvinfo = b, !.owner = o] \in Sock
           /\ [r EXCEPT !.owner = o, !.registered = b, !.edge = b] \in Sock
           /\ [r EXCEPT !.owner = o, !.nonblock = b, !.registered = b, !.edge = b] \in Sock
           /\ [r EXCEPT !.linger = b] \in Sock
           /\ [r EXCEPT !.edge = b] \in Sock
           /\ [r EXCEPT !.ready = b] \in Sock
           /\ [r EXCEPT !.edge = FALSE, !.ready = TRUE] \in Sock
  BY ZenonT(30) DEF Sock

\* So is opening one.
LEMMA OpenType ==
    ASSUME NEW style \in Styles, NEW b \in BOOLEAN
    PROVE  /\ [Closed EXCEPT !.owner = "SctpSocket", !.style = style, !.refs = 1,
                    !.rcvinfo = TRUE] \in Sock
           /\ [Closed EXCEPT !.owner = "SctpSocket", !.style = style, !.refs = 1,
                    !.nonblock = b, !.foreign = TRUE] \in Sock
           /\ [Closed EXCEPT !.owner = "call", !.refs = 1, !.nonblock = b] \in Sock
  <1>1. /\ 1 \in 0..2 /\ style \in Styles
        /\ {"SctpSocket", "call"} \subseteq Handles \cup {"closed", "call", "raw"}
    BY DEF Handles
  <1>2. \A c \in Sock : [c EXCEPT !.owner = "SctpSocket", !.style = style, !.refs = 1,
                            !.rcvinfo = TRUE] \in Sock
    BY <1>1 DEF Sock
  <1>3. \A c \in Sock : [c EXCEPT !.owner = "SctpSocket", !.style = style, !.refs = 1,
                            !.nonblock = b, !.foreign = TRUE] \in Sock
    BY <1>1 DEF Sock
  <1>4. \A c \in Sock : [c EXCEPT !.owner = "call", !.refs = 1, !.nonblock = b] \in Sock
    BY <1>1 DEF Sock
  <1> QED
    BY <1>2, <1>3, <1>4, ClosedType

\* What one descriptor becomes determines the type of all.
LEMMA SockType ==
    ASSUME TypeOK, NEW s \in Socks, NEW r \in Sock, sk' = [sk EXCEPT ![s] = r]
    PROVE  sk' \in [Socks -> Sock]
  BY DEF TypeOK

LEMMA FinishType ==
    ASSUME TypeOK, NEW t \in Tasks, Finish(t)
    PROVE  /\ pc' \in [Tasks -> PCs]
           /\ on' \in [Tasks -> Socks \cup {None}]
           /\ new' \in [Tasks -> Socks \cup {None}]
           /\ fresh' \in [Tasks -> BOOLEAN]
  BY DEF TypeOK, Finish, PCs

LEMMA TypeInit == Init => TypeOK
  BY ClosedType DEF Init, TypeOK

LEMMA SocketActionsType ==
    ASSUME TypeOK, NEW s \in Socks,
           \/ socket_new(s) \/ from_raw_fd(s) \/ listen(s) \/ set_nonblocking(s)
           \/ driver_event(s) \/ into_raw_fd(s) \/ share(s) \/ set_abort_on_drop(s)
           \/ shutdown(s) \/ send_close(s)
    PROVE  TypeOK'
  <1>0. /\ sk[s] \in Sock /\ 2 \in 0..2
        /\ {"SctpSocket", "raw"} \subseteq Handles \cup {"closed", "call", "raw"}
    BY DEF TypeOK, Handles
  <1>1. CASE socket_new(s)
    <2>1. sk' \in [Socks -> Sock]
      BY <1>1, OpenType, SockType, TRUE \in BOOLEAN DEF socket_new
    <2>2. opened < MaxOpened /\ opened' = opened + 1
          /\ UNCHANGED <<state, home, fate, doomed, task>>
      BY <1>1 DEF socket_new
    <2>3. opened' \in 0..MaxOpened
      BY <2>2 DEF TypeOK
    <2> QED
      BY <2>1, <2>2, <2>3 DEF TypeOK, task
  <1>2. CASE from_raw_fd(s)
    <2>1. sk' \in [Socks -> Sock]
      <3>1. PICK r \in Sock : sk' = [sk EXCEPT ![s] = r]
        BY <1>0, <1>2, OpenType, OptionType DEF from_raw_fd
      <3> QED
        BY <3>1, SockType
    <2>2. (opened < MaxOpened /\ opened' = opened + 1) \/ opened' = opened
      BY <1>2 DEF from_raw_fd
    <2>3. opened' \in 0..MaxOpened
      BY <2>2 DEF TypeOK
    <2>4. UNCHANGED <<state, home, fate, doomed, task>>
      BY <1>2 DEF from_raw_fd
    <2> QED
      BY <2>1, <2>3, <2>4 DEF TypeOK, task
  <1>3. CASE listen(s) \/ set_nonblocking(s) \/ into_raw_fd(s) \/ share(s) \/ set_abort_on_drop(s)
    <2>1. PICK r \in Sock : sk' = [sk EXCEPT ![s] = r]
      BY <1>0, <1>3, OptionType
         DEF listen, set_nonblocking, into_raw_fd, share, set_abort_on_drop
    <2>2. sk' \in [Socks -> Sock]
      BY <2>1, SockType
    <2>3. doomed' \subseteq Assocs
      BY <1>3 DEF listen, set_nonblocking, into_raw_fd, share, set_abort_on_drop,
                  TypeOK, Of
    <2> QED
      BY <1>3, <2>2, <2>3 DEF listen, set_nonblocking, into_raw_fd, share,
                              set_abort_on_drop, TypeOK, task
  <1>4. CASE driver_event(s)
    <2>1. PICK r \in Sock : sk' = [sk EXCEPT ![s] = r]
      BY <1>0, <1>4, OptionType DEF driver_event
    <2>2. sk' \in [Socks -> Sock]
      BY <2>1, SockType
    <2>3. fresh' \in [Tasks -> BOOLEAN]
      BY <1>4 DEF driver_event, TypeOK
    <2> QED
      BY <1>4, <2>2, <2>3 DEF driver_event, TypeOK
  <1>5. CASE shutdown(s) \/ send_close(s)
    BY <1>5 DEF shutdown, send_close, TypeOK, task
  <1> QED
    BY <1>1, <1>2, <1>3, <1>4, <1>5

LEMMA AssocActionsType ==
    ASSUME TypeOK, NEW a \in Assocs, PeerConnects(a) \/ HandshakeEnds(a) \/ PeerLeaves(a)
    PROVE  TypeOK'
  <1>1. CASE PeerConnects(a)
    <2>1. PICK s \in Socks :
            /\ home' = [home EXCEPT ![a] = s]
            /\ state' \in {[state EXCEPT ![a] = "queued"], [state EXCEPT ![a] = "up"]}
            /\ fate' \in {fate, [fate EXCEPT ![a] = "handed"]}
            /\ sk' \in {sk, [sk EXCEPT ![s].edge = @ \/ sk[s].registered]}
            /\ UNCHANGED <<doomed, opened, task>>
      BY <1>1 DEF PeerConnects
    <2>2. sk[s].edge \in BOOLEAN /\ sk[s].registered \in BOOLEAN /\ sk[s] \in Sock
      BY DEF TypeOK, Sock
    <2>3. (sk[s].edge \/ sk[s].registered) \in BOOLEAN
      BY <2>2, Zenon
    <2>4. [sk[s] EXCEPT !.edge = @ \/ sk[s].registered] \in Sock
      BY <2>2, <2>3 DEF Sock
    <2>5. sk' \in [Socks -> Sock]
      BY <2>1, <2>4 DEF TypeOK
    <2> QED
      BY <2>1, <2>5 DEF TypeOK, task
  <1>2. CASE HandshakeEnds(a)
    BY <1>2 DEF HandshakeEnds, TypeOK, task
  <1>3. CASE PeerLeaves(a)
    BY <1>3 DEF PeerLeaves, TypeOK, task
  <1> QED
    BY <1>1, <1>2, <1>3

\* Registering a socket, or closing it, is well typed.
LEMMA RegisterType ==
    ASSUME TypeOK, NEW s \in Socks, NEW type \in Async \cup {"call"}, register(s, type)
    PROVE  sk' \in [Socks -> Sock]
  <1>1. sk[s] \in Sock /\ type \in Handles \cup {"closed", "call", "raw"} /\ 0 \in 0..2
    BY DEF TypeOK, Handles
  <1>2. [sk[s] EXCEPT !.owner = type, !.nonblock = TRUE, !.registered = TRUE,
                      !.edge = TRUE] \in Sock
    BY <1>1, OptionType
  <1> QED
    BY <1>2 DEF register, TypeOK

LEMMA HandleActionsType ==
    ASSUME TypeOK, NEW s \in Socks,
           \/ listener_from_socket(s) \/ endpoint_from_socket(s)
           \/ connectx(s) \/ drop(s) \/ abort(s)
    PROVE  TypeOK'
  <1>1. CASE listener_from_socket(s) \/ endpoint_from_socket(s)
    <2>1. PICK type \in Async :
            /\ \/ register(s, type) /\ UNCHANGED <<state, home>>
               \/ CloseSock(s) /\ CloseAssocs(s)
            /\ UNCHANGED <<fate, doomed, opened, task>>
      BY <1>1 DEF listener_from_socket, endpoint_from_socket, from_socket, Async
    <2>2. /\ sk' \in [Socks -> Sock]
          /\ state' \in [Assocs -> States]
          /\ home' \in [Assocs -> Socks \cup {None}]
      <3>1. CASE register(s, type) /\ UNCHANGED <<state, home>>
        BY <3>1, RegisterType DEF TypeOK, States
      <3>2. CASE CloseSock(s) /\ CloseAssocs(s)
        BY <3>2, CloseType
      <3> QED
        BY <2>1, <3>1, <3>2
    <2> QED
      BY <2>1, <2>2 DEF TypeOK, task, States
  <1>2. CASE connectx(s)
    BY <1>2 DEF connectx, StartSetup, TypeOK, task
  <1>3. CASE drop(s)
    <2>1. /\ \/ sk[s].refs > 1 /\ sk' = [sk EXCEPT ![s].refs = @ - 1] /\ UNCHANGED <<state, home>>
             \/ CloseSock(s) /\ CloseAssocs(s)
          /\ UNCHANGED <<fate, doomed, opened, task>>
      BY <1>3 DEF drop
    <2>2. /\ sk' \in [Socks -> Sock]
          /\ state' \in [Assocs -> States]
          /\ home' \in [Assocs -> Socks \cup {None}]
      <3>1. CASE sk[s].refs > 1 /\ sk' = [sk EXCEPT ![s].refs = @ - 1] /\ UNCHANGED <<state, home>>
        <4>1. sk[s] \in Sock /\ sk[s].refs \in 0..2
          BY DEF TypeOK, Sock
        <4>2. sk[s].refs - 1 \in 0..2
          BY <3>1, <4>1
        <4>3. [sk[s] EXCEPT !.refs = sk[s].refs - 1] \in Sock
          BY <4>1, <4>2 DEF Sock
        <4> QED
          BY <3>1, <4>3 DEF TypeOK, States
      <3>2. CASE CloseSock(s) /\ CloseAssocs(s)
        BY <3>2, CloseType
      <3> QED
        BY <2>1, <3>1, <3>2
    <2> QED
      BY <2>1, <2>2 DEF TypeOK, task, States
  <1>4. CASE abort(s)
    <2>1. /\ CloseSock(s) /\ UNCHANGED <<fate, opened, task>>
          /\ \/ EndAssocs(s, TRUE) /\ doomed' = doomed \cup Of(s)
             \/ CloseAssocs(s) /\ UNCHANGED doomed
      BY <1>4 DEF abort
    <2>2. sk' \in [Socks -> Sock]
      BY <2>1, ClosedType DEF CloseSock, TypeOK
    <2>3. state' \in [Assocs -> States] /\ home' \in [Assocs -> Socks \cup {None}]
          /\ doomed' \subseteq Assocs
      <3>1. CASE CloseAssocs(s) /\ UNCHANGED doomed
        BY <2>1, <3>1, CloseType DEF TypeOK
      <3>2. CASE EndAssocs(s, TRUE) /\ doomed' = doomed \cup Of(s)
        BY <2>1, <3>2, EndType, TRUE \in BOOLEAN DEF TypeOK, Of
      <3> QED
        BY <2>1, <3>1, <3>2
    <2> QED
      BY <2>1, <2>2, <2>3 DEF TypeOK, task, States
  <1> QED
    BY <1>1, <1>2, <1>3, <1>4

LEMMA GiveUpType ==
    ASSUME TypeOK, NEW t \in Tasks, new[t] \in Socks, GiveUp(t), UNCHANGED <<opened, doomed>>
    PROVE  TypeOK'
  <1>1. /\ sk' \in [Socks -> Sock]
        /\ state' \in [Assocs -> States]
        /\ home' \in [Assocs -> Socks \cup {None}]
    BY CloseType DEF GiveUp
  <1>2. fate' \in [Assocs -> Fates]
    BY DEF GiveUp, Fate, TypeOK, Fates
  <1>3. /\ pc' \in [Tasks -> PCs]
        /\ on' \in [Tasks -> Socks \cup {None}]
        /\ new' \in [Tasks -> Socks \cup {None}]
        /\ fresh' \in [Tasks -> BOOLEAN]
    BY FinishType DEF GiveUp
  <1> QED
    BY <1>1, <1>2, <1>3 DEF TypeOK, States, Fates, PCs

\* A socket that a call has prepared becomes a handle.
HandOver(t, r) ==
    /\ sk' = [sk EXCEPT ![new[t]] = r]
    /\ Fate(t, "handed")
    /\ Finish(t)
    /\ UNCHANGED <<state, home, opened, doomed>>

LEMMA HandOverType ==
    ASSUME TypeOK, NEW t \in Tasks, new[t] \in Socks, NEW r \in Sock, HandOver(t, r)
    PROVE  TypeOK'
  <1>1. sk' \in [Socks -> Sock]
    BY SockType DEF HandOver
  <1>2. fate' \in [Assocs -> Fates]
    BY DEF HandOver, Fate, TypeOK, Fates
  <1>3. /\ pc' \in [Tasks -> PCs]
        /\ on' \in [Tasks -> Socks \cup {None}]
        /\ new' \in [Tasks -> Socks \cup {None}]
        /\ fresh' \in [Tasks -> BOOLEAN]
    BY FinishType DEF HandOver
  <1> QED
    BY <1>1, <1>2, <1>3 DEF TypeOK, HandOver, Fates, PCs

-----------------------------------------------------------------------------
(* What the steps of each kind preserve.                                   *)

\* The sockets that calls borrow and hold.
LEMMA TaskFacts ==
    ASSUME TaskInvariant, NEW t \in Tasks
    PROVE  /\ on[t] # None => /\ pc[t] \in Borrowing /\ on[t] \in Socks
                              /\ sk[on[t]].owner \in {"SctpListener", "SctpEndpoint", "SctpSocket"}
           /\ new[t] # None => pc[t] \in Holding /\ new[t] \in Socks /\ sk[new[t]].owner = "call"
           /\ pc[t] \in Holding => new[t] \in Socks /\ sk[new[t]].owner = "call"
           /\ pc[t] \in Borrowing => on[t] \in Socks
  BY DEF TaskInvariant, TaskShape

\* A call whose sockets stay as they are is not disturbed.
LEMMA ShapeKept ==
    ASSUME NEW t \in Tasks, TaskShape(t),
           pc'[t] = pc[t], on'[t] = on[t], new'[t] = new[t],
           on[t] \in Socks => sk'[on[t]] = sk[on[t]],
           new[t] \in Socks => sk'[new[t]] = sk[new[t]]
    PROVE  TaskShape(t)'
  <1>1. CASE pc[t] \in Borrowing
    BY <1>1 DEF TaskShape, Borrowing, Holding
  <1>2. CASE pc[t] \notin Borrowing
    BY <1>2 DEF TaskShape, Borrowing, Holding
  <1> QED
    BY <1>1, <1>2

\* Options that change without changing what a descriptor is.
Keeps(s) ==
    /\ sk'[s].owner = sk[s].owner
    /\ sk[s].owner = "closed" => sk'[s] = sk[s]
    /\ sk'[s].foreign = sk[s].foreign /\ sk'[s].rcvinfo = sk[s].rcvinfo
    /\ sk'[s].registered = sk[s].registered
    /\ sk[s].owner # "SctpSocket" =>
        sk'[s].nonblock = sk[s].nonblock /\ sk'[s].listening = sk[s].listening
    /\ sk[s].listening => sk'[s].listening

\* A call to accept on a listener goes round its loop.
Loops(t) ==
    \/ pc'[t] = pc[t]
    \/ /\ pc[t] \in {"readable", "accept4", "clear"}
       /\ pc'[t] \in {"readable", "accept4", "clear"}
       /\ sk[on[t]].owner = "SctpListener"

LEMMA OptionsKeep ==
    ASSUME OwnershipInvariant, UNCHANGED <<state, home, fate, on, new>>,
           \A s \in Socks : Keeps(s), \A t \in Tasks : Loops(t)
    PROVE  SockInvariant' /\ TaskInvariant' /\ AssocInvariant' /\ FateInvariant'
  <1> SockInvariant /\ TaskInvariant /\ AssocInvariant /\ FateInvariant /\ TypeOK
    BY DEF OwnershipInvariant
  <1>1. \A t \in Tasks : /\ pc'[t] \in Holding <=> pc[t] \in Holding
                         /\ pc'[t] \in Borrowing <=> pc[t] \in Borrowing
                         /\ pc[t] \in Holding => pc'[t] = pc[t]
    BY DEF Loops, Holding, Borrowing
  <1>2. SockInvariant'
    BY DEF SockInvariant, Keeps, Closed, Async
  <1>3. TaskInvariant'
    <2>1. ASSUME NEW t \in Tasks PROVE TaskShape(t)'
      <3>1. on[t] \in Socks => Keeps(on[t])
        OBVIOUS
      <3>2. new[t] \in Socks => Keeps(new[t])
        OBVIOUS
      <3> QED
        BY <1>1, <3>1, <3>2 DEF TaskInvariant, TaskShape, Keeps, Loops, Borrowing, Holding
    <2>2. \A t, u \in Tasks : t # u /\ pc'[t] \in Holding => new'[t] # new'[u]
      BY <1>1 DEF TaskInvariant
    <2>3. \A s \in Socks : sk'[s].owner = "call" => \E t \in Tasks : new'[t] = s
      BY DEF TaskInvariant, Keeps
    <2> QED
      BY <2>1, <2>2, <2>3 DEF TaskInvariant
  <1>4. AssocInvariant'
    <2>1. \A a \in Assocs : home[a] # None => home[a] \in Socks /\ Keeps(home[a])
      BY DEF TypeOK
    <2>2. \A t \in Tasks : new[t] # None => pc'[t] = pc[t]
      BY <1>1, TaskFacts
    <2> QED
      BY <2>1, <2>2 DEF AssocInvariant, Keeps
  <1>5. FateInvariant'
    BY <1>1 DEF FateInvariant
  <1> QED
    BY <1>2, <1>3, <1>4, <1>5

\* Associations move on: they come up or fail, or begin to end.
Moves(a) ==
    \/ state'[a] = state[a]
    \/ state[a] = "setup" /\ state'[a] \in {"up", "failed"}
    \/ state[a] \in {"queued", "up", "shutdown"} /\ state'[a] \in {"shutdown", "aborted", "ended"}

LEMMA MovesKeep ==
    ASSUME OwnershipInvariant, UNCHANGED <<sk, home, fate, task>>, \A a \in Assocs : Moves(a)
    PROVE  SockInvariant' /\ TaskInvariant' /\ AssocInvariant' /\ FateInvariant'
  <1> SockInvariant /\ TaskInvariant /\ AssocInvariant /\ FateInvariant
    BY DEF OwnershipInvariant
  <1>1. SockInvariant' /\ TaskInvariant'
    BY DEF SockInvariant, TaskInvariant, TaskShape, task
  <1>2. AssocInvariant'
    BY DEF AssocInvariant, Moves, task
  <1>3. FateInvariant'
    BY DEF FateInvariant, Moves, task
  <1> QED
    BY <1>1, <1>2, <1>3

\* An association begins on an open socket.
LEMMA BeginsKeep ==
    ASSUME OwnershipInvariant, NEW a \in Assocs, NEW s \in Socks, state[a] = "none",
           sk[s].owner \notin {"closed", "call", "SctpStream"},
           home' = [home EXCEPT ![a] = s],
           \/ state' = [state EXCEPT ![a] = "queued"] /\ sk[s].listening
           \/ state' = [state EXCEPT ![a] = "up"]
           \/ state' = [state EXCEPT ![a] = "setup"],
           \/ fate' = fate
           \/ fate' = [fate EXCEPT ![a] = "handed"],
           \A x \in Socks : Keeps(x), UNCHANGED task
    PROVE  SockInvariant' /\ TaskInvariant' /\ AssocInvariant' /\ FateInvariant'
  <1> SockInvariant /\ TaskInvariant /\ AssocInvariant /\ FateInvariant /\ TypeOK
    BY DEF OwnershipInvariant
  <1>1. SockInvariant'
    BY DEF SockInvariant, Keeps, Closed, Async
  <1>2. TaskInvariant'
    <2>1. \A t \in Tasks : /\ on[t] \in Socks => Keeps(on[t])
                           /\ new[t] \in Socks => Keeps(new[t])
      OBVIOUS
    <2>2. UNCHANGED <<pc, on, new>>
      BY DEF task
    <2> QED
      BY <2>1, <2>2 DEF TaskInvariant, TaskShape, Keeps, Borrowing, Holding
  <1>3. \A b \in Assocs : b # a => state'[b] = state[b] /\ home'[b] = home[b] /\ fate'[b] = fate[b]
    BY DEF TypeOK
  <1>4. /\ home'[a] = s /\ state'[a] \in {"queued", "up", "setup"}
        /\ state'[a] = "queued" => sk[s].listening
        /\ fate'[a] \in {"kernel", "handed"}
    BY DEF TypeOK, AssocInvariant
  <1>5. \A t \in Tasks : new[t] # s
    BY TaskFacts
  <1>6. AssocInvariant'
    <2>1. \A b \in Assocs : home[b] # None => home[b] \in Socks /\ Keeps(home[b])
      BY DEF TypeOK
    <2>2. Keeps(s)
      OBVIOUS
    <2> QED
      BY <1>3, <1>4, <1>5, <2>1, <2>2 DEF AssocInvariant, Keeps, task
  <1>7. FateInvariant'
    BY <1>3, <1>4 DEF FateInvariant, task
  <1> QED
    BY <1>1, <1>2, <1>6, <1>7

\* A call to accept begins, or ends without a socket.
LEMMA CallsKeep ==
    ASSUME OwnershipInvariant, NEW t \in Tasks, pc[t] \notin Holding,
           UNCHANGED <<sk, state, home, fate, new>>,
           \/ /\ pc' = [pc EXCEPT ![t] = "idle"]
              /\ on' = [on EXCEPT ![t] = None]
           \/ \E s \in Socks :
                /\ on' = [on EXCEPT ![t] = s]
                /\ \/ /\ sk[s].owner = "SctpListener"
                      /\ pc' = [pc EXCEPT ![t] = "readable"]
                   \/ /\ sk[s].owner = "SctpSocket"
                      /\ pc' = [pc EXCEPT ![t] = "accept4"]
    PROVE  SockInvariant' /\ TaskInvariant' /\ AssocInvariant' /\ FateInvariant'
  <1> SockInvariant /\ TaskInvariant /\ AssocInvariant /\ FateInvariant /\ TypeOK
    BY DEF OwnershipInvariant
  <1>1. \A u \in Tasks : u # t => pc'[u] = pc[u] /\ on'[u] = on[u]
    BY DEF TypeOK
  <1>2. \/ pc'[t] = "idle" /\ on'[t] = None
        \/ pc'[t] = "readable" /\ on'[t] \in Socks /\ sk[on'[t]].owner = "SctpListener"
        \/ pc'[t] = "accept4" /\ on'[t] \in Socks /\ sk[on'[t]].owner = "SctpSocket"
    BY DEF TypeOK
  <1>3. new[t] = None
    BY TaskFacts
  <1>4. SockInvariant'
    BY DEF SockInvariant
  <1>5. TaskInvariant'
    <2>1. \A u \in Tasks : TaskShape(u)'
      BY <1>1, <1>2, <1>3 DEF TaskInvariant, TaskShape, Borrowing, Holding
    <2>2. \A u, v \in Tasks : u # v /\ pc'[u] \in Holding => new'[u] # new'[v]
      BY <1>1, <1>2 DEF TaskInvariant, Holding
    <2> QED
      BY <2>1, <2>2 DEF TaskInvariant
  <1>6. AssocInvariant' /\ FateInvariant'
    BY <1>1, <1>2, <1>3 DEF AssocInvariant, FateInvariant, Holding
  <1> QED
    BY <1>4, <1>5, <1>6

\* The owner of a descriptor changes while no call borrows it.
LEMMA OwnersKeep ==
    ASSUME OwnershipInvariant, NEW s \in Socks, NEW r \in Sock,
           sk' = [sk EXCEPT ![s] = r], UNCHANGED <<state, home, fate, task>>,
           sk[s].owner # "call", \A t \in Tasks : on[t] # s,
           r.owner \in (Handles \cup {"raw"}) \ {"SctpStream"},
           r.owner \in Async => r.nonblock /\ r.registered,
           r.foreign \/ r.rcvinfo,
           sk[s].listening => r.listening
    PROVE  SockInvariant' /\ TaskInvariant' /\ AssocInvariant' /\ FateInvariant'
  <1> SockInvariant /\ TaskInvariant /\ AssocInvariant /\ FateInvariant /\ TypeOK
    BY DEF OwnershipInvariant
  <1>1. sk'[s] = r /\ \A x \in Socks : x # s => sk'[x] = sk[x]
    BY DEF TypeOK
  <1>2. r.owner \notin {"closed", "call", "SctpStream"}
    BY DEF Handles, Async
  <1>3. UNCHANGED <<pc, on, new>>
    BY DEF task
  <1>4. \A t \in Tasks : /\ on[t] \in Socks => sk'[on[t]] = sk[on[t]]
                         /\ new[t] \in Socks => sk'[new[t]] = sk[new[t]]
    BY <1>1, TaskFacts
  <1>5. SockInvariant'
    BY <1>1, <1>2 DEF SockInvariant
  <1>6. TaskInvariant'
    <2>1. \A x \in Socks : sk'[x].owner = "call" => \E t \in Tasks : new'[t] = x
      BY <1>1, <1>2, <1>3 DEF TaskInvariant
    <2>2. \A t \in Tasks : TaskShape(t)'
      BY <1>3, <1>4, ShapeKept DEF TaskInvariant
    <2> QED
      BY <1>3, <2>1, <2>2 DEF TaskInvariant
  <1>7. AssocInvariant'
    <2>1. \A a \in Assocs : home[a] # None => home[a] \in Socks
      BY DEF TypeOK
    <2> QED
      BY <1>1, <1>2, <1>3, <2>1 DEF AssocInvariant
  <1>8. FateInvariant'
    BY <1>3 DEF FateInvariant
  <1> QED
    BY <1>5, <1>6, <1>7, <1>8

\* A socket is closed by its owner: its associations end and none is left.
LEMMA CloseKeeps ==
    ASSUME OwnershipInvariant, NEW s \in Socks, sk[s].owner # "call",
           \A t \in Tasks : on[t] # s, CloseSock(s), UNCHANGED <<fate, task>>,
           home' = [a \in Assocs |-> IF home[a] = s THEN None ELSE home[a]],
           \A a \in Assocs : home[a] # s => state'[a] = state[a],
           \A a \in Assocs : home[a] = s => state'[a] \notin {"none", "setup", "queued", "up"}
    PROVE  SockInvariant' /\ TaskInvariant' /\ AssocInvariant' /\ FateInvariant'
  <1> SockInvariant /\ TaskInvariant /\ AssocInvariant /\ FateInvariant /\ TypeOK
    BY DEF OwnershipInvariant
  <1>1. sk'[s] = Closed /\ \A x \in Socks : x # s => sk'[x] = sk[x]
    BY DEF TypeOK, CloseSock
  <1>2. Closed.owner = "closed" /\ Closed.owner \notin Handles \cup {"raw"}
    BY DEF Closed, Handles, Async
  <1>3. UNCHANGED <<pc, on, new>>
    BY DEF task
  <1>4. \A t \in Tasks : /\ on[t] \in Socks => sk'[on[t]] = sk[on[t]]
                         /\ new[t] \in Socks => sk'[new[t]] = sk[new[t]] /\ new[t] # s
    BY <1>1, TaskFacts
  <1>5. SockInvariant'
    BY <1>1, <1>2 DEF SockInvariant, Handles
  <1>6. TaskInvariant'
    <2>1. \A x \in Socks : sk'[x].owner = "call" => \E t \in Tasks : new'[t] = x
      BY <1>1, <1>2, <1>3 DEF TaskInvariant
    <2>2. \A t \in Tasks : TaskShape(t)'
      BY <1>3, <1>4, ShapeKept DEF TaskInvariant
    <2> QED
      BY <1>3, <2>1, <2>2 DEF TaskInvariant
  <1>7. \A a \in Assocs : home'[a] = IF home[a] = s THEN None ELSE home[a]
    OBVIOUS
  <1>8. AssocInvariant'
    <2>1. \A a \in Assocs : home[a] # None => home[a] \in Socks
      BY DEF TypeOK
    <2> QED
      BY <1>1, <1>3, <1>7, <2>1 DEF AssocInvariant
  <1>9. FateInvariant'
    <2>1. \A a \in Assocs : fate[a] = "call" => home[a] # s /\ home[a] # None
      BY <1>4, TaskFacts DEF FateInvariant
    <2> QED
      BY <1>3, <1>7, <2>1 DEF FateInvariant
  <1> QED
    BY <1>5, <1>6, <1>8, <1>9

\* close(2) ends every association of the socket.
LEMMA CloseEnds ==
    ASSUME TypeOK, AssocInvariant, NEW s \in Socks, CloseAssocs(s) \/ EndAssocs(s, TRUE)
    PROVE  /\ home' = [a \in Assocs |-> IF home[a] = s THEN None ELSE home[a]]
           /\ \A a \in Assocs : home[a] # s => state'[a] = state[a]
           /\ \A a \in Assocs : home[a] = s =>
                /\ state'[a] \notin {"none", "setup", "queued", "up"}
                /\ sk[s].linger /\ state[a] \in {"up", "shutdown"} => state'[a] = "aborted"
           /\ EndAssocs(s, TRUE) => \A a \in Assocs :
                home[a] = s /\ state[a] \in {"up", "shutdown"} => state'[a] = "aborted"
  BY DEF CloseAssocs, EndAssocs, TypeOK, AssocInvariant

\* accept4 or peeloff obtains a socket for an association.
LEMMA ObtainKeeps ==
    ASSUME OwnershipInvariant, NEW t \in Tasks, NEW s \in Socks, NEW a \in Assocs,
           pc[t] \notin Holding, Obtain(t, s, a), state[a] # "none", NEW from \in Socks,
           sk[from].owner \in {"SctpListener", "SctpEndpoint", "SctpSocket"},
           on' \in {on, [on EXCEPT ![t] = from]}, on'[t] = from
    PROVE  SockInvariant' /\ TaskInvariant' /\ AssocInvariant' /\ FateInvariant'
  <1> SockInvariant /\ TaskInvariant /\ AssocInvariant /\ FateInvariant /\ TypeOK
    BY DEF OwnershipInvariant
  <1>1. /\ \A x \in Socks : x # s => sk'[x] = sk[x]
        /\ sk'[s] = [Closed EXCEPT !.owner = "call", !.refs = 1,
                        !.nonblock = sk[on'[t]].owner \in Async]
    BY DEF Obtain, TypeOK
  <1>2. /\ sk'[s].owner = "call" /\ sk'[s].listening = FALSE
        /\ sk'[s].nonblock = (sk[from].owner \in Async)
    BY <1>1 DEF Closed
  <1>3. sk[s].owner = "closed"
    BY DEF Obtain
  <1>4. /\ from # s /\ \A u \in Tasks : on[u] # s /\ new[u] # s
        /\ \A b \in Assocs : home[b] # s
    BY <1>3, TaskFacts DEF AssocInvariant
  <1>5. /\ pc'[t] = "enable_rcvinfo" /\ new'[t] = s
        /\ \A u \in Tasks : u # t => pc'[u] = pc[u] /\ new'[u] = new[u] /\ on'[u] = on[u]
    BY DEF Obtain, TypeOK
  <1>6. /\ state'[a] \notin {"none", "queued"} /\ home'[a] = s /\ fate'[a] = "call"
        /\ \A b \in Assocs : b # a => state'[b] = state[b] /\ home'[b] = home[b] /\ fate'[b] = fate[b]
    BY DEF Obtain, TypeOK
  <1>7. SockInvariant'
    BY <1>1, <1>2, ZenonT(30) DEF SockInvariant, Handles, Async
  <1>8. TaskInvariant'
    <2>1. TaskShape(t)'
      BY <1>1, <1>2, <1>4, <1>5 DEF TaskShape, Borrowing, Holding
    <2>2. ASSUME NEW u \in Tasks, u # t PROVE TaskShape(u)'
      BY <1>1, <1>4, <1>5, <2>2, ShapeKept DEF TaskInvariant
    <2>3. \A u, v \in Tasks : u # v /\ pc'[u] \in Holding => new'[u] # new'[v]
      BY <1>4, <1>5 DEF TaskInvariant, Holding
    <2>4. \A x \in Socks : sk'[x].owner = "call" => \E u \in Tasks : new'[u] = x
      <3> SUFFICES ASSUME NEW x \in Socks, sk'[x].owner = "call"
                   PROVE  \E u \in Tasks : new'[u] = x
        OBVIOUS
      <3>1. CASE x = s
        BY <1>5, <3>1
      <3>2. CASE x # s
        <4>1. PICK u \in Tasks : new[u] = x
          BY <1>1, <3>2 DEF TaskInvariant
        <4>2. u # t
          BY <4>1, TaskFacts
        <4> QED
          BY <1>5, <4>1, <4>2
      <3> QED
        BY <3>1, <3>2
    <2> QED
      BY <2>1, <2>2, <2>3, <2>4 DEF TaskInvariant
  <1>9. AssocInvariant'
    <2>1. \A b \in Assocs : home[b] # None => home[b] \in Socks
      BY DEF TypeOK
    <2>2. /\ state'[a] \notin {"none", "queued"} /\ home'[a] # None
          /\ sk'[home'[a]].owner = "call"
      BY <1>2, <1>6
    <2>3. ASSUME NEW b \in Assocs, b # a
          PROVE  /\ state'[b] = state[b] /\ home'[b] = home[b] /\ fate'[b] = fate[b]
                 /\ home[b] # None => sk'[home[b]] = sk[home[b]]
      BY <1>1, <1>4, <1>6, <2>1, <2>3
    <2>4. \A b \in Assocs : b # a =>
            /\ state'[b] = "none" => home'[b] = None /\ fate'[b] = "kernel"
            /\ state'[b] \in {"setup", "queued", "up"} => home'[b] # None
            /\ home'[b] # None => sk'[home'[b]].owner # "closed"
            /\ state'[b] = "queued" => sk'[home'[b]].listening
      BY <2>3 DEF AssocInvariant
    <2> QED
      BY <2>2, <2>4 DEF AssocInvariant
  <1>10. FateInvariant'
    <2>1. new[t] = None
      BY TaskFacts
    <2> QED
      BY <1>5, <1>6, <2>1 DEF FateInvariant, Holding
  <1> QED
    BY <1>7, <1>8, <1>9, <1>10

\* connectx of a stream takes the socket over and begins to set up.
LEMMA ConnectKeeps ==
    ASSUME OwnershipInvariant, NEW t \in Tasks, NEW s \in Socks, NEW a \in Assocs,
           pc[t] = "idle", sk[s].owner = "SctpSocket", Unborrowed(s),
           sk[s].style = "OneToOne", Connectable(s), state[a] = "none",
           state' = [state EXCEPT ![a] = "setup"], home' = [home EXCEPT ![a] = s],
           fate' = [fate EXCEPT ![a] = "call"], register(s, "call"),
           pc' = [pc EXCEPT ![t] = "established"], new' = [new EXCEPT ![t] = s],
           on' = on
    PROVE  SockInvariant' /\ TaskInvariant' /\ AssocInvariant' /\ FateInvariant'
  <1> SockInvariant /\ TaskInvariant /\ AssocInvariant /\ FateInvariant /\ TypeOK
    BY DEF OwnershipInvariant
  <1>0. sk[s] \in Sock
    BY DEF TypeOK
  <1>1. /\ \A x \in Socks : x # s => sk'[x] = sk[x]
        /\ sk'[s].owner = "call" /\ sk'[s].listening = sk[s].listening
        /\ sk'[s].nonblock = TRUE /\ sk'[s].registered = TRUE
        /\ sk'[s].foreign = sk[s].foreign /\ sk'[s].rcvinfo = sk[s].rcvinfo
    BY <1>0 DEF register, TypeOK, Sock
  <1>2. /\ ~sk[s].listening
        /\ \A b \in Assocs : home[b] = s => state[b] \in {"failed", "ended"}
    BY DEF Connectable
  <1>3. sk[s].foreign \/ sk[s].rcvinfo
    BY DEF SockInvariant, Handles
  <1>4. \A u \in Tasks : on[u] # s /\ new[u] # s
    BY TaskFacts DEF Unborrowed
  <1>5. /\ pc'[t] = "established" /\ new'[t] = s /\ on'[t] = None
        /\ \A u \in Tasks : u # t => pc'[u] = pc[u] /\ new'[u] = new[u] /\ on'[u] = on[u]
    BY TaskFacts DEF TypeOK, Borrowing
  <1>6. /\ state'[a] = "setup" /\ home'[a] = s /\ fate'[a] = "call"
        /\ \A b \in Assocs : b # a => state'[b] = state[b] /\ home'[b] = home[b] /\ fate'[b] = fate[b]
    BY DEF TypeOK
  <1>7. SockInvariant'
    BY <1>1, <1>2 DEF SockInvariant, Handles, Async
  <1>8. TaskInvariant'
    <2>1. TaskShape(t)'
      BY <1>1, <1>3, <1>5 DEF TaskShape, Borrowing, Holding
    <2>2. ASSUME NEW u \in Tasks, u # t PROVE TaskShape(u)'
      BY <1>1, <1>4, <1>5, <2>2, ShapeKept DEF TaskInvariant
    <2>3. \A u, v \in Tasks : u # v /\ pc'[u] \in Holding => new'[u] # new'[v]
      BY <1>4, <1>5 DEF TaskInvariant, Holding
    <2>4. \A x \in Socks : sk'[x].owner = "call" => \E u \in Tasks : new'[u] = x
      <3> SUFFICES ASSUME NEW x \in Socks, sk'[x].owner = "call"
                   PROVE  \E u \in Tasks : new'[u] = x
        OBVIOUS
      <3>1. CASE x = s
        BY <1>5, <3>1
      <3>2. CASE x # s
        <4>1. PICK u \in Tasks : new[u] = x
          BY <1>1, <3>2 DEF TaskInvariant
        <4>2. u # t
          BY <4>1, TaskFacts DEF Holding
        <4> QED
          BY <1>5, <4>1, <4>2
      <3> QED
        BY <3>1, <3>2
    <2> QED
      BY <2>1, <2>2, <2>3, <2>4 DEF TaskInvariant
  <1>9. AssocInvariant'
    <2>1. \A b \in Assocs : home[b] # None => home[b] \in Socks
      BY DEF TypeOK
    <2> QED
      BY <1>1, <1>2, <1>4, <1>5, <1>6, <2>1 DEF AssocInvariant
  <1>10. FateInvariant'
    <2>1. new[t] = None
      BY TaskFacts DEF Holding
    <2> QED
      BY <1>5, <1>6, <2>1 DEF FateInvariant, Holding
  <1> QED
    BY <1>7, <1>8, <1>9, <1>10

\* What is left when a call ends: its socket, to which only it refers.
LEMMA FinishLeaves ==
    ASSUME TypeOK, TaskInvariant, NEW t \in Tasks, pc[t] \in Holding, Finish(t)
    PROVE  /\ pc'[t] = "idle" /\ new'[t] = None /\ on'[t] = None
           /\ new[t] \in Socks /\ sk[new[t]].owner = "call"
           /\ \A u \in Tasks : u # t => /\ pc'[u] = pc[u] /\ new'[u] = new[u] /\ on'[u] = on[u]
                                        /\ new[u] # new[t]
           /\ \A u \in Tasks : on[u] # new[t]
  BY TaskFacts DEF Finish, TypeOK, TaskInvariant

LEMMA HandOverKeeps ==
    ASSUME OwnershipInvariant, NEW t \in Tasks, pc[t] \in Holding,
           NEW r \in Sock, HandOver(t, r),
           r.owner \in {"SctpSocket", "SctpStream"},
           r.listening = sk[new[t]].listening, r.foreign \/ r.rcvinfo,
           r.owner = "SctpStream" => r.nonblock /\ r.registered
    PROVE  SockInvariant' /\ TaskInvariant' /\ AssocInvariant' /\ FateInvariant'
  <1> SockInvariant /\ TaskInvariant /\ AssocInvariant /\ FateInvariant /\ TypeOK
    BY DEF OwnershipInvariant
  <1> DEFINE s == new[t]
  <1>1. /\ pc'[t] = "idle" /\ new'[t] = None /\ on'[t] = None
        /\ s \in Socks /\ sk[s].owner = "call"
        /\ \A u \in Tasks : u # t => /\ pc'[u] = pc[u] /\ new'[u] = new[u] /\ on'[u] = on[u]
                                     /\ new[u] # s
        /\ \A u \in Tasks : on[u] # s
    BY FinishLeaves DEF HandOver
  <1>2. sk'[s] = r /\ \A x \in Socks : x # s => sk'[x] = sk[x]
    BY <1>1 DEF HandOver, TypeOK
  <1>3. ~sk[s].listening
    BY <1>1 DEF SockInvariant
  <1>4. /\ UNCHANGED <<state, home>>
        /\ \A a \in Assocs : fate'[a] = IF home[a] = s /\ fate[a] = "call" THEN "handed" ELSE fate[a]
    BY DEF HandOver, Fate
  <1> HIDE DEF s
  <1>5. SockInvariant'
    BY <1>2, <1>3 DEF SockInvariant, Async, s
  <1>6. TaskInvariant'
    <2>1. TaskShape(t)'
      BY <1>1 DEF TaskShape, Borrowing, Holding
    <2>2. ASSUME NEW u \in Tasks, u # t PROVE TaskShape(u)'
      BY <1>1, <1>2, <2>2, ShapeKept DEF TaskInvariant
    <2>3. \A u, v \in Tasks : u # v /\ pc'[u] \in Holding => new'[u] # new'[v]
      BY <1>1, TaskFacts DEF TaskInvariant, Holding
    <2>4. \A x \in Socks : sk'[x].owner = "call" => \E u \in Tasks : new'[u] = x
      BY <1>1, <1>2 DEF TaskInvariant, s
    <2> QED
      BY <2>1, <2>2, <2>3, <2>4 DEF TaskInvariant
  <1>7. AssocInvariant'
    <2>1. \A b \in Assocs : home[b] # None => home[b] \in Socks
      BY DEF TypeOK
    <2>2. \A b \in Assocs : home[b] = s => state[b] # "queued"
      BY <1>3 DEF AssocInvariant
    <2>3. \A b \in Assocs : state[b] = "none" => fate'[b] = "kernel"
      BY <1>4 DEF AssocInvariant
    <2>4. \A b \in Assocs : home[b] # None => sk'[home[b]].owner # "closed"
      BY <1>2, <2>1 DEF AssocInvariant
    <2>5. \A b \in Assocs : state[b] = "queued" => sk'[home[b]].listening
      BY <1>2, <2>1, <2>2 DEF AssocInvariant
    <2> QED
      BY <1>4, <2>3, <2>4, <2>5 DEF AssocInvariant
  <1>8. FateInvariant'
    BY <1>1, <1>4 DEF FateInvariant, s
  <1> QED
    BY <1>5, <1>6, <1>7, <1>8

LEMMA GiveUpKeeps ==
    ASSUME OwnershipInvariant, NEW t \in Tasks, pc[t] \in Holding, GiveUp(t)
    PROVE  SockInvariant' /\ TaskInvariant' /\ AssocInvariant' /\ FateInvariant'
  <1> SockInvariant /\ TaskInvariant /\ AssocInvariant /\ FateInvariant /\ TypeOK
    BY DEF OwnershipInvariant
  <1> DEFINE s == new[t]
  <1>1. /\ pc'[t] = "idle" /\ new'[t] = None /\ on'[t] = None
        /\ s \in Socks /\ sk[s].owner = "call"
        /\ \A u \in Tasks : u # t => /\ pc'[u] = pc[u] /\ new'[u] = new[u] /\ on'[u] = on[u]
                                     /\ new[u] # s
        /\ \A u \in Tasks : on[u] # s
    BY FinishLeaves DEF GiveUp
  <1>2. sk'[s] = Closed /\ \A x \in Socks : x # s => sk'[x] = sk[x]
    BY <1>1 DEF GiveUp, CloseSock, TypeOK
  <1>3. Closed.owner = "closed" /\ Closed.owner \notin Handles \cup {"raw"}
    BY DEF Closed, Handles, Async
  <1>4. /\ home' = [a \in Assocs |-> IF home[a] = s THEN None ELSE home[a]]
        /\ \A a \in Assocs : home[a] # s => state'[a] = state[a]
        /\ \A a \in Assocs : home[a] = s => state'[a] \notin {"none", "setup", "queued", "up"}
    BY <1>1, CloseEnds DEF GiveUp
  <1>5. \A a \in Assocs : fate'[a] = IF home[a] = s /\ fate[a] = "call" THEN "error" ELSE fate[a]
    BY DEF GiveUp, Fate
  <1>6. \A a \in Assocs : home'[a] = IF home[a] = s THEN None ELSE home[a]
    BY <1>4
  <1> HIDE DEF s
  <1>7. SockInvariant'
    BY <1>2, <1>3 DEF SockInvariant, Handles
  <1>8. TaskInvariant'
    <2>1. TaskShape(t)'
      BY <1>1 DEF TaskShape, Borrowing, Holding
    <2>2. ASSUME NEW u \in Tasks, u # t PROVE TaskShape(u)'
      BY <1>1, <1>2, <2>2, ShapeKept DEF TaskInvariant
    <2>3. \A u, v \in Tasks : u # v /\ pc'[u] \in Holding => new'[u] # new'[v]
      BY <1>1, TaskFacts DEF TaskInvariant, Holding
    <2>4. \A x \in Socks : sk'[x].owner = "call" => \E u \in Tasks : new'[u] = x
      BY <1>1, <1>2, <1>3 DEF TaskInvariant, s
    <2> QED
      BY <2>1, <2>2, <2>3, <2>4 DEF TaskInvariant
  <1>9. AssocInvariant'
    <2>1. \A b \in Assocs : home[b] # None => home[b] \in Socks
      BY DEF TypeOK
    <2>2. \A b \in Assocs : home[b] = s =>
            home'[b] = None /\ state'[b] \notin {"none", "setup", "queued", "up"}
      BY <1>4, <1>6
    <2>3. \A b \in Assocs : home[b] # s =>
            /\ home'[b] = home[b] /\ state'[b] = state[b] /\ fate'[b] = fate[b]
            /\ home[b] # None => sk'[home[b]] = sk[home[b]]
      BY <1>2, <1>4, <1>5, <1>6, <2>1
    <2> QED
      BY <2>2, <2>3 DEF AssocInvariant
  <1>10. FateInvariant'
    <2>1. \A b \in Assocs : fate'[b] = "call" =>
            home'[b] = home[b] /\ home[b] # None /\ \E u \in Tasks : new'[u] = home[b] /\ pc'[u] \in Holding
      BY <1>1, <1>5, <1>6 DEF FateInvariant, s
    <2>2. \A b \in Assocs : fate'[b] = "error" => state'[b] \notin {"setup", "queued", "up"}
      BY <1>4, <1>5 DEF FateInvariant
    <2> QED
      BY <2>1, <2>2 DEF FateInvariant
  <1> QED
    BY <1>7, <1>8, <1>9, <1>10

\* The socket that a call holds gets its option.
LEMMA PrepareKeeps ==
    ASSUME OwnershipInvariant, NEW t \in Tasks, pc[t] = "enable_rcvinfo",
           sk[on[t]].owner \in Async, sk' = [sk EXCEPT ![new[t]].rcvinfo = TRUE],
           pc' = [pc EXCEPT ![t] = "register"],
           UNCHANGED <<state, home, fate, on, new>>
    PROVE  SockInvariant' /\ TaskInvariant' /\ AssocInvariant' /\ FateInvariant'
  <1> SockInvariant /\ TaskInvariant /\ AssocInvariant /\ FateInvariant /\ TypeOK
    BY DEF OwnershipInvariant
  <1> DEFINE s == new[t]
  <1>1. /\ s \in Socks /\ sk[s].owner = "call" /\ sk[s] \in Sock /\ sk[s].nonblock
        /\ on[t] \in Socks /\ on[t] # s
        /\ sk[on[t]].owner \in {"SctpListener", "SctpEndpoint", "SctpSocket"}
    BY DEF TypeOK, TaskInvariant, TaskShape, Borrowing, Holding
  <1>2. /\ \A x \in Socks : x # s => sk'[x] = sk[x]
        /\ sk'[s].owner = "call" /\ sk'[s].rcvinfo = TRUE
        /\ sk'[s].nonblock = sk[s].nonblock /\ sk'[s].listening = sk[s].listening
    BY <1>1 DEF TypeOK, Sock
  <1>3. pc'[t] = "register" /\ \A u \in Tasks : u # t => pc'[u] = pc[u]
    BY DEF TypeOK
  <1>4. \A u \in Tasks : on[u] # s /\ (u # t => new[u] # s)
    BY <1>1, TaskFacts DEF TaskInvariant, Holding
  <1> HIDE DEF s
  <1>5. SockInvariant'
    BY <1>1, <1>2 DEF SockInvariant, Handles, Async
  <1>6. TaskInvariant'
    <2>1. TaskShape(t)'
      BY <1>1, <1>2, <1>3 DEF TaskShape, Borrowing, Holding, s
    <2>2. ASSUME NEW u \in Tasks, u # t PROVE TaskShape(u)'
      BY <1>2, <1>3, <1>4, <2>2, ShapeKept DEF TaskInvariant
    <2>3. \A u, v \in Tasks : u # v /\ pc'[u] \in Holding => new'[u] # new'[v]
      BY <1>3 DEF TaskInvariant, Holding
    <2>4. \A x \in Socks : sk'[x].owner = "call" => \E u \in Tasks : new'[u] = x
      BY <1>1, <1>2 DEF TaskInvariant
    <2> QED
      BY <2>1, <2>2, <2>3, <2>4 DEF TaskInvariant
  <1>7. AssocInvariant'
    <2>1. \A b \in Assocs : home[b] # None => home[b] \in Socks
      BY DEF TypeOK
    <2>2. \A b \in Assocs : home[b] # None =>
            /\ sk'[home[b]].owner = sk[home[b]].owner
            /\ sk'[home[b]].listening = sk[home[b]].listening
      BY <1>1, <1>2, <2>1
    <2> QED
      BY <2>2 DEF AssocInvariant
  <1>8. FateInvariant'
    BY <1>3 DEF FateInvariant, Holding
  <1> QED
    BY <1>5, <1>6, <1>7, <1>8

-----------------------------------------------------------------------------
(* The steps of a call that has obtained a socket, by what they amount to. *)

\* Its socket is prepared, handed over, or given up.
LEMMA HoldingSteps ==
    ASSUME OwnershipInvariant, NEW t \in Tasks,
           \/ enable_rcvinfo_step(t) \/ register_nonblocking(t)
           \/ established(t) \/ drop_connectx(t)
    PROVE  /\ pc[t] \in Holding
           /\ UNCHANGED <<opened, doomed>>
           /\ \/ /\ pc[t] = "enable_rcvinfo" /\ sk[on[t]].owner \in Async
                 /\ sk' = [sk EXCEPT ![new[t]].rcvinfo = TRUE]
                 /\ pc' = [pc EXCEPT ![t] = "register"]
                 /\ UNCHANGED <<state, home, fate, on, new, fresh>>
              \/ \E r \in Sock :
                 /\ HandOver(t, r)
                 /\ r.owner \in {"SctpSocket", "SctpStream"}
                 /\ r.listening = sk[new[t]].listening
                 /\ r.foreign \/ r.rcvinfo
                 /\ r.owner = "SctpStream" => r.nonblock /\ r.registered
              \/ GiveUp(t)
  <1> TypeOK /\ TaskInvariant /\ TaskShape(t) /\ AssocInvariant
    BY DEF OwnershipInvariant, TaskInvariant
  <1>1. pc[t] \in Holding /\ UNCHANGED <<opened, doomed>>
    BY DEF enable_rcvinfo_step, register_nonblocking, established, drop_connectx, Holding
  <1>2. new[t] \in Socks /\ sk[new[t]] \in Sock /\ 0 \in 0..2
        /\ {"SctpSocket", "SctpStream"} \subseteq Handles \cup {"closed", "call", "raw"}
    BY <1>1, TaskFacts DEF TypeOK, Handles, Async
  <1> DEFINE c == sk[new[t]]
             ready(r) == /\ r.owner \in {"SctpSocket", "SctpStream"}
                         /\ r.listening = c.listening
                         /\ r.foreign \/ r.rcvinfo
                         /\ r.owner = "SctpStream" => r.nonblock /\ r.registered
  <1>3. CASE enable_rcvinfo_step(t)
    <2>1. CASE GiveUp(t)
      BY <1>1, <2>1
    <2>2. CASE /\ sk[on[t]].owner \in Async
               /\ sk' = [sk EXCEPT ![new[t]].rcvinfo = enable_rcvinfo(t)]
               /\ pc' = [pc EXCEPT ![t] = "register"]
               /\ UNCHANGED <<state, home, fate, on, new, fresh>>
      BY <1>1, <1>3, <2>2 DEF enable_rcvinfo_step, enable_rcvinfo
    <2>3. CASE /\ sk' = [sk EXCEPT ![new[t]].rcvinfo = enable_rcvinfo(t),
                                   ![new[t]].owner = "SctpSocket"]
               /\ Fate(t, "handed")
               /\ Finish(t)
               /\ UNCHANGED <<state, home>>
      <3> DEFINE r == [c EXCEPT !.rcvinfo = TRUE, !.owner = "SctpSocket"]
      <3>1. r \in Sock
        BY <1>2, OptionType
      <3>2. sk' = [sk EXCEPT ![new[t]] = r]
        BY <2>3, <1>2 DEF enable_rcvinfo, TypeOK
      <3>3. r.owner = "SctpSocket" /\ r.listening = c.listening /\ r.rcvinfo = TRUE
        BY <1>2 DEF Sock
      <3> HIDE DEF r
      <3>4. HandOver(t, r)
        BY <1>1, <2>3, <3>2 DEF HandOver
      <3>5. ready(r)
        BY <3>3
      <3> QED
        BY <1>1, <3>1, <3>4, <3>5
    <2> QED
      BY <1>3, <2>1, <2>2, <2>3 DEF enable_rcvinfo_step
  <1>4. CASE register_nonblocking(t)
    <2>1. CASE GiveUp(t)
      BY <1>1, <2>1
    <2>2. CASE /\ sk' = [sk EXCEPT ![new[t]].owner = "SctpStream",
                                   ![new[t]].registered = TRUE, ![new[t]].edge = TRUE]
               /\ Fate(t, "handed")
               /\ Finish(t)
               /\ UNCHANGED <<state, home>>
      <3> DEFINE r == [c EXCEPT !.owner = "SctpStream", !.registered = TRUE, !.edge = TRUE]
      <3>1. r \in Sock
        BY <1>2, OptionType
      <3>2. sk' = [sk EXCEPT ![new[t]] = r]
        BY <2>2, <1>2 DEF TypeOK
      <3>3. /\ r.owner = "SctpStream" /\ r.listening = c.listening /\ r.registered = TRUE
            /\ r.rcvinfo = c.rcvinfo /\ r.nonblock = c.nonblock
        BY <1>2 DEF Sock
      <3>4. pc[t] = "register" /\ c.rcvinfo /\ c.nonblock
        BY <1>4 DEF register_nonblocking, TaskShape
      <3> HIDE DEF r
      <3>5. HandOver(t, r)
        BY <1>1, <2>2, <3>2 DEF HandOver
      <3>6. ready(r)
        BY <3>3, <3>4
      <3> QED
        BY <1>1, <3>1, <3>5, <3>6
    <2> QED
      BY <1>4, <2>1, <2>2 DEF register_nonblocking
  <1>5. CASE established(t)
    <2>1. CASE GiveUp(t)
      BY <1>1, <2>1
    <2>2. CASE /\ sk' = [sk EXCEPT ![new[t]].owner = "SctpStream"]
               /\ Fate(t, "handed")
               /\ Finish(t)
               /\ UNCHANGED <<state, home>>
      <3> DEFINE r == [c EXCEPT !.owner = "SctpStream"]
      <3>1. r \in Sock
        BY <1>2, OptionType, TRUE \in BOOLEAN
      <3>2. sk' = [sk EXCEPT ![new[t]] = r]
        BY <2>2, <1>2 DEF TypeOK
      <3>3. /\ r.owner = "SctpStream" /\ r.listening = c.listening
            /\ r.registered = c.registered /\ r.foreign = c.foreign
            /\ r.rcvinfo = c.rcvinfo /\ r.nonblock = c.nonblock
        BY <1>2 DEF Sock
      <3>4. c.registered /\ c.nonblock /\ (c.foreign \/ c.rcvinfo)
        BY <1>5 DEF established, TaskShape
      <3> HIDE DEF r
      <3>5. HandOver(t, r)
        BY <1>1, <2>2, <3>2 DEF HandOver
      <3>6. ready(r)
        BY <3>3, <3>4
      <3> QED
        BY <1>1, <3>1, <3>5, <3>6
    <2> QED
      BY <1>5, <2>1, <2>2 DEF established
  <1>6. CASE drop_connectx(t)
    BY <1>1, <1>6 DEF drop_connectx
  <1> QED
    BY <1>3, <1>4, <1>5, <1>6

LEMMA HoldingStepsKeep ==
    ASSUME OwnershipInvariant, NEW t \in Tasks,
           \/ enable_rcvinfo_step(t) \/ register_nonblocking(t)
           \/ established(t) \/ drop_connectx(t)
    PROVE  OwnershipInvariant'
  <1>0. TypeOK /\ TaskInvariant
    BY DEF OwnershipInvariant
  <1>1. pc[t] \in Holding /\ UNCHANGED <<opened, doomed>> /\ new[t] \in Socks
    BY <1>0, HoldingSteps, TaskFacts
  <1>2. CASE /\ pc[t] = "enable_rcvinfo" /\ sk[on[t]].owner \in Async
             /\ sk' = [sk EXCEPT ![new[t]].rcvinfo = TRUE]
             /\ pc' = [pc EXCEPT ![t] = "register"]
             /\ UNCHANGED <<state, home, fate, on, new, fresh>>
    <2>1. sk[new[t]] \in Sock /\ 0 \in 0..2 /\ "call" \in Handles \cup {"closed", "call", "raw"}
      BY <1>0, <1>1 DEF TypeOK
    <2>2. [sk[new[t]] EXCEPT !.rcvinfo = TRUE] \in Sock
      BY <2>1, OptionType
    <2>3. sk' \in [Socks -> Sock]
      BY <1>0, <1>1, <1>2, <2>2 DEF TypeOK
    <2>4. TypeOK'
      BY <1>0, <1>1, <1>2, <2>3 DEF TypeOK
    <2> QED
      BY <1>2, <2>4, PrepareKeeps DEF OwnershipInvariant
  <1>3. ASSUME NEW r \in Sock, HandOver(t, r),
               r.owner \in {"SctpSocket", "SctpStream"},
               r.listening = sk[new[t]].listening, r.foreign \/ r.rcvinfo,
               r.owner = "SctpStream" => r.nonblock /\ r.registered
        PROVE  OwnershipInvariant'
    BY <1>0, <1>1, <1>3, HandOverKeeps, HandOverType DEF OwnershipInvariant
  <1>4. CASE GiveUp(t)
    BY <1>0, <1>1, <1>4, GiveUpKeeps, GiveUpType DEF OwnershipInvariant
  <1> QED
    BY <1>2, <1>3, <1>4, HoldingSteps

-----------------------------------------------------------------------------
(* Ownership is an invariant.                                              *)

LEMMA OwnershipInit == Init => OwnershipInvariant
  <1> SUFFICES ASSUME Init PROVE OwnershipInvariant
    OBVIOUS
  <1>1. TypeOK
    BY TypeInit
  <1>2. SockInvariant
    BY DEF Init, SockInvariant, Closed, Handles, Async
  <1>3. TaskInvariant
    BY DEF Init, TaskInvariant, TaskShape, Borrowing, Holding, Closed
  <1>4. AssocInvariant /\ FateInvariant
    BY DEF Init, AssocInvariant, FateInvariant
  <1> QED
    BY <1>1, <1>2, <1>3, <1>4 DEF OwnershipInvariant

\* Steps of accept that obtain no socket.
LEMMA AcceptLoopKeeps ==
    ASSUME OwnershipInvariant, NEW t \in Tasks,
           \/ readable(t) \/ cancel(t) \/ accept4_would_block(t)
           \/ accept4_error(t) \/ clear_ready(t)
           \/ \E s \in Socks : accept(t, s)
    PROVE  OwnershipInvariant'
  <1>0. TypeOK /\ TaskInvariant /\ TaskShape(t)
    BY DEF OwnershipInvariant, TaskInvariant
  <1>1. CASE readable(t)
    <2>1. TypeOK'
      BY <1>0, <1>1 DEF readable, TypeOK
    <2>2. \A u \in Tasks : Loops(u)
      BY <1>0, <1>1 DEF readable, Loops, TypeOK, TaskShape
    <2>3. UNCHANGED <<sk, state, home, fate, on, new>>
      BY <1>1 DEF readable
    <2>4. \A x \in Socks : Keeps(x)
      BY <2>3 DEF Keeps
    <2> QED
      BY <2>1, <2>2, <2>3, <2>4, OptionsKeep DEF OwnershipInvariant
  <1>2. CASE clear_ready(t)
    <2>1. on[t] \in Socks /\ sk[on[t]].owner = "SctpListener"
      BY <1>0, <1>2 DEF clear_ready, TaskShape, Borrowing
    <2>2. sk[on[t]] \in Sock /\ sk[on[t]].ready \in BOOLEAN /\ fresh[t] \in BOOLEAN
      BY <1>0, <2>1 DEF TypeOK, Sock
    <2>3. (sk[on[t]].ready /\ ~fresh[t]) \in BOOLEAN
      BY <2>2, Zenon
    <2>4. PICK b \in BOOLEAN : sk' = [sk EXCEPT ![on[t]].ready = b]
      BY <1>2, <2>3 DEF clear_ready
    <2>5. [sk[on[t]] EXCEPT !.ready = b] \in Sock
      BY <2>2 DEF Sock
    <2>6. sk' \in [Socks -> Sock]
      BY <1>0, <2>1, <2>4, <2>5 DEF TypeOK
    <2>7. /\ pc' = [pc EXCEPT ![t] = "readable"] /\ pc[t] = "clear"
          /\ fresh' = [fresh EXCEPT ![t] = FALSE]
          /\ UNCHANGED <<state, home, fate, doomed, opened, on, new>>
      BY <1>2 DEF clear_ready
    <2>8. TypeOK'
      BY <1>0, <2>6, <2>7 DEF TypeOK
    <2>9. \A u \in Tasks : Loops(u)
      BY <1>0, <2>1, <2>7 DEF Loops, TypeOK
    <2>10. \A x \in Socks : Keeps(x)
      BY <1>0, <2>1, <2>2, <2>4 DEF Keeps, TypeOK, Sock
    <2> QED
      BY <2>7, <2>8, <2>9, <2>10, OptionsKeep DEF OwnershipInvariant
  <1>3. CASE /\ pc[t] \notin Holding /\ Finish(t)
             /\ UNCHANGED <<sk, state, home, fate, doomed, opened>>
    <2>1. TypeOK'
      BY <1>0, <1>3, FinishType DEF TypeOK, PCs
    <2>2. new[t] = None
      BY <1>0, <1>3, TaskFacts
    <2>3. UNCHANGED new
      BY <1>0, <1>3, <2>2 DEF Finish, TypeOK
    <2>4. pc' = [pc EXCEPT ![t] = "idle"] /\ on' = [on EXCEPT ![t] = None]
      BY <1>3 DEF Finish
    <2> QED
      BY <1>3, <2>1, <2>3, <2>4, CallsKeep DEF OwnershipInvariant
  <1>4. CASE cancel(t) \/ accept4_error(t)
    BY <1>3, <1>4 DEF cancel, accept4_error, Holding
  <1>5. CASE accept4_would_block(t)
    <2>1. CASE sk[on[t]].owner = "SctpListener"
      <3>1. /\ pc[t] = "accept4" /\ pc' = [pc EXCEPT ![t] = "clear"]
            /\ UNCHANGED <<on, new, fresh, sk, state, home, fate, doomed, opened>>
        BY <1>5, <2>1 DEF accept4_would_block
      <3>2. TypeOK'
        BY <1>0, <3>1 DEF TypeOK
      <3>3. \A u \in Tasks : Loops(u)
        BY <1>0, <2>1, <3>1 DEF Loops, TypeOK
      <3>4. \A x \in Socks : Keeps(x)
        BY <3>1 DEF Keeps
      <3> QED
        BY <3>1, <3>2, <3>3, <3>4, OptionsKeep DEF OwnershipInvariant
    <2>2. CASE sk[on[t]].owner # "SctpListener"
      BY <1>3, <1>5, <2>2 DEF accept4_would_block, Holding
    <2> QED
      BY <2>1, <2>2
  <1>6. ASSUME NEW s \in Socks, accept(t, s)
        PROVE  OwnershipInvariant'
    <2>1. /\ pc[t] = "idle" /\ on' = [on EXCEPT ![t] = s]
          /\ \/ /\ sk[s].owner = "SctpListener"
                /\ pc' = [pc EXCEPT ![t] = "readable"]
             \/ /\ sk[s].owner = "SctpSocket"
                /\ pc' = [pc EXCEPT ![t] = "accept4"]
          /\ UNCHANGED <<sk, state, home, fate, doomed, opened, new, fresh>>
      BY <1>6 DEF accept
    <2>2. TypeOK'
      BY <1>0, <2>1 DEF TypeOK
    <2>3. pc[t] \notin Holding
      BY <2>1 DEF Holding
    <2> QED
      BY <2>1, <2>2, <2>3, CallsKeep DEF OwnershipInvariant
  <1> QED
    BY <1>1, <1>2, <1>4, <1>5, <1>6

\* Steps that obtain a socket.
LEMMA ObtainingKeeps ==
    ASSUME OwnershipInvariant, NEW t \in Tasks,
           accept4(t) \/ \E s \in Socks : peeloff(t, s)
    PROVE  OwnershipInvariant'
  <1>0. TypeOK /\ TaskInvariant /\ TaskShape(t)
    BY DEF OwnershipInvariant, TaskInvariant
  <1>1. ASSUME NEW s \in Socks, NEW a \in Assocs, NEW from \in Socks,
               Obtain(t, s, a), state[a] # "none", pc[t] \notin Holding,
               sk[from].owner \in {"SctpListener", "SctpEndpoint", "SctpSocket"},
               on' \in {on, [on EXCEPT ![t] = from]}, on'[t] = from
        PROVE  OwnershipInvariant'
    <2>1. PICK b \in BOOLEAN :
            sk' = [sk EXCEPT ![s] = [Closed EXCEPT !.owner = "call", !.refs = 1, !.nonblock = b]]
      <3> DEFINE c == sk[on'[t]].owner \in Async
      <3>1. c \in BOOLEAN
        OBVIOUS
      <3>2. sk' = [sk EXCEPT ![s] = [Closed EXCEPT !.owner = "call", !.refs = 1, !.nonblock = c]]
        BY <1>1 DEF Obtain
      <3> HIDE DEF c
      <3> QED
        BY <3>1, <3>2
    <2>2. [Closed EXCEPT !.owner = "call", !.refs = 1, !.nonblock = b] \in Sock
      BY OpenType DEF Styles
    <2>3. sk' \in [Socks -> Sock]
      BY <1>0, <2>1, <2>2, SockType
    <2>4. /\ state' = [state EXCEPT ![a] = IF @ = "queued" THEN "up" ELSE @]
          /\ home' = [home EXCEPT ![a] = s]
          /\ fate' = [fate EXCEPT ![a] = "call"]
          /\ new' = [new EXCEPT ![t] = s]
          /\ pc' = [pc EXCEPT ![t] = "enable_rcvinfo"]
          /\ UNCHANGED <<opened, doomed, fresh>>
      BY <1>1 DEF Obtain
    <2>5. on' \in [Tasks -> Socks \cup {None}]
      BY <1>0, <1>1 DEF TypeOK
    <2>6. TypeOK'
      BY <1>0, <2>3, <2>4, <2>5 DEF TypeOK
    <2> QED
      BY <1>1, <2>6, ObtainKeeps DEF OwnershipInvariant
  <1>2. CASE accept4(t)
    <2>1. /\ on[t] \in Socks /\ pc[t] \notin Holding /\ on' = on
          /\ sk[on[t]].owner \in {"SctpListener", "SctpEndpoint", "SctpSocket"}
      BY <1>0, <1>2 DEF accept4, TaskShape, Borrowing, Holding
    <2>2. \E s \in Socks, a \in Assocs : Obtain(t, s, a) /\ state[a] # "none"
      BY <1>2 DEF accept4, Queue
    <2> QED
      BY <1>1, <2>1, <2>2
  <1>3. ASSUME NEW s \in Socks, peeloff(t, s)
        PROVE  OwnershipInvariant'
    <2>1. /\ pc[t] \notin Holding /\ on' = [on EXCEPT ![t] = s] /\ on'[t] = s
          /\ sk[s].owner \in {"SctpListener", "SctpEndpoint", "SctpSocket"}
      BY <1>0, <1>3 DEF peeloff, Holding, TypeOK
    <2>2. \E n \in Socks, a \in Assocs : Obtain(t, n, a) /\ state[a] # "none"
      BY <1>3 DEF peeloff
    <2> QED
      BY <1>1, <2>1, <2>2
  <1> QED
    BY <1>2, <1>3

\* Steps that change a descriptor's options, or its reference count.
LEMMA OptionStepsKeep ==
    ASSUME OwnershipInvariant, NEW s \in Socks,
           \/ listen(s) \/ set_nonblocking(s) \/ driver_event(s) \/ share(s)
           \/ set_abort_on_drop(s)
           \/ drop(s) /\ sk[s].refs > 1
    PROVE  OwnershipInvariant'
  <1>0. TypeOK /\ TaskInvariant /\ SockInvariant /\ sk[s] \in Sock
    BY DEF OwnershipInvariant, TypeOK
  <1>1. UNCHANGED <<state, home, fate, on, new, pc>>
    BY DEF listen, set_nonblocking, driver_event, share, set_abort_on_drop, drop, task
  <1>2. \A x \in Socks : x # s => sk'[x] = sk[x]
    BY <1>0 DEF listen, set_nonblocking, driver_event, share, set_abort_on_drop, drop, TypeOK
  <1>3. Keeps(s)
    <2>1. sk[s].owner # "closed"
      <3>1. sk[s].owner \in Handles \/ sk[s].edge
        BY DEF listen, set_nonblocking, driver_event, share, set_abort_on_drop, drop,
               Handles, Async
      <3>2. sk[s].edge => sk[s].owner # "closed"
        BY <1>0 DEF SockInvariant, Closed
      <3> QED
        BY <3>1, <3>2 DEF Handles, Async
    <2>2. \/ \E b \in BOOLEAN : sk'[s] = [sk[s] EXCEPT !.nonblock = b] /\ sk[s].owner = "SctpSocket"
          \/ sk'[s] = [sk[s] EXCEPT !.listening = TRUE] /\ sk[s].owner = "SctpSocket"
          \/ sk'[s] = [sk[s] EXCEPT !.edge = FALSE, !.ready = TRUE]
          \/ sk'[s] = [sk[s] EXCEPT !.refs = 2]
          \/ sk'[s] = [sk[s] EXCEPT !.linger = TRUE]
          \/ sk'[s] = [sk[s] EXCEPT !.refs = sk[s].refs - 1]
      BY <1>0 DEF listen, set_nonblocking, driver_event, share, set_abort_on_drop, drop, TypeOK
    <2>3. ASSUME NEW b \in BOOLEAN, sk'[s] = [sk[s] EXCEPT !.nonblock = b],
                 sk[s].owner = "SctpSocket"
          PROVE  Keeps(s)
      BY <1>0, <2>3 DEF Keeps, Sock
    <2>4. CASE sk'[s] = [sk[s] EXCEPT !.listening = TRUE] /\ sk[s].owner = "SctpSocket"
      BY <1>0, <2>4 DEF Keeps, Sock
    <2>5. CASE \/ sk'[s] = [sk[s] EXCEPT !.edge = FALSE, !.ready = TRUE]
               \/ sk'[s] = [sk[s] EXCEPT !.linger = TRUE]
      BY <1>0, <2>1, <2>5 DEF Keeps, Sock
    <2>6. ASSUME NEW n, sk'[s] = [sk[s] EXCEPT !.refs = n]
          PROVE  Keeps(s)
      BY <1>0, <2>1, <2>6 DEF Keeps, Sock
    <2> QED
      BY <2>2, <2>3, <2>4, <2>5, <2>6
  <1>4. \A x \in Socks : Keeps(x)
    BY <1>2, <1>3 DEF Keeps
  <1>5. \A t \in Tasks : Loops(t)
    BY <1>1 DEF Loops
  <1>6. TypeOK'
    BY <1>0, SocketActionsType, HandleActionsType
  <1> QED
    BY <1>1, <1>4, <1>5, <1>6, OptionsKeep DEF OwnershipInvariant

\* Steps of the peers, and the steps that move or begin an association.
LEMMA AssocStepsKeep ==
    ASSUME OwnershipInvariant,
           \/ \E a \in Assocs : PeerConnects(a) \/ HandshakeEnds(a) \/ PeerLeaves(a)
           \/ \E s \in Socks : shutdown(s) \/ send_close(s) \/ connectx(s)
    PROVE  OwnershipInvariant'
  <1>0. TypeOK /\ TaskInvariant /\ SockInvariant
    BY DEF OwnershipInvariant
  <1>1. TypeOK'
    BY <1>0, AssocActionsType, SocketActionsType, HandleActionsType
  <1>2. CASE \/ \E a \in Assocs : HandshakeEnds(a) \/ PeerLeaves(a)
             \/ \E s \in Socks : shutdown(s) \/ send_close(s)
    <2>1. UNCHANGED <<sk, home, fate, task>>
      BY <1>2 DEF HandshakeEnds, PeerLeaves, shutdown, send_close
    <2>2. \A b \in Assocs : Moves(b)
      BY <1>0, <1>2 DEF HandshakeEnds, PeerLeaves, shutdown, send_close, Moves, TypeOK
    <2> QED
      BY <1>1, <2>1, <2>2, MovesKeep DEF OwnershipInvariant
  <1>3. ASSUME NEW a \in Assocs, PeerConnects(a)
        PROVE  OwnershipInvariant'
    <2>1. PICK s \in Socks :
            /\ state[a] = "none" /\ sk[s].listening
            /\ home' = [home EXCEPT ![a] = s]
            /\ state' = [state EXCEPT ![a] = "queued"] \/ state' = [state EXCEPT ![a] = "up"]
            /\ fate' = fate \/ fate' = [fate EXCEPT ![a] = "handed"]
            /\ sk' = sk \/ sk' = [sk EXCEPT ![s].edge = @ \/ sk[s].registered]
            /\ UNCHANGED task
      BY <1>3 DEF PeerConnects
    <2>2. sk[s].owner \notin {"closed", "call", "SctpStream"}
      BY <1>0, <2>1 DEF SockInvariant, Closed
    <2>3. sk[s] \in Sock /\ \A x \in Socks : x # s => sk'[x] = sk[x]
      BY <1>0, <2>1 DEF TypeOK
    <2>4. Keeps(s)
      <3>1. CASE sk' = sk
        BY <3>1 DEF Keeps
      <3>2. CASE sk' = [sk EXCEPT ![s].edge = @ \/ sk[s].registered]
        <4> DEFINE e == sk[s].edge \/ sk[s].registered
        <4>1. sk' = [sk EXCEPT ![s].edge = e]
          BY <3>2, Zenon
        <4> HIDE DEF e
        <4>2. sk'[s] = [sk[s] EXCEPT !.edge = e]
          BY <1>0, <4>1 DEF TypeOK
        <4> QED
          BY <2>2, <2>3, <4>2 DEF Keeps, Sock
      <3> QED
        BY <2>1, <3>1, <3>2
    <2>5. \A x \in Socks : Keeps(x)
      BY <2>3, <2>4 DEF Keeps
    <2> QED
      BY <1>1, <2>1, <2>2, <2>5, BeginsKeep DEF OwnershipInvariant
  <1>4. ASSUME NEW s \in Socks, connectx(s)
        PROVE  OwnershipInvariant'
    <2>1. PICK a \in Assocs :
            /\ state[a] = "none" /\ state' = [state EXCEPT ![a] = "setup"]
            /\ home' = [home EXCEPT ![a] = s]
            /\ fate' = [fate EXCEPT ![a] = "handed"]
      BY <1>4 DEF connectx, StartSetup
    <2>2. sk[s].owner \notin {"closed", "call", "SctpStream"} /\ UNCHANGED <<sk, task>>
      BY <1>4 DEF connectx
    <2>3. \A x \in Socks : Keeps(x)
      BY <2>2 DEF Keeps
    <2> QED
      BY <1>1, <2>1, <2>2, <2>3, BeginsKeep DEF OwnershipInvariant
  <1> QED
    BY <1>2, <1>3, <1>4

\* A socket is opened, given away, or consumed by a tokio type.
LEMMA OwnerStepsKeep ==
    ASSUME OwnershipInvariant, NEW s \in Socks,
           \/ socket_new(s) \/ from_raw_fd(s) \/ into_raw_fd(s)
           \/ \E type \in {"SctpListener", "SctpEndpoint"} :
                /\ sk[s].owner = "SctpSocket" /\ Unborrowed(s)
                /\ register(s, type)
                /\ UNCHANGED <<state, home, fate, doomed, opened, task>>
    PROVE  OwnershipInvariant'
  <1> TypeOK /\ SockInvariant /\ TaskInvariant
    BY DEF OwnershipInvariant
  <1>0. sk[s] \in Sock /\ 0 \in 0..2
        /\ {"SctpSocket", "raw", "SctpListener", "SctpEndpoint"}
                \subseteq Handles \cup {"closed", "call", "raw"}
    BY DEF TypeOK, Handles, Async
  <1>1. UNCHANGED <<state, home, fate, task>>
    BY DEF socket_new, from_raw_fd, into_raw_fd
  <1>2. sk[s].owner # "call" /\ \A t \in Tasks : on[t] # s
    BY TaskFacts DEF socket_new, from_raw_fd, into_raw_fd, Unborrowed
  <1>3. TypeOK'
    <2>1. CASE socket_new(s) \/ from_raw_fd(s) \/ into_raw_fd(s)
      BY <2>1, SocketActionsType
    <2>2. CASE \E type \in {"SctpListener", "SctpEndpoint"} :
                /\ register(s, type)
                /\ UNCHANGED <<state, home, fate, doomed, opened, task>>
      <3>1. sk' \in [Socks -> Sock]
        BY <2>2, RegisterType DEF Async
      <3> QED
        BY <2>2, <3>1 DEF TypeOK, task
    <2> QED
      BY <2>1, <2>2
  <1> DEFINE fits(r) ==
        /\ r \in Sock /\ sk' = [sk EXCEPT ![s] = r]
        /\ r.owner \in (Handles \cup {"raw"}) \ {"SctpStream"}
        /\ r.owner \in Async => r.nonblock /\ r.registered
        /\ r.foreign \/ r.rcvinfo
        /\ sk[s].listening => r.listening
  <1>4. sk[s].owner = "closed" => ~sk[s].listening
    BY DEF SockInvariant, Closed
  <1>5. sk[s].owner \in {"SctpSocket", "raw"} => sk[s].foreign \/ sk[s].rcvinfo
    BY DEF SockInvariant, Handles
  <1>6. \E r : fits(r)
    <2>1. CASE socket_new(s)
      <3>1. PICK style \in Styles :
                sk' = [sk EXCEPT ![s] = [Closed EXCEPT !.owner = "SctpSocket",
                            !.style = style, !.refs = 1, !.rcvinfo = TRUE]]
        BY <2>1 DEF socket_new
      <3> DEFINE r == [Closed EXCEPT !.owner = "SctpSocket", !.style = style, !.refs = 1,
                            !.rcvinfo = TRUE]
      <3>2. r \in Sock
        BY OpenType, TRUE \in BOOLEAN
      <3>3. r.owner = "SctpSocket" /\ r.rcvinfo = TRUE
        BY DEF Closed
      <3>4. ~sk[s].listening
        BY <1>4, <2>1 DEF socket_new
      <3> HIDE DEF r
      <3>5. fits(r)
        BY <3>1, <3>2, <3>3, <3>4 DEF r, Handles, Async
      <3> QED
        BY <3>5
    <2>2. CASE sk[s].owner = "closed" /\ from_raw_fd(s)
      <3>1. PICK style \in Styles, nonblock \in BOOLEAN :
                sk' = [sk EXCEPT ![s] = [Closed EXCEPT !.owner = "SctpSocket",
                            !.style = style, !.refs = 1, !.nonblock = nonblock,
                            !.foreign = TRUE]]
        BY <2>2 DEF from_raw_fd
      <3> DEFINE r == [Closed EXCEPT !.owner = "SctpSocket",
                            !.style = style, !.refs = 1, !.nonblock = nonblock,
                            !.foreign = TRUE]
      <3>2. r \in Sock
        BY OpenType
      <3>3. r.owner = "SctpSocket" /\ r.foreign = TRUE
        BY DEF Closed
      <3>4. ~sk[s].listening
        BY <1>4, <2>2
      <3> HIDE DEF r
      <3>5. fits(r)
        BY <3>1, <3>2, <3>3, <3>4 DEF r, Handles, Async
      <3> QED
        BY <3>5
    <2>3. CASE \E o \in {"SctpSocket", "raw"} :
                /\ sk[s].owner \in {"SctpSocket", "raw"}
                /\ sk' = [sk EXCEPT ![s].owner = o]
      <3>1. PICK o \in {"SctpSocket", "raw"} : sk' = [sk EXCEPT ![s].owner = o]
        BY <2>3
      <3> DEFINE r == [sk[s] EXCEPT !.owner = o]
      <3>2. r \in Sock /\ sk' = [sk EXCEPT ![s] = r]
        BY <1>0, <3>1, OptionType, TRUE \in BOOLEAN DEF TypeOK
      <3>3. /\ r.owner = o /\ r.foreign = sk[s].foreign /\ r.rcvinfo = sk[s].rcvinfo
            /\ r.listening = sk[s].listening
        BY <1>0 DEF Sock
      <3> HIDE DEF r
      <3>4. fits(r)
        BY <1>5, <2>3, <3>2, <3>3 DEF Handles, Async
      <3> QED
        BY <3>4
    <2>4. CASE \E type \in {"SctpListener", "SctpEndpoint"} :
                sk[s].owner = "SctpSocket" /\ register(s, type)
      <3>1. PICK type \in {"SctpListener", "SctpEndpoint"} : register(s, type)
        BY <2>4
      <3> DEFINE r == [sk[s] EXCEPT !.owner = type, !.nonblock = TRUE,
                                    !.registered = TRUE, !.edge = TRUE]
      <3>2. r \in Sock
        BY <1>0, <3>1, OptionType
      <3>2a. sk' = [sk EXCEPT ![s] = r]
        BY <3>1 DEF TypeOK, register
      <3>3. /\ r.owner = type /\ r.foreign = sk[s].foreign /\ r.rcvinfo = sk[s].rcvinfo
            /\ r.listening = sk[s].listening /\ r.nonblock = TRUE /\ r.registered = TRUE
        BY <1>0 DEF Sock
      <3> HIDE DEF r
      <3>4. fits(r)
        BY <1>5, <2>4, <3>2, <3>2a, <3>3 DEF Handles, Async
      <3> QED
        BY <3>4
    <2>5. CASE into_raw_fd(s)
      BY <2>3, <2>5 DEF into_raw_fd
    <2>6. CASE from_raw_fd(s)
      BY <2>2, <2>3, <2>6 DEF from_raw_fd
    <2> QED
      BY <2>1, <2>4, <2>5, <2>6
  <1> QED
    BY <1>1, <1>2, <1>3, <1>6, OwnersKeep DEF OwnershipInvariant

\* A handle is closed.
LEMMA CloseStepsKeep ==
    ASSUME OwnershipInvariant, NEW s \in Socks,
           \/ /\ sk[s].owner \in Handles /\ Unborrowed(s)
              /\ CloseSock(s) /\ CloseAssocs(s)
              /\ UNCHANGED <<fate, doomed, opened, task>>
           \/ abort(s)
    PROVE  OwnershipInvariant'
  <1> TypeOK /\ SockInvariant /\ TaskInvariant /\ AssocInvariant
    BY DEF OwnershipInvariant
  <1>1. CASE /\ sk[s].owner \in Handles /\ Unborrowed(s)
             /\ CloseSock(s) /\ CloseAssocs(s)
             /\ UNCHANGED <<fate, doomed, opened, task>>
    <2>1. TypeOK'
      BY <1>1, CloseType DEF TypeOK, task, States
    <2>2. sk[s].owner # "call" /\ \A t \in Tasks : on[t] # s
      BY <1>1 DEF Handles, Async, Unborrowed
    <2>3. /\ home' = [a \in Assocs |-> IF home[a] = s THEN None ELSE home[a]]
          /\ \A a \in Assocs : home[a] # s => state'[a] = state[a]
          /\ \A a \in Assocs : home[a] = s => state'[a] \notin {"none", "setup", "queued", "up"}
      BY <1>1, CloseEnds
    <2> QED
      BY <1>1, <2>1, <2>2, <2>3, CloseKeeps DEF OwnershipInvariant
  <1>2. CASE abort(s)
    <2>1. TypeOK'
      BY <1>2, HandleActionsType
    <2>2. sk[s].owner = "SctpStream" /\ \A t \in Tasks : on[t] # s
      BY <1>2, TaskFacts DEF abort
    <2>3. /\ home' = [a \in Assocs |-> IF home[a] = s THEN None ELSE home[a]]
          /\ \A a \in Assocs : home[a] # s => state'[a] = state[a]
          /\ \A a \in Assocs : home[a] = s => state'[a] \notin {"none", "setup", "queued", "up"}
      BY <1>2, CloseEnds DEF abort
    <2>4. CloseSock(s) /\ UNCHANGED <<fate, task>>
      BY <1>2 DEF abort
    <2> QED
      BY <2>1, <2>2, <2>3, <2>4, CloseKeeps DEF OwnershipInvariant
  <1> QED
    BY <1>1, <1>2

LEMMA StreamConnectKeeps ==
    ASSUME OwnershipInvariant, NEW t \in Tasks, NEW s \in Socks, stream_connectx(t, s)
    PROVE  OwnershipInvariant'
  <1> TypeOK
    BY DEF OwnershipInvariant
  <1>1. CASE CloseSock(s) /\ CloseAssocs(s) /\ UNCHANGED <<fate, pc, new>>
    <2>1. /\ sk[s].owner \in Handles /\ Unborrowed(s)
          /\ CloseSock(s) /\ CloseAssocs(s)
          /\ UNCHANGED <<fate, doomed, opened, task>>
      BY <1>1 DEF stream_connectx, Handles, task
    <2> QED
      BY <2>1, CloseStepsKeep
  <1>2. CASE /\ sk[s].style = "OneToOne" /\ Connectable(s)
             /\ StartSetup(s, "call")
             /\ register(s, "call")
             /\ pc' = [pc EXCEPT ![t] = "established"]
             /\ new' = [new EXCEPT ![t] = s]
    <2>1. PICK a \in Assocs :
            /\ state[a] = "none" /\ state' = [state EXCEPT ![a] = "setup"]
            /\ home' = [home EXCEPT ![a] = s]
            /\ fate' = [fate EXCEPT ![a] = "call"]
      BY <1>2 DEF StartSetup
    <2>2. /\ pc[t] = "idle" /\ sk[s].owner = "SctpSocket" /\ Unborrowed(s)
          /\ UNCHANGED <<doomed, opened, on, fresh>>
      BY DEF stream_connectx
    <2>3. sk' \in [Socks -> Sock]
      BY <1>2, RegisterType
    <2>4. TypeOK'
      BY <1>2, <2>1, <2>2, <2>3 DEF TypeOK
    <2> QED
      BY <1>2, <2>1, <2>2, <2>4, ConnectKeeps DEF OwnershipInvariant
  <1> QED
    BY <1>1, <1>2 DEF stream_connectx

LEMMA OwnershipStep ==
    ASSUME OwnershipInvariant, [Next]_vars
    PROVE  OwnershipInvariant'
  <1>1. CASE UNCHANGED vars
    BY <1>1 DEF OwnershipInvariant, TypeOK, SockInvariant, TaskInvariant, TaskShape,
                AssocInvariant, FateInvariant, vars, task
  <1>2. ASSUME NEW a \in Assocs, PeerConnects(a) \/ HandshakeEnds(a) \/ PeerLeaves(a)
        PROVE  OwnershipInvariant'
    BY <1>2, AssocStepsKeep
  <1>3. ASSUME NEW s \in Socks,
               \/ socket_new(s) \/ from_raw_fd(s) \/ listen(s) \/ set_nonblocking(s)
               \/ listener_from_socket(s) \/ endpoint_from_socket(s) \/ driver_event(s)
               \/ connectx(s) \/ into_raw_fd(s)
               \/ share(s) \/ drop(s) \/ set_abort_on_drop(s) \/ abort(s) \/ shutdown(s)
               \/ send_close(s)
        PROVE  OwnershipInvariant'
    <2>1. CASE listener_from_socket(s) \/ endpoint_from_socket(s)
      <3>1. /\ sk[s].owner = "SctpSocket" /\ Unborrowed(s)
            /\ UNCHANGED <<fate, doomed, opened, task>>
            /\ \/ /\ \E type \in {"SctpListener", "SctpEndpoint"} : register(s, type)
                  /\ UNCHANGED <<state, home>>
               \/ CloseSock(s) /\ CloseAssocs(s)
        BY <2>1 DEF listener_from_socket, endpoint_from_socket, from_socket
      <3>2. sk[s].owner \in Handles
        BY <3>1 DEF Handles
      <3> QED
        BY <3>1, <3>2, OwnerStepsKeep, CloseStepsKeep
    <2>2. CASE drop(s)
      BY <2>2, OptionStepsKeep, CloseStepsKeep DEF drop
    <2>3. CASE socket_new(s) \/ from_raw_fd(s) \/ into_raw_fd(s)
      BY <2>3, OwnerStepsKeep
    <2>4. CASE listen(s) \/ set_nonblocking(s) \/ driver_event(s) \/ share(s)
               \/ set_abort_on_drop(s)
      BY <2>4, OptionStepsKeep
    <2>5. CASE connectx(s) \/ shutdown(s) \/ send_close(s)
      BY <2>5, AssocStepsKeep
    <2>6. CASE abort(s)
      BY <2>6, CloseStepsKeep
    <2> QED
      BY <1>3, <2>1, <2>2, <2>3, <2>4, <2>5, <2>6
  <1>4. ASSUME NEW t \in Tasks,
               \/ cancel(t) \/ drop_connectx(t) \/ accept4_error(t) \/ accept_step(t)
               \/ \E s \in Socks : accept(t, s) \/ peeloff(t, s) \/ stream_connectx(t, s)
        PROVE  OwnershipInvariant'
    BY <1>4, AcceptLoopKeeps, ObtainingKeeps, HoldingStepsKeep, StreamConnectKeeps
       DEF accept_step
  <1> QED
    BY <1>1, <1>2, <1>3, <1>4 DEF Next

-----------------------------------------------------------------------------
(* Associations that are to be aborted.                                    *)

\* A stream stays a stream that aborts.
StaysStream(s) ==
    sk[s].owner = "SctpStream" =>
        sk'[s].owner = "SctpStream" /\ (sk[s].linger => sk'[s].linger)

LEMMA AbortKept ==
    ASSUME TypeOK, AbortInvariant, UNCHANGED doomed,
           \A a \in doomed : home'[a] = home[a] /\ Moves(a),
           \A s \in Socks : StaysStream(s)
    PROVE  AbortInvariant'
  <1> SUFFICES ASSUME NEW a \in doomed
               PROVE  /\ state'[a] # "none"
                      /\ home'[a] # None =>
                            sk'[home'[a]].owner = "SctpStream" /\ sk'[home'[a]].linger
    BY DEF AbortInvariant
  <1>1. a \in Assocs /\ home'[a] = home[a] /\ Moves(a)
    BY DEF TypeOK
  <1>2. CASE home[a] = None
    BY <1>1, <1>2 DEF AbortInvariant, Moves
  <1>3. CASE home[a] # None
    <2>1. home[a] \in Socks
      BY <1>1, <1>3 DEF TypeOK
    <2>2. StaysStream(home[a])
      BY <2>1
    <2>3. /\ sk[home[a]].owner = "SctpStream" /\ sk[home[a]].linger
          /\ state[a] # "none"
      BY <1>3 DEF AbortInvariant
    <2> QED
      BY <1>1, <1>3, <2>2, <2>3 DEF Moves, StaysStream
  <1> QED
    BY <1>2, <1>3

\* A doomed association belongs to a stream or to no socket any more.
LEMMA DoomedFacts ==
    ASSUME TypeOK, AssocInvariant, AbortInvariant, NEW a \in doomed
    PROVE  /\ a \in Assocs /\ state[a] # "none"
           /\ \A s \in Socks : home[a] = s => sk[s].owner = "SctpStream" /\ sk[s].linger
  BY DEF TypeOK, AssocInvariant, AbortInvariant

\* Closing a socket that is not a stream does not concern them.
LEMMA AbortCloseOther ==
    ASSUME TypeOK, AssocInvariant, AbortInvariant, UNCHANGED doomed, NEW s \in Socks,
           sk[s].owner # "SctpStream", CloseSock(s), CloseAssocs(s)
    PROVE  AbortInvariant'
  <1>1. \A x \in Socks : StaysStream(x)
    BY DEF StaysStream, CloseSock, TypeOK
  <1>2. \A a \in doomed : home[a] # s /\ a \in Assocs
    BY DoomedFacts
  <1>3. \A a \in doomed : home'[a] = home[a] /\ Moves(a)
    BY <1>2 DEF CloseAssocs, EndAssocs, Moves
  <1> QED
    BY <1>1, <1>3, AbortKept

\* Closing a socket leaves its associations without one.
LEMMA AbortCloseStream ==
    ASSUME TypeOK, AssocInvariant, AbortInvariant, NEW s \in Socks,
           doomed' \subseteq doomed \cup Of(s),
           CloseSock(s), CloseAssocs(s) \/ EndAssocs(s, TRUE)
    PROVE  AbortInvariant'
  <1> SUFFICES ASSUME NEW a \in doomed'
               PROVE  /\ state'[a] # "none"
                      /\ home'[a] # None =>
                            sk'[home'[a]].owner = "SctpStream" /\ sk'[home'[a]].linger
    BY DEF AbortInvariant
  <1>1. a \in Assocs /\ (a \in doomed \/ home[a] = s)
    BY DoomedFacts DEF Of
  <1>2. CASE home[a] = s
    <2>1. home'[a] = None /\ state'[a] # "none"
      BY <1>1, <1>2, CloseEnds
    <2> QED
      BY <2>1
  <1>3. CASE home[a] # s
    <2>1. home'[a] = home[a] /\ state'[a] = state[a]
      BY <1>1, <1>3, CloseEnds
    <2>2. home[a] # None => home[a] \in Socks /\ sk'[home[a]] = sk[home[a]]
      BY <1>1, <1>3 DEF TypeOK, CloseSock
    <2> QED
      BY <1>1, <1>3, <2>1, <2>2 DEF AbortInvariant
  <1> QED
    BY <1>2, <1>3

LEMMA AbortSocketSteps ==
    ASSUME OwnershipInvariant, AbortInvariant, NEW s \in Socks,
           \/ socket_new(s) \/ from_raw_fd(s) \/ listen(s) \/ set_nonblocking(s)
           \/ listener_from_socket(s) \/ endpoint_from_socket(s) \/ driver_event(s)
           \/ connectx(s) \/ into_raw_fd(s)
           \/ share(s) \/ drop(s) \/ set_abort_on_drop(s) \/ abort(s) \/ shutdown(s)
           \/ send_close(s)
    PROVE  AbortInvariant'
  <1> TypeOK /\ AssocInvariant /\ sk[s] \in Sock /\ SockInvariant
    BY DEF OwnershipInvariant, TypeOK
  <1>0. \A a \in doomed : a \in Assocs /\ state[a] # "none"
    BY DoomedFacts
  <1>1. CASE UNCHANGED <<state, home, doomed>> /\ \A x \in Socks : StaysStream(x)
    BY <1>1, AbortKept DEF Moves
  <1>2. CASE socket_new(s) \/ from_raw_fd(s) \/ listen(s) \/ set_nonblocking(s) \/ into_raw_fd(s)
    <2>1. UNCHANGED <<state, home, doomed>>
      BY <1>2 DEF socket_new, from_raw_fd, listen, set_nonblocking, into_raw_fd
    <2>2. sk[s].owner # "SctpStream" /\ \A x \in Socks : x # s => sk'[x] = sk[x]
      BY <1>2 DEF socket_new, from_raw_fd, listen, set_nonblocking, into_raw_fd, TypeOK
    <2> QED
      BY <1>1, <2>1, <2>2 DEF StaysStream
  <1>3. CASE driver_event(s) \/ share(s) \/ (drop(s) /\ sk[s].refs > 1)
    <2>1. UNCHANGED <<state, home, doomed>>
      BY <1>3 DEF driver_event, share, drop
    <2>2. \A x \in Socks : x # s => sk'[x] = sk[x]
      BY <1>3 DEF driver_event, share, drop, TypeOK
    <2>3. \/ sk'[s] = [sk[s] EXCEPT !.edge = FALSE, !.ready = TRUE]
          \/ sk'[s] = [sk[s] EXCEPT !.refs = 2]
          \/ sk'[s] = [sk[s] EXCEPT !.refs = sk[s].refs - 1]
      BY <1>3 DEF driver_event, share, drop, TypeOK
    <2>4. sk'[s].owner = sk[s].owner /\ sk'[s].linger = sk[s].linger
      BY <2>3 DEF Sock
    <2> QED
      BY <1>1, <2>1, <2>2, <2>4 DEF StaysStream
  <1>4. CASE drop(s) /\ ~(sk[s].refs > 1)
    BY <1>4, AbortCloseStream DEF drop
  <1>5. CASE listener_from_socket(s) \/ endpoint_from_socket(s)
    <2>1. /\ sk[s].owner = "SctpSocket" /\ UNCHANGED doomed
          /\ \/ /\ \E type \in {"SctpListener", "SctpEndpoint"} : register(s, type)
                /\ UNCHANGED <<state, home>>
             \/ CloseSock(s) /\ CloseAssocs(s)
      BY <1>5 DEF listener_from_socket, endpoint_from_socket, from_socket
    <2>2. (\E type \in {"SctpListener", "SctpEndpoint"} : register(s, type))
            => \A x \in Socks : x # s => sk'[x] = sk[x]
      BY DEF register, TypeOK
    <2> QED
      BY <1>1, <2>1, <2>2, AbortCloseStream DEF StaysStream
  <1>6. CASE connectx(s)
    <2>1. \A a \in doomed : home'[a] = home[a] /\ state'[a] = state[a]
      BY <1>0, <1>6 DEF connectx, StartSetup, TypeOK
    <2>2. UNCHANGED <<sk, doomed>>
      BY <1>6 DEF connectx
    <2> QED
      BY <2>1, <2>2, AbortKept DEF Moves, StaysStream
  <1>7. CASE shutdown(s) \/ send_close(s)
    <2>1. \A a \in doomed : Moves(a)
      BY <1>0, <1>7 DEF shutdown, send_close, TypeOK, Moves
    <2>2. UNCHANGED <<sk, home, doomed>>
      BY <1>7 DEF shutdown, send_close
    <2> QED
      BY <2>1, <2>2, AbortKept DEF StaysStream
  <1>8. CASE set_abort_on_drop(s)
    <2>1. /\ sk[s].owner = "SctpStream" /\ sk' = [sk EXCEPT ![s].linger = TRUE]
          /\ doomed' = doomed \cup Of(s) /\ UNCHANGED <<state, home>>
      BY <1>8 DEF set_abort_on_drop
    <2>2. sk'[s].owner = "SctpStream" /\ sk'[s].linger = TRUE
          /\ \A x \in Socks : x # s => sk'[x] = sk[x]
      BY <2>1 DEF TypeOK, Sock
    <2>3. \A a \in Of(s) : home[a] = s /\ state[a] # "none"
      BY DEF Of, AssocInvariant
    <2>4. \A a \in doomed : home[a] # None => home[a] \in Socks
      BY <1>0 DEF TypeOK
    <2> QED
      BY <2>1, <2>2, <2>3, <2>4 DEF AbortInvariant
  <1>9. CASE abort(s)
    BY <1>9, AbortCloseStream DEF abort
  <1> QED
    BY <1>2, <1>3, <1>4, <1>5, <1>6, <1>7, <1>8, <1>9

LEMMA AbortTaskSteps ==
    ASSUME OwnershipInvariant, AbortInvariant, NEW t \in Tasks,
           \/ cancel(t) \/ drop_connectx(t) \/ accept4_error(t) \/ accept_step(t)
           \/ \E s \in Socks : accept(t, s) \/ peeloff(t, s) \/ stream_connectx(t, s)
    PROVE  AbortInvariant'
  <1> TypeOK /\ AssocInvariant /\ SockInvariant /\ TaskInvariant /\ TaskShape(t)
    BY DEF OwnershipInvariant, TaskInvariant
  <1>0. \A a \in doomed : a \in Assocs /\ state[a] # "none"
    BY DoomedFacts
  <1>1. CASE /\ UNCHANGED doomed /\ \A a \in doomed : home'[a] = home[a] /\ state'[a] = state[a]
             /\ \A x \in Socks : StaysStream(x)
    BY <1>1, AbortKept DEF Moves
  <1>2. CASE \/ cancel(t) \/ accept4_error(t) \/ readable(t) \/ accept4_would_block(t)
             \/ \E s \in Socks : accept(t, s)
    <2>1. UNCHANGED <<sk, state, home, doomed>>
      BY <1>2 DEF cancel, accept4_error, readable, accept4_would_block, accept
    <2> QED
      BY <1>1, <2>1 DEF StaysStream
  <1>3. CASE clear_ready(t)
    <2>1. on[t] \in Socks /\ sk[on[t]].owner = "SctpListener"
      BY <1>3 DEF clear_ready, TaskShape, Borrowing
    <2>2. UNCHANGED <<state, home, doomed>> /\ \A x \in Socks : x # on[t] => sk'[x] = sk[x]
      BY <1>3 DEF clear_ready, TypeOK
    <2> QED
      BY <1>1, <2>1, <2>2 DEF StaysStream
  <1>4. ASSUME NEW s \in Socks, NEW a \in Assocs, NEW from \in Socks, Obtain(t, s, a),
               home[a] = from, sk[from].owner # "SctpStream"
        PROVE  AbortInvariant'
    <2>1. a \notin doomed
      BY <1>4, DoomedFacts
    <2>2. \A b \in doomed : home'[b] = home[b] /\ state'[b] = state[b]
      BY <1>0, <1>4, <2>1 DEF Obtain, TypeOK
    <2>3. sk[s].owner = "closed" /\ UNCHANGED doomed /\ \A x \in Socks : x # s => sk'[x] = sk[x]
      BY <1>4 DEF Obtain, TypeOK
    <2> QED
      BY <1>1, <2>2, <2>3 DEF StaysStream
  <1>5. CASE accept4(t)
    <2>1. /\ on[t] \in Socks
          /\ sk[on[t]].owner \in {"SctpListener", "SctpEndpoint", "SctpSocket"}
      BY <1>5 DEF accept4, TaskShape, Borrowing
    <2>2. \E s \in Socks, a \in Assocs : home[a] = on[t] /\ Obtain(t, s, a)
      BY <1>5 DEF accept4, Queue
    <2> QED
      BY <1>4, <2>1, <2>2
  <1>6. ASSUME NEW s \in Socks, peeloff(t, s)
        PROVE  AbortInvariant'
    BY <1>4, <1>6 DEF peeloff
  <1>7. ASSUME NEW s \in Socks, stream_connectx(t, s)
        PROVE  AbortInvariant'
    <2>1. sk[s].owner = "SctpSocket" /\ UNCHANGED doomed
      BY <1>7 DEF stream_connectx
    <2>2. CASE CloseSock(s) /\ CloseAssocs(s)
      BY <2>1, <2>2, AbortCloseOther
    <2>3. CASE StartSetup(s, "call") /\ register(s, "call")
      <3>1. \A a \in doomed : home'[a] = home[a] /\ state'[a] = state[a]
        BY <1>0, <2>3 DEF StartSetup, TypeOK
      <3>2. \A x \in Socks : x # s => sk'[x] = sk[x]
        BY <2>3 DEF register, TypeOK
      <3> QED
        BY <1>1, <2>1, <3>1, <3>2 DEF StaysStream
    <2> QED
      BY <1>7, <2>2, <2>3 DEF stream_connectx
  <1>8. CASE \/ enable_rcvinfo_step(t) \/ register_nonblocking(t)
             \/ established(t) \/ drop_connectx(t)
    <2>1. /\ UNCHANGED doomed /\ new[t] \in Socks /\ sk[new[t]].owner = "call"
      BY <1>8, HoldingSteps, TaskFacts
    <2>2. CASE GiveUp(t)
      BY <2>1, <2>2, AbortCloseOther DEF GiveUp
    <2>3. CASE /\ sk' = [sk EXCEPT ![new[t]].rcvinfo = TRUE]
               /\ UNCHANGED <<state, home>>
      <3>1. \A x \in Socks : x # new[t] => sk'[x] = sk[x]
        BY <2>3 DEF TypeOK
      <3> QED
        BY <1>1, <2>1, <2>3, <3>1 DEF StaysStream
    <2>4. ASSUME NEW r \in Sock, HandOver(t, r)
          PROVE  AbortInvariant'
      <3>1. UNCHANGED <<state, home>> /\ \A x \in Socks : x # new[t] => sk'[x] = sk[x]
        BY <2>4 DEF TypeOK, HandOver
      <3> QED
        BY <1>1, <2>1, <3>1 DEF StaysStream
    <2> QED
      BY <1>8, <2>2, <2>3, <2>4, HoldingSteps
  <1> QED
    BY <1>2, <1>3, <1>5, <1>6, <1>7, <1>8 DEF accept_step

LEMMA AbortStep ==
    ASSUME OwnershipInvariant, AbortInvariant, [Next]_vars
    PROVE  AbortInvariant'
  <1> TypeOK /\ AssocInvariant
    BY DEF OwnershipInvariant
  <1>0. \A a \in doomed : a \in Assocs /\ state[a] # "none"
    BY DoomedFacts
  <1>1. CASE UNCHANGED vars
    BY <1>1 DEF AbortInvariant, vars
  <1>2. ASSUME NEW a \in Assocs, PeerConnects(a) \/ HandshakeEnds(a) \/ PeerLeaves(a)
        PROVE  AbortInvariant'
    <2>1. \A b \in doomed : home'[b] = home[b] /\ Moves(b)
      <3>1. CASE PeerConnects(a)
        <4>1. a \notin doomed
          BY <1>0, <3>1 DEF PeerConnects
        <4> QED
          BY <1>0, <3>1, <4>1 DEF PeerConnects, Moves, TypeOK
      <3>2. CASE HandshakeEnds(a)
        BY <1>0, <3>2 DEF HandshakeEnds, Moves, TypeOK
      <3>3. CASE PeerLeaves(a)
        BY <1>0, <3>3 DEF PeerLeaves, Moves, TypeOK
      <3> QED
        BY <1>2, <3>1, <3>2, <3>3
    <2>2. UNCHANGED doomed
      BY <1>2 DEF PeerConnects, HandshakeEnds, PeerLeaves
    <2>3. \A x \in Socks : sk'[x].owner = sk[x].owner /\ sk'[x].linger = sk[x].linger
      <3>1. CASE HandshakeEnds(a) \/ PeerLeaves(a)
        BY <3>1 DEF HandshakeEnds, PeerLeaves
      <3>2. CASE PeerConnects(a)
        <4>1. PICK s \in Socks :
                \/ sk' = sk
                \/ \E e : sk' = [sk EXCEPT ![s].edge = e]
          BY <3>2 DEF PeerConnects
        <4>2. sk[s] \in Sock
          BY DEF TypeOK
        <4> QED
          BY <4>1, <4>2 DEF TypeOK, Sock
      <3> QED
        BY <1>2, <3>1, <3>2
    <2> QED
      BY <2>1, <2>2, <2>3, AbortKept DEF StaysStream
  <1> QED
    BY <1>1, <1>2, AbortSocketSteps, AbortTaskSteps DEF Next

\* An association loses its socket only when that is closed, and is only then
\* doomed when it was before or abort is what closes it.
LEMMA OnlyCloseLeaves ==
    ASSUME OwnershipInvariant, Next, NEW a \in Assocs, home[a] # None, home'[a] = None
    PROVE  \E s \in Socks :
            /\ home[a] = s
            /\ \/ CloseAssocs(s) /\ UNCHANGED doomed
               \/ EndAssocs(s, TRUE)
  <1> TypeOK /\ home[a] \in Socks
    BY DEF OwnershipInvariant, TypeOK
  <1> DEFINE closed == \E s \in Socks :
                /\ home[a] = s
                /\ \/ CloseAssocs(s) /\ UNCHANGED doomed
                   \/ EndAssocs(s, TRUE)
  <1>1. ASSUME NEW s \in Socks, \/ CloseAssocs(s) /\ UNCHANGED doomed
                                \/ EndAssocs(s, TRUE)
        PROVE  closed
    <2>1. home[a] = s
      BY <1>1 DEF CloseAssocs, EndAssocs
    <2> QED
      BY <1>1, <2>1
  <1> HIDE DEF closed
  <1>2. ASSUME NEW b \in Assocs, NEW s \in Socks, home' = [home EXCEPT ![b] = s]
        PROVE  FALSE
    BY <1>2 DEF TypeOK
  <1>3. ASSUME NEW b \in Assocs, PeerConnects(b) \/ HandshakeEnds(b) \/ PeerLeaves(b)
        PROVE  FALSE
    BY <1>2, <1>3 DEF PeerConnects, HandshakeEnds, PeerLeaves
  <1>4. ASSUME NEW s \in Socks,
               \/ socket_new(s) \/ from_raw_fd(s) \/ listen(s) \/ set_nonblocking(s)
               \/ driver_event(s) \/ into_raw_fd(s) \/ share(s)
               \/ set_abort_on_drop(s) \/ shutdown(s) \/ send_close(s)
        PROVE  FALSE
    BY <1>4 DEF socket_new, from_raw_fd, listen, set_nonblocking, driver_event,
                into_raw_fd, share, set_abort_on_drop, shutdown, send_close
  <1>5. ASSUME NEW s \in Socks, connectx(s)
        PROVE  FALSE
    BY <1>2, <1>5 DEF connectx, StartSetup
  <1>6. ASSUME NEW s \in Socks, listener_from_socket(s) \/ endpoint_from_socket(s) \/ drop(s)
        PROVE  closed
    BY <1>1, <1>6 DEF listener_from_socket, endpoint_from_socket, from_socket, drop
  <1>7. ASSUME NEW s \in Socks, abort(s)
        PROVE  closed
    BY <1>1, <1>7 DEF abort
  <1>8. ASSUME NEW t \in Tasks, NEW s \in Socks,
               accept(t, s) \/ peeloff(t, s) \/ stream_connectx(t, s)
        PROVE  closed
    <2>1. CASE accept(t, s)
      BY <2>1 DEF accept
    <2>2. CASE peeloff(t, s)
      BY <1>2, <2>2 DEF peeloff, Obtain
    <2>3. CASE stream_connectx(t, s)
      BY <1>1, <1>2, <2>3 DEF stream_connectx, StartSetup
    <2> QED
      BY <1>8, <2>1, <2>2, <2>3
  <1>9. ASSUME NEW t \in Tasks,
               \/ cancel(t) \/ accept4_error(t) \/ readable(t) \/ accept4_would_block(t)
               \/ clear_ready(t) \/ accept4(t)
        PROVE  FALSE
    BY <1>2, <1>9 DEF cancel, accept4_error, readable, accept4_would_block, clear_ready,
                      accept4, Obtain, Queue
  <1>10. ASSUME NEW t \in Tasks,
                \/ enable_rcvinfo_step(t) \/ register_nonblocking(t)
                \/ established(t) \/ drop_connectx(t)
         PROVE  closed
    <2>1. UNCHANGED doomed /\ new[t] \in Socks
      BY <1>10, HoldingSteps, TaskFacts DEF OwnershipInvariant
    <2> QED
      BY <1>1, <1>10, <2>1, HoldingSteps DEF GiveUp, HandOver
  <1>11. closed
    BY <1>3, <1>4, <1>5, <1>6, <1>7, <1>8, <1>9, <1>10 DEF Next, accept_step
  <1> QED
    BY <1>11 DEF closed

\* A doomed association that is still there is aborted as its socket closes.
LEMMA FinalDropAborts ==
    ASSUME OwnershipInvariant, AbortInvariant, Next, NEW a \in doomed',
           home[a] # None, home'[a] = None, state[a] \in {"up", "shutdown"}
    PROVE  state'[a] = "aborted"
  <1> TypeOK /\ AssocInvariant
    BY DEF OwnershipInvariant
  <1>1. a \in Assocs
    BY OwnershipStep DEF OwnershipInvariant, TypeOK
  <1>2. PICK s \in Socks : /\ home[a] = s
                           /\ \/ CloseAssocs(s) /\ UNCHANGED doomed
                              \/ EndAssocs(s, TRUE)
    BY <1>1, OnlyCloseLeaves
  <1>3. CASE CloseAssocs(s) /\ UNCHANGED doomed
    <2>1. sk[s].linger
      BY <1>2, <1>3 DEF AbortInvariant
    <2> QED
      BY <1>1, <1>2, <1>3, <2>1, CloseEnds
  <1>4. CASE EndAssocs(s, TRUE)
    BY <1>1, <1>2, <1>4, CloseEnds
  <1> QED
    BY <1>2, <1>3, <1>4

-----------------------------------------------------------------------------
(* Readiness of listeners.                                                 *)

\* A step that adds nothing to a queue and leaves a listener's readiness and
\* the guards of the calls alone.
SameNotice(s) ==
    sk'[s].owner = "SctpListener" =>
        /\ sk[s].owner = "SctpListener"
        /\ sk'[s].edge = sk[s].edge /\ sk'[s].ready = sk[s].ready

SameGuard(t) ==
    pc'[t] = "clear" /\ fresh'[t] => pc[t] = "clear" /\ fresh[t] /\ on'[t] = on[t]

NotQueued(a) ==
    state'[a] = "queued" => state[a] = "queued" /\ home'[a] = home[a]

LEMMA NoticeKept ==
    ASSUME TypeOK, TaskInvariant', ClearInvariant, QueueNoticed,
           \A a \in Assocs : NotQueued(a), \A s \in Socks : SameNotice(s),
           \A t \in Tasks : SameGuard(t)
    PROVE  ClearInvariant' /\ QueueNoticed'
  <1>1. \A s : Queue(s)' \subseteq Queue(s)
    BY DEF Queue, NotQueued
  <1>2. QueueNoticed'
    BY <1>1 DEF QueueNoticed, SameNotice
  <1>3. ClearInvariant'
    <2> SUFFICES ASSUME NEW t \in Tasks, pc'[t] = "clear", fresh'[t], Queue(on[t])' # {}
                 PROVE  sk'[on'[t]].edge
      BY DEF ClearInvariant, Queue
    <2>1. pc[t] = "clear" /\ fresh[t] /\ on'[t] = on[t]
      BY DEF SameGuard
    <2>2. on'[t] \in Socks /\ sk'[on'[t]].owner = "SctpListener"
      BY DEF TaskInvariant, TaskShape, Borrowing
    <2> QED
      BY <1>1, <2>1, <2>2 DEF ClearInvariant, SameNotice
  <1> QED
    BY <1>2, <1>3

\* Closing a socket removes its queue.
LEMMA CloseQuiet ==
    ASSUME TypeOK, NEW s \in Socks, CloseSock(s), CloseAssocs(s)
    PROVE  /\ \A a \in Assocs : NotQueued(a)
           /\ \A x \in Socks : SameNotice(x)
  <1>1. \A a \in Assocs : NotQueued(a)
    BY DEF CloseAssocs, EndAssocs, NotQueued
  <1>2. sk'[s] = Closed /\ Closed.owner = "closed" /\ \A x \in Socks : x # s => sk'[x] = sk[x]
    BY DEF CloseSock, Closed, TypeOK
  <1> QED
    BY <1>1, <1>2 DEF SameNotice

LEMMA NoticeSocketSteps ==
    ASSUME OwnershipInvariant, OwnershipInvariant', ClearInvariant, QueueNoticed, NEW s \in Socks,
           \/ socket_new(s) \/ from_raw_fd(s) \/ listen(s) \/ set_nonblocking(s)
           \/ listener_from_socket(s) \/ endpoint_from_socket(s) \/ driver_event(s)
           \/ connectx(s) \/ into_raw_fd(s)
           \/ share(s) \/ drop(s) \/ set_abort_on_drop(s) \/ abort(s) \/ shutdown(s)
           \/ send_close(s)
    PROVE  ClearInvariant' /\ QueueNoticed'
  <1> TypeOK /\ SockInvariant /\ TaskInvariant /\ TaskInvariant' /\ sk[s] \in Sock
    BY DEF OwnershipInvariant, TypeOK
  <1>1. CASE \/ socket_new(s) \/ from_raw_fd(s) \/ listen(s) \/ set_nonblocking(s)
             \/ into_raw_fd(s) \/ share(s) \/ set_abort_on_drop(s)
    <2>1. UNCHANGED <<state, home, pc, on, fresh>>
      BY <1>1 DEF socket_new, from_raw_fd, listen, set_nonblocking, into_raw_fd, share,
                  set_abort_on_drop, task
    <2>2. \A x \in Socks : x # s => sk'[x] = sk[x]
      BY <1>1 DEF socket_new, from_raw_fd, listen, set_nonblocking, into_raw_fd, share,
                  set_abort_on_drop, TypeOK
    <2>3. sk'[s].owner # "SctpListener"
      <3>1. CASE socket_new(s)
        BY <3>1 DEF socket_new, TypeOK, Closed
      <3>2. CASE from_raw_fd(s)
        <4>1. CASE sk' = [sk EXCEPT ![s].owner = "SctpSocket"]
          BY <4>1 DEF TypeOK, Sock
        <4>2. ASSUME NEW style \in Styles, NEW nonblock \in BOOLEAN,
                     sk' = [sk EXCEPT ![s] = [Closed EXCEPT !.owner = "SctpSocket",
                                !.style = style, !.refs = 1, !.nonblock = nonblock,
                                !.foreign = TRUE]]
              PROVE  sk'[s].owner # "SctpListener"
          BY <4>2 DEF TypeOK, Closed
        <4> QED
          BY <3>2, <4>1, <4>2 DEF from_raw_fd
      <3>3. CASE listen(s)
        BY <3>3 DEF listen, TypeOK, Sock
      <3>4. CASE set_nonblocking(s)
        BY <3>4 DEF set_nonblocking, TypeOK, Sock
      <3>5. CASE into_raw_fd(s)
        BY <3>5 DEF into_raw_fd, TypeOK, Sock
      <3>6. CASE share(s)
        BY <3>6 DEF share, TypeOK, Sock
      <3>7. CASE set_abort_on_drop(s)
        BY <3>7 DEF set_abort_on_drop, TypeOK, Sock
      <3> QED
        BY <1>1, <3>1, <3>2, <3>3, <3>4, <3>5, <3>6, <3>7
    <2> QED
      BY <2>1, <2>2, <2>3, NoticeKept DEF NotQueued, SameNotice, SameGuard
  <1>2. CASE CloseSock(s) /\ CloseAssocs(s) /\ UNCHANGED task
    <2>1. \A t \in Tasks : SameGuard(t)
      BY <1>2 DEF SameGuard, task
    <2> QED
      BY <1>2, <2>1, CloseQuiet, NoticeKept
  <1>3. CASE drop(s)
    <2>1. CASE sk[s].refs > 1
      <3>1. /\ sk' = [sk EXCEPT ![s].refs = sk[s].refs - 1]
            /\ UNCHANGED <<state, home, task>>
        BY <1>3, <2>1 DEF drop
      <3>2. \A x \in Socks : x # s => sk'[x] = sk[x]
        BY <3>1 DEF TypeOK
      <3>3. sk'[s].owner = sk[s].owner /\ sk'[s].edge = sk[s].edge /\ sk'[s].ready = sk[s].ready
        BY <3>1 DEF TypeOK, Sock
      <3> QED
        BY <3>1, <3>2, <3>3, NoticeKept DEF NotQueued, SameNotice, SameGuard, task
    <2> QED
      BY <1>2, <1>3, <2>1 DEF drop
  <1>4. CASE register(s, "SctpListener") /\ UNCHANGED <<state, home, task>> /\ Unborrowed(s)
    <2>1. sk'[s].edge = TRUE /\ \A x \in Socks : x # s => sk'[x] = sk[x]
      BY <1>4 DEF register, TypeOK, Sock
    <2>2. \A x : Queue(x)' = Queue(x)
      BY <1>4 DEF Queue
    <2>3. QueueNoticed'
      BY <2>1, <2>2 DEF QueueNoticed
    <2>4. \A t \in Tasks : /\ pc'[t] = pc[t] /\ fresh'[t] = fresh[t] /\ on'[t] = on[t] /\ on[t] # s
                           /\ pc[t] = "clear" => on[t] \in Socks
      BY <1>4 DEF Unborrowed, task, TaskInvariant, TaskShape, Borrowing
    <2>5. ClearInvariant'
      <3> SUFFICES ASSUME NEW t \in Tasks, pc'[t] = "clear", fresh'[t], Queue(on[t])' # {}
                   PROVE  sk'[on'[t]].edge
        BY DEF ClearInvariant, Queue
      <3>1. Queue(on[t]) # {}
        BY <2>4, <1>4 DEF Queue
      <3> QED
        BY <2>1, <2>4, <3>1 DEF ClearInvariant
    <2> QED
      BY <2>3, <2>5
  <1>5. CASE register(s, "SctpEndpoint") /\ UNCHANGED <<state, home, task>>
    <2>1. sk'[s].owner = "SctpEndpoint" /\ \A x \in Socks : x # s => sk'[x] = sk[x]
      BY <1>5 DEF register, TypeOK, Sock
    <2> QED
      BY <1>5, <2>1, NoticeKept DEF NotQueued, SameNotice, SameGuard, task
  <1>6. CASE listener_from_socket(s) \/ endpoint_from_socket(s)
    BY <1>2, <1>4, <1>5, <1>6 DEF listener_from_socket, endpoint_from_socket, from_socket
  <1>7. CASE driver_event(s)
    <2>1. /\ sk' = [sk EXCEPT ![s].edge = FALSE, ![s].ready = TRUE]
          /\ fresh' = [t \in Tasks |-> IF on[t] = s THEN FALSE ELSE fresh[t]]
          /\ UNCHANGED <<state, home, pc, on>>
      BY <1>7 DEF driver_event
    <2>2. sk'[s].ready = TRUE /\ \A x \in Socks : x # s => sk'[x] = sk[x]
      BY <2>1 DEF TypeOK, Sock
    <2>3. \A x : Queue(x)' = Queue(x)
      BY <2>1 DEF Queue
    <2>4. QueueNoticed'
      BY <2>2, <2>3 DEF QueueNoticed
    <2>5. \A t \in Tasks : pc'[t] = "clear" /\ fresh'[t] =>
                /\ pc[t] = "clear" /\ fresh[t] /\ on[t] # s
                /\ on'[t] = on[t] /\ on[t] \in Socks
      BY <2>1 DEF TaskInvariant, TaskShape, Borrowing
    <2>6. ClearInvariant'
      <3> SUFFICES ASSUME NEW t \in Tasks, pc'[t] = "clear", fresh'[t], Queue(on[t])' # {}
                   PROVE  sk'[on'[t]].edge
        BY DEF ClearInvariant, Queue
      <3>1. Queue(on[t]) # {}
        BY <2>1 DEF Queue
      <3> QED
        BY <2>2, <2>5, <3>1 DEF ClearInvariant
    <2> QED
      BY <2>4, <2>6
  <1>8. CASE connectx(s) \/ shutdown(s) \/ send_close(s)
    <2>1. UNCHANGED <<sk, task>>
      BY <1>8 DEF connectx, shutdown, send_close
    <2>2. \A a \in Assocs : NotQueued(a)
      BY <1>8 DEF connectx, StartSetup, shutdown, send_close, NotQueued, TypeOK
    <2> QED
      BY <2>1, <2>2, NoticeKept DEF SameNotice, SameGuard, task
  <1>9. CASE abort(s)
    <2>1. /\ UNCHANGED task /\ CloseSock(s)
          /\ CloseAssocs(s) \/ EndAssocs(s, TRUE)
      BY <1>9 DEF abort
    <2>4. \A a \in Assocs : NotQueued(a)
      BY <2>1 DEF CloseAssocs, EndAssocs, NotQueued
    <2>5. sk'[s] = Closed /\ Closed.owner = "closed" /\ \A x \in Socks : x # s => sk'[x] = sk[x]
      BY <2>1 DEF CloseSock, Closed, TypeOK
    <2> QED
      BY <2>1, <2>4, <2>5, NoticeKept DEF SameNotice, SameGuard, task
  <1> QED
    BY <1>1, <1>3, <1>6, <1>7, <1>8, <1>9

LEMMA NoticeAssocSteps ==
    ASSUME OwnershipInvariant, OwnershipInvariant', ClearInvariant, QueueNoticed,
           NEW a \in Assocs, PeerConnects(a) \/ HandshakeEnds(a) \/ PeerLeaves(a)
    PROVE  ClearInvariant' /\ QueueNoticed'
  <1> TypeOK /\ SockInvariant /\ TaskInvariant /\ TaskInvariant' /\ AssocInvariant
    BY DEF OwnershipInvariant
  <1>1. CASE HandshakeEnds(a) \/ PeerLeaves(a)
    <2>1. UNCHANGED <<sk, task>> /\ \A b \in Assocs : NotQueued(b)
      BY <1>1 DEF HandshakeEnds, PeerLeaves, NotQueued, TypeOK
    <2> QED
      BY <2>1, NoticeKept DEF SameNotice, SameGuard, task
  <1>2. CASE PeerConnects(a)
    <2>1. PICK s \in Socks :
            /\ home' = [home EXCEPT ![a] = s] /\ state[a] = "none" /\ UNCHANGED task
            /\ \/ /\ state' = [state EXCEPT ![a] = "queued"]
                  /\ sk' = [sk EXCEPT ![s].edge = @ \/ sk[s].registered]
               \/ /\ state' = [state EXCEPT ![a] = "up"]
                  /\ UNCHANGED sk
      BY <1>2 DEF PeerConnects
    <2>2. CASE state' = [state EXCEPT ![a] = "up"] /\ UNCHANGED sk
      <3>1. \A b \in Assocs : NotQueued(b)
        BY <2>1, <2>2 DEF NotQueued, TypeOK
      <3> QED
        BY <2>1, <2>2, <3>1, NoticeKept DEF SameNotice, SameGuard, task
    <2>3. CASE /\ state' = [state EXCEPT ![a] = "queued"]
               /\ sk' = [sk EXCEPT ![s].edge = @ \/ sk[s].registered]
      <3> DEFINE e == sk[s].edge \/ sk[s].registered
      <3>1. sk' = [sk EXCEPT ![s].edge = e]
        BY <2>3, Zenon
      <3>2. sk[s].owner = "SctpListener" => e
        BY DEF SockInvariant, Async
      <3> HIDE DEF e
      <3>3. sk[s] \in Sock /\ \A x \in Socks : x # s => sk'[x] = sk[x]
        BY <3>1 DEF TypeOK
      <3>4. sk'[s].edge = e /\ sk'[s].owner = sk[s].owner
        BY <3>1, <3>3 DEF TypeOK, Sock
      <3>5. \A x \in Socks : x # s => Queue(x)' = Queue(x)
        BY <2>1, <2>3 DEF Queue, TypeOK, AssocInvariant
      <3>6. QueueNoticed'
        BY <3>2, <3>3, <3>4, <3>5 DEF QueueNoticed
      <3>7. \A t \in Tasks : pc'[t] = "clear" /\ fresh'[t] =>
                /\ pc[t] = "clear" /\ fresh[t] /\ sk[on[t]].owner = "SctpListener"
                /\ on'[t] = on[t] /\ on[t] \in Socks
        BY <2>1 DEF TaskInvariant, TaskShape, Borrowing, task
      <3>8. ClearInvariant'
        <4> SUFFICES ASSUME NEW t \in Tasks, pc'[t] = "clear", fresh'[t], Queue(on[t])' # {}
                     PROVE  sk'[on'[t]].edge
          BY DEF ClearInvariant, Queue
        <4>1. CASE on[t] = s
          BY <3>2, <3>4, <3>7, <4>1
        <4>2. CASE on[t] # s
          <5>1. Queue(on[t]) # {}
            BY <2>1, <2>3, <3>7, <4>2 DEF Queue, TypeOK, AssocInvariant
          <5> QED
            BY <3>3, <3>7, <4>2, <5>1 DEF ClearInvariant
        <4> QED
          BY <4>1, <4>2
      <3> QED
        BY <3>6, <3>8
    <2> QED
      BY <2>1, <2>2, <2>3
  <1> QED
    BY <1>1, <1>2

LEMMA NoticeTaskSteps ==
    ASSUME OwnershipInvariant, OwnershipInvariant', ClearInvariant, QueueNoticed, NEW t \in Tasks,
           \/ cancel(t) \/ drop_connectx(t) \/ accept4_error(t) \/ accept_step(t)
           \/ \E s \in Socks : accept(t, s) \/ peeloff(t, s) \/ stream_connectx(t, s)
    PROVE  ClearInvariant' /\ QueueNoticed'
  <1> TypeOK /\ SockInvariant /\ TaskInvariant /\ TaskInvariant' /\ TaskShape(t)
    BY DEF OwnershipInvariant, TaskInvariant
  <1>1. CASE /\ \A a \in Assocs : NotQueued(a)
             /\ \A x \in Socks : SameNotice(x)
             /\ \A u \in Tasks : u # t => pc'[u] = pc[u] /\ fresh'[u] = fresh[u] /\ on'[u] = on[u]
             /\ pc'[t] # "clear"
    BY <1>1, NoticeKept DEF SameGuard
  <1>2. CASE /\ UNCHANGED <<sk, state, home>>
             /\ \A u \in Tasks : u # t => pc'[u] = pc[u] /\ fresh'[u] = fresh[u] /\ on'[u] = on[u]
             /\ pc'[t] # "clear"
    BY <1>1, <1>2 DEF NotQueued, SameNotice
  <1>3. CASE cancel(t) \/ accept4_error(t) \/ readable(t) \/ \E s \in Socks : accept(t, s)
    BY <1>2, <1>3 DEF cancel, accept4_error, readable, accept, Finish, TypeOK
  <1>4. CASE accept4_would_block(t)
    <2>1. CASE sk[on[t]].owner # "SctpListener"
      BY <1>2, <1>4, <2>1 DEF accept4_would_block, Finish, TypeOK
    <2>2. CASE sk[on[t]].owner = "SctpListener"
      <3>1. /\ Queue(on[t]) = {} /\ UNCHANGED <<on, fresh, sk, state, home>>
            /\ \A u \in Tasks : u # t => pc'[u] = pc[u]
        BY <1>4, <2>2 DEF accept4_would_block, TypeOK
      <3>2. \A x : Queue(x)' = Queue(x)
        BY <3>1 DEF Queue
      <3>3. QueueNoticed'
        BY <3>1, <3>2 DEF QueueNoticed
      <3>4. ClearInvariant'
        <4> SUFFICES ASSUME NEW u \in Tasks, pc'[u] = "clear", fresh'[u], Queue(on[u])' # {}
                     PROVE  sk'[on'[u]].edge
          BY DEF ClearInvariant, Queue
        <4>1. Queue(on[u]) # {}
          BY <3>1 DEF Queue
        <4>2. u # t
          BY <3>1, <4>1
        <4> QED
          BY <3>1, <4>1, <4>2 DEF ClearInvariant
      <3> QED
        BY <3>3, <3>4
    <2> QED
      BY <2>1, <2>2
  <1>5. CASE clear_ready(t)
    <2>1. /\ on[t] \in Socks /\ sk[on[t]].owner = "SctpListener" /\ pc[t] = "clear"
          /\ sk[on[t]] \in Sock /\ fresh[t] \in BOOLEAN
      BY <1>5 DEF clear_ready, TaskShape, Borrowing, TypeOK
    <2> DEFINE e == sk[on[t]].ready /\ ~fresh[t]
    <2>2. sk' = [sk EXCEPT ![on[t]].ready = e]
      BY <1>5, Zenon DEF clear_ready
    <2>3. ~fresh[t] => (e <=> sk[on[t]].ready)
      OBVIOUS
    <2> HIDE DEF e
    <2>4. /\ \A x \in Socks : x # on[t] => sk'[x] = sk[x]
          /\ sk'[on[t]].ready = e /\ sk'[on[t]].edge = sk[on[t]].edge
          /\ sk'[on[t]].owner = sk[on[t]].owner
      BY <2>1, <2>2 DEF TypeOK, Sock
    <2>5. /\ UNCHANGED <<state, home, on>> /\ pc'[t] = "readable"
          /\ \A u \in Tasks : u # t => pc'[u] = pc[u] /\ fresh'[u] = fresh[u]
      BY <1>5 DEF clear_ready, TypeOK
    <2>6. \A x : Queue(x)' = Queue(x)
      BY <2>5 DEF Queue
    <2>7. QueueNoticed'
      <3> SUFFICES ASSUME NEW x \in Socks, sk'[x].owner = "SctpListener", Queue(x) # {}
                   PROVE  sk'[x].edge \/ sk'[x].ready
        BY <2>6 DEF QueueNoticed
      <3>1. CASE x # on[t]
        BY <2>4, <3>1 DEF QueueNoticed
      <3>2. CASE x = on[t] /\ fresh[t]
        BY <2>1, <2>4, <3>2 DEF ClearInvariant
      <3>3. CASE x = on[t] /\ ~fresh[t]
        BY <2>1, <2>3, <2>4, <3>3 DEF QueueNoticed
      <3> QED
        BY <3>1, <3>2, <3>3
    <2>8. ClearInvariant'
      <3> SUFFICES ASSUME NEW u \in Tasks, pc'[u] = "clear", fresh'[u], Queue(on[u])' # {}
                   PROVE  sk'[on'[u]].edge
        BY DEF ClearInvariant, Queue
      <3>1. Queue(on[u]) # {} /\ u # t
        BY <2>5 DEF Queue
      <3>2. pc[u] = "clear" /\ fresh[u] /\ on[u] \in Socks
        BY <2>5, <3>1 DEF TaskInvariant, TaskShape, Borrowing
      <3> QED
        BY <2>4, <2>5, <3>1, <3>2 DEF ClearInvariant
    <2> QED
      BY <2>7, <2>8
  <1>6. CASE accept4(t) \/ \E s \in Socks : peeloff(t, s)
    <2>1. PICK s \in Socks, a \in Assocs : Obtain(t, s, a)
      BY <1>6 DEF accept4, peeloff, Queue
    <2>2. /\ \A u \in Tasks : u # t => on'[u] = on[u] /\ pc'[u] = pc[u] /\ fresh'[u] = fresh[u]
          /\ pc'[t] # "clear"
      BY <1>6, <2>1 DEF accept4, peeloff, Obtain, TypeOK
    <2>3. \A b \in Assocs : NotQueued(b)
      BY <2>1 DEF Obtain, NotQueued, TypeOK
    <2>4. sk'[s].owner = "call" /\ \A x \in Socks : x # s => sk'[x] = sk[x]
      BY <2>1 DEF Obtain, TypeOK, Closed
    <2> QED
      BY <1>1, <2>2, <2>3, <2>4 DEF SameNotice
  <1>7. ASSUME NEW s \in Socks, stream_connectx(t, s)
        PROVE  ClearInvariant' /\ QueueNoticed'
    <2>1. /\ \A u \in Tasks : u # t => on'[u] = on[u] /\ pc'[u] = pc[u] /\ fresh'[u] = fresh[u]
          /\ pc'[t] # "clear"
      BY <1>7 DEF stream_connectx, TypeOK
    <2>2. CASE CloseSock(s) /\ CloseAssocs(s)
      BY <1>1, <2>1, <2>2, CloseQuiet
    <2>3. CASE StartSetup(s, "call") /\ register(s, "call")
      <3>1. \A b \in Assocs : NotQueued(b)
        BY <2>3 DEF StartSetup, NotQueued, TypeOK
      <3>2. sk[s] \in Sock /\ \A x \in Socks : x # s => sk'[x] = sk[x]
        BY <2>3 DEF register, TypeOK
      <3>3. sk'[s].owner = "call"
        BY <2>3, <3>2 DEF register, TypeOK, Sock
      <3> QED
        BY <1>1, <2>1, <3>1, <3>2, <3>3 DEF SameNotice
    <2> QED
      BY <1>7, <2>2, <2>3 DEF stream_connectx
  <1>8. CASE \/ enable_rcvinfo_step(t) \/ register_nonblocking(t)
             \/ established(t) \/ drop_connectx(t)
    <2>1. new[t] \in Socks /\ sk[new[t]].owner = "call" /\ sk[new[t]] \in Sock
      BY <1>8, HoldingSteps, TaskFacts DEF TypeOK
    <2>2. CASE GiveUp(t)
      <3>1. /\ \A u \in Tasks : u # t => on'[u] = on[u] /\ pc'[u] = pc[u] /\ fresh'[u] = fresh[u]
            /\ pc'[t] # "clear"
        BY <2>2 DEF GiveUp, Finish, TypeOK
      <3> QED
        BY <1>1, <2>1, <2>2, <3>1, CloseQuiet DEF GiveUp
    <2>3. CASE /\ sk' = [sk EXCEPT ![new[t]].rcvinfo = TRUE]
               /\ pc' = [pc EXCEPT ![t] = "register"]
               /\ UNCHANGED <<state, home, on, fresh>>
      <3>1. /\ \A u \in Tasks : u # t => on'[u] = on[u] /\ pc'[u] = pc[u] /\ fresh'[u] = fresh[u]
            /\ pc'[t] # "clear"
        BY <2>3 DEF TypeOK
      <3>2. \A x \in Socks : x # new[t] => sk'[x] = sk[x]
        BY <2>3 DEF TypeOK
      <3>3. sk'[new[t]].owner = "call"
        BY <2>1, <2>3 DEF TypeOK, Sock
      <3>4. \A b \in Assocs : NotQueued(b)
        BY <2>3 DEF NotQueued
      <3> QED
        BY <1>1, <3>1, <3>2, <3>3, <3>4 DEF SameNotice
    <2>4. ASSUME NEW r \in Sock, HandOver(t, r), r.owner \in {"SctpSocket", "SctpStream"}
          PROVE  ClearInvariant' /\ QueueNoticed'
      <3>1. /\ \A u \in Tasks : u # t => on'[u] = on[u] /\ pc'[u] = pc[u] /\ fresh'[u] = fresh[u]
            /\ pc'[t] # "clear"
        BY <2>4 DEF HandOver, Finish, TypeOK
      <3>2. sk'[new[t]] = r /\ \A x \in Socks : x # new[t] => sk'[x] = sk[x]
        BY <2>1, <2>4 DEF HandOver, TypeOK
      <3>3. \A b \in Assocs : NotQueued(b)
        BY <2>4 DEF HandOver, NotQueued
      <3>4. \A x \in Socks : SameNotice(x)
        BY <2>4, <3>2 DEF SameNotice
      <3> QED
        BY <1>1, <3>1, <3>3, <3>4
    <2> QED
      BY <1>8, <2>2, <2>3, <2>4, HoldingSteps
  <1> QED
    BY <1>3, <1>4, <1>5, <1>6, <1>7, <1>8 DEF accept_step

LEMMA NoticeStep ==
    ASSUME OwnershipInvariant, OwnershipInvariant', ClearInvariant, QueueNoticed, [Next]_vars
    PROVE  ClearInvariant' /\ QueueNoticed'
  <1>1. CASE UNCHANGED vars
    BY <1>1 DEF ClearInvariant, QueueNoticed, Queue, vars, task
  <1> QED
    BY <1>1, NoticeAssocSteps, NoticeSocketSteps, NoticeTaskSteps DEF Next

-----------------------------------------------------------------------------
(* Theorems.                                                               *)

\* Who owns what: the inductive invariant that the theorems below rest on holds
\* in every reachable state, for any number of descriptors, associations and
\* tasks.
THEOREM SocketsAreKept == Spec => []Inv
  <1>1. Init => Inv
    <2> SUFFICES ASSUME Init PROVE Inv
      OBVIOUS
    <2>1. OwnershipInvariant
      BY OwnershipInit
    <2>2. AbortInvariant /\ ClearInvariant /\ QueueNoticed
      BY DEF Init, AbortInvariant, ClearInvariant, QueueNoticed, Queue
    <2> QED
      BY <2>1, <2>2 DEF Inv
  <1>2. Inv /\ [Next]_vars => Inv'
    BY OwnershipStep, AbortStep, NoticeStep DEF Inv
  <1> QED
    BY <1>1, <1>2, PTL DEF Spec

\* A socket behind a tokio type is always non-blocking and registered: register
\* and from_nonblocking_imp leave no way round it, whatever other tasks do
\* between the system calls of accept, peeloff and connectx.
THEOREM NeverBlocksTheRuntime == Spec => []AsyncNeverBlocks
  <1>1. Inv => AsyncNeverBlocks
    BY DEF Inv, OwnershipInvariant, SockInvariant, AsyncNeverBlocks
  <1> QED
    BY <1>1, SocketsAreKept, PTL

\* Every socket in a handle that was not brought in with from_raw_fd has
\* RCVINFO enabled, also one that into_raw_fd gave away and from_raw_fd took
\* back.
THEOREM RcvInfoAlwaysOn == Spec => []RcvInfoEverywhere
  <1>1. Inv => RcvInfoEverywhere
    BY DEF Inv, OwnershipInvariant, SockInvariant, RcvInfoEverywhere
  <1> QED
    BY <1>1, SocketsAreKept, PTL

\* No association that accept, peeloff or connectx has taken over is lost, and
\* no descriptor leaks, however the calls are interleaved, fail or are dropped.
THEOREM NothingStranded == Spec => []NoneStranded
  <1>1. Inv => NoneStranded
    <2> SUFFICES ASSUME Inv PROVE NoneStranded
      OBVIOUS
    <2>1. TaskInvariant /\ AssocInvariant /\ FateInvariant
      BY DEF Inv, OwnershipInvariant
    <2>2. \A a \in Assocs :
            /\ fate[a] = "call" =>
                \E t \in Tasks : new[t] = home[a]
                                 /\ pc[t] \in {"enable_rcvinfo", "register", "established"}
            /\ fate[a] = "error" => state[a] \notin {"setup", "queued", "up"}
      BY <2>1 DEF FateInvariant, Holding
    <2>3. \A a \in Assocs :
            state[a] \in {"setup", "queued", "up"} => sk[home[a]].owner # "closed"
      BY <2>1 DEF AssocInvariant
    <2> QED
      BY <2>1, <2>2, <2>3 DEF NoneStranded, TaskInvariant
  <1> QED
    BY <1>1, SocketsAreKept, PTL

\* Once abort or set_abort_on_drop has returned Ok, the step that closes the
\* socket of an association that is still there aborts it, whoever holds the
\* last handle and whatever happened to the stream in between. An explicit
\* shutdown may still end the association gracefully before that step.
THEOREM AbortAlwaysHonoured == Spec => AbortHonoured
  <1> DEFINE Aborts ==
        \A a \in doomed' :
            home[a] # None /\ home'[a] = None /\ state[a] \in {"up", "shutdown"}
              => state'[a] = "aborted"
  <1>1. Inv /\ [Next]_vars => [Aborts]_vars
    BY FinalDropAborts DEF Inv
  <1> QED
    BY <1>1, SocketsAreKept, PTL DEF Spec, AbortHonoured

\* A listener with a waiting association has cached readiness or an event to
\* come: try_io clears readiness only under a guard no event has overtaken.
THEOREM QueueAlwaysNoticed == Spec => []QueueNoticed
  <1>1. Inv => QueueNoticed
    BY DEF Inv
  <1> QED
    BY <1>1, SocketsAreKept, PTL
=============================================================================

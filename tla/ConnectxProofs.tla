--------------------------- MODULE ConnectxProofs ---------------------------
(***************************************************************************)
(* Theorems about Connectx, for every set of threads and peers. What a     *)
(* call returns depends on the association it started and on the mode of   *)
(* the socket; the notifications do not enter.                             *)
(***************************************************************************)
EXTENDS Connectx, TLAPS

USE MidCallAssumption, BoundsAssumption DEF MidCallAssumption, BoundsAssumption

-----------------------------------------------------------------------------
(* The inductive invariant.                                                *)

States == {"setup", "up", "failed", "over", "dropped"}

\* An answer to the INIT takes the count of the attempts back.
Asoc ==
    {a \in [peer : Peers, call : Nat, state : States,
             notify : BOOLEAN, peeled : BOOLEAN, spent : BOOLEAN] :
        a.state \in {"up", "over"} => ~a.spent}

Saw == {"saw_nonblocking", "saw_blocking"}

InCall == {"wait", "done", "error"}

Call == [pc : {"idle"} \cup Saw \cup InCall, fn : {"none", "connect", "connectx"},
         no : Nat, at : Nat, entered : BOOLEAN, first : BOOLEAN,
         errno : {"none", "EADDRNOTAVAIL", "EISCONN", "EALREADY", "EINPROGRESS",
                  "EINTR", "ECONNREFUSED", "ETIMEDOUT"},
         ret : {"none", "ok", "os_error", "invalid_input", "timed_out"},
         wanted : BOOLEAN]

TypeOK ==
    /\ nonblock \in BOOLEAN /\ sndtimeo \in BOOLEAN /\ subscribed \in BOOLEAN
    /\ asocs \in Seq(Asoc)
    /\ call \in [Threads -> Call]
    /\ calls \in Nat

CameUp(id) == id \in Ids /\ asocs[id].state \in {"up", "over"}

\* The handshake ended after its last INIT.
GaveUp(id) == id \in Ids /\ asocs[id].spent /\ asocs[id].state \in {"failed", "dropped"}

\* A call that started an association holds its id until it returns, and one
\* that has come back from waiting found it established.
Holds(t) ==
    /\ (call[t].pc \in {"wait", "done"}
            \/ (call[t].pc = "error" /\ call[t].errno = "EINPROGRESS"))
        => call[t].at \in Ids /\ asocs[call[t].at].call = call[t].no
    /\ call[t].pc = "done" => CameUp(call[t].at) /\ call[t].errno = "none"
    /\ call[t].pc = "wait" => ~call[t].entered
    /\ call[t].pc \in InCall => call[t].ret = "none"

HoldInvariant == \A t \in Threads : Holds(t)

\* With no set_nonblocking during a call, the mode that connectx reads with
\* F_GETFL is the one the kernel saw.
ModeInvariant ==
    /\ \A t \in Threads : call[t].pc \in InCall => call[t].entered = nonblock
    /\ \A t, u \in Threads : t # u /\ call[t].pc \in Saw => call[u].pc = "idle"

\* EINPROGRESS has two causes, ETIMEDOUT one.
Cause(c) ==
    /\ c.pc = "error" /\ c.errno = "EINPROGRESS" => c.entered \/ sndtimeo
    /\ c.pc = "error" /\ c.errno = "ETIMEDOUT" => ~c.entered /\ GaveUp(c.at)

CauseInvariant == \A t \in Threads : Cause(call[t])

\* TimedOutMeansWaited, of an association that is there.
Late(c) == c.ret = "timed_out" => ~c.entered /\ (sndtimeo \/ GaveUp(c.at))

LateInvariant == \A t \in Threads : Late(call[t])

\* OkAfterBlockingMeansUp, also while the thread is in set_nonblocking.
UpInvariant ==
    \A t \in Threads : call[t].ret = "ok" /\ ~call[t].entered => CameUp(call[t].at)

IdInvariant == TypeOK /\ HoldInvariant /\ IdOfOwnAssociation

CallInvariant ==
    IdInvariant /\ ModeInvariant /\ CauseInvariant /\ UpInvariant /\ LateInvariant

-----------------------------------------------------------------------------
(* Associations are added and move on.                                     *)

Grows ==
    /\ asocs' \in Seq(Asoc)
    /\ Len(asocs) <= Len(asocs')
    /\ \A id \in Ids : /\ asocs'[id].call = asocs[id].call
                       /\ asocs[id].state \in {"up", "over"}
                            => asocs'[id].state \in {"up", "over"}
                       /\ asocs[id].state \in {"failed", "dropped"}
                            => asocs'[id].state = asocs[id].state
                               /\ asocs'[id].spent = asocs[id].spent

\* One association changes its state, or is peeled off.
LEMMA ChangeGrows ==
    ASSUME TypeOK, NEW id \in Ids, NEW a \in Asoc,
           asocs' = [asocs EXCEPT ![id] = a],
           a.call = asocs[id].call,
           asocs[id].state \in {"up", "over"} => a.state \in {"up", "over"},
           asocs[id].state \in {"failed", "dropped"}
                => a.state = asocs[id].state /\ a.spent = asocs[id].spent
    PROVE  Grows
  <1>1. asocs \in Seq(Asoc) /\ id \in 1 .. Len(asocs)
    BY DEF TypeOK, Ids
  <1>2. asocs' \in Seq(Asoc) /\ Len(asocs') = Len(asocs)
    BY <1>1
  <1>3. asocs'[id] = a /\ \A i \in Ids : i # id => asocs'[i] = asocs[i]
    BY <1>1 DEF Ids
  <1> QED
    BY <1>1, <1>2, <1>3 DEF Grows, Ids

LEMMA ChangeSteps ==
    ASSUME TypeOK, NEW id \in Ids, NEW s \in {"up", "failed"}, NEW change,
           asocs[id].state = "setup", Change(id, s, change)
    PROVE  Grows
  <1>1. asocs \in Seq(Asoc) /\ id \in 1 .. Len(asocs) /\ asocs[id] \in Asoc
    BY DEF TypeOK, Ids
  <1> DEFINE a == [asocs[id] EXCEPT !.state = s, !.spent = asocs[id].spent /\ s # "up"]
  <1>2. (asocs[id].spent /\ s # "up") \in BOOLEAN
    BY <1>1 DEF Asoc
  <1>3. a \in Asoc /\ a.call = asocs[id].call /\ a.state = s
    BY <1>1, <1>2 DEF Asoc, States
  <1>4. asocs' = [asocs EXCEPT ![id] = a]
    BY <1>1 DEF Change
  <1> HIDE DEF a
  <1> QED
    BY <1>3, <1>4, ChangeGrows

LEMMA EndsSteps ==
    ASSUME TypeOK, NEW id \in Ids, NEW s \in {"over", "dropped"}, Ends(id, s),
           asocs[id].state = IF s = "over" THEN "up" ELSE "setup"
    PROVE  Grows
  <1>1. asocs \in Seq(Asoc) /\ id \in 1 .. Len(asocs) /\ asocs[id] \in Asoc
    BY DEF TypeOK, Ids
  <1> DEFINE a == [asocs[id] EXCEPT !.state = s]
  <1>2. a \in Asoc /\ a.call = asocs[id].call /\ a.state = s
    BY <1>1 DEF Asoc, States
  <1>3. asocs' = [asocs EXCEPT ![id] = a]
    BY <1>1 DEF Ends
  <1> HIDE DEF a
  <1> QED
    BY <1>2, <1>3, ChangeGrows

LEMMA LastAttemptGrows ==
    ASSUME TypeOK, NEW id \in Ids, LastAttempt(id)
    PROVE  Grows
  <1>1. asocs \in Seq(Asoc) /\ id \in 1 .. Len(asocs) /\ asocs[id] \in Asoc
    BY DEF TypeOK, Ids
  <1> DEFINE a == [asocs[id] EXCEPT !.spent = TRUE]
  <1>2. asocs[id].state = "setup" /\ asocs' = [asocs EXCEPT ![id] = a]
    BY <1>1 DEF LastAttempt
  <1>3. a \in Asoc /\ a.call = asocs[id].call /\ a.state = "setup"
    BY <1>1, <1>2 DEF Asoc, States
  <1> HIDE DEF a
  <1> QED
    BY <1>2, <1>3, ChangeGrows

LEMMA PeelGrows ==
    ASSUME TypeOK, NEW id \in Ids, asocs' = [asocs EXCEPT ![id].peeled = TRUE]
    PROVE  Grows
  <1>1. asocs \in Seq(Asoc) /\ id \in 1 .. Len(asocs) /\ asocs[id] \in Asoc
    BY DEF TypeOK, Ids
  <1> DEFINE a == [asocs[id] EXCEPT !.peeled = TRUE]
  <1>2. /\ a \in Asoc /\ a.call = asocs[id].call /\ a.state = asocs[id].state
        /\ a.spent = asocs[id].spent
    BY <1>1 DEF Asoc
  <1>3. asocs' = [asocs EXCEPT ![id] = a]
    BY <1>1
  <1> HIDE DEF a
  <1> QED
    BY <1>2, <1>3, ChangeGrows

LEMMA AppendGrows ==
    ASSUME TypeOK, NEW p \in Peers, NEW no \in Nat, NEW s \in {"setup", "up"},
           asocs' = Append(asocs, NewAssoc(p, no, s))
    PROVE  /\ Grows
           /\ Len(asocs) + 1 \in Ids'
           /\ asocs'[Len(asocs) + 1].call = no
  <1> DEFINE a == NewAssoc(p, no, s)
  <1>1. a \in Asoc /\ a.call = no
    BY DEF NewAssoc, Asoc, States, TypeOK
  <1>2. asocs \in Seq(Asoc)
    BY DEF TypeOK
  <1> HIDE DEF a
  <1>3. asocs' = Append(asocs, a)
    BY DEF a
  <1>4. /\ asocs' \in Seq(Asoc) /\ Len(asocs') = Len(asocs) + 1 /\ Len(asocs) \in Nat
        /\ asocs'[Len(asocs) + 1] = a
        /\ \A i \in 1 .. Len(asocs) : asocs'[i] = asocs[i]
    BY <1>1, <1>2, <1>3
  <1> QED
    BY <1>1, <1>4 DEF Grows, Ids

\* What the peers, the kernel and the reader do leaves the calls alone.
Environment ==
    /\ Grows
    /\ subscribed' \in BOOLEAN
    /\ UNCHANGED <<nonblock, sndtimeo, call, calls, told>>

LEMMA EnvironmentSteps ==
    ASSUME TypeOK,
           \/ \E id \in Ids : LastAttempt(id) \/ HandshakeEnds(id) \/ PeerLeaves(id)
           \/ \E p \in Peers : PeerConnects(p)
           \/ subscribe_event \/ recv_msg
           \/ \E id \in Ids : send_msg_closing(id) \/ peeloff(id)
    PROVE  Environment
  <1>0. subscribed \in BOOLEAN /\ asocs \in Seq(Asoc)
    BY DEF TypeOK
  <1>1. ASSUME NEW id \in Ids, HandshakeEnds(id)
        PROVE  Environment
    <2>1. /\ asocs[id].state = "setup" /\ UNCHANGED <<socket, call, calls, told>>
          /\ Change(id, "up", "CommUp") \/ Change(id, "failed", "CantStartAssoc")
      BY <1>1 DEF HandshakeEnds
    <2>2. Grows
      BY <2>1, ChangeSteps
    <2> QED
      BY <1>0, <2>1, <2>2 DEF Environment, socket
  <1>2. ASSUME NEW id \in Ids, PeerLeaves(id)
        PROVE  Environment
    <2>1. /\ asocs[id].state = "up" /\ Ends(id, "over")
          /\ UNCHANGED <<socket, call, calls, told>>
      BY <1>2 DEF PeerLeaves
    <2>2. Grows
      BY <2>1, EndsSteps
    <2> QED
      BY <1>0, <2>1, <2>2 DEF Environment, socket
  <1>7. ASSUME NEW id \in Ids, LastAttempt(id)
        PROVE  Environment
    <2>1. Grows /\ UNCHANGED <<socket, call, calls, told>>
      BY <1>7, LastAttemptGrows DEF LastAttempt
    <2> QED
      BY <1>0, <2>1 DEF Environment, socket
  <1>3. ASSUME NEW p \in Peers, PeerConnects(p)
        PROVE  Environment
    <2>1. asocs' = Append(asocs, NewAssoc(p, PEER, "up")) /\ PEER \in Nat
          /\ UNCHANGED <<socket, call, calls, told>>
      BY <1>3 DEF PeerConnects, PEER
    <2>2. Grows
      BY <2>1, AppendGrows
    <2> QED
      BY <1>0, <2>1, <2>2 DEF Environment, socket
  <1>4. CASE subscribe_event \/ recv_msg
    <2>1. UNCHANGED <<asocs, nonblock, sndtimeo, call, calls, told>> /\ subscribed' \in BOOLEAN
      BY <1>0, <1>4 DEF subscribe_event, recv_msg, kernel, socket
    <2> QED
      BY <1>0, <2>1 DEF Environment, Grows, Ids
  <1>5. ASSUME NEW id \in Ids, send_msg_closing(id)
        PROVE  Environment
    <2>1. \/ asocs[id].state = "setup" /\ Change(id, "failed", "CantStartAssoc")
          \/ asocs[id].state = "setup" /\ Ends(id, "dropped")
          \/ asocs[id].state = "up" /\ Ends(id, "over")
      BY <1>5 DEF send_msg_closing
    <2>2. UNCHANGED <<socket, call, calls, told>>
      BY <1>5 DEF send_msg_closing
    <2>3. Grows
      BY <2>1, ChangeSteps, EndsSteps
    <2> QED
      BY <1>0, <2>2, <2>3 DEF Environment, socket
  <1>6. ASSUME NEW id \in Ids, peeloff(id)
        PROVE  Environment
    <2>1. asocs' = [asocs EXCEPT ![id].peeled = TRUE] /\ UNCHANGED <<socket, call, calls, told>>
      BY <1>6 DEF peeloff
    <2>2. Grows
      BY <2>1, PeelGrows
    <2> QED
      BY <1>0, <2>1, <2>2 DEF Environment, socket
  <1> QED
    BY <1>1, <1>2, <1>3, <1>4, <1>5, <1>6, <1>7

-----------------------------------------------------------------------------
(* The steps of a call, as the record of the call that they leave behind.  *)

CallBecomes(t, c) ==
    /\ call' = [call EXCEPT ![t] = c]
    /\ UNCHANGED <<nonblock, sndtimeo, subscribed>>

LEMMA IdleType ==
    /\ Idle \in Call
    /\ Idle.pc = "idle" /\ Idle.ret = "none" /\ Idle.errno = "none"
  BY DEF Idle, Call

\* A call begins: refused, without addresses, or with a new association.
Begun(t, c) ==
    /\ c \in Call
    /\ c.entered = nonblock
    /\ c.ret = "none"
    /\ c.pc \in {"error", "wait"}
    /\ c.errno = "EINPROGRESS" => nonblock
    /\ c.errno # "ETIMEDOUT"
    /\ c.pc = "wait" => ~nonblock
    /\ (c.pc = "wait" \/ c.errno = "EINPROGRESS")
       => c.at \in Ids' /\ asocs'[c.at].call = c.no

LEMMA EnterSteps ==
    ASSUME TypeOK, NEW t \in Threads, NEW fn \in {"connect", "connectx"}, enter(t, fn)
    PROVE  /\ Grows /\ Called(t) /\ UNCHANGED told
           /\ \E c : CallBecomes(t, c) /\ Begun(t, c)
  <1>1. PICK p \in Peers :
            LET refusal == Refusal(p)
                begun == [Idle EXCEPT !.fn = fn, !.no = calls + 1, !.entered = nonblock,
                                      !.first = subscribed]
            IN  /\ \/ /\ refusal # "none"
                      /\ call' = [call EXCEPT ![t] =
                            [begun EXCEPT !.pc = "error", !.errno = refusal]]
                      /\ UNCHANGED asocs
                   \/ /\ asocs' = Append(asocs, NewAssoc(p, calls + 1, "setup"))
                      /\ call' = [call EXCEPT ![t] =
                            [begun EXCEPT !.at = Len(asocs) + 1,
                                          !.pc = IF nonblock THEN "error" ELSE "wait",
                                          !.errno = IF nonblock THEN "EINPROGRESS" ELSE "none"]]
    BY DEF enter
  <1>2. Called(t) /\ UNCHANGED <<socket, told>>
    BY DEF enter
  <1>3. UNCHANGED <<nonblock, sndtimeo, subscribed>>
    BY <1>2 DEF socket
  <1> DEFINE begun == [Idle EXCEPT !.fn = fn, !.no = calls + 1, !.entered = nonblock,
                                   !.first = subscribed]
  <1>4. calls + 1 \in Nat /\ asocs \in Seq(Asoc) /\ Len(asocs) + 1 \in Nat
    BY DEF TypeOK
  <1>5. /\ begun \in Call /\ begun.entered = nonblock /\ begun.ret = "none"
        /\ begun.no = calls + 1
    BY <1>4 DEF TypeOK, Idle, Call
  <1> HIDE DEF begun
  <1>6. CASE Refusal(p) # "none" /\ UNCHANGED asocs
             /\ call' = [call EXCEPT ![t] = [begun EXCEPT !.pc = "error", !.errno = Refusal(p)]]
    <2> DEFINE c == [begun EXCEPT !.pc = "error", !.errno = Refusal(p)]
    <2>1. Refusal(p) \in {"EADDRNOTAVAIL", "EISCONN", "EALREADY"}
      BY <1>6 DEF Refusal
    <2>2. /\ c \in Call /\ c.entered = nonblock /\ c.ret = "none" /\ c.pc = "error"
          /\ c.errno = Refusal(p)
      BY <1>5, <2>1 DEF Call, InCall
    <2>3. CallBecomes(t, c)
      BY <1>3, <1>6 DEF CallBecomes
    <2>4. Grows
      BY <1>4, <1>6 DEF Grows, Ids
    <2> HIDE DEF c
    <2>5. Begun(t, c)
      BY <2>1, <2>2 DEF Begun
    <2> QED
      BY <1>2, <2>3, <2>4, <2>5
  <1>7. CASE /\ asocs' = Append(asocs, NewAssoc(p, calls + 1, "setup"))
             /\ call' = [call EXCEPT ![t] =
                    [begun EXCEPT !.at = Len(asocs) + 1,
                                  !.pc = IF nonblock THEN "error" ELSE "wait",
                                  !.errno = IF nonblock THEN "EINPROGRESS" ELSE "none"]]
    <2> DEFINE c == [begun EXCEPT !.at = Len(asocs) + 1,
                                  !.pc = IF nonblock THEN "error" ELSE "wait",
                                  !.errno = IF nonblock THEN "EINPROGRESS" ELSE "none"]
    <2>2. /\ c \in Call /\ c.entered = nonblock /\ c.ret = "none" /\ c.pc \in {"error", "wait"}
          /\ c.errno = "EINPROGRESS" => nonblock
          /\ c.errno # "ETIMEDOUT"
          /\ c.pc = "wait" => ~nonblock
          /\ c.at = Len(asocs) + 1 /\ c.no = calls + 1
      BY <1>4, <1>5 DEF Call, InCall
    <2>3. CallBecomes(t, c)
      BY <1>3, <1>7 DEF CallBecomes
    <2>4. Grows /\ Len(asocs) + 1 \in Ids' /\ asocs'[Len(asocs) + 1].call = calls + 1
      BY <1>4, <1>7, AppendGrows
    <2> HIDE DEF c
    <2>5. Begun(t, c)
      BY <2>2, <2>4 DEF Begun
    <2> QED
      BY <1>2, <2>3, <2>4, <2>5
  <1> QED
    BY <1>1, <1>6, <1>7 DEF begun

\* The other steps of a thread: it returns without a call, waits, returns, or
\* reads and sets the mode of the socket.
Returned(t, c) ==
    /\ c \in Call /\ c.pc = "idle"
    /\ c.at = call[t].at /\ c.entered = call[t].entered
    /\ \/ /\ c.ret \in {"none", "os_error", "invalid_input"}
       \/ /\ call[t].pc = "done" /\ c.ret = "ok"
       \/ /\ call[t].pc = "error" /\ call[t].errno = "EINPROGRESS"
          /\ c.ret = IF nonblock THEN "ok" ELSE "timed_out"
       \/ /\ call[t].pc = "error" /\ call[t].errno = "ETIMEDOUT" /\ c.ret = "timed_out"

LEMMA ReturnFacts ==
    ASSUME TypeOK, NEW t \in Threads, NEW ret \in {"ok", "os_error", "invalid_input", "timed_out"},
           Return(t, ret), UNCHANGED socket
    PROVE  \E c \in Call : /\ CallBecomes(t, c) /\ c.pc = "idle"
                           /\ c.at = call[t].at /\ c.entered = call[t].entered /\ c.ret = ret
  <1> DEFINE c == [Idle EXCEPT !.ret = ret, !.at = call[t].at, !.entered = call[t].entered]
  <1>1. call[t].at \in Nat /\ call[t].entered \in BOOLEAN
    BY DEF TypeOK, Call
  <1>2. /\ c \in Call /\ c.pc = "idle" /\ c.at = call[t].at
        /\ c.entered = call[t].entered /\ c.ret = ret
    BY <1>1 DEF Idle, Call
  <1>3. CallBecomes(t, c)
    BY DEF Return, CallBecomes, socket
  <1> HIDE DEF c
  <1> QED
    BY <1>2, <1>3

\* What connectx reports to its caller, and for which association.
Tells(t) ==
    /\ call[t].pc = "done" \/ (call[t].pc = "error" /\ call[t].errno = "EINPROGRESS")
    /\ told' = told \cup {[call |-> call[t].no, id |-> AssocIdOf(t), first |-> call[t].first]}

LEMMA ReturnSteps ==
    ASSUME TypeOK, NEW t \in Threads, connect_return(t) \/ connectx_ok(t) \/ connectx_error(t)
    PROVE  /\ UNCHANGED <<asocs, calls>>
           /\ UNCHANGED told \/ Tells(t)
           /\ call[t].pc \in {"done", "error"}
           /\ \E c : CallBecomes(t, c) /\ Returned(t, c)
  <1>1. UNCHANGED <<asocs, calls, socket>> /\ call[t].pc \in {"done", "error"}
    BY DEF connect_return, connectx_ok, connectx_error, kernel
  <1>2. CASE connect_return(t)
    <2>1. PICK ret \in {"ok", "os_error", "timed_out"} :
            /\ Return(t, ret) /\ UNCHANGED told
            /\ \/ ret = "os_error"
               \/ ret = "ok" /\ call[t].pc = "done"
               \/ ret = "timed_out" /\ call[t].pc = "error" /\ call[t].errno = "ETIMEDOUT"
      BY <1>2 DEF connect_return, last_os_error
    <2>2. PICK c \in Call : /\ CallBecomes(t, c) /\ c.pc = "idle"
                            /\ c.at = call[t].at /\ c.entered = call[t].entered /\ c.ret = ret
      BY <1>1, <2>1, ReturnFacts
    <2>3. Returned(t, c)
      BY <2>1, <2>2 DEF Returned
    <2> QED
      BY <1>1, <2>1, <2>2, <2>3
  <1>3. CASE connectx_ok(t)
    BY <1>1, <1>3, ReturnFacts DEF connectx_ok, ReturnId, Returned, Tells
  <1>4. CASE connectx_error(t)
    <2> DEFINE ret == classify_connectx_error(call[t].errno, nonblock)
    <2>1. /\ call[t].pc = "error"
          /\ \/ ret = "ok" /\ ReturnId(t)
             \/ ret # "ok" /\ Return(t, ret) /\ UNCHANGED told
      BY <1>4 DEF connectx_error
    <2>2. /\ ret \in {"ok", "os_error", "timed_out"}
          /\ ret # "os_error" =>
                \/ /\ call[t].errno = "EINPROGRESS"
                   /\ ret = IF nonblock THEN "ok" ELSE "timed_out"
                \/ call[t].errno = "ETIMEDOUT" /\ ret = "timed_out"
      BY DEF classify_connectx_error, last_os_error
    <2> HIDE DEF ret
    <2>3. Return(t, ret)
      BY <2>1 DEF ReturnId
    <2>4. UNCHANGED told \/ Tells(t)
      BY <2>1, <2>2 DEF ReturnId, Tells
    <2>5. PICK c \in Call : /\ CallBecomes(t, c) /\ c.pc = "idle"
                            /\ c.at = call[t].at /\ c.entered = call[t].entered /\ c.ret = ret
      BY <1>1, <2>2, <2>3, ReturnFacts
    <2>6. Returned(t, c)
      BY <2>1, <2>2, <2>5 DEF Returned
    <2> QED
      BY <1>1, <2>4, <2>5, <2>6
  <1> QED
    BY <1>2, <1>3, <1>4

\* The wait is over: established, failed, interrupted or timed out.
Waited(t, c) ==
    /\ c \in Call /\ call[t].pc = "wait"
    /\ c.at = call[t].at /\ c.no = call[t].no /\ c.entered = call[t].entered
    /\ c.ret = call[t].ret
    /\ \/ c.pc = "done" /\ c.errno = "none" /\ asocs[call[t].at].state = "up"
       \/ /\ c.pc = "error"
          /\ c.errno = "EINPROGRESS" => sndtimeo
          /\ c.errno = "ETIMEDOUT" => GaveUp(call[t].at)

LEMMA WaitSteps ==
    ASSUME TypeOK, NEW t \in Threads, call[t].at \in Ids, wait_for_connect(t)
    PROVE  /\ UNCHANGED <<asocs, calls, told>>
           /\ \E c : CallBecomes(t, c) /\ Waited(t, c)
  <1>1. UNCHANGED <<asocs, calls, told, nonblock, sndtimeo, subscribed>> /\ call[t].pc = "wait"
    BY DEF wait_for_connect, kernel, socket
  <1>0. asocs[call[t].at] \in Asoc
    BY DEF TypeOK, Ids
  <1>2. PICK pc \in {"done", "error"},
             errno \in {"none", "ECONNREFUSED", "ETIMEDOUT", "EINTR", "EINPROGRESS"} :
            /\ call' = [call EXCEPT ![t].pc = pc, ![t].errno = errno]
            /\ \/ pc = "done" /\ errno = "none" /\ asocs[call[t].at].state = "up"
               \/ /\ pc = "error"
                  /\ errno = "EINPROGRESS" => sndtimeo
                  /\ errno = "ETIMEDOUT" => GaveUp(call[t].at)
    <2> DEFINE state == asocs[call[t].at].state
               ends(pc, errno) == call' = [call EXCEPT ![t].pc = pc, ![t].errno = errno]
    <2>1. \/ state = "up" /\ ends("done", "none")
          \/ state \in {"failed", "over", "dropped"} /\ ~asocs[call[t].at].spent
             /\ ends("error", "ECONNREFUSED")
          \/ state \in {"failed", "over", "dropped"} /\ asocs[call[t].at].spent
             /\ ends("error", "ETIMEDOUT")
          \/ state = "setup" /\ ends("error", "EINTR")
          \/ state = "setup" /\ sndtimeo /\ ends("error", "EINPROGRESS")
      BY DEF wait_for_connect
    <2>2. state \in {"failed", "over", "dropped"} /\ asocs[call[t].at].spent => GaveUp(call[t].at)
      BY <1>0 DEF Asoc, GaveUp
    <2> QED
      BY <2>1, <2>2
  <1> DEFINE c == [call[t] EXCEPT !.pc = pc, !.errno = errno]
  <1>3. call[t] \in Call
    BY DEF TypeOK
  <1>4. /\ c \in Call /\ c.pc = pc /\ c.errno = errno
        /\ c.at = call[t].at /\ c.no = call[t].no /\ c.entered = call[t].entered
        /\ c.ret = call[t].ret
    BY <1>3 DEF Call, InCall
  <1>5. call' = [call EXCEPT ![t] = c]
    BY <1>2 DEF TypeOK
  <1> HIDE DEF c
  <1>6. CallBecomes(t, c) /\ Waited(t, c)
    BY <1>1, <1>2, <1>4, <1>5 DEF CallBecomes, Waited
  <1> QED
    BY <1>1, <1>6

\* A thread in set_nonblocking keeps what its last call returned.
ModeStep(t, c) ==
    /\ c \in Call
    /\ call[t].pc \notin InCall /\ c.pc \notin InCall
    /\ c.at = call[t].at /\ c.entered = call[t].entered /\ c.ret = call[t].ret

LEMMA ModeSteps ==
    ASSUME TypeOK, NEW t \in Threads, set_nonblocking_getfl(t) \/ set_nonblocking_setfl(t)
    PROVE  /\ UNCHANGED <<asocs, calls, told, sndtimeo, subscribed>>
           /\ nonblock' \in BOOLEAN
           /\ \E c : call' = [call EXCEPT ![t] = c] /\ ModeStep(t, c)
  <1>0. call[t] \in Call /\ nonblock \in BOOLEAN
    BY DEF TypeOK
  <1>1. UNCHANGED <<asocs, calls, told, sndtimeo, subscribed>>
    BY DEF set_nonblocking_getfl, set_nonblocking_setfl, kernel, socket
  <1>2. call[t].pc \in {"idle"} \cup Saw
    BY DEF set_nonblocking_getfl, set_nonblocking_setfl, Saw
  <1>3. nonblock' \in BOOLEAN
    <2>1. call[t].wanted \in BOOLEAN
      BY <1>0 DEF Call
    <2>2. nonblock' = nonblock \/ nonblock' = call[t].wanted
      BY DEF set_nonblocking_getfl, set_nonblocking_setfl, NewMode, socket
    <2> QED
      BY <1>0, <2>1, <2>2
  <1>4. PICK pc \in {"idle"} \cup Saw, wanted \in BOOLEAN :
            call' = [call EXCEPT ![t].pc = pc, ![t].wanted = wanted]
    <2>1. CASE set_nonblocking_getfl(t)
      <3>1. PICK wanted \in BOOLEAN :
                call' = [call EXCEPT ![t].wanted = wanted,
                                     ![t].pc = IF nonblock THEN "saw_nonblocking"
                                                           ELSE "saw_blocking"]
        BY <2>1 DEF set_nonblocking_getfl
      <3>2. \E pc \in Saw : call' = [call EXCEPT ![t].wanted = wanted, ![t].pc = pc]
        BY <3>1 DEF Saw
      <3>3. PICK pc \in Saw : call' = [call EXCEPT ![t].wanted = wanted, ![t].pc = pc]
        BY <3>2
      <3>4. [call[t] EXCEPT !.wanted = wanted, !.pc = pc]
                = [call[t] EXCEPT !.pc = pc, !.wanted = wanted]
        BY <1>0 DEF Call
      <3>5. call' = [call EXCEPT ![t].pc = pc, ![t].wanted = wanted]
        BY <3>3, <3>4 DEF TypeOK
      <3> QED
        BY <3>5
    <2>2. CASE set_nonblocking_setfl(t)
      BY <2>2 DEF set_nonblocking_setfl
    <2> QED
      BY <2>1, <2>2
  <1> DEFINE c == [call[t] EXCEPT !.pc = pc, !.wanted = wanted]
  <1>5. /\ c \in Call /\ c.pc = pc
        /\ c.at = call[t].at /\ c.entered = call[t].entered /\ c.ret = call[t].ret
    BY <1>0 DEF Call
  <1>6. call' = [call EXCEPT ![t] = c]
    BY <1>4 DEF TypeOK
  <1> HIDE DEF c
  <1>7. ModeStep(t, c)
    BY <1>2, <1>5 DEF ModeStep, InCall, Saw
  <1> QED
    BY <1>1, <1>3, <1>6, <1>7

\* connectx without addresses.
LEMMA NoAddrsSteps ==
    ASSUME TypeOK, NEW t \in Threads, connectx_no_addrs(t)
    PROVE  /\ UNCHANGED <<asocs, told>> /\ Called(t)
           /\ \E c \in Call : CallBecomes(t, c) /\ c.pc = "idle" /\ c.ret = "invalid_input"
  <1> DEFINE c == [Idle EXCEPT !.ret = "invalid_input"]
  <1>1. c \in Call /\ c.pc = "idle" /\ c.ret = "invalid_input"
    BY DEF Idle, Call
  <1>2. CallBecomes(t, c) /\ UNCHANGED <<asocs, told>> /\ Called(t)
    BY DEF connectx_no_addrs, CallBecomes, socket, kernel
  <1> HIDE DEF c
  <1> QED
    BY <1>1, <1>2

-----------------------------------------------------------------------------
(* Preservation.                                                           *)

LEMMA TypeKept ==
    ASSUME TypeOK, Grows, NEW t \in Threads, NEW c \in Call, call' = [call EXCEPT ![t] = c],
           nonblock' \in BOOLEAN, UNCHANGED <<sndtimeo, subscribed>>,
           calls' \in {calls, calls + 1}
    PROVE  TypeOK'
  BY DEF TypeOK, Grows

LEMMA HoldKept ==
    ASSUME TypeOK, HoldInvariant, Grows, NEW t \in Threads, NEW c \in Call,
           call' = [call EXCEPT ![t] = c], Holds(t)'
    PROVE  HoldInvariant'
  <1> SUFFICES ASSUME NEW u \in Threads, u # t PROVE Holds(u)'
    BY DEF HoldInvariant
  <1>1. call'[u] = call[u] /\ Holds(u)
    BY DEF TypeOK, HoldInvariant
  <1>2. \A id \in Ids : /\ id \in Ids' /\ asocs'[id].call = asocs[id].call
                        /\ CameUp(id) => CameUp(id)'
    BY DEF Grows, Ids, CameUp, TypeOK
  <1> QED
    BY <1>1, <1>2 DEF Holds, CameUp

LEMMA UpKept ==
    ASSUME TypeOK, UpInvariant, Grows, NEW t \in Threads, NEW c \in Call,
           call' = [call EXCEPT ![t] = c],
           c.ret = "ok" /\ ~c.entered => CameUp(c.at)'
    PROVE  UpInvariant'
  <1>1. call'[t] = c /\ \A u \in Threads : u # t => call'[u] = call[u]
    BY DEF TypeOK
  <1>2. \A id : CameUp(id) => CameUp(id)'
    BY DEF Grows, Ids, CameUp, TypeOK
  <1> QED
    BY <1>1, <1>2 DEF UpInvariant, CameUp

LEMMA ToldKept ==
    ASSUME TypeOK, IdOfOwnAssociation, Grows, UNCHANGED told
    PROVE  IdOfOwnAssociation'
  BY DEF IdOfOwnAssociation, Grows, Ids, TypeOK

LEMMA SameGrows == ASSUME TypeOK, UNCHANGED asocs PROVE Grows
  BY DEF TypeOK, Grows, Ids

LEMMA IdStep ==
    ASSUME IdInvariant, [Next]_vars
    PROVE  IdInvariant'
  <1> TypeOK /\ HoldInvariant /\ IdOfOwnAssociation
    BY DEF IdInvariant
  <1>1. CASE UNCHANGED vars
    BY <1>1 DEF IdInvariant, TypeOK, HoldInvariant, Holds, CameUp, IdOfOwnAssociation, Ids,
                vars, socket, kernel
  <1>2. CASE Environment
    <2>1. TypeOK'
      BY <1>2 DEF Environment, Grows, TypeOK
    <2>2. \A t \in Threads : Holds(t)'
      <3>1. \A id \in Ids : /\ id \in Ids' /\ asocs'[id].call = asocs[id].call
                            /\ CameUp(id) => CameUp(id)'
        BY <1>2 DEF Environment, Grows, Ids, CameUp, TypeOK
      <3>2. call' = call
        BY <1>2 DEF Environment
      <3> QED
        BY <3>1, <3>2 DEF HoldInvariant, Holds, CameUp
    <2>3. IdOfOwnAssociation'
      BY <1>2, ToldKept DEF Environment
    <2> QED
      BY <2>1, <2>2, <2>3 DEF IdInvariant, HoldInvariant
  <1>3. ASSUME NEW t \in Threads, connectx_no_addrs(t)
        PROVE  IdInvariant'
    <2>1. PICK c \in Call : CallBecomes(t, c) /\ c.pc = "idle"
      BY <1>3, NoAddrsSteps
    <2>2. UNCHANGED <<asocs, told>> /\ calls' = calls + 1 /\ Grows
      BY <1>3, NoAddrsSteps, SameGrows DEF Called
    <2>3. TypeOK'
      BY <2>1, <2>2, TypeKept DEF CallBecomes, TypeOK
    <2>4. call'[t] = c
      BY <2>1 DEF CallBecomes, TypeOK
    <2>5. HoldInvariant'
      BY <2>1, <2>2, <2>4, HoldKept DEF CallBecomes, Holds, InCall
    <2> QED
      BY <2>2, <2>3, <2>5, ToldKept DEF IdInvariant
  <1>4. ASSUME NEW t \in Threads, connect_enter(t) \/ connectx_enter(t)
        PROVE  IdInvariant'
    <2>1. PICK fn \in {"connect", "connectx"} : enter(t, fn)
      BY <1>4 DEF connect_enter, connectx_enter
    <2>2. PICK c : CallBecomes(t, c) /\ Begun(t, c)
      BY <2>1, EnterSteps
    <2>3. Grows /\ calls' = calls + 1 /\ UNCHANGED told /\ c \in Call
      BY <2>1, <2>2, EnterSteps DEF Called, Begun
    <2>4. TypeOK'
      BY <2>2, <2>3, TypeKept DEF CallBecomes, TypeOK
    <2>5. call'[t] = c
      BY <2>2 DEF CallBecomes, TypeOK
    <2>6. Holds(t)'
      BY <2>2, <2>5 DEF Begun, Holds, InCall
    <2>7. HoldInvariant'
      BY <2>2, <2>3, <2>6, HoldKept DEF CallBecomes
    <2> QED
      BY <2>3, <2>4, <2>7, ToldKept DEF IdInvariant
  <1>5. ASSUME NEW t \in Threads, wait_for_connect(t)
        PROVE  IdInvariant'
    <2>0. call[t].at \in Ids
      BY <1>5 DEF wait_for_connect, HoldInvariant, Holds
    <2>1. PICK c : CallBecomes(t, c) /\ Waited(t, c)
      BY <1>5, <2>0, WaitSteps
    <2>2. Grows /\ UNCHANGED <<asocs, calls, told>> /\ c \in Call
      BY <1>5, <2>0, <2>1, WaitSteps, SameGrows DEF Waited
    <2>3. TypeOK'
      BY <2>1, <2>2, TypeKept DEF CallBecomes, TypeOK
    <2>4. call'[t] = c
      BY <2>1 DEF CallBecomes, TypeOK
    <2>5. call[t].at \in Ids /\ asocs[call[t].at].call = call[t].no /\ call[t].ret = "none"
      BY <2>1 DEF Waited, HoldInvariant, Holds, InCall
    <2>6. Holds(t)'
      BY <2>1, <2>2, <2>4, <2>5 DEF Waited, Holds, InCall, CameUp, Ids
    <2>7. HoldInvariant'
      BY <2>1, <2>2, <2>6, HoldKept DEF CallBecomes
    <2> QED
      BY <2>2, <2>3, <2>7, ToldKept DEF IdInvariant
  <1>6. ASSUME NEW t \in Threads, connect_return(t) \/ connectx_ok(t) \/ connectx_error(t)
        PROVE  IdInvariant'
    <2>1. PICK c : CallBecomes(t, c) /\ Returned(t, c)
      BY <1>6, ReturnSteps
    <2>2. Grows /\ UNCHANGED <<asocs, calls>> /\ c \in Call /\ c.pc = "idle"
      BY <1>6, <2>1, ReturnSteps, SameGrows DEF Returned
    <2>3. TypeOK'
      BY <2>1, <2>2, TypeKept DEF CallBecomes, TypeOK
    <2>4. call'[t] = c
      BY <2>1 DEF CallBecomes, TypeOK
    <2>5. HoldInvariant'
      BY <2>1, <2>2, <2>4, HoldKept DEF CallBecomes, Holds, InCall
    <2>6. IdOfOwnAssociation'
      <3>1. CASE UNCHANGED told
        BY <2>2, <3>1, ToldKept
      <3>2. CASE Tells(t)
        <4>1. /\ call[t].at \in Ids /\ asocs[call[t].at].call = call[t].no
              /\ AssocIdOf(t) = call[t].at
          BY <3>2 DEF Tells, HoldInvariant, Holds, AssocIdOf, Written
        <4>2. \A r \in told' : r \in told \/ (r.call = call[t].no /\ r.id = call[t].at)
          BY <3>2, <4>1 DEF Tells
        <4> QED
          BY <2>2, <4>1, <4>2 DEF IdOfOwnAssociation, Ids
      <3> QED
        BY <1>6, <3>1, <3>2, ReturnSteps
    <2> QED
      BY <2>3, <2>5, <2>6 DEF IdInvariant
  <1>7. ASSUME NEW t \in Threads, set_nonblocking_getfl(t) \/ set_nonblocking_setfl(t)
        PROVE  IdInvariant'
    <2>1. PICK c : call' = [call EXCEPT ![t] = c] /\ ModeStep(t, c)
      BY <1>7, ModeSteps
    <2>2. /\ Grows /\ UNCHANGED <<asocs, calls, told, sndtimeo, subscribed>>
          /\ nonblock' \in BOOLEAN /\ c \in Call /\ c.pc \notin InCall
      BY <1>7, <2>1, ModeSteps, SameGrows DEF ModeStep
    <2>3. TypeOK'
      BY <2>1, <2>2, TypeKept
    <2>4. call'[t] = c
      BY <2>1 DEF TypeOK
    <2>5. HoldInvariant'
      BY <2>1, <2>2, <2>4, HoldKept DEF Holds, InCall
    <2> QED
      BY <2>2, <2>3, <2>5, ToldKept DEF IdInvariant
  <1> QED
    BY <1>1, <1>2, <1>3, <1>4, <1>5, <1>6, <1>7, EnvironmentSteps DEF Next, connecting

\* Outside MidCall, set_nonblocking has the socket to itself.
LEMMA ModeKept ==
    ASSUME IdInvariant, ModeInvariant, ~MidCall, [Next]_vars
    PROVE  ModeInvariant'
  <1> TypeOK /\ HoldInvariant
    BY DEF IdInvariant
  <1>1. CASE UNCHANGED <<nonblock, call>>
    BY <1>1 DEF ModeInvariant
  <1>2. ASSUME NEW t \in Threads, NEW c, CallBecomes(t, c), c.pc \notin Saw,
               c.pc \in InCall => c.entered = nonblock,
               \/ c.pc = "idle" \/ call[t].pc \in InCall
               \/ \A u \in Threads : call[u].pc \notin Saw
        PROVE  ModeInvariant'
    <2>1. /\ call'[t] = c /\ \A u \in Threads : u # t => call'[u] = call[u]
          /\ nonblock' = nonblock
      BY <1>2 DEF CallBecomes, TypeOK
    <2>2. \A u \in Threads : call'[u].pc \in InCall => call'[u].entered = nonblock'
      BY <1>2, <2>1 DEF ModeInvariant
    <2>3. ASSUME NEW u \in Threads, NEW v \in Threads, u # v, call'[u].pc \in Saw
          PROVE  call'[v].pc = "idle"
      <3>1. u # t /\ call[u].pc \in Saw
        BY <1>2, <2>1, <2>3
      <3>2. call[v].pc = "idle"
        BY <2>3, <3>1 DEF ModeInvariant
      <3> QED
        BY <1>2, <2>1, <3>1, <3>2 DEF InCall
    <2> QED
      BY <2>2, <2>3 DEF ModeInvariant
  <1>3. ASSUME NEW t \in Threads, connectx_no_addrs(t)
        PROVE  ModeInvariant'
    BY <1>2, <1>3, NoAddrsSteps DEF InCall, Saw
  <1>4. ASSUME NEW t \in Threads, connect_enter(t) \/ connectx_enter(t)
        PROVE  ModeInvariant'
    <2>1. PICK fn \in {"connect", "connectx"} : enter(t, fn)
      BY <1>4 DEF connect_enter, connectx_enter
    <2>2. PICK c : CallBecomes(t, c) /\ Begun(t, c)
      BY <2>1, EnterSteps
    <2>3. \A u \in Threads : call[u].pc \notin Saw
      BY <2>1, EnterSteps DEF Called, Saw
    <2> QED
      BY <1>2, <2>2, <2>3 DEF Begun, Saw
  <1>5. ASSUME NEW t \in Threads, wait_for_connect(t)
        PROVE  ModeInvariant'
    <2>0. call[t].at \in Ids
      BY <1>5 DEF wait_for_connect, HoldInvariant, Holds
    <2>1. PICK c : CallBecomes(t, c) /\ Waited(t, c)
      BY <1>5, <2>0, WaitSteps
    <2>2. c.pc \in {"done", "error"} /\ call[t].pc = "wait" /\ c.entered = call[t].entered
      BY <2>1 DEF Waited
    <2>3. call[t].entered = nonblock
      BY <2>2 DEF ModeInvariant, InCall
    <2> QED
      BY <1>2, <2>1, <2>2, <2>3 DEF InCall, Saw
  <1>6. ASSUME NEW t \in Threads, connect_return(t) \/ connectx_ok(t) \/ connectx_error(t)
        PROVE  ModeInvariant'
    <2>1. PICK c : CallBecomes(t, c) /\ Returned(t, c)
      BY <1>6, ReturnSteps
    <2> QED
      BY <1>2, <2>1 DEF Returned, InCall, Saw
  <1>7. ASSUME NEW t \in Threads, set_nonblocking_getfl(t) \/ set_nonblocking_setfl(t)
        PROVE  ModeInvariant'
    <2>1. PICK c : call' = [call EXCEPT ![t] = c] /\ ModeStep(t, c)
      BY <1>7, ModeSteps
    <2>2. call'[t] = c /\ c.pc \notin InCall /\ \A u \in Threads : u # t => call'[u] = call[u]
      BY <2>1 DEF TypeOK, ModeStep
    <2>3. \A u \in Threads : u # t => call[u].pc = "idle"
      <3>1. CASE set_nonblocking_getfl(t)
        BY <3>1 DEF set_nonblocking_getfl, Undisturbed
      <3>2. CASE set_nonblocking_setfl(t)
        BY <3>2 DEF set_nonblocking_setfl, ModeInvariant, Saw
      <3> QED
        BY <1>7, <3>1, <3>2
    <2> QED
      BY <2>2, <2>3 DEF ModeInvariant, InCall, Saw
  <1> QED
    BY <1>1, <1>3, <1>4, <1>5, <1>6, <1>7, EnvironmentSteps
       DEF Next, connecting, Environment, vars, socket

\* What calls report.
LEMMA ReportsKept ==
    ASSUME CallInvariant, [Next]_vars
    PROVE  CauseInvariant' /\ UpInvariant' /\ LateInvariant'
  <1> /\ TypeOK /\ HoldInvariant /\ ModeInvariant /\ CauseInvariant
      /\ UpInvariant /\ LateInvariant
    BY DEF CallInvariant, IdInvariant
  <1>1. CASE UNCHANGED vars
    BY <1>1 DEF CauseInvariant, Cause, UpInvariant, LateInvariant, Late, CameUp, GaveUp, Ids,
                vars, socket, kernel
  <1>2. CASE Environment
    <2>2. \A id : /\ CameUp(id) => CameUp(id)'
                  /\ GaveUp(id) => GaveUp(id)'
      BY <1>2 DEF Environment, Grows, Ids, CameUp, GaveUp, TypeOK
    <2>1. CauseInvariant' /\ LateInvariant'
      BY <1>2, <2>2 DEF Environment, CauseInvariant, Cause, LateInvariant, Late
    <2>3. UpInvariant'
      BY <1>2, <2>2 DEF Environment, UpInvariant, CameUp
    <2> QED
      BY <2>1, <2>3
  <1>3. ASSUME NEW t \in Threads, NEW c \in Call, call' = [call EXCEPT ![t] = c],
               sndtimeo' = sndtimeo, Grows,
               Cause(c)', Late(c)',
               c.ret = "ok" /\ ~c.entered => CameUp(c.at)'
        PROVE  CauseInvariant' /\ UpInvariant' /\ LateInvariant'
    <2>1. call'[t] = c /\ \A u \in Threads : u # t => call'[u] = call[u]
      BY <1>3 DEF TypeOK
    <2>4. \A id : GaveUp(id) => GaveUp(id)'
      BY <1>3 DEF Grows, Ids, GaveUp, TypeOK
    <2>5. \A u \in Threads : u # t => Cause(call[u])' /\ Late(call[u])'
      BY <1>3, <2>1, <2>4 DEF CauseInvariant, Cause, LateInvariant, Late
    <2>2. CauseInvariant' /\ LateInvariant'
      BY <1>3, <2>1, <2>5 DEF CauseInvariant, LateInvariant
    <2>3. UpInvariant'
      BY <1>3, UpKept
    <2> QED
      BY <2>2, <2>3
  <1>4. ASSUME NEW t \in Threads, connectx_no_addrs(t)
        PROVE  CauseInvariant' /\ UpInvariant' /\ LateInvariant'
    <2>1. PICK c \in Call : CallBecomes(t, c) /\ c.pc = "idle" /\ c.ret = "invalid_input"
      BY <1>4, NoAddrsSteps
    <2>2. Grows
      BY <1>4, NoAddrsSteps, SameGrows
    <2>3. Cause(c)' /\ Late(c)'
      BY <2>1 DEF Cause, Late
    <2> QED
      BY <1>3, <2>1, <2>2, <2>3 DEF CallBecomes
  <1>5. ASSUME NEW t \in Threads, connect_enter(t) \/ connectx_enter(t)
        PROVE  CauseInvariant' /\ UpInvariant' /\ LateInvariant'
    <2>1. PICK fn \in {"connect", "connectx"} : enter(t, fn)
      BY <1>5 DEF connect_enter, connectx_enter
    <2>2. PICK c : CallBecomes(t, c) /\ Begun(t, c)
      BY <2>1, EnterSteps
    <2>3. Grows
      BY <2>1, EnterSteps
    <2>4. Cause(c)' /\ Late(c)'
      BY <2>2 DEF Cause, Late, Begun
    <2> QED
      BY <1>3, <2>2, <2>3, <2>4 DEF CallBecomes, Begun
  <1>6. ASSUME NEW t \in Threads, wait_for_connect(t)
        PROVE  CauseInvariant' /\ UpInvariant' /\ LateInvariant'
    <2>0. call[t].at \in Ids /\ call[t].pc = "wait" /\ ~call[t].entered
      BY <1>6 DEF wait_for_connect, HoldInvariant, Holds
    <2>1. PICK c : CallBecomes(t, c) /\ Waited(t, c)
      BY <1>6, <2>0, WaitSteps
    <2>2. Grows /\ UNCHANGED asocs
      BY <1>6, <2>0, WaitSteps, SameGrows
    <2>3. c.ret = "none" /\ c \in Call
      BY <2>1 DEF Waited, HoldInvariant, Holds, InCall
    <2>4. GaveUp(c.at) => GaveUp(c.at)'
      BY <2>2 DEF GaveUp, Ids
    <2>5. Cause(c)' /\ Late(c)'
      BY <2>0, <2>1, <2>3, <2>4 DEF Cause, Late, Waited, CallBecomes
    <2> QED
      BY <1>3, <2>1, <2>2, <2>3, <2>5 DEF CallBecomes, Waited
  <1>7. ASSUME NEW t \in Threads, connect_return(t) \/ connectx_ok(t) \/ connectx_error(t)
        PROVE  CauseInvariant' /\ UpInvariant' /\ LateInvariant'
    <2>1. PICK c : CallBecomes(t, c) /\ Returned(t, c)
      BY <1>7, ReturnSteps
    <2>2. Grows /\ UNCHANGED asocs /\ c \in Call /\ c.pc = "idle"
          /\ c.at = call[t].at /\ c.entered = call[t].entered
      BY <1>7, <2>1, ReturnSteps, SameGrows DEF Returned
    <2>3. call[t].pc \in InCall => call[t].entered = nonblock
      BY DEF ModeInvariant
    <2>4. c.ret = "ok" /\ ~c.entered => CameUp(c.at)'
      <3>1. c.ret = "ok" /\ ~c.entered => call[t].pc = "done"
        BY <2>1, <2>2, <2>3 DEF Returned, InCall
      <3>2. call[t].pc = "done" => CameUp(call[t].at)
        BY DEF HoldInvariant, Holds
      <3> QED
        BY <2>2, <3>1, <3>2 DEF CameUp, Ids
    <2>5. Cause(c)' /\ Late(c)'
      <3>1. c.ret = "timed_out" =>
                /\ call[t].pc = "error"
                /\ \/ call[t].errno = "EINPROGRESS" /\ ~nonblock
                   \/ call[t].errno = "ETIMEDOUT"
        BY <2>1 DEF Returned
      <3>2. c.ret = "timed_out" => ~c.entered /\ (sndtimeo \/ GaveUp(c.at))
        BY <2>2, <2>3, <3>1 DEF CauseInvariant, Cause, InCall
      <3>3. GaveUp(c.at) => GaveUp(c.at)'
        BY <2>2 DEF GaveUp, Ids
      <3> QED
        BY <2>1, <2>2, <3>2, <3>3 DEF Cause, Late, CallBecomes
    <2> QED
      BY <1>3, <2>1, <2>2, <2>4, <2>5 DEF CallBecomes
  <1>8. ASSUME NEW t \in Threads, set_nonblocking_getfl(t) \/ set_nonblocking_setfl(t)
        PROVE  CauseInvariant' /\ UpInvariant' /\ LateInvariant'
    <2>1. PICK c : call' = [call EXCEPT ![t] = c] /\ ModeStep(t, c)
      BY <1>8, ModeSteps
    <2>2. /\ Grows /\ UNCHANGED <<asocs, sndtimeo>> /\ c \in Call /\ c.pc \notin InCall
          /\ c.at = call[t].at /\ c.entered = call[t].entered /\ c.ret = call[t].ret
      BY <1>8, <2>1, ModeSteps, SameGrows DEF ModeStep
    <2>3. c.ret = "ok" /\ ~c.entered => CameUp(c.at)'
      BY <2>2 DEF UpInvariant, CameUp, Ids
    <2>4. Cause(c)' /\ Late(c)'
      <3>1. Late(call[t]) /\ c.pc # "error"
        BY <2>2 DEF LateInvariant, InCall
      <3>2. GaveUp(c.at) => GaveUp(c.at)'
        BY <2>2 DEF GaveUp, Ids
      <3>3. Cause(c)'
        BY <3>1 DEF Cause
      <3>4. sndtimeo' = sndtimeo /\ Late(c)
        BY <2>2, <3>1 DEF Late
      <3>5. Late(c)'
        BY <3>2, <3>4 DEF Late
      <3> QED
        BY <3>3, <3>5
    <2> QED
      BY <1>3, <2>1, <2>2, <2>3, <2>4 DEF InCall
  <1> QED
    BY <1>1, <1>2, <1>4, <1>5, <1>6, <1>7, <1>8, EnvironmentSteps DEF Next, connecting

-----------------------------------------------------------------------------
(* Theorems.                                                               *)

LEMMA CallInit == Init => CallInvariant
  <1> SUFFICES ASSUME Init PROVE CallInvariant
    OBVIOUS
  <1>1. \A t \in Threads : call[t] = Idle
    BY DEF Init
  <1>2. TypeOK
    <2>1. << >> \in Seq(Asoc) /\ 0 \in Nat
      OBVIOUS
    <2> QED
      BY <2>1, IdleType DEF Init, TypeOK
  <1>3. HoldInvariant /\ ModeInvariant /\ CauseInvariant /\ UpInvariant /\ LateInvariant
    BY <1>1, IdleType DEF HoldInvariant, Holds, ModeInvariant, CauseInvariant, Cause, UpInvariant,
                          LateInvariant, Late, InCall, Saw
  <1>4. IdOfOwnAssociation
    BY DEF Init, IdOfOwnAssociation
  <1> QED
    BY <1>2, <1>3, <1>4 DEF CallInvariant, IdInvariant

\* The id that connectx returns is that of the association this very call
\* started, however many threads connect, whatever the peers set up and
\* whether or not the mode changes during a call.
THEOREM OwnIdReturned == Spec => []IdOfOwnAssociation
  <1>1. Init => IdInvariant
    BY CallInit DEF CallInvariant
  <1>2. IdInvariant /\ [Next]_vars => IdInvariant'
    BY IdStep
  <1>3. IdInvariant => IdOfOwnAssociation
    BY DEF IdInvariant
  <1> QED
    BY <1>1, <1>2, <1>3, PTL DEF Spec

LEMMA CallsKept == ASSUME ~MidCall PROVE Spec => []CallInvariant
  <1>1. Init => CallInvariant
    BY CallInit
  <1>2. CallInvariant /\ [Next]_vars => CallInvariant'
    BY IdStep, ModeKept, ReportsKept DEF CallInvariant
  <1> QED
    BY <1>1, <1>2, PTL DEF Spec

\* While set_nonblocking stays out of the calls, a call that the kernel treated
\* as blocking returns Ok only for an association that was established.
\* ConnectxRace.cfg shows that the condition is needed.
THEOREM BlockingOkMeansUp ==
    ASSUME ~MidCall PROVE Spec => []OkAfterBlockingMeansUp
  <1>1. CallInvariant => OkAfterBlockingMeansUp
    BY DEF CallInvariant, UpInvariant, OkAfterBlockingMeansUp, CameUp
  <1> QED
    BY <1>1, CallsKept, PTL

\* Under the same condition TimedOut is reported only to a caller that waited,
\* with a send timeout or until the handshake was given up after the last INIT.
THEOREM TimedOutAfterWaiting ==
    ASSUME ~MidCall PROVE Spec => []TimedOutMeansWaited
  <1>1. CallInvariant => TimedOutMeansWaited
    BY DEF CallInvariant, LateInvariant, Late, GaveUp, TimedOutMeansWaited
  <1> QED
    BY <1>1, CallsKept, PTL
=============================================================================

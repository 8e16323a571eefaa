--------------------------- MODULE SendPathProofs ---------------------------
(***************************************************************************)
(* Theorems about SendPath, for every set of writers and peers, every      *)
(* buffer size and every number of calls.                                  *)
(***************************************************************************)
EXTENDS SendPath, SequenceTheorems, TLAPS

USE WritersAssumption, LensAssumption, SndBufAssumption, BoundsAssumption
    DEF WritersAssumption, LensAssumption, SndBufAssumption, BoundsAssumption

-----------------------------------------------------------------------------
(* The inductive invariant.                                                *)

InCall(w) == pc[w] # "idle"

\* A call in progress has a message, whose number is one that was given out,
\* and has not returned.
CallsPending ==
    \A w \in Writers : InCall(w) =>
        /\ msg[w] \in Messages
        /\ msg[w].n <= calls
        /\ outcome[msg[w].n] = "pending"

\* No two calls share a number, and the numbers to come are unused.
CallsNumbered ==
    /\ \A v, w \in Writers : InCall(v) /\ InCall(w) /\ v # w => msg[v].n # msg[w].n
    /\ \A n \in 1..MaxSends : n > calls => outcome[n] = "none"

\* A thread waits for space only with a message that the kernel would queue.
WaitsWithPayload ==
    \A w \in Writers : pc[w] = "wait" => msg[w].flag = "NONE" /\ msg[w].len > 0

CallInvariant ==
    TypeOK /\ CallsPending /\ CallsNumbered /\ WaitsWithPayload /\ SentOnce

Results == {"ok", "error", "wouldblock", "cancelled"}

PCs == {"idle", "writable", "sendmsg", "clear", "wait"}

\* A task that is about to clear the readiness with a valid guard saw a full
\* buffer, and if space came back since then the event is still to come.
ClearsOnlyFull ==
    \A w \in Writers : pc[w] = "clear" /\ fresh[w] /\ HasSpace => edge

SpaceInvariant == CallInvariant /\ SpaceNoticed /\ ClearsOnlyFull

-----------------------------------------------------------------------------
(* Facts about the operators.                                              *)

\* The message of a call.
LEMMA MessageType ==
    ASSUME CallInvariant, NEW w \in Writers, InCall(w)
    PROVE  /\ msg[w] \in Messages
           /\ msg[w].n \in 1..MaxSends /\ msg[w].peer \in Peers
           /\ msg[w].len \in Nat /\ msg[w].flag \in Flags
  <1>1. msg[w] \in Messages
    BY DEF CallInvariant, CallsPending
  <1>2. msg[w].len \in Lens \cup {0}
    BY <1>1 DEF Messages
  <1>3. Lens \cup {0} \subseteq Nat
    OBVIOUS
  <1> QED
    BY <1>1, <1>2, <1>3 DEF Messages

\* A call that returns leaves the others as they were; it counts as sent if
\* the kernel took its message in the same step and the result is Ok.
LEMMA ReturnKeeps ==
    ASSUME CallInvariant, NEW w \in Writers, InCall(w),
           NEW result \in Results, Return(w, result),
           \/ result = "ok" /\ Take(msg[w])
           \/ result # "ok" /\ taken' = taken,
           calls' = calls
    PROVE  /\ pc' \in [Writers -> PCs]
           /\ msg' \in [Writers -> Messages \cup {NoMsg}]
           /\ outcome' \in [1..MaxSends -> Results \cup {"none", "pending"}]
           /\ taken' \in [1..MaxSends -> Nat]
           /\ CallsPending' /\ CallsNumbered' /\ WaitsWithPayload' /\ SentOnce'
  <1> DEFINE n == msg[w].n
  <1>1. /\ msg[w] \in Messages /\ n \in 1..MaxSends /\ n <= calls
        /\ outcome[n] = "pending" /\ taken[n] = 0 /\ calls \in Nat
    BY DEF CallInvariant, CallsPending, SentOnce, Messages, TypeOK
  <1>2. /\ pc \in [Writers -> PCs]
        /\ msg \in [Writers -> Messages \cup {NoMsg}]
        /\ outcome \in [1..MaxSends -> Results \cup {"none", "pending"}]
        /\ taken \in [1..MaxSends -> Nat]
    BY DEF CallInvariant, TypeOK, PCs, Results
  <1>3. /\ pc' = [pc EXCEPT ![w] = "idle"]
        /\ msg' = [msg EXCEPT ![w] = NoMsg]
        /\ outcome' = [outcome EXCEPT ![n] = result]
    BY DEF Return
  <1>4. /\ pc' \in [Writers -> PCs]
        /\ msg' \in [Writers -> Messages \cup {NoMsg}]
        /\ outcome' \in [1..MaxSends -> Results \cup {"none", "pending"}]
    BY <1>1, <1>2, <1>3 DEF PCs
  <1>5. taken' \in [1..MaxSends -> Nat] /\ SentOnce'
    <2>1. CASE result = "ok" /\ Take(msg[w])
      BY <2>1, <1>1, <1>2, <1>3 DEF Take, SentOnce, CallInvariant
    <2>2. CASE result # "ok" /\ taken' = taken
      BY <2>2, <1>1, <1>2, <1>3 DEF SentOnce, CallInvariant
    <2> QED
      BY <2>1, <2>2
  <1>6. ASSUME NEW v \in Writers, InCall(v)'
        PROVE  v # w /\ InCall(v) /\ msg'[v] = msg[v] /\ msg[v].n # n /\ pc'[v] = pc[v]
    BY <1>2, <1>3, <1>6 DEF InCall, CallInvariant, CallsNumbered
  <1>7. CallsPending'
    <2> SUFFICES ASSUME NEW v \in Writers, InCall(v)'
                 PROVE  (msg[v] \in Messages)' /\ (msg[v].n <= calls)'
                        /\ (outcome[msg[v].n] = "pending")'
      BY DEF CallsPending
    <2>1. msg[v] \in Messages /\ msg[v].n <= calls /\ outcome[msg[v].n] = "pending"
      BY <1>6 DEF CallInvariant, CallsPending
    <2>2. msg[v].n \in 1..MaxSends
      BY <2>1 DEF Messages
    <2> QED
      BY <1>2, <1>3, <1>6, <2>1, <2>2 DEF Messages
  <1>8. CallsNumbered'
    <2>1. \A u, v \in Writers : InCall(u)' /\ InCall(v)' /\ u # v => msg'[u].n # msg'[v].n
      BY <1>6 DEF CallInvariant, CallsNumbered
    <2>2. \A k \in 1..MaxSends : k > calls' => outcome'[k] = "none"
      BY <1>1, <1>2, <1>3 DEF CallInvariant, CallsNumbered
    <2> QED
      BY <2>1, <2>2 DEF CallsNumbered
  <1>9. WaitsWithPayload'
    BY <1>6 DEF WaitsWithPayload, InCall, CallInvariant
  <1> QED
    BY <1>4, <1>5, <1>7, <1>8, <1>9

\* A step that moves a call along, and changes nothing of it but the way in
\* which its message names the peer, keeps the numbering.
LEMMA MovesKeep ==
    ASSUME CallInvariant, NEW w \in Writers, InCall(w),
           NEW to \in PCs \ {"idle"}, pc' = [pc EXCEPT ![w] = to],
           NEW by \in {"id", "addr"}, msg' = [msg EXCEPT ![w].by = by],
           to = "wait" => msg[w].flag = "NONE" /\ msg[w].len > 0,
           UNCHANGED <<calls, outcome, taken>>
    PROVE  /\ pc' \in [Writers -> PCs]
           /\ msg' \in [Writers -> Messages \cup {NoMsg}]
           /\ CallsPending' /\ CallsNumbered' /\ WaitsWithPayload' /\ SentOnce'
  <1>1. /\ pc \in [Writers -> PCs]
        /\ msg \in [Writers -> Messages \cup {NoMsg}]
        /\ msg[w] \in Messages
    BY DEF CallInvariant, TypeOK, PCs, CallsPending
  <1>2. /\ msg'[w] = [msg[w] EXCEPT !.by = by]
        /\ msg'[w] \in Messages
        /\ msg'[w].n = msg[w].n /\ msg'[w].flag = msg[w].flag /\ msg'[w].len = msg[w].len
    BY <1>1 DEF Messages
  <1>3. \A v \in Writers : v # w => pc'[v] = pc[v] /\ msg'[v] = msg[v]
    BY <1>1
  <1>4. \A v \in Writers : InCall(v)' <=> InCall(v)
    BY <1>1, <1>3 DEF InCall
  <1>5. \A v \in Writers : InCall(v) =>
            msg'[v].n = msg[v].n /\ (msg[v] \in Messages => msg'[v] \in Messages)
    BY <1>2, <1>3
  <1>6. pc' \in [Writers -> PCs] /\ msg' \in [Writers -> Messages \cup {NoMsg}]
    BY <1>1, <1>2, <1>3
  <1>7. CallsPending'
    BY <1>4, <1>5 DEF CallInvariant, CallsPending
  <1>8. CallsNumbered'
    <2>1. \A u, v \in Writers : InCall(u)' /\ InCall(v)' /\ u # v => msg'[u].n # msg'[v].n
      BY <1>4, <1>5 DEF CallInvariant, CallsNumbered
    <2> QED
      BY <2>1 DEF CallInvariant, CallsNumbered
  <1>9. WaitsWithPayload'
    BY <1>1, <1>2, <1>3 DEF CallInvariant, WaitsWithPayload
  <1>10. SentOnce'
    BY DEF CallInvariant, SentOnce
  <1> QED
    BY <1>6, <1>7, <1>8, <1>9, <1>10

\* Steps of the kernel and the driver leave the calls alone.
LEMMA OthersKeep ==
    ASSUME CallInvariant, UNCHANGED <<call, calls, taken>>
    PROVE  CallsPending' /\ CallsNumbered' /\ WaitsWithPayload' /\ SentOnce'
  BY DEF CallInvariant, CallsPending, CallsNumbered, WaitsWithPayload, SentOnce,
         InCall, call

\* A message that joins the buffer is a message of a call.
LEMMA QueueType ==
    ASSUME TypeOK, NEW m \in Messages, Queue(m)
    PROVE  /\ queue' \in [Peers -> Seq(Messages)]
           /\ assoc' \in [Peers -> {"none", "up", "closing"}]
  <1>1. m.peer \in Peers
    BY DEF Messages
  <1>2. Append(queue[m.peer], m) \in Seq(Messages)
    BY <1>1 DEF TypeOK
  <1> QED
    BY <1>1, <1>2 DEF TypeOK, Queue

\* Discarding what is queued for a peer leaves a well-formed buffer.
LEMMA DiscardType ==
    ASSUME TypeOK, NEW p \in Peers, Discard(p)
    PROVE  /\ queue' \in [Peers -> Seq(Messages)]
           /\ assoc' \in [Peers -> {"none", "up", "closing"}]
           /\ edge' \in BOOLEAN
  <1>1. << >> \in Seq(Messages)
    OBVIOUS
  <1>2. edge' \in BOOLEAN
    BY Zenon DEF TypeOK, Discard, Freed
  <1> QED
    BY <1>1, <1>2 DEF TypeOK, Discard

\* A call that ends in try_io_done returns Ok or an error.
LEMMA VerdictResult ==
    /\ cvt_size("queue") = "ok" /\ cvt_size("EOF") = "ok" /\ cvt_size("ABORT") = "ok"
    /\ cvt_size("error") = "error"
  BY DEF cvt_size

-----------------------------------------------------------------------------
(* Each call is sent once or not at all.                                   *)

LEMMA CallInit == Init => CallInvariant
  <1> SUFFICES ASSUME Init PROVE CallInvariant
    OBVIOUS
  <1>1. TypeOK
    <2>1. << >> \in Seq(Messages) /\ 0 \in Nat
      OBVIOUS
    <2>2. calls \in 0..MaxSends /\ cancels \in 0..MaxCancels
      BY DEF Init
    <2>3. assoc \in [Peers -> {"none", "up", "closing"}] /\ queue \in [Peers -> Seq(Messages)]
      BY <2>1 DEF Init
    <2> QED
      BY <2>1, <2>2, <2>3 DEF Init, TypeOK
  <1> QED
    BY <1>1 DEF Init, CallInvariant, CallsPending, CallsNumbered, WaitsWithPayload,
                SentOnce, InCall

LEMMA CallStep == CallInvariant /\ [Next]_vars => CallInvariant'
  <1> SUFFICES ASSUME CallInvariant, [Next]_vars
               PROVE  CallInvariant'
    OBVIOUS
  <1> TypeOK
    BY DEF CallInvariant
  <1>1. ASSUME NEW w \in Writers, send_msg_call(w)
        PROVE  CallInvariant'
    <2>1. calls \in Nat /\ calls' = calls + 1 /\ calls' \in 1..MaxSends /\ ~InCall(w)
      BY <1>1 DEF send_msg_call, TypeOK, InCall
    <2>2. PICK m \in Messages : m.n = calls' /\ msg' = [msg EXCEPT ![w] = m]
      <3>1. PICK p \in Peers, by \in {"id", "addr"}, len \in Lens \cup {0}, flag \in Flags :
                msg' = [msg EXCEPT ![w] =
                    [n |-> calls', peer |-> p, by |-> by, len |-> len, flag |-> flag]]
        BY <1>1 DEF send_msg_call
      <3> DEFINE mm == [n |-> calls', peer |-> p, by |-> by, len |-> len, flag |-> flag]
      <3>2. mm \in Messages /\ mm.n = calls'
        BY <2>1 DEF Messages
      <3> QED
        BY <3>1, <3>2
    <2>3. /\ outcome' = [outcome EXCEPT ![calls'] = "pending"]
          /\ pc'[w] \in {"writable", "sendmsg"}
          /\ pc' \in [Writers -> PCs]
          /\ \A v \in Writers : v # w => pc'[v] = pc[v]
          /\ UNCHANGED <<style, async, kernel, tokio, taken, cancels>>
      BY <1>1 DEF send_msg_call, TypeOK, PCs
    <2>4. \A v \in Writers : v # w => msg'[v] = msg[v] /\ (InCall(v)' <=> InCall(v))
      BY <2>2, <2>3 DEF TypeOK, InCall
    <2>5. outcome[calls'] = "none" /\ taken[calls'] = 0
      BY <2>1 DEF CallInvariant, CallsNumbered, SentOnce
    <2>6. TypeOK'
      <3>1. calls' \in 0..MaxSends /\ msg' \in [Writers -> Messages \cup {NoMsg}]
        BY <2>1, <2>2 DEF TypeOK
      <3>2. outcome' \in [1..MaxSends -> Results \cup {"none", "pending"}]
        BY <2>1, <2>3 DEF TypeOK, Results
      <3> QED
        BY <2>3, <3>1, <3>2 DEF TypeOK, PCs, Results, kernel, tokio
    <2>7. \A v \in Writers : v # w /\ InCall(v) =>
              /\ msg[v] \in Messages /\ msg[v].n \in 1..MaxSends
              /\ msg[v].n < calls' /\ outcome'[msg[v].n] = "pending"
      <3> SUFFICES ASSUME NEW v \in Writers, v # w, InCall(v)
                   PROVE  /\ msg[v] \in Messages /\ msg[v].n \in 1..MaxSends
                          /\ msg[v].n < calls' /\ outcome'[msg[v].n] = "pending"
        OBVIOUS
      <3>1. msg[v] \in Messages /\ msg[v].n <= calls /\ outcome[msg[v].n] = "pending"
        BY DEF CallInvariant, CallsPending
      <3>2. msg[v].n \in 1..MaxSends
        BY <3>1 DEF Messages
      <3> QED
        BY <2>1, <2>3, <3>1, <3>2 DEF TypeOK
    <2>8. msg'[w] = m /\ outcome'[calls'] = "pending"
      BY <2>1, <2>2, <2>3 DEF TypeOK
    <2>9. CallsPending'
      BY <2>1, <2>2, <2>4, <2>7, <2>8 DEF CallsPending
    <2>10. CallsNumbered'
      <3>1. \A u, v \in Writers : InCall(u)' /\ InCall(v)' /\ u # v => msg'[u].n # msg'[v].n
        <4> SUFFICES ASSUME NEW u \in Writers, NEW v \in Writers,
                            InCall(u)', InCall(v)', u # v
                     PROVE  msg'[u].n # msg'[v].n
          OBVIOUS
        <4>1. CASE u = w
          BY <4>1, <2>1, <2>2, <2>4, <2>7, <2>8
        <4>2. CASE v = w
          BY <4>2, <2>1, <2>2, <2>4, <2>7, <2>8
        <4>3. CASE u # w /\ v # w
          BY <4>3, <2>4 DEF CallInvariant, CallsNumbered
        <4> QED
          BY <4>1, <4>2, <4>3
      <3>2. \A n \in 1..MaxSends : n > calls' => outcome'[n] = "none"
        BY <2>1, <2>3 DEF CallInvariant, CallsNumbered, TypeOK
      <3> QED
        BY <3>1, <3>2 DEF CallsNumbered
    <2>11. WaitsWithPayload'
      BY <2>3, <2>4 DEF CallInvariant, WaitsWithPayload
    <2>12. SentOnce'
      BY <2>1, <2>3, <2>5 DEF CallInvariant, SentOnce, TypeOK
    <2> QED
      BY <2>6, <2>9, <2>10, <2>11, <2>12 DEF CallInvariant
  <1>2. ASSUME NEW w \in Writers, writable(w) \/ clear_ready(w)
        PROVE  CallInvariant'
    <2>1. PICK to \in {"sendmsg", "writable"} : pc' = [pc EXCEPT ![w] = to]
      BY <1>2 DEF writable, clear_ready
    <2>2. InCall(w) /\ UNCHANGED <<style, async, kernel, edge, msg, outcome, calls, taken, cancels>>
      BY <1>2 DEF writable, clear_ready, InCall
    <2>3. msg[w] \in Messages /\ msg[w].by \in {"id", "addr"}
      BY <2>2 DEF CallInvariant, CallsPending, Messages
    <2>4. msg' = [msg EXCEPT ![w].by = msg[w].by]
      BY <2>2, <2>3 DEF Messages, TypeOK
    <2>5. /\ pc' \in [Writers -> PCs]
          /\ CallsPending' /\ CallsNumbered' /\ WaitsWithPayload' /\ SentOnce'
      BY <2>1, <2>2, <2>3, <2>4, MovesKeep DEF PCs
    <2>6. fresh' \in [Writers -> BOOLEAN]
      BY <1>2 DEF writable, clear_ready, TypeOK
    <2>7. ready' \in BOOLEAN
      <3>1. CASE writable(w)
        BY <3>1 DEF writable, TypeOK
      <3>2. CASE clear_ready(w)
        BY <3>2, Zenon DEF clear_ready, TypeOK
      <3> QED
        BY <1>2, <3>1, <3>2
    <2> QED
      BY <2>2, <2>5, <2>6, <2>7 DEF CallInvariant, TypeOK, kernel, PCs
  <1>3. ASSUME NEW w \in Writers, cancel(w)
        PROVE  CallInvariant'
    <2>1. /\ InCall(w) /\ Return(w, "cancelled") /\ cancels' \in 0..MaxCancels
          /\ UNCHANGED <<style, async, kernel, tokio, calls, taken>>
      BY <1>3 DEF cancel, InCall, TypeOK
    <2>2. /\ pc' \in [Writers -> PCs]
          /\ msg' \in [Writers -> Messages \cup {NoMsg}]
          /\ outcome' \in [1..MaxSends -> Results \cup {"none", "pending"}]
          /\ CallsPending' /\ CallsNumbered' /\ WaitsWithPayload' /\ SentOnce'
      BY <2>1, ReturnKeeps DEF Results
    <2> QED
      BY <2>1, <2>2 DEF CallInvariant, TypeOK, kernel, tokio, PCs, Results
  <1>14. ASSUME NEW w \in Writers, writable_error(w)
         PROVE  CallInvariant'
    <2>1. /\ InCall(w) /\ Return(w, "error") /\ cancels' \in 0..MaxCancels
          /\ UNCHANGED <<style, async, kernel, tokio, calls, taken>>
      BY <1>14 DEF writable_error, InCall, TypeOK
    <2>2. /\ pc' \in [Writers -> PCs]
          /\ msg' \in [Writers -> Messages \cup {NoMsg}]
          /\ outcome' \in [1..MaxSends -> Results \cup {"none", "pending"}]
          /\ CallsPending' /\ CallsNumbered' /\ WaitsWithPayload' /\ SentOnce'
      BY <2>1, ReturnKeeps DEF Results
    <2> QED
      BY <2>1, <2>2 DEF CallInvariant, TypeOK, kernel, tokio, PCs, Results
  <1>4. ASSUME NEW w \in Writers, send_msg_queue(w)
        PROVE  CallInvariant'
    <2>1. /\ InCall(w) /\ Return(w, "ok") /\ Queue(msg[w]) /\ Take(msg[w])
          /\ UNCHANGED <<style, async, edge, ready, fresh, calls, cancels>>
      BY <1>4, VerdictResult DEF send_msg_queue, InCall, try_io_done, Queue
    <2>2. /\ pc' \in [Writers -> PCs]
          /\ msg' \in [Writers -> Messages \cup {NoMsg}]
          /\ outcome' \in [1..MaxSends -> Results \cup {"none", "pending"}]
          /\ taken' \in [1..MaxSends -> Nat]
          /\ CallsPending' /\ CallsNumbered' /\ WaitsWithPayload' /\ SentOnce'
      BY <2>1, ReturnKeeps DEF Results
    <2>3. /\ queue' \in [Peers -> Seq(Messages)]
          /\ assoc' \in [Peers -> {"none", "up", "closing"}]
      BY <2>1, QueueType DEF CallInvariant, CallsPending
    <2> QED
      BY <2>1, <2>2, <2>3 DEF CallInvariant, TypeOK, PCs, Results
  <1>5. ASSUME NEW w \in Writers, send_msg_error(w)
        PROVE  CallInvariant'
    <2>1. /\ InCall(w) /\ Return(w, "error")
          /\ UNCHANGED <<style, async, kernel, edge, ready, fresh, calls, taken, cancels>>
      BY <1>5, VerdictResult DEF send_msg_error, InCall, try_io_done
    <2>2. /\ pc' \in [Writers -> PCs]
          /\ msg' \in [Writers -> Messages \cup {NoMsg}]
          /\ outcome' \in [1..MaxSends -> Results \cup {"none", "pending"}]
          /\ CallsPending' /\ CallsNumbered' /\ WaitsWithPayload' /\ SentOnce'
      BY <2>1, ReturnKeeps DEF Results
    <2> QED
      BY <2>1, <2>2 DEF CallInvariant, TypeOK, PCs, Results, kernel
  <1>6. ASSUME NEW w \in Writers, send_msg_eof(w)
        PROVE  CallInvariant'
    <2>1. /\ InCall(w) /\ Return(w, "ok") /\ Take(msg[w])
          /\ assoc' = [assoc EXCEPT ![msg[w].peer] = "closing"]
          /\ UNCHANGED <<style, async, queue, edge, ready, fresh, calls, cancels>>
      BY <1>6, VerdictResult DEF send_msg_eof, InCall, try_io_done
    <2>2. /\ pc' \in [Writers -> PCs]
          /\ msg' \in [Writers -> Messages \cup {NoMsg}]
          /\ outcome' \in [1..MaxSends -> Results \cup {"none", "pending"}]
          /\ taken' \in [1..MaxSends -> Nat]
          /\ CallsPending' /\ CallsNumbered' /\ WaitsWithPayload' /\ SentOnce'
      BY <2>1, ReturnKeeps DEF Results
    <2> QED
      BY <2>1, <2>2 DEF CallInvariant, TypeOK, PCs, Results
  <1>7. ASSUME NEW w \in Writers, send_msg_abort(w)
        PROVE  CallInvariant'
    <2>1. /\ InCall(w) /\ Return(w, "ok") /\ Take(msg[w]) /\ Discard(msg[w].peer)
          /\ UNCHANGED <<style, async, ready, fresh, calls, cancels>>
      BY <1>7, VerdictResult DEF send_msg_abort, InCall, try_io_done
    <2>2. /\ pc' \in [Writers -> PCs]
          /\ msg' \in [Writers -> Messages \cup {NoMsg}]
          /\ outcome' \in [1..MaxSends -> Results \cup {"none", "pending"}]
          /\ taken' \in [1..MaxSends -> Nat]
          /\ CallsPending' /\ CallsNumbered' /\ WaitsWithPayload' /\ SentOnce'
      BY <2>1, ReturnKeeps DEF Results
    <2>3. msg[w].peer \in Peers
      BY <2>1 DEF CallInvariant, CallsPending, Messages
    <2>4. /\ queue' \in [Peers -> Seq(Messages)]
          /\ assoc' \in [Peers -> {"none", "up", "closing"}]
          /\ edge' \in BOOLEAN
      BY <2>1, <2>3, DiscardType
    <2> QED
      BY <2>1, <2>2, <2>4 DEF CallInvariant, TypeOK, PCs, Results
  <1>8. ASSUME NEW w \in Writers, send_msg_full(w)
        PROVE  CallInvariant'
    <2>1. /\ InCall(w)
          /\ UNCHANGED <<style, async, kernel, tokio, outcome, calls, taken, cancels>>
      BY <1>8 DEF send_msg_full, InCall
    <2>2. msg[w] \in Messages /\ msg[w].by \in {"id", "addr"} /\ msg[w].len \in Nat
      BY <2>1, MessageType DEF Messages
    <2>3. msg[w].flag = "NONE" /\ msg[w].len > 0
      BY <1>8, <2>2 DEF send_msg_full, Verdict, Messages, Flags
    <2>4. PICK to \in {"clear", "wait"}, by \in {"id", "addr"} :
              pc' = [pc EXCEPT ![w] = to] /\ msg' = [msg EXCEPT ![w].by = by]
      <3>1. CASE w \in async
        BY <1>8, <2>2, <3>1 DEF send_msg_full, Messages, TypeOK
      <3>2. CASE w \notin async
        BY <1>8, <2>2, <3>2 DEF send_msg_full
      <3> QED
        BY <3>1, <3>2
    <2>5. /\ pc' \in [Writers -> PCs]
          /\ msg' \in [Writers -> Messages \cup {NoMsg}]
          /\ CallsPending' /\ CallsNumbered' /\ WaitsWithPayload' /\ SentOnce'
      BY <2>1, <2>3, <2>4, MovesKeep DEF PCs
    <2> QED
      BY <2>1, <2>5 DEF CallInvariant, TypeOK, PCs, kernel, tokio
  <1>9. ASSUME NEW w \in Writers, wait_space(w)
        PROVE  CallInvariant'
    <2>1. /\ InCall(w) /\ Return(w, "ok") /\ Queue(msg[w]) /\ Take(msg[w])
          /\ UNCHANGED <<style, async, tokio, calls, cancels>>
      BY <1>9 DEF wait_space, InCall, Queue
    <2>2. /\ pc' \in [Writers -> PCs]
          /\ msg' \in [Writers -> Messages \cup {NoMsg}]
          /\ outcome' \in [1..MaxSends -> Results \cup {"none", "pending"}]
          /\ taken' \in [1..MaxSends -> Nat]
          /\ CallsPending' /\ CallsNumbered' /\ WaitsWithPayload' /\ SentOnce'
      BY <2>1, ReturnKeeps DEF Results
    <2>3. /\ queue' \in [Peers -> Seq(Messages)]
          /\ assoc' \in [Peers -> {"none", "up", "closing"}]
      BY <2>1, QueueType DEF CallInvariant, CallsPending
    <2> QED
      BY <2>1, <2>2, <2>3 DEF CallInvariant, TypeOK, PCs, Results, tokio
  <1>10. ASSUME NEW w \in Writers, wait_fails(w)
         PROVE  CallInvariant'
    <2>1. PICK result \in {"error", "wouldblock"} : Return(w, result)
      BY <1>10 DEF wait_fails
    <2>2. InCall(w) /\ UNCHANGED <<style, async, kernel, tokio, calls, taken, cancels>>
      BY <1>10 DEF wait_fails, InCall
    <2>3. /\ pc' \in [Writers -> PCs]
          /\ msg' \in [Writers -> Messages \cup {NoMsg}]
          /\ outcome' \in [1..MaxSends -> Results \cup {"none", "pending"}]
          /\ CallsPending' /\ CallsNumbered' /\ WaitsWithPayload' /\ SentOnce'
      BY <2>1, <2>2, ReturnKeeps DEF Results
    <2> QED
      BY <2>2, <2>3 DEF CallInvariant, TypeOK, PCs, Results, kernel, tokio
  <1>11. ASSUME NEW p \in Peers, Ack(p) \/ ShutdownCompletes(p) \/ AssocLost(p)
         PROVE  CallInvariant'
    <2>1. UNCHANGED <<style, async, ready, fresh, call, calls, taken, cancels>>
      BY <1>11 DEF Ack, ShutdownCompletes, AssocLost, tokio
    <2>2. /\ queue' \in [Peers -> Seq(Messages)]
          /\ assoc' \in [Peers -> {"none", "up", "closing"}]
          /\ edge' \in BOOLEAN
      <3>1. CASE Ack(p)
        <4>1. Tail(queue[p]) \in Seq(Messages)
          BY <3>1, HeadTailProperties DEF Ack, TypeOK
        <4>2. edge' \in BOOLEAN
          BY <3>1, Zenon DEF Ack, Freed, TypeOK
        <4> QED
          BY <3>1, <4>1, <4>2 DEF Ack, TypeOK
      <3>2. CASE ShutdownCompletes(p)
        BY <3>2 DEF ShutdownCompletes, TypeOK, tokio
      <3>3. CASE AssocLost(p)
        BY <3>3, DiscardType DEF AssocLost
      <3> QED
        BY <1>11, <3>1, <3>2, <3>3
    <2>3. CallsPending' /\ CallsNumbered' /\ WaitsWithPayload' /\ SentOnce'
      BY <2>1, OthersKeep
    <2> QED
      BY <2>1, <2>2, <2>3 DEF CallInvariant, TypeOK, call
  <1>12. CASE driver_event
    <2>1. CallsPending' /\ CallsNumbered' /\ WaitsWithPayload' /\ SentOnce'
      BY <1>12, OthersKeep DEF driver_event
    <2> QED
      BY <1>12, <2>1 DEF driver_event, CallInvariant, TypeOK, call, kernel
  <1>13. CASE UNCHANGED vars
    <2>1. CallsPending' /\ CallsNumbered' /\ WaitsWithPayload' /\ SentOnce'
      BY <1>13, OthersKeep DEF vars
    <2> QED
      BY <1>13, <2>1 DEF vars, CallInvariant, TypeOK, call, kernel, tokio
  <1> QED
    BY <1>1, <1>2, <1>3, <1>4, <1>5, <1>6, <1>7, <1>8, <1>9, <1>10, <1>11, <1>12, <1>13,
       <1>14 DEF Next, write_op, send_msg

\* Every reachable state is well typed, and the calls in progress are numbered
\* apart.
THEOREM CallsAreKept == Spec => []CallInvariant
  BY CallInit, CallStep, PTL DEF Spec

\* However often a call is repeated on WouldBlock, its message is handed to the
\* kernel once if the call returned Ok and never if it failed or was dropped.
THEOREM EachSentOnce == Spec => []SentOnce
  <1>1. CallInvariant => SentOnce
    BY DEF CallInvariant
  <1> QED
    BY <1>1, CallsAreKept, PTL

-----------------------------------------------------------------------------
(* Write readiness is not lost.                                            *)

\* The verdict on a message in the buffer tells whether there is space.
LEMMA VerdictSpace ==
    ASSUME NEW m, m.flag \in Flags
    PROVE  /\ Verdict(m) = "queue" => HasSpace /\ m.flag = "NONE" /\ assoc[m.peer] # "closing"
           /\ Verdict(m) = "full" => ~HasSpace
           /\ Verdict(m) = "EOF" => m.flag = "EOF"
           /\ Verdict(m) = "ABORT" => m.flag = "ABORT"
  BY DEF Verdict, Flags

\* A thread stops waiting for space only when there is some.
LEMMA WaitSpace ==
    ASSUME CallInvariant, NEW w \in Writers, wait_space(w)
    PROVE  HasSpace
  <1>1. msg[w].len > 0 /\ msg[w].len <= Space /\ msg[w].len \in Nat
    BY MessageType DEF wait_space, CallInvariant, WaitsWithPayload, InCall
  <1> QED
    BY <1>1 DEF Space

\* Space in the buffer depends on what is queued alone.
LEMMA SameSpace ==
    ASSUME queue' = queue
    PROVE  HasSpace' = HasSpace
  BY DEF HasSpace

LEMMA SpaceInit == Init => SpaceInvariant
  BY CallInit DEF Init, SpaceInvariant, SpaceNoticed, ClearsOnlyFull

LEMMA SpaceStep == SpaceInvariant /\ [Next]_vars => SpaceInvariant'
  <1> SUFFICES ASSUME SpaceInvariant, [Next]_vars
               PROVE  SpaceNoticed' /\ ClearsOnlyFull'
    BY CallStep DEF SpaceInvariant
  <1> CallInvariant /\ TypeOK
    BY DEF SpaceInvariant, CallInvariant
  <1> pc \in [Writers -> PCs] /\ fresh \in [Writers -> BOOLEAN]
    BY DEF TypeOK, PCs
  <1>1. ASSUME UNCHANGED <<queue, edge, ready, fresh>>, NEW w \in Writers, NEW to,
               pc' = [pc EXCEPT ![w] = to], to # "clear"
        PROVE  SpaceNoticed' /\ ClearsOnlyFull'
    <2>1. HasSpace' = HasSpace
      BY <1>1, SameSpace
    <2> QED
      BY <1>1, <2>1 DEF SpaceInvariant, SpaceNoticed, ClearsOnlyFull
  <1>2. ASSUME NEW w \in Writers, send_msg_call(w)
        PROVE  SpaceNoticed' /\ ClearsOnlyFull'
    <2>1. UNCHANGED <<queue, edge, ready, fresh>>
      BY <1>2 DEF send_msg_call, kernel, tokio
    <2>2. PICK to \in {"writable", "sendmsg"} : pc' = [pc EXCEPT ![w] = to]
      BY <1>2 DEF send_msg_call
    <2> QED
      BY <1>1, <2>1, <2>2
  <1>3. ASSUME NEW w \in Writers, writable(w)
        PROVE  SpaceNoticed' /\ ClearsOnlyFull'
    <2>1. HasSpace' = HasSpace
      BY <1>3, SameSpace DEF writable, kernel
    <2>2. \A v \in Writers : pc'[v] = "clear" => pc[v] = "clear" /\ fresh'[v] = fresh[v]
      BY <1>3 DEF writable
    <2> QED
      BY <1>3, <2>1, <2>2 DEF writable, SpaceInvariant, SpaceNoticed, ClearsOnlyFull
  <1>4. ASSUME NEW w \in Writers, clear_ready(w)
        PROVE  SpaceNoticed' /\ ClearsOnlyFull'
    <2>1. HasSpace' = HasSpace /\ edge' = edge
      BY <1>4, SameSpace DEF clear_ready, kernel
    <2>2. \A v \in Writers : pc'[v] = "clear" => pc[v] = "clear" /\ fresh'[v] = fresh[v]
      BY <1>4 DEF clear_ready
    <2>3. SpaceNoticed'
      <3>1. CASE fresh[w]
        BY <1>4, <2>1, <3>1 DEF clear_ready, SpaceInvariant, SpaceNoticed, ClearsOnlyFull
      <3>2. CASE ~fresh[w]
        BY <1>4, <2>1, <3>2 DEF clear_ready, SpaceInvariant, SpaceNoticed
      <3> QED
        BY <3>1, <3>2
    <2> QED
      BY <2>1, <2>2, <2>3 DEF SpaceInvariant, ClearsOnlyFull
  <1>5. ASSUME NEW w \in Writers, Return(w, "cancelled") \/ Return(w, "error")
                                  \/ Return(w, "wouldblock") \/ Return(w, "ok"),
               UNCHANGED <<ready, fresh>>,
               \/ UNCHANGED <<queue, edge>>
               \/ HasSpace /\ UNCHANGED edge
               \/ Freed
        PROVE  SpaceNoticed' /\ ClearsOnlyFull'
    <2>1. \A v \in Writers : pc'[v] = "clear" => pc[v] = "clear" /\ fresh'[v] = fresh[v]
      BY <1>5 DEF Return
    <2>2. CASE UNCHANGED <<queue, edge>>
      BY <1>5, <2>1, <2>2, SameSpace DEF SpaceInvariant, SpaceNoticed, ClearsOnlyFull
    <2>3. CASE HasSpace /\ UNCHANGED edge
      BY <1>5, <2>1, <2>3 DEF SpaceInvariant, SpaceNoticed, ClearsOnlyFull
    <2>4. CASE Freed
      BY <2>4 DEF Freed, SpaceNoticed, ClearsOnlyFull
    <2> QED
      BY <1>5, <2>2, <2>3, <2>4
  <1>6. ASSUME NEW w \in Writers, cancel(w) \/ writable_error(w)
        PROVE  SpaceNoticed' /\ ClearsOnlyFull'
    BY <1>5, <1>6 DEF cancel, writable_error, kernel, tokio
  <1>7. ASSUME NEW w \in Writers, send_msg_queue(w)
        PROVE  SpaceNoticed' /\ ClearsOnlyFull'
    <2>1. HasSpace
      BY <1>7, MessageType, VerdictSpace DEF send_msg_queue, InCall
    <2> QED
      BY <1>5, <1>7, <2>1, VerdictResult DEF send_msg_queue, try_io_done
  <1>8. ASSUME NEW w \in Writers, send_msg_error(w)
        PROVE  SpaceNoticed' /\ ClearsOnlyFull'
    BY <1>5, <1>8, VerdictResult DEF send_msg_error, try_io_done, kernel
  <1>9. ASSUME NEW w \in Writers, send_msg_eof(w)
        PROVE  SpaceNoticed' /\ ClearsOnlyFull'
    BY <1>5, <1>9, VerdictResult DEF send_msg_eof, try_io_done
  <1>10. ASSUME NEW w \in Writers, send_msg_abort(w)
         PROVE  SpaceNoticed' /\ ClearsOnlyFull'
    BY <1>5, <1>10, VerdictResult DEF send_msg_abort, try_io_done, Discard
  <1>11. ASSUME NEW w \in Writers, send_msg_full(w)
         PROVE  SpaceNoticed' /\ ClearsOnlyFull'
    <2>1. ~HasSpace /\ HasSpace' = HasSpace
      BY <1>11, MessageType, VerdictSpace, SameSpace DEF send_msg_full, kernel, InCall
    <2> QED
      BY <2>1 DEF SpaceNoticed, ClearsOnlyFull
  <1>12. ASSUME NEW w \in Writers, wait_space(w)
         PROVE  SpaceNoticed' /\ ClearsOnlyFull'
    BY <1>5, <1>12, WaitSpace DEF wait_space, tokio
  <1>13. ASSUME NEW w \in Writers, wait_fails(w)
         PROVE  SpaceNoticed' /\ ClearsOnlyFull'
    BY <1>5, <1>13 DEF wait_fails, kernel, tokio
  <1>14. ASSUME NEW p \in Peers, Ack(p) \/ AssocLost(p)
         PROVE  SpaceNoticed' /\ ClearsOnlyFull'
    <2>1. Freed
      BY <1>14 DEF Ack, AssocLost, Discard
    <2> QED
      BY <2>1 DEF Freed, SpaceNoticed, ClearsOnlyFull
  <1>15. ASSUME NEW p \in Peers, ShutdownCompletes(p)
         PROVE  SpaceNoticed' /\ ClearsOnlyFull'
    <2>1. UNCHANGED <<queue, edge, ready, fresh, pc>>
      BY <1>15 DEF ShutdownCompletes, tokio, call
    <2> QED
      BY <2>1, SameSpace DEF SpaceInvariant, SpaceNoticed, ClearsOnlyFull
  <1>16. CASE driver_event
    BY <1>16 DEF driver_event, SpaceNoticed, ClearsOnlyFull
  <1>17. CASE UNCHANGED vars
    <2>1. UNCHANGED <<queue, edge, ready, fresh, pc>>
      BY <1>17 DEF vars, kernel, tokio, call
    <2> QED
      BY <2>1, SameSpace DEF SpaceInvariant, SpaceNoticed, ClearsOnlyFull
  <1> QED
    BY <1>2, <1>3, <1>4, <1>6, <1>7, <1>8, <1>9, <1>10, <1>11, <1>12, <1>13, <1>14,
       <1>15, <1>16, <1>17 DEF Next, write_op, send_msg

\* Space in the send buffer always shows in tokio's readiness or in an event
\* that is still to be delivered: no task waits for writable() in vain because
\* another one cleared the readiness with an old guard.
THEOREM SpaceIsNoticed == Spec => []SpaceNoticed
  <1>1. SpaceInvariant => SpaceNoticed
    BY DEF SpaceInvariant
  <1> QED
    BY <1>1, SpaceInit, SpaceStep, PTL DEF Spec

-----------------------------------------------------------------------------
(* Retries and waiting are invisible: SendPath implements SendQueue.       *)

\* What the abstract queue holds of a buffer grows and shrinks with it.
LEMMA CoresQueue ==
    ASSUME NEW q \in Seq(Messages), NEW m \in Messages
    PROVE  /\ Cores(<< >>) = << >>
           /\ Cores(Append(q, m)) = Append(Cores(q), Core(m))
           /\ q = << >> <=> Cores(q) = << >>
           /\ q # << >> => Cores(Tail(q)) = Tail(Cores(q))
  <1>1. Len(q) \in Nat /\ Cores(q) \in Seq({Core(x) : x \in Messages}) /\ Len(Cores(q)) = Len(q)
    BY DEF Cores
  <1>2. Cores(<< >>) = << >>
    BY DEF Cores
  <1>3. Cores(Append(q, m)) = Append(Cores(q), Core(m))
    <2>1. /\ Len(Append(q, m)) = Len(q) + 1
          /\ Append(q, m)[Len(q) + 1] = m
          /\ \A i \in 1..Len(q) : Append(q, m)[i] = q[i]
      OBVIOUS
    <2>2. Core(m) \in {Core(x) : x \in Messages}
      OBVIOUS
    <2>3. /\ Append(Cores(q), Core(m)) \in Seq({Core(x) : x \in Messages})
          /\ Len(Append(Cores(q), Core(m))) = Len(q) + 1
          /\ Append(Cores(q), Core(m))[Len(q) + 1] = Core(m)
          /\ \A i \in 1..Len(q) : Append(Cores(q), Core(m))[i] = Cores(q)[i]
      BY <1>1, <2>2, AppendProperties
    <2>4. /\ Cores(Append(q, m)) \in Seq({Core(x) : x \in Messages})
          /\ Len(Cores(Append(q, m))) = Len(q) + 1
          /\ Cores(Append(q, m))[Len(q) + 1] = Core(m)
          /\ \A i \in 1..Len(q) : Cores(Append(q, m))[i] = Cores(q)[i]
      BY <1>1, <2>1 DEF Cores
    <2>5. \A i \in 1..(Len(q) + 1) : Cores(Append(q, m))[i] = Append(Cores(q), Core(m))[i]
      BY <1>1, <2>3, <2>4
    <2> QED
      BY <2>3, <2>4, <2>5, SeqEqual
  <1>4. q = << >> <=> Cores(q) = << >>
    BY <1>1, EmptySeq
  <1>5. ASSUME q # << >> PROVE Cores(Tail(q)) = Tail(Cores(q))
    <2>1. /\ Tail(q) \in Seq(Messages) /\ Len(Tail(q)) = Len(q) - 1
          /\ \A i \in 1..Len(Tail(q)) : Tail(q)[i] = q[i + 1]
      BY <1>5, HeadTailProperties
    <2>2. /\ Len(Tail(Cores(q))) = Len(q) - 1
          /\ \A i \in 1..Len(Tail(Cores(q))) : Tail(Cores(q))[i] = Cores(q)[i + 1]
          /\ Tail(Cores(q)) \in Seq({Core(x) : x \in Messages})
      BY <1>1, <1>4, <1>5, HeadTailProperties
    <2>3. Cores(Tail(q)) \in Seq({Core(x) : x \in Messages}) /\ Len(Cores(Tail(q))) = Len(q) - 1
      BY <2>1 DEF Cores
    <2>4. \A i \in 1..(Len(q) - 1) : Cores(Tail(q))[i] = Core(q[i + 1])
      BY <2>1 DEF Cores
    <2>5. \A i \in 1..(Len(q) - 1) : Cores(q)[i + 1] = Core(q[i + 1])
      BY <1>1 DEF Cores
    <2> QED
      BY <1>1, <2>2, <2>3, <2>4, <2>5, SeqEqual
  <1> QED
    BY <1>2, <1>3, <1>4, <1>5

\* A call that returns leaves the set of pending messages, alone.
LEMMA PendingReturns ==
    ASSUME CallInvariant, NEW w \in Writers, InCall(w), NEW result, Return(w, result)
    PROVE  Core(msg[w]) \in Pending /\ Pending' = Pending \ {Core(msg[w])}
  <1>1. \A v \in Writers : v # w => pc'[v] = pc[v] /\ msg'[v] = msg[v]
    BY DEF Return, CallInvariant, TypeOK
  <1>2. pc'[w] = "idle"
    BY DEF Return, CallInvariant, TypeOK
  <1>3. \A v \in Writers : v # w /\ InCall(v) => Core(msg[v]) # Core(msg[w])
    BY DEF CallInvariant, CallsNumbered, Core
  <1> QED
    BY <1>1, <1>2, <1>3 DEF Pending, InCall

\* Steps that change the way a message names its peer, or nothing of the calls,
\* are not visible.
LEMMA PendingStays ==
    ASSUME CallInvariant, NEW w \in Writers, InCall(w),
           NEW to, to # "idle", pc' = [pc EXCEPT ![w] = to],
           NEW by, msg' = [msg EXCEPT ![w].by = by]
    PROVE  Pending' = Pending
  <1>1. msg[w] \in Messages
    BY MessageType
  <1>2. Core(msg'[w]) = Core(msg[w])
    BY <1>1 DEF Core, Messages, CallInvariant, TypeOK
  <1>3. \A v \in Writers : (pc'[v] # "idle" <=> pc[v] # "idle")
    BY DEF InCall, CallInvariant, TypeOK
  <1>4. \A v \in Writers : Core(msg'[v]) = Core(msg[v])
    BY <1>2 DEF CallInvariant, TypeOK
  <1> QED
    BY <1>3, <1>4 DEF Pending

LEMMA InitRefines == Init => Outgoing!Init
  <1> SUFFICES ASSUME Init PROVE Outgoing!Init
    OBVIOUS
  <1>1. Pending = {}
    BY DEF Init, Pending
  <1>2. Cores(<< >>) = << >>
    BY DEF Cores
  <1>3. Outbox = [p \in Peers |-> << >>] /\ Closing = {}
    BY <1>2 DEF Init, Outbox, Closing
  <1> QED
    BY <1>1, <1>3 DEF Init, Outgoing!Init

\* Every step of SendPath is one step of the abstract queue, or none.
LEMMA StepRefines ==
    ASSUME CallInvariant, [Next]_vars
    PROVE  [Outgoing!Next]_(Outgoing!vars)
  <1> TypeOK
    BY DEF CallInvariant
  <1> queue \in [Peers -> Seq(Messages)] /\ assoc \in [Peers -> {"none", "up", "closing"}]
    BY DEF TypeOK
  <1>1. ASSUME UNCHANGED <<queue, assoc, outcome>>, Pending' = Pending
        PROVE  UNCHANGED Outgoing!vars
    BY <1>1 DEF Outgoing!vars, Outbox, Closing
  <1>2. ASSUME NEW w \in Writers, send_msg_call(w)
        PROVE  Outgoing!Next
    <2>1. calls \in Nat /\ calls' = calls + 1 /\ calls' \in 1..MaxSends /\ ~InCall(w)
      BY <1>2 DEF send_msg_call, TypeOK, InCall
    <2>2. PICK m : /\ m.n = calls' /\ m.peer \in Peers /\ m.flag \in Flags
                   /\ msg' = [msg EXCEPT ![w] = m]
      BY <1>2 DEF send_msg_call
    <2>3. Core(m) \in Outgoing!Messages /\ Core(m).n = calls'
      BY <2>1, <2>2 DEF Core, Outgoing!Messages, Flags
    <2>4. /\ pc'[w] # "idle" /\ msg'[w] = m
          /\ \A v \in Writers : v # w => pc'[v] = pc[v] /\ msg'[v] = msg[v]
      BY <1>2, <2>2 DEF send_msg_call, TypeOK
    <2>5. Pending' = Pending \cup {Core(m)}
      BY <2>1, <2>4 DEF Pending, InCall
    <2>6. outcome[calls'] = "none"
      BY <2>1 DEF CallInvariant, CallsNumbered
    <2>7. outcome' = [outcome EXCEPT ![calls'] = "pending"] /\ UNCHANGED <<queue, assoc>>
      BY <1>2 DEF send_msg_call, kernel
    <2>8. Outgoing!Call(Core(m))
      BY <2>1, <2>3, <2>5, <2>6, <2>7 DEF Outgoing!Call, Outbox, Closing
    <2> QED
      BY <2>3, <2>8 DEF Outgoing!Next
  <1>3. ASSUME NEW w \in Writers, writable(w) \/ clear_ready(w)
        PROVE  UNCHANGED Outgoing!vars
    <2>1. PICK to \in {"sendmsg", "writable"} : pc' = [pc EXCEPT ![w] = to]
      BY <1>3 DEF writable, clear_ready
    <2>2. InCall(w) /\ UNCHANGED <<queue, assoc, outcome, msg>>
      BY <1>3 DEF writable, clear_ready, InCall, kernel
    <2>3. msg' = [msg EXCEPT ![w].by = msg[w].by]
      BY <2>2, MessageType DEF Messages, TypeOK
    <2> QED
      BY <1>1, <2>1, <2>2, <2>3, PendingStays
  <1>4. ASSUME NEW w \in Writers, InCall(w), UNCHANGED <<queue, assoc>>,
               NEW result \in {"error", "wouldblock", "cancelled"}, Return(w, result)
        PROVE  Outgoing!Next
    <2>1. Core(msg[w]) \in Pending /\ Pending' = Pending \ {Core(msg[w])}
      BY <1>4, PendingReturns
    <2>2. Outgoing!Return(Core(msg[w]), result)
      BY <1>4, <2>1 DEF Outgoing!Return, Return, Core
    <2>3. Outgoing!Fail(Core(msg[w]))
      BY <1>4, <2>2 DEF Outgoing!Fail, Outbox, Closing
    <2> QED
      BY <2>1, <2>3 DEF Outgoing!Next
  <1>5. ASSUME NEW w \in Writers, InCall(w), msg[w].flag = "NONE",
               assoc[msg[w].peer] # "closing", Queue(msg[w]), Return(w, "ok")
        PROVE  Outgoing!Next
    <2> DEFINE m == msg[w]
    <2>1. m \in Messages /\ m.peer \in Peers
      BY <1>5, MessageType
    <2>2. Core(m) \in Pending /\ Pending' = Pending \ {Core(m)}
      BY <1>5, PendingReturns
    <2>3. Outgoing!Return(Core(m), "ok")
      BY <1>5, <2>2 DEF Outgoing!Return, Return, Core
    <2>4. Closing' = Closing /\ m.peer \notin Closing
      BY <1>5, <2>1 DEF Queue, Closing
    <2>5. Cores(queue'[m.peer]) = Append(Cores(queue[m.peer]), Core(m))
      BY <1>5, <2>1, CoresQueue DEF Queue
    <2>6. Outbox' = [Outbox EXCEPT ![m.peer] = Append(@, Core(m))]
      BY <1>5, <2>1, <2>5 DEF Queue, Outbox
    <2>7. Core(m).flag = "NONE" /\ Core(m).peer = m.peer
      BY <1>5 DEF Core
    <2>8. Outgoing!Accept(Core(m))
      BY <2>3, <2>4, <2>6, <2>7 DEF Outgoing!Accept
    <2> QED
      BY <2>2, <2>8 DEF Outgoing!Next
  <1>6. ASSUME NEW w \in Writers, cancel(w) \/ writable_error(w)
        PROVE  Outgoing!Next
    BY <1>4, <1>6 DEF cancel, writable_error, InCall, kernel
  <1>7. ASSUME NEW w \in Writers, send_msg_queue(w)
        PROVE  Outgoing!Next
    <2>1. InCall(w) /\ Queue(msg[w]) /\ Return(w, "ok")
      BY <1>7, VerdictResult DEF send_msg_queue, InCall, try_io_done
    <2>2. msg[w].flag = "NONE" /\ assoc[msg[w].peer] # "closing"
      BY <1>7, <2>1, MessageType, VerdictSpace DEF send_msg_queue
    <2> QED
      BY <1>5, <2>1, <2>2
  <1>8. ASSUME NEW w \in Writers, send_msg_error(w)
        PROVE  Outgoing!Next
    BY <1>4, <1>8, VerdictResult DEF send_msg_error, InCall, try_io_done, kernel
  <1>9. ASSUME NEW w \in Writers, send_msg_eof(w)
        PROVE  Outgoing!Next
    <2> DEFINE m == msg[w]
    <2>1. InCall(w) /\ Return(w, "ok") /\ queue' = queue
          /\ assoc' = [assoc EXCEPT ![m.peer] = "closing"]
      BY <1>9, VerdictResult DEF send_msg_eof, InCall, try_io_done
    <2>2. m.flag = "EOF" /\ m.peer \in Peers
      BY <1>9, <2>1, MessageType, VerdictSpace DEF send_msg_eof
    <2>3. Core(m) \in Pending /\ Pending' = Pending \ {Core(m)}
      BY <2>1, PendingReturns
    <2>4. Outgoing!Return(Core(m), "ok")
      BY <2>1, <2>3 DEF Outgoing!Return, Return, Core
    <2>5. Closing' = Closing \cup {m.peer} /\ Outbox' = Outbox
      BY <2>1, <2>2 DEF Closing, Outbox
    <2>6. Core(m).flag = "EOF" /\ Core(m).peer = m.peer
      BY <2>2 DEF Core
    <2>7. Outgoing!AcceptEof(Core(m))
      BY <2>4, <2>5, <2>6 DEF Outgoing!AcceptEof
    <2> QED
      BY <2>3, <2>7 DEF Outgoing!Next
  <1>10. ASSUME NEW p \in Peers, Discard(p)
         PROVE  Outbox' = [Outbox EXCEPT ![p] = << >>] /\ Closing' = Closing \ {p}
    <2>1. Cores(<< >>) = << >>
      BY DEF Cores
    <2> QED
      BY <1>10, <2>1 DEF Discard, Outbox, Closing
  <1>11. ASSUME NEW w \in Writers, send_msg_abort(w)
         PROVE  Outgoing!Next
    <2> DEFINE m == msg[w]
    <2>1. InCall(w) /\ Return(w, "ok") /\ Discard(m.peer)
      BY <1>11, VerdictResult DEF send_msg_abort, InCall, try_io_done
    <2>2. m.flag = "ABORT" /\ m.peer \in Peers
      BY <1>11, <2>1, MessageType, VerdictSpace DEF send_msg_abort
    <2>3. Core(m) \in Pending /\ Pending' = Pending \ {Core(m)}
      BY <2>1, PendingReturns
    <2>4. Outgoing!Return(Core(m), "ok")
      BY <2>1, <2>3 DEF Outgoing!Return, Return, Core
    <2>5. Core(m).flag = "ABORT" /\ Core(m).peer = m.peer
      BY <2>2 DEF Core
    <2>6. Outbox' = [Outbox EXCEPT ![m.peer] = << >>] /\ Closing' = Closing \ {m.peer}
      BY <1>10, <2>1, <2>2
    <2>7. Outgoing!AcceptAbort(Core(m))
      BY <2>4, <2>5, <2>6 DEF Outgoing!AcceptAbort
    <2> QED
      BY <2>3, <2>7 DEF Outgoing!Next
  <1>12. ASSUME NEW w \in Writers, send_msg_full(w)
         PROVE  UNCHANGED Outgoing!vars
    <2>1. InCall(w) /\ UNCHANGED <<queue, assoc, outcome>>
      BY <1>12 DEF send_msg_full, InCall, kernel
    <2>2. PICK to \in {"clear", "wait"}, by \in {"id", "addr"} :
              pc' = [pc EXCEPT ![w] = to] /\ msg' = [msg EXCEPT ![w].by = by]
      <3>1. msg[w] \in Messages /\ msg[w].by \in {"id", "addr"}
        BY <2>1, MessageType DEF Messages
      <3>2. CASE w \in async
        BY <1>12, <3>1, <3>2 DEF send_msg_full, Messages, TypeOK
      <3>3. CASE w \notin async
        BY <1>12, <3>1, <3>3 DEF send_msg_full
      <3> QED
        BY <3>2, <3>3
    <2> QED
      BY <1>1, <2>1, <2>2, PendingStays
  <1>13. ASSUME NEW w \in Writers, wait_space(w)
         PROVE  Outgoing!Next
    <2>1. InCall(w) /\ Queue(msg[w]) /\ Return(w, "ok") /\ WaitOk(w)
      BY <1>13 DEF wait_space, InCall
    <2>2. msg[w].flag = "NONE" /\ assoc[msg[w].peer] # "closing"
      BY <1>13, <2>1 DEF wait_space, WaitOk, CallInvariant, WaitsWithPayload
    <2> QED
      BY <1>5, <2>1, <2>2
  <1>14. ASSUME NEW w \in Writers, wait_fails(w)
         PROVE  Outgoing!Next
    BY <1>4, <1>14 DEF wait_fails, InCall, kernel
  <1>15. ASSUME NEW p \in Peers, Ack(p)
         PROVE  Outgoing!Next
    <2>1. /\ queue[p] # << >> /\ queue' = [queue EXCEPT ![p] = Tail(@)]
          /\ UNCHANGED <<assoc, pc, msg, outcome>>
      BY <1>15 DEF Ack, call
    <2>2. Outbox[p] # << >> /\ Cores(queue'[p]) = Tail(Outbox[p])
      <3>1. PICK m \in Messages : TRUE
        BY <2>1, HeadTailProperties
      <3> QED
        BY <2>1, <3>1, CoresQueue DEF Outbox
    <2>3. Outbox' = [Outbox EXCEPT ![p] = Tail(@)] /\ Pending' = Pending /\ Closing' = Closing
      BY <2>1, <2>2 DEF Outbox, Pending, Closing
    <2>4. Outgoing!Deliver(p)
      BY <2>1, <2>2, <2>3 DEF Outgoing!Deliver
    <2> QED
      BY <2>4 DEF Outgoing!Next
  <1>16. ASSUME NEW p \in Peers, ShutdownCompletes(p)
         PROVE  Outgoing!Next
    <2>1. /\ assoc[p] = "closing" /\ queue[p] = << >>
          /\ assoc' = [assoc EXCEPT ![p] = "none"]
          /\ UNCHANGED <<queue, pc, msg, outcome>>
      BY <1>16 DEF ShutdownCompletes, call
    <2>2. Cores(<< >>) = << >>
      BY DEF Cores
    <2>3. Outbox[p] = << >> /\ p \in Closing
      BY <2>1, <2>2 DEF Outbox, Closing
    <2>4. Outbox' = Outbox /\ Pending' = Pending /\ Closing' = Closing \ {p}
      BY <2>1 DEF Outbox, Pending, Closing
    <2>5. Outgoing!Closed(p)
      BY <2>1, <2>3, <2>4 DEF Outgoing!Closed
    <2> QED
      BY <2>5 DEF Outgoing!Next
  <1>17. ASSUME NEW p \in Peers, AssocLost(p)
         PROVE  Outgoing!Next
    <2>1. Discard(p) /\ UNCHANGED <<pc, msg, outcome>>
      BY <1>17 DEF AssocLost, call
    <2>2. Outgoing!Lost(p)
      BY <1>10, <2>1 DEF Outgoing!Lost, Pending
    <2> QED
      BY <2>2 DEF Outgoing!Next
  <1>18. CASE driver_event \/ UNCHANGED vars
    <2>1. UNCHANGED <<queue, assoc, pc, msg, outcome>>
      BY <1>18 DEF driver_event, vars, kernel, call
    <2> QED
      BY <1>1, <2>1 DEF Pending
  <1> QED
    BY <1>2, <1>3, <1>6, <1>7, <1>8, <1>9, <1>11, <1>12, <1>13, <1>14, <1>15, <1>16,
       <1>17, <1>18 DEF Next, write_op, send_msg

\* Each call of send_msg takes effect in one step, in which its message joins
\* its peer's queue or the association closes, or has no effect.
THEOREM SendImplementsQueue == Spec => ImplementsSendQueue
  <1>1. CallInvariant /\ [Next]_vars => [Outgoing!Next]_(Outgoing!vars)
    BY StepRefines
  <1> QED
    BY <1>1, InitRefines, CallsAreKept, PTL DEF Spec, ImplementsSendQueue, Outgoing!Spec
=============================================================================

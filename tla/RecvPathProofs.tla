--------------------------- MODULE RecvPathProofs ---------------------------
(***************************************************************************)
(* Theorems about RecvPath, for every set of readers, every buffer size    *)
(* and every sequence of messages.                                         *)
(***************************************************************************)
EXTENDS RecvPath, SequenceTheorems, TLAPS

USE LensAssumption, MaxNotificationAssumption, MaxMsgsAssumption,
    ReadersAssumption, CapsAssumption, ScratchAssumption, MaxCancelsAssumption
    DEF LensAssumption, MaxNotificationAssumption, MaxMsgsAssumption,
        ReadersAssumption, CapsAssumption, ScratchAssumption,
        MaxCancelsAssumption

-----------------------------------------------------------------------------
(* Facts about the operators.                                              *)

\* A piece of a message is a sequence of as many bytes as were read.
LEMMA BytesType ==
    ASSUME NEW m \in Nat, NEW from \in Nat, NEW n \in Nat
    PROVE  /\ Bytes(m, from, n) \in Seq(Nat \X Nat)
           /\ Len(Bytes(m, from, n)) = n
  BY DEF Bytes

\* recvmsg returns at most what is left of the message at the head.
LEMMA CopiedType ==
    ASSUME TypeOK, Queued, NEW room \in Nat
    PROVE  /\ Left \in Nat \ {0}
           /\ Copied(room) \in 0..Left
           /\ Copied(room) <= room
           /\ head \in Nat
           /\ msgs[head] \in Message
  <1>1. head \in 1..Len(msgs) /\ msgs[head] \in Message
    BY DEF TypeOK, Queued
  <1>2. msgs[head].len \in Nat /\ taken \in Nat /\ taken < msgs[head].len
    BY <1>1 DEF TypeOK, Queued, Message
  <1> QED
    BY <1>1, <1>2 DEF Left, Copied

\* Consuming what recvmsg returned leaves a well-formed queue.
LEMMA ConsumeType ==
    ASSUME TypeOK, Queued, NEW n \in 0..Left, Consume(n)
    PROVE  /\ msgs' = msgs
           /\ head' \in 1..(Len(msgs) + 1)
           /\ taken' \in Nat
           /\ head' <= Len(msgs) => taken' < msgs[head'].len
           /\ head' = Len(msgs) + 1 => taken' = 0
           /\ eof' = eof /\ alive' = alive /\ skerr' = skerr
  <1>1. Left \in Nat \ {0} /\ msgs[head] \in Message
    BY CopiedType, 0 \in Nat
  <1>2. head \in 1..Len(msgs) /\ Len(msgs) \in Nat /\ taken \in Nat
    BY DEF TypeOK, Queued
  <1>3. \A i \in 1..Len(msgs) : msgs[i].len \in Nat \ {0}
    <2>1. \A i \in 1..Len(msgs) : msgs[i] \in Message
      BY DEF TypeOK
    <2> QED
      BY <2>1 DEF Message
  <1>4. CASE n = Left
    BY <1>1, <1>2, <1>3, <1>4 DEF Consume
  <1>5. CASE n # Left
    <2>1. head' = head /\ taken' = taken + n
      BY <1>5 DEF Consume
    <2>2. taken + n < msgs[head].len
      BY <1>1, <1>2, <1>3, <1>5 DEF Left
    <2> QED
      BY <2>1, <2>2, <1>2 DEF Consume
  <1> QED
    BY <1>4, <1>5

\* Returning resets the reader's locals to values of their types.
LEMMA ReturnType ==
    ASSUME TypeOK, NEW r \in Readers, NEW result \in Results,
           Return(r, result)
    PROVE  /\ pc' \in [Readers -> {"idle", "readable", "recvmsg",
                                   "reassemble", "clear"}]
           /\ cap' \in [Readers -> Nat]
           /\ out' \in [Readers -> Seq(Nat \X Nat)]
           /\ over' \in [Readers -> BOOLEAN]
           /\ ret' \in [Readers -> Results]
  BY DEF TypeOK, Return

\* The bytes collected by a reassembly stay a sequence of bytes.
LEMMA ExtendedType ==
    ASSUME TypeOK, NEW r \in Readers, NEW n \in Nat
    PROVE  Extended(r, n) \in Seq(Nat \X Nat)
  <1>1. Bytes(head, taken, n) \in Seq(Nat \X Nat)
    BY BytesType DEF TypeOK
  <1> QED
    BY <1>1 DEF TypeOK, Extended

\* What a call hands out is appended to the log.
LEMMA LogType ==
    ASSUME TypeOK, NEW bytes \in Seq(Nat \X Nat), NEW eor \in BOOLEAN
    PROVE  /\ Append(log, GotData(bytes, eor)) \in Seq(Delivery)
           /\ Append(log, GotNotification(bytes)) \in Seq(Delivery)
           /\ Append(log, GotDiscarded) \in Seq(Delivery)
  <1>1. GotData(bytes, eor) \in Delivery
    BY DEF GotData, Delivery
  <1>2. GotNotification(bytes) \in Delivery
    BY DEF GotNotification, Delivery
  <1>3. GotDiscarded \in Delivery
    BY DEF GotDiscarded, Delivery
  <1> QED
    BY <1>1, <1>2, <1>3 DEF TypeOK

-----------------------------------------------------------------------------
(* Type correctness.                                                       *)

\* Every reachable state is well typed; in particular the offset `taken' is
\* always inside the message at the head of the queue.
THEOREM TypeCorrect == Spec => []TypeOK
  <1>1. Init => TypeOK
    <2> SUFFICES ASSUME Init PROVE TypeOK
      OBVIOUS
    <2>1. /\ msgs \in Seq(Message) /\ Len(msgs) = 0 /\ log \in Seq(Delivery)
          /\ << >> \in Seq(Nat \X Nat)
      BY DEF Init
    <2>2. /\ head \in 1..(Len(msgs) + 1) /\ taken \in Nat
          /\ head <= Len(msgs) => taken < msgs[head].len
          /\ head = Len(msgs) + 1 => taken = 0
          /\ cancels \in 0..MaxCancels /\ async \in AsyncSets
      BY <2>1 DEF Init
    <2> QED
      BY <2>1, <2>2 DEF Init, TypeOK, Results
  <1>2. TypeOK /\ [Next]_vars => TypeOK'
    <2> SUFFICES ASSUME TypeOK, [Next]_vars
                 PROVE  TypeOK'
      OBVIOUS
    <2>1. ASSUME NEW msg \in Message, Arrive(msg)
          PROVE  TypeOK'
      <3>1. /\ msgs' \in Seq(Message)
            /\ Len(msgs') = Len(msgs) + 1
            /\ \A i \in 1..Len(msgs) : msgs'[i] = msgs[i]
            /\ msgs'[Len(msgs) + 1] = msg
        BY <2>1 DEF TypeOK, Arrive
      <3>2. msg.len \in Nat \ {0}
        BY DEF Message
      <3>3. /\ head \in 1..(Len(msgs') + 1)
            /\ head <= Len(msgs') => taken < msgs'[head].len
            /\ head = Len(msgs') + 1 => taken = 0
        <4>1. /\ head \in 1..(Len(msgs) + 1) /\ Len(msgs) \in Nat /\ taken \in Nat
              /\ head <= Len(msgs) => taken < msgs[head].len
              /\ head = Len(msgs) + 1 => taken = 0
          BY DEF TypeOK
        <4> QED
          BY <3>1, <3>2, <4>1
      <3> QED
        BY <2>1, <3>1, <3>3 DEF TypeOK, Arrive, reader
    <2>2. CASE PeerShutdown
      BY <2>2 DEF TypeOK, PeerShutdown, reader
    <2>3. CASE PeerAbort
      BY <2>3 DEF TypeOK, PeerAbort, reader
    <2>4. CASE driver_event
      BY <2>4 DEF TypeOK, driver_event, kernel, reader
    <2>5. ASSUME NEW r \in Readers, read_op(r) \/ cancel(r)
          PROVE  TypeOK'
      <3>1. CASE recv_msg_call(r)
        BY <3>1 DEF TypeOK, recv_msg_call, kernel, tokio
      <3>2. CASE readable(r)
        BY <3>2 DEF TypeOK, readable, kernel
      <3>3. CASE clear_ready(r)
        BY <3>3 DEF TypeOK, clear_ready, kernel
      <3>4. CASE cancel(r)
        BY <3>4, ReturnType, "none" \in Results
           DEF TypeOK, cancel, kernel, tokio, Results
      <3>5. ASSUME recv_empty(r), UNCHANGED <<cancels, async>>
            PROVE  TypeOK'
        <4>1. CASE would_block(r) /\ UNCHANGED kernel
          <5>1. CASE r \in async
            <6>1. log' = log
              BY <3>5 DEF recv_empty
            <6>2. /\ pc' = [pc EXCEPT ![r] = "clear"]
                  /\ out' = [out EXCEPT ![r] = << >>]
                  /\ over' = [over EXCEPT ![r] = FALSE]
                  /\ UNCHANGED <<tokio, cap, ret>>
              BY <5>1, <4>1 DEF would_block
            <6> QED
              BY <6>1, <6>2, <4>1, <3>5, << >> \in Seq(Nat \X Nat)
                 DEF TypeOK, kernel, tokio
          <5>2. CASE r \notin async
            <6>1. Return(r, "wouldblock") /\ UNCHANGED tokio
              BY <5>2, <4>1 DEF would_block, try_io_done
            <6> QED
              BY <6>1, <4>1, <3>5, ReturnType
                 DEF TypeOK, recv_empty, kernel, tokio, Results
          <5> QED
            BY <5>1, <5>2
        <4>2. CASE \E result \in Results :
                     /\ try_io_done(r, result)
                     /\ UNCHANGED <<msgs, head, taken, eof, alive>>
                     /\ skerr' \in BOOLEAN
          <5>1. PICK result \in Results :
                     /\ Return(r, result)
                     /\ UNCHANGED tokio
                     /\ UNCHANGED <<msgs, head, taken, eof, alive>>
                     /\ skerr' \in BOOLEAN
            BY <4>2 DEF try_io_done
          <5> QED
            BY <5>1, <3>5, ReturnType DEF TypeOK, recv_empty, tokio
        <4> QED
          BY <3>5, <4>1, <4>2
             DEF recv_empty, kernel, Results, DataResult, TypeOK
      <3>6. CASE recv_msg_data(r)
        <4> DEFINE n == Copied(cap[r])
        <4>1. Queued /\ Consume(n) /\ n \in 0..Left /\ n \in Nat
              /\ head \in Nat /\ taken \in Nat
          BY <3>6, CopiedType DEF recv_msg_data, TypeOK
        <4>2. Return(r, DataResult(n, enable_rcvinfo)) /\ UNCHANGED tokio
          BY <3>6 DEF recv_msg_data, try_io_done
        <4>3. DataResult(n, enable_rcvinfo) \in Results
          BY DEF DataResult, Results
        <4>4. log' \in Seq(Delivery)
          <5>1. Bytes(head, taken, n) \in Seq(Nat \X Nat)
            BY <4>1, BytesType
          <5>2. Eor(n) \in BOOLEAN
            BY <4>1, CopiedType, 0 \in Nat DEF Eor, Message
          <5>3. Append(log, GotData(Bytes(head, taken, n), Eor(n)))
                    \in Seq(Delivery)
            BY <5>1, <5>2, LogType
          <5> QED
            BY <5>3, <3>6 DEF recv_msg_data, TypeOK
        <4>5. cancels' = cancels /\ async' = async
          BY <3>6 DEF recv_msg_data
        <4> HIDE DEF n
        <4> QED
          BY <4>1, <4>2, <4>3, <4>4, <4>5, ConsumeType, ReturnType
             DEF TypeOK, tokio
      <3>7. CASE recv_msg_notification(r)
        <4> DEFINE n == Copied(cap[r])
        <4>1. Queued /\ Consume(n) /\ n \in 0..Left /\ n \in Nat
              /\ head \in Nat /\ taken \in Nat
          BY <3>7, CopiedType DEF recv_msg_notification, TypeOK, HeadIsNotif
        <4>2. Return(r, "ok") /\ UNCHANGED tokio
          BY <3>7 DEF recv_msg_notification, try_io_done
        <4>3. log' \in Seq(Delivery)
          <5>1. Bytes(head, taken, n) \in Seq(Nat \X Nat)
            BY <4>1, BytesType
          <5>2. Append(log, GotNotification(Bytes(head, taken, n)))
                    \in Seq(Delivery)
            BY <5>1, LogType, TRUE \in BOOLEAN
          <5> QED
            BY <5>2, <3>7 DEF recv_msg_notification
        <4>4. cancels' = cancels /\ async' = async
          BY <3>7 DEF recv_msg_notification
        <4> HIDE DEF n
        <4> QED
          BY <4>1, <4>2, <4>3, <4>4, ConsumeType, ReturnType, "ok" \in Results
             DEF TypeOK, tokio, Results
      <3>8. CASE recv_msg_partial(r)
        <4> DEFINE n == Copied(cap[r])
        <4>1. Queued /\ Consume(n) /\ n \in 0..Left /\ n \in Nat
              /\ head \in Nat /\ taken \in Nat
          BY <3>8, CopiedType DEF recv_msg_partial, TypeOK, HeadIsNotif
        <4>2. /\ out' = [out EXCEPT ![r] = Bytes(head, taken, n)]
              /\ pc' = [pc EXCEPT ![r] = "reassemble"]
              /\ over' = [over EXCEPT ![r] = FALSE]
              /\ UNCHANGED <<tokio, cap, ret, log, cancels, async>>
          BY <3>8 DEF recv_msg_partial
        <4>3. Bytes(head, taken, n) \in Seq(Nat \X Nat)
          BY <4>1, BytesType
        <4> HIDE DEF n
        <4> QED
          BY <4>1, <4>2, <4>3, ConsumeType DEF TypeOK, tokio
      <3>9. CASE reassemble_chunk(r)
        <4> DEFINE n == Copied(Scratch)
        <4>1. Queued /\ Consume(n) /\ n \in 0..Left /\ n \in Nat
              /\ head \in Nat /\ taken \in Nat
          BY <3>9, CopiedType DEF reassemble_chunk, TypeOK, HeadIsNotif
        <4>2. /\ out' = [out EXCEPT ![r] = Extended(r, n)]
              /\ over' = [over EXCEPT ![r] = Oversized(r, n)]
              /\ UNCHANGED <<tokio, pc, cap, ret, log, cancels, async>>
          BY <3>9 DEF reassemble_chunk
        <4>3. Extended(r, n) \in Seq(Nat \X Nat)
          BY <4>1, ExtendedType
        <4>4. Oversized(r, n) \in BOOLEAN
          BY DEF Oversized, TypeOK
        <4> HIDE DEF n
        <4> QED
          BY <4>1, <4>2, <4>3, <4>4, ConsumeType DEF TypeOK, tokio
      <3>10. CASE reassemble_last(r)
        <4> DEFINE n == Copied(Scratch)
        <4>1. Queued /\ Consume(n) /\ n \in 0..Left /\ n \in Nat
              /\ head \in Nat /\ taken \in Nat
          BY <3>10, CopiedType DEF reassemble_last, TypeOK, HeadIsNotif
        <4>2. /\ \E result \in Results : Return(r, result)
              /\ UNCHANGED tokio
              /\ cancels' = cancels /\ async' = async
          BY <3>10 DEF reassemble_last, try_io_done, Results
        <4>3. log' \in Seq(Delivery)
          <5>1. Extended(r, n) \in Seq(Nat \X Nat)
            BY <4>1, ExtendedType
          <5>2. /\ Append(log, GotNotification(Extended(r, n))) \in Seq(Delivery)
                /\ Append(log, GotDiscarded) \in Seq(Delivery)
            BY <5>1, LogType, TRUE \in BOOLEAN
          <5> QED
            BY <5>2, <3>10 DEF reassemble_last
        <4> HIDE DEF n
        <4> QED
          BY <4>1, <4>2, <4>3, ConsumeType, ReturnType DEF TypeOK, tokio
      <3>11. CASE reassemble_desync(r)
        <4> DEFINE n == Copied(Scratch)
        <4>1. Queued /\ Consume(n) /\ n \in 0..Left
          BY <3>11, CopiedType DEF reassemble_desync, TypeOK
        <4>2. /\ Return(r, "desync")
              /\ UNCHANGED <<tokio, log, cancels, async>>
          BY <3>11 DEF reassemble_desync, try_io_done
        <4> HIDE DEF n
        <4> QED
          BY <4>1, <4>2, ConsumeType, ReturnType DEF TypeOK, tokio, Results
      <3> QED
        BY <2>5, <3>1, <3>2, <3>3, <3>4, <3>5, <3>6, <3>7, <3>8, <3>9,
           <3>10, <3>11
           DEF read_op, recv_msg, reassemble_notification, recv_msg_empty,
               reassemble_empty
    <2>6. CASE UNCHANGED vars
      BY <2>6 DEF TypeOK, vars, kernel, tokio, reader
    <2> QED
      BY <2>1, <2>2, <2>3, <2>4, <2>5, <2>6 DEF Next, Kernel
  <1> QED
    BY <1>1, <1>2, PTL DEF Spec

-----------------------------------------------------------------------------
(* Wakeups.                                                                *)

\* No wakeup is lost, for any number of concurrent readers, any buffers and
\* any interleaving of system calls, arrivals, driver events and cancelled
\* futures: read_op may await readable() again whenever it saw WouldBlock.
THEOREM ReadinessIsKept == Spec => []ReadinessKept
  <1>1. Init => WakeupInvariant
    BY DEF Init, WakeupInvariant, ReadinessKept, Queued
  <1>2. TypeOK /\ WakeupInvariant /\ [Next]_vars => WakeupInvariant'
    <2> SUFFICES ASSUME TypeOK, WakeupInvariant, [Next]_vars
                 PROVE  WakeupInvariant'
      OBVIOUS
    <2> USE DEF WakeupInvariant, ReadinessKept
    <2>1. ASSUME NEW msg \in Message, Arrive(msg)
          PROVE  WakeupInvariant'
      BY <2>1 DEF Arrive
    <2>2. CASE PeerShutdown
      <3>1. edge' = TRUE
        BY <2>2 DEF PeerShutdown
      <3> QED
        BY <3>1
    <2>3. CASE PeerAbort
      <3>1. edge => edge'
        BY <2>3 DEF PeerAbort
      <3>2. UNCHANGED <<Queued, eof, ready, fresh, pc>>
        BY <2>3 DEF PeerAbort, Queued, reader
      <3> QED
        BY <3>1, <3>2
    <2>4. CASE driver_event
      BY <2>4 DEF driver_event
    <2>5. ASSUME NEW r \in Readers, read_op(r) \/ cancel(r)
          PROVE  WakeupInvariant'
      <3>1. CASE recv_msg_call(r)
        BY <3>1 DEF recv_msg_call, kernel, tokio, Queued, TypeOK
      <3>2. CASE readable(r)
        BY <3>2 DEF readable, kernel, Queued, TypeOK
      <3>3. CASE clear_ready(r)
        BY <3>3 DEF clear_ready, kernel, Queued, TypeOK
      <3>4. CASE cancel(r)
        BY <3>4 DEF cancel, Return, kernel, tokio, Queued, TypeOK
      <3>5. CASE recv_empty(r)
        <4>1. /\ ~Queued /\ ~Queued'
              /\ UNCHANGED <<tokio, eof>>
              /\ \/ pc' = [pc EXCEPT ![r] = "idle"]
                 \/ ~eof /\ pc' = [pc EXCEPT ![r] = "clear"]
          BY <3>5 DEF recv_empty, try_io_done, would_block, Return, kernel,
                      Queued
        <4> QED
          BY <4>1 DEF tokio, TypeOK
      <3>6. ASSUME NEW n, Queued, Consume(n), UNCHANGED tokio,
                   pc' \in {[pc EXCEPT ![r] = "idle"], pc,
                           [pc EXCEPT ![r] = "reassemble"]}
            PROVE  WakeupInvariant'
        BY <3>6 DEF Consume, tokio, TypeOK
      <3> QED
        BY <2>5, <3>1, <3>2, <3>3, <3>4, <3>5, <3>6
           DEF read_op, recv_msg, reassemble_notification, recv_msg_empty,
               recv_msg_data, recv_msg_notification, recv_msg_partial,
               reassemble_chunk, reassemble_last, reassemble_desync,
               reassemble_empty, HeadIsNotif, try_io_done, Return
    <2>6. CASE UNCHANGED vars
      BY <2>6 DEF vars, kernel, tokio, reader, Queued
    <2> QED
      BY <2>1, <2>2, <2>3, <2>4, <2>5, <2>6 DEF Next, Kernel
  <1>3. WakeupInvariant => ReadinessKept
    BY DEF WakeupInvariant
  <1> QED
    BY <1>1, <1>2, <1>3, TypeCorrect, PTL DEF Spec

-----------------------------------------------------------------------------
(* Reassembly.                                                             *)

\* Two adjacent pieces of a message make one.
LEMMA BytesConcat ==
    ASSUME NEW m \in Nat, NEW k \in Nat, NEW n \in Nat
    PROVE  Bytes(m, 0, k) \o Bytes(m, k, n) = Bytes(m, 0, k + n)
  <1> DEFINE S == Nat \X Nat
             a == Bytes(m, 0, k)
             b == Bytes(m, k, n)
             c == Bytes(m, 0, k + n)
  <1>1. a \in Seq(S) /\ Len(a) = k
    BY BytesType, 0 \in Nat
  <1>2. b \in Seq(S) /\ Len(b) = n
    BY BytesType
  <1>3. c \in Seq(S) /\ Len(c) = k + n
    BY BytesType, 0 \in Nat, k + n \in Nat
  <1>4. /\ \A i \in 1..k : a[i] = <<m, i>>
        /\ \A i \in 1..n : b[i] = <<m, k + i>>
        /\ \A i \in 1..(k + n) : c[i] = <<m, i>>
    BY DEF Bytes
  <1> HIDE DEF a, b, c, S
  <1>5. /\ a \o b \in Seq(S)
        /\ Len(a \o b) = k + n
        /\ \A i \in 1..(k + n) :
                (a \o b)[i] = IF i <= k THEN a[i] ELSE b[i - k]
    BY <1>1, <1>2, ConcatProperties
  <1>6. ASSUME NEW i \in 1..(k + n)
        PROVE  (a \o b)[i] = c[i]
    <2>1. CASE i <= k
      <3>1. i \in 1..k
        BY <2>1
      <3> QED
        BY <2>1, <3>1, <1>4, <1>5
    <2>2. CASE ~(i <= k)
      <3>1. i - k \in 1..n /\ k + (i - k) = i
        BY <2>2
      <3>2. b[i - k] = <<m, i>>
        BY <3>1, <1>4
      <3> QED
        BY <2>2, <3>2, <1>4, <1>5
    <2> QED
      BY <2>1, <2>2
  <1>7. a \o b = c
    BY <1>3, <1>5, <1>6, SeqEqual
  <1> QED
    BY <1>7 DEF a, b, c

\* The bytes collected after one more chunk, as long as the cap allows.
LEMMA ExtendedBytes ==
    ASSUME TypeOK, NEW r \in Readers, NEW n \in Nat,
           out[r] = Bytes(head, 0, taken),
           Len(out[r]) + n <= MaxNotification
    PROVE  Extended(r, n) = Bytes(head, 0, taken + n)
  <1>1. head \in Nat /\ taken \in Nat /\ Len(out[r]) \in Nat
    BY DEF TypeOK
  <1>2. Extended(r, n) = Bytes(head, 0, taken) \o Bytes(head, taken, n)
    BY <1>1 DEF Extended
  <1>3. Bytes(head, 0, taken) \o Bytes(head, taken, n) = Bytes(head, 0, taken + n)
    <2>1. \A m, k \in Nat :
             Bytes(m, 0, k) \o Bytes(m, k, n) = Bytes(m, 0, k + n)
      BY BytesConcat, ZenonT(30)
    <2> HIDE DEF Bytes
    <2> QED
      BY <1>1, <2>1
  <1> QED
    BY <1>2, <1>3

\* Chunks that were left out make `out' shorter, never longer.
LEMMA ExtendedLength ==
    ASSUME TypeOK, NEW r \in Readers, NEW n \in Nat, Len(out[r]) <= taken
    PROVE  Extended(r, n) \in Seq(Nat \X Nat) /\ Len(Extended(r, n)) <= taken + n
  <1>1. /\ head \in Nat /\ taken \in Nat
        /\ out[r] \in Seq(Nat \X Nat) /\ Len(out[r]) \in Nat
    BY DEF TypeOK
  <1>2. /\ Bytes(head, taken, n) \in Seq(Nat \X Nat)
        /\ Len(Bytes(head, taken, n)) = n
    BY <1>1, BytesType
  <1>3. CASE Len(out[r]) + n > MaxNotification
    BY <1>1, <1>3 DEF Extended
  <1>4. CASE ~(Len(out[r]) + n > MaxNotification)
    BY <1>1, <1>2, <1>4 DEF Extended
  <1> QED
    BY <1>3, <1>4

\* The invariant of reassembly is inductive when the socket is unshared.
LEMMA ReassemblyInductive ==
    ASSUME Unshared
    PROVE  /\ Init => ReassemblyInvariant
           /\ TypeOK /\ ReassemblyInvariant /\ [Next]_vars => ReassemblyInvariant'
  <1>1. Init => ReassemblyInvariant
    <2> SUFFICES ASSUME Init PROVE ReassemblyInvariant
      OBVIOUS
    <2>1. Len(msgs) = 0 /\ head = 1 /\ ~Queued
      BY DEF Init, Queued
    <2> QED
      BY <2>1 DEF Init, ReassemblyInvariant, HeadIsNotif
  <1>2. TypeOK /\ ReassemblyInvariant /\ [Next]_vars => ReassemblyInvariant'
    <2> SUFFICES ASSUME TypeOK, ReassemblyInvariant, [Next]_vars
                 PROVE  ReassemblyInvariant'
      OBVIOUS
    <2>1. ASSUME NEW msg \in Message, Arrive(msg)
          PROVE  ReassemblyInvariant'
      <3>1. /\ Len(msgs') = Len(msgs) + 1 /\ Len(msgs) \in Nat
            /\ \A i \in 1..Len(msgs) : msgs'[i] = msgs[i]
            /\ msgs'[Len(msgs) + 1] = msg
            /\ msg.kind = "notif" => msg.eor
            /\ UNCHANGED <<head, taken, pc, cap, out, over>>
        BY <2>1 DEF TypeOK, Arrive, reader
      <3>2. head \in 1..(Len(msgs) + 1) /\ taken \in Nat
        BY DEF TypeOK
      <3>3. HeadIsNotif => HeadIsNotif' /\ msgs'[head] = msgs[head]
        BY <3>1, <3>2 DEF HeadIsNotif, Queued
      <3>4. Reassembling' <=> Reassembling
        BY <3>1 DEF Reassembling
      <3>5. HeadIsNotif' /\ ~Reassembling' => taken = 0
        <4>1. CASE head = Len(msgs) + 1
          BY <4>1 DEF TypeOK
        <4>2. CASE head <= Len(msgs)
          BY <4>2, <3>1, <3>2, <3>4 DEF HeadIsNotif, Queued, ReassemblyInvariant
        <4> QED
          BY <4>1, <4>2, <3>1, <3>2
      <3>6. \A m \in 1..Len(msgs') : msgs'[m].kind = "notif" => msgs'[m].eor
        BY <3>1 DEF ReassemblyInvariant
      <3> QED
        BY <3>1, <3>3, <3>5, <3>6 DEF ReassemblyInvariant
    <2>2. ASSUME UNCHANGED <<msgs, head, taken, reader>>
          PROVE  ReassemblyInvariant'
      BY <2>2 DEF ReassemblyInvariant, reader, HeadIsNotif, Queued, Reassembling
    <2>3. ASSUME NEW r \in Readers, read_op(r) \/ cancel(r)
          PROVE  ReassemblyInvariant'
      <3>0. /\ pc \in [Readers -> {"idle", "readable", "recvmsg", "reassemble",
                                  "clear"}]
            /\ cap \in [Readers -> Nat] /\ DOMAIN over = Readers
            /\ DOMAIN out = Readers /\ head \in Nat /\ taken \in Nat
            /\ Len(msgs) \in Nat /\ head >= 1
        BY DEF TypeOK
      <3>1. ASSUME pc[r] # "reassemble", pc'[r] # "reassemble",
                   \A q \in Readers \ {r} : pc'[q] = pc[q] /\ cap'[q] = cap[q]
                                    /\ out'[q] = out[q] /\ over'[q] = over[q],
                   UNCHANGED <<msgs, head, taken>>,
                   pc'[r] \in {"readable", "recvmsg", "clear"} => cap'[r] \in Caps
            PROVE  ReassemblyInvariant'
        <4>1. HeadIsNotif' <=> HeadIsNotif
          BY <3>1 DEF HeadIsNotif, Queued
        <4>2. Reassembling' <=> Reassembling
          BY <3>1 DEF Reassembling
        <4> QED
          BY <3>1, <4>1, <4>2 DEF ReassemblyInvariant
      <3>2. ASSUME NEW n \in 0..Left, Queued, Consume(n), n = Left \/ ~HeadIsNotif,
                   pc' = [pc EXCEPT ![r] = "idle"],
                   cap' = [cap EXCEPT ![r] = 0], ~Reassembling'
            PROVE  ReassemblyInvariant'
        <4>1. msgs' = msgs /\ (head' = head => ~HeadIsNotif')
          BY <3>2, <3>0 DEF Consume, HeadIsNotif, Queued
        <4>2. head' # head => taken' = 0
          BY <3>2 DEF Consume
        <4> QED
          BY <3>0, <3>2, <4>1, <4>2 DEF ReassemblyInvariant, Reassembling
      <3>3. pc[r] = "recvmsg" => ~Reassembling
        BY DEF ReassemblyInvariant, Reassembling
      <3>4. pc[r] = "reassemble" => HeadIsNotif /\ \A q \in Readers : q = r
        BY DEF ReassemblyInvariant
      <3>5. CASE recv_msg_call(r)
        BY <3>5, <3>1, <3>0 DEF recv_msg_call, kernel
      <3>6. CASE readable(r) \/ clear_ready(r)
        BY <3>6, <3>1, <3>0 DEF readable, clear_ready, kernel, ReassemblyInvariant
      <3>7. CASE cancel(r)
        BY <3>7, <3>1, <3>0 DEF cancel, Return, kernel, TypeOK
      <3>8. CASE recv_msg_empty(r)
        <4>1. UNCHANGED <<msgs, head, taken>> /\ pc[r] = "recvmsg"
          BY <3>8 DEF recv_msg_empty, recv_empty, kernel
        <4>2. /\ pc'[r] # "reassemble"
              /\ \A q \in Readers \ {r} : pc'[q] = pc[q] /\ cap'[q] = cap[q]
                                    /\ out'[q] = out[q] /\ over'[q] = over[q]
              /\ pc'[r] = "idle" \/ cap' = cap
          <5>1. \/ would_block(r)
                \/ \E result \in Results : Return(r, result)
            BY <3>8 DEF recv_msg_empty, recv_empty, try_io_done, DataResult, Results
          <5>2. \/ \E result \in Results : Return(r, result)
                \/ /\ pc' = [pc EXCEPT ![r] = "clear"]
                   /\ out' = [out EXCEPT ![r] = << >>]
                   /\ over' = [over EXCEPT ![r] = FALSE]
                   /\ cap' = cap
            BY <5>1 DEF would_block, try_io_done, Results
          <5> QED
            BY <5>2, <3>0 DEF Return, TypeOK
        <4> QED
          BY <3>1, <4>1, <4>2 DEF ReassemblyInvariant
      <3>9. CASE recv_msg_data(r)
        <4> DEFINE n == Copied(cap[r])
        <4>1. /\ Queued /\ ~HeadIsNotif /\ Consume(n) /\ n \in 0..Left
              /\ pc[r] = "recvmsg"
          BY <3>9, <3>0, CopiedType DEF recv_msg_data
        <4>2. /\ pc' = [pc EXCEPT ![r] = "idle"]
              /\ cap' = [cap EXCEPT ![r] = 0]
          BY <3>9 DEF recv_msg_data, try_io_done, Return
        <4>3. ~Reassembling'
          BY <4>1, <4>2, <3>0, <3>3 DEF Reassembling
        <4> HIDE DEF n
        <4> QED
          BY <3>2, <4>1, <4>2, <4>3
      <3>10. CASE recv_msg_notification(r)
        <4> DEFINE n == Copied(cap[r])
        <4>1. /\ Queued /\ Consume(n) /\ n \in 0..Left /\ n = Left
              /\ pc[r] = "recvmsg"
          BY <3>10, <3>0, CopiedType DEF recv_msg_notification, HeadIsNotif, Eor
        <4>2. /\ pc' = [pc EXCEPT ![r] = "idle"]
              /\ cap' = [cap EXCEPT ![r] = 0]
          BY <3>10 DEF recv_msg_notification, try_io_done, Return
        <4>3. ~Reassembling'
          BY <4>1, <4>2, <3>0, <3>3 DEF Reassembling
        <4> HIDE DEF n
        <4> QED
          BY <3>2, <4>1, <4>2, <4>3
      <3>11. CASE recv_msg_partial(r)
        <4> DEFINE n == Copied(cap[r])
        <4>1. /\ HeadIsNotif /\ Queued /\ Consume(n) /\ n \in 0..Left /\ n \in Nat
              /\ msgs[head] \in Message /\ ~Eor(n) /\ pc[r] = "recvmsg"
          BY <3>11, <3>0, CopiedType DEF recv_msg_partial, HeadIsNotif
        <4>2. taken = 0 /\ msgs[head].eor /\ cap[r] \in Caps
          BY <4>1, <3>0, <3>3 DEF ReassemblyInvariant, Queued, HeadIsNotif
        <4>3. n # Left
          BY <4>1, <4>2 DEF Eor
        <4>4. msgs' = msgs /\ head' = head /\ taken' = n
          BY <4>1, <4>2, <4>3 DEF Consume
        <4>5. \A q \in Readers : q = r
          <5>0. msgs[head].len \in Lens /\ msgs[head].len \in Nat
            <6>1. msgs[head] \in Message
              BY <4>1
            <6> QED
              BY <6>1 DEF Message
          <5>1. Left = msgs[head].len /\ msgs[head].len \in Lens
            BY <5>0, <4>2 DEF Left
          <5>2. ~(msgs[head].len <= cap[r])
            <6>1. cap[r] \in Nat
              BY <3>0
            <6> QED
              BY <6>1, <5>0, <5>1, <4>3 DEF Copied
          <5> QED
            BY <5>1, <5>2, <4>2 DEF Unshared
        <4>6. HeadIsNotif'
          BY <4>1, <4>4 DEF HeadIsNotif, Queued
        <4>7. /\ out' = [out EXCEPT ![r] = Bytes(head, 0, n)]
              /\ pc' = [pc EXCEPT ![r] = "reassemble"]
              /\ over' = [over EXCEPT ![r] = FALSE]
              /\ cap' = cap
          BY <3>11, <4>2 DEF recv_msg_partial
        <4>8. Len(Bytes(head, 0, n)) = n
          BY <3>0, <4>1, BytesType, 0 \in Nat
        <4>9. Reassembling'
          BY <4>7, <3>0 DEF Reassembling
        <4> HIDE DEF n
        <4> QED
          BY <3>0, <4>1, <4>4, <4>5, <4>6, <4>7, <4>8, <4>9 DEF ReassemblyInvariant
      <3>12. CASE reassemble_chunk(r)
        <4> DEFINE n == Copied(Scratch)
        <4>1. /\ HeadIsNotif /\ Queued /\ Consume(n) /\ n \in 0..Left /\ n \in Nat
              /\ msgs[head] \in Message /\ ~Eor(n) /\ pc[r] = "reassemble"
          BY <3>12, <3>0, CopiedType DEF reassemble_chunk, HeadIsNotif
        <4>2. /\ msgs[head].eor /\ Len(out[r]) <= taken
              /\ ~over[r] => out[r] = Bytes(head, 0, taken)
              /\ over[r] => msgs[head].len > MaxNotification
          BY <4>1, <3>0 DEF ReassemblyInvariant, Queued, HeadIsNotif
        <4>3. n # Left
          BY <4>1, <4>2 DEF Eor
        <4>4. msgs' = msgs /\ head' = head /\ taken' = taken + n
          BY <4>1, <4>3 DEF Consume
        <4>5. HeadIsNotif'
          BY <4>1, <4>4 DEF HeadIsNotif, Queued
        <4>6. /\ out' = [out EXCEPT ![r] = Extended(r, n)]
              /\ over' = [over EXCEPT ![r] = Oversized(r, n)]
              /\ pc' = pc /\ cap' = cap
          BY <3>12 DEF reassemble_chunk
        <4>7. Len(Extended(r, n)) <= taken + n
          BY <4>1, <4>2, ExtendedLength
        <4>8. ~Oversized(r, n) => Extended(r, n) = Bytes(head, 0, taken + n)
          <5> SUFFICES ASSUME ~Oversized(r, n)
                       PROVE  Extended(r, n) = Bytes(head, 0, taken + n)
            OBVIOUS
          <5>1. ~over[r] /\ ~(Len(out[r]) + n > MaxNotification)
            BY DEF Oversized
          <5>2. Len(out[r]) \in Nat
            BY DEF TypeOK
          <5>3. Len(out[r]) + n <= MaxNotification
            BY <5>1, <5>2, <4>1
          <5> QED
            BY <5>1, <5>3, <4>1, <4>2, ExtendedBytes
        <4>9. Oversized(r, n) => msgs[head].len > MaxNotification
          <5>1. taken + n <= msgs[head].len /\ msgs[head].len \in Nat
            <6>1. msgs[head] \in Message /\ n <= Left
              BY <4>1, CopiedType, 0 \in Nat
            <6>2. msgs[head].len \in Nat
              BY <6>1 DEF Message
            <6> HIDE DEF n
            <6> QED
              BY <6>1, <6>2, <4>1, <3>0 DEF Left
          <5>2. Len(out[r]) \in Nat
            BY DEF TypeOK
          <5> QED
            BY <5>1, <5>2, <4>1, <4>2, <3>0 DEF Oversized
        <4>10. Reassembling' /\ \A q \in Readers : q = r
          BY <4>1, <4>6, <3>0, <3>4 DEF Reassembling
        <4> HIDE DEF n
        <4> QED
          BY <3>0, <4>1, <4>4, <4>5, <4>6, <4>7, <4>8, <4>9, <4>10
             DEF ReassemblyInvariant
      <3>13. CASE reassemble_last(r)
        <4> DEFINE n == Copied(Scratch)
        <4>1. /\ Queued /\ Consume(n) /\ n \in 0..Left /\ n = Left
              /\ pc[r] = "reassemble"
          BY <3>13, <3>0, CopiedType DEF reassemble_last, HeadIsNotif, Eor
        <4>2. /\ pc' = [pc EXCEPT ![r] = "idle"]
              /\ cap' = [cap EXCEPT ![r] = 0]
          BY <3>13 DEF reassemble_last, try_io_done, Return
        <4>3. ~Reassembling'
          BY <4>1, <4>2, <3>0, <3>4 DEF Reassembling
        <4> HIDE DEF n
        <4> QED
          BY <3>2, <4>1, <4>2, <4>3
      <3>14. CASE reassemble_desync(r) \/ reassemble_empty(r)
        BY <3>14, <3>4
           DEF reassemble_desync, reassemble_empty, recv_empty, HeadIsNotif
      <3> QED
        BY <2>3, <3>5, <3>6, <3>7, <3>8, <3>9, <3>10, <3>11, <3>12, <3>13, <3>14
           DEF read_op, recv_msg, reassemble_notification
    <2> QED
      BY <2>1, <2>2, <2>3
         DEF Next, Kernel, PeerShutdown, PeerAbort, driver_event, vars, kernel
  <1> QED
    BY <1>1, <1>2

\* The comment above reassemble_notification is right when the socket is
\* unshared: the loop reads on from the head of the queue until MSG_EOR and
\* never meets an empty queue or user data.
THEOREM ReassemblyNeverBlocks ==
    ASSUME Unshared
    PROVE  Spec => []ReassemblyCannotBlock
  <1>1. ReassemblyInvariant => ReassemblyCannotBlock
    BY DEF ReassemblyInvariant, ReassemblyCannotBlock
  <1> QED
    BY <1>1, ReassemblyInductive, TypeCorrect, PTL DEF Spec

-----------------------------------------------------------------------------
(* The receive path implements the abstract queue.                         *)

\* What reassembly has collected when the last chunk arrives.
LEMMA LastChunk ==
    ASSUME TypeOK, ReassemblyInvariant, NEW r \in Readers, reassemble_last(r)
    PROVE  /\ HeadIsNotif /\ head' = head + 1 /\ taken' = 0
           /\ UNCHANGED <<msgs, eof, alive>>
           /\ pc' = [pc EXCEPT ![r] = "idle"]
           /\ \A q \in Readers : q = r
           /\ \/ /\ msgs[head].len > MaxNotification
                 /\ log' = Append(log, GotDiscarded)
              \/ log' = Append(log, GotNotification(
                                Bytes(head, 0, msgs[head].len)))
  <1> DEFINE n == Copied(Scratch)
  <1>1. /\ HeadIsNotif /\ Queued /\ Consume(n) /\ Eor(n) /\ n = Left /\ n \in Nat
        /\ msgs[head] \in Message /\ pc[r] = "reassemble"
    BY CopiedType DEF reassemble_last, HeadIsNotif, Eor
  <1>2. /\ Len(out[r]) <= taken
        /\ ~over[r] => out[r] = Bytes(head, 0, taken)
        /\ over[r] => msgs[head].len > MaxNotification
        /\ \A q \in Readers : q = r
    BY <1>1 DEF ReassemblyInvariant
  <1>3. msgs[head].len \in Nat
    BY <1>1 DEF Message
  <1>4. taken \in Nat /\ Len(out[r]) \in Nat
    BY DEF TypeOK
  <1>5. taken + n = msgs[head].len
    BY <1>1, <1>3, <1>4 DEF Left
  <1>6. CASE Oversized(r, n)
    <2>1. msgs[head].len > MaxNotification
      BY <1>1, <1>2, <1>3, <1>4, <1>5, <1>6 DEF Oversized
    <2>2. /\ log' = Append(log, GotDiscarded)
          /\ pc' = [pc EXCEPT ![r] = "idle"]
      BY <1>6 DEF reassemble_last, try_io_done, Return
    <2> QED
      BY <1>1, <1>2, <2>1, <2>2 DEF Consume
  <1>7. CASE ~Oversized(r, n)
    <2>1. ~over[r] /\ Len(out[r]) + n <= MaxNotification
      <3>1. ~over[r] /\ ~(Len(out[r]) + n > MaxNotification)
        BY <1>7 DEF Oversized
      <3> QED
        BY <3>1, <1>1, <1>4
    <2>2. Extended(r, n) = Bytes(head, 0, taken + n)
      BY <2>1, <1>1, <1>2, ExtendedBytes
    <2>3. /\ log' = Append(log, GotNotification(Extended(r, n)))
          /\ pc' = [pc EXCEPT ![r] = "idle"]
      BY <1>7 DEF reassemble_last, try_io_done, Return
    <2>4. log' = Append(log, GotNotification(Bytes(head, 0, msgs[head].len)))
      BY <2>2, <2>3, <1>5
    <2> QED
      BY <1>1, <1>2, <2>3, <2>4 DEF Consume
  <1> QED
    BY <1>6, <1>7

\* Every step of the receive path is a step of the queue or leaves it alone.
LEMMA StepRefines ==
    ASSUME Unshared, TypeOK, ReassemblyInvariant, ReassemblyInvariant',
           [Next]_vars
    PROVE  [Queue!Next]_(Queue!vars)
  <1> DEFINE T == IF Reassembling THEN 0 ELSE taken
  <1>1. ASSUME NEW msg \in Message, Arrive(msg)
        PROVE  Queue!Arrive(msg)
    <2>1. Reassembling' <=> Reassembling
      BY <1>1 DEF Arrive, reader, Reassembling
    <2> QED
      BY <1>1, <2>1 DEF Arrive, Queue!Arrive
  <1>2. CASE PeerShutdown \/ PeerAbort
    <2>1. Reassembling' <=> Reassembling
      BY <1>2 DEF PeerShutdown, PeerAbort, reader, Reassembling
    <2>2. Queue!Close
      BY <1>2, <2>1 DEF PeerShutdown, PeerAbort, Queue!Close
    <2> QED
      BY <2>2 DEF Queue!Next
  <1>3. ASSUME UNCHANGED <<msgs, head, eof, alive, log>>, T' = T
        PROVE  UNCHANGED Queue!vars
    BY <1>3 DEF Queue!vars
  <1>4. CASE driver_event \/ UNCHANGED vars
    <2>1. UNCHANGED <<msgs, head, taken, eof, alive, log, pc>>
      BY <1>4 DEF driver_event, vars, kernel, reader
    <2>2. Reassembling' <=> Reassembling
      BY <2>1 DEF Reassembling
    <2> QED
      BY <1>3, <2>1, <2>2
  <1>5. ASSUME NEW r \in Readers, read_op(r) \/ cancel(r)
        PROVE  [Queue!Next]_(Queue!vars)
    <2>0. /\ pc \in [Readers -> {"idle", "readable", "recvmsg", "reassemble",
                                "clear"}]
          /\ cap \in [Readers -> Nat]
          /\ head \in Nat /\ taken \in Nat
      BY DEF TypeOK
    <2>1. pc[r] = "recvmsg" => ~Reassembling
      BY DEF ReassemblyInvariant, Reassembling
    <2>2. CASE recv_msg_call(r) \/ readable(r) \/ clear_ready(r) \/ cancel(r)
               \/ recv_msg_empty(r)
      <3>1. UNCHANGED <<msgs, head, taken, eof, alive, log>>
        BY <2>2 DEF recv_msg_call, readable, clear_ready, cancel, kernel,
                    recv_msg_empty, recv_empty
      <3>2. /\ pc[r] # "reassemble" /\ pc'[r] # "reassemble"
            /\ \A q \in Readers \ {r} : pc'[q] = pc[q]
        BY <2>2, <2>0 DEF recv_msg_call, readable, clear_ready, cancel, Return,
                    recv_msg_empty, recv_empty, would_block, try_io_done
      <3>3. Reassembling' <=> Reassembling
        BY <3>2 DEF Reassembling
      <3> QED
        BY <1>3, <3>1, <3>3
    <2>3. CASE recv_msg_data(r)
      <3> DEFINE n == Copied(cap[r])
      <3>1. /\ Queued /\ Consume(n) /\ n \in 0..Left /\ n \in Nat
            /\ Left \in Nat \ {0} /\ msgs[head] \in Message
            /\ msgs[head].kind = "data" /\ pc[r] = "recvmsg"
        <4>1. Queued /\ ~HeadIsNotif /\ Consume(n) /\ pc[r] = "recvmsg"
          BY <2>3 DEF recv_msg_data
        <4>2. n \in 0..Left /\ Left \in Nat \ {0} /\ msgs[head] \in Message
          BY <4>1, <2>0, CopiedType
        <4>3. msgs[head].kind = "data"
          BY <4>1, <4>2 DEF HeadIsNotif, Message
        <4> QED
          BY <4>1, <4>2, <4>3
      <3>2. /\ pc' = [pc EXCEPT ![r] = "idle"]
            /\ log' = IF n = 0 THEN log
                      ELSE Append(log, GotData(Bytes(head, taken, n), Eor(n)))
        BY <2>3 DEF recv_msg_data, try_io_done, Return
      <3>3. ~Reassembling /\ ~Reassembling'
        BY <3>1, <3>2, <2>0, <2>1 DEF Reassembling
      <3>4. Left = msgs[head].len - taken /\ msgs[head].len \in Nat
        BY <3>1 DEF Left, Message
      <3> HIDE DEF n
      <3>5. CASE n = 0
        <4>1. UNCHANGED <<msgs, head, taken, eof, alive, log>>
          BY <3>1, <3>2, <3>5, <2>0 DEF Consume
        <4> QED
          BY <1>3, <3>3, <4>1
      <3>6. CASE n # 0
        <4>1. n \in 1..msgs[head].len /\ n <= msgs[head].len - taken
          BY <3>1, <3>4, <3>6, <2>0
        <4>2. (n = Left) <=> (taken + n = msgs[head].len)
          BY <3>1, <3>4, <2>0
        <4>3. Queue!DeliverData(n)
          BY <3>1, <3>2, <3>3, <3>6, <4>1, <4>2
             DEF Queue!DeliverData, Consume, Eor, Queued, Queue!Bytes, Bytes,
                 Queue!GotData, GotData
        <4> QED
          BY <3>1, <4>1, <4>3 DEF Queue!Next, Queue!Deliver, Queued
      <3> QED
        BY <3>5, <3>6
    <2>4. CASE recv_msg_notification(r)
      <3> DEFINE n == Copied(cap[r])
      <3>1. /\ HeadIsNotif /\ Queued /\ Consume(n) /\ n = Left
            /\ msgs[head] \in Message /\ pc[r] = "recvmsg"
            /\ log' = Append(log, GotNotification(Bytes(head, taken, n)))
            /\ pc' = [pc EXCEPT ![r] = "idle"]
        BY <2>4, <2>0, CopiedType
           DEF recv_msg_notification, HeadIsNotif, Eor, try_io_done, Return
      <3>2. ~Reassembling /\ ~Reassembling'
        BY <3>1, <2>0, <2>1 DEF Reassembling
      <3>3. taken = 0
        BY <3>1, <3>2 DEF ReassemblyInvariant
      <3>4. msgs[head].len \in Nat
        BY <3>1 DEF Message
      <3>5. n = msgs[head].len
        BY <3>1, <3>3, <3>4 DEF Left
      <3>6. head' = head + 1 /\ taken' = 0 /\ UNCHANGED <<msgs, eof, alive>>
        BY <3>1 DEF Consume
      <3> HIDE DEF n
      <3>7. Queue!DeliverNotification
        BY <3>1, <3>2, <3>3, <3>5, <3>6
           DEF Queue!DeliverNotification, HeadIsNotif, Queued, Queue!Bytes,
               Bytes, Queue!GotNotification, GotNotification
      <3> QED
        BY <3>7 DEF Queue!Next, Queue!Deliver
    <2>5. CASE recv_msg_partial(r)
      <3>1. /\ HeadIsNotif /\ pc[r] = "recvmsg"
            /\ pc' = [pc EXCEPT ![r] = "reassemble"]
            /\ UNCHANGED <<msgs, eof, alive, log>>
            /\ Consume(Copied(cap[r])) /\ ~Eor(Copied(cap[r]))
        BY <2>5 DEF recv_msg_partial, Consume
      <3>2. ~Reassembling /\ Reassembling'
        BY <3>1, <2>0, <2>1 DEF Reassembling
      <3>3. taken = 0 /\ msgs[head].eor
        BY <3>1, <3>2, <2>0 DEF ReassemblyInvariant, HeadIsNotif, Queued, TypeOK
      <3>4. head' = head
        BY <3>1, <3>3 DEF Consume, Eor
      <3> QED
        BY <1>3, <3>1, <3>2, <3>3, <3>4
    <2>6. CASE reassemble_chunk(r)
      <3>1. /\ HeadIsNotif /\ pc[r] = "reassemble"
            /\ UNCHANGED <<msgs, eof, alive, log, pc>>
            /\ Consume(Copied(Scratch)) /\ ~Eor(Copied(Scratch))
        BY <2>6 DEF reassemble_chunk, Consume
      <3>2. Reassembling /\ Reassembling'
        BY <3>1 DEF Reassembling
      <3>3. msgs[head].eor
        BY <3>1, <2>0 DEF ReassemblyInvariant, HeadIsNotif, Queued, TypeOK
      <3>4. head' = head
        BY <3>1, <3>3 DEF Consume, Eor
      <3> QED
        BY <1>3, <3>1, <3>2, <3>4
    <2>7. CASE reassemble_last(r)
      <3>1. Reassembling /\ ~Reassembling'
        BY <2>7, <2>0, LastChunk DEF Reassembling, reassemble_last
      <3>2. Queue!DeliverNotification \/ Queue!DiscardNotification
        BY <2>7, <3>1, LastChunk
           DEF Queue!DeliverNotification, Queue!DiscardNotification, HeadIsNotif,
               Queued, Queue!Bytes, Bytes, Queue!GotNotification,
               GotNotification, Queue!GotDiscarded, GotDiscarded
      <3> QED
        BY <3>2 DEF Queue!Next, Queue!Deliver
    <2>8. CASE reassemble_desync(r) \/ reassemble_empty(r)
      BY <2>8 DEF reassemble_desync, reassemble_empty, recv_empty, HeadIsNotif,
                  ReassemblyInvariant
    <2> QED
      BY <1>5, <2>2, <2>3, <2>4, <2>5, <2>6, <2>7, <2>8
         DEF read_op, recv_msg, reassemble_notification
  <1> QED
    BY <1>1, <1>2, <1>4, <1>5
       DEF Next, Kernel, Queue!Next, Queue!Message, Message

\* The receive path implements the abstract queue: to its callers the several
\* system calls of a reassembly are one atomic receive, nothing is lost or
\* reordered, and only notifications above the cap are discarded.
THEOREM RecvImplementsQueue ==
    ASSUME Unshared
    PROVE  Spec => ImplementsQueue
  <1>1. Init => Queue!Init
    BY DEF Init, Queue!Init, Reassembling
  <1>2. TypeOK /\ ReassemblyInvariant /\ ReassemblyInvariant' /\ [Next]_vars
            => [Queue!Next]_(Queue!vars)
    BY StepRefines
  <1> QED
    BY <1>1, <1>2, ReassemblyInductive, TypeCorrect, PTL
       DEF Spec, ImplementsQueue, Queue!Spec

\* Every notification a caller ever gets is one whole notification of the
\* queue, whatever buffer it passed to recv_msg.
THEOREM NotificationsAreWhole ==
    ASSUME Unshared
    PROVE  Spec => []NotificationsWhole
  <1>1. Init => NotificationsWhole
    BY DEF Init, NotificationsWhole
  <1>2. TypeOK /\ NotificationsWhole /\ [Queue!Next]_(Queue!vars)
            => NotificationsWhole'
    <2> SUFFICES ASSUME TypeOK, NotificationsWhole, [Queue!Next]_(Queue!vars)
                 PROVE  NotificationsWhole'
      OBVIOUS
    <2>0. /\ msgs \in Seq(Message) /\ log \in Seq(Delivery)
          /\ Len(msgs) \in Nat /\ Len(log) \in Nat /\ head \in Nat \ {0}
      BY DEF TypeOK
    <2>1. ASSUME NEW msg, Queue!Arrive(msg)
          PROVE  NotificationsWhole'
      <3>1. /\ log' = log
            /\ Len(msgs') = Len(msgs) + 1
            /\ \A m \in 1..Len(msgs) : msgs'[m] = msgs[m]
        BY <2>0, <2>1 DEF Queue!Arrive
      <3> QED
        BY <2>0, <3>1 DEF NotificationsWhole
    <2>2. CASE Queue!Close \/ UNCHANGED Queue!vars
      <3>1. log' = log /\ msgs' = msgs
        BY <2>2 DEF Queue!Close, Queue!vars
      <3> QED
        BY <3>1 DEF NotificationsWhole
    <2>3. ASSUME NEW d, log' = Append(log, d), msgs' = msgs,
                 d.kind = "notif" =>
                    \E m \in 1..Len(msgs) : /\ msgs[m].kind = "notif"
                                            /\ d.bytes = Bytes(m, 0, msgs[m].len)
          PROVE  NotificationsWhole'
      <3>1. /\ Len(log') = Len(log) + 1
            /\ \A i \in 1..Len(log) : log'[i] = log[i]
            /\ log'[Len(log) + 1] = d
        BY <2>0, <2>3
      <3> QED
        BY <2>0, <2>3, <3>1 DEF NotificationsWhole
    <2>4. ASSUME NEW n, Queue!DeliverData(n)
          PROVE  NotificationsWhole'
      <3> DEFINE d == Queue!GotData(Queue!Bytes(head, IF Reassembling THEN 0 ELSE taken, n),
                        (IF Reassembling THEN 0 ELSE taken) + n = msgs[head].len
                            /\ msgs[head].eor)
      <3>1. log' = Append(log, d) /\ msgs' = msgs
        BY <2>4 DEF Queue!DeliverData
      <3>2. d.kind = "data"
        BY DEF Queue!GotData
      <3> HIDE DEF d
      <3> QED
        BY <2>3, <3>1, <3>2
    <2>5. CASE Queue!DeliverNotification
      <3> DEFINE d == Queue!GotNotification(Queue!Bytes(head, 0, msgs[head].len))
      <3>1. /\ log' = Append(log, d) /\ msgs' = msgs
            /\ head \in 1..Len(msgs) /\ msgs[head].kind = "notif"
        BY <2>0, <2>5 DEF Queue!DeliverNotification
      <3>2. d.bytes = Bytes(head, 0, msgs[head].len)
        BY DEF Queue!GotNotification, Queue!Bytes, Bytes
      <3> HIDE DEF d
      <3> QED
        BY <2>3, <3>1, <3>2
    <2>6. CASE Queue!DiscardNotification
      <3>1. log' = Append(log, Queue!GotDiscarded) /\ msgs' = msgs
        BY <2>6 DEF Queue!DiscardNotification
      <3>2. Queue!GotDiscarded.kind # "notif"
        BY DEF Queue!GotDiscarded
      <3> QED
        BY <2>3, <3>1, <3>2
    <2> QED
      BY <2>1, <2>2, <2>4, <2>5, <2>6 DEF Queue!Next, Queue!Deliver
  <1>3. TypeOK /\ ReassemblyInvariant /\ ReassemblyInvariant' /\ [Next]_vars
            => [Queue!Next]_(Queue!vars)
    BY StepRefines
  <1> QED
    BY <1>1, <1>2, <1>3, ReassemblyInductive, TypeCorrect, PTL DEF Spec

-----------------------------------------------------------------------------
(* The end of the association, for any number of readers.                  *)

\* Len 0 without SCTP_RCVINFO is returned only when nothing is left: a call
\* with an empty buffer, or one that finds a notification, never reads as the
\* end, and nothing of the peer's data arrives afterwards.
THEOREM EofMeansEnd == Spec => []EofIsFinal
  <1>1. Init => EofIsFinal
    BY DEF Init, EofIsFinal
  <1>2. TypeOK /\ EofIsFinal /\ [Next]_vars => EofIsFinal'
    <2> SUFFICES ASSUME TypeOK, EofIsFinal, [Next]_vars
                 PROVE  EofIsFinal'
      OBVIOUS
    <2>0. /\ msgs \in Seq(Message) /\ Len(msgs) \in Nat /\ head \in Nat \ {0}
          /\ ret \in [Readers -> Results]
      BY DEF TypeOK
    <2>1. ASSUME NEW msg \in Message, Arrive(msg)
          PROVE  EofIsFinal'
      <3>1. /\ Len(msgs') = Len(msgs) + 1
            /\ \A i \in 1..Len(msgs) : msgs'[i] = msgs[i]
            /\ msgs'[Len(msgs) + 1] = msg
            /\ UNCHANGED <<head, eof, ret>>
            /\ eof => msg.kind = "notif"
        BY <2>0, <2>1 DEF Arrive, reader, Message
      <3>2. ASSUME NEW r \in Readers, ret'[r] = "eof", NEW m \in head'..Len(msgs')
            PROVE  eof' /\ msgs'[m].kind = "notif"
        <4>1. CASE m = Len(msgs) + 1
          BY <2>0, <3>1, <3>2, <4>1 DEF EofIsFinal
        <4>2. CASE m # Len(msgs) + 1
          BY <2>0, <3>1, <3>2, <4>2 DEF EofIsFinal
        <4> QED
          BY <4>1, <4>2
      <3>3. \A r \in Readers : ret'[r] = "eof" => eof'
        BY <3>1 DEF EofIsFinal
      <3> QED
        BY <3>2, <3>3 DEF EofIsFinal
    <2>2. CASE PeerShutdown \/ PeerAbort
      <3>1. UNCHANGED <<msgs, head, ret>>
        BY <2>2 DEF PeerShutdown, PeerAbort, reader
      <3>2. eof => eof'
        BY <2>2, Zenon DEF PeerShutdown, PeerAbort
      <3> QED
        BY <3>1, <3>2 DEF EofIsFinal
    <2>3. ASSUME UNCHANGED <<msgs, eof>>, head' \in {head, head + 1},
                 \A r \in Readers : ret'[r] = "eof" =>
                        ret[r] = "eof" \/ (eof /\ ~Queued /\ head' = head)
          PROVE  EofIsFinal'
      BY <2>0, <2>3 DEF EofIsFinal, Queued
    <2>4. ASSUME NEW r \in Readers, read_op(r) \/ cancel(r)
          PROVE  EofIsFinal'
      <3>1. CASE recv_msg_call(r) \/ readable(r) \/ clear_ready(r)
        <4>1. UNCHANGED <<msgs, eof, head, ret>>
          BY <3>1 DEF recv_msg_call, readable, clear_ready, kernel
        <4> QED
          BY <2>3, <4>1
      <3>2. CASE cancel(r)
        <4>1. UNCHANGED <<msgs, eof, head>> /\ ret' = [ret EXCEPT ![r] = "none"]
          BY <3>2 DEF cancel, Return, kernel
        <4>2. \A q \in Readers : ret'[q] = "eof" => ret[q] = "eof"
          BY <2>0, <4>1
        <4> QED
          BY <2>3, <4>1, <4>2
      <3>3. CASE recv_empty(r)
        <4>1. ~Queued /\ UNCHANGED <<msgs, eof, head>>
          BY <3>3 DEF recv_empty, kernel
        <4>2. PICK result \in Results :
                  /\ ret' \in {ret, [ret EXCEPT ![r] = result]}
                  /\ result = "eof" => eof
          BY <3>3 DEF recv_empty, try_io_done, Return, would_block, DataResult, Results
        <4>3. \A q \in Readers : ret'[q] = "eof" => ret[q] = "eof" \/ eof
          BY <2>0, <4>2
        <4> QED
          BY <2>3, <4>1, <4>3
      <3>4. ASSUME NEW n, Consume(n), NEW result \in Results \ {"eof"},
                   ret' \in {ret, [ret EXCEPT ![r] = result]}
            PROVE  EofIsFinal'
        <4>1. \A q \in Readers : ret'[q] = "eof" => ret[q] = "eof"
          BY <2>0, <3>4
        <4>2. UNCHANGED <<msgs, eof>> /\ head' \in {head, head + 1}
          BY <3>4 DEF Consume
        <4> QED
          BY <2>3, <4>1, <4>2
      <3>5. CASE recv_msg_data(r)
        <4>1. Consume(Copied(cap[r])) /\ ret' = [ret EXCEPT ![r] = "ok"]
          BY <3>5 DEF recv_msg_data, try_io_done, Return, DataResult, enable_rcvinfo
        <4> QED
          BY <3>4, <4>1 DEF Results
      <3>6. CASE recv_msg_notification(r) \/ recv_msg_partial(r)
        BY <3>4, <3>6 DEF recv_msg_notification, recv_msg_partial, try_io_done, Return,
                          Results
      <3>7. CASE reassemble_chunk(r) \/ reassemble_last(r) \/ reassemble_desync(r)
        BY <3>4, <3>7 DEF reassemble_chunk, reassemble_last, reassemble_desync,
                          try_io_done, Return, Results
      <3> QED
        BY <2>4, <3>1, <3>2, <3>3, <3>5, <3>6, <3>7
           DEF read_op, recv_msg, reassemble_notification, recv_msg_empty,
               reassemble_empty
    <2>5. CASE driver_event \/ UNCHANGED vars
      BY <2>5 DEF driver_event, vars, kernel, reader, EofIsFinal
    <2> QED
      BY <2>1, <2>2, <2>4, <2>5 DEF Next, Kernel
  <1> QED
    BY <1>1, <1>2, TypeCorrect, PTL DEF Spec

-----------------------------------------------------------------------------
(* User data and notifications are never mixed, for any number of readers. *)

\* All these bytes come from messages of one kind.
Purely(kind, bytes) ==
    \A b \in 1..Len(bytes) :
        /\ bytes[b][1] \in 1..Len(msgs)
        /\ msgs[bytes[b][1]].kind = kind

\* Strengthening of NeverMixed: what reassemble_notification has collected so
\* far is pure as well, although other readers may have taken pieces between.
MixInvariant ==
    /\ \A i \in 1..Len(log) : Purely(log[i].kind, log[i].bytes)
    /\ \A r \in Readers : Purely("notif", out[r])

\* What one recvmsg copies belongs to the message at the head.
LEMMA BytesPure ==
    ASSUME TypeOK, Queued, NEW n \in Nat
    PROVE  Purely(msgs[head].kind, Bytes(head, taken, n))
  <1>1. head \in 1..Len(msgs) /\ head \in Nat /\ taken \in Nat
    BY DEF TypeOK, Queued
  <1>2. Len(Bytes(head, taken, n)) = n
    BY <1>1, BytesType
  <1>3. \A b \in 1..n : Bytes(head, taken, n)[b][1] = head
    BY DEF Bytes
  <1> QED
    BY <1>1, <1>2, <1>3 DEF Purely

\* A chunk of a notification joins other bytes of notifications.
LEMMA ExtendedPure ==
    ASSUME TypeOK, HeadIsNotif, NEW r \in Readers, Purely("notif", out[r]), NEW n \in Nat
    PROVE  Purely("notif", Extended(r, n))
  <1> DEFINE more == Bytes(head, taken, n)
  <1>0. head \in Nat /\ taken \in Nat
    BY DEF TypeOK
  <1>1. /\ more \in Seq(Nat \X Nat) /\ out[r] \in Seq(Nat \X Nat)
    BY <1>0, BytesType DEF TypeOK
  <1>2. Purely("notif", more)
    BY BytesPure DEF HeadIsNotif
  <1> HIDE DEF more
  <1>3. /\ Len(out[r] \o more) = Len(out[r]) + Len(more)
        /\ \A b \in 1..(Len(out[r]) + Len(more)) :
             (out[r] \o more)[b] = IF b <= Len(out[r]) THEN out[r][b] ELSE more[b - Len(out[r])]
    BY <1>1
  <1>4. Len(out[r]) \in Nat /\ Len(more) \in Nat
    BY <1>1
  <1>5. Purely("notif", out[r] \o more)
    BY <1>2, <1>3, <1>4 DEF Purely
  <1> QED
    BY <1>5 DEF Extended, more

\* Even when several readers tear a notification apart, no byte of user data is
\* parsed as part of one, and no byte of a notification is returned as data.
THEOREM StreamsNeverMix == Spec => []NeverMixed
  <1>1. Init => MixInvariant
    BY DEF Init, MixInvariant, Purely
  <1>2. TypeOK /\ MixInvariant /\ [Next]_vars => MixInvariant'
    <2> SUFFICES ASSUME TypeOK, MixInvariant, [Next]_vars
                 PROVE  MixInvariant'
      OBVIOUS
    <2>0. /\ msgs \in Seq(Message) /\ Len(msgs) \in Nat
          /\ log \in Seq(Delivery) /\ Len(log) \in Nat
          /\ out \in [Readers -> Seq(Nat \X Nat)] /\ cap \in [Readers -> Nat]
          /\ Scratch \in Nat
      BY DEF TypeOK
    <2>1. ASSUME NEW msg \in Message, Arrive(msg)
          PROVE  MixInvariant'
      <3>1. /\ Len(msgs') = Len(msgs) + 1
            /\ \A i \in 1..Len(msgs) : msgs'[i] = msgs[i]
            /\ UNCHANGED <<log, out>>
        BY <2>0, <2>1 DEF Arrive, reader
      <3>2. ASSUME NEW kind, NEW bytes, Purely(kind, bytes)
            PROVE  Purely(kind, bytes)'
        BY <2>0, <3>1, <3>2 DEF Purely
      <3>3. \A r \in Readers : Purely("notif", out[r])'
        BY <3>1, <3>2 DEF MixInvariant, Purely
      <3>4. \A i \in 1..Len(log) : Purely(log[i].kind, log[i].bytes)'
        BY <3>1, <3>2, SMTT(30) DEF MixInvariant, Purely
      <3> QED
        BY <3>1, <3>3, <3>4 DEF MixInvariant
    <2>2. ASSUME msgs' = msgs, UNCHANGED log,
                 \A r \in Readers : Purely("notif", out'[r])
          PROVE  MixInvariant'
      BY <2>2 DEF MixInvariant, Purely
    <2>3. ASSUME msgs' = msgs, NEW d, log' = Append(log, d), Purely(d.kind, d.bytes),
                 \A r \in Readers : Purely("notif", out'[r])
          PROVE  MixInvariant'
      <3>1. /\ Len(log') = Len(log) + 1
            /\ \A i \in 1..Len(log) : log'[i] = log[i]
            /\ log'[Len(log) + 1] = d
        BY <2>0, <2>3
      <3>2. \A i \in 1..Len(log') : Purely(log'[i].kind, log'[i].bytes)
        BY <2>0, <2>3, <3>1 DEF MixInvariant
      <3> QED
        BY <2>3, <3>2 DEF MixInvariant, Purely
    <2>4. ASSUME NEW r \in Readers, NEW result, Return(r, result)
          PROVE  \A q \in Readers : Purely("notif", out'[q])
      <3>1. Purely("notif", << >>)
        BY DEF Purely
      <3> QED
        BY <2>0, <2>4, <3>1 DEF Return, MixInvariant
    <2>5. ASSUME NEW r \in Readers, read_op(r) \/ cancel(r)
          PROVE  MixInvariant'
      <3>1. CASE recv_msg_call(r) \/ readable(r) \/ clear_ready(r)
        <4>1. UNCHANGED <<msgs, log, out>>
          BY <3>1 DEF recv_msg_call, readable, clear_ready, kernel
        <4> QED
          BY <2>2, <4>1 DEF MixInvariant
      <3>2. CASE cancel(r)
        BY <2>2, <2>4, <3>2 DEF cancel, kernel
      <3>3. CASE recv_empty(r)
        <4>1. msgs' = msgs /\ log' = log
          BY <3>3 DEF recv_empty, kernel
        <4>2. (\E result : Return(r, result)) \/ out' = [out EXCEPT ![r] = << >>]
          BY <3>3 DEF recv_empty, try_io_done, would_block
        <4>3. Purely("notif", << >>)
          BY DEF Purely
        <4>4. \A q \in Readers : Purely("notif", out'[q])
          BY <2>0, <2>4, <4>2, <4>3 DEF MixInvariant
        <4> QED
          BY <2>2, <4>1, <4>4
      <3>4. CASE recv_msg_data(r)
        <4> DEFINE n == Copied(cap[r])
                   d == GotData(Bytes(head, taken, n), Eor(n))
        <4>1. Queued /\ ~HeadIsNotif /\ Consume(n) /\ log' \in {log, Append(log, d)}
          BY <3>4 DEF recv_msg_data
        <4>2. n \in Nat /\ msgs[head] \in Message
          BY <2>0, <4>1, CopiedType
        <4>3. msgs[head].kind = "data"
          BY <4>1, <4>2 DEF HeadIsNotif, Message
        <4>4. d.kind = "data" /\ d.bytes = Bytes(head, taken, n)
          BY DEF GotData
        <4> HIDE DEF n, d
        <4>5. Purely(d.kind, d.bytes)
          BY <4>1, <4>2, <4>3, <4>4, BytesPure
        <4>6. \A q \in Readers : Purely("notif", out'[q])
          BY <2>4, <3>4 DEF recv_msg_data, try_io_done
        <4> QED
          BY <2>2, <2>3, <4>1, <4>5, <4>6 DEF Consume
      <3>5. CASE recv_msg_notification(r)
        <4> DEFINE n == Copied(cap[r])
                   d == GotNotification(Bytes(head, taken, n))
        <4>1. Queued /\ HeadIsNotif /\ Consume(n) /\ log' = Append(log, d)
          BY <3>5 DEF recv_msg_notification, HeadIsNotif
        <4>2. n \in Nat
          BY <2>0, <4>1, CopiedType
        <4>3. d.kind = "notif" /\ d.bytes = Bytes(head, taken, n)
          BY DEF GotNotification
        <4> HIDE DEF n, d
        <4>4. Purely(d.kind, d.bytes)
          BY <4>1, <4>2, <4>3, BytesPure DEF HeadIsNotif
        <4>5. \A q \in Readers : Purely("notif", out'[q])
          BY <2>4, <3>5 DEF recv_msg_notification, try_io_done
        <4> QED
          BY <2>3, <4>1, <4>4, <4>5 DEF Consume
      <3>6. CASE recv_msg_partial(r)
        <4> DEFINE n == Copied(cap[r])
        <4>1. /\ Queued /\ HeadIsNotif /\ Consume(n) /\ log' = log
              /\ out' = [out EXCEPT ![r] = Bytes(head, taken, n)]
          BY <3>6 DEF recv_msg_partial, HeadIsNotif
        <4>2. n \in Nat
          BY <2>0, <4>1, CopiedType
        <4> HIDE DEF n
        <4>3. Purely("notif", Bytes(head, taken, n))
          BY <4>1, <4>2, BytesPure DEF HeadIsNotif
        <4>4. \A q \in Readers : Purely("notif", out'[q])
          BY <2>0, <4>1, <4>3 DEF MixInvariant
        <4> QED
          BY <2>2, <4>1, <4>4 DEF Consume
      <3>7. CASE reassemble_chunk(r)
        <4> DEFINE n == Copied(Scratch)
        <4>1. /\ Queued /\ HeadIsNotif /\ Consume(n) /\ log' = log
              /\ out' = [out EXCEPT ![r] = Extended(r, n)]
          BY <3>7 DEF reassemble_chunk, HeadIsNotif
        <4>2. n \in Nat
          BY <2>0, <4>1, CopiedType
        <4> HIDE DEF n
        <4>3. Purely("notif", Extended(r, n))
          BY <4>1, <4>2, ExtendedPure DEF MixInvariant
        <4>4. \A q \in Readers : Purely("notif", out'[q])
          BY <2>0, <4>1, <4>3 DEF MixInvariant
        <4> QED
          BY <2>2, <4>1, <4>4 DEF Consume
      <3>8. CASE reassemble_last(r)
        <4> DEFINE n == Copied(Scratch)
                   d == GotNotification(Extended(r, n))
        <4>1. /\ Queued /\ HeadIsNotif /\ Consume(n)
              /\ log' \in {Append(log, d), Append(log, GotDiscarded)}
          BY <3>8 DEF reassemble_last, HeadIsNotif
        <4>2. n \in Nat
          BY <2>0, <4>1, CopiedType
        <4>3. d.kind = "notif" /\ d.bytes = Extended(r, n)
          BY DEF GotNotification
        <4> HIDE DEF n, d
        <4>4. Purely(d.kind, d.bytes)
          BY <4>1, <4>2, <4>3, ExtendedPure DEF MixInvariant
        <4>5. Purely(GotDiscarded.kind, GotDiscarded.bytes)
          BY DEF GotDiscarded, Purely
        <4>6. \A q \in Readers : Purely("notif", out'[q])
          BY <2>4, <3>8 DEF reassemble_last, try_io_done
        <4> QED
          BY <2>3, <4>1, <4>4, <4>5, <4>6 DEF Consume
      <3>9. CASE reassemble_desync(r)
        BY <2>2, <2>4, <3>9 DEF reassemble_desync, try_io_done, Consume
      <3> QED
        BY <2>5, <3>1, <3>2, <3>3, <3>4, <3>5, <3>6, <3>7, <3>8, <3>9
           DEF read_op, recv_msg, reassemble_notification, recv_msg_empty,
               reassemble_empty
    <2>6. CASE PeerShutdown \/ PeerAbort \/ driver_event \/ UNCHANGED vars
      <3>1. UNCHANGED <<msgs, log, out>>
        BY <2>6 DEF PeerShutdown, PeerAbort, driver_event, vars, kernel, reader
      <3> QED
        BY <2>2, <3>1 DEF MixInvariant
    <2> QED
      BY <2>1, <2>5, <2>6 DEF Next, Kernel
  <1>3. MixInvariant => NeverMixed
    BY DEF MixInvariant, NeverMixed, Purely
  <1> QED
    BY <1>1, <1>2, <1>3, TypeCorrect, PTL DEF Spec
-----------------------------------------------------------------------------
(* User data is not lost in silence.                                       *)

\* The bytes that one recvmsg takes off the queue.
LEMMA ConsumedBytes ==
    ASSUME TypeOK, Queued, NEW n \in 0..Left, Consume(n),
           NEW m \in 1..Len(msgs), NEW i \in 1..msgs[m].len,
           ~Passed(m, i), Passed(m, i)'
    PROVE  m = head /\ i - taken \in 1..n
  <1>1. /\ head \in Nat /\ taken \in Nat /\ head <= Len(msgs) /\ taken < msgs[head].len
        /\ Len(msgs) \in Nat
    BY DEF TypeOK, Queued
  <1>2. msgs[m].len \in Nat /\ msgs[head].len \in Nat
    <2>1. msgs[m] \in Message /\ msgs[head] \in Message
      BY <1>1 DEF TypeOK
    <2> QED
      BY <2>1 DEF Message
  <1>3. CASE n = Left
    <2>1. head' = head + 1 /\ taken' = 0
      BY <1>3 DEF Consume
    <2>2. m = head /\ i > taken
      BY <1>1, <1>2, <2>1 DEF Passed
    <2> QED
      BY <1>1, <1>2, <1>3, <2>2 DEF Left
  <1>4. CASE n # Left
    <2>1. head' = head /\ taken' = taken + n
      BY <1>4 DEF Consume
    <2>2. m = head /\ i > taken /\ i <= taken + n
      BY <1>1, <1>2, <2>1 DEF Passed
    <2> QED
      BY <1>1, <1>2, <2>2
  <1> QED
    BY <1>3, <1>4

LEMMA LossStep ==
    ASSUME TypeOK, TypeOK', Next, NEW m \in 1..Len(msgs), NEW i \in 1..msgs[m].len,
           msgs[m].kind = "data", ~Passed(m, i), Passed(m, i)'
    PROVE  \/ HandedOut(m, i)'
           \/ \E r \in Readers : /\ pc[r] = "reassemble" /\ pc'[r] = "idle"
                                 /\ ret'[r] = "desync"
  <1>1. ~UNCHANGED <<head, taken>>
    BY DEF Passed
  <1>2. PICK r \in Readers : read_op(r) \/ cancel(r)
    BY <1>1 DEF Next, Kernel, Arrive, PeerShutdown, PeerAbort, driver_event, kernel
  <1>3. ~(recv_msg_call(r) \/ readable(r) \/ clear_ready(r) \/ cancel(r))
    BY <1>1 DEF recv_msg_call, readable, clear_ready, cancel, kernel
  <1>4. ~recv_empty(r)
    BY <1>1 DEF recv_empty, kernel
  <1>5. ASSUME NEW room \in Nat, HeadIsNotif, Consume(Copied(room))
        PROVE  FALSE
    <2>1. Queued /\ Copied(room) \in 0..Left
      BY <1>5, CopiedType DEF HeadIsNotif
    <2>2. m = head
      BY <1>5, <2>1, ConsumedBytes
    <2> QED
      BY <1>5, <2>2 DEF HeadIsNotif
  <1>6. cap[r] \in Nat /\ Scratch \in Nat
    BY ScratchAssumption DEF TypeOK
  <1>7. ~(\/ recv_msg_notification(r) \/ recv_msg_partial(r)
          \/ reassemble_chunk(r) \/ reassemble_last(r))
    BY <1>5, <1>6 DEF recv_msg_notification, recv_msg_partial, reassemble_chunk,
                      reassemble_last
  <1>8. CASE reassemble_desync(r)
    <2>1. pc[r] = "reassemble" /\ pc' = [pc EXCEPT ![r] = "idle"]
          /\ ret' = [ret EXCEPT ![r] = "desync"]
      BY <1>8 DEF reassemble_desync, try_io_done, Return
    <2>2. pc'[r] = "idle" /\ ret'[r] = "desync"
      BY <2>1 DEF TypeOK
    <2> QED
      BY <2>1, <2>2, Zenon
  <1>9. CASE recv_msg_data(r)
    <2> DEFINE n == Copied(cap[r])
    <2>1. Queued /\ Consume(n) /\ n \in 0..Left /\ n \in Nat
      <3>1. Queued /\ Consume(n)
        BY <1>9 DEF recv_msg_data
      <3>2. n \in 0..Left /\ Left \in Nat
        BY <1>6, <3>1, CopiedType
      <3> QED
        BY <3>1, <3>2
    <2>2. log' = IF n = 0 THEN log
                 ELSE Append(log, GotData(Bytes(head, taken, n), Eor(n)))
      BY <1>9 DEF recv_msg_data
    <2> HIDE DEF n
    <2>3. m = head /\ i - taken \in 1..n
      BY <2>1, ConsumedBytes
    <2>4. log' = Append(log, GotData(Bytes(head, taken, n), Eor(n)))
      BY <2>1, <2>2, <2>3
    <2> DEFINE got == GotData(Bytes(head, taken, n), Eor(n))
               j == i - taken
    <2>5. got.kind = "data" /\ got.bytes = Bytes(head, taken, n)
      BY DEF GotData
    <2>6. Len(Bytes(head, taken, n)) = n /\ Bytes(head, taken, n)[j] = <<head, taken + j>>
      BY <2>1, <2>3 DEF Bytes
    <2>7. taken + j = i
      BY DEF TypeOK
    <2> HIDE DEF got, j
    <2>8. log \in Seq(Delivery) /\ log' = Append(log, got)
      BY <2>4 DEF TypeOK, got
    <2>9. Len(log') = Len(log) + 1 /\ log'[Len(log) + 1] = got /\ Len(log) \in Nat
      BY <2>8
    <2>10. Len(log) + 1 \in 1..Len(log')
      BY <2>9
    <2>11. j \in 1..Len(got.bytes) /\ got.bytes[j] = <<m, i>>
      BY <2>3, <2>5, <2>6, <2>7 DEF j
    <2> QED
      BY <2>5, <2>9, <2>10, <2>11 DEF HandedOut
  <1> QED
    BY <1>2, <1>3, <1>4, <1>7, <1>8, <1>9
       DEF read_op, recv_msg, reassemble_notification, recv_msg_empty, reassemble_empty

\* However many readers disturb each other's reassembly, whatever their buffers
\* and whichever calls are cancelled: the call that takes a byte of user data
\* off the queue returns it or fails with "reassembly desynchronized".
THEOREM LossIsAlwaysReported == Spec => LossIsReported
  <1>1. TypeOK /\ TypeOK' /\ [Next]_vars => [TakenIsReported]_vars
    <2> SUFFICES ASSUME TypeOK, TypeOK', Next PROVE TakenIsReported
      OBVIOUS
    <2> QED
      BY LossStep, Zenon DEF TakenIsReported
  <1> QED
    BY <1>1, TypeCorrect, PTL DEF Spec, LossIsReported
=============================================================================

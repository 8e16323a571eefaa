---------------------------- MODULE ConnectProofs ---------------------------
(***************************************************************************)
(* Theorems about Connect, for every bound on the messages queued, with    *)
(* and without lost notifications, and, except where stated, also for a    *)
(* socket whose earlier connect failed.                                    *)
(***************************************************************************)
EXTENDS Connect, TLAPS

USE MaxEventsAssumption, FlagsAssumption DEF MaxEventsAssumption, FlagsAssumption

-----------------------------------------------------------------------------
(* The inductive invariant.                                                *)

\* What may be queued before the outcome of the handshake.
Early == IF Reused THEN {"other", "cant_start"} ELSE {"other"}

\* m is in q, with nothing before it that could not precede the outcome.
Leads(q, m) ==
    \E k \in 1..Len(q) : q[k] = m /\ \A i \in 1..Len(q) : i < k => q[i] \in Early

Has(q, m) == \E i \in 1..Len(q) : q[i] = m

\* The kernel announces an association once, and only one that came up.
QueueInvariant ==
    /\ asoc \in {"none", "setup"} => /\ skerr = "none" /\ ~eof
                                     /\ \A i \in 1..Len(queue) : queue[i] \in Early
    /\ asoc \in {"up", "closing"} => skerr = "none"
    /\ Has(queue, "comm_up") => skerr \in {"none", "reset"}
    /\ \A i, j \in 1..Len(queue) : queue[i] = "comm_up" /\ queue[j] = "comm_up" => i = j

Before == {"build", "register", "connectx"}

\* How far the call has come.
PhaseInvariant ==
    /\ pc \in Before => asoc = "none" /\ (wants => sub)
    /\ pc \in {"register", "connectx"} => sub
    /\ pc \in {"established", "take_error"} => asoc # "none"
    /\ pc \in {"established", "unsubscribe"} => asub
    /\ pc \in {"unsubscribe", "stream"} =>
        /\ asoc \in {"up", "closing", "closed"}
        /\ skerr \in {"none", "reset"}
        /\ ~Has(queue, "comm_up") /\ ~Has(got, "comm_up")
    /\ pc # "stream" => got = << >>
    /\ pc \in {"failed", "cancelled"} => asoc \in {"none", "closed"}
    /\ pc # "failed" => lost = 0 /\ result \in {"none", "ok"}

\* While established reads, the outcome is ahead of it in the queue, unless
\* the kernel could not queue a notification.
OutcomeInvariant ==
    pc = "established" /\ ~dropped =>
        /\ asoc \in {"up", "closing"} => Leads(queue, "comm_up")
        /\ asoc = "closed" =>
            \/ Leads(queue, "comm_up")
            \/ Leads(queue, "cant_start") /\ skerr \in {"refused", "unreachable"}

SubInvariant ==
    /\ pc = "unsubscribe" => via = "builder" /\ ~wants
    /\ pc = "stream" /\ (via = "from_socket" \/ wants) => asub
    /\ pc = "stream" /\ via = "builder" /\ ~wants => ~asub \/ asoc = "closed"

\* Data that was read and thrown away failed the call; none was, if every
\* notification could be queued.
LostInvariant ==
    lost > 0 => /\ dropped /\ pc = "failed" /\ asoc = "closed"
                /\ result = "data_before_comm_up"

SetupInvariant ==
    TypeOK /\ QueueInvariant /\ PhaseInvariant /\ OutcomeInvariant /\ SubInvariant
    /\ LostInvariant

\* On a fresh socket a failure has a cause.
CauseInvariant ==
    /\ pc = "take_error" /\ ~dropped => skerr # "none" /\ asoc = "closed"
    /\ CauseReported

-----------------------------------------------------------------------------
(* Queues.                                                                 *)

LEMMA PostFacts ==
    ASSUME NEW q \in Seq(Queueable), NEW x \in Queueable
    PROVE  /\ q \o <<x>> \in Seq(Queueable)
           /\ Len(q \o <<x>>) = Len(q) + 1
           /\ (q \o <<x>>)[Len(q) + 1] = x
           /\ \A i \in 1..Len(q) : (q \o <<x>>)[i] = q[i]
           /\ q \o << >> = q
  OBVIOUS

LEMMA TailFacts ==
    ASSUME NEW q \in Seq(Queueable), q # << >>
    PROVE  /\ Tail(q) \in Seq(Queueable) /\ Len(Tail(q)) = Len(q) - 1
           /\ Head(q) = q[1] /\ Head(q) \in Queueable /\ Len(q) > 0
           /\ \A i \in 1..(Len(q) - 1) : Tail(q)[i] = q[i + 1]
  OBVIOUS

\* What is posted later does not get ahead.
LEMMA LeadsPost ==
    ASSUME NEW q \in Seq(Queueable), NEW x \in Queueable, NEW m
    PROVE  /\ Leads(q, m) => Leads(q \o <<x>>, m)
           /\ (\A i \in 1..Len(q) : q[i] \in Early) => Leads(q \o <<x>>, x)
           /\ Has(q \o <<x>>, m) => Has(q, m) \/ x = m
  <1> DEFINE r == q \o <<x>>
  <1>1. /\ Len(r) = Len(q) + 1 /\ r[Len(q) + 1] = x /\ Len(q) \in Nat
        /\ \A i \in 1..Len(q) : r[i] = q[i]
    BY PostFacts
  <1> HIDE DEF r
  <1>2. Leads(q, m) => Leads(r, m)
    <2> SUFFICES ASSUME Leads(q, m) PROVE Leads(r, m)
      OBVIOUS
    <2>1. PICK k \in 1..Len(q) : q[k] = m /\ \A i \in 1..Len(q) : i < k => q[i] \in Early
      BY DEF Leads
    <2>2. k \in 1..Len(r) /\ r[k] = m
      BY <1>1, <2>1
    <2>3. \A i \in 1..Len(r) : i < k => i \in 1..Len(q) /\ r[i] \in Early
      BY <1>1, <2>1
    <2> QED
      BY <2>2, <2>3 DEF Leads
  <1>3. (\A i \in 1..Len(q) : q[i] \in Early) => Leads(r, x)
    <2> SUFFICES ASSUME \A i \in 1..Len(q) : q[i] \in Early PROVE Leads(r, x)
      OBVIOUS
    <2>1. Len(q) + 1 \in 1..Len(r)
      BY <1>1
    <2>2. \A i \in 1..Len(r) : i < Len(q) + 1 => r[i] \in Early
      BY <1>1
    <2> QED
      BY <1>1, <2>1, <2>2 DEF Leads
  <1>4. Has(r, m) => Has(q, m) \/ x = m
    BY <1>1 DEF Has
  <1> QED
    BY <1>2, <1>3, <1>4 DEF r

\* Reading something that is not m brings m nearer.
LEMMA LeadsTail ==
    ASSUME NEW q \in Seq(Queueable), q # << >>, NEW m
    PROVE  /\ Leads(q, m) => Head(q) = m \/ (Head(q) \in Early /\ Leads(Tail(q), m))
           /\ Has(Tail(q), m) => Has(q, m)
  <1>1. /\ Len(Tail(q)) = Len(q) - 1 /\ Head(q) = q[1] /\ Len(q) \in Nat /\ Len(q) > 0
        /\ \A i \in 1..(Len(q) - 1) : Tail(q)[i] = q[i + 1]
    BY TailFacts
  <1>2. Leads(q, m) => Head(q) = m \/ (Head(q) \in Early /\ Leads(Tail(q), m))
    <2> SUFFICES ASSUME Leads(q, m), Head(q) # m
                 PROVE  Head(q) \in Early /\ Leads(Tail(q), m)
      OBVIOUS
    <2>1. PICK k \in 1..Len(q) : q[k] = m /\ \A i \in 1..Len(q) : i < k => q[i] \in Early
      BY DEF Leads
    <2>2. k > 1
      BY <1>1, <2>1
    <2>3. Head(q) \in Early
      BY <1>1, <2>1, <2>2
    <2>4. k - 1 \in 1..Len(Tail(q)) /\ Tail(q)[k - 1] = m
      BY <1>1, <2>1, <2>2
    <2>5. \A i \in 1..Len(Tail(q)) : i < k - 1 => Tail(q)[i] \in Early
      BY <1>1, <2>1
    <2> QED
      BY <2>3, <2>4, <2>5 DEF Leads
  <1>3. Has(Tail(q), m) => Has(q, m)
    <2> SUFFICES ASSUME NEW i \in 1..Len(Tail(q)), Tail(q)[i] = m
                 PROVE  Has(q, m)
      BY DEF Has
    <2>1. i + 1 \in 1..Len(q) /\ q[i + 1] = m
      BY <1>1
    <2> QED
      BY <2>1 DEF Has
  <1> QED
    BY <1>2, <1>3

\* What PostChange does to the queue.
LEMMA PostChangeFacts ==
    ASSUME TypeOK, NEW m \in Queueable, PostChange(m)
    PROVE  /\ queue' \in Seq(Queueable) /\ events' \in 0..MaxEvents /\ dropped' \in BOOLEAN
           /\ dropped => dropped'
           /\ \/ asub /\ queue' = queue \o <<m>>
              \/ queue' = queue /\ (dropped' \/ ~asub)
  <1>0. queue \in Seq(Queueable) /\ events \in 0..MaxEvents /\ dropped \in BOOLEAN
    BY DEF TypeOK
  <1>1. CASE asub /\ Post(<<m>>)
    <2>1. /\ queue' = queue \o <<m>> /\ dropped' = dropped
          /\ events' = events + Len(<<m>>) /\ events + Len(<<m>>) <= MaxEvents
      BY <1>1 DEF Post
    <2>2. events' \in 0..MaxEvents
      BY <1>0, <2>1
    <2> QED
      BY <1>0, <1>1, <2>1, <2>2, PostFacts
  <1>2. CASE ~asub /\ Post(<< >>)
    <2>1. /\ queue' = queue \o << >> /\ dropped' = dropped
          /\ events' = events + 0 /\ events + 0 <= MaxEvents
      BY <1>2 DEF Post
    <2>2. events' \in 0..MaxEvents
      BY <1>0, <2>1
    <2>3. queue' = queue
      BY <1>0, <2>1, PostFacts
    <2> QED
      BY <1>0, <1>2, <2>1, <2>2, <2>3
  <1>3. CASE dropped' = TRUE /\ UNCHANGED <<queue, events>>
    BY <1>0, <1>3
  <1> QED
    BY <1>1, <1>2, <1>3 DEF PostChange

-----------------------------------------------------------------------------
(* The steps of the kernel and the peer, by what they do to the queue and  *)
(* to the association.                                                     *)

Arrives(m) ==
    /\ queue' \in Seq(Queueable) /\ events' \in 0..MaxEvents /\ dropped' \in BOOLEAN
    /\ dropped => dropped'
    /\ \/ queue' = queue \o <<m>>
       \/ queue' = queue /\ (dropped' \/ ~asub \/ asoc = "up")

Environment(m) ==
    /\ UNCHANGED <<call, pc, result, got, lost, sub, asub>>
    /\ Arrives(m)
    /\ skerr' \in {"none", "refused", "unreachable", "reset"} /\ eof' \in BOOLEAN
    /\ \/ /\ asoc = "setup" /\ asoc' = "up" /\ m = "comm_up"
          /\ UNCHANGED <<skerr, eof>>
       \/ /\ asoc = "setup" /\ asoc' = "closed" /\ m = "cant_start"
          /\ skerr' \in {"refused", "unreachable"}
       \/ /\ asoc = "setup" /\ m = "other"
          /\ UNCHANGED <<asoc, skerr, eof>>
       \/ /\ asoc = "up" /\ asoc' \in {"up", "closing"} /\ m # "comm_up"
          /\ UNCHANGED skerr
       \/ /\ asoc = "up" /\ asoc' = "closed" /\ m # "comm_up"
          /\ skerr' = "reset"
       \/ /\ asoc = "closing" /\ asoc' = "closed" /\ m # "comm_up"
          /\ UNCHANGED skerr

LEMMA EnvironmentSteps ==
    ASSUME TypeOK, Handshake \/ Peer
    PROVE  \E m \in Queueable : Environment(m)
  <1>0. /\ queue \in Seq(Queueable) /\ events \in 0..MaxEvents /\ dropped \in BOOLEAN
        /\ skerr \in {"none", "refused", "unreachable", "reset"} /\ eof \in BOOLEAN
        /\ AssocChange \subseteq Queueable /\ {"other", "data"} \subseteq Queueable
    BY DEF TypeOK, Queueable
  <1>1. \A m \in Queueable : PostChange(m) => Arrives(m)
    BY PostChangeFacts DEF Arrives
  <1>2. ASSUME NEW m \in Queueable, Post(<<m>>)
        PROVE  Arrives(m)
    <2>1. /\ queue' = queue \o <<m>> /\ dropped' = dropped
          /\ events' = events + 1 /\ events + 1 <= MaxEvents
      BY <1>2 DEF Post
    <2>2. events' \in 0..MaxEvents
      BY <1>0, <2>1
    <2>3. queue' \in Seq(Queueable)
      BY <1>0, <2>1, PostFacts
    <2> QED
      BY <1>0, <2>1, <2>2, <2>3 DEF Arrives
  <1>3. CASE HandshakeDone
    <2>1. "comm_up" \in Queueable
      BY DEF Queueable, AssocChange
    <2> QED
      BY <1>0, <1>1, <1>3, <2>1 DEF HandshakeDone, Environment
  <1>4. CASE HandshakeFails
    <2>1. "cant_start" \in Queueable
      BY DEF Queueable, AssocChange
    <2> QED
      BY <1>0, <1>1, <1>4, <2>1 DEF HandshakeFails, Environment
  <1>5. CASE OtherNotification
    <2>1. "other" \in Queueable
      BY DEF Queueable, AssocChange
    <2> QED
      BY <1>0, <1>2, <1>5, <2>1 DEF OtherNotification, Environment
  <1>6. CASE PeerData
    <2>1. "data" \in Queueable
      BY DEF Queueable, AssocChange
    <2> QED
      BY <1>0, <1>2, <1>6, <2>1 DEF PeerData, Environment
  <1>7. CASE PeerRestart
    <2>1. "restart" \in Queueable
      BY DEF Queueable, AssocChange
    <2> QED
      BY <1>0, <1>1, <1>7, <2>1 DEF PeerRestart, Environment
  <1>8. CASE PeerShutdown
    <2>1. Arrives("other")
      BY <1>0, <1>8 DEF PeerShutdown, Arrives, backlog
    <2>2. Environment("other")
      BY <1>0, <1>8, <2>1 DEF PeerShutdown, Environment
    <2> QED
      BY <1>0, <2>2
  <1>9. CASE ShutdownCompletes
    <2>1. "shutdown_comp" \in Queueable
      BY DEF Queueable, AssocChange
    <2> QED
      BY <1>0, <1>1, <1>9, <2>1 DEF ShutdownCompletes, Environment
  <1>10. CASE PeerAbort
    <2>1. "comm_lost" \in Queueable
      BY DEF Queueable, AssocChange
    <2> QED
      BY <1>0, <1>1, <1>10, <2>1 DEF PeerAbort, Environment
  <1> QED
    BY <1>3, <1>4, <1>5, <1>6, <1>7, <1>8, <1>9, <1>10 DEF Handshake, Peer

LEMMA EnvironmentKeeps ==
    ASSUME SetupInvariant, NEW m \in Queueable, Environment(m)
    PROVE  SetupInvariant'
  <1> /\ TypeOK /\ QueueInvariant /\ PhaseInvariant /\ OutcomeInvariant /\ SubInvariant
      /\ LostInvariant
    BY DEF SetupInvariant
  <1>0. queue \in Seq(Queueable) /\ "other" \in Early
    BY DEF TypeOK, Early
  <1>1. UNCHANGED <<via, style, wants, others, pc, result, got, lost, sub, asub>>
    BY DEF Environment, call
  <1>2. asoc \in {"setup", "up", "closing"} /\ asoc' \in {"setup", "up", "closing", "closed"}
    BY DEF Environment
  <1>3. queue' = queue \o <<m>> \/ queue' = queue
    BY DEF Environment, Arrives
  <1>3a. Has(queue \o <<m>>, "comm_up") => Has(queue, "comm_up") \/ m = "comm_up"
    BY <1>0, LeadsPost
  <1>4. TypeOK'
    BY <1>1, <1>2 DEF TypeOK, Environment, Arrives
  <1>5. QueueInvariant'
    <2>1. asoc' \in {"none", "setup"} => /\ skerr' = "none" /\ ~eof'
                                         /\ \A i \in 1..Len(queue') : queue'[i] \in Early
      <3> SUFFICES ASSUME asoc' \in {"none", "setup"}
                   PROVE  /\ skerr' = "none" /\ ~eof'
                          /\ \A i \in 1..Len(queue') : queue'[i] \in Early
        OBVIOUS
      <3>1. asoc = "setup" /\ m = "other" /\ UNCHANGED <<skerr, eof>>
        BY DEF Environment
      <3>2. \A i \in 1..Len(queue) : queue[i] \in Early
        BY <3>1 DEF QueueInvariant
      <3>3. \A i \in 1..Len(queue') : queue'[i] \in Early
        BY <1>0, <1>3, <3>1, <3>2, PostFacts
      <3> QED
        BY <3>1, <3>3 DEF QueueInvariant
    <2>2. asoc' \in {"up", "closing"} => skerr' = "none"
      BY DEF QueueInvariant, Environment
    <2>3. asoc = "setup" => ~Has(queue, "comm_up")
      BY DEF QueueInvariant, Has, Early
    <2>4. Has(queue', "comm_up") => Has(queue, "comm_up") \/ m = "comm_up"
      BY <1>3, <1>3a
    <2>5. Has(queue', "comm_up") => skerr' \in {"none", "reset"}
      BY <2>3, <2>4 DEF QueueInvariant, Environment
    <2>6. \A i, j \in 1..Len(queue') : queue'[i] = "comm_up" /\ queue'[j] = "comm_up" => i = j
      <3>1. CASE queue' = queue
        BY <3>1 DEF QueueInvariant
      <3>2. CASE queue' = queue \o <<m>> /\ m # "comm_up"
        <4>1. /\ Len(queue') = Len(queue) + 1 /\ queue'[Len(queue) + 1] = m /\ Len(queue) \in Nat
              /\ \A i \in 1..Len(queue) : queue'[i] = queue[i]
          BY <1>0, <3>2, PostFacts
        <4>2. \A i \in 1..Len(queue') : queue'[i] = "comm_up" => i \in 1..Len(queue) /\ queue[i] = "comm_up"
          BY <3>2, <4>1
        <4> QED
          BY <4>2 DEF QueueInvariant
      <3>3. CASE queue' = queue \o <<m>> /\ m = "comm_up"
        <4>1. ~Has(queue, "comm_up")
          BY <2>3, <3>3 DEF Environment
        <4>2. /\ Len(queue') = Len(queue) + 1 /\ Len(queue) \in Nat
              /\ \A i \in 1..Len(queue) : queue'[i] # "comm_up"
          BY <1>0, <3>3, <4>1, PostFacts DEF Has
        <4> QED
          BY <4>2
      <3> QED
        BY <1>3, <3>1, <3>2, <3>3
    <2> QED
      BY <2>1, <2>2, <2>5, <2>6 DEF QueueInvariant
  <1>6. PhaseInvariant'
    <2>1. pc \in {"unsubscribe", "stream"} =>
            /\ asoc' \in {"up", "closing", "closed"}
            /\ skerr' \in {"none", "reset"}
            /\ ~Has(queue', "comm_up")
      <3> SUFFICES ASSUME pc \in {"unsubscribe", "stream"}
                   PROVE  /\ asoc' \in {"up", "closing", "closed"}
                          /\ skerr' \in {"none", "reset"}
                          /\ ~Has(queue', "comm_up")
        OBVIOUS
      <3>1. asoc # "setup" /\ skerr \in {"none", "reset"} /\ ~Has(queue, "comm_up")
        BY DEF PhaseInvariant
      <3>2. m # "comm_up"
        BY <3>1 DEF Environment
      <3>3. ~Has(queue', "comm_up")
        BY <1>3, <1>3a, <3>1, <3>2
      <3> QED
        BY <3>1, <3>3 DEF Environment
    <2>2. pc \notin Before /\ pc \notin {"failed", "cancelled"}
      BY <1>2 DEF PhaseInvariant
    <2> QED
      BY <1>1, <1>2, <2>1, <2>2 DEF PhaseInvariant, Before
  <1>7. OutcomeInvariant'
    <2> SUFFICES ASSUME pc = "established", ~dropped'
                 PROVE  /\ asoc' \in {"up", "closing"} => Leads(queue', "comm_up")
                        /\ asoc' = "closed" =>
                            \/ Leads(queue', "comm_up")
                            \/ Leads(queue', "cant_start") /\ skerr' \in {"refused", "unreachable"}
      BY <1>1 DEF OutcomeInvariant
    <2>1. ~dropped /\ asub
      BY DEF Environment, Arrives, PhaseInvariant, TypeOK
    <2>2. queue' = queue \o <<m>> \/ (queue' = queue /\ asoc = "up")
      BY <2>1 DEF Environment, Arrives
    <2>3. CASE asoc = "setup"
      <3>1. (\A i \in 1..Len(queue) : queue[i] \in Early) /\ queue' = queue \o <<m>>
        BY <2>2, <2>3 DEF QueueInvariant
      <3>2. Leads(queue', m)
        BY <1>0, <3>1, LeadsPost
      <3> QED
        BY <2>3, <3>2 DEF Environment
    <2>4. CASE asoc \in {"up", "closing"}
      <3>1. Leads(queue, "comm_up")
        BY <2>1, <2>4 DEF OutcomeInvariant
      <3>2. Leads(queue', "comm_up")
        BY <1>0, <1>3, <3>1, LeadsPost
      <3> QED
        BY <3>2
    <2> QED
      BY <1>2, <2>3, <2>4
  <1>8. SubInvariant'
    BY <1>1, <1>2 DEF SubInvariant, Environment
  <1>9. LostInvariant'
    BY <1>1, <1>2 DEF LostInvariant
  <1> QED
    BY <1>4, <1>5, <1>6, <1>7, <1>8, <1>9 DEF SetupInvariant

-----------------------------------------------------------------------------
(* The steps of the call and of its caller.                                *)

\* The socket is dropped with the call.
LEMMA DropKeeps ==
    ASSUME SetupInvariant, Drop, UNCHANGED <<call, got>>, pc # "stream",
           \/ /\ pc' = "failed" /\ result' \in Errors /\ lost' = lost /\ pc # "failed"
           \/ /\ pc' = "failed" /\ result' = "data_before_comm_up" /\ lost' = lost + 1
              /\ dropped /\ asoc # "none" /\ pc # "failed"
           \/ /\ pc' = "cancelled" /\ result' = result /\ lost' = lost /\ pc # "failed"
    PROVE  SetupInvariant'
  <1> /\ TypeOK /\ QueueInvariant /\ PhaseInvariant /\ SubInvariant /\ LostInvariant
    BY DEF SetupInvariant
  <1>1. /\ queue' = << >> /\ skerr' = "none"
        /\ asoc' = IF asoc = "none" THEN "none" ELSE "closed"
        /\ UNCHANGED <<via, style, wants, others, got, sub, asub, eof, events, dropped>>
    BY DEF Drop, call, backlog
  <1>2. lost = 0 /\ got = << >>
    BY DEF PhaseInvariant
  <1>3. Len(queue') = 0 /\ ~Has(queue', "comm_up") /\ queue' \in Seq(Queueable)
    BY <1>1 DEF Has
  <1>4. TypeOK'
    BY <1>1, <1>2, <1>3 DEF TypeOK, Errors
  <1>5. QueueInvariant'
    <2>1. asoc' \in {"none", "setup"} => ~eof'
      BY <1>1 DEF QueueInvariant
    <2> QED
      BY <1>1, <1>3, <2>1 DEF QueueInvariant
  <1>6. PhaseInvariant'
    BY <1>1, <1>2 DEF PhaseInvariant, Before, TypeOK
  <1>7. OutcomeInvariant' /\ SubInvariant'
    BY DEF OutcomeInvariant, SubInvariant
  <1>8. LostInvariant'
    BY <1>1, <1>2 DEF LostInvariant
  <1> QED
    BY <1>4, <1>5, <1>6, <1>7, <1>8 DEF SetupInvariant

\* Before the association exists.
LEMMA BuildKeeps ==
    ASSUME SetupInvariant,
           \/ subscribe_events \/ connectx_subscribe \/ connectx_subscribe_error
           \/ connectx_wrong_style \/ register \/ connectx
    PROVE  SetupInvariant'
  <1> /\ TypeOK /\ QueueInvariant /\ PhaseInvariant /\ OutcomeInvariant /\ SubInvariant
      /\ LostInvariant
    BY DEF SetupInvariant
  <1>0. /\ pc \in Before /\ asoc = "none" /\ got = << >> /\ lost = 0 /\ (wants => sub)
        /\ result \in {"none", "ok"}
    BY DEF subscribe_events, connectx_subscribe, connectx_subscribe_error,
           connectx_wrong_style, register, connectx, PhaseInvariant, Before
  <1>1. CASE \/ connectx_wrong_style \/ connectx_subscribe_error
             \/ register /\ Drop /\ Fail("os_error")
             \/ connectx /\ \E e \in {"invalid_input", "os_error"} : Fail(e) /\ Drop
    <2>1. /\ pc' = "failed" /\ result' \in Errors /\ UNCHANGED <<call, got, lost>> /\ Drop
      BY <1>1 DEF connectx_wrong_style, connectx_subscribe_error, register, connectx, Fail, Errors
    <2> QED
      BY <1>0, <2>1, DropKeeps DEF Before
  <1>2. CASE subscribe_events
    <2>1. PICK assoc_change \in BOOLEAN, other \in BOOLEAN :
            /\ wants' = (wants \/ assoc_change)
            /\ sub' = (sub \/ assoc_change)
            /\ others' = (others \/ other)
      BY <1>2 DEF subscribe_events
    <2>2. /\ pc = "build"
          /\ UNCHANGED <<via, style, pc, result, got, lost, asub, asoc, queue, skerr,
                         eof, events, dropped>>
      BY <1>2 DEF subscribe_events, backlog
    <2>3. wants \in BOOLEAN /\ sub \in BOOLEAN /\ others \in BOOLEAN
      BY DEF TypeOK
    <2>4. wants' \in BOOLEAN /\ sub' \in BOOLEAN /\ others' \in BOOLEAN /\ (wants' => sub')
      BY <1>0, <2>1, <2>3
    <2>5. TypeOK'
      BY <2>2, <2>4 DEF TypeOK
    <2>6. QueueInvariant' /\ OutcomeInvariant' /\ LostInvariant'
      BY <2>2 DEF QueueInvariant, OutcomeInvariant, LostInvariant
    <2>7. PhaseInvariant' /\ SubInvariant'
      BY <2>2, <2>4 DEF PhaseInvariant, SubInvariant, Before
    <2> QED
      BY <2>5, <2>6, <2>7 DEF SetupInvariant
  <1>3. CASE connectx_subscribe
    <2>1. /\ pc = "build" /\ pc' = "register"
          /\ sub' = IF via = "builder" /\ wants THEN sub ELSE TRUE
          /\ UNCHANGED <<via, style, wants, others, result, got, lost, asub, asoc, queue, skerr,
                         eof, events, dropped>>
      BY <1>3 DEF connectx_subscribe, backlog, call
    <2>2. sub' = TRUE
      BY <1>0, <2>1 DEF TypeOK
    <2>2a. /\ UNCHANGED <<via, style, wants, others, result, got, lost, asub, asoc, queue,
                          skerr, eof, events, dropped>>
           /\ pc' = "register" /\ sub' \in BOOLEAN
      BY <2>1, <2>2
    <2>3. TypeOK'
      BY <2>2a DEF TypeOK
    <2>4. QueueInvariant' /\ OutcomeInvariant' /\ LostInvariant' /\ SubInvariant'
      BY <2>1 DEF QueueInvariant, OutcomeInvariant, LostInvariant, SubInvariant
    <2>5. PhaseInvariant'
      BY <1>0, <2>1, <2>2 DEF PhaseInvariant, Before
    <2> QED
      BY <2>3, <2>4, <2>5 DEF SetupInvariant
  <1>4. CASE register /\ pc' = "connectx" /\ UNCHANGED <<call, result, got, lost, kernel>>
    <2>1. /\ pc = "register" /\ pc' = "connectx"
          /\ UNCHANGED <<via, style, wants, others, result, got, lost, sub, asub, asoc, queue,
                         skerr, eof, events, dropped>>
      BY <1>4 DEF register, call, kernel, backlog
    <2>2. TypeOK'
      BY <2>1 DEF TypeOK
    <2>3. QueueInvariant' /\ OutcomeInvariant' /\ LostInvariant' /\ SubInvariant'
      BY <2>1 DEF QueueInvariant, OutcomeInvariant, LostInvariant, SubInvariant
    <2>4. PhaseInvariant'
      BY <1>0, <2>1 DEF PhaseInvariant, Before
    <2> QED
      BY <2>2, <2>3, <2>4 DEF SetupInvariant
  <1>5. CASE /\ pc = "connectx"
             /\ asoc' = "setup"
             /\ asub' = sub
             /\ skerr' = "none"
             /\ pc' = "established"
             /\ UNCHANGED <<call, result, got, lost, sub, queue, eof, backlog>>
    <2>1. UNCHANGED <<via, style, wants, others, result, got, lost, sub, queue, eof,
                      events, dropped>>
      BY <1>5 DEF call, backlog
    <2>2. sub = TRUE
      BY <1>5 DEF PhaseInvariant, TypeOK
    <2>3. TypeOK'
      BY <1>5, <2>1, <2>2 DEF TypeOK
    <2>4. QueueInvariant'
      BY <1>0, <1>5, <2>1 DEF QueueInvariant
    <2>5. OutcomeInvariant' /\ LostInvariant' /\ SubInvariant'
      BY <1>0, <1>5, <2>1 DEF OutcomeInvariant, LostInvariant, SubInvariant, TypeOK
    <2>6. PhaseInvariant'
      BY <1>0, <1>5, <2>1, <2>2 DEF PhaseInvariant, Before
    <2> QED
      BY <2>3, <2>4, <2>5, <2>6 DEF SetupInvariant
  <1>6. CASE connectx
    BY <1>1, <1>5, <1>6 DEF connectx
  <1>7. CASE register
    BY <1>1, <1>4, <1>7 DEF register
  <1> QED
    BY <1>1, <1>2, <1>3, <1>6, <1>7

\* Reading the queue keeps what is said about it.
LEMMA TailKeeps ==
    ASSUME TypeOK, QueueInvariant, queue # << >>, queue' = Tail(queue),
           UNCHANGED <<asoc, skerr, eof>>
    PROVE  QueueInvariant'
  <1>1. queue \in Seq(Queueable)
    BY DEF TypeOK
  <1>2. /\ Len(queue') = Len(queue) - 1 /\ Len(queue) \in Nat /\ Len(queue) > 0
        /\ \A i \in 1..Len(queue') : i + 1 \in 1..Len(queue) /\ queue'[i] = queue[i + 1]
    BY <1>1, TailFacts
  <1>3. asoc \in {"none", "setup"} => \A i \in 1..Len(queue') : queue'[i] \in Early
    BY <1>2 DEF QueueInvariant
  <1>4. Has(Tail(queue), "comm_up") => Has(queue, "comm_up")
    BY <1>1, LeadsTail
  <1>5. \A i, j \in 1..Len(queue') : queue'[i] = "comm_up" /\ queue'[j] = "comm_up" => i = j
    <2> SUFFICES ASSUME NEW i \in 1..Len(queue'), NEW j \in 1..Len(queue'),
                        queue'[i] = "comm_up", queue'[j] = "comm_up"
                 PROVE  i = j
      OBVIOUS
    <2>1. i + 1 = j + 1
      BY <1>2 DEF QueueInvariant
    <2> QED
      BY <1>2, <2>1
  <1> QED
    BY <1>3, <1>4, <1>5 DEF QueueInvariant

\* established reads a message.
LEMMA EstablishedKeeps ==
    ASSUME SetupInvariant, established_message
    PROVE  SetupInvariant'
  <1> /\ TypeOK /\ QueueInvariant /\ PhaseInvariant /\ OutcomeInvariant /\ SubInvariant
      /\ LostInvariant
    BY DEF SetupInvariant
  <1>0. /\ pc = "established" /\ queue # << >> /\ queue \in Seq(Queueable)
        /\ asoc # "none" /\ asub /\ got = << >> /\ lost = 0 /\ result \in {"none", "ok"}
    BY DEF established_message, TypeOK, PhaseInvariant
  <1>1. /\ Tail(queue) \in Seq(Queueable) /\ Len(queue) \in Nat /\ Len(queue) > 0
        /\ Head(queue) = queue[1] /\ Len(Tail(queue)) = Len(queue) - 1
        /\ \A i \in 1..(Len(queue) - 1) : Tail(queue)[i] = queue[i + 1]
    BY <1>0, TailFacts
  <1>2. 1 \in 1..Len(queue)
    BY <1>1
  <1>3. /\ Leads(queue, "comm_up") =>
             Head(queue) = "comm_up" \/ (Head(queue) \in Early /\ Leads(Tail(queue), "comm_up"))
        /\ Leads(queue, "cant_start") =>
             Head(queue) = "cant_start"
             \/ (Head(queue) \in Early /\ Leads(Tail(queue), "cant_start"))
    BY <1>0, LeadsTail
  <1>4. CASE /\ Head(queue) = "comm_up"
             /\ pc' = AfterCommUp
             /\ result' = IF pc' = "stream" THEN "ok" ELSE "none"
             /\ queue' = Tail(queue)
             /\ UNCHANGED <<call, got, lost, sub, asub, asoc, skerr, eof, backlog>>
    <2>1. /\ UNCHANGED <<via, style, wants, others, got, lost, sub, asub, asoc, skerr, eof,
                         events, dropped>>
          /\ queue' = Tail(queue)
      BY <1>4 DEF call, backlog
    <2>2. /\ pc' \in {"unsubscribe", "stream"} /\ result' \in {"none", "ok"}
          /\ pc' = "unsubscribe" => via = "builder" /\ ~wants
          /\ pc' = "stream" => ~(via = "builder" /\ ~wants)
      BY <1>4 DEF AfterCommUp
    <2>3. asoc \in {"up", "closing", "closed"} /\ skerr \in {"none", "reset"}
      <3>1. Has(queue, "comm_up") /\ "comm_up" \notin Early
        BY <1>1, <1>2, <1>4 DEF Has, Early
      <3>2. asoc # "setup"
        BY <1>1, <1>2, <1>4, <3>1 DEF QueueInvariant
      <3> QED
        BY <1>0, <3>1, <3>2 DEF QueueInvariant, TypeOK
    <2>4. ~Has(queue', "comm_up")
      <3> SUFFICES ASSUME NEW i \in 1..Len(Tail(queue)), Tail(queue)[i] = "comm_up"
                   PROVE  FALSE
        BY <2>1 DEF Has
      <3>1. i + 1 \in 1..Len(queue) /\ queue[i + 1] = "comm_up" /\ i + 1 # 1
        BY <1>1
      <3> QED
        BY <1>1, <1>2, <1>4, <3>1 DEF QueueInvariant
    <2>5. TypeOK'
      BY <1>1, <2>1, <2>2 DEF TypeOK
    <2>6. QueueInvariant'
      BY <1>0, <2>1, TailKeeps
    <2>7. PhaseInvariant'
      <3>1. ~Has(got', "comm_up")
        BY <1>0, <2>1 DEF Has
      <3> QED
        BY <1>0, <2>1, <2>2, <2>3, <2>4, <3>1 DEF PhaseInvariant, Before
    <2>8. OutcomeInvariant' /\ LostInvariant'
      BY <1>0, <2>1, <2>2 DEF OutcomeInvariant, LostInvariant
    <2>9. SubInvariant'
      BY <1>0, <2>1, <2>2 DEF SubInvariant, TypeOK
    <2> QED
      BY <2>5, <2>6, <2>7, <2>8, <2>9 DEF SetupInvariant
  <1>5. CASE /\ Head(queue) \in {"comm_lost", "cant_start"}
             /\ pc' = "take_error"
             /\ queue' = Tail(queue)
             /\ UNCHANGED <<call, result, got, lost, sub, asub, asoc, skerr, eof, backlog>>
    <2>1. /\ UNCHANGED <<via, style, wants, others, result, got, lost, sub, asub, asoc, skerr,
                         eof, events, dropped>>
          /\ queue' = Tail(queue) /\ pc' = "take_error"
      BY <1>5 DEF call, backlog
    <2>2. TypeOK'
      BY <1>1, <2>1 DEF TypeOK
    <2>3. QueueInvariant'
      BY <1>0, <2>1, TailKeeps
    <2>4. PhaseInvariant' /\ OutcomeInvariant' /\ SubInvariant' /\ LostInvariant'
      BY <1>0, <2>1 DEF PhaseInvariant, OutcomeInvariant, SubInvariant, LostInvariant, Before
    <2> QED
      BY <2>2, <2>3, <2>4 DEF SetupInvariant
  <1>6. CASE /\ Head(queue) \in {"restart", "shutdown_comp", "other"}
             /\ queue' = Tail(queue)
             /\ UNCHANGED <<call, pc, result, got, lost, sub, asub, asoc, skerr, eof, backlog>>
    <2>1. /\ UNCHANGED <<via, style, wants, others, pc, result, got, lost, sub, asub, asoc,
                         skerr, eof, events, dropped>>
          /\ queue' = Tail(queue)
      BY <1>6 DEF call, backlog
    <2>2. TypeOK'
      BY <1>1, <2>1 DEF TypeOK
    <2>3. QueueInvariant'
      BY <1>0, <2>1, TailKeeps
    <2>4. OutcomeInvariant'
      BY <1>3, <1>6, <2>1 DEF OutcomeInvariant
    <2>5. PhaseInvariant' /\ SubInvariant' /\ LostInvariant'
      BY <1>0, <2>1 DEF PhaseInvariant, SubInvariant, LostInvariant, Before
    <2> QED
      BY <2>2, <2>3, <2>4, <2>5 DEF SetupInvariant
  <1>7. CASE /\ Head(queue) = "data"
             /\ lost' = lost + 1
             /\ pc' = "failed"
             /\ result' = "data_before_comm_up"
             /\ UNCHANGED <<call, got>>
             /\ Drop
    <2>1. Head(queue) \notin Early
      BY <1>7 DEF Early
    <2>2. asoc # "setup"
      BY <1>1, <1>2, <2>1 DEF QueueInvariant
    <2>3. dropped
      BY <1>0, <1>3, <1>7, <2>1, <2>2 DEF OutcomeInvariant, TypeOK
    <2> QED
      BY <1>0, <1>7, <2>3, DropKeeps
  <1> QED
    BY <1>4, <1>5, <1>6, <1>7 DEF established_message

\* The call ends otherwise, or the caller reads the stream.
LEMMA CallerKeeps ==
    ASSUME SetupInvariant,
           \/ established_closed \/ take_error \/ cancel \/ unsubscribe
           \/ recv_msg \/ recv_msg_error
    PROVE  SetupInvariant'
  <1> /\ TypeOK /\ QueueInvariant /\ PhaseInvariant /\ OutcomeInvariant /\ SubInvariant
      /\ LostInvariant
    BY DEF SetupInvariant
  <1>0. skerr \in Errors \/ skerr = "none"
    BY DEF TypeOK, Errors
  <1>1. CASE established_closed \/ take_error \/ (unsubscribe /\ Fail("os_error") /\ Drop)
    <2>1. pc' = "failed" /\ result' \in Errors /\ UNCHANGED <<call, got, lost>> /\ Drop
      BY <1>0, <1>1 DEF established_closed, take_error, Fail, Errors
    <2>2. pc \in {"established", "take_error", "unsubscribe"}
      BY <1>1 DEF established_closed, take_error, unsubscribe
    <2> QED
      BY <2>1, <2>2, DropKeeps
  <1>2. CASE cancel
    BY <1>2, DropKeeps DEF cancel
  <1>3. CASE /\ pc = "unsubscribe"
             /\ asub' = IF asoc = "closed" THEN asub ELSE FALSE
             /\ sub' = IF asoc = "closed" THEN FALSE ELSE sub
             /\ pc' = "stream"
             /\ result' = "ok"
             /\ UNCHANGED <<call, got, lost, asoc, queue, skerr, eof, backlog>>
    <2>1. /\ UNCHANGED <<via, style, wants, others, got, lost, asoc, queue, skerr, eof,
                         events, dropped>>
          /\ pc = "unsubscribe" /\ pc' = "stream" /\ result' = "ok"
      BY <1>3 DEF call, backlog
    <2>2. asub' \in BOOLEAN /\ sub' \in BOOLEAN /\ (asoc # "closed" => ~asub')
      BY <1>3 DEF TypeOK
    <2>3. TypeOK'
      BY <2>1, <2>2 DEF TypeOK
    <2>4. QueueInvariant' /\ OutcomeInvariant' /\ LostInvariant'
      BY <2>1 DEF QueueInvariant, OutcomeInvariant, LostInvariant
    <2>5. PhaseInvariant'
      BY <2>1 DEF PhaseInvariant, Before, Has
    <2>6. SubInvariant'
      BY <2>1, <2>2 DEF SubInvariant, TypeOK
    <2> QED
      BY <2>3, <2>4, <2>5, <2>6 DEF SetupInvariant
  <1>4. CASE recv_msg
    <2>1. /\ UNCHANGED <<via, style, wants, others, pc, result, lost, sub, asub, asoc, skerr,
                         eof, events, dropped>>
          /\ pc = "stream" /\ queue # << >> /\ queue' = Tail(queue)
          /\ got' = Append(got, Head(queue))
      BY <1>4 DEF recv_msg, call, backlog
    <2>2. queue \in Seq(Queueable) /\ got \in Seq(Queueable)
      BY DEF TypeOK
    <2>3. Tail(queue) \in Seq(Queueable) /\ Head(queue) \in Queueable /\ Head(queue) = queue[1]
          /\ Len(queue) > 0 /\ Len(queue) \in Nat
      BY <2>1, <2>2, TailFacts
    <2>4. /\ got' \in Seq(Queueable) /\ Len(got') = Len(got) + 1 /\ Len(got) \in Nat
          /\ got'[Len(got) + 1] = Head(queue) /\ \A i \in 1..Len(got) : got'[i] = got[i]
      BY <2>1, <2>2, <2>3
    <2>5. ~Has(queue, "comm_up") /\ ~Has(got, "comm_up")
      BY <2>1 DEF PhaseInvariant
    <2>6. ~Has(got', "comm_up")
      <3>1. Head(queue) # "comm_up"
        BY <2>3, <2>5 DEF Has
      <3> QED
        BY <2>4, <2>5, <3>1 DEF Has
    <2>7. ~Has(queue', "comm_up")
      BY <2>1, <2>2, <2>5, LeadsTail
    <2>8. TypeOK'
      BY <2>1, <2>3, <2>4 DEF TypeOK
    <2>9. QueueInvariant'
      BY <2>1, TailKeeps
    <2>10. PhaseInvariant'
      BY <2>1, <2>6, <2>7 DEF PhaseInvariant, Before
    <2>11. OutcomeInvariant' /\ SubInvariant' /\ LostInvariant'
      BY <2>1 DEF OutcomeInvariant, SubInvariant, LostInvariant
    <2> QED
      BY <2>8, <2>9, <2>10, <2>11 DEF SetupInvariant
  <1>5. CASE recv_msg_error
    <2>1. /\ UNCHANGED <<via, style, wants, others, pc, result, got, lost, sub, asub, asoc,
                         queue, eof, events, dropped>>
          /\ pc = "stream" /\ skerr' = "none"
      BY <1>5 DEF recv_msg_error, call, backlog
    <2>2. TypeOK'
      BY <2>1 DEF TypeOK
    <2>3. QueueInvariant'
      BY <2>1 DEF QueueInvariant, Has
    <2>4. PhaseInvariant'
      BY <2>1 DEF PhaseInvariant, Before, Has
    <2>5. OutcomeInvariant' /\ SubInvariant' /\ LostInvariant'
      BY <2>1 DEF OutcomeInvariant, SubInvariant, LostInvariant
    <2> QED
      BY <2>2, <2>3, <2>4, <2>5 DEF SetupInvariant
  <1>6. CASE unsubscribe
    BY <1>1, <1>3, <1>6 DEF unsubscribe
  <1> QED
    BY <1>1, <1>2, <1>4, <1>5, <1>6

-----------------------------------------------------------------------------
(* The theorems.                                                           *)

LEMMA SetupInit == Init => SetupInvariant
  <1> SUFFICES ASSUME Init PROVE SetupInvariant
    OBVIOUS
  <1>1. /\ pc = "build" /\ result = "none" /\ got = << >> /\ lost = 0 /\ asub = FALSE
        /\ asoc = "none" /\ skerr = "none" /\ eof = FALSE /\ dropped = FALSE /\ others = FALSE
        /\ via \in {"builder", "from_socket"} /\ style \in {"OneToOne", "OneToMany"}
    BY DEF Init
  <1>2. /\ wants \in BOOLEAN /\ sub \in BOOLEAN /\ (wants => sub) /\ events \in 0..MaxEvents
        /\ queue = << >> \/ (Reused /\ queue = <<"cant_start">>)
    <2>0. 0 \in 0..MaxEvents /\ 1 \in 0..MaxEvents
      OBVIOUS
    <2>1. CASE wants = FALSE /\ sub = FALSE /\ queue = << >> /\ events = 0
      BY <2>0, <2>1, Zenon
    <2>2. CASE wants = TRUE /\ sub = TRUE /\ Reused /\ queue = <<"cant_start">> /\ events = 1
      BY <2>0, <2>2, Zenon
    <2> QED
      BY <2>1, <2>2 DEF Init
  <1>3. /\ queue \in Seq(Queueable)
        /\ \A i \in 1..Len(queue) : queue[i] \in Early
    <2>1. "cant_start" \in Queueable
      BY DEF Queueable, AssocChange
    <2>2. CASE queue = << >>
      BY <2>2
    <2>3. CASE Reused /\ queue = <<"cant_start">>
      <3>1. queue \in Seq(Queueable) /\ Len(queue) = 1 /\ queue[1] = "cant_start"
        BY <2>1, <2>3
      <3> QED
        BY <2>3, <3>1 DEF Early
    <2> QED
      BY <1>2, <2>2, <2>3
  <1>4. TypeOK
    <2>1. got \in Seq(Queueable) /\ lost \in Nat
      BY <1>1
    <2>2. asub \in BOOLEAN /\ eof \in BOOLEAN /\ dropped \in BOOLEAN /\ others \in BOOLEAN
      BY <1>1
    <2> QED
      BY <1>1, <1>2, <1>3, <2>1, <2>2 DEF TypeOK
  <1>5. "comm_up" \notin Early
    BY DEF Early
  <1>6. QueueInvariant
    BY <1>1, <1>3, <1>5 DEF QueueInvariant, Has
  <1>7. PhaseInvariant /\ OutcomeInvariant /\ SubInvariant /\ LostInvariant
    BY <1>1, <1>2 DEF PhaseInvariant, OutcomeInvariant, SubInvariant, LostInvariant, Before
  <1> QED
    BY <1>4, <1>6, <1>7 DEF SetupInvariant

LEMMA SetupStep == SetupInvariant /\ [Next]_vars => SetupInvariant'
  <1> SUFFICES ASSUME SetupInvariant, [Next]_vars PROVE SetupInvariant'
    OBVIOUS
  <1>1. CASE Handshake \/ Peer
    BY <1>1, EnvironmentSteps, EnvironmentKeeps DEF SetupInvariant
  <1>2. CASE subscribe_events
    BY <1>2, BuildKeeps
  <1>3. CASE Caller
    BY <1>3, BuildKeeps, EstablishedKeeps, CallerKeeps DEF Caller
  <1>4. CASE cancel
    BY <1>4, CallerKeeps
  <1>5. CASE UNCHANGED vars
    BY <1>5 DEF vars, call, kernel, backlog, SetupInvariant, TypeOK, QueueInvariant,
                PhaseInvariant, OutcomeInvariant, SubInvariant, LostInvariant, Has, Leads
  <1> QED
    BY <1>1, <1>2, <1>3, <1>4, <1>5 DEF Next

\* The state of a connect call, the socket and the association it makes
\* agree at every step, and the message that tells the outcome is ahead of
\* established (net/common.rs) in the queue.
THEOREM SetupIsKept == Spec => []SetupInvariant
  BY SetupInit, SetupStep, PTL DEF Spec

\* StreamBuilder::connectx and connectx_from_socket hand out a stream only
\* for an association that came up, and the CommUp never reaches the caller,
\* also on a socket with an earlier failure unread and when notifications
\* are lost.
THEOREM StreamsAreEstablished == Spec => []OkMeansEstablished
  <1>1. SetupInvariant => OkMeansEstablished
    <2> SUFFICES ASSUME SetupInvariant PROVE OkMeansEstablished
      OBVIOUS
    <2>1. PhaseInvariant
      BY DEF SetupInvariant
    <2>2. \A i \in 1..Len(got) : got[i] # "comm_up"
      <3>1. CASE pc = "stream"
        BY <2>1, <3>1 DEF PhaseInvariant, Has
      <3>2. CASE pc # "stream"
        <4>1. got = << >>
          BY <2>1, <3>2 DEF PhaseInvariant
        <4> QED
          BY <4>1
      <3> QED
        BY <3>1, <3>2
    <2> QED
      BY <2>1, <2>2 DEF OkMeansEstablished, PhaseInvariant
  <1> QED
    BY <1>1, SetupIsKept, PTL

\* established throws user data away only after the kernel failed to queue a
\* notification.
THEOREM DataNotSwallowed == Spec => []NoDataSwallowed
  <1>1. SetupInvariant => NoDataSwallowed
    BY DEF SetupInvariant, LostInvariant, NoDataSwallowed, TypeOK
  <1> QED
    BY <1>1, SetupIsKept, PTL

\* When established does throw user data away, the connect has failed with
\* its own error and the association is gone.
THEOREM LossIsReported == Spec => []NoSilentLoss
  <1>1. SetupInvariant => NoSilentLoss
    BY DEF SetupInvariant, LostInvariant, NoSilentLoss
  <1> QED
    BY <1>1, SetupIsKept, PTL

\* StreamBuilder::connectx takes back the AssocChange subscription exactly
\* when its caller did not make it; connectx_from_socket keeps it.
THEOREM SubscriptionIsRestored == Spec => []SubscriptionRestored
  <1>1. SetupInvariant => SubscriptionRestored
    <2> SUFFICES ASSUME SetupInvariant, pc = "stream", asoc \in {"up", "closing"}
                 PROVE  asub <=> (wants \/ via = "from_socket")
      BY DEF SubscriptionRestored
    <2>1. via \in {"builder", "from_socket"} /\ wants \in BOOLEAN /\ asub \in BOOLEAN
      BY DEF SetupInvariant, TypeOK
    <2>2. /\ (via = "from_socket" \/ wants) => asub
          /\ (via = "builder" /\ ~wants) => ~asub
      BY DEF SetupInvariant, SubInvariant
    <2> QED
      BY <2>1, <2>2
  <1> QED
    BY <1>1, SetupIsKept, PTL

\* A fresh socket.
LEMMA CauseStep ==
    ASSUME ~Reused, SetupInvariant, CauseInvariant, [Next]_vars
    PROVE  CauseInvariant'
  <1> /\ TypeOK /\ QueueInvariant /\ PhaseInvariant /\ OutcomeInvariant
    BY DEF SetupInvariant
  <1>0. Early = {"other"} /\ asoc \in {"none", "setup", "up", "closing", "closed"}
        /\ dropped \in BOOLEAN /\ queue \in Seq(Queueable)
    BY DEF Early, TypeOK
  <1>1. CASE Handshake \/ Peer
    <2>1. PICK m \in Queueable : Environment(m)
      BY <1>1, EnvironmentSteps
    <2>2. /\ asoc # "closed" /\ UNCHANGED <<pc, result>>
          /\ dropped' \in BOOLEAN /\ (dropped => dropped')
      BY <2>1 DEF Environment, Arrives
    <2> QED
      BY <1>0, <2>2 DEF CauseInvariant, CauseReported
  <1>2. CASE subscribe_events \/ recv_msg \/ recv_msg_error
    BY <1>2 DEF subscribe_events, recv_msg, recv_msg_error, CauseInvariant, CauseReported,
                backlog
  <1>3. CASE \/ connectx_subscribe \/ connectx_subscribe_error \/ connectx_wrong_style
             \/ register \/ connectx \/ unsubscribe
    <2>1. /\ pc \in Before \cup {"unsubscribe"} /\ pc' # "take_error"
          /\ result' \in {result, "invalid_input", "os_error", "ok"}
      BY <1>3 DEF connectx_subscribe, connectx_subscribe_error, connectx_wrong_style, register,
                  connectx, unsubscribe, Fail, Before
    <2>2. result \in {"none", "ok"}
      BY <2>1 DEF PhaseInvariant, Before
    <2> QED
      BY <2>1, <2>2 DEF CauseInvariant, CauseReported
  <1>4. CASE established_message
    <2>1. pc = "established" /\ queue # << >> /\ result \in {"none", "ok"}
      BY <1>4 DEF established_message, PhaseInvariant
    <2>2. /\ dropped' = dropped
          /\ result' \in {"none", "ok", "data_before_comm_up"}
          /\ pc' = "take_error" => /\ Head(queue) \in {"comm_lost", "cant_start"}
                                   /\ UNCHANGED <<asoc, skerr>>
      BY <1>4, <2>1 DEF established_message, AfterCommUp, backlog, Drop
    <2>3. Head(queue) = queue[1] /\ 1 \in 1..Len(queue)
      BY <1>0, <2>1, TailFacts
    <2>4. Head(queue) \notin Early => asoc \notin {"none", "setup"}
      BY <2>3 DEF QueueInvariant
    <2>5. Leads(queue, "comm_up") => Head(queue) = "comm_up" \/ Head(queue) \in Early
      BY <1>0, <2>1, LeadsTail
    <2>6. pc' = "take_error" /\ ~dropped => asoc = "closed" /\ skerr # "none"
      BY <1>0, <2>1, <2>2, <2>4, <2>5 DEF OutcomeInvariant
    <2> QED
      BY <2>2, <2>6 DEF CauseInvariant, CauseReported
  <1>5. CASE established_closed
    <2>1. pc = "established" /\ queue = << >> /\ Readable /\ pc' = "failed"
          /\ result' = (IF skerr # "none" THEN skerr ELSE "closed_during_setup")
          /\ dropped' = dropped
      BY <1>5 DEF established_closed, Fail, Drop, backlog
    <2>2. ~Leads(queue, "comm_up") /\ ~Leads(queue, "cant_start")
      BY <2>1 DEF Leads
    <2>3. ~dropped => asoc \in {"none", "setup"}
      BY <1>0, <2>1, <2>2 DEF OutcomeInvariant
    <2>4. ~dropped => skerr # "none"
      BY <2>1, <2>3 DEF QueueInvariant, Readable
    <2>5. skerr \notin {"could_not_establish", "closed_during_setup"}
      BY DEF TypeOK
    <2> QED
      BY <2>1, <2>4, <2>5 DEF CauseInvariant, CauseReported
  <1>6. CASE take_error
    <2>1. pc = "take_error" /\ pc' = "failed" /\ dropped' = dropped
          /\ result' = (IF skerr # "none" THEN skerr ELSE "could_not_establish")
      BY <1>6 DEF take_error, Fail, Drop, backlog
    <2>2. skerr \notin {"could_not_establish", "closed_during_setup"}
      BY DEF TypeOK
    <2> QED
      BY <2>1, <2>2 DEF CauseInvariant, CauseReported
  <1>7. CASE cancel
    BY <1>7 DEF cancel, Drop, backlog, CauseInvariant, CauseReported
  <1>8. CASE UNCHANGED vars
    BY <1>8 DEF vars, kernel, backlog, CauseInvariant, CauseReported
  <1> QED
    BY <1>1, <1>2, <1>3, <1>4, <1>5, <1>6, <1>7, <1>8 DEF Next, Caller

\* On a socket that no earlier connect has used, and if no notification was
\* lost, established reports the kernel's own error for a failed handshake,
\* never a generic one.
THEOREM CauseIsReported ==
    ASSUME ~Reused
    PROVE  Spec => []CauseReported
  <1>1. Init => CauseInvariant
    BY DEF Init, CauseInvariant, CauseReported
  <1>2. SetupInvariant /\ CauseInvariant /\ [Next]_vars => CauseInvariant'
    BY CauseStep
  <1>3. CauseInvariant => CauseReported
    BY DEF CauseInvariant
  <1> QED
    BY <1>1, <1>2, <1>3, SetupIsKept, PTL DEF Spec
=============================================================================

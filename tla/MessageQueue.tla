---------------------------- MODULE MessageQueue ----------------------------
(***************************************************************************)
(* What SctpStream::recv_msg promises its single reader: messages come out *)
(* of the socket in queue order, user data possibly in pieces, and every   *)
(* notification in ONE step, whole, or, when it is larger than the cap,    *)
(* dropped whole and reported. RecvPath, where a notification that does    *)
(* not fit the caller's buffer is read by several system calls, implements *)
(* this specification.                                                     *)
(***************************************************************************)
EXTENDS Messages

VARIABLES
    msgs,   \* every message that ever entered the queue, in order
    head,   \* index of the first message not yet handed out completely
    taken,  \* bytes of msgs[head] already handed out
    open,   \* user data may still arrive
    log     \* what the receive calls handed out, in order

vars == <<msgs, head, taken, open, log>>

Init ==
    /\ msgs = << >>
    /\ head = 1
    /\ taken = 0
    /\ open = TRUE
    /\ log = << >>

Arrive(msg) ==
    /\ Len(msgs) < MaxMsgs
    /\ msg.kind = "notif" => msg.eor
    /\ msg.kind = "data" => open
    /\ msgs' = Append(msgs, msg)
    /\ UNCHANGED <<head, taken, open, log>>

Close ==
    /\ open' = FALSE
    /\ UNCHANGED <<msgs, head, taken, log>>

\* n more bytes of the user message at the head; MSG_EOR only with the last.
DeliverData(n) ==
    /\ head <= Len(msgs)
    /\ msgs[head].kind = "data"
    /\ n <= msgs[head].len - taken
    /\ LET last == taken + n = msgs[head].len
       IN  /\ head' = IF last THEN head + 1 ELSE head
           /\ taken' = IF last THEN 0 ELSE taken + n
           /\ log' = Append(log, GotData(Bytes(head, taken, n),
                                         last /\ msgs[head].eor))
    /\ UNCHANGED <<msgs, open>>

DeliverNotification ==
    /\ head <= Len(msgs)
    /\ msgs[head].kind = "notif"
    /\ taken = 0
    /\ head' = head + 1
    /\ log' = Append(log, GotNotification(Bytes(head, 0, msgs[head].len)))
    /\ UNCHANGED <<msgs, taken, open>>

DiscardNotification ==
    /\ head <= Len(msgs)
    /\ msgs[head].kind = "notif"
    /\ msgs[head].len > MaxNotification
    /\ taken = 0
    /\ head' = head + 1
    /\ log' = Append(log, GotDiscarded)
    /\ UNCHANGED <<msgs, taken, open>>

Deliver ==
    \/ head <= Len(msgs) /\ \E n \in 1..msgs[head].len : DeliverData(n)
    \/ DeliverNotification
    \/ DiscardNotification

Next ==
    \/ \E msg \in Message : Arrive(msg)
    \/ Close
    \/ Deliver

Spec == Init /\ [][Next]_vars
=============================================================================

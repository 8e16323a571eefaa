------------------------------ MODULE Messages ------------------------------
(***************************************************************************)
(* What travels through a socket's receive queue, shared by the receive    *)
(* path (RecvPath) and by the abstract queue it implements (MessageQueue). *)
(* A message is abstracted to its kind and its length; a byte of a payload *)
(* is the pair <<index of its message, offset>>, so that a receiver's      *)
(* buffer tells exactly which bytes of which message it holds.             *)
(***************************************************************************)
EXTENDS Naturals, Sequences

CONSTANTS
    Lens,            \* the message lengths that may arrive, in bytes
    MaxNotification, \* cap of reassemble_notification (1 MiB in the code)
    MaxMsgs          \* bound: messages that arrive in a behaviour

\* Neither DATA chunks nor notifications are ever empty.
ASSUME LensAssumption == Lens \subseteq Nat \ {0}
ASSUME MaxNotificationAssumption == MaxNotification \in Nat
ASSUME MaxMsgsAssumption == MaxMsgs \in Nat

\* MSG_NOTIFICATION marks notifications. `eor' is MSG_EOR at the end of the
\* queued buffer: always set for a notification, clear for a piece of a user
\* message that is delivered before its last fragment has arrived.
Message == [kind : {"data", "notif"}, len : Lens, eor : BOOLEAN]

\* The n bytes of message m that follow its first `from' bytes.
Bytes(m, from, n) == [i \in 1..n |-> <<m, from + i>>]

\* What a receive call hands to its caller (RecvMsg in types.rs). A
\* discarded notification is reported as an error and carries no bytes.
GotData(bytes, eor) == [kind |-> "data", bytes |-> bytes, eor |-> eor]
GotNotification(bytes) == [kind |-> "notif", bytes |-> bytes, eor |-> TRUE]
GotDiscarded == [kind |-> "discarded", bytes |-> << >>, eor |-> TRUE]

Delivery == [kind : {"data", "notif", "discarded"},
             bytes : Seq(Nat \X Nat), eor : BOOLEAN]
=============================================================================

-------------------------------- MODULE Cmsg --------------------------------
(***************************************************************************)
(* cmsg.rs and its uses in send_msg and recv_msg (imp/kernel.rs): the      *)
(* control messages that carry SendInfo to the kernel and RcvInfo back.    *)
(* P is the pointer width, 4 or 8.                                         *)
(***************************************************************************)
EXTENDS Notification

IPPROTO_SCTP == 132
SCTP_CMSG_SNDRCV == 1
SCTP_CMSG_SNDINFO == 2
SCTP_CMSG_RCVINFO == 3
SCTP_CMSG_NXTINFO == 4

align(n, P) == RoundUp(n, P)

HDR_LEN(P) == align(P + 4 + 4, P)

space(data_len, P) == HDR_LEN(P) + align(data_len, P)

cmsg_len(data_len, P) == HDR_LEN(P) + data_len

write(level, ty, data, P) ==
    Field(cmsg_len(Len(data), P), P) \o Field(level, 4) \o Field(ty, 4)
        \o Zeros(HDR_LEN(P) - P - 8) \o data
        \o Zeros(space(Len(data), P) - cmsg_len(Len(data), P))

\* Mutant: the next message is looked for right behind the payload.
advance_unaligned(len, rest, P) == len

\* Where the next message begins, never past the end.
advance(len, rest, P) == IF align(len, P) < rest THEN align(len, P) ELSE rest

\* Iter::next: whether there is a message, one whose header is not cut and says
\* a length that can be; the message, and what is left of the buffer behind it.
has_next(buf, P) ==
    LET len == Value(Slice(buf, 0, P))
    IN  Len(buf) >= HDR_LEN(P) /\ len >= HDR_LEN(P) /\ len <= Len(buf)
next(buf, P) ==
    LET len == Value(Slice(buf, 0, P))
    IN  [level |-> Value(Slice(buf, P, P + 4)),
         ty |-> Value(Slice(buf, P + 4, P + 8)),
         data |-> Slice(buf, HDR_LEN(P), len),
         rest |-> Slice(buf, advance(len, Len(buf), P), Len(buf))]

-----------------------------------------------------------------------------
(* The structures as sys.rs declares them, #[repr(C)].                     *)

sctp_sndinfo ==
    <<Member("snd_sid", 2), Member("snd_flags", 2), Member("snd_ppid", 4), Member("snd_context", 4),
      Member("snd_assoc_id", 4)>>

sctp_rcvinfo ==
    <<Member("rcv_sid", 2), Member("rcv_ssn", 2), Member("rcv_flags", 2), Member("rcv_ppid", 4),
      Member("rcv_tsn", 4), Member("rcv_cumtsn", 4), Member("rcv_context", 4),
      Member("rcv_assoc_id", 4)>>

\* A member of a structure that was read from bytes, as an integer.
Raw(members, bytes, name) ==
    LET i == Named(members, name)
    IN  Slice(bytes, At(members, i), At(members, i) + members[i].n)

SizeOfStruct(members) == Ends(members)[Len(members)]

\* Mutant: room for RCVINFO alone.
RCV_CMSG_SPACE_tight == 48

RCV_CMSG_SPACE == 192

to_wire(ppid, little) == HostOrder(ppid, little)
from_wire(v, little) == HostOrder(v, little)

\* SendInfo::to_sys, and its bytes.
SendInfo_to_sys(info, little) ==
    Image(sctp_sndinfo,
          [snd_sid |-> info.sid, snd_flags |-> info.flags,
           snd_ppid |-> to_wire(info.ppid, little), snd_context |-> info.context,
           snd_assoc_id |-> info.assoc_id], little)

RcvInfo_from_sys(raw, little) ==
    LET member(name) == Raw(sctp_rcvinfo, raw, name)
    IN  [sid |-> member("rcv_sid"), ssn |-> member("rcv_ssn"), flags |-> member("rcv_flags"),
         ppid |-> from_wire(member("rcv_ppid"), little), tsn |-> member("rcv_tsn"),
         cumtsn |-> member("rcv_cumtsn"), context |-> member("rcv_context"),
         assoc_id |-> member("rcv_assoc_id")]

\* What send_msg passes in msg_control.
send_control(info, P, little) ==
    write(IPPROTO_SCTP, SCTP_CMSG_SNDINFO, SendInfo_to_sys(info, little), P)

\* The loop of recv_msg over the control messages: the last RCVINFO counts.
is_rcvinfo(m) ==
    /\ m.level = IPPROTO_SCTP
    /\ m.ty = SCTP_CMSG_RCVINFO
    /\ Len(m.data) >= SizeOfStruct(sctp_rcvinfo)
recv_turn(at, P, little) ==
    LET m == next(at.rest, P)
    IN  IF ~has_next(at.rest, P) THEN at
        ELSE [rest |-> m.rest,
              info |-> IF is_rcvinfo(m) THEN RcvInfo_from_sys(m.data, little) ELSE at.info]
\* It ends within this many turns, as each takes at least a header.
turns(control, P) == Len(control) \div HDR_LEN(P)
recv_info(control, P, little) ==
    LET turn[i \in 0..turns(control, P)] ==
            IF i = 0 THEN [rest |-> control, info |-> None]
            ELSE recv_turn(turn[i - 1], P, little)
    IN  turn[turns(control, P)].info

-----------------------------------------------------------------------------
(* The kernel (external).                                                  *)

\* A member has the name of the field that it is to become.
KernelRcvInfo ==
    <<Member("sid", 2), Member("ssn", 2), Member("flags", 2), BigEndian("ppid", 4),
      Member("tsn", 4), Member("cumtsn", 4), Member("context", 4), Member("assoc_id", 4)>>
KernelSndInfo ==
    <<Member("sid", 2), Member("flags", 2), BigEndian("ppid", 4), Member("context", 4),
      Member("assoc_id", 4)>>

\* put_cmsg: into what is left of the buffer, cut where it ends.
KernelCmsg(level, ty, data, P) ==
    Field((IF P = 8 THEN 16 ELSE 12) + Len(data), P) \o Field(level, 4) \o Field(ty, 4) \o data
PaddedCmsg(whole, P) == whole \o Zeros(RoundUp(Len(whole), P) - Len(whole))
put_cmsg(control, space_left, whole, P) ==
    LET cut == Field(space_left, P) \o SubSeq(whole, P + 1, space_left)
        padded == PaddedCmsg(whole, P)
    IN  IF space_left < P + 8 THEN control
        ELSE IF space_left < Len(whole) THEN control \o cut
        ELSE control \o SubSeq(padded, 1, IF Len(padded) < space_left THEN Len(padded)
                                          ELSE space_left)

\* The order of sctp_recvmsg: what the socket layer adds, then NXTINFO, RCVINFO
\* and SNDRCV, those of them that are enabled. A time has 16 bytes, and
\* TIMESTAMPING carries three of them.
Attachable(P, little) ==
    <<[on |-> "TIMESTAMP", cmsg |-> KernelCmsg(1, 29, Field(7, 16), P)],
      [on |-> "TIMESTAMPING", cmsg |-> KernelCmsg(1, 37, Field(5, 48), P)],
      [on |-> "RXQ_OVFL", cmsg |-> KernelCmsg(1, 40, Field(6, 4), P)],
      [on |-> "RCVMARK", cmsg |-> KernelCmsg(1, 36, Field(4, 4), P)],
      [on |-> "NXTINFO", cmsg |-> KernelCmsg(IPPROTO_SCTP, SCTP_CMSG_NXTINFO, Field(8, 16), P)],
      [on |-> "RCVINFO", cmsg |-> KernelCmsg(IPPROTO_SCTP, SCTP_CMSG_RCVINFO,
                                             Image(KernelRcvInfo, << >>, little), P)],
      [on |-> "SNDRCV", cmsg |-> KernelCmsg(IPPROTO_SCTP, SCTP_CMSG_SNDRCV, Field(9, 32), P)]>>
KernelControl(enabled, size, P, little) ==
    LET all == Attachable(P, little)
        control[i \in 0..Len(all)] ==
            IF i = 0 THEN << >>
            ELSE IF all[i].on \in enabled
            THEN put_cmsg(control[i - 1], size - Len(control[i - 1]), all[i].cmsg, P)
            ELSE control[i - 1]
    IN  control[Len(all)]
=============================================================================

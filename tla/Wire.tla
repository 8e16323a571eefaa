-------------------------------- MODULE Wire --------------------------------
(***************************************************************************)
(* What crosses the boundary between the crate and the kernel as bytes:    *)
(* address lists (AddrQuery), notifications, control messages, reports on  *)
(* associations, socket options and timeouts. One thread makes one call    *)
(* after the other.                                                        *)
(* The calls added here have no state of their own and share none with the *)
(* address queries: they are explored from the initial state only.         *)
(***************************************************************************)
EXTENDS AddrQuery, OptionStructs, Timeout

CONSTANTS
    Tails,     \* lengths of the variable parts of notifications
    Cuts,      \* bytes missing at the end of a notification
    MaxSecs    \* bound: seconds of a timeout

ASSUME TailsAssumption == Tails \subseteq Nat /\ Cuts \subseteq Nat
ASSUME MaxSecsAssumption == MaxSecs \in Nat

VARIABLE last   \* the last of these calls: what it returned, what it should

wvars == <<vars, last>>

NoCall == [op |-> "none"]
Hosts == {h \in [P : {4, 8}, W : {4, 8}, little : BOOLEAN] : h.W >= h.P}

\* Addresses of known and of an unknown family in 128 bytes; None is to be read.
Foreign == [family |-> 77]
MaybeAddress == Addresses \cup {Foreign}
KernelStorage(addr) ==
    IF addr = Foreign THEN Field(Foreign.family, 2) \o Zeros(126)
    ELSE KernelSockaddr(addr) \o Zeros(128 - SizeOf(addr))
Known(addr) == IF addr = Foreign THEN None ELSE Some(addr, SizeOf(addr))

Done(op, got, want) == last' = [op |-> op, got |-> got, want |-> want]

-----------------------------------------------------------------------------
(* The bytes of one notification, possibly cut short, for parse.           *)

StateOf(type) ==
    CASE type = "ASSOC_CHANGE" -> KernelSacState
      [] type = "PEER_ADDR_CHANGE" -> KernelSpcState
      [] OTHER -> [none |-> 0]

Values(type, code, flags, addr, state) ==
    [sn_type |-> Field(code, 2), flags |-> Field(flags, 2), address |-> KernelStorage(addr),
     state |-> Field(StateOf(type)[state], IF type = "ASSOC_CHANGE" THEN 2 ELSE 4)]

Flexible == {"info", "data", "payload", "streams"}

\* What field f of a notification that has these bytes should be.
FieldWanted(type, members, val, bytes, addr, state, f) ==
    LET i == Named(members, f)
        here == Len(bytes) - At(members, i)
    IN  CASE f = "address" -> Known(addr)
          [] f = "state" -> <<state>>
          [] type = "UNKNOWN" /\ f = "data" -> bytes
          [] type # "UNKNOWN" /\ f \in Flexible ->
                SubSeq(MemberValue(members, val, f), 1,
                       IF f = "streams" THEN here - (here % 2) ELSE here)
          [] OTHER -> MemberValue(members, val, f)

\* The length below which fields are missing; of unknown types only sn_type and
\* sn_flags are looked at.
Minimum(type, members) ==
    LET fixed == IF type = "UNKNOWN" THEN {1, 2}
                 ELSE {i \in 1..Len(members) : members[i].name \notin Flexible}
    IN  Ends(members)[CHOOSE i \in fixed : \A j \in fixed : j <= i]

\* The types of the kernel, and a code that is none of them.
Codes == (SCTP_SN_TYPE_BASE + 1)..(SCTP_SN_TYPE_BASE + 14)
TypeOf(code) ==
    IF code = SCTP_SN_TYPE_BASE + 14 THEN "UNKNOWN" ELSE SnTypes[code - SCTP_SN_TYPE_BASE]

\* What parse should return for these bytes; got tells which fields it reads.
ParseWanted(type, members, val, buf, flags, addr, state, got) ==
    IF Len(buf) < Minimum(type, members) THEN Truncated
    ELSE [ok |-> TRUE, type |-> type,
          unsent |-> type \in {"SEND_FAILED", "SEND_FAILED_EVENT"} /\ flags = 0,
          fields |-> [f \in DOMAIN got.fields |->
                        FieldWanted(type, members, val, buf, addr, state, f)]]

parse_notification ==
    \E code \in Codes, flags \in {0, 1}, n \in Tails, addr \in MaybeAddress, little \in BOOLEAN :
        LET type == TypeOf(code)
            members == KernelStruct(type, n)
        IN  \E state \in DOMAIN StateOf(type), cut \in Cuts :
                LET val == Values(type, code, flags, addr, state)
                    bytes == Image(members, val, little)
                    buf == SubSeq(bytes, 1, Len(bytes) - cut)
                    got == parse(buf, little)
                IN  /\ type # "PEER_ADDR_CHANGE" => addr = Foreign
                    /\ Done("parse", got,
                            ParseWanted(type, members, val, buf, flags, addr, state, got))

-----------------------------------------------------------------------------
(* Control messages.                                                       *)

\* The messages that fit into RCV_CMSG_SPACE together, and the others; which are
\* enabled is up to the owner of the descriptor.
Usual == {"TIMESTAMP", "RXQ_OVFL", "NXTINFO", "RCVINFO", "SNDRCV"}
Crowding == {"TIMESTAMPING", "RCVMARK"}

recv_control ==
    \E enabled \in SUBSET (Usual \cup Crowding), h \in Hosts :
        Done(IF enabled \subseteq Usual THEN "recv_info" ELSE "recv_info_crowded",
             recv_info(KernelControl(enabled, RCV_CMSG_SPACE, h.P, h.little), h.P, h.little),
             IF "RCVINFO" \notin enabled THEN None
             ELSE [f \in {"sid", "ssn", "flags", "ppid", "tsn", "cumtsn", "context", "assoc_id"}
                        |-> MemberValue(KernelRcvInfo, << >>, f)])

\* The kernel finds a SNDINFO of the right length and nothing behind it.
send_control_message ==
    \E h \in Hosts :
        LET info == [f \in {"sid", "flags", "ppid", "context", "assoc_id"} |->
                        MemberValue(KernelSndInfo, << >>, f)]
            control == send_control(info, h.P, h.little)
            header == IF h.P = 8 THEN 16 ELSE 12
        IN  Done("send_info", control,
                 Field(header + 16, h.P) \o Field(132, 4) \o Field(2, 4)
                    \o Image(KernelSndInfo, << >>, h.little))

-----------------------------------------------------------------------------
(* Reports on associations.                                                *)

Fields(members, special) ==
    [f \in {members[i].name : i \in 1..Len(members)} |->
        IF f \in DOMAIN special THEN special[f] ELSE MemberValue(members, << >>, f)]

PathImage(addr, path) ==
    Image(KernelPaddrInfo, [address |-> KernelStorage(addr),
                            state |-> Field(KernelSpinfoState[path], 4)], TRUE)
PathWanted(addr, path) ==
    Fields(KernelPaddrInfo, [address |-> Known(addr), state |-> <<path>>])

peer_addr_info ==
    \E addr \in MaybeAddress, path \in DOMAIN KernelSpinfoState :
        Done("peer_addr_info", PeerAddrInfo_from_sys(PathImage(addr, path)),
             PathWanted(addr, path))

status ==
    \E addr \in MaybeAddress, state \in DOMAIN KernelSstatState :
        Done("status",
             AssocStatus_from_sys(
                Image(KernelStatus, [state |-> Field(KernelSstatState[state], 4),
                                     primary |-> PathImage(addr, "Active")], TRUE)),
             Fields(KernelStatus, [state |-> <<state>>,
                                   primary |-> PathWanted(addr, "Active")]))

assoc_stats ==
    \E addr \in MaybeAddress, h \in Hosts :
        LET members == KernelAssocStats(h.P, h.W)
        IN  Done("assoc_stats",
                 AssocStats_from_sys(
                    Image(members, [max_rto_address |-> KernelStorage(addr)], h.little),
                    h.P, h.W),
                 Fields(members, [max_rto_address |-> Known(addr)]))

-----------------------------------------------------------------------------
(* Socket options and single addresses.                                    *)

\* The kernel takes a structure of its size and finds the parameters in it.
set_option ==
    \E opt \in Settable, P \in {4, 8} :
        LET kernel == Kernel(opt, P)
            bytes == setsockopt(opt, P)
        IN  Done("set_option",
                 [size |-> Len(bytes),
                  fields |-> [f \in Names(kernel) |-> Raw(kernel.members, bytes, f)]],
                 [size |-> size_of(kernel),
                  fields |-> [f \in Names(kernel) |->
                    LET value == MemberValue(kernel.members, << >>, f)
                    IN  IF f \in DOMAIN Sets(opt) THEN value ELSE Zeros(Len(value))]])

get_option ==
    \E opt \in Readable, P \in {4, 8} :
        Done("get_option",
             getsockopt(opt, P, SubSeq(BytesOf(Kernel(opt, P), << >>), 1, size_of(sys(opt, P)))),
             [f \in DOMAIN Reads(opt) |-> MemberValue(Kernel(opt, P).members, << >>, f)])

subscribe == \E e \in DOMAIN KernelEvent : Done("subscribe", to_raw(e), KernelEvent[e])

spp_flags ==
    \E f, g \in DOMAIN KernelSppBit :
        Done("spp_flags", bits({f, g}), {KernelSppBit[f], KernelSppBit[g]})

\* local_addr, peer_addr and the address that accept returns.
socket_addr ==
    \E addr \in MaybeAddress :
        Done("socket_addr",
             read_name(KernelStorage(addr), IF addr = Foreign THEN 16 ELSE SizeOf(addr)),
             Known(addr))

\* bind and connect pass one address and its length.
pass_addr ==
    \E addr \in Addresses : Done("pass_addr", write_sockaddr(addr), KernelSockaddr(addr))

-----------------------------------------------------------------------------
(* Timeouts: set_timeout followed by timeout.                              *)

Refused == [secs |-> -1, nanos |-> 0]

set_timeout ==
    \E d \in Durations(0..MaxSecs) :
        Done("timeout",
             IF IsZero(d) THEN Refused ELSE from_timeval(KernelTimeval(KernelTimeo(timeval(d)))),
             d)

-----------------------------------------------------------------------------
Call ==
    \/ parse_notification \/ recv_control \/ send_control_message
    \/ peer_addr_info \/ status \/ assoc_stats \/ set_timeout
    \/ set_option \/ get_option \/ subscribe \/ spp_flags
    \/ socket_addr \/ pass_addr

Idle == pc = "idle" /\ addrs = << >> /\ result = "none"

\* The caller has looked at the result.
NextCall == last # NoCall /\ last' = NoCall

WireInit == Init /\ last = NoCall

WireNext ==
    \/ last = NoCall /\ Next /\ UNCHANGED last
    \/ last = NoCall /\ Idle /\ Call /\ UNCHANGED vars
    \/ NextCall /\ UNCHANGED vars

\* A thread inside the query loop keeps running.
WireSpec == WireInit /\ [][WireNext]_wvars /\ WF_wvars(Attempt /\ UNCHANGED last)

-----------------------------------------------------------------------------
(* Properties.                                                             *)

\* Every field of a notification, of a status, path or statistics report is the
\* kernel's field of that meaning, for every type, byte order, pointer width and
\* length of the variable part. A notification that was cut is an error or lacks
\* only the end of its variable part.
DecodedAsWritten ==
    last.op \in {"parse", "peer_addr_info", "status", "assoc_stats"} => last.got = last.want

\* recv_msg finds RCVINFO, with all its fields, whichever of TIMESTAMP, RXQ_OVFL,
\* NXTINFO and SNDRCV the kernel attaches before or behind it and for either
\* pointer width, and reports none only if the kernel attached none; what send_msg
\* passes is a SNDINFO as the kernel reads it.
ControlCarried == last.op \in {"recv_info", "send_info"} => last.got = last.want

\* The comment on RCV_CMSG_SPACE: there is slack for anything else the kernel
\* decides to attach. It does not hold: TIMESTAMP, TIMESTAMPING, RXQ_OVFL and
\* NXTINFO take 152 of the 192 bytes, RCVINFO is cut and recv_msg reports none.
AnythingElseFits == last.op = "recv_info_crowded" => last.got = last.want

\* The structure passed for each option has the kernel's size and every
\* parameter where the kernel looks for it, with zeroes elsewhere; what a getter,
\* peeloff or connectx reads back is the kernel's member of that meaning, for
\* either pointer width. Event types and flags have the kernel's codes, and
\* local_addr, peer_addr and accept report the address the kernel wrote, or an
\* error if its family is unknown; bind and connect pass theirs as it reads it.
OptionsCarried ==
    last.op \in {"set_option", "get_option", "subscribe", "spp_flags", "socket_addr",
                 "pass_addr"} => last.got = last.want

Length(d) == d.secs * Nanos * Micros + d.nanos

\* A timeout that set_timeout accepts is in force: it is not lost on the way
\* unless it exceeds what the kernel can wait for, and it is neither more than
\* a microsecond too short nor more than a tick and a microsecond too long.
\* Zero is refused.
TimeoutKept ==
    last.op = "timeout" =>
        \/ IsZero(last.want) /\ last.got = Refused
        \/ last.want.secs >= MaxTimeoutSecs /\ last.got = NoTimeout
        \/ /\ ~IsZero(last.want) /\ last.want.secs < MaxTimeoutSecs
           /\ last.got # NoTimeout
           /\ Length(last.got) > Length(last.want) - Nanos
           /\ Length(last.got) <= Length(last.want) + Nanos + (Nanos * Micros) \div Hz
=============================================================================

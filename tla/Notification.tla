---------------------------- MODULE Notification ----------------------------
(***************************************************************************)
(* notification.rs: parse reads the fields of a notification at explicit   *)
(* offsets of the bytes recvmsg returned. The reference is the layout that *)
(* a C compiler gives the kernel's structures (external): each member at   *)
(* the next multiple of its alignment. An integer is the sequence of its   *)
(* bytes in the host's order; Addr explains bytes.                         *)
(***************************************************************************)
EXTENDS Addr

\* The least multiple of a that is at least n.
RoundUp(n, a) == ((n + a - 1) \div a) * a

\* A member: name, width and alignment. The value of the i-th member of a
\* structure is 100 + i, so that no two members look alike.
Member(name, n) == [name |-> name, n |-> n, a |-> n, be |-> FALSE]
BigEndian(name, n) == [Member(name, n) EXCEPT !.be = TRUE]
Blob(name, n, a) == [Member(name, n) EXCEPT !.a = a]

\* The offset behind each of the first i members, and in front of member i.
Ends(members) ==
    LET end[i \in 0..Len(members)] ==
            IF i = 0 THEN 0
            ELSE RoundUp(end[i - 1], members[i].a) + members[i].n
    IN  end
At(members, i) == RoundUp(Ends(members)[i - 1], members[i].a)
Named(members, name) == CHOOSE i \in 1..Len(members) : members[i].name = name

Swapped(bytes) == [i \in 1..Len(bytes) |-> bytes[Len(bytes) + 1 - i]]
HostOrder(bytes, little) == IF little THEN Swapped(bytes) ELSE bytes

\* The kernel's bytes, on a host of either byte order, and the integer that a
\* member stands for. val gives the members whose value matters theirs.
MemberValue(members, val, name) ==
    IF name \in DOMAIN val THEN val[name]
    ELSE Field(100 + Named(members, name), members[Named(members, name)].n)
\* Member i with the padding in front of it.
Placed(members, val, i, little) ==
    LET v == MemberValue(members, val, members[i].name)
    IN  Zeros(At(members, i) - Ends(members)[i - 1])
            \o (IF members[i].be THEN HostOrder(v, little) ELSE v)
Image(members, val, little) ==
    LET bytes[i \in 0..Len(members)] ==
            IF i = 0 THEN << >> ELSE bytes[i - 1] \o Placed(members, val, i, little)
    IN  bytes[Len(members)]

-----------------------------------------------------------------------------
(* union sctp_notification (external). A member has the name of the field  *)
(* it is to become; info, data, payload and streams are flexible arrays.   *)

Header == <<Member("sn_type", 2), Member("flags", 2), Member("sn_length", 4)>>

\* What follows the header.
Body(type, tail) ==
    CASE type = "ASSOC_CHANGE" ->
            <<Member("state", 2), Member("error", 2), Member("outbound_streams", 2),
              Member("inbound_streams", 2), Member("assoc_id", 4), Blob("info", tail, 1)>>
      [] type = "PEER_ADDR_CHANGE" ->
            <<Blob("address", 128, 4), Member("state", 4), Member("error", 4),
              Member("assoc_id", 4)>>
      [] type = "REMOTE_ERROR" ->
            <<BigEndian("error", 2), Member("assoc_id", 4), Blob("data", tail, 1)>>
      [] type = "SEND_FAILED" ->
            <<Member("error", 4), Member("sid", 2), Member("ssn", 2), Member("snd_flags", 2),
              BigEndian("ppid", 4), Member("context", 4), Member("ttl", 4), Member("tsn", 4),
              Member("cumtsn", 4), Member("info_assoc_id", 4), Member("assoc_id", 4),
              Blob("payload", tail, 1)>>
      [] type = "SEND_FAILED_EVENT" ->
            <<Member("error", 4), Member("sid", 2), Member("snd_flags", 2), BigEndian("ppid", 4),
              Member("context", 4), Member("info_assoc_id", 4), Member("assoc_id", 4),
              Blob("payload", tail, 1)>>
      [] type \in {"SHUTDOWN_EVENT", "SENDER_DRY_EVENT"} -> <<Member("assoc_id", 4)>>
      [] type = "PARTIAL_DELIVERY_EVENT" ->
            <<Member("indication", 4), Member("assoc_id", 4), Member("stream", 4),
              Member("seq", 4)>>
      [] type = "ADAPTATION_INDICATION" -> <<Member("indication", 4), Member("assoc_id", 4)>>
      [] type = "AUTHENTICATION_EVENT" ->
            <<Member("key_number", 2), Member("alt_key_number", 2), Member("indication", 4),
              Member("assoc_id", 4)>>
      [] type = "STREAM_RESET_EVENT" -> <<Member("assoc_id", 4), Blob("streams", tail, 2)>>
      [] type = "ASSOC_RESET_EVENT" ->
            <<Member("assoc_id", 4), Member("local_tsn", 4), Member("remote_tsn", 4)>>
      [] type = "STREAM_CHANGE_EVENT" ->
            <<Member("assoc_id", 4), Member("instrms", 2), Member("outstrms", 2)>>
      [] OTHER -> <<Blob("unknown", tail, 1)>>

KernelStruct(type, tail) == Header \o Body(type, tail)

\* enum sctp_sac_state and sctp_spc_state (external), by what they mean.
KernelSacState ==
    [CommUp |-> 0, CommLost |-> 1, Restart |-> 2, ShutdownComplete |-> 3, CantStartAssoc |-> 4]
KernelSpcState ==
    [Available |-> 0, Unreachable |-> 1, Removed |-> 2, Added |-> 3, MadePrimary |-> 4,
     Confirmed |-> 5, PotentiallyFailed |-> 6]

-----------------------------------------------------------------------------
(* The parser.                                                             *)

\* An enumeration whose variants stand for 0, 1, ..., with Unknown(v).
Variant(names, bytes) ==
    LET v == Value(bytes)
    IN  IF v + 1 \in 1..Len(names) THEN <<names[v + 1]>> ELSE <<"Unknown", v>>

AssocChangeState_from_raw(bytes) ==
    Variant(<<"CommUp", "CommLost", "Restart", "ShutdownComplete", "CantStartAssoc">>, bytes)

PeerAddrChangeState_from_raw(bytes) ==
    Variant(<<"Available", "Unreachable", "Removed", "Added", "MadePrimary", "Confirmed",
              "PotentiallyFailed">>, bytes)

SCTP_SN_TYPE_BASE == 32768
SnTypes ==
    <<"ASSOC_CHANGE", "PEER_ADDR_CHANGE", "SEND_FAILED", "REMOTE_ERROR", "SHUTDOWN_EVENT",
      "PARTIAL_DELIVERY_EVENT", "ADAPTATION_INDICATION", "AUTHENTICATION_EVENT",
      "SENDER_DRY_EVENT", "STREAM_RESET_EVENT", "ASSOC_RESET_EVENT", "STREAM_CHANGE_EVENT",
      "SEND_FAILED_EVENT">>
SnType(value) ==
    IF value - SCTP_SN_TYPE_BASE \in 1..Len(SnTypes) THEN SnTypes[value - SCTP_SN_TYPE_BASE]
    ELSE "UNKNOWN"
SCTP_DATA_UNSENT == 0

\* u16_at, u32_at (with i32_at and assoc_at), and the conversions from_be.
u16_at(off) == [at |-> off, n |-> 2, be |-> FALSE]
u32_at(off) == [at |-> off, n |-> 4, be |-> FALSE]
from_be(field) == [field EXCEPT !.be = TRUE]

sn_type == u16_at(0)
sn_flags == u16_at(2)

Read(buf, field, little) ==
    LET bytes == Slice(buf, field.at, field.at + field.n)
    IN  IF field.be THEN HostOrder(bytes, little) ELSE bytes

\* The bytes from off on, possibly none.
tail(buf, off) == SubSeq(buf, off + 1, Len(buf))

\* Mutant: the layout of SEND_FAILED_EVENT for the legacy notification too.
SendFailed_one_layout(legacy) ==
    [fixed |-> [error |-> u32_at(8), sid |-> u16_at(12), ppid |-> from_be(u32_at(16)),
                context |-> u32_at(20), assoc_id |-> u32_at(28)],
     var |-> [payload |-> 32]]

\* ssf_info is a sctp_sndrcvinfo, ssfe_info a sctp_sndinfo.
SendFailed(legacy) ==
    IF legacy
    THEN [fixed |-> [error |-> u32_at(8), sid |-> u16_at(12), ppid |-> from_be(u32_at(20)),
                     context |-> u32_at(24), assoc_id |-> u32_at(44)],
          var |-> [payload |-> 48]]
    ELSE [fixed |-> [error |-> u32_at(8), sid |-> u16_at(12), ppid |-> from_be(u32_at(16)),
                     context |-> u32_at(20), assoc_id |-> u32_at(28)],
          var |-> [payload |-> 32]]

\* The fields that parse reads per type, and where the rest begins.
Fixed(fields) == [fixed |-> fields, var |-> << >>]
FieldsOf(type) ==
    CASE type = "ASSOC_CHANGE" ->
            [fixed |-> [state |-> u16_at(8), error |-> u16_at(10),
                        outbound_streams |-> u16_at(12), inbound_streams |-> u16_at(14),
                        assoc_id |-> u32_at(16)],
             var |-> [info |-> 20]]
      [] type = "PEER_ADDR_CHANGE" ->
            Fixed([address |-> [at |-> 8, n |-> 128, be |-> FALSE], state |-> u32_at(136),
                   error |-> u32_at(140), assoc_id |-> u32_at(144)])
      [] type = "REMOTE_ERROR" ->
            [fixed |-> [error |-> from_be(u16_at(8)), assoc_id |-> u32_at(12)],
             var |-> [data |-> 16]]
      [] type = "SEND_FAILED" -> SendFailed(TRUE)
      [] type = "SEND_FAILED_EVENT" -> SendFailed(FALSE)
      [] type \in {"SHUTDOWN_EVENT", "SENDER_DRY_EVENT"} -> Fixed([assoc_id |-> u32_at(8)])
      [] type = "PARTIAL_DELIVERY_EVENT" ->
            Fixed([indication |-> u32_at(8), assoc_id |-> u32_at(12), stream |-> u32_at(16),
                   seq |-> u32_at(20)])
      [] type = "ADAPTATION_INDICATION" ->
            Fixed([indication |-> u32_at(8), assoc_id |-> u32_at(12)])
      [] type = "AUTHENTICATION_EVENT" ->
            Fixed([key_number |-> u16_at(8), alt_key_number |-> u16_at(10),
                   indication |-> u32_at(12), assoc_id |-> u32_at(16)])
      [] type = "STREAM_RESET_EVENT" ->
            [fixed |-> [flags |-> sn_flags, assoc_id |-> u32_at(8)], var |-> [streams |-> 12]]
      [] type = "ASSOC_RESET_EVENT" ->
            Fixed([flags |-> sn_flags, assoc_id |-> u32_at(8), local_tsn |-> u32_at(12),
                   remote_tsn |-> u32_at(16)])
      [] type = "STREAM_CHANGE_EVENT" ->
            Fixed([flags |-> sn_flags, assoc_id |-> u32_at(8), instrms |-> u16_at(12),
                   outstrms |-> u16_at(14)])
      [] OTHER -> [fixed |-> [sn_type |-> sn_type, flags |-> sn_flags], var |-> [data |-> 0]]

Truncated == [ok |-> FALSE]

\* What becomes of the bytes of a field.
Converted(type, name, bytes) ==
    CASE name = "address" -> read_sockaddr(bytes)
      [] name = "state" /\ type = "ASSOC_CHANGE" -> AssocChangeState_from_raw(bytes)
      [] name = "state" /\ type = "PEER_ADDR_CHANGE" -> PeerAddrChangeState_from_raw(bytes)
      [] name = "streams" -> SubSeq(bytes, 1, 2 * (Len(bytes) \div 2))
      [] OTHER -> bytes

\* Every field read must lie inside buf. sn_length is not looked at.
parse(buf, little) ==
    LET type == SnType(Value(Slice(buf, 0, 2)))
        fixed == FieldsOf(type).fixed
        var == FieldsOf(type).var
        inside(f) == fixed[f].at + fixed[f].n <= Len(buf)
    IN  IF Len(buf) < 4 \/ \E f \in DOMAIN fixed : ~inside(f) THEN Truncated
        ELSE [ok |-> TRUE, type |-> type,
              unsent |-> type \in {"SEND_FAILED", "SEND_FAILED_EVENT"}
                         /\ Read(buf, sn_flags, little) = Field(SCTP_DATA_UNSENT, 2),
              fields |-> [f \in DOMAIN fixed \cup DOMAIN var |->
                Converted(type, f, IF f \in DOMAIN fixed THEN Read(buf, fixed[f], little)
                                   ELSE tail(buf, var[f]))]]
=============================================================================

---------------------------- MODULE OptionStructs ---------------------------
(***************************************************************************)
(* The structures that setsockopt and getsockopt carry for the option      *)
(* methods of imp/kernel.rs, as sys.rs declares them, against the kernel's *)
(* declarations; the codes of EventType and SppFlags; and single addresses *)
(* as getsockname, getpeername and accept4 return them.                    *)
(***************************************************************************)
EXTENDS AssocReports

\* The members of a structure and its alignment.
Struct(members) ==
    [members |-> members,
     align |-> CHOOSE a \in {members[i].a : i \in 1..Len(members)} :
                    \A i \in 1..Len(members) : members[i].a <= a]
PackedStruct(members) == [members |-> Packed4(members), align |-> 1]

sctp_initmsg ==
    Struct(<<Member("sinit_num_ostreams", 2), Member("sinit_max_instreams", 2),
             Member("sinit_max_attempts", 2), Member("sinit_max_init_timeo", 2)>>)

sctp_event ==
    Struct(<<Member("se_assoc_id", 4), Member("se_type", 2), Member("se_on", 1)>>)

sctp_rtoinfo ==
    Struct(<<Member("srto_assoc_id", 4), Member("srto_initial", 4), Member("srto_max", 4),
             Member("srto_min", 4)>>)

sctp_assocparams ==
    Struct(<<Member("sasoc_assoc_id", 4), Member("sasoc_asocmaxrxt", 2),
             Member("sasoc_number_peer_destinations", 2), Member("sasoc_peer_rwnd", 4),
             Member("sasoc_local_rwnd", 4), Member("sasoc_cookie_life", 4)>>)

sctp_sack_info ==
    Struct(<<Member("sack_assoc_id", 4), Member("sack_delay", 4), Member("sack_freq", 4)>>)

sctp_prim == PackedStruct(<<Member("ssp_assoc_id", 4), Storage("ssp_addr")>>)

spp_members ==
    <<Member("spp_assoc_id", 4), Storage("spp_address"), Member("spp_hbinterval", 4),
      Member("spp_pathmaxrxt", 2), Member("spp_pathmtu", 4), Member("spp_sackdelay", 4),
      Member("spp_flags", 4), Member("spp_ipv6_flowlabel", 4), Member("spp_dscp", 1)>>

\* Mutant: without packing.
sctp_paddrparams_unpacked == Struct(spp_members)

\* 155 bytes, and one to pad to a multiple of four.
sctp_paddrparams == PackedStruct(spp_members \o <<Member("_pad", 1)>>)

sctp_peeloff_flags_arg_t ==
    Struct(<<Member("associd", 4), Member("sd", 4), Member("flags", 4)>>)

sctp_getaddrs_old(P) ==
    Struct(<<Member("assoc_id", 4), Member("addr_num", 4), Member("addrs", P)>>)

\* The methods that pass a structure, by the member to which each parameter is
\* stored (the others are zero), and those that read one, by the member each
\* field is taken from. peeloff_with_flags sets sd to -1.
InitParams_to_sys ==
    [num_ostreams |-> "sinit_num_ostreams", max_instreams |-> "sinit_max_instreams",
     max_attempts |-> "sinit_max_attempts", max_init_timeo |-> "sinit_max_init_timeo"]
InitParams_from_sys ==
    [num_ostreams |-> "sinit_num_ostreams", max_instreams |-> "sinit_max_instreams",
     max_attempts |-> "sinit_max_attempts", max_init_timeo |-> "sinit_max_init_timeo"]

subscribe_event_for == [assoc_id |-> "se_assoc_id", event |-> "se_type", on |-> "se_on"]

set_rto_info ==
    [assoc_id |-> "srto_assoc_id", initial |-> "srto_initial", max |-> "srto_max",
     min |-> "srto_min"]
rto_info == [initial |-> "srto_initial", max |-> "srto_max", min |-> "srto_min"]

set_assoc_info ==
    [assoc_id |-> "sasoc_assoc_id", asocmaxrxt |-> "sasoc_asocmaxrxt",
     cookie_life |-> "sasoc_cookie_life"]
assoc_info ==
    [asocmaxrxt |-> "sasoc_asocmaxrxt",
     number_peer_destinations |-> "sasoc_number_peer_destinations",
     peer_rwnd |-> "sasoc_peer_rwnd", local_rwnd |-> "sasoc_local_rwnd",
     cookie_life |-> "sasoc_cookie_life"]

set_delayed_sack ==
    [assoc_id |-> "sack_assoc_id", delay_ms |-> "sack_delay", freq |-> "sack_freq"]
delayed_sack == [delay_ms |-> "sack_delay", freq |-> "sack_freq"]

set_primary == [assoc_id |-> "ssp_assoc_id", address |-> "ssp_addr"]

set_peer_addr_params ==
    [assoc_id |-> "spp_assoc_id", address |-> "spp_address", hb_interval |-> "spp_hbinterval",
     path_max_rxt |-> "spp_pathmaxrxt", path_mtu |-> "spp_pathmtu",
     sack_delay |-> "spp_sackdelay", flags |-> "spp_flags",
     ipv6_flowlabel |-> "spp_ipv6_flowlabel", dscp |-> "spp_dscp"]
PeerAddrParams_from_sys ==
    [hb_interval |-> "spp_hbinterval", path_max_rxt |-> "spp_pathmaxrxt",
     path_mtu |-> "spp_pathmtu", sack_delay |-> "spp_sackdelay", flags |-> "spp_flags",
     ipv6_flowlabel |-> "spp_ipv6_flowlabel", dscp |-> "spp_dscp"]

peeloff_with_flags == [assoc_id |-> "associd", sd |-> "sd", flags |-> "flags"]
connectx_param == [size |-> "addr_num", addrs |-> "addrs"]

\* Which structure and methods go with an option.
Sets(opt) ==
    CASE opt = "INITMSG" -> InitParams_to_sys
      [] opt = "EVENT" -> subscribe_event_for
      [] opt = "RTOINFO" -> set_rto_info
      [] opt = "ASSOCINFO" -> set_assoc_info
      [] opt = "DELAYED_SACK" -> set_delayed_sack
      [] opt = "PRIMARY_ADDR" -> set_primary
      [] opt = "PEER_ADDR_PARAMS" -> set_peer_addr_params
      [] opt = "PEELOFF_FLAGS" -> peeloff_with_flags
      [] opt = "CONNECTX3" -> connectx_param
Reads(opt) ==
    CASE opt = "INITMSG" -> InitParams_from_sys
      [] opt = "RTOINFO" -> rto_info
      [] opt = "ASSOCINFO" -> assoc_info
      [] opt = "DELAYED_SACK" -> delayed_sack
      [] opt = "PEER_ADDR_PARAMS" -> PeerAddrParams_from_sys
      [] opt = "PEELOFF_FLAGS" -> [sd |-> "sd"]
      [] opt = "CONNECTX3" -> [assoc_id |-> "assoc_id"]
sys(opt, P) ==
    CASE opt = "INITMSG" -> sctp_initmsg
      [] opt = "EVENT" -> sctp_event
      [] opt = "RTOINFO" -> sctp_rtoinfo
      [] opt = "ASSOCINFO" -> sctp_assocparams
      [] opt = "DELAYED_SACK" -> sctp_sack_info
      [] opt = "PRIMARY_ADDR" -> sctp_prim
      [] opt = "PEER_ADDR_PARAMS" -> sctp_paddrparams
      [] opt = "PEELOFF_FLAGS" -> sctp_peeloff_flags_arg_t
      [] opt = "CONNECTX3" -> sctp_getaddrs_old(P)

\* size_of of a structure, and its bytes.
size_of(struct) == RoundUp(SizeOfStruct(struct.members), struct.align)
BytesOf(struct, val) ==
    LET image == Image(struct.members, val, TRUE)
    IN  image \o Zeros(size_of(struct) - Len(image))

-----------------------------------------------------------------------------
(* The kernel's structures (external).                                     *)

Ints(names, n) == [i \in 1..Len(names) |-> Member(names[i], n)]

Kernel(opt, P) ==
    CASE opt = "INITMSG" ->
            Struct(Ints(<<"num_ostreams", "max_instreams", "max_attempts",
                              "max_init_timeo">>, 2))
      [] opt = "EVENT" -> Struct(<<Member("assoc_id", 4), Member("event", 2), Member("on", 1)>>)
      [] opt = "RTOINFO" -> Struct(Ints(<<"assoc_id", "initial", "max", "min">>, 4))
      [] opt = "ASSOCINFO" ->
            Struct(<<Member("assoc_id", 4), Member("asocmaxrxt", 2),
                     Member("number_peer_destinations", 2), Member("peer_rwnd", 4),
                     Member("local_rwnd", 4), Member("cookie_life", 4)>>)
      [] opt = "DELAYED_SACK" -> Struct(Ints(<<"assoc_id", "delay_ms", "freq">>, 4))
      [] opt = "PRIMARY_ADDR" -> Struct(<<Member("assoc_id", 4), Storage("address")>>)
      [] opt = "PEER_ADDR_PARAMS" ->   \* packed, aligned(4)
            [PackedStruct(<<Member("assoc_id", 4), Storage("address"), Member("hb_interval", 4),
                            Member("path_max_rxt", 2), Member("path_mtu", 4),
                            Member("sack_delay", 4), Member("flags", 4),
                            Member("ipv6_flowlabel", 4), Member("dscp", 1)>>) EXCEPT !.align = 4]
      [] opt = "PEELOFF_FLAGS" -> Struct(Ints(<<"assoc_id", "sd", "flags">>, 4))
      [] opt = "CONNECTX3" ->
            Struct(<<Member("assoc_id", 4), Member("size", 4), Member("addrs", P)>>)

Names(struct) == {struct.members[i].name : i \in 1..Len(struct.members)}

Settable == {"INITMSG", "EVENT", "RTOINFO", "ASSOCINFO", "DELAYED_SACK", "PRIMARY_ADDR",
             "PEER_ADDR_PARAMS", "PEELOFF_FLAGS", "CONNECTX3"}
Readable == Settable \ {"EVENT", "PRIMARY_ADDR"}

KernelEvent ==
    [AssocChange |-> 1, PeerAddrChange |-> 2, SendFailed |-> 3, RemoteError |-> 4,
     Shutdown |-> 5, PartialDelivery |-> 6, AdaptationIndication |-> 7, Authentication |-> 8,
     SenderDry |-> 9, StreamReset |-> 10, AssocReset |-> 11, StreamChange |-> 12,
     SendFailedEvent |-> 13]

KernelSppBit ==
    [HB_ENABLE |-> 0, HB_DISABLE |-> 1, HB_DEMAND |-> 2, PMTUD_ENABLE |-> 3,
     PMTUD_DISABLE |-> 4, SACKDELAY_ENABLE |-> 5, SACKDELAY_DISABLE |-> 6,
     HB_TIME_IS_ZERO |-> 7, IPV6_FLOWLABEL |-> 8, DSCP |-> 9]

-----------------------------------------------------------------------------
(* The calls.                                                              *)

\* setsockopt, and getsockopt_inout on its way in: the bytes passed. A parameter
\* has the value that the kernel's member of its name has in Image.
setsockopt(opt, P) ==
    LET struct == sys(opt, P)
        value(m) ==
            LET stored == {f \in DOMAIN Sets(opt) : Sets(opt)[f] = m.name}
            IN  IF stored = {} THEN Zeros(m.n)
                ELSE Field(100 + Named(Kernel(opt, P).members, CHOOSE f \in stored : TRUE), m.n)
    IN  BytesOf(struct, [name \in Names(struct) |->
                            value(struct.members[Named(struct.members, name)])])

\* getsockopt: what the method makes of the bytes the kernel wrote.
getsockopt(opt, P, bytes) ==
    [f \in DOMAIN Reads(opt) |-> Raw(sys(opt, P).members, bytes, Reads(opt)[f])]

\* sys::SCTP_ASSOC_CHANGE and so on, counted from SCTP_SN_TYPE_BASE.
to_raw(event) ==
    LET const == CASE event = "AssocChange" -> "ASSOC_CHANGE"
                   [] event = "PeerAddrChange" -> "PEER_ADDR_CHANGE"
                   [] event = "SendFailed" -> "SEND_FAILED"
                   [] event = "RemoteError" -> "REMOTE_ERROR"
                   [] event = "Shutdown" -> "SHUTDOWN_EVENT"
                   [] event = "PartialDelivery" -> "PARTIAL_DELIVERY_EVENT"
                   [] event = "AdaptationIndication" -> "ADAPTATION_INDICATION"
                   [] event = "Authentication" -> "AUTHENTICATION_EVENT"
                   [] event = "SenderDry" -> "SENDER_DRY_EVENT"
                   [] event = "StreamReset" -> "STREAM_RESET_EVENT"
                   [] event = "AssocReset" -> "ASSOC_RESET_EVENT"
                   [] event = "StreamChange" -> "STREAM_CHANGE_EVENT"
                   [] event = "SendFailedEvent" -> "SEND_FAILED_EVENT"
    IN  CHOOSE i \in 1..Len(SnTypes) : SnTypes[i] = const

\* The bits of SppFlags, in the order of sys.rs.
SPP == <<"HB_ENABLE", "HB_DISABLE", "HB_DEMAND", "PMTUD_ENABLE", "PMTUD_DISABLE",
         "SACKDELAY_ENABLE", "SACKDELAY_DISABLE", "HB_TIME_IS_ZERO", "IPV6_FLOWLABEL", "DSCP">>
bits(flags) == {i - 1 : i \in {j \in 1..Len(SPP) : SPP[j] \in flags}}

\* local_addr, peer_addr and accept: as much of the storage as was filled.
read_name(storage, len) == read_sockaddr(SubSeq(storage, 1, len))
=============================================================================

---------------------------- MODULE AssocReports ----------------------------
(***************************************************************************)
(* SCTP_STATUS, SCTP_GET_PEER_ADDR_INFO and SCTP_GET_ASSOC_STATS: the      *)
(* structures that sys.rs declares for the kernel to fill, and what        *)
(* types.rs makes of them. P is the pointer width and W the alignment of   *)
(* 64-bit integers, both 4 or 8.                                           *)
(***************************************************************************)
EXTENDS Cmsg

\* #[repr(C)]: members as they are; sockaddr_storage is a byte array.
Storage(name) == Blob(name, 128, 1)
U64(name, W) == Blob(name, 8, W)
Packed4(members) == [i \in 1..Len(members) |-> [members[i] EXCEPT !.a = 1]]

sctp_paddrinfo ==
    Packed4(<<Member("spinfo_assoc_id", 4), Storage("spinfo_address"), Member("spinfo_state", 4),
              Member("spinfo_cwnd", 4), Member("spinfo_srtt", 4), Member("spinfo_rto", 4),
              Member("spinfo_mtu", 4)>>)

sctp_status ==
    <<Member("sstat_assoc_id", 4), Member("sstat_state", 4), Member("sstat_rwnd", 4),
      Member("sstat_unackdata", 2), Member("sstat_penddata", 2), Member("sstat_instrms", 2),
      Member("sstat_outstrms", 2), Member("sstat_fragmentation_point", 4),
      Blob("sstat_primary", SizeOfStruct(sctp_paddrinfo), 1)>>

sas_counters ==
    <<"sas_maxrto", "sas_isacks", "sas_osacks", "sas_opackets", "sas_ipackets",
      "sas_rtxchunks", "sas_outofseqtsns", "sas_idupchunks", "sas_gapcnt",
      "sas_ouodchunks", "sas_iuodchunks", "sas_oodchunks", "sas_iodchunks",
      "sas_octrlchunks", "sas_ictrlchunks">>

U64s(names, W) == [i \in 1..Len(names) |-> U64(names[i], W)]

\* Mutant: without the padding that a pointer-aligned address needs.
sctp_assoc_stats_unpadded(P, W) ==
    <<Member("sas_assoc_id", 4), Storage("sas_obs_rto_ipaddr")>> \o U64s(sas_counters, W)

sctp_assoc_stats(P, W) ==
    <<Member("sas_assoc_id", 4)>>
        \o (IF P = 8 THEN <<Member("_pad", 4)>> ELSE << >>)
        \o <<Storage("sas_obs_rto_ipaddr")>> \o U64s(sas_counters, W)

PeerAddrState_from_raw(bytes) ==
    Variant(<<"Inactive", "PotentiallyFailed", "Active", "Unconfirmed">>, bytes)

AssocState_from_raw(bytes) ==
    Variant(<<"Empty", "Closed", "CookieWait", "CookieEchoed", "Established",
              "ShutdownPending", "ShutdownSent", "ShutdownReceived", "ShutdownAckSent">>, bytes)

PeerAddrInfo_from_sys(raw) ==
    LET member(name) == Raw(sctp_paddrinfo, raw, name)
    IN  [assoc_id |-> member("spinfo_assoc_id"),
         address |-> read_sockaddr(member("spinfo_address")),
         state |-> PeerAddrState_from_raw(member("spinfo_state")), cwnd |-> member("spinfo_cwnd"),
         srtt |-> member("spinfo_srtt"), rto |-> member("spinfo_rto"),
         mtu |-> member("spinfo_mtu")]

AssocStatus_from_sys(raw) ==
    LET member(name) == Raw(sctp_status, raw, name)
    IN  [assoc_id |-> member("sstat_assoc_id"),
         state |-> AssocState_from_raw(member("sstat_state")),
         rwnd |-> member("sstat_rwnd"), unackdata |-> member("sstat_unackdata"),
         penddata |-> member("sstat_penddata"), instrms |-> member("sstat_instrms"),
         outstrms |-> member("sstat_outstrms"),
         fragmentation_point |-> member("sstat_fragmentation_point"),
         primary |-> PeerAddrInfo_from_sys(member("sstat_primary"))]

AssocStats_from_sys(raw, P, W) ==
    LET member(name) == Raw(sctp_assoc_stats(P, W), raw, name)
    IN  [assoc_id |-> member("sas_assoc_id"),
         retransmitted_chunks |-> member("sas_rtxchunks"),
         gap_acks |-> member("sas_gapcnt"),
         out_of_sequence_tsns |-> member("sas_outofseqtsns"),
         sacks_sent |-> member("sas_osacks"), sacks_received |-> member("sas_isacks"),
         control_chunks_sent |-> member("sas_octrlchunks"),
         control_chunks_received |-> member("sas_ictrlchunks"),
         ordered_data_chunks_sent |-> member("sas_oodchunks"),
         ordered_data_chunks_received |-> member("sas_iodchunks"),
         unordered_data_chunks_sent |-> member("sas_ouodchunks"),
         unordered_data_chunks_received |-> member("sas_iuodchunks"),
         duplicate_chunks_received |-> member("sas_idupchunks"),
         packets_sent |-> member("sas_opackets"), packets_received |-> member("sas_ipackets"),
         max_rto_kernel_ticks |-> member("sas_maxrto"),
         max_rto_address |-> read_sockaddr(member("sas_obs_rto_ipaddr"))]

-----------------------------------------------------------------------------
(* The kernel's structures (external); a member has the name of the field  *)
(* that it is to become. struct sctp_paddrinfo is packed and aligned to 4, *)
(* struct sockaddr_storage is aligned like a pointer.                      *)

KernelSpinfoState == [Inactive |-> 0, PotentiallyFailed |-> 1, Active |-> 2, Unconfirmed |-> 3]
KernelSstatState ==
    [Empty |-> 0, Closed |-> 1, CookieWait |-> 2, CookieEchoed |-> 3, Established |-> 4,
     ShutdownPending |-> 5, ShutdownSent |-> 6, ShutdownReceived |-> 7, ShutdownAckSent |-> 8]

KernelPaddrInfo ==
    <<Member("assoc_id", 4), Blob("address", 128, 4), Member("state", 4), Member("cwnd", 4),
      Member("srtt", 4), Member("rto", 4), Member("mtu", 4)>>

KernelStatus ==
    <<Member("assoc_id", 4), Member("state", 4), Member("rwnd", 4), Member("unackdata", 2),
      Member("penddata", 2), Member("instrms", 2), Member("outstrms", 2),
      Member("fragmentation_point", 4), Blob("primary", 152, 4)>>

KernelAssocStats(P, W) ==
    <<Member("assoc_id", 4), Blob("max_rto_address", 128, P)>>
        \o U64s(<<"max_rto_kernel_ticks", "sacks_received", "sacks_sent", "packets_sent",
                  "packets_received", "retransmitted_chunks", "out_of_sequence_tsns",
                  "duplicate_chunks_received", "gap_acks", "unordered_data_chunks_sent",
                  "unordered_data_chunks_received", "ordered_data_chunks_sent",
                  "ordered_data_chunks_received", "control_chunks_sent",
                  "control_chunks_received">>, W)
=============================================================================

----------------------------- MODULE MCSockOpts -----------------------------
EXTENDS SockOpts

\* Requests that leave fields zero, that conflict with each other or with the
\* defaults (12 retransmissions exceed those of two paths once one of them is
\* set to 2), and that use every flag.
MCRtoInfos == {[initial |-> 0, max |-> 1, min |-> 0], [initial |-> 5, max |-> 3, min |-> 1]}
MCAssocInfos == {[asocmaxrxt |-> 12, cookie_life |-> 0], [asocmaxrxt |-> 0, cookie_life |-> 2]}
MCSackInfos == {[delay_ms |-> 0, freq |-> 1], [delay_ms |-> 7, freq |-> 0],
                [delay_ms |-> 501, freq |-> 3]}
MCPeerAddrParams == {[hb_interval |-> 1, path_max_rxt |-> 0, flags |-> {"HB_ENABLE"}],
                     [hb_interval |-> 1, path_max_rxt |-> 2, flags |-> {"HB_DISABLE"}],
                     [hb_interval |-> 3, path_max_rxt |-> 0, flags |-> {"HB_DEMAND"}]}
MCInitParams == {[num_ostreams |-> 1, max_instreams |-> 2, max_attempts |-> 0,
                  max_init_timeo |-> 3]}
=============================================================================

--------------------------- MODULE SockOptsProofs ---------------------------
(***************************************************************************)
(* Theorems about SockOpts, for every set of associations, notification    *)
(* classes and requests, and every number of calls.                        *)
(***************************************************************************)
EXTENDS SockOpts, TLAPS

USE AssocsAssumption DEF AssocsAssumption

-----------------------------------------------------------------------------
(* The inductive invariant: the kernel's parameters p of an association,   *)
(* or its defaults, agree with what was asked for, w, option by option.    *)

InitAgree(p, w) ==
    /\ DOMAIN p = {"sinit_num_ostreams", "sinit_max_instreams", "sinit_max_attempts",
                   "sinit_max_init_timeo"}
    /\ InitParams_from_sys(p) = w

RtoAgree(p, w) == DOMAIN p = {"srto_initial", "srto_max", "srto_min"} /\ rto_info(p) = w

AssocAgree(p, w) ==
    DOMAIN p = {"sasoc_asocmaxrxt", "sasoc_cookie_life"} /\ assoc_info(p) = w

\* The stored delay and frequency agree also while delayed SACK is off.
SackAgree(p, w, on) ==
    /\ p.on \in BOOLEAN /\ p.on = on
    /\ w = [delay_ms |-> p.sack_delay, freq |-> p.sack_freq]

PathAgree(p, w) == p.hb \in BOOLEAN /\ PeerAddrParams_from_sys(p) = w

PathsAgree(p, w) == DOMAIN p = DOMAIN w /\ \A i \in DOMAIN p : PathAgree(p[i], w[i])

SubAgree(p, w) == w.must \subseteq p.subscribe /\ p.subscribe \subseteq w.may

\* The fields that a getter hands on unchanged, or as a bool.
Plain == {"primary", "autoclose", "sndbuf", "rcvbuf"}
Flags == {"nodelay", "reuse", "reuse_port"}

KernFields == {"init", "rto", "assoc", "sack", "paddr", "paths", "subscribe"} \cup Plain \cup Flags
WantFields == {"init_params", "rto_info", "assoc_info", "sack", "sack_on", "peer_addr_params",
               "paths", "must", "may"} \cup Plain \cup Flags

Agree(p, w) ==
    /\ DOMAIN p = KernFields /\ DOMAIN w = WantFields
    /\ InitAgree(p.init, w.init_params)
    /\ RtoAgree(p.rto, w.rto_info)
    /\ AssocAgree(p.assoc, w.assoc_info)
    /\ SackAgree(p.sack, w.sack, w.sack_on)
    /\ PathAgree(p.paddr, w.peer_addr_params)
    /\ PathsAgree(p.paths, w.paths)
    /\ \A f \in Plain : p[f] = w[f]
    /\ \A f \in Flags : (p[f] # 0) = w[f]
    /\ SubAgree(p, w)

\* The associations, and the subscribe_events that is under way: what it has
\* been through is subscribed, and the rest is still to come.
LifeInvariant ==
    /\ object \in {"listener", "endpoint", "stream"}
    /\ at \in [Assocs -> {"none", "socket", "stream"}]
    /\ phase \in {"building", "open", "dropped"}
    /\ loop \in Seq(Events)
    /\ loop # << >> => /\ pick.s = FUTURE \/ (pick.s \in Assocs /\ at[pick.s] = "stream")
                       /\ \A i \in 1..Len(loop) : loop[i] \in Picked
                       /\ Picked \subseteq kern[pick.s].subscribe \cup {loop[i] : i \in 1..Len(loop)}

ValueInvariant ==
    /\ DOMAIN kern = Keys /\ DOMAIN want = Keys
    /\ \A k \in Keys : Agree(kern[k], want[k])
    /\ \A a \in Assocs : at[a] # "none" => DOMAIN kern[a].paths = Paths

SettingsInvariant == LifeInvariant /\ ValueInvariant

-----------------------------------------------------------------------------
(* One option at a time.                                                   *)

\* Changing one option, as in Stored and in the requests, leaves the others.
LEMMA OneOption ==
    ASSUME NEW p, NEW w, Agree(p, w), NEW x, NEW y
    PROVE  /\ InitAgree(x, y) => Agree([p EXCEPT !["init"] = x], [w EXCEPT !.init_params = y])
           /\ RtoAgree(x, y) => Agree([p EXCEPT !["rto"] = x], [w EXCEPT !.rto_info = y])
           /\ AssocAgree(x, y) => Agree([p EXCEPT !["assoc"] = x], [w EXCEPT !.assoc_info = y])
           /\ \A f \in Plain : x = y => Agree([p EXCEPT ![f] = x], [w EXCEPT ![f] = y])
           /\ \A f \in Flags : (x # 0) = y => Agree([p EXCEPT ![f] = x], [w EXCEPT ![f] = y])
  <1>1. InitAgree(x, y) => Agree([p EXCEPT !["init"] = x], [w EXCEPT !.init_params = y])
    BY DEF Agree, KernFields, WantFields, Plain, Flags, SubAgree
  <1>2. RtoAgree(x, y) => Agree([p EXCEPT !["rto"] = x], [w EXCEPT !.rto_info = y])
    BY DEF Agree, KernFields, WantFields, Plain, Flags, SubAgree
  <1>3. AssocAgree(x, y) => Agree([p EXCEPT !["assoc"] = x], [w EXCEPT !.assoc_info = y])
    BY DEF Agree, KernFields, WantFields, Plain, Flags, SubAgree
  <1>4. \A f \in Plain : x = y => Agree([p EXCEPT ![f] = x], [w EXCEPT ![f] = y])
    BY DEF Agree, KernFields, WantFields, Plain, Flags, SubAgree
  <1>5. \A f \in Flags : (x # 0) = y => Agree([p EXCEPT ![f] = x], [w EXCEPT ![f] = y])
    BY DEF Agree, KernFields, WantFields, Plain, Flags, SubAgree
  <1> QED
    BY <1>1, <1>2, <1>3, <1>4, <1>5

LEMMA InitKept ==
    ASSUME NEW p, NEW w, Agree(p, w), NEW r \in InitParamsSet
    PROVE  Agree(Stored("init", p, InitParams_to_sys(r)), [w EXCEPT !.init_params = Kept(@, r)])
  <1> DEFINE x == Kept(p.init, InitParams_to_sys(r))
             y == Kept(w.init_params, r)
  <1>1. InitAgree(x, y)
    BY RequestsAssumption DEF Agree, InitAgree, Kept, InitParams_to_sys, InitParams_from_sys
  <1>2. /\ Stored("init", p, InitParams_to_sys(r)) = [p EXCEPT !["init"] = x]
        /\ [w EXCEPT !.init_params = Kept(@, r)] = [w EXCEPT !.init_params = y]
    BY DEF Stored
  <1>3. InitAgree(x, y) => Agree([p EXCEPT !["init"] = x], [w EXCEPT !.init_params = y])
    <2> HIDE DEF x, y
    <2> QED
      BY OneOption
  <1> QED
    BY <1>1, <1>2, <1>3, Zenon

LEMMA RtoKept ==
    ASSUME NEW p, NEW w, Agree(p, w), NEW r \in RtoInfos
    PROVE  Agree(Stored("rto", p, sctp_rtoinfo(r)), [w EXCEPT !.rto_info = Kept(@, r)])
  <1> DEFINE x == Kept(p.rto, sctp_rtoinfo(r))
             y == Kept(w.rto_info, r)
  <1>1. RtoAgree(x, y)
    BY RequestsAssumption DEF Agree, RtoAgree, Kept, sctp_rtoinfo, rto_info
  <1>2. /\ Stored("rto", p, sctp_rtoinfo(r)) = [p EXCEPT !["rto"] = x]
        /\ [w EXCEPT !.rto_info = Kept(@, r)] = [w EXCEPT !.rto_info = y]
    BY DEF Stored
  <1>3. RtoAgree(x, y) => Agree([p EXCEPT !["rto"] = x], [w EXCEPT !.rto_info = y])
    <2> HIDE DEF x, y
    <2> QED
      BY OneOption
  <1> QED
    BY <1>1, <1>2, <1>3, Zenon

LEMMA AssocKept ==
    ASSUME NEW p, NEW w, Agree(p, w), NEW r \in AssocInfos
    PROVE  Agree(Stored("assoc", p, sctp_assocparams(r)), [w EXCEPT !.assoc_info = Kept(@, r)])
  <1> DEFINE x == Kept(p.assoc, sctp_assocparams(r))
             y == Kept(w.assoc_info, r)
  <1>1. AssocAgree(x, y)
    BY RequestsAssumption DEF Agree, AssocAgree, Kept, sctp_assocparams, assoc_info
  <1>2. /\ Stored("assoc", p, sctp_assocparams(r)) = [p EXCEPT !["assoc"] = x]
        /\ [w EXCEPT !.assoc_info = Kept(@, r)] = [w EXCEPT !.assoc_info = y]
    BY DEF Stored
  <1>3. AssocAgree(x, y) => Agree([p EXCEPT !["assoc"] = x], [w EXCEPT !.assoc_info = y])
    <2> HIDE DEF x, y
    <2> QED
      BY OneOption
  <1> QED
    BY <1>1, <1>2, <1>3, Zenon

\* The request of set_delayed_sack, as set_delayed_sack promises it.
SackAsked(w, info) ==
    [w EXCEPT
        !.sack = Kept(@, IF info.freq = 1 THEN [info EXCEPT !.freq = 0] ELSE info),
        !.sack_on = info.freq # 1 /\ (@ \/ info.delay_ms # 0 \/ info.freq # 0)]

LEMMA SackKept ==
    ASSUME NEW p, NEW w, Agree(p, w), NEW info \in SackInfos
    PROVE  Agree(Stored("sack", p, sctp_sack_info(info)), SackAsked(w, info))
  <1> DEFINE raw == sctp_sack_info(info)
             x == [sack_delay |-> IF raw.sack_delay # 0 THEN raw.sack_delay
                                  ELSE p.sack.sack_delay,
                   sack_freq |-> IF raw.sack_freq > 1 THEN raw.sack_freq
                                 ELSE p.sack.sack_freq,
                   on |-> /\ raw.sack_freq # 1
                          /\ p.sack.on \/ raw.sack_delay # 0 \/ raw.sack_freq > 1]
             y == Kept(w.sack, IF info.freq = 1 THEN [info EXCEPT !.freq = 0] ELSE info)
             on == info.freq # 1 /\ (w.sack_on \/ info.delay_ms # 0 \/ info.freq # 0)
  <1>1. Stored("sack", p, raw) = [p EXCEPT !.sack = x]
    BY DEF Stored
  <1>2. SackAsked(w, info) = [w EXCEPT !.sack = y, !.sack_on = on]
    BY DEF SackAsked
  <1>3. SackAgree(x, y, on)
    <2>1. info \in [delay_ms : Nat, freq : Nat] /\ SackAgree(p.sack, w.sack, w.sack_on)
      BY RequestsAssumption DEF Agree
    <2>2. x.on \in BOOLEAN /\ x.on = on
      <3>1. raw.sack_freq = info.freq /\ raw.sack_delay = info.delay_ms
        BY DEF sctp_sack_info
      <3>2. info.freq # 1 => (info.freq > 1 <=> info.freq # 0)
        BY <2>1
      <3>3. p.sack.on = w.sack_on /\ p.sack.on \in BOOLEAN
        BY <2>1 DEF SackAgree
      <3>4. x.on = (info.freq # 1 /\ (w.sack_on \/ info.delay_ms # 0 \/ info.freq > 1))
        BY <3>1, <3>3
      <3>5. on \in BOOLEAN
        OBVIOUS
      <3>6. (info.freq # 1 /\ (w.sack_on \/ info.delay_ms # 0 \/ info.freq > 1)) <=> on
        BY <3>2
      <3> HIDE DEF x, on
      <3> QED
        BY <3>4, <3>5, <3>6
    <2>3. y = [delay_ms |-> x.sack_delay, freq |-> x.sack_freq]
      BY <2>1 DEF SackAgree, sctp_sack_info, Kept
    <2> QED
      BY <2>2, <2>3 DEF SackAgree
  <1> HIDE DEF x, y, on
  <1> QED
    BY <1>1, <1>2, <1>3 DEF Agree, KernFields, WantFields, Plain, Flags, SubAgree

\* A path, when setsockopt accepts the flags.
LEMMA PathKept ==
    ASSUME NEW p, NEW w, PathAgree(p, w), NEW params \in PeerAddrParamsSet, NEW addr,
           ~({"HB_ENABLE", "HB_DISABLE"} \subseteq params.flags)
    PROVE  PathAgree(PathStored(p, sctp_paddrparams(addr, params)), Adjusted(w, params))
  <1> DEFINE raw == sctp_paddrparams(addr, params)
  <1>1. /\ raw.spp_hbinterval = params.hb_interval
        /\ raw.spp_pathmaxrxt = params.path_max_rxt /\ raw.spp_flags = params.flags
    BY DEF sctp_paddrparams
  <1>2. /\ w.hb_interval = p.spp_hbinterval /\ w.path_max_rxt = p.spp_pathmaxrxt
        /\ w.hb = p.hb /\ p.hb \in BOOLEAN
    BY DEF PathAgree, PeerAddrParams_from_sys
  <1> HIDE DEF raw
  <1>3. PathStored(p, raw).hb = Adjusted(w, params).hb /\ PathStored(p, raw).hb \in BOOLEAN
    BY <1>1, <1>2 DEF PathStored, Adjusted
  <1> QED
    BY <1>1, <1>2, <1>3 DEF PathAgree, PeerAddrParams_from_sys, PathStored, Adjusted, raw

\* Without an address, and with one.
LEMMA PathsKept ==
    ASSUME NEW p, NEW w, Agree(p, w), NEW params \in PeerAddrParamsSet, NEW addr,
           ~({"HB_ENABLE", "HB_DISABLE"} \subseteq params.flags)
    PROVE  /\ addr = NoAddr => Agree(Stored("paddr", p, sctp_paddrparams(addr, params)),
                                     PathsAsked(w, addr, params))
           /\ addr # NoAddr =>
                Agree([p EXCEPT !.paths[addr.no] = PathStored(@, sctp_paddrparams(addr, params))],
                      PathsAsked(w, addr, params))
  <1> DEFINE raw == sctp_paddrparams(addr, params)
             x == [i \in DOMAIN p.paths |-> PathStored(p.paths[i], raw)]
             y == [i \in DOMAIN w.paths |-> Adjusted(w.paths[i], params)]
             x0 == PathStored(p.paddr, raw)
             y0 == Adjusted(w.peer_addr_params, params)
             x1 == [p.paths EXCEPT ![addr.no] = PathStored(@, raw)]
             y1 == [i \in DOMAIN w.paths |-> IF i = addr.no THEN Adjusted(w.paths[i], params)
                                             ELSE w.paths[i]]
  <1>1. /\ Stored("paddr", p, raw) = [p EXCEPT !.paddr = x0, !.paths = x]
        /\ [p EXCEPT !.paths[addr.no] = PathStored(@, raw)] = [p EXCEPT !.paths = x1]
    BY DEF Stored
  <1>2. /\ addr = NoAddr => PathsAsked(w, addr, params) =
               [w EXCEPT !.peer_addr_params = y0, !.paths = y]
        /\ addr # NoAddr => PathsAsked(w, addr, params) =
               [w EXCEPT !.peer_addr_params = @, !.paths = y1]
    BY DEF PathsAsked
  <1>3. PathAgree(p.paddr, w.peer_addr_params) /\ PathsAgree(p.paths, w.paths)
    BY DEF Agree
  <1>4. \A q, v : PathAgree(q, v) => PathAgree(PathStored(q, raw), Adjusted(v, params))
    BY PathKept
  <1>5. PathsAgree(x, y) /\ PathAgree(x0, y0)
    BY <1>3, <1>4 DEF PathsAgree
  <1>6. PathsAgree(x1, y1)
    BY <1>3, <1>4 DEF PathsAgree
  <1> HIDE DEF x, y, x0, y0, x1, y1, raw
  <1>7. addr = NoAddr => Agree(Stored("paddr", p, raw), PathsAsked(w, addr, params))
    <2> DEFINE P == [p EXCEPT !.paddr = x0, !.paths = x]
               W == [w EXCEPT !.peer_addr_params = y0, !.paths = y]
    <2>1. /\ DOMAIN P = KernFields /\ P.paddr = x0 /\ P.paths = x
          /\ \A f \in KernFields \ {"paddr", "paths"} : P[f] = p[f]
      BY DEF Agree, KernFields
    <2>2. /\ DOMAIN W = WantFields /\ W.peer_addr_params = y0 /\ W.paths = y
          /\ \A f \in WantFields \ {"peer_addr_params", "paths"} : W[f] = w[f]
      BY DEF Agree, WantFields
    <2> HIDE DEF P, W
    <2>3. Agree(P, W)
      BY <1>5, <2>1, <2>2 DEF Agree, KernFields, WantFields, Plain, Flags, SubAgree
    <2> QED
      BY <1>1, <1>2, <2>3 DEF P, W
  <1>8. addr # NoAddr => Agree([p EXCEPT !.paths = x1], PathsAsked(w, addr, params))
    BY <1>2, <1>6 DEF Agree, KernFields, WantFields, Plain, Flags, SubAgree
  <1> QED
    BY <1>1, <1>7, <1>8 DEF raw

\* Subscriptions: one event, and what subscribe_events may and must have done.
LEMMA EventKept ==
    ASSUME NEW p, NEW w, Agree(p, w), NEW event, NEW events
    PROVE  /\ \A on \in BOOLEAN :
                Agree(Stored("event", p, sctp_event(event, on)), Subscribed(w, event, on))
           /\ Agree(Stored("event", p, sctp_event(event, TRUE)),
                    [w EXCEPT !.may = @ \cup {event}])
           /\ event \in events /\ events \subseteq p.subscribe \cup {event} =>
                Agree(Stored("event", p, sctp_event(event, TRUE)),
                      [w EXCEPT !.must = @ \cup events, !.may = @ \cup events])
  <1>1. /\ Stored("event", p, sctp_event(event, TRUE)) =
              [p EXCEPT !.subscribe = @ \cup {event}]
        /\ Stored("event", p, sctp_event(event, FALSE)) =
              [p EXCEPT !.subscribe = @ \ {event}]
    BY DEF Stored, sctp_event
  <1>2. /\ Subscribed(w, event, TRUE) = [w EXCEPT !.must = @ \cup {event}, !.may = @ \cup {event}]
        /\ Subscribed(w, event, FALSE) = [w EXCEPT !.must = @ \ {event}, !.may = @ \ {event}]
    BY DEF Subscribed
  <1>3. Agree([p EXCEPT !.subscribe = @ \cup {event}],
              [w EXCEPT !.must = @ \cup {event}, !.may = @ \cup {event}])
    BY DEF Agree, KernFields, WantFields, Plain, Flags, SubAgree
  <1>4. Agree([p EXCEPT !.subscribe = @ \ {event}],
              [w EXCEPT !.must = @ \ {event}, !.may = @ \ {event}])
    BY DEF Agree, KernFields, WantFields, Plain, Flags, SubAgree
  <1>5. Agree([p EXCEPT !.subscribe = @ \cup {event}], [w EXCEPT !.may = @ \cup {event}])
    BY DEF Agree, KernFields, WantFields, Plain, Flags, SubAgree
  <1>6. event \in events /\ events \subseteq p.subscribe \cup {event} =>
            Agree([p EXCEPT !.subscribe = @ \cup {event}],
                  [w EXCEPT !.must = @ \cup events, !.may = @ \cup events])
    BY DEF Agree, KernFields, WantFields, Plain, Flags, SubAgree
  <1>7. \A on \in BOOLEAN :
          Agree(Stored("event", p, sctp_event(event, on)), Subscribed(w, event, on))
    BY <1>1, <1>2, <1>3, <1>4
  <1> QED
    BY <1>1, <1>5, <1>6, <1>7

\* A new association takes over the defaults, an accepted one the listener's
\* socket-level options.
LEMMA InheritKept ==
    ASSUME NEW p, NEW w, Agree(p, w), NEW q, NEW v, Agree(q, v)
    PROVE  /\ Agree([p EXCEPT !.paths = [i \in Paths |-> p.paddr]],
                    [w EXCEPT !.paths = [i \in Paths |-> w.peer_addr_params]])
           /\ Agree(Inherits(p, q), Inherits(w, v))
  <1>1. PathsAgree([i \in Paths |-> p.paddr], [i \in Paths |-> w.peer_addr_params])
    BY DEF Agree, PathsAgree
  <1>2. Agree([p EXCEPT !.paths = [i \in Paths |-> p.paddr]],
              [w EXCEPT !.paths = [i \in Paths |-> w.peer_addr_params]])
    BY <1>1 DEF Agree, KernFields, WantFields, Plain, Flags, SubAgree
  <1>3. Agree(Inherits(p, q), Inherits(w, v))
    BY DEF Inherits, Agree, KernFields, WantFields, Plain, Flags, SubAgree
  <1> QED
    BY <1>2, <1>3

-----------------------------------------------------------------------------
(* Calls.                                                                  *)

\* FUTURE stands for the socket's own association or for its defaults.
LEMMA OwnTargets ==
    ASSUME NEW s, NEW opt
    PROVE  /\ Targets(s, opt, FUTURE) = {s} /\ Promised(s, FUTURE) = {s}
           /\ Known(s, opt, FUTURE)
  BY DEF Targets, Promised, Known, FUTURE, CURRENT, ALL

\* The associations that the kernel changes are those that the call promises,
\* for every id that its object accepts.
LEMMA TargetsPromised ==
    ASSUME LifeInvariant, NEW s \in Sockets, NEW id \in Ids(s), NEW opt,
           opt \notin SocketLevel \/ id = FUTURE, Known(s, opt, id)
    PROVE  Targets(s, opt, id) = Promised(s, id) /\ Promised(s, id) \subseteq Keys
  <1>1. s \in Keys
    BY DEF Sockets, Keys
  <1>2. CASE id = FUTURE
    BY <1>1, <1>2, OwnTargets
  <1>3. CASE s # FUTURE
    BY <1>1, <1>3 DEF Targets, Promised
  <1>4. CASE id # FUTURE /\ s = FUTURE
    <2>1. object = "endpoint" /\ opt \notin SocketLevel /\ id \in Keys \cup {CURRENT, ALL}
      BY <1>4 DEF Ids, Sockets, builder_ids, listener_ids, common_ids, LifeInvariant
    <2>2. OnSocket \subseteq Keys /\ FUTURE \in Keys
      BY DEF OnSocket, Keys
    <2>3. CASE id = CURRENT
      BY <1>4, <2>1, <2>2, <2>3 DEF Targets, Promised
    <2>4. CASE id = ALL
      BY <1>4, <2>1, <2>2, <2>4 DEF Targets, Promised, CURRENT, ALL
    <2>5. CASE id \notin {CURRENT, ALL}
      BY <1>4, <2>1, <2>5 DEF Targets, Promised
    <2> QED
      BY <2>3, <2>4, <2>5
  <1> QED
    BY <1>2, <1>3, <1>4

\* What every option method leaves alone.
Method == /\ loop = << >> /\ UNCHANGED <<object, at, loop>>
          /\ phase' \in {"building", "open", "dropped"}

LEMMA ValuesKept ==
    ASSUME SettingsInvariant, Method, DOMAIN kern' = Keys, DOMAIN want' = Keys,
           \A k \in Keys : /\ Agree(kern'[k], want'[k])
                           /\ DOMAIN kern'[k].paths = DOMAIN kern[k].paths
    PROVE  SettingsInvariant'
  <1>1. LifeInvariant'
    BY DEF SettingsInvariant, LifeInvariant, Method
  <1>2. Assocs \subseteq Keys
    BY DEF Keys
  <1>3. ValueInvariant'
    BY <1>2 DEF SettingsInvariant, ValueInvariant, Method
  <1> QED
    BY <1>1, <1>3 DEF SettingsInvariant

Options == {"init", "rto", "assoc", "sack", "paddr", "event", "nodelay", "reuse", "reuse_port",
            "autoclose", "sndbuf", "rcvbuf"}

LEMMA StoredPaths ==
    ASSUME NEW p, DOMAIN p = KernFields, NEW opt \in Options, NEW raw
    PROVE  DOMAIN Stored(opt, p, raw).paths = DOMAIN p.paths
  <1>1. CASE opt = "sack"
    BY <1>1 DEF Stored, KernFields, Plain, Flags
  <1>2. CASE opt = "paddr"
    <2> DEFINE x == [i \in DOMAIN p.paths |-> PathStored(p.paths[i], raw)]
    <2>1. Stored(opt, p, raw).paths = x
      BY <1>2 DEF Stored, KernFields
    <2> QED
      BY <2>1
  <1>3. CASE opt = "event"
    BY <1>3 DEF Stored, KernFields, Plain, Flags
  <1>4. CASE opt \in {"init", "rto", "assoc"}
    BY <1>4 DEF Stored, KernFields, Plain, Flags
  <1>5. CASE opt \in {"nodelay", "reuse", "reuse_port", "autoclose"}
    BY <1>5 DEF Stored, KernFields, Plain, Flags
  <1>6. CASE opt \in {"sndbuf", "rcvbuf"}
    BY <1>6 DEF Stored, KernFields, Plain, Flags
  <1> QED
    BY <1>1, <1>2, <1>3, <1>4, <1>5, <1>6 DEF Options

\* new[k] is what the call asks for association k.
LEMMA CallKeeps ==
    ASSUME SettingsInvariant, Method,
           NEW s \in Sockets, NEW id \in Ids(s), NEW opt \in Options, NEW raw, NEW new,
           opt \notin SocketLevel \/ id = FUTURE,
           \A k \in Keys : ~Refused(opt, kern[k], raw) => Agree(Stored(opt, kern[k], raw), new[k]),
           kern' = setsockopt(s, opt, id, raw),
           want' = IF Accepts(s, opt, id, raw)
                   THEN [k \in Keys |-> IF k \in Promised(s, id) THEN new[k] ELSE want[k]]
                   ELSE want
    PROVE  SettingsInvariant'
  <1>0. /\ DOMAIN kern = Keys /\ DOMAIN want = Keys /\ LifeInvariant
        /\ \A k \in Keys : Agree(kern[k], want[k]) /\ DOMAIN kern[k] = KernFields
    BY DEF SettingsInvariant, ValueInvariant, Agree
  <1>1. CASE ~Accepts(s, opt, id, raw)
    <2>1. kern' = kern /\ want' = want
      BY <1>1 DEF setsockopt
    <2> QED
      BY <1>0, <2>1, ValuesKept
  <1>2. CASE Accepts(s, opt, id, raw)
    <2>1. Targets(s, opt, id) = Promised(s, id)
      BY <1>0, <1>2, TargetsPromised DEF Accepts
    <2>2. \A k \in Promised(s, id) : ~Refused(opt, kern[k], raw)
      BY <1>2, <2>1 DEF Accepts
    <2>3. /\ kern' = [k \in Keys |-> IF k \in Promised(s, id)
                                    THEN Stored(opt, kern[k], raw) ELSE kern[k]]
          /\ want' = [k \in Keys |-> IF k \in Promised(s, id) THEN new[k] ELSE want[k]]
      BY <1>2, <2>1 DEF setsockopt
    <2>4. \A k \in Keys : DOMAIN Stored(opt, kern[k], raw).paths = DOMAIN kern[k].paths
      BY <1>0, StoredPaths
    <2>5. DOMAIN kern' = Keys /\ DOMAIN want' = Keys
      BY <2>3
    <2>6. \A k \in Keys : /\ Agree(kern'[k], want'[k])
                          /\ DOMAIN kern'[k].paths = DOMAIN kern[k].paths
      <3> SUFFICES ASSUME NEW k \in Keys
                   PROVE  /\ Agree(kern'[k], want'[k])
                          /\ DOMAIN kern'[k].paths = DOMAIN kern[k].paths
        OBVIOUS
      <3>1. CASE k \in Promised(s, id)
        <4>1. kern'[k] = Stored(opt, kern[k], raw) /\ want'[k] = new[k]
          BY <2>3, <3>1
        <4> QED
          BY <2>2, <2>4, <3>1, <4>1
      <3>2. CASE k \notin Promised(s, id)
        <4>1. kern'[k] = kern[k] /\ want'[k] = want[k]
          BY <2>3, <3>2
        <4> QED
          BY <1>0, <4>1
      <3> QED
        BY <3>1, <3>2
    <2> QED
      BY <2>5, <2>6, ValuesKept
  <1> QED
    BY <1>1, <1>2

LEMMA InitParamsCall ==
    ASSUME SettingsInvariant, set_init_params
    PROVE  SettingsInvariant'
  <1> SUFFICES
        ASSUME NEW r \in InitParamsSet, Method,
               kern' = setsockopt(FUTURE, "init", FUTURE, InitParams_to_sys(r)),
               want' = IF Accepts(FUTURE, "init", FUTURE, InitParams_to_sys(r))
                       THEN [k \in Keys |-> IF k \in Promised(FUTURE, FUTURE)
                                            THEN [want[k] EXCEPT !.init_params = Kept(@, r)]
                                            ELSE want[k]]
                       ELSE want
        PROVE  SettingsInvariant'
    BY DEF set_init_params, Call, Return, Returned, Ask, MayCall, Method, SettingsInvariant,
           LifeInvariant
  <1> DEFINE raw == InitParams_to_sys(r)
             new == [k \in Keys |-> [want[k] EXCEPT !.init_params = Kept(@, r)]]
  <1>1. \A k \in Keys : Agree(Stored("init", kern[k], raw), new[k])
    BY InitKept DEF SettingsInvariant, ValueInvariant
  <1>2. want' = IF Accepts(FUTURE, "init", FUTURE, raw)
                THEN [k \in Keys |-> IF k \in Promised(FUTURE, FUTURE) THEN new[k] ELSE want[k]]
                ELSE want
    OBVIOUS
  <1>3. FUTURE \in Sockets /\ FUTURE \in Ids(FUTURE) /\ "init" \in Options
    BY DEF set_init_params, Sockets, Ids, builder_ids, Options
  <1> HIDE DEF new, raw
  <1> QED
    BY <1>1, <1>2, <1>3, CallKeeps DEF raw

LEMMA RtoCall ==
    ASSUME SettingsInvariant, set_rto_info
    PROVE  SettingsInvariant'
  <1> SUFFICES
        ASSUME NEW s \in Sockets, NEW id \in Ids(s), NEW r \in RtoInfos, Method,
               kern' = setsockopt(s, "rto", id, sctp_rtoinfo(r)),
               want' = IF Accepts(s, "rto", id, sctp_rtoinfo(r))
                       THEN [k \in Keys |-> IF k \in Promised(s, id)
                                            THEN [want[k] EXCEPT !.rto_info = Kept(@, r)]
                                            ELSE want[k]]
                       ELSE want
        PROVE  SettingsInvariant'
    BY DEF set_rto_info, Call, Return, Returned, Ask, MayCall, Method, SettingsInvariant,
           LifeInvariant
  <1> DEFINE raw == sctp_rtoinfo(r)
             new == [k \in Keys |-> [want[k] EXCEPT !.rto_info = Kept(@, r)]]
  <1>1. \A k \in Keys : Agree(Stored("rto", kern[k], raw), new[k])
    BY RtoKept DEF SettingsInvariant, ValueInvariant
  <1>2. want' = IF Accepts(s, "rto", id, raw)
                THEN [k \in Keys |-> IF k \in Promised(s, id) THEN new[k] ELSE want[k]]
                ELSE want
    OBVIOUS
  <1>3. "rto" \in Options /\ "rto" \notin SocketLevel
    BY DEF Options, SocketLevel
  <1> HIDE DEF new, raw
  <1> QED
    BY <1>1, <1>2, <1>3, CallKeeps DEF raw

LEMMA AssocCall ==
    ASSUME SettingsInvariant, set_assoc_info
    PROVE  SettingsInvariant'
  <1> SUFFICES
        ASSUME NEW s \in Sockets, NEW id \in Ids(s), NEW r \in AssocInfos, Method,
               kern' = setsockopt(s, "assoc", id, sctp_assocparams(r)),
               want' = IF Accepts(s, "assoc", id, sctp_assocparams(r))
                       THEN [k \in Keys |-> IF k \in Promised(s, id)
                                            THEN [want[k] EXCEPT !.assoc_info = Kept(@, r)]
                                            ELSE want[k]]
                       ELSE want
        PROVE  SettingsInvariant'
    BY DEF set_assoc_info, Call, Return, Returned, Ask, MayCall, Method, SettingsInvariant,
           LifeInvariant
  <1> DEFINE raw == sctp_assocparams(r)
             new == [k \in Keys |-> [want[k] EXCEPT !.assoc_info = Kept(@, r)]]
  <1>1. \A k \in Keys : Agree(Stored("assoc", kern[k], raw), new[k])
    BY AssocKept DEF SettingsInvariant, ValueInvariant
  <1>2. want' = IF Accepts(s, "assoc", id, raw)
                THEN [k \in Keys |-> IF k \in Promised(s, id) THEN new[k] ELSE want[k]]
                ELSE want
    OBVIOUS
  <1>3. "assoc" \in Options /\ "assoc" \notin SocketLevel
    BY DEF Options, SocketLevel
  <1> HIDE DEF new, raw
  <1> QED
    BY <1>1, <1>2, <1>3, CallKeeps DEF raw

LEMMA SackCall ==
    ASSUME SettingsInvariant, set_delayed_sack
    PROVE  SettingsInvariant'
  <1> SUFFICES
        ASSUME NEW s \in Sockets, NEW id \in Ids(s), NEW info \in SackInfos, Method,
               kern' = setsockopt(s, "sack", id, sctp_sack_info(info)),
               want' = IF Accepts(s, "sack", id, sctp_sack_info(info))
                       THEN [k \in Keys |-> IF k \in Promised(s, id)
                                            THEN SackAsked(want[k], info)
                                            ELSE want[k]]
                       ELSE want
        PROVE  SettingsInvariant'
    BY DEF set_delayed_sack, Call, Return, Returned, Ask, MayCall, Method, SettingsInvariant,
           LifeInvariant, SackAsked
  <1> DEFINE raw == sctp_sack_info(info)
             new == [k \in Keys |-> SackAsked(want[k], info)]
  <1>1. \A k \in Keys : Agree(Stored("sack", kern[k], raw), new[k])
    BY SackKept DEF SettingsInvariant, ValueInvariant
  <1>2. want' = IF Accepts(s, "sack", id, raw)
                THEN [k \in Keys |-> IF k \in Promised(s, id) THEN new[k] ELSE want[k]]
                ELSE want
    OBVIOUS
  <1>3. "sack" \in Options /\ "sack" \notin SocketLevel
    BY DEF Options, SocketLevel
  <1> HIDE DEF new, raw
  <1> QED
    BY <1>1, <1>2, <1>3, CallKeeps DEF raw

LEMMA EventForCall ==
    ASSUME SettingsInvariant, subscribe_event_for
    PROVE  SettingsInvariant'
  <1> SUFFICES
        ASSUME NEW s \in Sockets, NEW id \in Ids(s), NEW event \in Events, NEW on \in BOOLEAN, Method,
               kern' = setsockopt(s, "event", id, sctp_event(event, on)),
               want' = IF Accepts(s, "event", id, sctp_event(event, on))
                       THEN [k \in Keys |-> IF k \in Promised(s, id)
                                            THEN Subscribed(want[k], event, on)
                                            ELSE want[k]]
                       ELSE want
        PROVE  SettingsInvariant'
    BY ZenonT(30) DEF subscribe_event_for, Call, Return, Returned, Ask, MayCall, Method, SettingsInvariant,
           LifeInvariant
  <1> DEFINE raw == sctp_event(event, on)
             new == [k \in Keys |-> Subscribed(want[k], event, on)]
  <1>1. \A k \in Keys : Agree(Stored("event", kern[k], raw), new[k])
    BY EventKept DEF SettingsInvariant, ValueInvariant
  <1>2. want' = IF Accepts(s, "event", id, raw)
                THEN [k \in Keys |-> IF k \in Promised(s, id) THEN new[k] ELSE want[k]]
                ELSE want
    OBVIOUS
  <1>3. "event" \in Options /\ "event" \notin SocketLevel
    BY DEF Options, SocketLevel
  <1> HIDE DEF new, raw
  <1> QED
    BY <1>1, <1>2, <1>3, CallKeeps DEF raw

\* Options of the socket, which getters hand on unchanged or as a bool.
LEMMA PlainKept ==
    ASSUME NEW p, NEW w, Agree(p, w), NEW x, NEW b \in BOOLEAN
    PROVE  /\ Agree(Stored("autoclose", p, x), [w EXCEPT !.autoclose = x])
           /\ \A f \in {"sndbuf", "rcvbuf"} :
                Agree(Stored(f, p, x),
                      [w EXCEPT ![f] = 2 * (IF x > MemMax THEN MemMax ELSE x)])
           /\ \A f \in Flags : Agree(Stored(f, p, IF b THEN 1 ELSE 0), [w EXCEPT ![f] = b])
  <1> DEFINE y == 2 * (IF x > MemMax THEN MemMax ELSE x)
             z == IF b THEN 1 ELSE 0
  <1>1. /\ Stored("autoclose", p, x) = [p EXCEPT !["autoclose"] = x]
        /\ \A f \in {"sndbuf", "rcvbuf"} : Stored(f, p, x) = [p EXCEPT ![f] = y]
        /\ \A f \in Flags : Stored(f, p, z) = [p EXCEPT ![f] = z]
    BY DEF Stored, Flags
  <1>2. \A f \in Plain : \A v : Agree([p EXCEPT ![f] = v], [w EXCEPT ![f] = v])
    BY OneOption
  <1>3. "autoclose" \in Plain /\ {"sndbuf", "rcvbuf"} \subseteq Plain
    BY DEF Plain
  <1>4. (z # 0) = b
    OBVIOUS
  <1>5. \A f \in Flags : Agree([p EXCEPT ![f] = z], [w EXCEPT ![f] = b])
    <2> HIDE DEF z
    <2> QED
      BY <1>4, OneOption
  <1> HIDE DEF y, z
  <1>6. Agree([p EXCEPT !["autoclose"] = x], [w EXCEPT !["autoclose"] = x])
    BY <1>2, <1>3
  <1>7. \A f \in {"sndbuf", "rcvbuf"} : Agree(Stored(f, p, x), [w EXCEPT ![f] = y])
    <2> SUFFICES ASSUME NEW f \in {"sndbuf", "rcvbuf"}
                 PROVE  Agree(Stored(f, p, x), [w EXCEPT ![f] = y])
      OBVIOUS
    <2>1. Agree([p EXCEPT ![f] = y], [w EXCEPT ![f] = y])
      BY <1>2, <1>3
    <2>2. Stored(f, p, x) = [p EXCEPT ![f] = y]
      BY <1>1
    <2> QED
      BY <2>1, <2>2, Zenon
  <1>8. \A f \in Flags : Agree(Stored(f, p, z), [w EXCEPT ![f] = b])
    BY <1>1, <1>5
  <1> QED
    BY <1>1, <1>6, <1>7, <1>8 DEF y, z

LEMMA FutureId ==
    ASSUME NEW s
    PROVE  FUTURE \in Ids(s)
  BY DEF Ids, builder_ids, listener_ids, common_ids, Keys

LEMMA NodelayCall ==
    ASSUME SettingsInvariant, set_nodelay
    PROVE  SettingsInvariant'
  <1> SUFFICES
        ASSUME NEW s \in Sockets, NEW nodelay \in BOOLEAN, Method,
               kern' = setsockopt(s, "nodelay", FUTURE, IF nodelay THEN 1 ELSE 0),
               want' = IF Accepts(s, "nodelay", FUTURE, IF nodelay THEN 1 ELSE 0)
                       THEN [k \in Keys |-> IF k \in Promised(s, FUTURE)
                                            THEN [want[k] EXCEPT !.nodelay = nodelay]
                                            ELSE want[k]]
                       ELSE want
        PROVE  SettingsInvariant'
    BY DEF set_nodelay, Call, Return, Returned, Ask, MayCall, Method, SettingsInvariant,
           LifeInvariant
  <1> DEFINE raw == IF nodelay THEN 1 ELSE 0
             new == [k \in Keys |-> [want[k] EXCEPT !.nodelay = nodelay]]
  <1>1. \A k \in Keys : Agree(Stored("nodelay", kern[k], raw), new[k])
    <2>1. "nodelay" \in Flags
      BY DEF Flags
    <2> QED
      BY <2>1, PlainKept DEF SettingsInvariant, ValueInvariant
  <1>2. want' = IF Accepts(s, "nodelay", FUTURE, raw)
                THEN [k \in Keys |-> IF k \in Promised(s, FUTURE) THEN new[k] ELSE want[k]]
                ELSE want
    OBVIOUS
  <1>3. "nodelay" \in Options
    BY DEF Options
  <1> HIDE DEF new, raw
  <1> QED
    BY <1>1, <1>2, <1>3, FutureId, CallKeeps DEF raw

LEMMA ReuseCall ==
    ASSUME SettingsInvariant, set_reuse_address
    PROVE  SettingsInvariant'
  <1> SUFFICES
        ASSUME NEW s \in Sockets, NEW enabled \in BOOLEAN, Method,
               kern' = setsockopt(s, "reuse", FUTURE, IF enabled THEN 1 ELSE 0),
               want' = IF Accepts(s, "reuse", FUTURE, IF enabled THEN 1 ELSE 0)
                       THEN [k \in Keys |-> IF k \in Promised(s, FUTURE)
                                            THEN [want[k] EXCEPT !.reuse = enabled]
                                            ELSE want[k]]
                       ELSE want
        PROVE  SettingsInvariant'
    BY DEF set_reuse_address, Call, Return, Returned, Ask, MayCall, Method, SettingsInvariant,
           LifeInvariant
  <1> DEFINE raw == IF enabled THEN 1 ELSE 0
             new == [k \in Keys |-> [want[k] EXCEPT !.reuse = enabled]]
  <1>1. \A k \in Keys : Agree(Stored("reuse", kern[k], raw), new[k])
    <2>1. "reuse" \in Flags
      BY DEF Flags
    <2> QED
      BY <2>1, PlainKept DEF SettingsInvariant, ValueInvariant
  <1>2. want' = IF Accepts(s, "reuse", FUTURE, raw)
                THEN [k \in Keys |-> IF k \in Promised(s, FUTURE) THEN new[k] ELSE want[k]]
                ELSE want
    OBVIOUS
  <1>3. "reuse" \in Options
    BY DEF Options
  <1> HIDE DEF new, raw
  <1> QED
    BY <1>1, <1>2, <1>3, FutureId, CallKeeps DEF raw

LEMMA ReusePortCall ==
    ASSUME SettingsInvariant, reuse_port
    PROVE  SettingsInvariant'
  <1> SUFFICES
        ASSUME NEW enabled \in BOOLEAN, Method,
               kern' = setsockopt(FUTURE, "reuse_port", FUTURE, IF enabled THEN 1 ELSE 0),
               want' = IF Accepts(FUTURE, "reuse_port", FUTURE, IF enabled THEN 1 ELSE 0)
                       THEN [k \in Keys |-> IF k \in Promised(FUTURE, FUTURE)
                                            THEN [want[k] EXCEPT !.reuse_port = enabled]
                                            ELSE want[k]]
                       ELSE want
        PROVE  SettingsInvariant'
    BY DEF reuse_port, Call, Return, Returned, Ask, MayCall, Method, SettingsInvariant,
           LifeInvariant
  <1> DEFINE raw == IF enabled THEN 1 ELSE 0
             new == [k \in Keys |-> [want[k] EXCEPT !.reuse_port = enabled]]
  <1>1. \A k \in Keys : Agree(Stored("reuse_port", kern[k], raw), new[k])
    <2>1. "reuse_port" \in Flags
      BY DEF Flags
    <2> QED
      BY <2>1, PlainKept DEF SettingsInvariant, ValueInvariant
  <1>2. want' = IF Accepts(FUTURE, "reuse_port", FUTURE, raw)
                THEN [k \in Keys |-> IF k \in Promised(FUTURE, FUTURE) THEN new[k] ELSE want[k]]
                ELSE want
    OBVIOUS
  <1>3. "reuse_port" \in Options /\ FUTURE \in Sockets
    BY DEF Options, reuse_port, Sockets
  <1> HIDE DEF new, raw
  <1> QED
    BY <1>1, <1>2, <1>3, FutureId, CallKeeps DEF raw

LEMMA AutocloseCall ==
    ASSUME SettingsInvariant, set_autoclose
    PROVE  SettingsInvariant'
  <1> SUFFICES
        ASSUME NEW seconds \in {0, 1}, Method,
               kern' = setsockopt(FUTURE, "autoclose", FUTURE, seconds),
               want' = IF Accepts(FUTURE, "autoclose", FUTURE, seconds)
                       THEN [k \in Keys |-> IF k \in Promised(FUTURE, FUTURE)
                                            THEN [want[k] EXCEPT !.autoclose = seconds]
                                            ELSE want[k]]
                       ELSE want
        PROVE  SettingsInvariant'
    BY DEF set_autoclose, Call, Return, Returned, Ask, MayCall, Method, SettingsInvariant,
           LifeInvariant
  <1> DEFINE raw == seconds
             new == [k \in Keys |-> [want[k] EXCEPT !.autoclose = seconds]]
  <1>1. \A k \in Keys : Agree(Stored("autoclose", kern[k], raw), new[k])
    BY PlainKept DEF SettingsInvariant, ValueInvariant
  <1>2. want' = IF Accepts(FUTURE, "autoclose", FUTURE, raw)
                THEN [k \in Keys |-> IF k \in Promised(FUTURE, FUTURE) THEN new[k] ELSE want[k]]
                ELSE want
    OBVIOUS
  <1>3. "autoclose" \in Options /\ FUTURE \in Sockets
    BY DEF Options, set_autoclose
  <1> HIDE DEF new, raw
  <1> QED
    BY <1>1, <1>2, <1>3, FutureId, CallKeeps DEF raw

LEMMA EventCall ==
    ASSUME SettingsInvariant, subscribe_event
    PROVE  SettingsInvariant'
  <1> SUFFICES
        ASSUME NEW s \in Sockets, NEW event \in Events, NEW on \in BOOLEAN, Method,
               kern' = setsockopt(s, "event", FUTURE, sctp_event(event, on)),
               want' = IF Accepts(s, "event", FUTURE, sctp_event(event, on))
                       THEN [k \in Keys |-> IF k \in Promised(s, FUTURE)
                                            THEN Subscribed(want[k], event, on)
                                            ELSE want[k]]
                       ELSE want
        PROVE  SettingsInvariant'
    BY DEF subscribe_event, Call, Return, Returned, Ask, MayCall, Method, SettingsInvariant,
           LifeInvariant, subscribe_event_id
  <1> DEFINE raw == sctp_event(event, on)
             new == [k \in Keys |-> Subscribed(want[k], event, on)]
  <1>1. \A k \in Keys : Agree(Stored("event", kern[k], raw), new[k])
    BY EventKept DEF SettingsInvariant, ValueInvariant
  <1>2. want' = IF Accepts(s, "event", FUTURE, raw)
                THEN [k \in Keys |-> IF k \in Promised(s, FUTURE) THEN new[k] ELSE want[k]]
                ELSE want
    OBVIOUS
  <1>3. "event" \in Options
    BY DEF Options
  <1> HIDE DEF new, raw
  <1> QED
    BY <1>1, <1>2, <1>3, FutureId, CallKeeps DEF raw

\* checked_buffer_size refuses before the kernel is asked.
LEMMA BufferCall ==
    ASSUME SettingsInvariant, set_buffer_size
    PROVE  SettingsInvariant'
  <1>0. /\ DOMAIN kern = Keys /\ DOMAIN want = Keys
        /\ \A k \in Keys : Agree(kern[k], want[k])
    BY DEF SettingsInvariant, ValueInvariant
  <1> SUFFICES
        ASSUME NEW s \in Sockets, NEW opt \in {"sndbuf", "rcvbuf"}, NEW size \in Sizes, Method,
               kern' = IF checked_buffer_size(size)
                       THEN setsockopt(s, opt, FUTURE, size) ELSE kern,
               want' = IF checked_buffer_size(size)
                       THEN [k \in Keys |->
                               IF k \in Promised(s, FUTURE)
                               THEN [want[k] EXCEPT ![opt] =
                                        2 * (IF size > MemMax THEN MemMax ELSE size)]
                               ELSE want[k]]
                       ELSE want
        PROVE  SettingsInvariant'
    BY DEF set_buffer_size, Return, Returned, Ask, MayCall, Method, SettingsInvariant,
           LifeInvariant
  <1>1. CASE ~checked_buffer_size(size)
    <2>1. kern' = kern /\ want' = want
      BY <1>1
    <2> QED
      BY <1>0, <2>1, ValuesKept
  <1>2. CASE checked_buffer_size(size)
    <2> DEFINE new == [k \in Keys |-> [want[k] EXCEPT ![opt] =
                                        2 * (IF size > MemMax THEN MemMax ELSE size)]]
    <2>1. \A k \in Keys : Agree(Stored(opt, kern[k], size), new[k])
      BY <1>0, PlainKept
    <2>2. opt \in Options
      BY DEF Options
    <2>3. Accepts(s, opt, FUTURE, size)
      BY OwnTargets DEF Accepts, Refused
    <2>4. /\ kern' = setsockopt(s, opt, FUTURE, size)
          /\ want' = IF Accepts(s, opt, FUTURE, size)
                     THEN [k \in Keys |-> IF k \in Promised(s, FUTURE) THEN new[k] ELSE want[k]]
                     ELSE want
      BY <1>2, <2>3
    <2> HIDE DEF new
    <2> QED
      BY <2>1, <2>2, <2>4, FutureId, CallKeeps
  <1> QED
    BY <1>1, <1>2

\* An address is one of an association of the socket, or of the stream's.
LEMMA TransportFacts ==
    ASSUME LifeInvariant, NEW s \in Sockets, NEW id, NEW addr \in Addrs, Transport(s, id, addr)
    PROVE  addr.of \in Assocs /\ addr.no \in Paths /\ at[addr.of] # "none" /\ addr # NoAddr
  <1>1. addr.of \in Assocs /\ addr.no \in Paths
    BY DEF Addrs
  <1>2. addr # NoAddr
    BY <1>1 DEF NoAddr, FUTURE
  <1>3. at[addr.of] # "none"
    BY <1>1 DEF Transport, Sockets, OnSocket
  <1> QED
    BY <1>1, <1>2, <1>3

\* Without an address the call is for the associations it promises, with one
\* it is for one path of one association.
LEMMA PathCall ==
    ASSUME SettingsInvariant, set_peer_addr_params
    PROVE  SettingsInvariant'
  <1>0. /\ DOMAIN kern = Keys /\ DOMAIN want = Keys /\ LifeInvariant
        /\ \A k \in Keys : Agree(kern[k], want[k])
        /\ \A a \in Assocs : at[a] # "none" => DOMAIN kern[a].paths = Paths
    BY DEF SettingsInvariant, ValueInvariant
  <1> SUFFICES
        ASSUME NEW s \in Sockets, NEW id \in Ids(s), NEW addr \in OptionalAddrs(s),
               NEW params \in PeerAddrParamsSet, Method,
               kern' = PathSet(s, id, sctp_paddrparams(addr, params)),
               want' = IF PathAccepts(s, id, sctp_paddrparams(addr, params))
                       THEN [k \in Keys |->
                               IF k \in (IF addr = NoAddr THEN Promised(s, id) ELSE {addr.of})
                               THEN PathsAsked(want[k], addr, params)
                               ELSE want[k]]
                       ELSE want
        PROVE  SettingsInvariant'
    <2>1. /\ MayCall /\ UNCHANGED <<object, at, loop>>
          /\ phase' = "dropped" \/ phase' = phase
      BY DEF set_peer_addr_params, Return
    <2>2. Method
      BY <1>0, <2>1 DEF MayCall, Method, LifeInvariant
    <2> QED
      BY <2>2, ZenonT(30) DEF set_peer_addr_params, Return, Returned, Ask
  <1> DEFINE raw == sctp_paddrparams(addr, params)
  <1>1. raw.spp_address = addr /\ raw.spp_flags = params.flags
    BY DEF sctp_paddrparams, pack_optional_addr
  <1>2. \A k : ~Refused("paddr", kern[k], raw) =>
                 ~({"HB_ENABLE", "HB_DISABLE"} \subseteq params.flags)
    BY <1>1 DEF Refused
  <1>3. \A k \in Keys : ~Refused("paddr", kern[k], raw) =>
          /\ addr = NoAddr =>
                Agree(Stored("paddr", kern[k], raw), PathsAsked(want[k], addr, params))
          /\ addr # NoAddr =>
                Agree([kern[k] EXCEPT !.paths[addr.no] = PathStored(@, raw)],
                      PathsAsked(want[k], addr, params))
    BY <1>0, <1>2, PathsKept
  <1>4. CASE addr = NoAddr
    <2> DEFINE new == [k \in Keys |-> PathsAsked(want[k], addr, params)]
    <2>1. \A k \in Keys : ~Refused("paddr", kern[k], raw) =>
            Agree(Stored("paddr", kern[k], raw), new[k])
      BY <1>3, <1>4
    <2>2. /\ kern' = setsockopt(s, "paddr", id, raw)
          /\ PathAccepts(s, id, raw) = Accepts(s, "paddr", id, raw)
      BY <1>1, <1>4 DEF PathSet, PathAccepts
    <2>3. want' = IF Accepts(s, "paddr", id, raw)
                  THEN [k \in Keys |-> IF k \in Promised(s, id) THEN new[k] ELSE want[k]]
                  ELSE want
      BY <1>4, <2>2
    <2>4. "paddr" \in Options /\ "paddr" \notin SocketLevel
      BY DEF Options, SocketLevel
    <2> HIDE DEF new, raw
    <2> QED
      BY <2>1, <2>2, <2>3, <2>4, CallKeeps
  <1>5. CASE addr # NoAddr /\ PathAccepts(s, id, raw)
    <2>1. addr \in Addrs
      BY <1>5 DEF OptionalAddrs
    <2>2. Transport(s, id, addr) /\ ~Refused("paddr", kern[addr.of], raw)
      BY <1>1, <1>5 DEF PathAccepts
    <2>3. addr.of \in Assocs /\ addr.no \in Paths /\ at[addr.of] # "none"
      BY <1>0, <2>1, <2>2, TransportFacts
    <2>4. addr.of \in Keys /\ DOMAIN kern[addr.of].paths = Paths
      BY <1>0, <2>3 DEF Keys
    <2> DEFINE x == [kern[addr.of] EXCEPT !.paths[addr.no] = PathStored(@, raw)]
               y == PathsAsked(want[addr.of], addr, params)
    <2>5. Agree(x, y)
      BY <1>3, <1>5, <2>2, <2>4
    <2>6. DOMAIN x.paths = Paths
      BY <1>0, <2>4 DEF Agree, KernFields
    <2>7. kern' = [kern EXCEPT ![addr.of] = x]
      BY <1>1, <1>5 DEF PathSet
    <2>8. want' = [k \in Keys |-> IF k = addr.of THEN y ELSE want[k]]
      BY <1>5
    <2> HIDE DEF x, y, raw
    <2>9. /\ DOMAIN kern' = Keys /\ DOMAIN want' = Keys
          /\ \A k \in Keys : /\ Agree(kern'[k], want'[k])
                             /\ DOMAIN kern'[k].paths = DOMAIN kern[k].paths
      BY <1>0, <2>4, <2>5, <2>6, <2>7, <2>8
    <2> QED
      BY <2>9, ValuesKept
  <1>6. CASE addr # NoAddr /\ ~PathAccepts(s, id, raw)
    <2>1. kern' = kern /\ want' = want
      BY <1>1, <1>6 DEF PathSet
    <2> QED
      BY <1>0, <2>1, ValuesKept
  <1> QED
    BY <1>4, <1>5, <1>6

LEMMA PrimaryCall ==
    ASSUME SettingsInvariant, set_primary
    PROVE  SettingsInvariant'
  <1>0. /\ DOMAIN kern = Keys /\ DOMAIN want = Keys /\ LifeInvariant
        /\ \A k \in Keys : Agree(kern[k], want[k])
    BY DEF SettingsInvariant, ValueInvariant
  <1> SUFFICES
        ASSUME NEW s \in Sockets, NEW id \in Ids(s), NEW addr \in OptionalAddrs(s) \ {NoAddr},
               Method,
               kern' = IF Transport(s, id, addr)
                       THEN [kern EXCEPT ![addr.of].primary = addr.no] ELSE kern,
               want' = IF Transport(s, id, addr)
                       THEN [k \in Keys |-> IF k \in {addr.of}
                                            THEN [want[k] EXCEPT !.primary = addr.no]
                                            ELSE want[k]]
                       ELSE want
        PROVE  SettingsInvariant'
    BY DEF set_primary, Return, Returned, Ask, MayCall, Method, SettingsInvariant,
           LifeInvariant
  <1>1. CASE ~Transport(s, id, addr)
    <2>1. kern' = kern /\ want' = want
      BY <1>1
    <2> QED
      BY <1>0, <2>1, ValuesKept
  <1>2. CASE Transport(s, id, addr)
    <2>1. addr \in Addrs
      BY DEF OptionalAddrs
    <2>2. addr.of \in Keys
      BY <1>0, <1>2, <2>1, TransportFacts DEF Keys
    <2> DEFINE x == [kern[addr.of] EXCEPT !["primary"] = addr.no]
               y == [want[addr.of] EXCEPT !["primary"] = addr.no]
    <2>3. Agree(x, y)
      <3>1. "primary" \in Plain
        BY DEF Plain
      <3> QED
        BY <1>0, <2>2, <3>1, OneOption
    <2>4. DOMAIN x.paths = DOMAIN kern[addr.of].paths
      BY <1>0, <2>2 DEF Agree, KernFields
    <2>5. /\ kern' = [kern EXCEPT ![addr.of] = x]
          /\ want' = [k \in Keys |-> IF k = addr.of THEN y ELSE want[k]]
      BY <1>2
    <2> HIDE DEF x, y
    <2>6. /\ DOMAIN kern' = Keys /\ DOMAIN want' = Keys
          /\ \A k \in Keys : /\ Agree(kern'[k], want'[k])
                             /\ DOMAIN kern'[k].paths = DOMAIN kern[k].paths
      BY <1>0, <2>2, <2>3, <2>4, <2>5
    <2> QED
      BY <2>6, ValuesKept
  <1> QED
    BY <1>1, <1>2

-----------------------------------------------------------------------------
(* subscribe_events, and the socket's life.                                *)

LEMMA LoopStart ==
    ASSUME SettingsInvariant, subscribe_events
    PROVE  SettingsInvariant'
  <1>1. UNCHANGED <<object, phase, at, kern, want>>
    BY DEF subscribe_events
  <1>2. PICK s \in Sockets, e \in Events, f \in Events :
            loop' = <<e, f>> /\ pick' = [s |-> s, events |-> <<e, f>>]
    BY DEF subscribe_events
  <1>3. Picked' = {loop'[i] : i \in 1..Len(loop')} /\ pick'.s = s
    BY <1>2 DEF Picked
  <1>4. s = FUTURE \/ (s \in Assocs /\ at[s] = "stream")
    BY DEF Sockets
  <1>5. loop' \in Seq(Events)
    BY <1>2
  <1>6. LifeInvariant'
    BY <1>1, <1>3, <1>4, <1>5 DEF SettingsInvariant, LifeInvariant
  <1>7. ValueInvariant'
    BY <1>1 DEF SettingsInvariant, ValueInvariant
  <1> QED
    BY <1>6, <1>7 DEF SettingsInvariant

LEMMA LoopStep ==
    ASSUME SettingsInvariant, subscribe_events_step
    PROVE  SettingsInvariant'
  <1> DEFINE s == pick.s
             event == Head(loop)
             raw == sctp_event(event, TRUE)
             ok == Accepts(s, "event", FUTURE, raw)
  <1>0. /\ DOMAIN kern = Keys /\ DOMAIN want = Keys /\ LifeInvariant
        /\ \A k \in Keys : Agree(kern[k], want[k]) /\ DOMAIN kern[k] = KernFields
        /\ \A a \in Assocs : at[a] # "none" => DOMAIN kern[a].paths = Paths
    BY DEF SettingsInvariant, ValueInvariant, Agree
  <1>1. /\ loop # << >> /\ loop \in Seq(Events) /\ s \in Keys
        /\ s = FUTURE \/ (s \in Assocs /\ at[s] = "stream")
        /\ \A i \in 1..Len(loop) : loop[i] \in Picked
        /\ Picked \subseteq kern[s].subscribe \cup {loop[i] : i \in 1..Len(loop)}
    BY <1>0 DEF subscribe_events_step, LifeInvariant, Keys
  <1>2. /\ UNCHANGED <<object, at>>
        /\ phase' = "dropped" \/ phase' = phase
        /\ kern' = setsockopt(s, "event", FUTURE, raw)
        /\ loop' = IF ok THEN Tail(loop) ELSE << >>
        /\ pick' = IF loop' = << >> THEN NoPick ELSE pick
    BY DEF subscribe_events_step, GoesOn, subscribe_event_id
  <1>3. /\ ~ok => want' = want
        /\ ok /\ Tail(loop) = << >> =>
             want' = [k \in Keys |-> IF k \in Promised(s, FUTURE)
                                     THEN [want[k] EXCEPT !.must = @ \cup Picked,
                                                          !.may = @ \cup Picked]
                                     ELSE want[k]]
        /\ ok /\ Tail(loop) # << >> =>
             want' = [k \in Keys |-> IF k \in Promised(s, FUTURE)
                                     THEN [want[k] EXCEPT !.may = @ \cup {event}]
                                     ELSE want[k]]
    BY DEF subscribe_events_step, GoesOn, subscribe_event_id, Ask
  <1>4. Targets(s, "event", FUTURE) = {s} /\ Promised(s, FUTURE) = {s}
    BY OwnTargets
  <1>5. /\ event = loop[1] /\ event \in Events /\ Len(loop) \in Nat /\ Len(loop) > 0
        /\ Tail(loop) \in Seq(Events) /\ Len(Tail(loop)) = Len(loop) - 1
        /\ \A i \in 1..(Len(loop) - 1) : Tail(loop)[i] = loop[i + 1]
    BY <1>1
  <1>6. phase' \in {"building", "open", "dropped"}
    BY <1>0, <1>2 DEF LifeInvariant
  <1>7. event \in Picked
    BY <1>1, <1>5
  <1>8. CASE ~ok
    <2>1. kern' = kern /\ want' = want /\ loop' = << >>
      BY <1>2, <1>3, <1>8 DEF setsockopt
    <2>2. LifeInvariant'
      <3>1. loop' \in Seq(Events)
        BY <2>1
      <3> HIDE DEF ok, raw, event, s
      <3> QED
        BY <1>0, <1>2, <1>6, <2>1, <3>1 DEF LifeInvariant
    <2>3. ValueInvariant'
      BY <1>0, <1>2, <2>1 DEF ValueInvariant
    <2> QED
      BY <2>2, <2>3 DEF SettingsInvariant
  <1>9. CASE ok
    <2> DEFINE x == Stored("event", kern[s], raw)
               y == IF Tail(loop) = << >>
                    THEN [want[s] EXCEPT !.must = @ \cup Picked, !.may = @ \cup Picked]
                    ELSE [want[s] EXCEPT !.may = @ \cup {event}]
    <2>1. /\ kern' = [k \in Keys |-> IF k = s THEN x ELSE kern[k]]
          /\ loop' = Tail(loop)
      BY <1>2, <1>4, <1>9 DEF setsockopt
    <2>2. want' = [k \in Keys |-> IF k = s THEN y ELSE want[k]]
      BY <1>3, <1>4, <1>9
    <2>3. x.subscribe = kern[s].subscribe \cup {event}
      <3>1. x = [kern[s] EXCEPT !.subscribe = @ \cup {event}]
        BY DEF Stored, sctp_event
      <3> QED
        BY <1>0, <1>1, <3>1 DEF KernFields
    <2>4. DOMAIN x.paths = DOMAIN kern[s].paths
      BY <1>0, <1>1, StoredPaths DEF Options
    <2>5. Agree(x, y)
      <3>1. Agree(kern[s], want[s])
        BY <1>0, <1>1
      <3>2. CASE Tail(loop) = << >>
        <4>1. Len(loop) = 1
          BY <1>5, <3>2
        <4>2. {loop[i] : i \in 1..Len(loop)} = {event}
          BY <1>5, <4>1
        <4>3. Picked \subseteq kern[s].subscribe \cup {event}
          BY <1>1, <4>2
        <4>4. Agree(x, [want[s] EXCEPT !.must = @ \cup Picked, !.may = @ \cup Picked])
          BY <1>7, <3>1, <4>3, EventKept
        <4> QED
          BY <3>2, <4>4
      <3>3. CASE Tail(loop) # << >>
        <4>1. Agree(x, [want[s] EXCEPT !.may = @ \cup {event}])
          BY <3>1, EventKept
        <4> QED
          BY <3>3, <4>1
      <3> QED
        BY <3>2, <3>3
    <2> HIDE DEF x, y, event, raw, ok
    <2>6. /\ DOMAIN kern' = Keys /\ DOMAIN want' = Keys
          /\ \A k \in Keys : /\ Agree(kern'[k], want'[k])
                             /\ DOMAIN kern'[k].paths = DOMAIN kern[k].paths
      BY <1>0, <1>1, <2>1, <2>2, <2>4, <2>5
    <2>7. ValueInvariant'
      <3>1. Assocs \subseteq Keys
        BY DEF Keys
      <3> QED
        BY <1>0, <1>2, <2>6, <3>1 DEF ValueInvariant
    <2>8. LifeInvariant'
      <3>1. CASE Tail(loop) = << >>
        BY <1>0, <1>2, <1>5, <1>6, <2>1, <3>1 DEF LifeInvariant
      <3>2. CASE Tail(loop) # << >>
        <4>1. pick' = pick /\ Picked' = Picked
          BY <1>2, <2>1, <3>2 DEF Picked
        <4>2. \A i \in 1..Len(loop') : loop'[i] \in Picked
          BY <1>1, <1>5, <2>1
        <4>3. kern'[s].subscribe = kern[s].subscribe \cup {event}
          BY <1>1, <2>1, <2>3
        <4>4. {loop[i] : i \in 1..Len(loop)} \subseteq {event} \cup {loop'[i] : i \in 1..Len(loop')}
          <5> SUFFICES ASSUME NEW i \in 1..Len(loop), loop[i] # event
                       PROVE  \E j \in 1..Len(loop') : loop'[j] = loop[i]
            OBVIOUS
          <5>1. i - 1 \in 1..Len(loop') /\ loop'[i - 1] = loop[i]
            BY <1>5, <2>1
          <5> QED
            BY <5>1
        <4>5. Picked \subseteq kern'[s].subscribe \cup {loop'[i] : i \in 1..Len(loop')}
          BY <1>1, <4>3, <4>4
        <4> QED
          BY <1>0, <1>1, <1>2, <1>5, <1>6, <2>1, <4>1, <4>2, <4>5 DEF LifeInvariant
      <3> QED
        BY <3>1, <3>2
    <2> QED
      BY <2>7, <2>8 DEF SettingsInvariant
  <1> QED
    BY <1>8, <1>9

\* An association is set up, possibly in the middle of subscribe_events.
LEMMA EstablishKeeps ==
    ASSUME SettingsInvariant, NEW a \in Assocs, NEW where \in {"socket", "stream"},
           Establish(a, where), UNCHANGED <<object, loop, pick>>,
           phase' \in {"building", "open", "dropped"}
    PROVE  SettingsInvariant'
  <1>0. /\ DOMAIN kern = Keys /\ DOMAIN want = Keys /\ LifeInvariant
        /\ \A k \in Keys : Agree(kern[k], want[k]) /\ DOMAIN kern[k] = KernFields
        /\ \A b \in Assocs : at[b] # "none" => DOMAIN kern[b].paths = Paths
        /\ at \in [Assocs -> {"none", "socket", "stream"}]
    BY DEF SettingsInvariant, ValueInvariant, Agree, LifeInvariant
  <1> DEFINE p == kern[FUTURE]
             w == want[FUTURE]
             x == [p EXCEPT !.paths = [i \in Paths |-> p.paddr]]
             y == [w EXCEPT !.paths = [i \in Paths |-> w.peer_addr_params]]
  <1>1. /\ at[a] = "none" /\ at' = [at EXCEPT ![a] = where]
        /\ kern' = [kern EXCEPT ![a] = x] /\ want' = [want EXCEPT ![a] = y]
    BY DEF Establish
  <1>2. a \in Keys /\ FUTURE \in Keys /\ a # FUTURE /\ Assocs \subseteq Keys
    BY DEF Keys
  <1>3. Agree(x, y) /\ DOMAIN x.paths = Paths
    <2>1. Agree(p, w) /\ DOMAIN p = KernFields
      BY <1>0, <1>2
    <2>2. Agree(x, y)
      BY <2>1, InheritKept
    <2>3. x.paths = [i \in Paths |-> p.paddr]
      BY <2>1 DEF KernFields
    <2> QED
      BY <2>2, <2>3
  <1> HIDE DEF x, y
  <1>4. ValueInvariant'
    BY <1>0, <1>1, <1>2, <1>3 DEF ValueInvariant
  <1>5. LifeInvariant'
    <2>1. at' \in [Assocs -> {"none", "socket", "stream"}]
      BY <1>0, <1>1
    <2>2. Picked' = Picked
      BY DEF Picked
    <2>3. loop # << >> => /\ pick.s \in Keys /\ pick.s # a
                          /\ pick.s = FUTURE \/ (pick.s \in Assocs /\ at'[pick.s] = "stream")
      BY <1>0, <1>1, <1>2 DEF LifeInvariant
    <2>4. loop # << >> => kern'[pick.s] = kern[pick.s]
      BY <1>0, <1>1, <2>3
    <2> QED
      BY <1>0, <2>1, <2>2, <2>3, <2>4 DEF LifeInvariant
  <1> QED
    BY <1>4, <1>5 DEF SettingsInvariant

LEMMA AcceptKeeps ==
    ASSUME SettingsInvariant, accept
    PROVE  SettingsInvariant'
  <1>0. /\ DOMAIN kern = Keys /\ DOMAIN want = Keys /\ LifeInvariant
        /\ \A k \in Keys : Agree(kern[k], want[k]) /\ DOMAIN kern[k] = KernFields
        /\ \A b \in Assocs : at[b] # "none" => DOMAIN kern[b].paths = Paths
        /\ at \in [Assocs -> {"none", "socket", "stream"}]
    BY DEF SettingsInvariant, ValueInvariant, Agree, LifeInvariant
  <1>1. PICK a \in OnSocket :
          /\ at' = [at EXCEPT ![a] = "stream"]
          /\ kern' = [kern EXCEPT ![a] = Inherits(@, kern[FUTURE])]
          /\ want' = [want EXCEPT ![a] = Inherits(@, want[FUTURE])]
    BY DEF accept
  <1>2. loop = << >> /\ UNCHANGED <<object, phase, loop>>
    BY DEF accept
  <1>3. a \in Assocs /\ at[a] = "socket" /\ a \in Keys /\ FUTURE \in Keys
    BY DEF OnSocket, Keys
  <1> DEFINE x == Inherits(kern[a], kern[FUTURE])
             y == Inherits(want[a], want[FUTURE])
  <1>4. Agree(x, y)
    BY <1>0, <1>3, InheritKept
  <1>5. DOMAIN x.paths = Paths
    BY <1>0, <1>3 DEF Inherits, KernFields
  <1>6. kern' = [kern EXCEPT ![a] = x] /\ want' = [want EXCEPT ![a] = y]
    BY <1>1
  <1> HIDE DEF x, y
  <1>7. ValueInvariant'
    BY <1>0, <1>1, <1>3, <1>4, <1>5, <1>6 DEF ValueInvariant, Keys
  <1>8. LifeInvariant'
    BY <1>0, <1>1, <1>2, <1>3 DEF LifeInvariant
  <1> QED
    BY <1>7, <1>8 DEF SettingsInvariant

-----------------------------------------------------------------------------
(* The theorems.                                                           *)

LEMMA SettingsInit == Init => SettingsInvariant
  <1> SUFFICES ASSUME Init PROVE SettingsInvariant
    OBVIOUS
  <1>1. /\ object \in {"listener", "endpoint", "stream"} /\ phase = "building" /\ loop = << >>
        /\ at = [a \in Assocs |-> "none"] /\ kern = [k \in Keys |-> Defaults]
    BY DEF Init
  <1>2. LifeInvariant
    BY <1>1 DEF LifeInvariant
  <1> DEFINE Asked ==
        [init_params |-> InitParams_from_sys(Defaults.init),
         rto_info |-> [initial |-> 3, max |-> 4, min |-> 2],
         assoc_info |-> [asocmaxrxt |-> 9, cookie_life |-> 9],
         sack |-> [delay_ms |-> 9, freq |-> 2], sack_on |-> TRUE,
         peer_addr_params |-> [hb_interval |-> 9, path_max_rxt |-> 9, hb |-> TRUE],
         paths |-> << >>, primary |-> 1, autoclose |-> 0,
         nodelay |-> FALSE, sndbuf |-> 2, rcvbuf |-> 2,
         reuse |-> FALSE, reuse_port |-> FALSE, must |-> {}, may |-> {}]
  <1>3. want = [k \in Keys |-> Asked]
    BY DEF Init
  <1>4. Agree(Defaults, Asked)
    <2>1. DOMAIN Defaults = KernFields
      BY DEF Defaults, KernFields, Plain, Flags
    <2>2. DOMAIN Asked = WantFields
      BY DEF WantFields, Plain, Flags
    <2>3. InitAgree(Defaults.init, Asked.init_params)
      BY DEF Defaults, InitAgree
    <2>4. RtoAgree(Defaults.rto, Asked.rto_info)
      BY DEF Defaults, RtoAgree, rto_info
    <2>5. AssocAgree(Defaults.assoc, Asked.assoc_info)
      BY DEF Defaults, AssocAgree, assoc_info
    <2>6. SackAgree(Defaults.sack, Asked.sack, Asked.sack_on)
      BY DEF Defaults, SackAgree
    <2>7. PathAgree(Defaults.paddr, Asked.peer_addr_params)
      BY DEF Defaults, PathAgree, PeerAddrParams_from_sys
    <2>8. PathsAgree(Defaults.paths, Asked.paths)
      BY DEF Defaults, PathsAgree
    <2>9. /\ \A f \in Plain : Defaults[f] = Asked[f]
          /\ \A f \in Flags : (Defaults[f] # 0) = Asked[f]
      <3>1. /\ Defaults.primary = Asked.primary /\ Defaults.autoclose = Asked.autoclose
            /\ Defaults.sndbuf = Asked.sndbuf /\ Defaults.rcvbuf = Asked.rcvbuf
        BY DEF Defaults
      <3>2. /\ Defaults.nodelay = 0 /\ Defaults.reuse = 0 /\ Defaults.reuse_port = 0
            /\ Asked.nodelay = FALSE /\ Asked.reuse = FALSE /\ Asked.reuse_port = FALSE
        BY DEF Defaults
      <3> HIDE DEF Asked
      <3> QED
        BY <3>1, <3>2 DEF Plain, Flags
    <2>10. SubAgree(Defaults, Asked)
      BY DEF Defaults, SubAgree
    <2> HIDE DEF Asked
    <2> QED
      BY <2>1, <2>2, <2>3, <2>4, <2>5, <2>6, <2>7, <2>8, <2>9, <2>10 DEF Agree
  <1> HIDE DEF Asked
  <1>5. ValueInvariant
    BY <1>1, <1>3, <1>4 DEF ValueInvariant
  <1> QED
    BY <1>2, <1>5 DEF SettingsInvariant

LEMMA SettingsStep == SettingsInvariant /\ [Next]_vars => SettingsInvariant'
  <1> SUFFICES ASSUME SettingsInvariant, [Next]_vars PROVE SettingsInvariant'
    OBVIOUS
  <1>1. CASE \/ set_init_params \/ set_rto_info \/ set_assoc_info \/ set_delayed_sack
             \/ set_peer_addr_params \/ set_primary
    BY <1>1, InitParamsCall, RtoCall, AssocCall, SackCall, PathCall, PrimaryCall
  <1>2. CASE \/ set_nodelay \/ set_buffer_size \/ set_reuse_address \/ reuse_port
             \/ set_autoclose
    BY <1>2, NodelayCall, BufferCall, ReuseCall, ReusePortCall, AutocloseCall
  <1>3. CASE \/ subscribe_event \/ subscribe_event_for \/ subscribe_events
             \/ subscribe_events_step
    BY <1>3, EventCall, EventForCall, LoopStart, LoopStep
  <1>4. CASE connectx \/ PeerAssociates
    <2>1. PICK a \in Assocs, where \in {"socket", "stream"} : Establish(a, where)
      BY <1>4 DEF connectx, PeerAssociates
    <2>2. UNCHANGED <<object, loop, pick>> /\ phase' \in {"building", "open", "dropped"}
      BY <1>4 DEF connectx, PeerAssociates, SettingsInvariant, LifeInvariant
    <2> QED
      BY <2>1, <2>2, EstablishKeeps
  <1>5. CASE accept
    BY <1>5, AcceptKeeps
  <1>6. CASE bindx \/ listen \/ UNCHANGED vars
    <2>1. /\ UNCHANGED <<object, at, kern, loop, pick, want>>
          /\ phase' \in {"building", "open", "dropped"}
      BY <1>6 DEF bindx, listen, vars, SettingsInvariant, LifeInvariant
    <2>2. Picked' = Picked
      BY <2>1 DEF Picked
    <2> QED
      BY <2>1, <2>2 DEF SettingsInvariant, LifeInvariant, ValueInvariant
  <1> QED
    BY <1>1, <1>2, <1>3, <1>4, <1>5, <1>6 DEF Next

\* The kernel's parameters and what the option methods of imp/kernel.rs were
\* asked for agree, option by option, at every step.
THEOREM SettingsAreKept == Spec => []SettingsInvariant
  BY SettingsInit, SettingsStep, PTL DEF Spec

\* Whatever the getters report, of the defaults and of every association, is
\* what the setters that returned Ok asked for; a setter reaches the
\* associations that its id names (FUTURE: those set up after the call) and no
\* others, and the associations of a socket that came out of a builder have
\* the builder's options.
THEOREM OptionsAreAsAsked == Spec => []OptionsAsAsked
  <1>1. SettingsInvariant => OptionsAsAsked
    <2> SUFFICES ASSUME SettingsInvariant, NEW k \in Existing
                 PROVE  /\ init_params(k) = want[k].init_params
                        /\ rto_info(kern[k].rto) = want[k].rto_info
                        /\ assoc_info(kern[k].assoc) = want[k].assoc_info
                        /\ delayed_sack(kern[k].sack) =
                             (IF want[k].sack_on THEN want[k].sack
                              ELSE [delay_ms |-> 0, freq |-> 1])
                        /\ peer_addr_params(k, NoAddr) = want[k].peer_addr_params
                        /\ \A addr \in Addrs : addr.of = k =>
                             peer_addr_params(k, addr) = want[k].paths[addr.no]
                        /\ \A f \in {"nodelay", "reuse", "reuse_port"} :
                             enabled_option(k, f) = want[k][f]
                        /\ \A f \in {"primary", "autoclose", "sndbuf", "rcvbuf"} :
                             kern[k][f] = want[k][f]
      BY DEF OptionsAsAsked
    <2>1. k \in Keys /\ Agree(kern[k], want[k])
      BY DEF Existing, Keys, SettingsInvariant, ValueInvariant
    <2>2. /\ init_params(k) = want[k].init_params
          /\ rto_info(kern[k].rto) = want[k].rto_info
          /\ assoc_info(kern[k].assoc) = want[k].assoc_info
      BY <2>1 DEF Agree, InitAgree, RtoAgree, AssocAgree, init_params
    <2>3. delayed_sack(kern[k].sack) =
            (IF want[k].sack_on THEN want[k].sack ELSE [delay_ms |-> 0, freq |-> 1])
      BY <2>1 DEF Agree, SackAgree, delayed_sack
    <2>4. peer_addr_params(k, NoAddr) = want[k].peer_addr_params
      BY <2>1 DEF Agree, PathAgree, peer_addr_params
    <2>5. ASSUME NEW addr \in Addrs, addr.of = k
          PROVE  peer_addr_params(k, addr) = want[k].paths[addr.no]
      <3>1. k \in Assocs /\ addr.no \in Paths
        BY <2>5 DEF Addrs
      <3>2. addr # NoAddr
        BY <2>5, <3>1 DEF NoAddr, FUTURE
      <3>3. at[k] # "none"
        BY <3>1 DEF Existing
      <3>4. DOMAIN kern[k].paths = Paths
        BY <3>1, <3>3 DEF SettingsInvariant, ValueInvariant
      <3>5. PathAgree(kern[k].paths[addr.no], want[k].paths[addr.no])
        BY <2>1, <3>1, <3>4 DEF Agree, PathsAgree
      <3> QED
        BY <3>2, <3>5 DEF PathAgree, peer_addr_params
    <2>6. /\ \A f \in {"nodelay", "reuse", "reuse_port"} : enabled_option(k, f) = want[k][f]
          /\ \A f \in {"primary", "autoclose", "sndbuf", "rcvbuf"} : kern[k][f] = want[k][f]
      BY <2>1 DEF Agree, Plain, Flags, enabled_option
    <2> QED
      BY <2>2, <2>3, <2>4, <2>5, <2>6
  <1> QED
    BY <1>1, SettingsAreKept, PTL

\* Every association is subscribed to what subscribe_event,
\* subscribe_event_for and a subscribe_events that returned Ok asked for it
\* (before it was set up, where the call is for later associations), and to
\* nothing else, wherever the loop stopped and whenever the peer set the
\* association up.
THEOREM SubscriptionsAreAsAsked == Spec => []SubscribedAsAsked
  <1>1. SettingsInvariant => SubscribedAsAsked
    <2> SUFFICES ASSUME SettingsInvariant, NEW k \in Existing
                 PROVE  /\ want[k].must \subseteq kern[k].subscribe
                        /\ kern[k].subscribe \subseteq want[k].may
      BY DEF SubscribedAsAsked
    <2>1. Agree(kern[k], want[k])
      BY DEF Existing, Keys, SettingsInvariant, ValueInvariant
    <2> QED
      BY <2>1 DEF Agree, SubAgree
  <1> QED
    BY <1>1, SettingsAreKept, PTL
=============================================================================

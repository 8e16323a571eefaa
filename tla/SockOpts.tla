------------------------------ MODULE SockOpts ------------------------------
(***************************************************************************)
(* Socket options: from the builders and the option methods of             *)
(* SctpListener, SctpEndpoint, SctpStream and SctpSocket through           *)
(* imp/kernel.rs to the kernel, which keeps a set of defaults per socket   *)
(* and a copy of them per association, made when the association is set    *)
(* up. One caller configures one socket, and the streams accepted or       *)
(* peeled off from it, while peers set up associations at any time.        *)
(***************************************************************************)
EXTENDS Naturals, Sequences, FiniteSets

CONSTANTS
    Assocs,          \* association ids the kernel may hand out (> ALL)
    Events,          \* notification classes
    RtoInfos, AssocInfos, SackInfos, PeerAddrParamsSet, InitParamsSet,
    Sizes,           \* buffer sizes; larger than I32_MAX are included
    I32_MAX, MemMax, \* limits of the code and of the kernel
    MaxCalls         \* bound: option calls in a behaviour

FUTURE == 0
CURRENT == 1
ALL == 2
Keys == {FUTURE} \cup Assocs

ASSUME AssocsAssumption == Assocs \subseteq Nat \ {FUTURE, CURRENT, ALL}
ASSUME MaxCallsAssumption == MaxCalls \in Nat
ASSUME RequestsAssumption ==
    /\ InitParamsSet \subseteq [num_ostreams : Nat, max_instreams : Nat,
                               max_attempts : Nat, max_init_timeo : Nat]
    /\ RtoInfos \subseteq [initial : Nat, max : Nat, min : Nat]
    /\ AssocInfos \subseteq [asocmaxrxt : Nat, cookie_life : Nat]
    /\ SackInfos \subseteq [delay_ms : Nat, freq : Nat]
    /\ PeerAddrParamsSet \subseteq [hb_interval : Nat, path_max_rxt : Nat,
                                   flags : SUBSET STRING]

VARIABLES
    object,    \* "listener", "endpoint" or "stream": what is being built
    supported, \* notification classes this kernel knows
    phase,     \* "building", "open" or "dropped"
    bound,     \* the builder's bindx was called
    at,        \* per association: "none", "socket" or "stream" (its own)
    kern,      \* kernel: defaults (FUTURE) and parameters of associations
    loop,      \* subscribe_events: events that remain
    pick,      \* subscribe_events: where it was called, and all its events
    want,      \* history: what the calls that returned Ok asked for
    calls

vars == <<object, supported, phase, bound, at, kern, loop, pick, want, calls>>

NoPick == [s |-> FUTURE, events |-> << >>]

\* Each peer has two addresses, hence each association two paths.
Paths == {1, 2}
Addrs == [of : Assocs, no : Paths]
NoAddr == [of |-> FUTURE, no |-> 0]

-----------------------------------------------------------------------------
(* The kernel (external).                                                  *)

Defaults ==
    [init |-> [sinit_num_ostreams |-> 9, sinit_max_instreams |-> 9,
               sinit_max_attempts |-> 9, sinit_max_init_timeo |-> 9],
     rto |-> [srto_initial |-> 3, srto_max |-> 4, srto_min |-> 2],
     assoc |-> [sasoc_asocmaxrxt |-> 9, sasoc_cookie_life |-> 9],
     sack |-> [sack_delay |-> 9, sack_freq |-> 2, on |-> TRUE],
     paddr |-> [spp_hbinterval |-> 9, spp_pathmaxrxt |-> 9, hb |-> TRUE],
     paths |-> << >>, primary |-> 1, autoclose |-> 0,
     nodelay |-> 0, sndbuf |-> 2, rcvbuf |-> 2, reuse |-> 0, reuse_port |-> 0,
     subscribe |-> {}]

SocketLevel == {"init", "nodelay", "sndbuf", "rcvbuf", "reuse", "reuse_port", "autoclose"}

\* Zero keeps the stored value.
Kept(old, new) ==
    [f \in DOMAIN old |->
        IF f \in DOMAIN new /\ new[f] # 0 THEN new[f] ELSE old[f]]

\* What setsockopt refuses, given the stored parameters; an association gives
\* up no later than all its paths together.
Refused(opt, old, raw) ==
    \/ opt = "rto" /\ Kept(old.rto, raw).srto_min > Kept(old.rto, raw).srto_max
    \/ /\ opt = "assoc" /\ old.paths # << >>
       /\ raw.sasoc_asocmaxrxt > old.paths[1].spp_pathmaxrxt + old.paths[2].spp_pathmaxrxt
    \/ opt = "sack" /\ raw.sack_delay > 500
    \/ opt = "paddr" /\ {"HB_ENABLE", "HB_DISABLE"} \subseteq raw.spp_flags
    \/ opt = "event" /\ raw.se_type \notin supported
    \/ opt = "reuse_port" /\ (bound \/ object = "endpoint")

\* The parameters of a path, or the defaults for paths; HB_DEMAND stores nothing.
PathStored(old, raw) ==
    [spp_hbinterval |-> IF "HB_ENABLE" \in raw.spp_flags /\ raw.spp_hbinterval # 0
                        THEN raw.spp_hbinterval ELSE old.spp_hbinterval,
     spp_pathmaxrxt |-> IF raw.spp_pathmaxrxt # 0
                        THEN raw.spp_pathmaxrxt ELSE old.spp_pathmaxrxt,
     hb |-> "HB_DISABLE" \notin raw.spp_flags
            /\ (old.hb \/ "HB_ENABLE" \in raw.spp_flags)]

Stored(opt, old, raw) ==
    CASE opt \in {"init", "rto", "assoc"} -> [old EXCEPT ![opt] = Kept(@, raw)]
      [] opt = "sack" ->
            [old EXCEPT !.sack =
                [sack_delay |-> IF raw.sack_delay # 0 THEN raw.sack_delay ELSE @.sack_delay,
                 sack_freq |-> IF raw.sack_freq > 1 THEN raw.sack_freq ELSE @.sack_freq,
                 on |-> /\ raw.sack_freq # 1
                        /\ @.on \/ raw.sack_delay # 0 \/ raw.sack_freq > 1]]
      [] opt = "paddr" ->
            [old EXCEPT !.paddr = PathStored(@, raw),
                        !.paths = [i \in DOMAIN @ |-> PathStored(@[i], raw)]]
      [] opt = "event" ->
            [old EXCEPT !.subscribe =
                IF raw.se_on THEN @ \cup {raw.se_type} ELSE @ \ {raw.se_type}]
      [] opt \in {"nodelay", "reuse", "reuse_port", "autoclose"} -> [old EXCEPT ![opt] = raw]
      [] opt \in {"sndbuf", "rcvbuf"} ->
            [old EXCEPT ![opt] = 2 * (IF raw > MemMax THEN MemMax ELSE raw)]

OnSocket == {a \in Assocs : at[a] = "socket"}

\* s is FUTURE for the socket being configured, or an association that has a
\* stream of its own. A one-to-one socket ignores the id (sctp_id2assoc); only
\* SCTP_DELAYED_SACK and SCTP_EVENT take CURRENT and ALL; some options belong to
\* the socket.
Known(s, opt, id) ==
    \/ s # FUTURE
    \/ object # "endpoint"
    \/ opt \in SocketLevel
    \/ id \in {FUTURE} \cup OnSocket
    \/ id \in {CURRENT, ALL} /\ opt \in {"sack", "event"}

Targets(s, opt, id) ==
    IF s # FUTURE THEN {s}
    ELSE IF object # "endpoint" \/ opt \in SocketLevel
    THEN {FUTURE}
    ELSE CASE id = CURRENT -> OnSocket
           [] id = ALL -> {FUTURE} \cup OnSocket
           [] OTHER -> {id}

Accepts(s, opt, id, raw) ==
    /\ Known(s, opt, id)
    /\ \A k \in Targets(s, opt, id) : ~Refused(opt, kern[k], raw)
    /\ opt = "paddr" /\ "HB_DEMAND" \in raw.spp_flags => FUTURE \notin Targets(s, opt, id)

setsockopt(s, opt, id, raw) ==
    IF Accepts(s, opt, id, raw)
    THEN [k \in Keys |-> IF k \in Targets(s, opt, id)
                         THEN Stored(opt, kern[k], raw) ELSE kern[k]]
    ELSE kern

\* sctp_addr_id2transport: the address is one of the socket's associations',
\* and not of another one than the id names.
Transport(s, id, addr) ==
    IF s # FUTURE THEN addr.of = s
    ELSE addr.of \in OnSocket /\ (id \in OnSocket => id = addr.of)

\* SCTP_PEER_ADDR_PARAMS: with the any-address for the association or the
\* defaults, else for one path.
PathAccepts(s, id, raw) ==
    IF raw.spp_address = NoAddr THEN Accepts(s, "paddr", id, raw)
    ELSE /\ Transport(s, id, raw.spp_address)
         /\ Known(s, "paddr", id)
         /\ ~Refused("paddr", kern[raw.spp_address.of], raw)

PathSet(s, id, raw) ==
    IF raw.spp_address = NoAddr THEN setsockopt(s, "paddr", id, raw)
    ELSE IF PathAccepts(s, id, raw)
    THEN [kern EXCEPT ![raw.spp_address.of].paths[raw.spp_address.no] = PathStored(@, raw)]
    ELSE kern

-----------------------------------------------------------------------------
(* imp/kernel.rs and types.rs: the structures passed and what the getters  *)
(* make of them.                                                           *)

InitParams_to_sys(p) ==
    [sinit_num_ostreams |-> p.num_ostreams, sinit_max_instreams |-> p.max_instreams,
     sinit_max_attempts |-> p.max_attempts, sinit_max_init_timeo |-> p.max_init_timeo]

InitParams_from_sys(raw) ==
    [num_ostreams |-> raw.sinit_num_ostreams, max_instreams |-> raw.sinit_max_instreams,
     max_attempts |-> raw.sinit_max_attempts, max_init_timeo |-> raw.sinit_max_init_timeo]

sctp_rtoinfo(rto) ==
    [srto_initial |-> rto.initial, srto_max |-> rto.max, srto_min |-> rto.min]

rto_info(raw) ==
    [initial |-> raw.srto_initial, max |-> raw.srto_max, min |-> raw.srto_min]

\* The windows and the number of destinations are not passed.
sctp_assocparams(info) ==
    [sasoc_asocmaxrxt |-> info.asocmaxrxt, sasoc_cookie_life |-> info.cookie_life]

assoc_info(raw) ==
    [asocmaxrxt |-> raw.sasoc_asocmaxrxt, cookie_life |-> raw.sasoc_cookie_life]

sctp_sack_info(info) == [sack_delay |-> info.delay_ms, sack_freq |-> info.freq]

\* The kernel reports 0 and 1 while delayed SACK is off.
delayed_sack(raw) ==
    IF raw.on THEN [delay_ms |-> raw.sack_delay, freq |-> raw.sack_freq]
    ELSE [delay_ms |-> 0, freq |-> 1]

\* Mutant: the address is left out.
pack_optional_addr_zeroed(addr) == NoAddr

\* A missing address becomes the any-address (all zero).
pack_optional_addr(addr) == addr

sctp_paddrparams(addr, params) ==
    [spp_address |-> pack_optional_addr(addr),
     spp_hbinterval |-> params.hb_interval, spp_pathmaxrxt |-> params.path_max_rxt,
     spp_flags |-> params.flags]

PeerAddrParams_from_sys(raw) ==
    [hb_interval |-> raw.spp_hbinterval, path_max_rxt |-> raw.spp_pathmaxrxt,
     hb |-> raw.hb]

init_params(k) == InitParams_from_sys(kern[k].init)

peer_addr_params(k, addr) ==
    PeerAddrParams_from_sys(IF addr = NoAddr THEN kern[k].paddr ELSE kern[k].paths[addr.no])

\* nodelay, reuse_address and reuse_port.
enabled_option(k, opt) == kern[k][opt] # 0

-----------------------------------------------------------------------------
(* What a caller can reach, and with which association id.                 *)

Sockets ==
    {a \in Assocs : at[a] = "stream"}
        \cup (IF phase = "building" \/ (phase = "open" /\ object # "stream")
              THEN {FUTURE} ELSE {})

listener_ids == {FUTURE}
common_ids == Keys \cup {CURRENT, ALL}
builder_ids == {FUTURE}

Ids(s) ==
    IF s = FUTURE /\ phase = "building" THEN builder_ids
    ELSE IF s = FUTURE /\ object = "listener" THEN listener_ids
    ELSE IF s = FUTURE THEN common_ids
    ELSE {FUTURE, s}

\* Mutant: a builder goes on after a step that failed.
Returned_ignored(ok) == ok \/ phase = "building"

\* Every method hands on the kernel's verdict; a builder's step that fails
\* consumes the builder and its socket.
Returned(ok) == ok

\* Whom a call is for: builders and listeners configure the associations set
\* up after the call, streams their own one, endpoints what the id says. The
\* documentation of listeners says more: see AcceptedAsConfigured.
Promised(s, id) ==
    IF s # FUTURE THEN {s}
    ELSE CASE id = CURRENT -> OnSocket
           [] id = ALL -> {FUTURE} \cup OnSocket
           [] OTHER -> {id}

\* The history of what was asked for.
Ask(keys, Update(_)) ==
    [k \in Keys |-> IF k \in keys THEN Update(want[k]) ELSE want[k]]

MayCall == loop = << >> /\ phase # "dropped" /\ calls < MaxCalls

\* An option method that returned ok or an error; `after' is what the kernel
\* stores then, Update what the method promises for the associations `keys'.
Return(ok, after, keys, Update(_)) ==
    /\ MayCall
    /\ calls' = calls + 1
    /\ kern' = after
    /\ phase' = IF phase = "building" /\ ~Returned(ok) THEN "dropped" ELSE phase
    /\ want' = IF Returned(ok) THEN Ask(keys, Update) ELSE want
    /\ UNCHANGED <<object, supported, bound, at, loop, pick>>

Call(s, opt, id, raw, Update(_)) ==
    Return(Accepts(s, opt, id, raw), setsockopt(s, opt, id, raw), Promised(s, id), Update)

Tunable(s) == ~(s = FUTURE /\ phase = "building" /\ object = "endpoint")

set_init_params ==
    /\ phase = "building"
    /\ \E p \in InitParamsSet :
            Call(FUTURE, "init", FUTURE, InitParams_to_sys(p),
                 LAMBDA w : [w EXCEPT !.init_params = Kept(@, p)])

set_rto_info ==
    \E s \in Sockets : \E id \in Ids(s), rto \in RtoInfos :
        /\ Tunable(s)
        /\ Call(s, "rto", id, sctp_rtoinfo(rto),
                LAMBDA w : [w EXCEPT !.rto_info = Kept(@, rto)])

set_assoc_info ==
    \E s \in Sockets : \E id \in Ids(s), info \in AssocInfos :
        /\ Tunable(s)
        /\ Call(s, "assoc", id, sctp_assocparams(info),
                LAMBDA w : [w EXCEPT !.assoc_info = Kept(@, info)])

\* Frequency 1 switches delayed SACK off, any other setting on; zero keeps.
set_delayed_sack ==
    \E s \in Sockets : \E id \in Ids(s), info \in SackInfos :
        /\ Tunable(s)
        /\ Call(s, "sack", id, sctp_sack_info(info),
                LAMBDA w : [w EXCEPT
                    !.sack = Kept(@, IF info.freq = 1 THEN [info EXCEPT !.freq = 0] ELSE info),
                    !.sack_on = info.freq # 1 /\ (@ \/ info.delay_ms # 0 \/ info.freq # 0)])

\* The interval counts only with HB_ENABLE; the flags select what changes.
Adjusted(w, params) ==
    [hb_interval |-> IF params.hb_interval # 0 /\ "HB_ENABLE" \in params.flags
                     THEN params.hb_interval ELSE w.hb_interval,
     path_max_rxt |-> IF params.path_max_rxt # 0
                      THEN params.path_max_rxt ELSE w.path_max_rxt,
     hb |-> IF params.flags \cap {"HB_ENABLE", "HB_DISABLE"} = {} THEN w.hb
            ELSE "HB_ENABLE" \in params.flags]

\* All paths and the defaults for new ones, or one path.
PathsAsked(w, addr, params) ==
    [w EXCEPT
        !.peer_addr_params = IF addr = NoAddr THEN Adjusted(@, params) ELSE @,
        !.paths = [i \in DOMAIN @ |-> IF addr = NoAddr \/ i = addr.no
                                      THEN Adjusted(@[i], params) ELSE @[i]]]

\* Only streams and endpoints take an address.
OptionalAddrs(s) ==
    IF phase = "open" /\ ~(s = FUTURE /\ object = "listener") THEN Addrs \cup {NoAddr}
    ELSE {NoAddr}

set_peer_addr_params ==
    \E s \in Sockets : \E id \in Ids(s), addr \in OptionalAddrs(s), params \in PeerAddrParamsSet :
        LET raw == sctp_paddrparams(addr, params)
        IN  /\ Tunable(s)
            /\ Return(PathAccepts(s, id, raw), PathSet(s, id, raw),
                      IF addr = NoAddr THEN Promised(s, id) ELSE {addr.of},
                      LAMBDA w : PathsAsked(w, addr, params))

set_primary ==
    \E s \in Sockets : \E id \in Ids(s), addr \in OptionalAddrs(s) \ {NoAddr} :
        Return(Transport(s, id, addr),
               IF Transport(s, id, addr) THEN [kern EXCEPT ![addr.of].primary = addr.no] ELSE kern,
               {addr.of}, LAMBDA w : [w EXCEPT !.primary = addr.no])

set_nodelay ==
    \E s \in Sockets, nodelay \in BOOLEAN :
        Call(s, "nodelay", FUTURE, IF nodelay THEN 1 ELSE 0,
             LAMBDA w : [w EXCEPT !.nodelay = nodelay])

checked_buffer_size(size) == size <= I32_MAX

set_buffer_size ==
    \E s \in Sockets, opt \in {"sndbuf", "rcvbuf"}, size \in Sizes :
        Return(checked_buffer_size(size),
               IF checked_buffer_size(size) THEN setsockopt(s, opt, FUTURE, size) ELSE kern,
               Promised(s, FUTURE),
               LAMBDA w : [w EXCEPT ![opt] = 2 * (IF size > MemMax THEN MemMax ELSE size)])

set_reuse_address ==
    \E s \in Sockets, enabled \in BOOLEAN :
        /\ ~(s = FUTURE /\ phase = "open" /\ object = "listener")
        /\ Call(s, "reuse", FUTURE, IF enabled THEN 1 ELSE 0,
                LAMBDA w : [w EXCEPT !.reuse = enabled])

\* Listener and stream builders only.
reuse_port ==
    /\ phase = "building" /\ object # "endpoint"
    /\ \E enabled \in BOOLEAN :
            Call(FUTURE, "reuse_port", FUTURE, IF enabled THEN 1 ELSE 0,
                 LAMBDA w : [w EXCEPT !.reuse_port = enabled])

\* Endpoints only.
set_autoclose ==
    /\ phase = "open" /\ object = "endpoint" /\ FUTURE \in Sockets
    /\ \E seconds \in {0, 1} :
            Call(FUTURE, "autoclose", FUTURE, seconds,
                 LAMBDA w : [w EXCEPT !.autoclose = seconds])

-----------------------------------------------------------------------------
(* Subscriptions.                                                          *)

sctp_event(event, on) == [se_type |-> event, se_on |-> on]

Subscribed(w, event, on) ==
    IF on THEN [w EXCEPT !.must = @ \cup {event}, !.may = @ \cup {event}]
    ELSE [w EXCEPT !.must = @ \ {event}, !.may = @ \ {event}]

subscribe_event_for ==
    \E s \in Sockets : \E id \in Ids(s), event \in Events, on \in BOOLEAN :
        /\ phase = "open" /\ ~(s = FUTURE /\ object = "listener")
        /\ Call(s, "event", id, sctp_event(event, on),
                LAMBDA w : Subscribed(w, event, on))

\* Mutant: existing associations too.
subscribe_event_id_all == ALL

\* The id that subscribe_event passes.
subscribe_event_id == FUTURE

subscribe_event ==
    \E s \in Sockets, event \in Events, on \in BOOLEAN :
        /\ phase = "open"
        /\ Return(Accepts(s, "event", subscribe_event_id, sctp_event(event, on)),
                  setsockopt(s, "event", subscribe_event_id, sctp_event(event, on)),
                  Promised(s, FUTURE), LAMBDA w : Subscribed(w, event, on))

\* subscribe_events makes one call per event; peers act in between.
subscribe_events ==
    /\ MayCall
    /\ \E s \in Sockets, events \in {<<e, f>> : e, f \in Events} :
        /\ events[1] # events[2]
        /\ loop' = events
        /\ pick' = [s |-> s, events |-> events]
    /\ calls' = calls + 1
    /\ UNCHANGED <<object, supported, phase, bound, at, kern, want>>

Picked == {pick.events[i] : i \in 1..Len(pick.events)}

\* Mutant: the loop skips an event that fails.
GoesOn_always(ok) == TRUE

\* `?' ends the loop at the first event that fails.
GoesOn(ok) == ok

subscribe_events_step ==
    /\ loop # << >>
    /\ LET id == subscribe_event_id
           raw == sctp_event(Head(loop), TRUE)
           ok == Accepts(pick.s, "event", id, raw)
           keys == Promised(pick.s, FUTURE)
       IN  /\ kern' = setsockopt(pick.s, "event", id, raw)
           /\ loop' = IF GoesOn(ok) THEN Tail(loop) ELSE << >>
           /\ want' = IF ~GoesOn(ok) THEN want
                      ELSE IF Tail(loop) = << >>
                      THEN Ask(keys, LAMBDA w : [w EXCEPT !.must = @ \cup Picked,
                                                          !.may = @ \cup Picked])
                      ELSE Ask(keys, LAMBDA w : [w EXCEPT !.may = @ \cup {Head(loop)}])
           /\ phase' = IF phase = "building" /\ ~Returned(GoesOn(ok)) THEN "dropped" ELSE phase
           /\ pick' = IF loop' = << >> THEN NoPick ELSE pick
    /\ UNCHANGED <<object, supported, bound, at, calls>>

-----------------------------------------------------------------------------
(* The socket's life.                                                      *)

\* Ids are handed out in ascending order.
Establish(a, where) ==
    /\ at[a] = "none"
    /\ \A b \in Assocs : b < a => at[b] # "none"
    /\ at' = [at EXCEPT ![a] = where]
    /\ kern' = [kern EXCEPT ![a] =
            [kern[FUTURE] EXCEPT !.paths = [i \in Paths |-> kern[FUTURE].paddr]]]
    /\ want' = [want EXCEPT ![a] =
            [want[FUTURE] EXCEPT !.paths = [i \in Paths |-> want[FUTURE].peer_addr_params]]]

\* After bindx the port is taken.
bindx ==
    /\ phase = "building" /\ loop = << >> /\ ~bound
    /\ bound' = TRUE
    /\ UNCHANGED <<object, supported, phase, at, kern, loop, pick, want, calls>>

\* ListenerBuilder::listen, EndpointBuilder::listen and build.
listen ==
    /\ phase = "building" /\ object # "stream" /\ loop = << >>
    /\ phase' = "open"
    /\ UNCHANGED <<object, supported, bound, at, kern, loop, pick, want, calls>>

\* StreamBuilder::connectx: the options were set before the association is.
connectx ==
    /\ phase = "building" /\ object = "stream" /\ loop = << >>
    /\ \E a \in Assocs : Establish(a, "stream")
    /\ phase' = "open"
    /\ UNCHANGED <<object, supported, bound, loop, pick, calls>>

\* A peer sets up an association with a listening socket.
PeerAssociates ==
    /\ phase = "open" /\ object # "stream"
    /\ \E a \in Assocs : Establish(a, "socket")
    /\ UNCHANGED <<object, supported, phase, bound, loop, pick, calls>>

Inherits(own, socket) ==
    [f \in DOMAIN own |->
        IF f \in {"nodelay", "sndbuf", "rcvbuf", "reuse", "reuse_port"}
        THEN socket[f] ELSE own[f]]

\* accept or peeloff: the new socket takes the listener's socket-level options
\* (sctp_copy_sock); the association keeps its own.
accept ==
    /\ phase = "open" /\ loop = << >>
    /\ \E a \in OnSocket :
        /\ at' = [at EXCEPT ![a] = "stream"]
        /\ kern' = [kern EXCEPT ![a] = Inherits(@, kern[FUTURE])]
        /\ want' = [want EXCEPT ![a] = Inherits(@, want[FUTURE])]
    /\ UNCHANGED <<object, supported, phase, bound, loop, pick, calls>>

Init ==
    /\ object \in {"listener", "endpoint", "stream"}
    /\ supported \in {Events} \cup {Events \ {e} : e \in Events}
    /\ phase = "building" /\ bound = FALSE
    /\ at = [a \in Assocs |-> "none"]
    /\ kern = [k \in Keys |-> Defaults]
    /\ loop = << >> /\ pick = NoPick
    /\ want = [k \in Keys |->
            [init_params |-> InitParams_from_sys(Defaults.init),
             rto_info |-> [initial |-> 3, max |-> 4, min |-> 2],
             assoc_info |-> [asocmaxrxt |-> 9, cookie_life |-> 9],
             sack |-> [delay_ms |-> 9, freq |-> 2], sack_on |-> TRUE,
             peer_addr_params |-> [hb_interval |-> 9, path_max_rxt |-> 9, hb |-> TRUE],
             paths |-> << >>, primary |-> 1, autoclose |-> 0,
             nodelay |-> FALSE, sndbuf |-> 2, rcvbuf |-> 2,
             reuse |-> FALSE, reuse_port |-> FALSE, must |-> {}, may |-> {}]]
    /\ calls = 0

Next ==
    \/ set_init_params \/ set_rto_info \/ set_assoc_info \/ set_delayed_sack
    \/ set_peer_addr_params \/ set_primary \/ set_nodelay \/ set_buffer_size
    \/ set_reuse_address \/ reuse_port \/ set_autoclose \/ bindx
    \/ subscribe_event \/ subscribe_event_for \/ subscribe_events
    \/ subscribe_events_step \/ listen \/ connectx \/ PeerAssociates \/ accept

Spec == Init /\ [][Next]_vars

-----------------------------------------------------------------------------
(* Properties.                                                             *)

Existing == {FUTURE} \cup {a \in Assocs : at[a] # "none"}

\* What a getter reports of the defaults and of every association is what the
\* calls that returned Ok asked for: each field its own value, zero fields kept,
\* one path changed where an address was given and all of them where none was,
\* no association configured by a call meant for another or for later ones, and
\* every association of a socket that came out of a builder set up with
\* everything the builder was told, however early the peer came. A call for
\* later associations counts for those set up after it.
OptionsAsAsked ==
    \A k \in Existing :
        /\ init_params(k) = want[k].init_params
        /\ rto_info(kern[k].rto) = want[k].rto_info
        /\ assoc_info(kern[k].assoc) = want[k].assoc_info
        /\ delayed_sack(kern[k].sack) =
                (IF want[k].sack_on THEN want[k].sack ELSE [delay_ms |-> 0, freq |-> 1])
        /\ peer_addr_params(k, NoAddr) = want[k].peer_addr_params
        /\ \A addr \in Addrs : addr.of = k =>
                peer_addr_params(k, addr) = want[k].paths[addr.no]
        /\ \A f \in {"nodelay", "reuse", "reuse_port"} : enabled_option(k, f) = want[k][f]
        /\ \A f \in {"primary", "autoclose", "sndbuf", "rcvbuf"} : kern[k][f] = want[k][f]

\* Every association is subscribed to what was asked for before it was set up
\* or by a later call for it, and to nothing that no call asked for, also when
\* subscribe_events stopped half way or an association was set up inside it.
SubscribedAsAsked ==
    \A k \in Existing :
        want[k].must \subseteq kern[k].subscribe /\ kern[k].subscribe \subseteq want[k].may

\* accept hands an association of a listener to its first owner.
Accepted(a) == object = "listener" /\ at[a] = "socket" /\ at'[a] = "stream"

\* What the option methods of SctpListener say: a setting applies to the
\* associations accepted after the call. It does not to one that was set up
\* before the call and waits to be accepted.
AcceptedAsConfigured ==
    [][\A a \in Assocs : Accepted(a) =>
            /\ rto_info(kern'[a].rto) = want[FUTURE].rto_info
            /\ assoc_info(kern'[a].assoc) = want[FUTURE].assoc_info
            /\ kern'[a].sack.on = want[FUTURE].sack_on
            /\ PeerAddrParams_from_sys(kern'[a].paddr) = want[FUTURE].peer_addr_params
            /\ (kern'[a].nodelay # 0) = want[FUTURE].nodelay]_vars

\* The same of subscribe_event and subscribe_events of SctpListener: future
\* accepted associations are subscribed.
AcceptedAsSubscribed ==
    [][\A a \in Assocs : Accepted(a) => want[FUTURE].must \subseteq kern'[a].subscribe]_vars
=============================================================================

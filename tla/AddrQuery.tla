------------------------------ MODULE AddrQuery -----------------------------
(***************************************************************************)
(* local_addrs and peer_addrs (imp/kernel.rs): getaddrs_with_capacity asks *)
(* the kernel with a buffer that it doubles while the kernel answers       *)
(* ENOMEM. Between two attempts the kernel's list may change: an address   *)
(* is added to or removed from the host, or by the peer (ASCONF).          *)
(* The other direction, bindx_add, hands a packed list to the kernel.      *)
(***************************************************************************)
EXTENDS Addr

CONSTANTS
    Addresses,     \* the addresses that may appear in a list
    MaxAddrs,      \* bound: length of a list
    Capacities,    \* initial capacities (8 + 64 * 28 in the code)
    MAX_CAPACITY   \* 4 MiB in the code

ASSUME AddressesAssumption ==
    \A a \in Addresses : \/ a = V4(a.port, a.ip)
                         \/ a = V6(a.port, a.ip, a.flowinfo, a.scope_id)
ASSUME PortsAssumption == \A a \in Addresses : a.port \in Ports
ASSUME MaxAddrsAssumption == MaxAddrs \in Nat
ASSUME CapacitiesAssumption == Capacities \subseteq Nat
ASSUME MaxCapacityAssumption == MAX_CAPACITY \in Nat \ 0..8

VARIABLES
    addrs,     \* the kernel's list of addresses
    pc,        \* "idle" or "getsockopt"
    capacity,  \* length of the buffer
    result,    \* "none", "ok", "ENOMEM" or "error"
    returned,  \* the addresses that were returned
    snap       \* history: the kernel's list during the last system call

vars == <<addrs, pc, capacity, result, returned, snap>>

Lists == UNION {[1..n -> Addresses] : n \in 0..MaxAddrs}

TypeOK ==
    /\ addrs \in Lists
    /\ pc \in {"idle", "getsockopt"}
    /\ capacity \in Nat
    /\ result \in {"none", "ok", "ENOMEM", "error"}
    /\ snap \in Lists

Init ==
    /\ addrs \in Lists
    /\ pc = "idle"
    /\ capacity = 0
    /\ result = "none"
    /\ returned = << >>
    /\ snap = << >>

-----------------------------------------------------------------------------
(* The kernel (external).                                                  *)

Count(list, family) == Cardinality({i \in 1..Len(list) : list[i].family = family})

\* The header of 8 bytes, with association id and count, and the list.
Needed(list) ==
    8 + SOCKADDR_IN_LEN * Count(list, AF_INET)
      + SOCKADDR_IN6_LEN * Count(list, AF_INET6)

\* A buffer of `capacity' zeroes after the kernel wrote to it, from buf[8].
Filled ==
    LET list == Packed(addrs, KernelSockaddr)
    IN  list \o Zeros(capacity - 8 - Len(list))

\* What the kernel takes from a packed list.
KernelWalk(bytes) ==
    IF \E list \in Lists : Packed(list, KernelSockaddr) = bytes
    THEN CHOOSE list \in Lists : Packed(list, KernelSockaddr) = bytes
    ELSE << >>

AddrsChange ==
    /\ addrs' \in Lists
    /\ addrs' # addrs
    /\ UNCHANGED <<pc, capacity, result, returned, snap>>

-----------------------------------------------------------------------------
(* getaddrs_with_capacity.                                                 *)

AtLeast(n, m) == IF n < m THEN m ELSE n
AtMost(n, m) == IF n > m THEN m ELSE n

getaddrs ==
    /\ pc = "idle"
    /\ \E initial_capacity \in Capacities :
            capacity' = AtLeast(initial_capacity, 8)
    /\ pc' = "getsockopt"
    /\ result' = "none"
    /\ returned' = << >>
    /\ UNCHANGED <<addrs, snap>>

Return(r, list) ==
    /\ pc' = "idle"
    /\ result' = r
    /\ returned' = list

getsockopt_ok ==
    /\ pc = "getsockopt"
    /\ Needed(addrs) <= capacity
    /\ snap' = addrs
    /\ Return("ok", read_addr_list(Filled, Len(addrs)))
    /\ UNCHANGED <<addrs, capacity>>

\* Mutant: the doubled capacity is not limited.
grow_unlimited(n) == n * 2

grow(n) == AtMost(n * 2, MAX_CAPACITY)

\* Mutant: the limit counts as an attempt that may be repeated.
may_grow_always(n) == n <= MAX_CAPACITY

\* Mutant: one doubling, then the error.
may_grow_once(n) == n * 2 < MAX_CAPACITY

may_grow(n) == n < MAX_CAPACITY

getsockopt_enomem ==
    /\ pc = "getsockopt"
    /\ Needed(addrs) > capacity
    /\ snap' = addrs
    /\ \/ /\ may_grow(capacity)
          /\ capacity' = grow(capacity)
          /\ UNCHANGED <<pc, result, returned>>
       \/ /\ ~may_grow(capacity)
          /\ Return("ENOMEM", << >>)
          /\ UNCHANGED capacity
    /\ UNCHANGED addrs

\* Any other error, e.g. an association id the kernel does not know.
getsockopt_error ==
    /\ pc = "getsockopt"
    /\ snap' = addrs
    /\ Return("error", << >>)
    /\ UNCHANGED <<addrs, capacity>>

\* bindx and connectx pass a packed list.
bindx ==
    /\ pc = "idle"
    /\ \E list \in Lists :
        /\ snap' = list
        /\ returned' = KernelWalk(pack_addr_list(list))
    /\ result' = "ok"
    /\ UNCHANGED <<addrs, pc, capacity>>

-----------------------------------------------------------------------------
Attempt == getsockopt_ok \/ getsockopt_enomem \/ getsockopt_error

Next == AddrsChange \/ getaddrs \/ Attempt \/ bindx

Spec == Init /\ [][Next]_vars

\* A thread inside the loop keeps running.
FairSpec == Spec /\ WF_vars(Attempt)

-----------------------------------------------------------------------------
(* Properties.                                                             *)

\* What is returned is the whole list that the kernel had at one moment, each
\* address with all its fields, however often the list changed and the buffer
\* grew before; and what bindx packs is what the kernel reads.
ResultIsSnapshot == result = "ok" => returned = snap

\* The loop never asks for more than MAX_CAPACITY bytes, unless the caller
\* began with more.
CapacityBounded ==
    \/ capacity <= MAX_CAPACITY
    \/ capacity \in Capacities

\* ENOMEM is reported only for a list that MAX_CAPACITY bytes cannot hold.
EnomemMeansTooMany == result = "ENOMEM" => Needed(snap) > MAX_CAPACITY

\* Strengthening: while the loop runs there is no result yet.
InProgress == pc = "getsockopt" => result = "none"

\* The loop ends, even if the list grows each time the buffer did.
QueryEnds == pc = "getsockopt" ~> pc = "idle"
=============================================================================

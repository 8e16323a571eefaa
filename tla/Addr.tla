-------------------------------- MODULE Addr --------------------------------
(***************************************************************************)
(* addr.rs: socket addresses and the byte layout in which they travel to   *)
(* and from the kernel. A byte is the pair <<value, position>> of the      *)
(* field it belongs to, so that a field read at the wrong offset, at the   *)
(* wrong width or across a boundary is not mistaken for a field.           *)
(***************************************************************************)
EXTENDS Naturals, Sequences, FiniteSets

AF_INET == 2
AF_INET6 == 10
SOCKADDR_IN_LEN == 16
SOCKADDR_IN6_LEN == 28

\* A field of n bytes and the value of n consecutive bytes, or Garbled.
Field(v, n) == [i \in 1..n |-> <<v, i>>]
Zeros(n) == Field(0, n)
Garbled == 999
Value(bytes) ==
    IF bytes = Field(bytes[1][1], Len(bytes)) THEN bytes[1][1] ELSE Garbled

Ports == 0..65535
V4(port, ip) == [family |-> AF_INET, port |-> port, ip |-> ip]
V6(port, ip, flowinfo, scope) ==
    [family |-> AF_INET6, port |-> port, ip |-> ip, flowinfo |-> flowinfo,
     scope_id |-> scope]

SizeOf(addr) ==
    IF addr.family = AF_INET THEN SOCKADDR_IN_LEN ELSE SOCKADDR_IN6_LEN

\* A port in network order, as the kernel has it: two octets, of which the first
\* counts in units of 256 (external).
KernelPort(port) ==
    LET high == CHOOSE h \in 0..255 : 256 * h <= port /\ port <= 256 * h + 255
    IN  Field(high, 1) \o Field(port - 256 * high, 1)

\* struct sockaddr_in and sockaddr_in6 as the kernel lays them out (external).
KernelSockaddr(addr) ==
    Field(addr.family, 2) \o KernelPort(addr.port) \o
    IF addr.family = AF_INET THEN Field(addr.ip, 4) \o Zeros(8)
    ELSE Field(addr.flowinfo, 4) \o Field(addr.ip, 16) \o Field(addr.scope_id, 4)

\* Concatenation of what `write' makes of each address.
Packed(addrs, write(_)) ==
    LET out[i \in 0..Len(addrs)] ==
            IF i = 0 THEN << >> ELSE out[i - 1] \o write(addrs[i])
    IN  out[Len(addrs)]

-----------------------------------------------------------------------------
\* Mutant: the order of a little-endian host.
to_be_bytes_native(port) == Field(port % 256, 1) \o Field(port \div 256, 1)

\* u16::to_be_bytes.
to_be_bytes(port) == Field(port \div 256, 1) \o Field(port % 256, 1)

\* u16::from_be_bytes of two octets.
from_be_bytes(first, second) == first * 256 + second

\* The fields of `out' in the order and at the offsets at which they are set.
write_sockaddr(addr) ==
    IF addr.family = AF_INET
    THEN Field(AF_INET, 2) \o to_be_bytes(addr.port) \o Field(addr.ip, 4) \o Zeros(8)
    ELSE Field(AF_INET6, 2) \o to_be_bytes(addr.port) \o Field(addr.flowinfo, 4)
            \o Field(addr.ip, 16) \o Field(addr.scope_id, 4)

\* Mutant: addresses are padded to one size, as in an array of
\* sockaddr_storage.
pack_addr_list_padded(addrs) ==
    Packed(addrs, LAMBDA a :
        write_sockaddr(a) \o Zeros(SOCKADDR_IN6_LEN - SizeOf(a)))

pack_addr_list(addrs) == Packed(addrs, write_sockaddr)

None == << >>
Some(addr, consumed) == <<addr, consumed>>

\* The bytes buf[from..to] of a Rust slice.
Slice(buf, from, to) == SubSeq(buf, from + 1, to)

read_sockaddr(buf) ==
    LET family == Value(Slice(buf, 0, 2))
        port == from_be_bytes(Value(Slice(buf, 2, 3)), Value(Slice(buf, 3, 4)))
    IN  IF Len(buf) < 2 THEN None
        ELSE IF family = AF_INET /\ Len(buf) >= SOCKADDR_IN_LEN
        THEN Some(V4(port, Value(Slice(buf, 4, 8))), SOCKADDR_IN_LEN)
        ELSE IF family = AF_INET6 /\ Len(buf) >= SOCKADDR_IN6_LEN
        THEN Some(V6(port, Value(Slice(buf, 8, 24)), Value(Slice(buf, 4, 8)),
                     Value(Slice(buf, 24, 28))), SOCKADDR_IN6_LEN)
        ELSE None

\* Mutant: every address takes the space of an IPv6 one.
read_addr_list_stride(buf, count) ==
    LET n == Len(buf) \div SOCKADDR_IN6_LEN
    IN  [i \in 1..(IF count < n THEN count ELSE n) |->
            read_sockaddr(SubSeq(buf, (i - 1) * SOCKADDR_IN6_LEN + 1, Len(buf)))[1]]

\* One turn of the loop; the first address that cannot be read ends it.
read_next(before) ==
    LET next == read_sockaddr(before.buf)
    IN  IF next = None THEN [before EXCEPT !.buf = << >>]
        ELSE [out |-> Append(before.out, next[1]),
              buf |-> SubSeq(before.buf, next[2] + 1, Len(before.buf))]

\* At most `count' addresses.
read_addr_list(buf, count) ==
    LET turn[i \in 0..count] ==
            IF i = 0 THEN [out |-> << >>, buf |-> buf] ELSE read_next(turn[i - 1])
    IN  turn[count].out
=============================================================================

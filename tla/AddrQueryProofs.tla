--------------------------- MODULE AddrQueryProofs --------------------------
(***************************************************************************)
(* Theorems about AddrQuery, for every set of addresses, lists of every    *)
(* length, every initial capacity and limit and every way the kernel's     *)
(* list may change: the growth of the buffer in getaddrs_with_capacity,    *)
(* and that the packed lists are read back as they were written.           *)
(***************************************************************************)
EXTENDS AddrQuery, FiniteSetTheorems, SequenceTheorems, WellFoundedInduction, TLAPS

\* Sizes are natural numbers, so that they can be compared.
LEMMA CountIsNat ==
    ASSUME NEW list, NEW family, Len(list) \in Nat
    PROVE  Count(list, family) \in Nat
  <1>1. IsFiniteSet(1..Len(list))
    BY FS_Interval
  <1>2. {i \in 1..Len(list) : list[i].family = family} \subseteq 1..Len(list)
    OBVIOUS
  <1>3. IsFiniteSet({i \in 1..Len(list) : list[i].family = family})
    BY <1>1, <1>2, FS_Subset
  <1> QED
    BY <1>3, FS_CardinalityType DEF Count

LEMMA ListLength ==
    ASSUME NEW list \in Lists
    PROVE  Len(list) \in Nat
  <1>1. PICK n \in 0..MaxAddrs : list \in [1..n -> Addresses]
    BY DEF Lists
  <1>2. n \in Nat
    BY MaxAddrsAssumption
  <1>3. list \in Seq(Addresses)
    BY <1>1, <1>2
  <1> QED
    BY <1>3

LEMMA NeededIsNat ==
    ASSUME NEW list \in Lists
    PROVE  Needed(list) \in Nat
  <1>1. Count(list, AF_INET) \in Nat /\ Count(list, AF_INET6) \in Nat
    BY ListLength, CountIsNat
  <1> QED
    BY <1>1 DEF Needed, SOCKADDR_IN_LEN, SOCKADDR_IN6_LEN

LEMMA EmptyList == << >> \in Lists
  <1>1. << >> \in [1..0 -> Addresses]
    OBVIOUS
  <1>2. 0 \in 0..MaxAddrs
    BY MaxAddrsAssumption
  <1> QED
    BY <1>1, <1>2 DEF Lists

LEMMA InitInvariant ==
    Init => TypeOK /\ CapacityBounded /\ InProgress /\ EnomemMeansTooMany
  BY EmptyList, MaxCapacityAssumption
     DEF Init, TypeOK, CapacityBounded, InProgress, EnomemMeansTooMany

\* Type correctness and the bound on the capacity are preserved together: an
\* attempt is repeated only below the limit, and grow stops there.
LEMMA NextType ==
    ASSUME TypeOK, CapacityBounded, [Next]_vars
    PROVE  TypeOK' /\ CapacityBounded'
  <1> USE MaxCapacityAssumption, CapacitiesAssumption
      DEF TypeOK, CapacityBounded
  <1>1. CASE AddrsChange
    BY <1>1 DEF AddrsChange
  <1>2. CASE getaddrs
    BY <1>2 DEF getaddrs, AtLeast
  <1>3. CASE getsockopt_ok
    BY <1>3 DEF getsockopt_ok, Return
  <1>4. CASE getsockopt_enomem
    BY <1>4 DEF getsockopt_enomem, Return, grow, may_grow, AtMost
  <1>5. CASE getsockopt_error
    BY <1>5 DEF getsockopt_error, Return
  <1>6. CASE bindx
    BY <1>6 DEF bindx
  <1>7. CASE UNCHANGED vars
    BY <1>7 DEF vars
  <1> QED
    BY <1>1, <1>2, <1>3, <1>4, <1>5, <1>6, <1>7 DEF Next, Attempt

\* ENOMEM is returned in one step only, from a buffer at the limit.
LEMMA NextEnomem ==
    ASSUME TypeOK, CapacityBounded, InProgress, EnomemMeansTooMany, [Next]_vars
    PROVE  InProgress' /\ EnomemMeansTooMany'
  <1> USE DEF InProgress, EnomemMeansTooMany
  <1>1. CASE AddrsChange
    BY <1>1 DEF AddrsChange
  <1>2. CASE getaddrs
    BY <1>2 DEF getaddrs
  <1>3. CASE getsockopt_ok
    BY <1>3 DEF getsockopt_ok, Return
  <1>4. CASE getsockopt_enomem
    <2>1. CASE may_grow(capacity)
      <3>1. result' = result /\ result = "none"
        BY <1>4, <2>1 DEF getsockopt_enomem
      <3> QED
        BY <3>1
    <2>2. CASE ~may_grow(capacity)
      <3>1. snap' = addrs /\ Needed(addrs) > capacity
        BY <1>4 DEF getsockopt_enomem
      <3>2. capacity >= MAX_CAPACITY
        BY <2>2, MaxCapacityAssumption DEF may_grow, TypeOK
      <3>3. Needed(addrs) \in Nat
        BY NeededIsNat DEF TypeOK
      <3>4. Needed(addrs) > MAX_CAPACITY
        BY <3>1, <3>2, <3>3, MaxCapacityAssumption DEF TypeOK
      <3>5. pc' = "idle"
        BY <1>4, <2>2 DEF getsockopt_enomem, Return
      <3> QED
        BY <3>1, <3>4, <3>5
    <2> QED
      BY <2>1, <2>2
  <1>5. CASE getsockopt_error
    BY <1>5 DEF getsockopt_error, Return
  <1>6. CASE bindx
    BY <1>6 DEF bindx
  <1>7. CASE UNCHANGED vars
    BY <1>7 DEF vars
  <1> QED
    BY <1>1, <1>2, <1>3, <1>4, <1>5, <1>6, <1>7 DEF Next, Attempt

\* However the list changes, the buffer of getaddrs_with_capacity stays
\* within MAX_CAPACITY.
THEOREM QueryIsBounded == Spec => []CapacityBounded
  <1>1. TypeOK /\ CapacityBounded /\ [Next]_vars => TypeOK' /\ CapacityBounded'
    BY NextType
  <1> QED
    BY InitInvariant, <1>1, PTL DEF Spec

\* getaddrs_with_capacity gives up only on lists that do not fit the limit.
THEOREM QueryGivesUpLate == Spec => []EnomemMeansTooMany
  <1>1. TypeOK /\ CapacityBounded /\ InProgress /\ EnomemMeansTooMany /\ [Next]_vars
            => TypeOK' /\ CapacityBounded' /\ InProgress' /\ EnomemMeansTooMany'
    BY NextType, NextEnomem
  <1> QED
    BY InitInvariant, <1>1, PTL DEF Spec

-----------------------------------------------------------------------------
(* One address: read_sockaddr undoes the kernel's layout, whatever follows *)
(* in the buffer.                                                          *)

\* The values that the fields of an address, of a structure or of padding may
\* have, and the bytes made of them.
FieldValues ==
    Nat \cup {a.ip : a \in Addresses}
        \cup {a.flowinfo : a \in Addresses} \cup {a.scope_id : a \in Addresses}
Byte == FieldValues \X Int

LEMMA FieldIsSeq ==
    ASSUME NEW v \in FieldValues, NEW n \in Int
    PROVE  /\ Field(v, n) \in Seq(Byte)
           /\ n \in Nat => Len(Field(v, n)) = n
           /\ \A i \in 1..n : Field(v, n)[i] = <<v, i>>
  <1>1. \A i \in 1..n : <<v, i>> \in Byte
    BY DEF Byte
  <1>2. CASE n \in Nat
    <2>1. Field(v, n) \in [1..n -> Byte]
      BY <1>1 DEF Field
    <2>2. Field(v, n) \in Seq(Byte) /\ Len(Field(v, n)) = n
      BY <1>2, <2>1
    <2> QED
      BY <2>2 DEF Field
  <1>3. CASE n \notin Nat
    <2>1. Field(v, n) = << >>
      BY <1>3 DEF Field
    <2>2. << >> \in Seq(Byte)
      BY EmptySeq
    <2> QED
      BY <1>3, <2>1, <2>2
  <1> QED
    BY <1>2, <1>3

\* n bytes of a field, wherever they stand, have its value.
LEMMA SliceHasValue ==
    ASSUME NEW buf \in Seq(Byte), NEW v \in FieldValues, NEW from \in Nat,
           NEW to \in Nat, from < to, to <= Len(buf),
           \A i \in 1..(to - from) : buf[from + i] = <<v, i>>
    PROVE  Value(Slice(buf, from, to)) = v
  <1> DEFINE s == Slice(buf, from, to)
             n == to - from
  <1>1. n \in Nat /\ n >= 1
    OBVIOUS
  <1>2. \A i \in (from + 1)..to : buf[i] \in Byte
    BY ElementOfSeq
  <1>3. /\ s \in Seq(Byte) /\ Len(s) = n
        /\ \A i \in 1..n : s[i] = buf[from + i]
    <2>1. from + 1 \in Int /\ to \in Int /\ from + 1 <= to
          /\ to - (from + 1) + 1 = n /\ \A i \in 1..n : from + 1 + i - 1 = from + i
      OBVIOUS
    <2>2. /\ SubSeq(buf, from + 1, to) \in Seq(Byte)
          /\ Len(SubSeq(buf, from + 1, to)) = to - (from + 1) + 1
          /\ \A i \in 1..(to - (from + 1) + 1) :
                SubSeq(buf, from + 1, to)[i] = buf[from + 1 + i - 1]
      BY <2>1, <1>2, SubSeqProperties
    <2> QED
      BY <2>1, <2>2 DEF Slice
  <1> HIDE DEF s, n
  <1>4. \A i \in 1..n : s[i] = Field(v, n)[i]
    <2>1. \A i \in 1..n : s[i] = <<v, i>>
      BY <1>3 DEF n
    <2>2. \A i \in 1..n : Field(v, n)[i] = <<v, i>>
      BY <1>1, FieldIsSeq
    <2> QED
      BY <2>1, <2>2
  <1>5. s = Field(v, n)
    BY <1>1, <1>3, <1>4, FieldIsSeq, SeqEqual
  <1>6. s[1][1] = v
    <2>1. 1 \in 1..n
      BY <1>1
    <2>2. Field(v, n)[1] = <<v, 1>>
      BY <1>1, <2>1, FieldIsSeq
    <2>3. s[1] = <<v, 1>>
      BY <1>5, <2>2
    <2> QED
      BY <2>3
  <1> QED
    BY <1>1, <1>3, <1>5, <1>6 DEF Value, s

LEMMA Concat ==
    ASSUME NEW s \in Seq(Byte), NEW t \in Seq(Byte)
    PROVE  /\ s \o t \in Seq(Byte)
           /\ Len(s) \in Nat /\ Len(t) \in Nat
           /\ Len(s \o t) = Len(s) + Len(t)
           /\ \A i \in 1..Len(s) : (s \o t)[i] = s[i]
           /\ \A i \in 1..Len(t) : (s \o t)[Len(s) + i] = t[i]
  <1>1. /\ s \o t \in Seq(Byte)
        /\ Len(s \o t) = Len(s) + Len(t)
        /\ \A i \in 1..(Len(s) + Len(t)) :
              (s \o t)[i] = IF i <= Len(s) THEN s[i] ELSE t[i - Len(s)]
    BY ConcatProperties
  <1>2. Len(s) \in Nat /\ Len(t) \in Nat
    BY LenProperties
  <1>3. \A i \in 1..Len(t) : Len(s) + i \in 1..(Len(s) + Len(t)) /\ ~(Len(s) + i <= Len(s))
                             /\ (Len(s) + i) - Len(s) = i
    BY <1>2
  <1>4. \A i \in 1..Len(s) : i \in 1..(Len(s) + Len(t)) /\ i <= Len(s)
    BY <1>2
  <1> QED
    BY <1>1, <1>2, <1>3, <1>4

LEMMA Assoc ==
    ASSUME NEW s \in Seq(Byte), NEW t \in Seq(Byte), NEW u \in Seq(Byte)
    PROVE  (s \o t) \o u = s \o (t \o u)
  BY ConcatAssociative

\* The n bytes of s behind the first `from' are the field v.
Holds(s, from, v, n) == \A i \in 1..n : s[from + i] = <<v, i>>

Add(s, v, n) == s \o Field(v, n)

\* t is s, of m bytes, with the field v behind it.
Extended(s, m, t, v, n) ==
    /\ t \in Seq(Byte)
    /\ Len(t) = m + n
    /\ Holds(t, m, v, n)
    /\ \A from, l \in Nat, w \in FieldValues :
          from + l <= m /\ Holds(s, from, w, l) => Holds(t, from, w, l)

\* A field that is appended stands at the end and moves nothing.
LEMMA AddField ==
    ASSUME NEW s \in Seq(Byte), NEW m \in Nat, Len(s) = m, NEW v \in FieldValues, NEW n \in Nat
    PROVE  Extended(s, m, Add(s, v, n), v, n)
  <1> DEFINE t == Field(v, n)
             st == s \o t
  <1>1. t \in Seq(Byte) /\ Len(t) = n /\ \A i \in 1..n : t[i] = <<v, i>>
    BY FieldIsSeq
  <1> HIDE DEF t
  <1>2. /\ st \in Seq(Byte) /\ Len(st) = m + n
        /\ \A i \in 1..m : st[i] = s[i]
        /\ \A i \in 1..n : st[m + i] = t[i]
    <2>1. /\ s \o t \in Seq(Byte) /\ Len(s \o t) = Len(s) + Len(t)
          /\ \A i \in 1..Len(s) : (s \o t)[i] = s[i]
          /\ \A i \in 1..Len(t) : (s \o t)[Len(s) + i] = t[i]
      BY <1>1, Concat
    <2> QED
      BY <1>1, <2>1
  <1> HIDE DEF st
  <1>3. Holds(st, m, v, n)
    BY <1>1, <1>2 DEF Holds
  <1>4. ASSUME NEW from \in Nat, NEW l \in Nat, NEW w \in FieldValues,
               from + l <= m, Holds(s, from, w, l)
        PROVE  Holds(st, from, w, l)
    <2>1. \A i \in 1..l : from + i \in 1..m
      BY <1>4
    <2> QED
      BY <2>1, <1>2, <1>4 DEF Holds
  <1> QED
    BY <1>2, <1>3, <1>4 DEF st, t, Add, Extended

LEMMA FirstField ==
    ASSUME NEW v \in FieldValues, NEW n \in Nat
    PROVE  Field(v, n) \in Seq(Byte) /\ Len(Field(v, n)) = n /\ Holds(Field(v, n), 0, v, n)
  <1>1. Field(v, n) \in Seq(Byte) /\ Len(Field(v, n)) = n
    BY FieldIsSeq
  <1>2. \A i \in 1..n : Field(v, n)[i] = <<v, i>> /\ 0 + i = i
    BY FieldIsSeq
  <1> QED
    BY <1>1, <1>2 DEF Holds

High(port) == port \div 256
Low(port) == port % 256

\* The two octets of a port are those of to_be_bytes, and from_be_bytes puts them
\* together again.
LEMMA PortOctets ==
    ASSUME NEW port \in Ports
    PROVE  /\ High(port) \in FieldValues /\ Low(port) \in FieldValues
           /\ KernelPort(port) = Field(High(port), 1) \o Field(Low(port), 1)
           /\ to_be_bytes(port) = Field(High(port), 1) \o Field(Low(port), 1)
           /\ from_be_bytes(High(port), Low(port)) = port
  <1>1. /\ High(port) \in 0..255 /\ Low(port) \in 0..255
        /\ port \in Int /\ High(port) \in Int /\ Low(port) \in Int
        /\ 0 <= Low(port) /\ Low(port) <= 255
        /\ port = 256 * High(port) + Low(port)
    <2> port \in Int /\ 0 <= port /\ port <= 65535
      BY SMTT(30) DEF Ports
    <2>1. /\ port \div 256 \in Int /\ port % 256 \in Int
          /\ 0 <= port % 256 /\ port % 256 <= 255
      BY SMT
    <2>2. port = 256 * (port \div 256) + (port % 256)
      BY SMT
    <2>3. /\ port \in Int /\ High(port) \in Int /\ Low(port) \in Int
          /\ 0 <= port /\ port <= 65535
          /\ 0 <= Low(port) /\ Low(port) <= 255 /\ port = 256 * High(port) + Low(port)
      BY <2>1, <2>2, SMT DEF High, Low
    <2>4. 0 <= High(port) /\ High(port) <= 255
      BY <2>3, SMT
    <2> QED
      BY <2>3, <2>4, SMT
  <1>2. /\ 256 * High(port) <= port /\ port <= 256 * High(port) + 255
        /\ \A h \in 0..255 : 256 * h <= port /\ port <= 256 * h + 255 => h = High(port)
    <2>2. 256 * High(port) <= port /\ port <= 256 * High(port) + 255
      BY ONLY <1>1
    <2>3. ASSUME NEW h \in 0..255, 256 * h <= port, port <= 256 * h + 255
          PROVE  h = High(port)
      <3>1. h \in Int
        OBVIOUS
      <3>2. 256 * h <= 256 * High(port) + 255 /\ 256 * High(port) <= 256 * h + 255
        BY <2>2, <2>3, <1>1, <3>1
      <3>3. h <= High(port) /\ High(port) <= h
        BY ONLY <1>1, <3>1, <3>2
      <3> QED
        BY ONLY <1>1, <3>1, <3>3
    <2> QED
      BY <2>2, <2>3
  <1> DEFINE high == CHOOSE h \in 0..255 : 256 * h <= port /\ port <= 256 * h + 255
  <1>3. high \in 0..255 /\ 256 * high <= port /\ port <= 256 * high + 255
    BY <1>1, <1>2, SMTT(30)
  <1> HIDE DEF high
  <1>4. high = High(port) /\ port - 256 * high = Low(port)
    <2>1. high = High(port)
      BY <1>2, <1>3
    <2>2. port - 256 * High(port) = Low(port)
      BY ONLY <1>1
    <2> QED
      BY <2>1, <2>2
  <1>5. KernelPort(port) = Field(High(port), 1) \o Field(Low(port), 1)
    BY <1>4 DEF KernelPort, high
  <1>6. from_be_bytes(High(port), Low(port)) = port
    BY <1>1 DEF from_be_bytes
  <1>7. High(port) \in FieldValues /\ Low(port) \in FieldValues
    <2>1. High(port) \in Nat /\ Low(port) \in Nat
      BY <1>1
    <2> QED
      BY <2>1 DEF FieldValues
  <1>8. to_be_bytes(port) = Field(High(port), 1) \o Field(Low(port), 1)
    BY DEF to_be_bytes, High, Low
  <1> QED
    BY <1>5, <1>6, <1>7, <1>8

\* A port behind a family.
LEMMA AddPort ==
    ASSUME NEW s \in Seq(Byte), Len(s) = 2, NEW family \in FieldValues,
           Holds(s, 0, family, 2), NEW port \in Ports
    PROVE  /\ s \o KernelPort(port) \in Seq(Byte)
           /\ Len(s \o KernelPort(port)) = 4
           /\ to_be_bytes(port) = KernelPort(port)
           /\ KernelPort(port) \in Seq(Byte)
           /\ Holds(s \o KernelPort(port), 0, family, 2)
           /\ Holds(s \o KernelPort(port), 2, High(port), 1)
           /\ Holds(s \o KernelPort(port), 3, Low(port), 1)
  <1> DEFINE high == Field(High(port), 1)
             low == Field(Low(port), 1)
             s1 == Add(s, High(port), 1)
             s2 == Add(s1, Low(port), 1)
  <1>1. /\ High(port) \in FieldValues /\ Low(port) \in FieldValues
        /\ KernelPort(port) = high \o low /\ to_be_bytes(port) = KernelPort(port)
    BY PortOctets
  <1>2. 0 \in Nat /\ 1 \in Nat /\ 2 \in Nat /\ 3 \in Nat
    OBVIOUS
  <1>3. high \in Seq(Byte) /\ low \in Seq(Byte)
    BY <1>1, <1>2, FirstField
  <1>4. Extended(s, 2, s1, High(port), 1)
    BY <1>1, <1>2, AddField, Zenon
  <1>5. s2 = s \o (high \o low)
    BY <1>3, Assoc DEF Add
  <1> HIDE DEF s1
  <1>6. /\ s1 \in Seq(Byte) /\ Len(s1) = 3
        /\ Holds(s1, 0, family, 2) /\ Holds(s1, 2, High(port), 1)
    BY <1>2, <1>4 DEF Extended
  <1>7. Extended(s1, 3, s2, Low(port), 1)
    BY <1>1, <1>2, <1>6, AddField, Zenon
  <1> HIDE DEF s2
  <1>8. /\ s2 \in Seq(Byte) /\ Len(s2) = 4
        /\ Holds(s2, 0, family, 2) /\ Holds(s2, 2, High(port), 1)
        /\ Holds(s2, 3, Low(port), 1)
    BY <1>1, <1>2, <1>6, <1>7 DEF Extended
  <1>9. high \o low \in Seq(Byte)
    BY <1>3, Concat
  <1>10. s2 = s \o KernelPort(port)
    BY <1>1, <1>5, Zenon
  <1> HIDE DEF high, low
  <1> QED
    BY <1>1, <1>8, <1>9, <1>10, Zenon

\* struct sockaddr_in: family, port and address at bytes 0, 2 and 4.
LEMMA LayoutV4 ==
    ASSUME NEW a \in Addresses, a = V4(a.port, a.ip)
    PROVE  /\ KernelSockaddr(a) \in Seq(Byte)
           /\ Len(KernelSockaddr(a)) = 16 /\ SizeOf(a) = 16
           /\ write_sockaddr(a) = KernelSockaddr(a)
           /\ Holds(KernelSockaddr(a), 0, AF_INET, 2)
           /\ Holds(KernelSockaddr(a), 2, High(a.port), 1)
           /\ Holds(KernelSockaddr(a), 3, Low(a.port), 1)
           /\ Holds(KernelSockaddr(a), 4, a.ip, 4)
  <1> DEFINE s1 == Field(AF_INET, 2)
             s2 == s1 \o KernelPort(a.port)
             s3 == Add(s2, a.ip, 4)
             s4 == Add(s3, 0, 8)
             ip == Field(a.ip, 4)
             zero == Field(0, 8)
  <1>1. a.family = AF_INET
    BY DEF V4
  <1>2. AF_INET \in FieldValues /\ High(a.port) \in FieldValues
        /\ Low(a.port) \in FieldValues /\ a.port \in Ports /\ a.ip \in FieldValues
        /\ 0 \in FieldValues
    <2>1. a.port \in Ports
      BY PortsAssumption
    <2>2. High(a.port) \in FieldValues /\ Low(a.port) \in FieldValues
      BY <2>1, PortOctets, Zenon
    <2> QED
      BY <2>1, <2>2 DEF FieldValues, AF_INET, AF_INET6
  <1>3. 2 \in Nat /\ 4 \in Nat /\ 8 \in Nat
    OBVIOUS
  <1>4. KernelSockaddr(a) = s2 \o (ip \o zero) /\ write_sockaddr(a) = s4
        /\ s4 = (s2 \o ip) \o zero
    <2>1. to_be_bytes(a.port) = KernelPort(a.port)
      BY <1>2, PortOctets, Zenon
    <2> QED
      BY <1>1, <2>1 DEF KernelSockaddr, write_sockaddr, Zeros, Add
  <1>5. /\ s1 \in Seq(Byte) /\ Len(s1) = 2 /\ Holds(s1, 0, AF_INET, 2)
        /\ ip \in Seq(Byte) /\ zero \in Seq(Byte)
    BY <1>2, <1>3, FirstField
  <1> HIDE DEF s1, ip, zero
  <1>6. s2 \in Seq(Byte) /\ Len(s2) = 4 /\ Holds(s2, 0, AF_INET, 2)
        /\ Holds(s2, 2, High(a.port), 1) /\ Holds(s2, 3, Low(a.port), 1)
    BY <1>2, <1>5, AddPort, Zenon
  <1> HIDE DEF s2
  <1>7. (s2 \o ip) \o zero = s2 \o (ip \o zero)
    BY <1>5, <1>6, Assoc, Zenon
  <1>8. /\ s3 \in Seq(Byte) /\ Len(s3) = 8
        /\ Holds(s3, 0, AF_INET, 2)
        /\ Holds(s3, 2, High(a.port), 1) /\ Holds(s3, 3, Low(a.port), 1) /\ Holds(s3, 4, a.ip, 4)
    <2>1. Extended(s2, 4, s3, a.ip, 4)
      BY <1>2, <1>3, <1>6, AddField, Zenon
    <2> QED
      BY <2>1, <1>2, <1>6 DEF Extended
  <1> HIDE DEF s3
  <1>9. /\ s4 \in Seq(Byte) /\ Len(s4) = 16
        /\ Holds(s4, 0, AF_INET, 2)
        /\ Holds(s4, 2, High(a.port), 1) /\ Holds(s4, 3, Low(a.port), 1) /\ Holds(s4, 4, a.ip, 4)
    <2>1. Extended(s3, 8, s4, 0, 8)
      BY <1>2, <1>3, <1>8, AddField, Zenon
    <2> QED
      BY <2>1, <1>2, <1>8 DEF Extended
  <1> HIDE DEF s4
  <1> QED
    BY <1>1, <1>4, <1>7, <1>9 DEF SizeOf, SOCKADDR_IN_LEN

\* struct sockaddr_in6: family, port, flow info, address and scope id at bytes
\* 0, 2, 4, 8 and 24.
LEMMA LayoutV6 ==
    ASSUME NEW a \in Addresses, a = V6(a.port, a.ip, a.flowinfo, a.scope_id)
    PROVE  /\ KernelSockaddr(a) \in Seq(Byte)
           /\ Len(KernelSockaddr(a)) = 28 /\ SizeOf(a) = 28
           /\ write_sockaddr(a) = KernelSockaddr(a)
           /\ Holds(KernelSockaddr(a), 0, AF_INET6, 2)
           /\ Holds(KernelSockaddr(a), 2, High(a.port), 1)
           /\ Holds(KernelSockaddr(a), 3, Low(a.port), 1)
           /\ Holds(KernelSockaddr(a), 4, a.flowinfo, 4)
           /\ Holds(KernelSockaddr(a), 8, a.ip, 16)
           /\ Holds(KernelSockaddr(a), 24, a.scope_id, 4)
  <1> DEFINE s1 == Field(AF_INET6, 2)
             s2 == s1 \o KernelPort(a.port)
             s3 == Add(s2, a.flowinfo, 4)
             s4 == Add(s3, a.ip, 16)
             s5 == Add(s4, a.scope_id, 4)
             flow == Field(a.flowinfo, 4)
             ip == Field(a.ip, 16)
             scope == Field(a.scope_id, 4)
  <1>1. a.family = AF_INET6 /\ AF_INET6 # AF_INET
    BY DEF V6, AF_INET, AF_INET6
  <1>2. AF_INET6 \in FieldValues /\ High(a.port) \in FieldValues
        /\ Low(a.port) \in FieldValues /\ a.port \in Ports /\ a.ip \in FieldValues
        /\ a.flowinfo \in FieldValues /\ a.scope_id \in FieldValues
    <2>1. a.port \in Ports
      BY PortsAssumption
    <2>2. High(a.port) \in FieldValues /\ Low(a.port) \in FieldValues
      BY <2>1, PortOctets, Zenon
    <2> QED
      BY <2>1, <2>2 DEF FieldValues, AF_INET, AF_INET6
  <1>3. 2 \in Nat /\ 4 \in Nat /\ 8 \in Nat /\ 16 \in Nat /\ 24 \in Nat
    OBVIOUS
  <1>4. KernelSockaddr(a) = s2 \o ((flow \o ip) \o scope) /\ write_sockaddr(a) = s5
        /\ s5 = ((s2 \o flow) \o ip) \o scope
    <2>1. to_be_bytes(a.port) = KernelPort(a.port)
      BY <1>2, PortOctets, Zenon
    <2> QED
      BY <1>1, <2>1 DEF KernelSockaddr, write_sockaddr, Zeros, Add
  <1>5. /\ s1 \in Seq(Byte) /\ Len(s1) = 2 /\ Holds(s1, 0, AF_INET6, 2)
        /\ flow \in Seq(Byte) /\ ip \in Seq(Byte) /\ scope \in Seq(Byte)
    BY <1>2, <1>3, FirstField
  <1> HIDE DEF s1, flow, ip, scope
  <1>6. s2 \in Seq(Byte) /\ Len(s2) = 4 /\ Holds(s2, 0, AF_INET6, 2)
        /\ Holds(s2, 2, High(a.port), 1) /\ Holds(s2, 3, Low(a.port), 1)
    BY <1>2, <1>5, AddPort, Zenon
  <1> HIDE DEF s2
  <1>7. s2 \o ((flow \o ip) \o scope) = ((s2 \o flow) \o ip) \o scope
    <2> DEFINE fi == flow \o ip
    <2>1. fi \in Seq(Byte)
      BY <1>5, Concat
    <2>2. (s2 \o flow) \o ip = s2 \o fi
      BY <1>5, <1>6, Assoc, ZenonT(30)
    <2> HIDE DEF fi
    <2>3. (s2 \o fi) \o scope = s2 \o (fi \o scope)
      BY <2>1, <1>5, <1>6, Assoc, ZenonT(30)
    <2> QED
      BY <2>2, <2>3 DEF fi
  <1>8. /\ s3 \in Seq(Byte) /\ Len(s3) = 8
        /\ Holds(s3, 0, AF_INET6, 2)
        /\ Holds(s3, 2, High(a.port), 1) /\ Holds(s3, 3, Low(a.port), 1)
        /\ Holds(s3, 4, a.flowinfo, 4)
    <2>1. Extended(s2, 4, s3, a.flowinfo, 4)
      BY <1>2, <1>3, <1>6, AddField, Zenon
    <2> QED
      BY <2>1, <1>2, <1>6 DEF Extended
  <1> HIDE DEF s3
  <1>9. /\ s4 \in Seq(Byte) /\ Len(s4) = 24
        /\ Holds(s4, 0, AF_INET6, 2)
        /\ Holds(s4, 2, High(a.port), 1) /\ Holds(s4, 3, Low(a.port), 1)
        /\ Holds(s4, 4, a.flowinfo, 4)
        /\ Holds(s4, 8, a.ip, 16)
    <2>1. Extended(s3, 8, s4, a.ip, 16)
      BY <1>2, <1>3, <1>8, AddField, Zenon
    <2> QED
      BY <2>1, <1>2, <1>8 DEF Extended
  <1> HIDE DEF s4
  <1>10. /\ s5 \in Seq(Byte) /\ Len(s5) = 28
         /\ Holds(s5, 0, AF_INET6, 2)
         /\ Holds(s5, 2, High(a.port), 1) /\ Holds(s5, 3, Low(a.port), 1)
         /\ Holds(s5, 4, a.flowinfo, 4)
         /\ Holds(s5, 8, a.ip, 16) /\ Holds(s5, 24, a.scope_id, 4)
    <2>1. Extended(s4, 24, s5, a.scope_id, 4)
      BY <1>2, <1>3, <1>9, AddField, Zenon
    <2> QED
      BY <2>1, <1>2, <1>9 DEF Extended
  <1> HIDE DEF s5
  <1> QED
    BY <1>1, <1>4, <1>7, <1>10 DEF SizeOf, SOCKADDR_IN6_LEN

\* The part of a buffer that holds an address keeps its fields where they were.
LEMMA FieldsInBuffer ==
    ASSUME NEW k, NEW buf \in Seq(Byte), NEW size \in Nat, Len(buf) >= size,
           \A i \in 1..size : buf[i] = k[i]
    PROVE  \A from, to \in Nat, v \in FieldValues, n \in Nat :
              /\ from < to /\ to <= size /\ n = to - from
              /\ Holds(k, from, v, n)
              => Value(Slice(buf, from, to)) = v
  <1> SUFFICES ASSUME NEW from \in Nat, NEW to \in Nat, NEW v \in FieldValues, NEW n \in Nat,
                      from < to, to <= size, n = to - from, Holds(k, from, v, n)
               PROVE  Value(Slice(buf, from, to)) = v
    OBVIOUS
  <1>1. Len(buf) \in Nat
    BY LenProperties
  <1>2. \A i \in 1..(to - from) : from + i \in 1..size
    OBVIOUS
  <1>3. \A i \in 1..(to - from) : buf[from + i] = <<v, i>>
    BY <1>2 DEF Holds
  <1>4. to <= Len(buf)
    BY <1>1
  <1> QED
    BY <1>3, <1>4, SliceHasValue

\* read_sockaddr finds the address that the kernel wrote at the start of a buffer.
LEMMA ReadsBack ==
    ASSUME NEW a \in Addresses, NEW buf \in Seq(Byte), Len(buf) >= SizeOf(a),
           \A i \in 1..SizeOf(a) : buf[i] = KernelSockaddr(a)[i]
    PROVE  read_sockaddr(buf) = Some(a, SizeOf(a))
  <1> DEFINE k == KernelSockaddr(a)
             family == Value(Slice(buf, 0, 2))
             port == from_be_bytes(Value(Slice(buf, 2, 3)), Value(Slice(buf, 3, 4)))
  <1>1. /\ AF_INET \in FieldValues /\ AF_INET6 \in FieldValues
        /\ High(a.port) \in FieldValues /\ Low(a.port) \in FieldValues
        /\ from_be_bytes(High(a.port), Low(a.port)) = a.port
        /\ a.ip \in FieldValues
        /\ a.flowinfo \in FieldValues /\ a.scope_id \in FieldValues
    <2>1. a.port \in Ports
      BY PortsAssumption
    <2>2. /\ High(a.port) \in FieldValues /\ Low(a.port) \in FieldValues
          /\ from_be_bytes(High(a.port), Low(a.port)) = a.port
      BY <2>1, PortOctets, Zenon
    <2> QED
      BY <2>2 DEF FieldValues, AF_INET, AF_INET6
  <1>2. Len(buf) \in Nat
    BY LenProperties
  <1>3. CASE a = V4(a.port, a.ip)
    <2>1. /\ SizeOf(a) = 16 /\ Holds(k, 0, AF_INET, 2)
          /\ Holds(k, 2, High(a.port), 1) /\ Holds(k, 3, Low(a.port), 1)
          /\ Holds(k, 4, a.ip, 4)
      BY <1>3, LayoutV4
    <2> HIDE DEF k
    <2>2. \A from, to \in Nat, v \in FieldValues, n \in Nat :
              /\ from < to /\ to <= 16 /\ n = to - from
              /\ Holds(k, from, v, n)
              => Value(Slice(buf, from, to)) = v
      <3>1. 16 \in Nat /\ Len(buf) >= 16 /\ \A i \in 1..16 : buf[i] = k[i]
        BY <2>1 DEF k
      <3> QED
        BY <3>1, FieldsInBuffer, Zenon
    <2>3. family = AF_INET
      <3>1. 0 \in Nat /\ 2 \in Nat /\ 2 \in Nat /\ 0 < 2 /\ 2 <= 16 /\ 2 = 2 - 0
        OBVIOUS
      <3> QED
        BY <3>1, <1>1, <2>1, <2>2, Zenon
    <2>4. port = a.port
      <3>1. 2 \in Nat /\ 3 \in Nat /\ 1 \in Nat /\ 2 < 3 /\ 3 <= 16 /\ 1 = 3 - 2
        OBVIOUS
      <3>2. 3 \in Nat /\ 4 \in Nat /\ 1 \in Nat /\ 3 < 4 /\ 4 <= 16 /\ 1 = 4 - 3
        OBVIOUS
      <3>3. Value(Slice(buf, 2, 3)) = High(a.port)
        BY <3>1, <1>1, <2>1, <2>2, Zenon
      <3>4. Value(Slice(buf, 3, 4)) = Low(a.port)
        BY <3>2, <1>1, <2>1, <2>2, Zenon
      <3> QED
        BY <3>3, <3>4, <1>1
    <2>5. Value(Slice(buf, 4, 8)) = a.ip
      <3>1. 4 \in Nat /\ 8 \in Nat /\ 4 \in Nat /\ 4 < 8 /\ 8 <= 16 /\ 4 = 8 - 4
        OBVIOUS
      <3> QED
        BY <3>1, <1>1, <2>1, <2>2, Zenon
    <2> HIDE DEF family, port
    <2>6. read_sockaddr(buf) = Some(V4(port, Value(Slice(buf, 4, 8))), SOCKADDR_IN_LEN)
      BY <1>2, <2>1, <2>3 DEF read_sockaddr, family, port, SOCKADDR_IN_LEN
    <2> QED
      BY <1>3, <2>1, <2>4, <2>5, <2>6 DEF SOCKADDR_IN_LEN
  <1>4. CASE a = V6(a.port, a.ip, a.flowinfo, a.scope_id)
    <2>1. /\ SizeOf(a) = 28 /\ Holds(k, 0, AF_INET6, 2)
          /\ Holds(k, 2, High(a.port), 1) /\ Holds(k, 3, Low(a.port), 1)
          /\ Holds(k, 4, a.flowinfo, 4) /\ Holds(k, 8, a.ip, 16)
          /\ Holds(k, 24, a.scope_id, 4)
      BY <1>4, LayoutV6
    <2> HIDE DEF k
    <2>2. \A from, to \in Nat, v \in FieldValues, n \in Nat :
              /\ from < to /\ to <= 28 /\ n = to - from
              /\ Holds(k, from, v, n)
              => Value(Slice(buf, from, to)) = v
      <3>1. 28 \in Nat /\ Len(buf) >= 28 /\ \A i \in 1..28 : buf[i] = k[i]
        BY <2>1 DEF k
      <3> QED
        BY <3>1, FieldsInBuffer, Zenon
    <2>3. family = AF_INET6
      <3>1. 0 \in Nat /\ 2 \in Nat /\ 2 \in Nat /\ 0 < 2 /\ 2 <= 28 /\ 2 = 2 - 0
        OBVIOUS
      <3> QED
        BY <3>1, <1>1, <2>1, <2>2, Zenon
    <2>4. port = a.port
      <3>1. 2 \in Nat /\ 3 \in Nat /\ 1 \in Nat /\ 2 < 3 /\ 3 <= 28 /\ 1 = 3 - 2
        OBVIOUS
      <3>2. 3 \in Nat /\ 4 \in Nat /\ 1 \in Nat /\ 3 < 4 /\ 4 <= 28 /\ 1 = 4 - 3
        OBVIOUS
      <3>3. Value(Slice(buf, 2, 3)) = High(a.port)
        BY <3>1, <1>1, <2>1, <2>2, Zenon
      <3>4. Value(Slice(buf, 3, 4)) = Low(a.port)
        BY <3>2, <1>1, <2>1, <2>2, Zenon
      <3> QED
        BY <3>3, <3>4, <1>1
    <2>5. Value(Slice(buf, 4, 8)) = a.flowinfo
      <3>1. 4 \in Nat /\ 8 \in Nat /\ 4 \in Nat /\ 4 < 8 /\ 8 <= 28 /\ 4 = 8 - 4
        OBVIOUS
      <3> QED
        BY <3>1, <1>1, <2>1, <2>2, Zenon
    <2>6. Value(Slice(buf, 8, 24)) = a.ip
      <3>1. 8 \in Nat /\ 24 \in Nat /\ 16 \in Nat /\ 8 < 24 /\ 24 <= 28 /\ 16 = 24 - 8
        OBVIOUS
      <3> QED
        BY <3>1, <1>1, <2>1, <2>2, Zenon
    <2>7. Value(Slice(buf, 24, 28)) = a.scope_id
      <3>1. 24 \in Nat /\ 28 \in Nat /\ 4 \in Nat /\ 24 < 28 /\ 28 <= 28 /\ 4 = 28 - 24
        OBVIOUS
      <3> QED
        BY <3>1, <1>1, <2>1, <2>2, Zenon
    <2> HIDE DEF family, port
    <2>8. read_sockaddr(buf) = Some(V6(port, Value(Slice(buf, 8, 24)), Value(Slice(buf, 4, 8)),
                                       Value(Slice(buf, 24, 28))), SOCKADDR_IN6_LEN)
      BY <1>2, <2>1, <2>3
         DEF read_sockaddr, family, port, SOCKADDR_IN_LEN, SOCKADDR_IN6_LEN, AF_INET, AF_INET6
    <2> QED
      BY <1>4, <2>1, <2>4, <2>5, <2>6, <2>7, <2>8 DEF SOCKADDR_IN6_LEN
  <1> QED
    BY <1>3, <1>4, AddressesAssumption

-----------------------------------------------------------------------------
(* Induction, for sets instead of predicates: the least element outside the *)
(* set would have a predecessor inside.                                     *)

LEMMA SetInduction ==
    ASSUME NEW S \in SUBSET Nat, 0 \in S, \A n \in S : n + 1 \in S
    PROVE  S = Nat
  <1> DEFINE R == OpToRel(<, Nat)
             T == Nat \ S
  <1>1. IsWellFoundedOn(R, Nat)
    BY NatLessThanWellFounded
  <1>2. \A x, y \in Nat : y < x => <<y, x>> \in R
    BY DEF OpToRel
  <1> HIDE DEF R
  <1>3. ASSUME T # {} PROVE FALSE
    <2>1. PICK x \in T : \A y \in T : ~(<<y, x>> \in R)
      BY <1>1, <1>3, WFMin, Zenon
    <2>2. x # 0 /\ x - 1 \in Nat /\ x - 1 < x /\ (x - 1) + 1 = x
      BY <2>1
    <2>3. x - 1 \in S
      BY <2>1, <2>2, <1>2
    <2> QED
      BY <2>1, <2>2, <2>3
  <1> QED
    BY <1>3

-----------------------------------------------------------------------------
(* Packed lists: out[i] is the concatenation of the first i parts.          *)

Packs(out, w, n) ==
    /\ out \in [0..n -> Seq(Byte)]
    /\ out[0] = << >>
    /\ \A i \in 1..n : out[i] = out[i - 1] \o w[i]

LEMMA PacksExists ==
    ASSUME NEW n \in Nat, NEW w \in [1..n -> Seq(Byte)]
    PROVE  \E out : Packs(out, w, n)
  <1> DEFINE S == {m \in Nat : m <= n => \E out : Packs(out, w, m)}
  <1>1. 0 \in S
    <2> DEFINE f == [i \in 0..0 |-> << >>]
    <2>1. f \in [0..0 -> Seq(Byte)]
      BY EmptySeq
    <2>2. f[0] = << >> /\ \A i \in 1..0 : FALSE
      OBVIOUS
    <2> HIDE DEF f
    <2>3. Packs(f, w, 0)
      BY <2>1, <2>2 DEF Packs
    <2> QED
      BY <2>3
  <1>2. ASSUME NEW m \in S PROVE m + 1 \in S
    <2> SUFFICES ASSUME m + 1 <= n PROVE \E out : Packs(out, w, m + 1)
      OBVIOUS
    <2>1. m \in Nat /\ m <= n /\ m + 1 \in 1..n
      OBVIOUS
    <2>2. PICK f : Packs(f, w, m)
      BY <1>2, <2>1
    <2> DEFINE g == [i \in 0..(m + 1) |-> IF i <= m THEN f[i] ELSE f[m] \o w[m + 1]]
    <2>3. /\ f \in [0..m -> Seq(Byte)] /\ f[0] = << >>
          /\ \A i \in 1..m : f[i] = f[i - 1] \o w[i]
      BY <2>2 DEF Packs
    <2>4. f[m] \o w[m + 1] \in Seq(Byte)
      BY <2>1, <2>3, Concat
    <2>5. g \in [0..(m + 1) -> Seq(Byte)]
      BY <2>1, <2>3, <2>4
    <2>6. \A i \in 0..m : g[i] = f[i]
      BY <2>1
    <2>7. g[m + 1] = f[m] \o w[m + 1]
      <3>1. m + 1 \in 0..(m + 1) /\ ~(m + 1 <= m)
        BY <2>1
      <3> QED
        BY <3>1
    <2> HIDE DEF g
    <2>8. g[0] = << >>
      BY <2>1, <2>3, <2>6
    <2>9. ASSUME NEW i \in 1..(m + 1) PROVE g[i] = g[i - 1] \o w[i]
      <3>1. CASE i <= m
        <4>1. i \in 1..m /\ i \in 0..m /\ i - 1 \in 0..m
          BY <2>1, <3>1
        <4> QED
          BY <4>1, <2>3, <2>6
      <3>2. CASE i = m + 1
        <4>1. i - 1 = m /\ m \in 0..m
          BY <2>1, <3>2
        <4> QED
          BY <4>1, <3>2, <2>6, <2>7
      <3>3. i <= m \/ i = m + 1
        BY <2>1
      <3> QED
        BY <3>1, <3>2, <3>3
    <2>10. Packs(g, w, m + 1)
      BY <2>5, <2>8, <2>9 DEF Packs
    <2> QED
      BY <2>10
  <1> HIDE DEF S
  <1>3. S = Nat
    <2>1. S \in SUBSET Nat
      BY DEF S
    <2> QED
      BY <1>1, <1>2, <2>1, SetInduction
  <1>4. n \in S
    BY <1>3
  <1> QED
    BY <1>4 DEF S

Recurs(g, w, n) == g = [i \in 0..n |-> IF i = 0 THEN << >> ELSE g[i - 1] \o w[i]]

\* Whatever satisfies the recursion consists of sequences, and is unique.
LEMMA PacksUnique ==
    ASSUME NEW n \in Nat, NEW w \in [1..n -> Seq(Byte)], NEW f, Packs(f, w, n),
           NEW g, Recurs(g, w, n)
    PROVE  g = f
  <1> USE DEF Recurs
  <1> DEFINE S == {m \in Nat : m <= n => g[m] = f[m]}
  <1>1. 0 \in S
    BY DEF Packs
  <1>2. ASSUME NEW m \in S PROVE m + 1 \in S
    <2> SUFFICES ASSUME m + 1 <= n PROVE g[m + 1] = f[m + 1]
      OBVIOUS
    <2>1. m \in Nat /\ m <= n /\ m + 1 \in 1..n /\ m + 1 \in 0..n /\ m + 1 # 0
          /\ (m + 1) - 1 = m
      OBVIOUS
    <2>2. g[m] = f[m]
      BY <1>2, <2>1
    <2>3. f[m + 1] = f[m] \o w[m + 1]
      BY <2>1 DEF Packs
    <2>4. g[m + 1] = g[m] \o w[m + 1]
      BY <2>1
    <2> QED
      BY <2>2, <2>3, <2>4
  <1> HIDE DEF S
  <1>3. S = Nat
    <2>1. S \in SUBSET Nat
      BY DEF S
    <2> QED
      BY <1>1, <1>2, <2>1, SetInduction
  <1>4. \A i \in 0..n : g[i] = f[i]
    <2>1. \A i \in 0..n : i \in S
      BY <1>3
    <2> QED
      BY <2>1 DEF S
  <1>5. DOMAIN g = 0..n /\ DOMAIN f = 0..n
    BY DEF Packs
  <1>6. f = [i \in 0..n |-> f[i]]
    BY DEF Packs
  <1>7. g = [i \in 0..n |-> g[i]]
    OBVIOUS
  <1> QED
    BY <1>4, <1>6, <1>7

LEMMA KernelBytes ==
    ASSUME NEW a \in Addresses
    PROVE  /\ KernelSockaddr(a) \in Seq(Byte)
           /\ Len(KernelSockaddr(a)) = SizeOf(a)
           /\ SizeOf(a) \in Nat \ {0}
           /\ write_sockaddr(a) = KernelSockaddr(a)
  <1>1. CASE a = V4(a.port, a.ip)
    <2>1. /\ KernelSockaddr(a) \in Seq(Byte) /\ Len(KernelSockaddr(a)) = 16
          /\ SizeOf(a) = 16 /\ write_sockaddr(a) = KernelSockaddr(a)
      BY <1>1, LayoutV4
    <2> QED
      BY <2>1
  <1>2. CASE a = V6(a.port, a.ip, a.flowinfo, a.scope_id)
    <2>1. /\ KernelSockaddr(a) \in Seq(Byte) /\ Len(KernelSockaddr(a)) = 28
          /\ SizeOf(a) = 28 /\ write_sockaddr(a) = KernelSockaddr(a)
      BY <1>2, LayoutV6
    <2> QED
      BY <2>1
  <1> QED
    BY <1>1, <1>2, AddressesAssumption

Parts(list) == [i \in 1..Len(list) |-> KernelSockaddr(list[i])]

LEMMA PartsAreBytes ==
    ASSUME NEW list \in Seq(Addresses)
    PROVE  Len(list) \in Nat /\ Parts(list) \in [1..Len(list) -> Seq(Byte)]
  <1>1. Len(list) \in Nat
    BY LenProperties
  <1>2. \A i \in 1..Len(list) : list[i] \in Addresses
    BY ElementOfSeq
  <1>3. \A i \in 1..Len(list) : KernelSockaddr(list[i]) \in Seq(Byte)
    BY <1>2, KernelBytes
  <1> QED
    BY <1>1, <1>3 DEF Parts

\* The packed list, of the kernel and of pack_addr_list, is the last of them.
LEMMA PackedIs ==
    ASSUME NEW list \in Seq(Addresses), NEW n, n = Len(list), NEW f, Packs(f, Parts(list), n)
    PROVE  Packed(list, KernelSockaddr) = f[n] /\ pack_addr_list(list) = f[n]
  <1>1. n \in Nat /\ Parts(list) \in [1..n -> Seq(Byte)]
    BY PartsAreBytes
  <1>2. \A i \in 1..n : /\ Parts(list)[i] = KernelSockaddr(list[i])
                        /\ write_sockaddr(list[i]) = KernelSockaddr(list[i])
    <2>1. \A i \in 1..n : list[i] \in Addresses
      BY ElementOfSeq
    <2> QED
      BY <2>1, KernelBytes DEF Parts
  <1>3. Packed(list, KernelSockaddr) = f[n]
    <2> DEFINE P(g) == g = [i \in 0..n |->
                            IF i = 0 THEN << >> ELSE g[i - 1] \o KernelSockaddr(list[i])]
               c == CHOOSE g : P(g)
    <2>1. P(f)
      <3>1. f = [i \in 0..n |-> f[i]] /\ f[0] = << >>
        BY DEF Packs
      <3>2. \A i \in 0..n : i # 0 => f[i] = f[i - 1] \o KernelSockaddr(list[i])
        <4>1. \A i \in 0..n : i # 0 => i \in 1..n
          BY <1>1
        <4> QED
          BY <4>1, <1>2 DEF Packs
      <3> QED
        BY <3>1, <3>2
    <2>2. P(c)
      BY <2>1, Zenon
    <2>3. Packed(list, KernelSockaddr) = c[n]
      BY DEF Packed
    <2> HIDE DEF c
    <2>4. Recurs(c, Parts(list), n)
      BY <1>1, <1>2, <2>2 DEF Recurs
    <2>5. c = f
      BY <1>1, <2>4, PacksUnique
    <2> QED
      BY <2>3, <2>5
  <1>4. pack_addr_list(list) = f[n]
    <2> DEFINE P(g) == g = [i \in 0..n |->
                            IF i = 0 THEN << >> ELSE g[i - 1] \o write_sockaddr(list[i])]
               c == CHOOSE g : P(g)
    <2>1. P(f)
      <3>1. f = [i \in 0..n |-> f[i]] /\ f[0] = << >>
        BY DEF Packs
      <3>2. \A i \in 0..n : i # 0 => f[i] = f[i - 1] \o write_sockaddr(list[i])
        <4>1. \A i \in 0..n : i # 0 => i \in 1..n
          BY <1>1
        <4> QED
          BY <4>1, <1>2 DEF Packs
      <3> QED
        BY <3>1, <3>2
    <2>2. P(c)
      BY <2>1, Zenon
    <2>3. pack_addr_list(list) = c[n]
      BY DEF pack_addr_list, Packed
    <2> HIDE DEF c
    <2>4. Recurs(c, Parts(list), n)
      BY <1>1, <1>2, <2>2 DEF Recurs
    <2>5. c = f
      BY <1>1, <2>4, PacksUnique
    <2> QED
      BY <2>3, <2>5
  <1> QED
    BY <1>3, <1>4

\* Every out[i] is the beginning of the whole.
Prefix(s, t) == Len(s) <= Len(t) /\ \A j \in 1..Len(s) : t[j] = s[j]

LEMMA PrefixConcat ==
    ASSUME NEW s \in Seq(Byte), NEW t \in Seq(Byte), NEW u \in Seq(Byte), Prefix(s, t)
    PROVE  Prefix(s, t \o u)
  <1> DEFINE tu == t \o u
  <1>1. /\ Len(tu) = Len(t) + Len(u) /\ Len(t) \in Nat /\ Len(u) \in Nat
        /\ \A i \in 1..Len(t) : tu[i] = t[i]
    BY Concat
  <1> HIDE DEF tu
  <1>2. Len(s) \in Nat
    BY LenProperties
  <1>3. Prefix(s, tu)
    BY <1>1, <1>2 DEF Prefix
  <1> QED
    BY <1>3 DEF tu

LEMMA PacksPrefix ==
    ASSUME NEW n \in Nat, NEW w \in [1..n -> Seq(Byte)], NEW f, Packs(f, w, n)
    PROVE  \A i \in 0..n : Prefix(f[i], f[n])
  <1> DEFINE S == {m \in Nat : m <= n => \A i \in 0..m : Prefix(f[i], f[m])}
  <1>1. \A i \in 0..n : f[i] \in Seq(Byte) /\ Len(f[i]) \in Nat
    <2>1. \A i \in 0..n : f[i] \in Seq(Byte)
      BY DEF Packs
    <2> QED
      BY <2>1, LenProperties
  <1>2. \A i \in 0..n : Prefix(f[i], f[i])
    BY <1>1 DEF Prefix
  <1>3. 0 \in S
    <2>1. 0 \in 0..n /\ \A i \in 0..0 : i = 0
      OBVIOUS
    <2> QED
      BY <2>1, <1>2
  <1>4. ASSUME NEW m \in S PROVE m + 1 \in S
    <2> SUFFICES ASSUME m + 1 <= n, NEW i \in 0..(m + 1) PROVE Prefix(f[i], f[m + 1])
      OBVIOUS
    <2>1. m \in Nat /\ m <= n /\ m \in 0..n /\ m + 1 \in 1..n /\ m + 1 \in 0..n
          /\ (m + 1) - 1 = m
      OBVIOUS
    <2>2. CASE i = m + 1
      BY <1>2, <2>1, <2>2
    <2>3. CASE i # m + 1
      <3>1. i \in 0..m /\ i \in 0..n
        BY <2>1, <2>3
      <3>2. Prefix(f[i], f[m])
        BY <1>4, <2>1, <3>1
      <3>3. f[m + 1] = f[m] \o w[m + 1]
        BY <2>1 DEF Packs
      <3>4. f[m] \in Seq(Byte) /\ w[m + 1] \in Seq(Byte)
        BY <1>1, <2>1
      <3>5. f[i] \in Seq(Byte)
        BY <1>1, <3>1
      <3> QED
        BY <3>2, <3>3, <3>4, <3>5, PrefixConcat
    <2> QED
      BY <2>2, <2>3
  <1> HIDE DEF S
  <1>5. S = Nat
    <2>1. S \in SUBSET Nat
      BY DEF S
    <2> QED
      BY <1>3, <1>4, <2>1, SetInduction
  <1>6. n \in S
    BY <1>5
  <1> QED
    BY <1>6 DEF S

-----------------------------------------------------------------------------
(* Reading: after i turns the first i addresses have been read and the rest *)
(* of the buffer is what follows them.                                      *)

\* What is left of a buffer.
Drop(b, m) == SubSeq(b, m + 1, Len(b))

TurnAt(list, f, bytes, i) ==
    [out |-> SubSeq(list, 1, i), buf |-> Drop(bytes, Len(f[i]))]

LEMMA Rest ==
    ASSUME NEW b \in Seq(Byte), NEW m \in Nat, m <= Len(b)
    PROVE  /\ Len(b) \in Nat
           /\ Drop(b, m) \in Seq(Byte)
           /\ Len(Drop(b, m)) = Len(b) - m
           /\ \A i \in 1..(Len(b) - m) : Drop(b, m)[i] = b[m + i]
  <1>1. Len(b) \in Nat
    BY LenProperties
  <1>2. \A i \in (m + 1)..Len(b) : b[i] \in Byte
    <2>1. \A i \in (m + 1)..Len(b) : i \in 1..Len(b)
      BY <1>1
    <2> QED
      BY <2>1, ElementOfSeq
  <1> DEFINE lo == m + 1
             hi == Len(b)
  <1>3. /\ lo \in Int /\ hi \in Int /\ \A i \in lo..hi : b[i] \in Byte
    BY <1>1, <1>2
  <1> HIDE DEF lo, hi
  <1>4. /\ SubSeq(b, lo, hi) \in Seq(Byte)
        /\ Len(SubSeq(b, lo, hi)) = IF lo <= hi THEN hi - lo + 1 ELSE 0
        /\ \A i \in 1..(hi - lo + 1) : SubSeq(b, lo, hi)[i] = b[lo + i - 1]
    BY <1>3, SubSeqProperties
  <1>5. /\ hi - lo + 1 = Len(b) - m /\ (lo <= hi \/ Len(b) - m = 0)
        /\ \A i \in 1..(Len(b) - m) : lo + i - 1 = m + i
    BY <1>1 DEF lo, hi
  <1> QED
    BY <1>1, <1>4, <1>5 DEF lo, hi, Drop

\* Leaving out first m and then k bytes leaves out m + k.
LEMMA RestOfRest ==
    ASSUME NEW b \in Seq(Byte), NEW m \in Nat, NEW k \in Nat, NEW h, h = m + k, h <= Len(b)
    PROVE  Drop(Drop(b, m), k) = Drop(b, h)
  <1> DEFINE r == Drop(b, m)
             l == Drop(r, k)
             q == Drop(b, h)
  <1>1. Len(b) \in Nat
    BY LenProperties
  <1>2. /\ r \in Seq(Byte) /\ Len(r) = Len(b) - m
        /\ \A i \in 1..(Len(b) - m) : r[i] = b[m + i]
    <2>1. m <= Len(b)
      BY <1>1
    <2> QED
      BY <2>1, Rest
  <1>3. h \in Nat /\ k <= Len(b) - m
    BY <1>1
  <1>4. /\ q \in Seq(Byte) /\ Len(q) = Len(b) - h
        /\ \A i \in 1..(Len(b) - h) : q[i] = b[h + i]
    BY <1>3, Rest
  <1> HIDE DEF r, q
  <1>5. /\ l \in Seq(Byte) /\ Len(l) = Len(r) - k
        /\ \A i \in 1..(Len(r) - k) : l[i] = r[k + i]
    BY <1>2, <1>3, Rest
  <1> HIDE DEF l
  <1>6. Len(l) = Len(q)
    BY <1>1, <1>2, <1>4, <1>5
  <1>7. ASSUME NEW i \in 1..Len(l) PROVE l[i] = q[i]
    <2>1. /\ i \in 1..(Len(r) - k) /\ k + i \in 1..(Len(b) - m)
          /\ i \in 1..(Len(b) - h) /\ m + (k + i) = h + i
      BY <1>1, <1>2, <1>4, <1>5, <1>6
    <2> QED
      BY <2>1, <1>2, <1>4, <1>5
  <1>8. l = q
    BY <1>4, <1>5, <1>6, <1>7, SeqEqual
  <1> QED
    BY <1>8 DEF l, r, q

\* The bytes begin with the packed list, of which f are the beginnings.
Written(list, n, f, bytes) ==
    /\ list \in Seq(Addresses) /\ n = Len(list)
    /\ Packs(f, Parts(list), n)
    /\ \E z \in Seq(Byte) : bytes = f[n] \o z

\* One turn of the loop reads the next address, whatever follows the list.
LEMMA ReadStep ==
    ASSUME NEW list, NEW n, NEW f, NEW bytes, Written(list, n, f, bytes), NEW i \in 1..n
    PROVE  read_next(TurnAt(list, f, bytes, i - 1)) = TurnAt(list, f, bytes, i)
  <1>0. /\ list \in Seq(Addresses) /\ n = Len(list) /\ Packs(f, Parts(list), n)
        /\ \E z \in Seq(Byte) : bytes = f[n] \o z
    BY DEF Written
  <1> PICK z \in Seq(Byte) : bytes = f[n] \o z
    BY <1>0
  <1> USE <1>0
  <1> DEFINE a == list[i]
             k == KernelSockaddr(a)
             m == Len(f[i - 1])
             b == Drop(bytes, m)
             size == SizeOf(a)
  <1>1. n \in Nat /\ Parts(list) \in [1..n -> Seq(Byte)]
    BY PartsAreBytes
  <1>2. i \in 0..n /\ i - 1 \in 0..n /\ n \in 0..n
    BY <1>1
  <1>3. a \in Addresses
    BY ElementOfSeq
  <1>4. k \in Seq(Byte) /\ Len(k) = size /\ size \in Nat \ {0}
    BY <1>3, KernelBytes
  <1>5. f[i] = f[i - 1] \o k
    BY <1>1 DEF Packs, Parts
  <1>6. f[i - 1] \in Seq(Byte) /\ f[i] \in Seq(Byte) /\ f[n] \in Seq(Byte)
    BY <1>2 DEF Packs
  <1> HIDE DEF a, k
  <1>7. /\ m \in Nat /\ Len(f[i]) = m + size
        /\ \A j \in 1..size : f[i][m + j] = k[j]
    <2>1. /\ Len(f[i - 1]) \in Nat /\ Len(f[i - 1] \o k) = Len(f[i - 1]) + Len(k)
          /\ \A j \in 1..Len(k) : (f[i - 1] \o k)[Len(f[i - 1]) + j] = k[j]
      BY <1>4, <1>6, Concat
    <2> QED
      BY <1>4, <1>5, <2>1
  <1>8. bytes \in Seq(Byte) /\ Len(bytes) \in Nat
    BY <1>6, Concat, LenProperties
  <1>9. Prefix(f[i], bytes)
    <2>1. Prefix(f[i], f[n])
      BY <1>1, <1>2, PacksPrefix
    <2> QED
      BY <2>1, <1>6, PrefixConcat
  <1> HIDE DEF m, size
  <1>10. m + size <= Len(bytes) /\ m <= Len(bytes)
    BY <1>4, <1>7, <1>8, <1>9 DEF Prefix
  <1>11. /\ b \in Seq(Byte) /\ Len(b) = Len(bytes) - m
         /\ \A j \in 1..(Len(bytes) - m) : b[j] = bytes[m + j]
    BY <1>7, <1>8, <1>10, Rest
  <1>12. Drop(b, size) = Drop(bytes, Len(f[i]))
    <2>1. Len(f[i]) <= Len(bytes) /\ size \in Nat
      BY <1>4, <1>7, <1>10
    <2> QED
      BY ONLY <2>1, <1>7, <1>8, RestOfRest
  <1> HIDE DEF b
  <1>13. read_sockaddr(b) = Some(a, size)
    <2>1. Len(b) >= size
      BY <1>4, <1>7, <1>8, <1>10, <1>11
    <2>2. ASSUME NEW j \in 1..size PROVE b[j] = k[j]
      <3>1. j \in 1..(Len(bytes) - m) /\ m + j \in 1..Len(f[i])
        BY <1>4, <1>7, <1>8, <1>10
      <3>2. b[j] = bytes[m + j] /\ bytes[m + j] = f[i][m + j] /\ f[i][m + j] = k[j]
        BY <3>1, <1>7, <1>9, <1>11 DEF Prefix
      <3> QED
        BY <3>2
    <2> QED
      BY <1>3, <1>11, <2>1, <2>2, ReadsBack DEF k, size
  <1>14. Append(SubSeq(list, 1, i - 1), a) = SubSeq(list, 1, i)
    <2>1. 1 \in 1..Len(list) /\ i \in 1..Len(list)
      BY <1>1
    <2>2. SubSeq(list, 1, i) = SubSeq(list, 1, i - 1) \o <<list[i]>>
      BY <2>1, SubSeqRecursiveSecond
    <2>3. SubSeq(list, 1, i - 1) \in Seq(Addresses)
      <3>1. \A j \in 1..(i - 1) : list[j] \in Addresses
        BY <1>1, ElementOfSeq
      <3> QED
        BY <3>1, <1>1, SubSeqProperties
    <2> QED
      BY <1>3, <2>2, <2>3, AppendIsConcat DEF a
  <1>15. TurnAt(list, f, bytes, i - 1) = [out |-> SubSeq(list, 1, i - 1), buf |-> b]
    BY DEF TurnAt, b, m
  <1>16. Some(a, size) # None /\ Some(a, size)[1] = a /\ Some(a, size)[2] = size
    BY DEF Some, None
  <1> QED
    BY <1>12, <1>13, <1>14, <1>15, <1>16 DEF read_next, TurnAt, Drop

\* g is the function that read_addr_list defines by recursion.
ReadsAs(g, bytes, count) ==
    g = [i \in 0..count |-> IF i = 0 THEN [out |-> << >>, buf |-> bytes]
                            ELSE read_next(g[i - 1])]

LEMMA ReadTurns ==
    ASSUME NEW list, NEW n, NEW f, NEW bytes, Written(list, n, f, bytes), NEW count \in 0..n
    PROVE  /\ \E g : ReadsAs(g, bytes, count)
           /\ \A g : ReadsAs(g, bytes, count) => g[count] = TurnAt(list, f, bytes, count)
  <1>1. n \in Nat /\ count \in Nat
    BY PartsAreBytes DEF Written
  <1>2. bytes \in Seq(Byte) /\ f[0] = << >>
    <2>1. f[n] \in Seq(Byte) /\ f[0] = << >>
      BY <1>1 DEF Packs, Written
    <2>2. PICK z \in Seq(Byte) : bytes = f[n] \o z
      BY DEF Written
    <2> QED
      BY <2>1, <2>2, Concat
  <1>3. TurnAt(list, f, bytes, 0) = [out |-> << >>, buf |-> bytes]
    <2>1. SubSeq(list, 1, 0) = << >>
      BY SubSeqEmpty
    <2>2. Drop(bytes, 0) = bytes
      <3>1. SubSeq(bytes, 1, Len(bytes)) = bytes
        BY <1>2, SubSeqFull
      <3> QED
        BY <3>1 DEF Drop
    <2>3. Len(f[0]) = 0
      BY <1>2, EmptySeq
    <2> QED
      BY <2>1, <2>2, <2>3 DEF TurnAt
  <1>4. \A i \in 1..count :
            read_next(TurnAt(list, f, bytes, i - 1)) = TurnAt(list, f, bytes, i)
    <2> SUFFICES ASSUME NEW i \in 1..count
                 PROVE  read_next(TurnAt(list, f, bytes, i - 1)) = TurnAt(list, f, bytes, i)
      OBVIOUS
    <2>1. i \in 1..n
      BY <1>1
    <2> QED
      BY <2>1, ReadStep
  <1>5. ReadsAs([i \in 0..count |-> TurnAt(list, f, bytes, i)], bytes, count)
    <2> DEFINE e == [i \in 0..count |-> TurnAt(list, f, bytes, i)]
    <2>1. \A i \in 0..count : i # 0 => i \in 1..count /\ i - 1 \in 0..count
      BY <1>1
    <2>2. \A i \in 0..count : i # 0 => read_next(e[i - 1]) = TurnAt(list, f, bytes, i)
      BY <2>1, <1>4
    <2>3. \A i \in 0..count : TurnAt(list, f, bytes, i)
              = IF i = 0 THEN [out |-> << >>, buf |-> bytes] ELSE read_next(e[i - 1])
      BY <1>3, <2>2
    <2>4. e = [i \in 0..count |-> IF i = 0 THEN [out |-> << >>, buf |-> bytes]
                                  ELSE read_next(e[i - 1])]
      <3> HIDE <2>2
      <3> QED
        BY <2>3
    <2> QED
      BY <2>4 DEF ReadsAs
  <1>6. ASSUME NEW g, ReadsAs(g, bytes, count)
        PROVE  g[count] = TurnAt(list, f, bytes, count)
    <2> DEFINE S == {m \in Nat : m <= count => g[m] = TurnAt(list, f, bytes, m)}
    <2>1. 0 \in S
      <3>1. 0 \in 0..count
        BY <1>1
      <3> QED
        BY <3>1, <1>3, <1>6 DEF ReadsAs
    <2>2. ASSUME NEW m \in S PROVE m + 1 \in S
      <3> SUFFICES ASSUME m + 1 <= count
                   PROVE  g[m + 1] = TurnAt(list, f, bytes, m + 1)
        OBVIOUS
      <3>1. m \in Nat /\ m <= count /\ m + 1 \in 1..count /\ m + 1 \in 0..count
            /\ m + 1 # 0 /\ (m + 1) - 1 = m
        BY <1>1
      <3>2. g[m] = TurnAt(list, f, bytes, m)
        BY <2>2, <3>1
      <3>3. g[m + 1] = read_next(g[m])
        BY <3>1, <1>6 DEF ReadsAs
      <3>4. read_next(TurnAt(list, f, bytes, (m + 1) - 1)) = TurnAt(list, f, bytes, m + 1)
        BY <3>1, <1>4
      <3> QED
        BY <3>1, <3>2, <3>3, <3>4
    <2> HIDE DEF S
    <2>3. S = Nat
      <3>1. S \in SUBSET Nat
        BY DEF S
      <3> QED
        BY <2>1, <2>2, <3>1, SetInduction
    <2>4. count \in S
      BY <1>1, <2>3
    <2> QED
      BY <1>1, <2>4 DEF S
  <1> QED
    BY <1>5, <1>6

\* read_addr_list returns the addresses that were packed, whatever follows them.
LEMMA ListReadsBack ==
    ASSUME NEW list \in Seq(Addresses), NEW z \in Seq(Byte)
    PROVE  /\ read_addr_list(Packed(list, KernelSockaddr) \o z, Len(list)) = list
           /\ Packed(list, KernelSockaddr) \in Seq(Byte)
           /\ pack_addr_list(list) = Packed(list, KernelSockaddr)
  <1> DEFINE n == Len(list)
  <1>1. n \in Nat /\ Parts(list) \in [1..n -> Seq(Byte)] /\ n \in 0..n
    BY PartsAreBytes
  <1>2. PICK f : Packs(f, Parts(list), n)
    BY <1>1, PacksExists
  <1>3. Packed(list, KernelSockaddr) = f[n] /\ pack_addr_list(list) = f[n]
    BY <1>2, PackedIs
  <1>4. f[n] \in Seq(Byte)
    BY <1>1, <1>2 DEF Packs
  <1> DEFINE bytes == f[n] \o z
             c == CHOOSE g : ReadsAs(g, bytes, n)
  <1>5. /\ \E g : ReadsAs(g, bytes, n)
        /\ \A g : ReadsAs(g, bytes, n) => g[n] = TurnAt(list, f, bytes, n)
    <2>1. Written(list, n, f, bytes)
      BY <1>2 DEF Written
    <2> HIDE DEF bytes
    <2> QED
      BY <1>1, <2>1, ReadTurns
  <1>6. ReadsAs(c, bytes, n)
    BY <1>5, Zenon
  <1>7. read_addr_list(bytes, n) = c[n].out
    BY DEF read_addr_list, ReadsAs
  <1> HIDE DEF c, bytes
  <1>8. c[n].out = SubSeq(list, 1, n)
    BY <1>5, <1>6 DEF TurnAt
  <1>9. SubSeq(list, 1, n) = list
    BY SubSeqFull
  <1> QED
    BY <1>3, <1>4, <1>7, <1>8, <1>9 DEF bytes

\* The bytes of a list determine it: addresses need no separators.
LEMMA PackedOrdered ==
    ASSUME NEW l1 \in Seq(Addresses), NEW l2 \in Seq(Addresses), Len(l1) <= Len(l2),
           Packed(l1, KernelSockaddr) = Packed(l2, KernelSockaddr)
    PROVE  l1 = l2
  <1> DEFINE n1 == Len(l1)
             n2 == Len(l2)
  <1>1. /\ n1 \in Nat /\ Parts(l1) \in [1..n1 -> Seq(Byte)]
        /\ n2 \in Nat /\ Parts(l2) \in [1..n2 -> Seq(Byte)]
    BY PartsAreBytes
  <1>2. PICK f1 : Packs(f1, Parts(l1), n1)
    BY <1>1, PacksExists
  <1>3. PICK f2 : Packs(f2, Parts(l2), n2)
    BY <1>1, PacksExists
  <1> DEFINE b == f1[n1]
  <1>4. b = f2[n2]
    BY <1>2, <1>3, PackedIs
  <1>5. b \in Seq(Byte) /\ Len(b) \in Nat
    <2>1. b \in Seq(Byte)
      BY <1>1, <1>2 DEF Packs
    <2> QED
      BY <2>1, LenProperties
  <1>6. /\ \E z \in Seq(Byte) : b = f1[n1] \o z
        /\ \E z \in Seq(Byte) : b = f2[n2] \o z
    <2>1. << >> \in Seq(Byte) /\ b = b \o << >>
      BY <1>5, EmptySeq, ConcatEmptySeq
    <2> QED
      BY <2>1, <1>4
  <1>7. Written(l1, n1, f1, b) /\ Written(l2, n2, f2, b)
    BY <1>2, <1>3, <1>6 DEF Written
  <1>8. Len(f2[n1]) \in Nat /\ f2[n1] \in Seq(Byte) /\ Prefix(f2[n1], b)
    <2>1. n1 \in 0..n2 /\ f2[n1] \in Seq(Byte)
      BY <1>1, <1>3 DEF Packs
    <2>2. Prefix(f2[n1], f2[n2])
      BY <1>1, <1>3, <2>1, PacksPrefix
    <2> QED
      BY <2>1, <2>2, <1>4, LenProperties
  <1>9. TurnAt(l1, f1, b, n1) = TurnAt(l2, f2, b, n1)
    <2>1. n1 \in 0..n1 /\ n1 \in 0..n2
      BY <1>1
    <2> HIDE DEF b, n1, n2
    <2>2. PICK g : ReadsAs(g, b, n1)
      BY <1>7, <2>1, ReadTurns
    <2>3. g[n1] = TurnAt(l1, f1, b, n1)
      BY <1>7, <2>1, <2>2, ReadTurns
    <2>4. g[n1] = TurnAt(l2, f2, b, n1)
      BY <1>7, <2>1, <2>2, ReadTurns
    <2> QED
      BY <2>3, <2>4
  <1>10. SubSeq(l1, 1, n1) = SubSeq(l2, 1, n1) /\ Drop(b, Len(b)) = Drop(b, Len(f2[n1]))
    BY <1>9 DEF TurnAt
  <1>11. Len(f2[n1]) = Len(b)
    <2> HIDE DEF b
    <2>1. Len(Drop(b, Len(b))) = Len(b) - Len(b)
      BY <1>5, Rest
    <2>2. Len(Drop(b, Len(f2[n1]))) = Len(b) - Len(f2[n1])
      BY <1>5, <1>8, Rest DEF Prefix
    <2> QED
      BY <2>1, <2>2, <1>5, <1>8, <1>10
  <1>12. ASSUME n1 # n2 PROVE FALSE
    <2> DEFINE k == KernelSockaddr(l2[n1 + 1])
    <2>1. n1 + 1 \in 1..n2 /\ n1 + 1 \in 0..n2 /\ (n1 + 1) - 1 = n1
      BY <1>1, <1>12
    <2>2. k \in Seq(Byte) /\ Len(k) \in Nat \ {0}
      <3>1. l2[n1 + 1] \in Addresses
        BY <2>1, ElementOfSeq
      <3> QED
        BY <3>1, KernelBytes
    <2>3. f2[n1 + 1] = f2[n1] \o k
      BY <1>3, <2>1 DEF Packs, Parts
    <2>4. Prefix(f2[n1 + 1], b)
      BY <1>1, <1>3, <1>4, <2>1, PacksPrefix
    <2> HIDE DEF k, b, n1
    <2>5. Len(f2[n1 + 1]) = Len(f2[n1]) + Len(k)
      BY <1>8, <2>2, <2>3, Concat
    <2> QED
      BY <1>5, <1>8, <1>11, <2>2, <2>4, <2>5 DEF Prefix
  <1>13. SubSeq(l1, 1, n1) = l1 /\ SubSeq(l2, 1, n2) = l2
    BY SubSeqFull
  <1> QED
    BY <1>10, <1>12, <1>13

LEMMA PackedInjective ==
    ASSUME NEW l1 \in Seq(Addresses), NEW l2 \in Seq(Addresses),
           Packed(l1, KernelSockaddr) = Packed(l2, KernelSockaddr)
    PROVE  l1 = l2
  <1>1. Len(l1) \in Nat /\ Len(l2) \in Nat
    BY LenProperties
  <1>2. CASE Len(l1) <= Len(l2)
    BY <1>2, PackedOrdered
  <1>3. CASE Len(l2) <= Len(l1)
    BY <1>3, PackedOrdered
  <1> QED
    BY <1>1, <1>2, <1>3

-----------------------------------------------------------------------------
(* Address queries and bindx.                                              *)

LEMMA ListsAreSeqs ==
    ASSUME NEW list \in Lists
    PROVE  list \in Seq(Addresses)
  <1>1. PICK n \in 0..MaxAddrs : list \in [1..n -> Addresses]
    BY DEF Lists
  <1>2. n \in Nat
    BY MaxAddrsAssumption
  <1> QED
    BY <1>1, <1>2

LEMMA QueryReadsBack ==
    ASSUME addrs \in Lists, capacity \in Nat
    PROVE  read_addr_list(Filled, Len(addrs)) = addrs
  <1> DEFINE p == Packed(addrs, KernelSockaddr)
             m == capacity - 8 - Len(p)
  <1>1. addrs \in Seq(Addresses) /\ p \in Seq(Byte)
    BY ListsAreSeqs, ListReadsBack, EmptySeq
  <1>2. m \in Int
    BY <1>1, LenProperties
  <1>3. 0 \in FieldValues
    BY DEF FieldValues
  <1>4. Filled = p \o Zeros(m)
    BY DEF Filled
  <1> HIDE DEF m
  <1>5. Zeros(m) \in Seq(Byte)
    BY <1>2, <1>3, FieldIsSeq DEF Zeros
  <1> QED
    BY <1>1, <1>4, <1>5, ListReadsBack

LEMMA WalkReadsBack ==
    ASSUME NEW list \in Lists
    PROVE  KernelWalk(pack_addr_list(list)) = list
  <1> DEFINE bytes == pack_addr_list(list)
             P(l) == l \in Lists /\ Packed(l, KernelSockaddr) = bytes
             c == CHOOSE l \in Lists : Packed(l, KernelSockaddr) = bytes
  <1>1. Packed(list, KernelSockaddr) = bytes
    BY ListsAreSeqs, ListReadsBack, EmptySeq
  <1>2. KernelWalk(bytes) = c
    BY <1>1 DEF KernelWalk
  <1>3. c \in Lists /\ Packed(c, KernelSockaddr) = bytes
    BY <1>1, Zenon
  <1> HIDE DEF c
  <1> QED
    BY <1>1, <1>2, <1>3, ListsAreSeqs, PackedInjective

\* Address queries return the list that the kernel had during their last attempt,
\* with every field of every address, for lists of any length and buffers of any
\* capacity; and the kernel reads the list that bindx was given.
THEOREM QueryIsSnapshot == Spec => []ResultIsSnapshot
  <1>1. Init => ResultIsSnapshot
    BY DEF Init, ResultIsSnapshot
  <1>2. ASSUME TypeOK, InProgress, ResultIsSnapshot, [Next]_vars
        PROVE  ResultIsSnapshot'
    <2> USE DEF ResultIsSnapshot
    <2>1. CASE AddrsChange
      BY <1>2, <2>1 DEF AddrsChange
    <2>2. CASE getaddrs
      BY <2>2 DEF getaddrs
    <2>3. CASE getsockopt_ok
      <3>1. returned' = read_addr_list(Filled, Len(addrs)) /\ snap' = addrs
        BY <2>3 DEF getsockopt_ok, Return
      <3>2. read_addr_list(Filled, Len(addrs)) = addrs
        BY <1>2, QueryReadsBack DEF TypeOK
      <3> QED
        BY <3>1, <3>2
    <2>4. CASE getsockopt_enomem
      BY <1>2, <2>4 DEF getsockopt_enomem, Return, InProgress
    <2>5. CASE getsockopt_error
      BY <2>5 DEF getsockopt_error, Return
    <2>6. CASE bindx
      <3>1. PICK list \in Lists : snap' = list /\ returned' = KernelWalk(pack_addr_list(list))
        BY <2>6 DEF bindx
      <3> QED
        BY <3>1, WalkReadsBack
    <2>7. CASE UNCHANGED vars
      BY <1>2, <2>7 DEF vars
    <2> QED
      BY <1>2, <2>1, <2>2, <2>3, <2>4, <2>5, <2>6, <2>7 DEF Next, Attempt
  <1>3. TypeOK /\ CapacityBounded /\ InProgress /\ EnomemMeansTooMany /\ [Next]_vars
            => TypeOK' /\ CapacityBounded' /\ InProgress' /\ EnomemMeansTooMany'
    BY NextType, NextEnomem
  <1> QED
    BY <1>1, <1>2, <1>3, InitInvariant, PTL DEF Spec
=============================================================================

----------------------------- MODULE WireProofs -----------------------------
(***************************************************************************)
(* Theorems about Wire, for all addresses, lengths of variable parts, cuts *)
(* and units of time.                                                      *)
(*   Address queries are those of AddrQuery.                               *)
(*   A timeout survives its way through timeval and the kernel's ticks and *)
(* back. This is arithmetic: the ticks are the duration rounded up, what   *)
(* comes back is the ticks rounded down, and a tick is never shorter than  *)
(* a microsecond.                                                          *)
(*   Notifications, reports, options and control messages are read as they *)
(* were written. A structure is a list of members; its offsets are a       *)
(* recursive function, of which a table of numbers that agrees with it     *)
(* step by step is shown to be the value. From the tables of the two sides *)
(* it follows member by member that one reads where the other wrote.       *)
(***************************************************************************)
EXTENDS Wire, AddrQueryProofs, TLAPS

-----------------------------------------------------------------------------
(* Arithmetic.                                                             *)

\* The quotient and the remainder of \div and %, for any divisor.
LEMMA DivFacts ==
    ASSUME NEW a \in Nat, NEW b \in Nat \ {0}
    PROVE  /\ a \div b \in Nat
           /\ (a \div b) * b <= a
           /\ a < (a \div b) * b + b
           /\ a % b = a - (a \div b) * b
           /\ a % b \in 0..(b - 1)
<1>1. a = b * (a \div b) + (a % b) /\ a % b \in 0..(b - 1) /\ a \div b \in Int
  BY Z3
<1>. QED BY <1>1, Z3

LEMMA MulMono ==
    ASSUME NEW a \in Int, NEW b \in Int, NEW c \in Nat, a <= b
    PROVE  a * c <= b * c
BY Z3

LEMMA MulReflect ==
    ASSUME NEW a \in Int, NEW b \in Int, NEW c \in Nat \ {0}, a * c < b * c
    PROVE  a < b
<1>1. ASSUME b <= a PROVE FALSE
  BY <1>1, MulMono, Z3
<1>. QED BY <1>1

\* A quotient is the largest number whose multiple fits.
LEMMA DivLargest ==
    ASSUME NEW x \in Nat, NEW b \in Nat \ {0}, NEW q \in Nat, q * b <= x
    PROVE  q <= x \div b
<1>1. x < (x \div b) * b + b /\ x \div b \in Nat
  BY DivFacts
<1>2. q * b < ((x \div b) + 1) * b
  BY <1>1, Z3
<1>. QED BY <1>1, <1>2, MulReflect, Z3

-----------------------------------------------------------------------------
(* From microseconds to ticks and back. In these lemmas M is the number of *)
(* microseconds and H the number of ticks in a second.                     *)

Ticks(u, M, H) == (u * H + M - 1) \div M
Back(t, M, H) == (t * M) \div H
InMicros(t, M, H) == (t \div H) * M + ((t % H) * M) \div H

\* u microseconds, in ticks rounded up, are no fewer microseconds and less than
\* a tick more.
LEMMA UpAndDown ==
    ASSUME NEW u \in Nat, NEW M \in Nat \ {0}, NEW H \in 1..M
    PROVE  /\ Ticks(u, M, H) \in Nat
           /\ Back(Ticks(u, M, H), M, H) \in Nat
           /\ u <= Back(Ticks(u, M, H), M, H)
           /\ Back(Ticks(u, M, H), M, H) <= u + (M - 1) \div H
           /\ u > 0 => Ticks(u, M, H) > 0
<1>. DEFINE a == u * H + M - 1
            q == Ticks(u, M, H)
            g == Back(q, M, H)
            d == (M - 1) \div H
<1>1. u * H \in Nat /\ a \in Nat /\ H \in Nat \ {0} /\ M - 1 \in Nat
  BY Z3
<1>2. q \in Nat /\ q * M <= a /\ a < q * M + M
  BY <1>1, DivFacts DEF Ticks
<1>3. q * M \in Nat /\ u * H <= q * M /\ q * M <= u * H + M - 1
  BY <1>1, <1>2, Z3
<1>4. g \in Nat /\ g * H <= q * M /\ q * M < g * H + H
  BY <1>1, <1>3, DivFacts DEF Back
<1>5. d \in Nat /\ d * H <= M - 1 /\ M - 1 < d * H + H
  BY <1>1, DivFacts
<1>6. u <= g
  BY <1>1, <1>3, DivLargest DEF Back
<1>7. g <= u + d
  <2>1. g * H < (u + d + 1) * H
    <3>1. g * H < u * H + (d * H + H)
      BY <1>1, <1>3, <1>4, <1>5, Z3
    <3>2. u * H + (d * H + H) = (u + d + 1) * H
      BY <1>1, <1>5, Z3
    <3>. QED BY <3>1, <3>2
  <2>2. g < u + d + 1
    BY <2>1, <1>1, <1>4, <1>5, MulReflect
  <2>. QED BY <2>2, <1>4, <1>5, Z3
<1>8. u > 0 => q > 0
  <2>1. ASSUME u > 0, q = 0 PROVE FALSE
    <3>1. H <= u * H
      BY <1>1, <2>1, Z3
    <3>2. q * M = 0
      BY <1>1, <2>1, Z3
    <3>. QED BY <3>1, <3>2, <1>1, <1>3, Z3
  <2>. QED BY <2>1, <1>2, Z3
<1>. QED BY <1>2, <1>4, <1>6, <1>7, <1>8

\* Whole seconds do not take part in the rounding: the seconds and microseconds
\* that the kernel reports for s seconds and q ticks.
LEMMA WholeSeconds ==
    ASSUME NEW s \in Nat, NEW q \in Nat, NEW M \in Nat \ {0}, NEW H \in 1..M,
           NEW t, t = s * H + q
    PROVE  /\ t \in Nat
           /\ t \div H \in Nat
           /\ ((t % H) * M) \div H \in Nat
           /\ InMicros(t, M, H) = s * M + Back(q, M, H)
<1>1. H \in Nat \ {0} /\ t \in Nat
  BY Z3
<1>. DEFINE c == t \div H
            r == t % H
            f == (r * M) \div H
            g == Back(q, M, H)
<1>2. c \in Nat /\ r \in Nat /\ t = c * H + r
  <2>1. c \in Nat /\ r = t - c * H /\ r \in 0..(H - 1)
    BY <1>1, DivFacts
  <2>. HIDE DEF c, r
  <2>2. c * H \in Int
    BY <1>1, <2>1, Z3
  <2>. QED BY <2>1, <2>2, <1>1, Z3
<1>3. r * M \in Nat /\ q * M \in Nat
  <2>. HIDE DEF r
  <2>. QED BY <1>2, Z3
<1>4. f \in Nat /\ f * H <= r * M /\ r * M < f * H + H
  BY <1>1, <1>3, DivFacts
<1>5. g \in Nat /\ g * H <= q * M /\ q * M < g * H + H
  BY <1>1, <1>3, DivFacts DEF Back
<1>. HIDE DEF c, r, f, g
<1>6. (c * M) * H + r * M = (s * M) * H + q * M
  <2>1. (c * H + r) * M = (s * H + q) * M
    BY <1>2
  <2>2. (c * H + r) * M = (c * M) * H + r * M
    BY <1>1, <1>2, Z3
  <2>3. (s * H + q) * M = (s * M) * H + q * M
    BY <1>1, Z3
  <2>. QED BY <2>1, <2>2, <2>3
<1>7. c * M + f \in Int /\ s * M + g \in Int
  BY <1>1, <1>2, <1>4, <1>5, Z3
<1>8. (c * M + f) * H < (s * M + g + 1) * H
  <2>1. (c * M + f) * H = (c * M) * H + f * H
    BY <1>1, <1>2, <1>4, Z3
  <2>2. (s * M + g + 1) * H = (s * M) * H + (g * H + H)
    BY <1>1, <1>5, Z3
  <2>3. (c * M) * H \in Int /\ (s * M) * H \in Int /\ f * H \in Int /\ g * H \in Int
    BY <1>1, <1>2, <1>4, <1>5, Z3
  <2>. QED BY <2>1, <2>2, <2>3, <1>1, <1>3, <1>4, <1>5, <1>6, Z3
<1>9. (s * M + g) * H < (c * M + f + 1) * H
  <2>1. (s * M + g) * H = (s * M) * H + g * H
    BY <1>1, <1>5, Z3
  <2>2. (c * M + f + 1) * H = (c * M) * H + (f * H + H)
    BY <1>1, <1>2, <1>4, Z3
  <2>3. (c * M) * H \in Int /\ (s * M) * H \in Int /\ f * H \in Int /\ g * H \in Int
    BY <1>1, <1>2, <1>4, <1>5, Z3
  <2>. QED BY <2>1, <2>2, <2>3, <1>1, <1>3, <1>4, <1>5, <1>6, Z3
<1>10. c * M + f < s * M + g + 1
  BY <1>1, <1>7, <1>8, MulReflect
<1>11. s * M + g < c * M + f + 1
  BY <1>1, <1>7, <1>9, MulReflect
<1>12. c * M + f = s * M + g
  BY <1>7, <1>10, <1>11, Z3
<1>. QED BY <1>1, <1>2, <1>4, <1>12 DEF c, r, f, g, InMicros

-----------------------------------------------------------------------------
(* A timeout that set_timeout accepts.                                     *)

\* The duration that timeout() reports after set_timeout(d).
Reported(d) == from_timeval(KernelTimeval(KernelTimeo(timeval(d))))

\* From MaxTimeoutSecs on, the kernel waits for ever and reports none.
LEMMA LongTimeout ==
    ASSUME NEW d \in Durations(Nat), d.secs >= MaxTimeoutSecs
    PROVE  Reported(d) = NoTimeout
<1>1. timeval(d).tv_sec >= MaxTimeoutSecs
  BY UnitsAssumption DEF Durations, timeval
<1>2. KernelTimeo(timeval(d)) = Forever
  BY <1>1 DEF KernelTimeo
<1>. QED BY <1>2 DEF Reported, KernelTimeval, from_timeval

\* Below, its length is kept up to a microsecond downwards, and up to a
\* microsecond and a tick upwards.
LEMMA ShortTimeout ==
    ASSUME NEW d \in Durations(Nat), ~IsZero(d), d.secs < MaxTimeoutSecs
    PROVE  /\ Reported(d) # NoTimeout
           /\ Length(Reported(d)) > Length(d) - Nanos
           /\ Length(Reported(d)) <= Length(d) + Nanos + (Nanos * Micros) \div Hz
<1>. DEFINE s == d.secs
            n == d.nanos
            us == subsec_micros(d)
            u == timeval(d).tv_usec
            q == Ticks(u, Micros, Hz)
            g == Back(q, Micros, Hz)
            t == s * Hz + q
            e == (Micros - 1) \div Hz
            sec == t \div Hz
            usec == ((t % Hz) * Micros) \div Hz
<1>1. /\ Nanos \in Nat \ {0} /\ Micros \in Nat \ {0} /\ Hz \in 1..Micros /\ Hz \in Nat \ {0}
      /\ s \in Nat /\ n \in Nat /\ (s = 0 => n # 0)
  <2>1. Nanos * Micros \in Nat
    BY UnitsAssumption, Z3
  <2>. QED BY <2>1, UnitsAssumption DEF Durations, IsZero
<1>2. us \in Nat /\ us * Nanos <= n /\ n < us * Nanos + Nanos
  BY <1>1, DivFacts DEF subsec_micros
<1>3. /\ timeval(d).tv_sec = s
      /\ u = IF s = 0 /\ us = 0 THEN 1 ELSE us
  BY <1>1, UnitsAssumption DEF timeval
<1>. HIDE DEF us, u
<1>4. u \in Nat /\ us <= u /\ u * Nanos <= n + Nanos /\ (s = 0 => u > 0)
  <2>1. CASE s = 0 /\ us = 0
    BY <2>1, <1>1, <1>3, Z3
  <2>2. CASE ~(s = 0 /\ us = 0)
    <3>1. u = us
      BY <2>2, <1>3
    <3>2. us * Nanos <= n + Nanos
      BY <1>1, <1>2, Z3
    <3>. QED BY <2>2, <3>1, <3>2, <1>1, <1>2
  <2>. QED BY <2>1, <2>2
<1>5. /\ q \in Nat /\ g \in Nat /\ u <= g /\ g <= u + e /\ (u > 0 => q > 0)
  BY <1>1, <1>4, UpAndDown
<1>6. e \in Nat /\ e * Hz <= Micros - 1
  <2>1. Micros - 1 \in Nat
    BY <1>1
  <2>. QED BY <2>1, <1>1, DivFacts
<1>. HIDE DEF q, g, e
<1>7. /\ t \in Nat /\ sec \in Nat /\ usec \in Nat
      /\ sec * Micros + usec = s * Micros + g
  <2>1. s \in Nat /\ q \in Nat
    BY <1>1, <1>5
  <2>2. t = s * Hz + q
    OBVIOUS
  <2>. HIDE DEF s, t
  <2>3. /\ t \in Nat /\ t \div Hz \in Nat /\ ((t % Hz) * Micros) \div Hz \in Nat
        /\ InMicros(t, Micros, Hz) = s * Micros + Back(q, Micros, Hz)
    BY <2>1, <2>2, <1>1, WholeSeconds
  <2>. QED BY <2>3 DEF g, InMicros
<1>8. KernelTimeo(timeval(d)) = t
  <2>1. timeval(d) # ZeroTimeval
    BY <1>1, <1>3, <1>4 DEF ZeroTimeval, u
  <2>2. ~(timeval(d).tv_sec >= MaxTimeoutSecs)
    BY <1>1, <1>3, UnitsAssumption
  <2>. QED BY <2>1, <2>2, <1>3 DEF KernelTimeo, q, u, Ticks
<1>9. KernelTimeval(t) = [tv_sec |-> sec, tv_usec |-> usec]
  <2>1. t # Forever
    BY <1>7 DEF Forever
  <2>. QED BY <2>1 DEF KernelTimeval
<1>. HIDE DEF t, sec, usec
<1>10. sec > 0 \/ usec > 0
  <2>1. CASE s = 0
    <3>1. s * Micros + g > 0
      <4>1. s * Micros = 0
        BY <2>1, <1>1, Z3
      <4>. QED BY <4>1, <2>1, <1>4, <1>5
    <3>. QED BY <3>1, <1>1, <1>7, Z3
  <2>2. CASE s > 0
    <3>1. s * Micros + g > 0
      <4>1. s * Micros >= Micros
        BY <2>2, <1>1, Z3
      <4>. QED BY <4>1, <1>1, <1>5, Z3
    <3>. QED BY <3>1, <1>1, <1>7, Z3
  <2>. QED BY <2>1, <2>2, <1>1
<1>11. Reported(d) = [secs |-> sec, nanos |-> usec * Nanos]
  <2>1. [tv_sec |-> sec, tv_usec |-> usec] # ZeroTimeval
    BY <1>7, <1>10 DEF ZeroTimeval
  <2>. QED BY <2>1, <1>8, <1>9 DEF Reported, from_timeval
<1>12. Reported(d) # NoTimeout
  <2>1. usec > 0 => usec * Nanos > 0
    BY <1>1, <1>7, Z3
  <2>. QED BY <2>1, <1>7, <1>10, <1>11 DEF NoTimeout
<1>13. Length(Reported(d)) = (s * Micros) * Nanos + g * Nanos
  <2>1. Length(Reported(d)) = sec * Nanos * Micros + usec * Nanos
    BY <1>11 DEF Length
  <2>2. sec * Nanos * Micros + usec * Nanos = (sec * Micros + usec) * Nanos
    BY <1>1, <1>7, Z3
  <2>3. (s * Micros + g) * Nanos = (s * Micros) * Nanos + g * Nanos
    BY <1>1, <1>5, Z3
  <2>. QED BY <2>1, <2>2, <2>3, <1>7
<1>14. Length(d) = (s * Micros) * Nanos + n
  <2>1. s * Nanos * Micros = (s * Micros) * Nanos
    BY <1>1, Z3
  <2>. QED BY <2>1 DEF Length
<1>15. us * Nanos <= g * Nanos
  BY <1>1, <1>2, <1>4, <1>5, MulMono, Z3
<1>16. g * Nanos <= u * Nanos + e * Nanos
  <2>1. g * Nanos <= (u + e) * Nanos
    BY <1>1, <1>4, <1>5, <1>6, MulMono, Z3
  <2>2. (u + e) * Nanos = u * Nanos + e * Nanos
    BY <1>1, <1>4, <1>6, Z3
  <2>. QED BY <2>1, <2>2
<1>17. e * Nanos <= (Nanos * Micros) \div Hz /\ (Nanos * Micros) \div Hz \in Nat
  <2>1. (e * Hz) * Nanos <= (Micros - 1) * Nanos
    BY <1>1, <1>6, MulMono, Z3
  <2>2. (e * Hz) * Nanos = (e * Nanos) * Hz
    BY <1>1, <1>6, Z3
  <2>3. (Micros - 1) * Nanos <= Nanos * Micros
    BY <1>1, Z3
  <2>4. Nanos * Micros \in Nat /\ e * Nanos \in Nat /\ (e * Nanos) * Hz \in Nat
        /\ (Micros - 1) * Nanos \in Int
    BY <1>1, <1>6, Z3
  <2>5. (e * Nanos) * Hz <= Nanos * Micros
    BY <2>1, <2>2, <2>3, <2>4, Z3
  <2>. QED BY <2>4, <2>5, <1>1, DivFacts, DivLargest
<1>18. /\ (s * Micros) * Nanos \in Nat /\ g * Nanos \in Nat /\ u * Nanos \in Nat
       /\ us * Nanos \in Nat /\ e * Nanos \in Nat
  BY <1>1, <1>2, <1>4, <1>5, <1>6, Z3
<1>. HIDE DEF s, n
<1>19. Length(Reported(d)) > Length(d) - Nanos
  BY <1>1, <1>2, <1>13, <1>14, <1>15, <1>18, Z3
<1>20. Length(Reported(d)) <= Length(d) + Nanos + (Nanos * Micros) \div Hz
  BY <1>1, <1>4, <1>13, <1>14, <1>16, <1>17, <1>18, Z3
<1>. QED BY <1>12, <1>19, <1>20

-----------------------------------------------------------------------------
\* A timeout stays in force on its way to the kernel and back, for every
\* resolution of Duration, timeval and the kernel's clock and every duration.
THEOREM TimeoutsAreKept == WireSpec => []TimeoutKept
<1>1. WireInit => TimeoutKept
  BY DEF WireInit, NoCall, TimeoutKept
<1>2. TimeoutKept /\ [WireNext]_wvars => TimeoutKept'
  <2>. SUFFICES ASSUME TimeoutKept, [WireNext]_wvars PROVE TimeoutKept'
    OBVIOUS
  <2>1. CASE set_timeout
    <3>1. PICK d \in Durations(0..MaxSecs) :
            last' = [op |-> "timeout",
                     got |-> IF IsZero(d) THEN Refused ELSE Reported(d), want |-> d]
      BY <2>1 DEF set_timeout, Done, Reported
    <3>2. d \in Durations(Nat)
      BY MaxSecsAssumption DEF Durations
    <3>3. CASE IsZero(d)
      BY <3>1, <3>3 DEF TimeoutKept
    <3>4. CASE ~IsZero(d) /\ d.secs >= MaxTimeoutSecs
      BY <3>1, <3>2, <3>4, LongTimeout DEF TimeoutKept
    <3>5. CASE ~IsZero(d) /\ ~(d.secs >= MaxTimeoutSecs)
      <4>1. d.secs < MaxTimeoutSecs
        BY <3>2, <3>5, UnitsAssumption DEF Durations
      <4>. QED BY <3>1, <3>2, <3>5, <4>1, ShortTimeout DEF TimeoutKept
    <3>. QED BY <3>3, <3>4, <3>5
  <2>2. CASE \/ parse_notification \/ recv_control \/ send_control_message
             \/ peer_addr_info \/ status \/ assoc_stats
             \/ set_option \/ get_option \/ subscribe \/ spp_flags
             \/ socket_addr \/ pass_addr
    <3>1. last'.op # "timeout"
      <4>1. CASE parse_notification
        <5>1. \E got, want : Done("parse", got, want)
          BY <4>1, Z3 DEF parse_notification
        <5>. QED BY <5>1 DEF Done
      <4>2. CASE recv_control
        BY <4>2 DEF recv_control, Done
      <4>3. CASE send_control_message
        BY <4>3 DEF send_control_message, Done
      <4>4. CASE peer_addr_info
        BY <4>4 DEF peer_addr_info, Done
      <4>5. CASE status
        BY <4>5 DEF status, Done
      <4>6. CASE assoc_stats
        BY <4>6 DEF assoc_stats, Done
      <4>7. CASE set_option
        BY <4>7 DEF set_option, Done
      <4>8. CASE get_option
        BY <4>8 DEF get_option, Done
      <4>9. CASE subscribe
        BY <4>9 DEF subscribe, Done
      <4>10. CASE spp_flags
        BY <4>10 DEF spp_flags, Done
      <4>11. CASE socket_addr
        BY <4>11 DEF socket_addr, Done
      <4>12. CASE pass_addr
        BY <4>12 DEF pass_addr, Done
      <4>. QED BY <2>2, <4>1, <4>2, <4>3, <4>4, <4>5, <4>6, <4>7, <4>8, <4>9,
                  <4>10, <4>11, <4>12
    <3>. QED BY <3>1 DEF TimeoutKept
  <2>3. CASE NextCall
    BY <2>3 DEF NextCall, NoCall, TimeoutKept
  <2>4. CASE UNCHANGED last
    BY <2>4 DEF TimeoutKept
  <2>. QED BY <2>1, <2>2, <2>3, <2>4 DEF WireNext, Call, wvars
<1>. QED BY <1>1, <1>2, PTL DEF WireSpec

-----------------------------------------------------------------------------
\* Between the other calls, the address queries are those of AddrQuery, so that
\* what is proved of them there holds here as well: they are bounded, give up
\* late, and return the list that the kernel had.
THEOREM QueriesAreKept ==
    WireSpec => [](CapacityBounded /\ EnomemMeansTooMany /\ ResultIsSnapshot)
<1>1. WireInit => Init
  BY DEF WireInit
<1>2. [WireNext]_wvars => [Next]_vars
  BY DEF WireNext, wvars
<1>3. WireSpec => Spec
  BY <1>1, <1>2, PTL DEF WireSpec, Spec
<1>. QED BY <1>3, QueryIsBounded, QueryGivesUpLate, QueryIsSnapshot, PTL

-----------------------------------------------------------------------------
(* Structures. A list of members has one layout; where each member lies    *)
(* can be read off a table of offsets that agrees with it step by step.    *)

\* RoundUp never rounds down.
LEMMA RoundUpFacts ==
    ASSUME NEW n \in Nat, NEW a \in Nat \ {0}
    PROVE  RoundUp(n, a) \in Nat /\ RoundUp(n, a) >= n
  <1> DEFINE q == (n + a - 1) \div a
  <1>1. n + a - 1 \in Nat
    OBVIOUS
  <1>2. q \in Nat /\ n + a - 1 < q * a + a
    BY <1>1, DivFacts
  <1> HIDE DEF q
  <1>3. q * a \in Nat /\ q * a >= n
    BY <1>2, Z3
  <1> QED
    BY <1>3 DEF RoundUp, q

Struct_OK(m) ==
    /\ Len(m) \in Nat \ {0}
    /\ \A i \in 1..Len(m) : m[i].n \in Nat /\ m[i].a \in Nat \ {0}

\* n steps up from x, step i by F[i].
Steps(f, n, S, x, F) ==
    f \in [0..n -> S] /\ f[0] = x /\ \A i \in 1..n : f[i] = F[i][f[i - 1]]

\* A function that is defined so exists.
LEMMA StepsExist ==
    ASSUME NEW n \in Nat, NEW S, NEW x \in S, NEW F \in [1..n -> [S -> S]]
    PROVE  \E f : Steps(f, n, S, x, F)
  <1> DEFINE Up(f, k) == f \in [0..k -> S] /\ f[0] = x /\ \A i \in 1..k : f[i] = F[i][f[i - 1]]
             T == {k \in Nat : k <= n => \E f : Up(f, k)}
  <1>1. 0 \in T
    <2>1. Up([i \in 0..0 |-> x], 0)
      OBVIOUS
    <2> QED
      BY <2>1
  <1>2. ASSUME NEW k \in T PROVE k + 1 \in T
    <2> SUFFICES ASSUME k + 1 <= n PROVE \E f : Up(f, k + 1)
      OBVIOUS
    <2>1. k \in Nat /\ k <= n /\ k + 1 \in 1..n
      OBVIOUS
    <2>2. PICK f : Up(f, k)
      BY <1>2, <2>1
    <2> DEFINE g == [i \in 0..(k + 1) |-> IF i <= k THEN f[i] ELSE F[k + 1][f[k]]]
    <2>3. f[k] \in S /\ F[k + 1][f[k]] \in S
      <3>1. F[k + 1] \in [S -> S] /\ f[k] \in S
        BY <2>1, <2>2
      <3> QED
        BY <3>1
    <2>4. g \in [0..(k + 1) -> S]
      BY <2>1, <2>2, <2>3
    <2>5. \A i \in 0..k : g[i] = f[i]
      BY <2>1
    <2>6. g[k + 1] = F[k + 1][f[k]]
      <3>1. k + 1 \in 0..(k + 1) /\ ~(k + 1 <= k)
        BY <2>1
      <3> QED
        BY <3>1
    <2> HIDE DEF g
    <2>7. ASSUME NEW i \in 1..(k + 1) PROVE g[i] = F[i][g[i - 1]]
      <3>1. CASE i \in 1..k
        <4>1. i \in 0..k /\ i - 1 \in 0..k
          BY <2>1, <3>1
        <4> QED
          BY <2>2, <2>5, <3>1, <4>1
      <3>2. CASE i = k + 1
        <4>1. i - 1 = k /\ k \in 0..k
          BY <2>1, <3>2
        <4> QED
          BY <2>5, <2>6, <3>2, <4>1
      <3> QED
        BY <2>1, <3>1, <3>2
    <2>8. g[0] = x
      BY <2>1, <2>2, <2>5
    <2>9. Up(g, k + 1)
      BY <2>4, <2>7, <2>8
    <2> QED
      BY <2>9
  <1> HIDE DEF T
  <1>3. T = Nat
    <2>1. T \in SUBSET Nat
      BY DEF T
    <2> QED
      BY <1>1, <1>2, <2>1, SetInduction
  <1>4. \E f : Up(f, n)
    BY <1>3 DEF T
  <1> QED
    BY <1>4 DEF Steps

\* The ends of the members are what their definition says.
LEMMA EndsIs ==
    ASSUME NEW m, Struct_OK(m)
    PROVE  /\ Ends(m) \in [0..Len(m) -> Nat]
           /\ Ends(m)[0] = 0
           /\ \A i \in 1..Len(m) : /\ At(m, i) \in Nat
                                   /\ Ends(m)[i - 1] <= At(m, i)
                                   /\ Ends(m)[i] = At(m, i) + m[i].n
  <1> DEFINE n == Len(m)
             P(g) == g = [i \in 0..n |-> IF i = 0 THEN 0
                                         ELSE RoundUp(g[i - 1], m[i].a) + m[i].n]
             F == [i \in 1..n |-> [y \in Nat |-> RoundUp(y, m[i].a) + m[i].n]]
             c == CHOOSE g : P(g)
  <1>1. n \in Nat /\ \A i \in 1..n : m[i].n \in Nat /\ m[i].a \in Nat \ {0}
    BY DEF Struct_OK
  <1>2. F \in [1..n -> [Nat -> Nat]]
    <2>1. ASSUME NEW i \in 1..n, NEW y \in Nat PROVE RoundUp(y, m[i].a) + m[i].n \in Nat
      <3>1. m[i].n \in Nat /\ m[i].a \in Nat \ {0}
        BY <1>1
      <3>2. RoundUp(y, m[i].a) \in Nat
        BY <3>1, RoundUpFacts
      <3> QED
        BY <3>1, <3>2
    <2> QED
      BY <2>1
  <1>3. PICK f : f \in [0..n -> Nat] /\ f[0] = 0 /\ \A i \in 1..n : f[i] = F[i][f[i - 1]]
    <2> HIDE DEF F, n
    <2>1. \E f : Steps(f, n, Nat, 0, F)
      BY <1>1, <1>2, StepsExist
    <2> QED
      BY <2>1 DEF Steps
  <1>4. \A i \in 1..n : f[i] = RoundUp(f[i - 1], m[i].a) + m[i].n
    <2>1. \A i \in 1..n : i - 1 \in 0..n
      BY <1>1
    <2> QED
      BY <1>3, <2>1
  <1>5. P(f)
    <2>1. f = [i \in 0..n |-> f[i]]
      BY <1>3
    <2>2. \A i \in 0..n : i # 0 => i \in 1..n
      BY <1>1
    <2> QED
      BY <1>3, <1>4, <2>1, <2>2
  <1>6. P(c)
    BY <1>5, Zenon
  <1>7. Ends(m) = c
    BY DEF Ends
  <1> DEFINE e == Ends(m)
  <1> HIDE DEF c, e
  <1>8. e[0] = 0 /\ \A i \in 1..n : e[i] = RoundUp(e[i - 1], m[i].a) + m[i].n
    BY <1>1, <1>6, <1>7 DEF e
  <1>9. \A i \in 0..n : e[i] \in Nat
    <2> DEFINE T == {k \in Nat : k <= n => e[k] \in Nat}
    <2>1. 0 \in T
      BY <1>8
    <2>2. ASSUME NEW k \in T PROVE k + 1 \in T
      <3> SUFFICES ASSUME k + 1 <= n PROVE e[k + 1] \in Nat
        OBVIOUS
      <3>1. k \in Nat /\ k <= n /\ k + 1 \in 1..n /\ (k + 1) - 1 = k
        BY <1>1
      <3>2. e[k] \in Nat
        BY <2>2, <3>1
      <3>3. RoundUp(e[k], m[k + 1].a) \in Nat
        BY <1>1, <3>1, <3>2, RoundUpFacts
      <3> QED
        BY <1>1, <1>8, <3>1, <3>3
    <2> HIDE DEF T
    <2>3. T = Nat
      <3>1. T \in SUBSET Nat
        BY DEF T
      <3> QED
        BY <2>1, <2>2, <3>1, SetInduction
    <2> QED
      BY <1>1, <2>3 DEF T
  <1>10. e \in [0..n -> Nat]
    BY <1>6, <1>7, <1>9 DEF e
  <1>11. ASSUME NEW i \in 1..n
         PROVE  At(m, i) \in Nat /\ e[i - 1] <= At(m, i) /\ e[i] = At(m, i) + m[i].n
    <2>1. i - 1 \in 0..n /\ e[i - 1] \in Nat
      BY <1>1, <1>9
    <2>2. RoundUp(e[i - 1], m[i].a) \in Nat /\ RoundUp(e[i - 1], m[i].a) >= e[i - 1]
      BY <1>1, <2>1, RoundUpFacts
    <2> QED
      BY <1>8, <2>1, <2>2 DEF At, e
  <1> QED
    BY <1>8, <1>10, <1>11 DEF e

\* A table of the offsets of the members.
Offsets(m, at) ==
    /\ at[1] = 0
    /\ \A i \in 1..Len(m) : at[i] \in Nat
    /\ \A i \in 2..Len(m) : at[i] = RoundUp(at[i - 1] + m[i - 1].n, m[i].a)

\* A table that agrees with the members gives the offset of each.
LEMMA TableIs ==
    ASSUME NEW m, Struct_OK(m), NEW at, Offsets(m, at)
    PROVE  \A i \in 1..Len(m) : At(m, i) = at[i] /\ Ends(m)[i] = at[i] + m[i].n
  <1> DEFINE e == Ends(m)
             T == {k \in Nat : k + 1 <= Len(m) => At(m, k + 1) = at[k + 1]}
  <1>1. /\ Len(m) \in Nat \ {0} /\ e[0] = 0
        /\ \A i \in 1..Len(m) : e[i] = At(m, i) + m[i].n /\ m[i].a \in Nat \ {0}
    BY EndsIs DEF Struct_OK
  <1> HIDE DEF e
  <1>2. 0 \in T
    <2>1. 1 \in 1..Len(m) /\ m[1].a \in Nat \ {0} /\ 0 + 1 = 1 /\ 1 - 1 = 0
      BY <1>1
    <2>2. RoundUp(0, m[1].a) = 0
      <3>1. (0 + m[1].a - 1) \div m[1].a = 0
        <4>1. ASSUME NEW a \in Nat \ {0} PROVE (0 + a - 1) \div a = 0
          <5> DEFINE q == (0 + a - 1) \div a
          <5>1. 0 + a - 1 \in Nat
            OBVIOUS
          <5>2. q \in Nat /\ q * a <= 0 + a - 1
            BY <5>1, DivFacts
          <5> HIDE DEF q
          <5>3. q * a < 1 * a
            BY <5>2, Z3
          <5>4. q < 1
            BY <5>2, <5>3, MulReflect
          <5> QED
            BY <5>2, <5>4 DEF q
        <4> QED
          BY <2>1, <4>1
      <3> QED
        BY <2>1, <3>1 DEF RoundUp
    <2> QED
      BY <1>1, <2>1, <2>2 DEF At, Offsets, e
  <1>3. ASSUME NEW k \in T PROVE k + 1 \in T
    <2> SUFFICES ASSUME k + 1 + 1 <= Len(m) PROVE At(m, k + 1 + 1) = at[k + 1 + 1]
      OBVIOUS
    <2> DEFINE i == k + 1 + 1
    <2>1. k \in Nat /\ k + 1 \in 1..Len(m) /\ i \in 2..Len(m) /\ i - 1 = k + 1
          /\ k + 1 <= Len(m)
      BY <1>1
    <2>2. At(m, k + 1) = at[k + 1]
      BY <1>3, <2>1
    <2>3. e[i - 1] = at[k + 1] + m[k + 1].n
      BY <1>1, <2>1, <2>2
    <2> HIDE DEF i
    <2>4. At(m, i) = at[i]
      BY <2>1, <2>3 DEF At, Offsets, e
    <2> QED
      BY <2>4 DEF i
  <1> HIDE DEF T
  <1>4. T = Nat
    <2>1. T \in SUBSET Nat
      BY DEF T
    <2> QED
      BY <1>2, <1>3, <2>1, SetInduction
  <1>5. ASSUME NEW i \in 1..Len(m) PROVE At(m, i) = at[i]
    <2>1. i - 1 \in T /\ (i - 1) + 1 = i /\ i <= Len(m)
      BY <1>1, <1>4
    <2> QED
      BY <2>1 DEF T
  <1> QED
    BY <1>1, <1>5 DEF e

-----------------------------------------------------------------------------
(* The bytes of a structure.                                               *)

\* Swapping the bytes twice gives them back.
LEMMA SwappedFacts ==
    ASSUME NEW s \in Seq(Byte), NEW little \in BOOLEAN
    PROVE  /\ HostOrder(s, little) \in Seq(Byte)
           /\ Len(HostOrder(s, little)) = Len(s)
           /\ HostOrder(HostOrder(s, little), little) = s
  <1> DEFINE n == Len(s)
             t == Swapped(s)
  <1>1. n \in Nat /\ s \in [1..n -> Byte]
    BY LenProperties
  <1>2. \A i \in 1..n : n + 1 - i \in 1..n /\ n + 1 - (n + 1 - i) = i
    BY <1>1
  <1>3. t \in [1..n -> Byte] /\ \A i \in 1..n : t[i] = s[n + 1 - i]
    BY <1>1, <1>2 DEF Swapped
  <1>4. t \in Seq(Byte) /\ Len(t) = n
    BY <1>1, <1>3
  <1> HIDE DEF t
  <1>5. Swapped(t) = [i \in 1..n |-> t[n + 1 - i]]
    BY <1>4 DEF Swapped
  <1>6. \A i \in 1..n : t[n + 1 - i] = s[i]
    BY <1>2, <1>3
  <1>7. Swapped(t) = s
    BY <1>1, <1>5, <1>6
  <1> QED
    BY <1>4, <1>7 DEF HostOrder, t

\* SubSeq within a sequence of bytes.
LEMMA SubBytes ==
    ASSUME NEW b \in Seq(Byte), NEW from \in Nat, NEW to \in Nat, to <= Len(b), from <= to
    PROVE  /\ Slice(b, from, to) \in Seq(Byte)
           /\ Len(Slice(b, from, to)) = to - from
           /\ \A i \in 1..(to - from) : Slice(b, from, to)[i] = b[from + i]
  <1> DEFINE lo == from + 1
  <1>1. Len(b) \in Nat
    BY LenProperties
  <1>2. lo \in Int /\ to \in Int /\ \A i \in lo..to : i \in 1..Len(b)
    BY <1>1
  <1>3. \A i \in lo..to : b[i] \in Byte
    BY <1>2, ElementOfSeq
  <1> HIDE DEF lo
  <1>4. /\ SubSeq(b, lo, to) \in Seq(Byte)
        /\ Len(SubSeq(b, lo, to)) = IF lo <= to THEN to - lo + 1 ELSE 0
        /\ \A i \in 1..(to - lo + 1) : SubSeq(b, lo, to)[i] = b[lo + i - 1]
    BY <1>2, <1>3, SubSeqProperties
  <1>5. /\ to - lo + 1 = to - from /\ (lo <= to \/ to - from = 0)
        /\ \A i \in 1..(to - from) : lo + i - 1 = from + i
    BY DEF lo
  <1> QED
    BY <1>4, <1>5 DEF Slice, lo

\* A sequence that stands in a buffer is a slice of it.
LEMMA SliceIs ==
    ASSUME NEW b \in Seq(Byte), NEW from \in Nat, NEW s \in Seq(Byte), NEW to \in Nat,
           to = from + Len(s), to <= Len(b), \A i \in 1..Len(s) : b[from + i] = s[i]
    PROVE  Slice(b, from, to) = s
  <1> DEFINE t == Slice(b, from, to)
  <1>1. Len(s) \in Nat
    BY LenProperties
  <1>2. from <= to /\ to - from = Len(s)
    BY <1>1
  <1>3. t \in Seq(Byte) /\ Len(t) = Len(s) /\ \A i \in 1..Len(s) : t[i] = b[from + i]
    <2>1. /\ t \in Seq(Byte) /\ Len(t) = to - from
          /\ \A i \in 1..(to - from) : t[i] = b[from + i]
      BY <1>2, SubBytes
    <2> HIDE DEF t
    <2> QED
      BY <1>2, <2>1
  <1> HIDE DEF t
  <1>4. t = s
    BY <1>3, SeqEqual
  <1> QED
    BY <1>4 DEF t

\* The value of every member has the member's width.
Valued(m, val) ==
    \A i \in 1..Len(m) : /\ MemberValue(m, val, m[i].name) \in Seq(Byte)
                         /\ Len(MemberValue(m, val, m[i].name)) = m[i].n

\* The bytes of member i as they stand in the structure.
Ordered(m, val, i, little) ==
    LET v == MemberValue(m, val, m[i].name)
    IN  IF m[i].be THEN HostOrder(v, little) ELSE v

\* The host's order keeps the number of bytes.
LEMMA OrderedFacts ==
    ASSUME NEW m, NEW val, Valued(m, val), NEW little \in BOOLEAN, NEW i \in 1..Len(m)
    PROVE  Ordered(m, val, i, little) \in Seq(Byte) /\ Len(Ordered(m, val, i, little)) = m[i].n
  <1> DEFINE v == MemberValue(m, val, m[i].name)
  <1>1. v \in Seq(Byte) /\ Len(v) = m[i].n
    BY DEF Valued
  <1> HIDE DEF v
  <1>2. HostOrder(v, little) \in Seq(Byte) /\ Len(HostOrder(v, little)) = Len(v)
    BY <1>1, SwappedFacts
  <1> QED
    BY <1>1, <1>2 DEF Ordered, v

\* Placed gives the padding in front of a member and its bytes.
LEMMA PlacedFacts ==
    ASSUME NEW m, Struct_OK(m), NEW val, Valued(m, val), NEW little \in BOOLEAN,
           NEW i \in 1..Len(m), NEW pad, pad = At(m, i) - Ends(m)[i - 1]
    PROVE  /\ pad \in Nat
           /\ Placed(m, val, i, little) \in Seq(Byte)
           /\ Len(Placed(m, val, i, little)) = pad + m[i].n
           /\ \A j \in 1..m[i].n :
                 Placed(m, val, i, little)[pad + j] = Ordered(m, val, i, little)[j]
  <1> DEFINE z == Zeros(pad)
             v == Ordered(m, val, i, little)
  <1>1. At(m, i) \in Nat /\ Ends(m)[i - 1] \in Nat /\ Ends(m)[i - 1] <= At(m, i)
    <2>1. i - 1 \in 0..Len(m)
      BY DEF Struct_OK
    <2>2. Ends(m) \in [0..Len(m) -> Nat] /\ At(m, i) \in Nat /\ Ends(m)[i - 1] <= At(m, i)
      BY EndsIs
    <2> QED
      BY <2>1, <2>2
  <1>2. pad \in Nat
    BY <1>1
  <1>3. z \in Seq(Byte) /\ Len(z) = pad
    <2>1. 0 \in FieldValues
      BY DEF FieldValues
    <2> QED
      BY <1>2, <2>1, FirstField DEF Zeros
  <1>4. v \in Seq(Byte) /\ Len(v) = m[i].n
    BY OrderedFacts
  <1>5. Placed(m, val, i, little) = z \o v
    BY DEF Placed, Ordered
  <1> HIDE DEF z, v
  <1>6. /\ z \o v \in Seq(Byte) /\ Len(z \o v) = Len(z) + Len(v)
        /\ \A j \in 1..Len(v) : (z \o v)[Len(z) + j] = v[j]
    BY <1>3, <1>4, Concat
  <1> QED
    BY <1>2, <1>3, <1>4, <1>5, <1>6 DEF v

\* Image puts every member at its offset.
LEMMA ImageIs ==
    ASSUME NEW m, Struct_OK(m), NEW val, Valued(m, val), NEW little \in BOOLEAN
    PROVE  /\ Image(m, val, little) \in Seq(Byte)
           /\ Len(Image(m, val, little)) = Ends(m)[Len(m)]
           /\ \A i \in 1..Len(m) : Ends(m)[i] <= Ends(m)[Len(m)]
           /\ \A i \in 1..Len(m) : \A j \in 1..m[i].n :
                 Image(m, val, little)[At(m, i) + j] = Ordered(m, val, i, little)[j]
  <1> DEFINE n == Len(m)
             e == Ends(m)
             w == [i \in 1..n |-> Placed(m, val, i, little)]
             P(g) == g = [i \in 0..n |-> IF i = 0 THEN << >>
                                         ELSE g[i - 1] \o Placed(m, val, i, little)]
             c == CHOOSE g : P(g)
             b == Image(m, val, little)
  <1>1. /\ n \in Nat /\ e \in [0..n -> Nat] /\ e[0] = 0
        /\ \A i \in 1..n : /\ m[i].n \in Nat /\ At(m, i) \in Nat
                           /\ e[i - 1] <= At(m, i) /\ e[i] = At(m, i) + m[i].n
    BY EndsIs DEF Struct_OK
  <1> HIDE DEF e
  <1>2. \A i \in 1..n :
          /\ w[i] \in Seq(Byte) /\ Len(w[i]) = (At(m, i) - e[i - 1]) + m[i].n
          /\ \A j \in 1..m[i].n : w[i][(At(m, i) - e[i - 1]) + j] = Ordered(m, val, i, little)[j]
    <2> SUFFICES
          ASSUME NEW i \in 1..n
          PROVE  /\ w[i] \in Seq(Byte) /\ Len(w[i]) = (At(m, i) - e[i - 1]) + m[i].n
                 /\ \A j \in 1..m[i].n :
                        w[i][(At(m, i) - e[i - 1]) + j] = Ordered(m, val, i, little)[j]
      OBVIOUS
    <2>1. PICK pad : pad = At(m, i) - Ends(m)[i - 1]
      OBVIOUS
    <2>2. /\ Placed(m, val, i, little) \in Seq(Byte)
          /\ Len(Placed(m, val, i, little)) = pad + m[i].n
          /\ \A j \in 1..m[i].n :
                Placed(m, val, i, little)[pad + j] = Ordered(m, val, i, little)[j]
      BY <2>1, PlacedFacts
    <2>3. w[i] = Placed(m, val, i, little)
      OBVIOUS
    <2> HIDE DEF w
    <2> QED
      BY <2>1, <2>2, <2>3 DEF e
  <1>3. w \in [1..n -> Seq(Byte)] /\ \A i \in 1..n : w[i] = Placed(m, val, i, little)
    BY <1>2
  <1> HIDE DEF w
  <1>4. PICK f : Packs(f, w, n)
    BY <1>1, <1>3, PacksExists
  <1>5. /\ f \in [0..n -> Seq(Byte)] /\ f[0] = << >>
        /\ \A i \in 1..n : f[i] = f[i - 1] \o w[i]
    BY <1>4 DEF Packs
  <1>6. P(f)
    <2>1. f = [i \in 0..n |-> f[i]]
      BY <1>5
    <2>2. \A i \in 0..n : i # 0 => f[i] = f[i - 1] \o Placed(m, val, i, little)
      <3>1. \A i \in 0..n : i # 0 => i \in 1..n
        BY <1>1
      <3> QED
        BY <3>1, <1>3, <1>5
    <2> QED
      BY <1>5, <2>1, <2>2
  <1>7. P(c)
    BY <1>6, Zenon
  <1>8. b = c[n]
    BY DEF Image
  <1> HIDE DEF c
  <1>9. Recurs(c, w, n)
    <2>1. \A i \in 0..n : i # 0 => Placed(m, val, i, little) = w[i]
      <3>1. \A i \in 0..n : i # 0 => i \in 1..n
        BY <1>1
      <3> QED
        BY <1>3, <3>1
    <2> HIDE DEF n
    <2> QED
      BY <1>7, <2>1 DEF Recurs
  <1>10. b = f[n]
    BY <1>1, <1>3, <1>4, <1>8, <1>9, PacksUnique
  <1> HIDE DEF b
  <1>11. \A i \in 1..n : /\ f[i - 1] \in Seq(Byte) /\ Len(f[i - 1]) \in Nat
                         /\ f[i] \in Seq(Byte) /\ Len(f[i]) = Len(f[i - 1]) + Len(w[i])
                         /\ \A j \in 1..Len(w[i]) : f[i][Len(f[i - 1]) + j] = w[i][j]
    <2> SUFFICES ASSUME NEW i \in 1..n
                 PROVE  /\ f[i - 1] \in Seq(Byte) /\ Len(f[i - 1]) \in Nat
                        /\ f[i] \in Seq(Byte) /\ Len(f[i]) = Len(f[i - 1]) + Len(w[i])
                        /\ \A j \in 1..Len(w[i]) : f[i][Len(f[i - 1]) + j] = w[i][j]
      OBVIOUS
    <2>1. i - 1 \in 0..n /\ i \in 0..n
      BY <1>1
    <2>2. f[i - 1] \in Seq(Byte) /\ w[i] \in Seq(Byte) /\ f[i] = f[i - 1] \o w[i]
      BY <1>3, <1>5, <2>1
    <2> DEFINE x == f[i - 1]
               y == w[i]
    <2> HIDE DEF x, y
    <2>3. /\ x \o y \in Seq(Byte) /\ Len(x) \in Nat /\ Len(x \o y) = Len(x) + Len(y)
          /\ \A j \in 1..Len(y) : (x \o y)[Len(x) + j] = y[j]
      BY <2>2, Concat DEF x, y
    <2> QED
      BY <2>2, <2>3 DEF x, y
  <1>12. \A i \in 0..n : Len(f[i]) = e[i]
    <2> DEFINE T == {k \in Nat : k <= n => Len(f[k]) = e[k]}
    <2>1. 0 \in T
      BY <1>1, <1>5
    <2>2. ASSUME NEW k \in T PROVE k + 1 \in T
      <3> SUFFICES ASSUME k + 1 <= n PROVE Len(f[k + 1]) = e[k + 1]
        OBVIOUS
      <3>1. k \in Nat /\ k <= n /\ k + 1 \in 1..n /\ (k + 1) - 1 = k /\ k \in 0..n
        BY <1>1
      <3>2. Len(f[k]) = e[k] /\ e[k] \in Nat
        BY <1>1, <2>2, <3>1
      <3>3. Len(f[k + 1]) = Len(f[k]) + Len(w[k + 1])
        BY <1>11, <3>1
      <3>4. Len(w[k + 1]) = (At(m, k + 1) - e[k]) + m[k + 1].n
        BY <1>2, <3>1
      <3> QED
        BY <1>1, <3>1, <3>2, <3>3, <3>4
    <2> HIDE DEF T
    <2>3. T = Nat
      <3>1. T \in SUBSET Nat
        BY DEF T
      <3> QED
        BY <2>1, <2>2, <3>1, SetInduction
    <2>4. \A i \in 0..n : i \in T /\ i <= n
      BY <1>1, <2>3
    <2> QED
      BY <2>4 DEF T
  <1>13. \A i \in 0..n : Prefix(f[i], b)
    BY <1>1, <1>3, <1>4, <1>10, PacksPrefix
  <1>14. b \in Seq(Byte) /\ Len(b) = e[n]
    BY <1>1, <1>5, <1>10, <1>12
  <1>15. \A i \in 1..n : e[i] <= e[n]
    <2>1. \A i \in 1..n : i \in 0..n
      BY <1>1
    <2> QED
      BY <1>12, <1>13, <1>14, <2>1 DEF Prefix
  <1>16. ASSUME NEW i \in 1..n, NEW j \in 1..m[i].n
         PROVE  b[At(m, i) + j] = Ordered(m, val, i, little)[j]
    <2> DEFINE pad == At(m, i) - e[i - 1]
    <2>1. i - 1 \in 0..n /\ i \in 0..n /\ e[i - 1] \in Nat /\ e[i] \in Nat
          /\ At(m, i) \in Nat /\ m[i].n \in Nat /\ e[i - 1] <= At(m, i)
          /\ e[i] = At(m, i) + m[i].n
      BY <1>1
    <2>2. /\ pad \in Nat /\ pad + j \in 1..(pad + m[i].n) /\ At(m, i) + j = e[i - 1] + (pad + j)
          /\ At(m, i) + j \in 1..e[i]
      <3> DEFINE a == At(m, i)
                 d == e[i - 1]
                 l == m[i].n
      <3>1. a \in Nat /\ d \in Nat /\ l \in Nat /\ d <= a /\ e[i] = a + l /\ j \in 1..l
        BY <2>1
      <3> HIDE DEF a, d, l
      <3>2. /\ a - d \in Nat /\ (a - d) + j \in 1..((a - d) + l) /\ a + j = d + ((a - d) + j)
            /\ a + j \in 1..(a + l)
        BY <3>1
      <3> QED
        BY <3>1, <3>2 DEF a, d, l
    <2>3. Len(w[i]) = pad + m[i].n /\ w[i][pad + j] = Ordered(m, val, i, little)[j]
      BY <1>2
    <2>4. f[i][e[i - 1] + (pad + j)] = w[i][pad + j]
      <3> HIDE DEF pad
      <3>1. Len(f[i - 1]) = e[i - 1]
        BY <1>12, <2>1
      <3>2. \A k \in 1..Len(w[i]) : f[i][Len(f[i - 1]) + k] = w[i][k]
        BY <1>11
      <3> QED
        BY <2>2, <2>3, <3>1, <3>2
    <2>5. b[At(m, i) + j] = f[i][At(m, i) + j]
      <3>1. Len(f[i]) = e[i] /\ Prefix(f[i], b)
        BY <1>12, <1>13, <2>1
      <3> QED
        BY <2>2, <3>1 DEF Prefix
    <2> QED
      BY <2>2, <2>3, <2>4, <2>5
  <1> QED
    BY <1>14, <1>15, <1>16 DEF b, e

-----------------------------------------------------------------------------
(* Reading a member back.                                                  *)

Distinct(m) == \A i, j \in 1..Len(m) : m[i].name = m[j].name => i = j

\* A name denotes its member.
LEMMA NamedIs ==
    ASSUME NEW m, Distinct(m), NEW i \in 1..Len(m)
    PROVE  Named(m, m[i].name) = i
  BY DEF Named, Distinct

\* The values given have the width of their member.
Widths(m, val) ==
    \A i \in 1..Len(m) : m[i].name \in DOMAIN val =>
        val[m[i].name] \in Seq(Byte) /\ Len(val[m[i].name]) = m[i].n

\* The members that are given no value have one of the right width.
LEMMA Filling ==
    ASSUME NEW m, Struct_OK(m), Distinct(m), NEW val, Widths(m, val)
    PROVE  /\ Valued(m, val)
           /\ \A i \in 1..Len(m) : MemberValue(m, val, m[i].name) =
                IF m[i].name \in DOMAIN val THEN val[m[i].name] ELSE Field(100 + i, m[i].n)
  <1> SUFFICES ASSUME NEW i \in 1..Len(m)
               PROVE  /\ MemberValue(m, val, m[i].name) =
                            IF m[i].name \in DOMAIN val THEN val[m[i].name]
                            ELSE Field(100 + i, m[i].n)
                      /\ MemberValue(m, val, m[i].name) \in Seq(Byte)
                      /\ Len(MemberValue(m, val, m[i].name)) = m[i].n
    BY DEF Valued
  <1>1. CASE m[i].name \in DOMAIN val
    BY <1>1 DEF MemberValue, Widths
  <1>2. CASE m[i].name \notin DOMAIN val
    <2>1. MemberValue(m, val, m[i].name) = Field(100 + i, m[i].n)
      BY <1>2, NamedIs DEF MemberValue
    <2>2. 100 + i \in FieldValues /\ m[i].n \in Nat
      BY DEF FieldValues, Struct_OK
    <2>3. Field(100 + i, m[i].n) \in Seq(Byte) /\ Len(Field(100 + i, m[i].n)) = m[i].n
      BY <2>2, FieldIsSeq
    <2> QED
      BY <1>2, <2>1, <2>3
  <1> QED
    BY <1>1, <1>2

\* buf is the structure m, possibly cut at the end.
Holding(buf, m, val, little) ==
    /\ Struct_OK(m) /\ Distinct(m) /\ Widths(m, val) /\ little \in BOOLEAN
    /\ buf \in Seq(Byte)
    /\ Prefix(buf, Image(m, val, little))

\* What lies where a member ends inside buf is the member.
LEMMA MemberThere ==
    ASSUME NEW m, NEW val, NEW little, NEW buf, Holding(buf, m, val, little),
           NEW i \in 1..Len(m), Ends(m)[i] <= Len(buf)
    PROVE  Slice(buf, At(m, i), At(m, i) + m[i].n) = Ordered(m, val, i, little)
  <1> DEFINE b == Image(m, val, little)
             v == Ordered(m, val, i, little)
             at == At(m, i)
  <1>1. /\ Struct_OK(m) /\ Valued(m, val) /\ little \in BOOLEAN /\ buf \in Seq(Byte)
        /\ Len(buf) <= Len(b) /\ \A k \in 1..Len(buf) : b[k] = buf[k]
    BY Filling DEF Holding, Prefix
  <1>2. b \in Seq(Byte) /\ \A j \in 1..m[i].n : b[at + j] = v[j]
    BY <1>1, ImageIs
  <1>3. v \in Seq(Byte) /\ Len(v) = m[i].n
    BY <1>1, OrderedFacts
  <1>4. at \in Nat /\ Ends(m)[i] = at + m[i].n /\ m[i].n \in Nat
    BY <1>1, EndsIs DEF Struct_OK
  <1> DEFINE to == at + m[i].n
             n == m[i].n
  <1>5. to \in Nat /\ to = at + Len(v) /\ to <= Len(buf) /\ n \in Nat
    BY <1>3, <1>4
  <1>6. Len(buf) \in Nat
    BY <1>1, LenProperties
  <1> HIDE DEF at, v, b
  <1>7. \A j \in 1..n : at + j \in 1..Len(buf)
    BY <1>4, <1>5, <1>6
  <1>8. \A j \in 1..Len(v) : buf[at + j] = v[j]
    BY <1>1, <1>2, <1>3, <1>7
  <1> HIDE DEF to, n
  <1>9. Slice(buf, at, to) = v
    BY <1>1, <1>3, <1>4, <1>5, <1>8, SliceIs
  <1> QED
    BY <1>9 DEF at, v, to, n

\* A field of the parser that lies where member i lies.
Spot(m, i) == [at |-> At(m, i), n |-> m[i].n, be |-> m[i].be]

\* Read, at the member's place and in its order, gives its value.
LEMMA FieldThere ==
    ASSUME NEW m, NEW val, NEW little, NEW buf, Holding(buf, m, val, little),
           NEW i \in 1..Len(m), Ends(m)[i] <= Len(buf)
    PROVE  Read(buf, Spot(m, i), little) = MemberValue(m, val, m[i].name)
  <1> DEFINE v == MemberValue(m, val, m[i].name)
             field == Spot(m, i)
  <1>1. v \in Seq(Byte) /\ little \in BOOLEAN
    BY Filling DEF Holding, Valued
  <1>2. HostOrder(HostOrder(v, little), little) = v
    BY <1>1, SwappedFacts
  <1>3. Slice(buf, At(m, i), At(m, i) + m[i].n)
            = IF m[i].be THEN HostOrder(v, little) ELSE v
    BY MemberThere DEF Ordered
  <1>4. field.at = At(m, i) /\ field.n = m[i].n /\ field.be = m[i].be
    BY DEF Spot
  <1> HIDE DEF v, field
  <1>5. Read(buf, field, little) = v
    BY <1>2, <1>3, <1>4 DEF Read
  <1> QED
    BY <1>5 DEF v, field

\* The beginning of a sequence, as long as it is.
LEMMA Beginning ==
    ASSUME NEW b \in Seq(Byte), NEW l \in Int, l <= Len(b)
    PROVE  /\ SubSeq(b, 1, l) \in Seq(Byte)
           /\ Len(SubSeq(b, 1, l)) = IF l >= 0 THEN l ELSE 0
           /\ Prefix(SubSeq(b, 1, l), b)
  <1>1. Len(b) \in Nat
    BY LenProperties
  <1>2. \A i \in 1..l : b[i] \in Byte
    <2>1. \A i \in 1..l : i \in 1..Len(b)
      BY <1>1
    <2> QED
      BY <2>1, ElementOfSeq
  <1>3. /\ SubSeq(b, 1, l) \in Seq(Byte)
        /\ Len(SubSeq(b, 1, l)) = IF 1 <= l THEN l - 1 + 1 ELSE 0
        /\ \A i \in 1..(l - 1 + 1) : SubSeq(b, 1, l)[i] = b[1 + i - 1]
    BY <1>2, SubSeqProperties
  <1> QED
    BY <1>1, <1>3 DEF Prefix

-----------------------------------------------------------------------------
(* What becomes of the bytes of a field.                                   *)

\* A field is read back as its value.
LEMMA FieldHasValue ==
    ASSUME NEW v \in FieldValues, NEW n \in Nat \ {0}
    PROVE  Value(Field(v, n)) = v
  <1> DEFINE f == Field(v, n)
  <1>1. Len(f) = n /\ f[1] = <<v, 1>>
    BY FieldIsSeq
  <1>2. f[1][1] = v
    BY <1>1
  <1> QED
    BY <1>1, <1>2 DEF Value

\* read_sockaddr finds the address at the start of a buffer.
LEMMA ReadsPrefix ==
    ASSUME NEW a \in Addresses, NEW buf \in Seq(Byte), Prefix(KernelSockaddr(a), buf)
    PROVE  read_sockaddr(buf) = Some(a, SizeOf(a))
  <1> DEFINE k == KernelSockaddr(a)
  <1>1. Len(k) = SizeOf(a) /\ SizeOf(a) \in Nat
    BY KernelBytes
  <1>2. Len(k) <= Len(buf) /\ \A j \in 1..Len(k) : buf[j] = k[j]
    BY DEF Prefix
  <1>3. SizeOf(a) <= Len(buf) /\ \A j \in 1..SizeOf(a) : buf[j] = k[j]
    BY <1>1, <1>2, Zenon
  <1>4. Len(buf) \in Nat
    BY LenProperties
  <1>5. Len(buf) >= SizeOf(a)
    BY <1>1, <1>3, <1>4
  <1> QED
    BY <1>3, <1>5, ReadsBack

\* An address of a family that the crate does not know.
LEMMA ForeignReads ==
    ASSUME NEW b \in Seq(Byte), Len(b) >= 2, Holds(b, 0, 77, 2)
    PROVE  read_sockaddr(b) = None
  <1>1. Value(Slice(b, 0, 2)) = 77
    <2> DEFINE from == 0
               to == 2
               v == 77
    <2>1. /\ v \in FieldValues /\ from \in Nat /\ to \in Nat /\ from < to /\ to <= Len(b)
          /\ \A i \in 1..(to - from) : b[from + i] = <<v, i>>
      BY DEF Holds, FieldValues
    <2> HIDE DEF from, to, v
    <2>2. Value(Slice(b, from, to)) = v
      BY <2>1, SliceHasValue
    <2> QED
      BY <2>2 DEF from, to, v
  <1>2. Len(b) \in Nat
    BY LenProperties
  <1> QED
    BY <1>1, <1>2 DEF read_sockaddr, AF_INET, AF_INET6

\* An address, or something of another family, in 128 bytes.
LEMMA StorageIs ==
    ASSUME NEW addr \in MaybeAddress
    PROVE  /\ KernelStorage(addr) \in Seq(Byte)
           /\ Len(KernelStorage(addr)) = 128
           /\ addr = Foreign => Holds(KernelStorage(addr), 0, 77, 2)
           /\ addr # Foreign => addr \in Addresses /\ Prefix(KernelSockaddr(addr), KernelStorage(addr))
  <1>1. 0 \in FieldValues /\ 77 \in FieldValues
    BY DEF FieldValues
  <1>2. CASE addr = Foreign
    <2> DEFINE s == Field(77, 2)
               b == s \o Zeros(126)
    <2>1. s \in Seq(Byte) /\ Len(s) = 2 /\ Holds(s, 0, 77, 2)
      BY <1>1, FirstField
    <2>2. Extended(s, 2, b, 0, 126)
      BY <1>1, <2>1, AddField, ZenonT(30) DEF Add, Zeros
    <2>3. KernelStorage(addr) = b
      BY <1>2 DEF KernelStorage, Foreign
    <2> HIDE DEF s, b
    <2>4. b \in Seq(Byte) /\ Len(b) = 128 /\ Holds(b, 0, 77, 2)
      <3>1. /\ b \in Seq(Byte) /\ Len(b) = 2 + 126
            /\ \A from, l \in Nat, w \in FieldValues :
                  from + l <= 2 /\ Holds(s, from, w, l) => Holds(b, from, w, l)
        BY <2>2 DEF Extended
      <3>2. 0 + 2 <= 2
        OBVIOUS
      <3>3. Holds(b, 0, 77, 2)
        BY <1>1, <2>1, <3>1, <3>2, Zenon
      <3> QED
        BY <3>1, <3>3
    <2> QED
      BY <1>2, <2>3, <2>4
  <1>3. CASE addr \in Addresses
    <2> DEFINE k == KernelSockaddr(addr)
               n == SizeOf(addr)
               d == 128 - n
               b == k \o Zeros(d)
    <2>1. addr # Foreign
      BY <1>3, AddressesAssumption DEF Foreign, V4, V6, AF_INET, AF_INET6
    <2>2. k \in Seq(Byte) /\ Len(k) = n /\ n \in 1..128
      BY <1>3, KernelBytes DEF SizeOf, SOCKADDR_IN_LEN, SOCKADDR_IN6_LEN
    <2> HIDE DEF k, n
    <2>3. Zeros(d) \in Seq(Byte) /\ Len(Zeros(d)) = d /\ d \in Nat
      <3>1. d \in Nat
        BY <2>2
      <3> HIDE DEF d
      <3> QED
        BY <1>1, <3>1, FirstField DEF Zeros
    <2>4. KernelStorage(addr) = b 
      BY <2>1 DEF KernelStorage, k, n
    <2> DEFINE z == Zeros(d)
    <2>5. /\ k \o z \in Seq(Byte) /\ Len(k \o z) = Len(k) + Len(z)
          /\ \A i \in 1..Len(k) : (k \o z)[i] = k[i]
      <3> HIDE DEF z
      <3> QED
        BY <2>2, <2>3, Concat DEF z
    <2>6. b \in Seq(Byte) /\ Len(b) = 128 /\ \A i \in 1..n : b[i] = k[i]
      BY <2>2, <2>3, <2>5
    <2> HIDE DEF b
    <2>7. Prefix(k, b)
      BY <2>2, <2>6 DEF Prefix
    <2> QED
      BY <1>3, <2>1, <2>4, <2>6, <2>7 DEF k
  <1> QED
    BY <1>2, <1>3 DEF MaybeAddress

\* read_sockaddr tells a known address from a foreign one.
LEMMA StorageReads ==
    ASSUME NEW addr \in MaybeAddress
    PROVE  /\ KernelStorage(addr) \in Seq(Byte)
           /\ Len(KernelStorage(addr)) = 128
           /\ read_sockaddr(KernelStorage(addr)) = Known(addr)
  <1> DEFINE b == KernelStorage(addr)
  <1>1. b \in Seq(Byte) /\ Len(b) = 128
    BY StorageIs
  <1>2. CASE addr = Foreign
    <2>1. Holds(b, 0, 77, 2)
      BY <1>2, StorageIs
    <2>2. read_sockaddr(b) = None
      <3>1. b \in Seq(Byte) /\ Len(b) >= 2
        BY <1>1
      <3> HIDE DEF b
      <3> QED
        BY <2>1, <3>1, ForeignReads
    <2> QED
      BY <1>1, <1>2, <2>2 DEF Known
  <1>3. CASE addr # Foreign
    <2>1. addr \in Addresses /\ Prefix(KernelSockaddr(addr), b)
      BY <1>3, StorageIs
    <2>2. read_sockaddr(b) = Some(addr, SizeOf(addr))
      BY <1>1, <2>1, ReadsPrefix
    <2> QED
      BY <1>1, <1>3, <2>2 DEF Known
  <1> QED
    BY <1>2, <1>3

\* A code that the crate knows gives its variant.
LEMMA VariantIs ==
    ASSUME NEW names, NEW v \in Nat, NEW n \in Nat \ {0}, v + 1 \in 1..Len(names)
    PROVE  Variant(names, Field(v, n)) = <<names[v + 1]>>
  <1>1. Value(Field(v, n)) = v
    BY FieldHasValue DEF FieldValues
  <1> QED
    BY <1>1 DEF Variant

\* The states that the kernel writes are told apart as it means them.
LEMMA SacState ==
    ASSUME NEW s \in DOMAIN KernelSacState
    PROVE  /\ KernelSacState[s] \in Nat
           /\ AssocChangeState_from_raw(Field(KernelSacState[s], 2)) = <<s>>
  <1> DEFINE names == <<"CommUp", "CommLost", "Restart", "ShutdownComplete", "CantStartAssoc">>
             v == KernelSacState[s]
  <1>1. v \in Nat /\ v + 1 \in 1..Len(names) /\ names[v + 1] = s
    BY DEF KernelSacState
  <1> HIDE DEF names, v
  <1>2. Variant(names, Field(v, 2)) = <<s>>
    BY <1>1, VariantIs
  <1> QED
    BY <1>1, <1>2 DEF names, v, AssocChangeState_from_raw

\* The same for the state of an address.
LEMMA SpcState ==
    ASSUME NEW s \in DOMAIN KernelSpcState
    PROVE  /\ KernelSpcState[s] \in Nat
           /\ PeerAddrChangeState_from_raw(Field(KernelSpcState[s], 4)) = <<s>>
  <1> DEFINE names == <<"Available", "Unreachable", "Removed", "Added", "MadePrimary",
                        "Confirmed", "PotentiallyFailed">>
             v == KernelSpcState[s]
  <1>1. v \in Nat /\ v + 1 \in 1..Len(names) /\ names[v + 1] = s
    BY DEF KernelSpcState
  <1> HIDE DEF names, v
  <1>2. Variant(names, Field(v, 4)) = <<s>>
    BY <1>1, VariantIs
  <1> QED
    BY <1>1, <1>2 DEF names, v, PeerAddrChangeState_from_raw

\* The same for the state of a path.
LEMMA SpinfoState ==
    ASSUME NEW s \in DOMAIN KernelSpinfoState
    PROVE  /\ KernelSpinfoState[s] \in Nat
           /\ PeerAddrState_from_raw(Field(KernelSpinfoState[s], 4)) = <<s>>
  <1> DEFINE names == <<"Inactive", "PotentiallyFailed", "Active", "Unconfirmed">>
             v == KernelSpinfoState[s]
  <1>1. v \in Nat /\ v + 1 \in 1..Len(names) /\ names[v + 1] = s
    BY DEF KernelSpinfoState
  <1> HIDE DEF names, v
  <1>2. Variant(names, Field(v, 4)) = <<s>>
    BY <1>1, VariantIs
  <1> QED
    BY <1>1, <1>2 DEF names, v, PeerAddrState_from_raw

\* The same for the state of an association.
LEMMA SstatState ==
    ASSUME NEW s \in DOMAIN KernelSstatState
    PROVE  /\ KernelSstatState[s] \in Nat
           /\ AssocState_from_raw(Field(KernelSstatState[s], 4)) = <<s>>
  <1> DEFINE names == <<"Empty", "Closed", "CookieWait", "CookieEchoed", "Established",
                        "ShutdownPending", "ShutdownSent", "ShutdownReceived",
                        "ShutdownAckSent">>
             v == KernelSstatState[s]
  <1>1. v \in Nat /\ v + 1 \in 1..Len(names) /\ names[v + 1] = s
    BY DEF KernelSstatState
  <1> HIDE DEF names, v
  <1>2. Variant(names, Field(v, 4)) = <<s>>
    BY <1>1, VariantIs
  <1> QED
    BY <1>1, <1>2 DEF names, v, AssocState_from_raw

-----------------------------------------------------------------------------
(* Notifications: the members behind the header, and the fields that parse *)
(* reads.                                                                  *)

IsList(s) == Len(s) \in Nat /\ s = [i \in 1..Len(s) |-> s[i]]

\* The members b lie at these offsets if a header of eight bytes precedes them.
BodyOK(b, at) ==
    /\ Len(b) \in Nat \ {0}
    /\ \A i \in 1..Len(b) : /\ b[i].n \in Nat /\ b[i].a \in Nat \ {0} /\ at[i] \in Nat
                            /\ b[i].name \notin {"sn_type", "flags", "sn_length"}
    /\ Distinct(b)
    /\ at[1] = RoundUp(8, b[1].a)
    /\ \A i \in 2..Len(b) : at[i] = RoundUp(at[i - 1] + b[i - 1].n, b[i].a)

\* Where parse looks for member i.
BodySpot(b, at, i) == [at |-> at[i], n |-> b[i].n, be |-> b[i].be]

\* Each field that parse reads is a member of that name, at its offset.
FixedOK(fixed, b, at) ==
    \A f \in DOMAIN fixed :
        \/ f = "sn_type" /\ fixed[f] = sn_type
        \/ f = "flags" /\ fixed[f] = sn_flags
        \/ \E i \in 1..Len(b) : b[i].name = f /\ fixed[f] = BodySpot(b, at, i)

\* The fields that it reads end with byte `least'.
LeastOK(fixed, least) ==
    /\ least \in Nat /\ least >= 4
    /\ \A f \in DOMAIN fixed : /\ f \notin Flexible /\ fixed[f].at + fixed[f].n \in Nat
                               /\ fixed[f].at + fixed[f].n <= least
    /\ \E f \in DOMAIN fixed : fixed[f].at + fixed[f].n = least

\* Which is where the last member that is not flexible ends.
LastOK(b, at, least) ==
    \E k \in 1..Len(b) : /\ b[k].name \notin Flexible /\ at[k] + b[k].n = least
                         /\ \A i \in 1..Len(b) : i > k => b[i].name \in Flexible

\* The rest begins with the last member, which is flexible.
VarOK(var, b, at, least) ==
    \A f \in DOMAIN var : /\ f \in Flexible /\ var[f] = least /\ at[Len(b)] = least
                          /\ b[Len(b)].name = f /\ b[Len(b)].be = FALSE

\* The members that are given values.
SpecialOK(type, b) ==
    \A i \in 1..Len(b) :
        /\ b[i].name = "address" => b[i].n = 128
        /\ b[i].name = "state" => /\ type \in {"ASSOC_CHANGE", "PEER_ADDR_CHANGE"}
                                   /\ b[i].n = IF type = "ASSOC_CHANGE" THEN 2 ELSE 4

LaidOut(type, b, at, least) ==
    /\ IsList(b) /\ BodyOK(b, at) /\ SpecialOK(type, b) /\ LastOK(b, at, least)
    /\ FixedOK(FieldsOf(type).fixed, b, at) /\ LeastOK(FieldsOf(type).fixed, least)
    /\ VarOK(FieldsOf(type).var, b, at, least)

\* Type by type, parse looks for each field where the kernel has it.
LEMMA AssocChangeLaidOut ==
    ASSUME NEW n \in Nat
    PROVE  LaidOut("ASSOC_CHANGE", Body("ASSOC_CHANGE", n), <<8, 10, 12, 14, 16, 20>>, 20)
  <1> DEFINE b == Body("ASSOC_CHANGE", n)
             fixed == FieldsOf("ASSOC_CHANGE").fixed
             var == FieldsOf("ASSOC_CHANGE").var
             at == <<8, 10, 12, 14, 16, 20>>
  <1>1. b = <<Member("state", 2), Member("error", 2), Member("outbound_streams", 2),
              Member("inbound_streams", 2), Member("assoc_id", 4), Blob("info", n, 1)>>
    BY DEF Body
  <1>2. /\ fixed = [state |-> u16_at(8), error |-> u16_at(10), outbound_streams |-> u16_at(12),
                    inbound_streams |-> u16_at(14), assoc_id |-> u32_at(16)]
        /\ var = [info |-> 20]
    BY DEF FieldsOf
  <1> HIDE DEF b, fixed, var
  <1>3. IsList(b)
    BY <1>1 DEF IsList
  <1>4. /\ Len(b) = 6
        /\ b[1].name = "state" /\ b[1].n = 2 /\ b[1].a = 2 /\ b[1].be = FALSE
        /\ b[2].name = "error" /\ b[2].n = 2 /\ b[2].a = 2 /\ b[2].be = FALSE
        /\ b[3].name = "outbound_streams" /\ b[3].n = 2 /\ b[3].a = 2 /\ b[3].be = FALSE
        /\ b[4].name = "inbound_streams" /\ b[4].n = 2 /\ b[4].a = 2 /\ b[4].be = FALSE
        /\ b[5].name = "assoc_id" /\ b[5].n = 4 /\ b[5].a = 4 /\ b[5].be = FALSE
        /\ b[6].name = "info" /\ b[6].n = n /\ b[6].a = 1 /\ b[6].be = FALSE
    BY <1>1 DEF Member, Blob, BigEndian
  <1>5. \A i \in 1..6 : i \in {1, 2, 3, 4, 5, 6}
    OBVIOUS
  <1>6. BodyOK(b, at)
    <2>1. Distinct(b)
      BY <1>4, <1>5 DEF Distinct
    <2>2. \A i \in 1..Len(b) : /\ b[i].n \in Nat /\ b[i].a \in Nat \ {0} /\ at[i] \in Nat
                                /\ b[i].name \notin {"sn_type", "flags", "sn_length"}
      BY <1>4, <1>5
    <2>3. /\ at[1] = RoundUp(8, b[1].a)
          /\ \A i \in 2..Len(b) : at[i] = RoundUp(at[i - 1] + b[i - 1].n, b[i].a)
      BY <1>4, <1>5 DEF RoundUp
    <2> QED
      BY <1>4, <2>1, <2>2, <2>3 DEF BodyOK
  <1>7. SpecialOK("ASSOC_CHANGE", b)
    BY <1>4, <1>5 DEF SpecialOK
  <1>8. LastOK(b, at, 20)
    BY <1>4, <1>5 DEF LastOK, Flexible
  <1>9. FixedOK(fixed, b, at)
    <2>1. /\ fixed["state"] = BodySpot(b, at, 1)
          /\ fixed["error"] = BodySpot(b, at, 2)
          /\ fixed["outbound_streams"] = BodySpot(b, at, 3)
          /\ fixed["inbound_streams"] = BodySpot(b, at, 4)
          /\ fixed["assoc_id"] = BodySpot(b, at, 5)
      BY <1>2, <1>4 DEF BodySpot, u16_at, u32_at, from_be, sn_flags
    <2>2. DOMAIN fixed = {"state", "error", "outbound_streams", "inbound_streams", "assoc_id"}
      BY <1>2
    <2> HIDE DEF at
    <2> QED
      BY <1>4, <2>1, <2>2 DEF FixedOK
  <1>10. LeastOK(fixed, 20)
    BY <1>2 DEF LeastOK, Flexible, u16_at, u32_at, from_be, sn_flags
  <1>11. VarOK(var, b, at, 20)
    BY <1>2, <1>4 DEF VarOK, Flexible
  <1> QED
    BY <1>3, <1>6, <1>7, <1>8, <1>9, <1>10, <1>11 DEF b, fixed, var, LaidOut

LEMMA PeerAddrChangeLaidOut ==
    ASSUME NEW n \in Nat
    PROVE  LaidOut("PEER_ADDR_CHANGE", Body("PEER_ADDR_CHANGE", n), <<8, 136, 140, 144>>, 148)
  <1> DEFINE b == Body("PEER_ADDR_CHANGE", n)
             fixed == FieldsOf("PEER_ADDR_CHANGE").fixed
             var == FieldsOf("PEER_ADDR_CHANGE").var
             at == <<8, 136, 140, 144>>
  <1>1. b = <<Blob("address", 128, 4), Member("state", 4), Member("error", 4),
              Member("assoc_id", 4)>>
    BY DEF Body
  <1>2. /\ fixed = [address |-> [at |-> 8, n |-> 128, be |-> FALSE], state |-> u32_at(136),
                    error |-> u32_at(140), assoc_id |-> u32_at(144)]
        /\ var = << >>
    BY DEF FieldsOf, Fixed
  <1> HIDE DEF b, fixed, var
  <1>3. IsList(b)
    BY <1>1 DEF IsList
  <1>4. /\ Len(b) = 4
        /\ b[1].name = "address" /\ b[1].n = 128 /\ b[1].a = 4 /\ b[1].be = FALSE
        /\ b[2].name = "state" /\ b[2].n = 4 /\ b[2].a = 4 /\ b[2].be = FALSE
        /\ b[3].name = "error" /\ b[3].n = 4 /\ b[3].a = 4 /\ b[3].be = FALSE
        /\ b[4].name = "assoc_id" /\ b[4].n = 4 /\ b[4].a = 4 /\ b[4].be = FALSE
    BY <1>1 DEF Member, Blob, BigEndian
  <1>5. \A i \in 1..4 : i \in {1, 2, 3, 4}
    OBVIOUS
  <1>6. BodyOK(b, at)
    <2>1. Distinct(b)
      BY <1>4, <1>5 DEF Distinct
    <2>2. \A i \in 1..Len(b) : /\ b[i].n \in Nat /\ b[i].a \in Nat \ {0} /\ at[i] \in Nat
                                /\ b[i].name \notin {"sn_type", "flags", "sn_length"}
      BY <1>4, <1>5
    <2>3. /\ at[1] = RoundUp(8, b[1].a)
          /\ \A i \in 2..Len(b) : at[i] = RoundUp(at[i - 1] + b[i - 1].n, b[i].a)
      BY <1>4, <1>5 DEF RoundUp
    <2> QED
      BY <1>4, <2>1, <2>2, <2>3 DEF BodyOK
  <1>7. SpecialOK("PEER_ADDR_CHANGE", b)
    BY <1>4, <1>5 DEF SpecialOK
  <1>8. LastOK(b, at, 148)
    BY <1>4, <1>5 DEF LastOK, Flexible
  <1>9. FixedOK(fixed, b, at)
    <2>1. /\ fixed["address"] = BodySpot(b, at, 1)
          /\ fixed["state"] = BodySpot(b, at, 2)
          /\ fixed["error"] = BodySpot(b, at, 3)
          /\ fixed["assoc_id"] = BodySpot(b, at, 4)
      BY <1>2, <1>4 DEF BodySpot, u16_at, u32_at, from_be, sn_flags
    <2>2. DOMAIN fixed = {"address", "state", "error", "assoc_id"}
      BY <1>2
    <2> HIDE DEF at
    <2> QED
      BY <1>4, <2>1, <2>2 DEF FixedOK
  <1>10. LeastOK(fixed, 148)
    BY <1>2 DEF LeastOK, Flexible, u16_at, u32_at, from_be, sn_flags
  <1>11. VarOK(var, b, at, 148)
    BY <1>2, <1>4 DEF VarOK, Flexible
  <1> QED
    BY <1>3, <1>6, <1>7, <1>8, <1>9, <1>10, <1>11 DEF b, fixed, var, LaidOut

LEMMA RemoteErrorLaidOut ==
    ASSUME NEW n \in Nat
    PROVE  LaidOut("REMOTE_ERROR", Body("REMOTE_ERROR", n), <<8, 12, 16>>, 16)
  <1> DEFINE b == Body("REMOTE_ERROR", n)
             fixed == FieldsOf("REMOTE_ERROR").fixed
             var == FieldsOf("REMOTE_ERROR").var
             at == <<8, 12, 16>>
  <1>1. b = <<BigEndian("error", 2), Member("assoc_id", 4), Blob("data", n, 1)>>
    BY DEF Body
  <1>2. /\ fixed = [error |-> from_be(u16_at(8)), assoc_id |-> u32_at(12)]
        /\ var = [data |-> 16]
    BY DEF FieldsOf
  <1> HIDE DEF b, fixed, var
  <1>3. IsList(b)
    BY <1>1 DEF IsList
  <1>4. /\ Len(b) = 3
        /\ b[1].name = "error" /\ b[1].n = 2 /\ b[1].a = 2 /\ b[1].be = TRUE
        /\ b[2].name = "assoc_id" /\ b[2].n = 4 /\ b[2].a = 4 /\ b[2].be = FALSE
        /\ b[3].name = "data" /\ b[3].n = n /\ b[3].a = 1 /\ b[3].be = FALSE
    BY <1>1 DEF Member, Blob, BigEndian
  <1>5. \A i \in 1..3 : i \in {1, 2, 3}
    OBVIOUS
  <1>6. BodyOK(b, at)
    <2>1. Distinct(b)
      BY <1>4, <1>5 DEF Distinct
    <2>2. \A i \in 1..Len(b) : /\ b[i].n \in Nat /\ b[i].a \in Nat \ {0} /\ at[i] \in Nat
                                /\ b[i].name \notin {"sn_type", "flags", "sn_length"}
      BY <1>4, <1>5
    <2>3. /\ at[1] = RoundUp(8, b[1].a)
          /\ \A i \in 2..Len(b) : at[i] = RoundUp(at[i - 1] + b[i - 1].n, b[i].a)
      BY <1>4, <1>5 DEF RoundUp
    <2> QED
      BY <1>4, <2>1, <2>2, <2>3 DEF BodyOK
  <1>7. SpecialOK("REMOTE_ERROR", b)
    BY <1>4, <1>5 DEF SpecialOK
  <1>8. LastOK(b, at, 16)
    BY <1>4, <1>5 DEF LastOK, Flexible
  <1>9. FixedOK(fixed, b, at)
    <2>1. /\ fixed["error"] = BodySpot(b, at, 1)
          /\ fixed["assoc_id"] = BodySpot(b, at, 2)
      BY <1>2, <1>4 DEF BodySpot, u16_at, u32_at, from_be, sn_flags
    <2>2. DOMAIN fixed = {"error", "assoc_id"}
      BY <1>2
    <2> HIDE DEF at
    <2> QED
      BY <1>4, <2>1, <2>2 DEF FixedOK
  <1>10. LeastOK(fixed, 16)
    BY <1>2 DEF LeastOK, Flexible, u16_at, u32_at, from_be, sn_flags
  <1>11. VarOK(var, b, at, 16)
    BY <1>2, <1>4 DEF VarOK, Flexible
  <1> QED
    BY <1>3, <1>6, <1>7, <1>8, <1>9, <1>10, <1>11 DEF b, fixed, var, LaidOut

LEMMA SendFailedLaidOut ==
    ASSUME NEW n \in Nat
    PROVE  LaidOut("SEND_FAILED", Body("SEND_FAILED", n),
                   <<8, 12, 14, 16, 20, 24, 28, 32, 36, 40, 44, 48>>, 48)
  <1> DEFINE b == Body("SEND_FAILED", n)
             fixed == FieldsOf("SEND_FAILED").fixed
             var == FieldsOf("SEND_FAILED").var
             at == <<8, 12, 14, 16, 20, 24, 28, 32, 36, 40, 44, 48>>
  <1>1. b = <<Member("error", 4), Member("sid", 2), Member("ssn", 2), Member("snd_flags", 2),
              BigEndian("ppid", 4), Member("context", 4), Member("ttl", 4), Member("tsn", 4),
              Member("cumtsn", 4), Member("info_assoc_id", 4), Member("assoc_id", 4),
              Blob("payload", n, 1)>>
    BY DEF Body
  <1>2. /\ fixed = [error |-> u32_at(8), sid |-> u16_at(12), ppid |-> from_be(u32_at(20)),
                    context |-> u32_at(24), assoc_id |-> u32_at(44)]
        /\ var = [payload |-> 48]
    BY DEF FieldsOf, SendFailed
  <1> HIDE DEF b, fixed, var
  <1>3. IsList(b)
    BY <1>1 DEF IsList
  <1>4. /\ Len(b) = 12
        /\ b[1].name = "error" /\ b[1].n = 4 /\ b[1].a = 4 /\ b[1].be = FALSE
        /\ b[2].name = "sid" /\ b[2].n = 2 /\ b[2].a = 2 /\ b[2].be = FALSE
        /\ b[3].name = "ssn" /\ b[3].n = 2 /\ b[3].a = 2 /\ b[3].be = FALSE
        /\ b[4].name = "snd_flags" /\ b[4].n = 2 /\ b[4].a = 2 /\ b[4].be = FALSE
        /\ b[5].name = "ppid" /\ b[5].n = 4 /\ b[5].a = 4 /\ b[5].be = TRUE
        /\ b[6].name = "context" /\ b[6].n = 4 /\ b[6].a = 4 /\ b[6].be = FALSE
        /\ b[7].name = "ttl" /\ b[7].n = 4 /\ b[7].a = 4 /\ b[7].be = FALSE
        /\ b[8].name = "tsn" /\ b[8].n = 4 /\ b[8].a = 4 /\ b[8].be = FALSE
        /\ b[9].name = "cumtsn" /\ b[9].n = 4 /\ b[9].a = 4 /\ b[9].be = FALSE
        /\ b[10].name = "info_assoc_id" /\ b[10].n = 4 /\ b[10].a = 4 /\ b[10].be = FALSE
        /\ b[11].name = "assoc_id" /\ b[11].n = 4 /\ b[11].a = 4 /\ b[11].be = FALSE
        /\ b[12].name = "payload" /\ b[12].n = n /\ b[12].a = 1 /\ b[12].be = FALSE
    BY <1>1 DEF Member, Blob, BigEndian
  <1>5. \A i \in 1..12 : i \in {1, 2, 3, 4, 5, 6, 7, 8, 9, 10, 11, 12}
    OBVIOUS
  <1>6. BodyOK(b, at)
    <2>1. Distinct(b)
      BY <1>4, <1>5 DEF Distinct
    <2>2. \A i \in 1..Len(b) : /\ b[i].n \in Nat /\ b[i].a \in Nat \ {0} /\ at[i] \in Nat
                                /\ b[i].name \notin {"sn_type", "flags", "sn_length"}
      BY <1>4, <1>5
    <2>3. /\ at[1] = RoundUp(8, b[1].a)
          /\ \A i \in 2..Len(b) : at[i] = RoundUp(at[i - 1] + b[i - 1].n, b[i].a)
      BY <1>4, <1>5 DEF RoundUp
    <2> QED
      BY <1>4, <2>1, <2>2, <2>3 DEF BodyOK
  <1>7. SpecialOK("SEND_FAILED", b)
    BY <1>4, <1>5 DEF SpecialOK
  <1>8. LastOK(b, at, 48)
    BY <1>4, <1>5 DEF LastOK, Flexible
  <1>9. FixedOK(fixed, b, at)
    <2>1. /\ fixed["error"] = BodySpot(b, at, 1)
          /\ fixed["sid"] = BodySpot(b, at, 2)
          /\ fixed["ppid"] = BodySpot(b, at, 5)
          /\ fixed["context"] = BodySpot(b, at, 6)
          /\ fixed["assoc_id"] = BodySpot(b, at, 11)
      BY <1>2, <1>4 DEF BodySpot, u16_at, u32_at, from_be, sn_flags
    <2>2. DOMAIN fixed = {"error", "sid", "ppid", "context", "assoc_id"}
      BY <1>2
    <2> HIDE DEF at
    <2> QED
      BY <1>4, <2>1, <2>2 DEF FixedOK
  <1>10. LeastOK(fixed, 48)
    BY <1>2 DEF LeastOK, Flexible, u16_at, u32_at, from_be, sn_flags
  <1>11. VarOK(var, b, at, 48)
    BY <1>2, <1>4 DEF VarOK, Flexible
  <1> QED
    BY <1>3, <1>6, <1>7, <1>8, <1>9, <1>10, <1>11 DEF b, fixed, var, LaidOut

LEMMA SendFailedEventLaidOut ==
    ASSUME NEW n \in Nat
    PROVE  LaidOut("SEND_FAILED_EVENT", Body("SEND_FAILED_EVENT", n),
                   <<8, 12, 14, 16, 20, 24, 28, 32>>, 32)
  <1> DEFINE b == Body("SEND_FAILED_EVENT", n)
             fixed == FieldsOf("SEND_FAILED_EVENT").fixed
             var == FieldsOf("SEND_FAILED_EVENT").var
             at == <<8, 12, 14, 16, 20, 24, 28, 32>>
  <1>1. b = <<Member("error", 4), Member("sid", 2), Member("snd_flags", 2),
              BigEndian("ppid", 4), Member("context", 4), Member("info_assoc_id", 4),
              Member("assoc_id", 4), Blob("payload", n, 1)>>
    BY DEF Body
  <1>2. /\ fixed = [error |-> u32_at(8), sid |-> u16_at(12), ppid |-> from_be(u32_at(16)),
                    context |-> u32_at(20), assoc_id |-> u32_at(28)]
        /\ var = [payload |-> 32]
    BY DEF FieldsOf, SendFailed
  <1> HIDE DEF b, fixed, var
  <1>3. IsList(b)
    BY <1>1 DEF IsList
  <1>4. /\ Len(b) = 8
        /\ b[1].name = "error" /\ b[1].n = 4 /\ b[1].a = 4 /\ b[1].be = FALSE
        /\ b[2].name = "sid" /\ b[2].n = 2 /\ b[2].a = 2 /\ b[2].be = FALSE
        /\ b[3].name = "snd_flags" /\ b[3].n = 2 /\ b[3].a = 2 /\ b[3].be = FALSE
        /\ b[4].name = "ppid" /\ b[4].n = 4 /\ b[4].a = 4 /\ b[4].be = TRUE
        /\ b[5].name = "context" /\ b[5].n = 4 /\ b[5].a = 4 /\ b[5].be = FALSE
        /\ b[6].name = "info_assoc_id" /\ b[6].n = 4 /\ b[6].a = 4 /\ b[6].be = FALSE
        /\ b[7].name = "assoc_id" /\ b[7].n = 4 /\ b[7].a = 4 /\ b[7].be = FALSE
        /\ b[8].name = "payload" /\ b[8].n = n /\ b[8].a = 1 /\ b[8].be = FALSE
    BY <1>1 DEF Member, Blob, BigEndian
  <1>5. \A i \in 1..8 : i \in {1, 2, 3, 4, 5, 6, 7, 8}
    OBVIOUS
  <1>6. BodyOK(b, at)
    <2>1. Distinct(b)
      BY <1>4, <1>5 DEF Distinct
    <2>2. \A i \in 1..Len(b) : /\ b[i].n \in Nat /\ b[i].a \in Nat \ {0} /\ at[i] \in Nat
                                /\ b[i].name \notin {"sn_type", "flags", "sn_length"}
      BY <1>4, <1>5
    <2>3. /\ at[1] = RoundUp(8, b[1].a)
          /\ \A i \in 2..Len(b) : at[i] = RoundUp(at[i - 1] + b[i - 1].n, b[i].a)
      BY <1>4, <1>5 DEF RoundUp
    <2> QED
      BY <1>4, <2>1, <2>2, <2>3 DEF BodyOK
  <1>7. SpecialOK("SEND_FAILED_EVENT", b)
    BY <1>4, <1>5 DEF SpecialOK
  <1>8. LastOK(b, at, 32)
    BY <1>4, <1>5 DEF LastOK, Flexible
  <1>9. FixedOK(fixed, b, at)
    <2>1. /\ fixed["error"] = BodySpot(b, at, 1)
          /\ fixed["sid"] = BodySpot(b, at, 2)
          /\ fixed["ppid"] = BodySpot(b, at, 4)
          /\ fixed["context"] = BodySpot(b, at, 5)
          /\ fixed["assoc_id"] = BodySpot(b, at, 7)
      BY <1>2, <1>4 DEF BodySpot, u16_at, u32_at, from_be, sn_flags
    <2>2. DOMAIN fixed = {"error", "sid", "ppid", "context", "assoc_id"}
      BY <1>2
    <2> HIDE DEF at
    <2> QED
      BY <1>4, <2>1, <2>2 DEF FixedOK
  <1>10. LeastOK(fixed, 32)
    BY <1>2 DEF LeastOK, Flexible, u16_at, u32_at, from_be, sn_flags
  <1>11. VarOK(var, b, at, 32)
    BY <1>2, <1>4 DEF VarOK, Flexible
  <1> QED
    BY <1>3, <1>6, <1>7, <1>8, <1>9, <1>10, <1>11 DEF b, fixed, var, LaidOut

LEMMA ShutdownLaidOut ==
    ASSUME NEW n \in Nat, NEW type \in {"SHUTDOWN_EVENT", "SENDER_DRY_EVENT"}
    PROVE  LaidOut(type, Body(type, n), <<8>>, 12)
  <1> DEFINE b == Body(type, n)
             fixed == FieldsOf(type).fixed
             var == FieldsOf(type).var
             at == <<8>>
  <1>1. b = <<Member("assoc_id", 4)>>
    BY DEF Body
  <1>2. /\ fixed = [assoc_id |-> u32_at(8)]
        /\ var = << >>
    BY DEF FieldsOf, Fixed
  <1> HIDE DEF b, fixed, var
  <1>3. IsList(b)
    BY <1>1 DEF IsList
  <1>4. /\ Len(b) = 1
        /\ b[1].name = "assoc_id" /\ b[1].n = 4 /\ b[1].a = 4 /\ b[1].be = FALSE
    BY <1>1 DEF Member, Blob, BigEndian
  <1>5. \A i \in 1..1 : i \in {1}
    OBVIOUS
  <1>6. BodyOK(b, at)
    <2>1. Distinct(b)
      BY <1>4, <1>5 DEF Distinct
    <2>2. \A i \in 1..Len(b) : /\ b[i].n \in Nat /\ b[i].a \in Nat \ {0} /\ at[i] \in Nat
                                /\ b[i].name \notin {"sn_type", "flags", "sn_length"}
      BY <1>4, <1>5
    <2>3. /\ at[1] = RoundUp(8, b[1].a)
          /\ \A i \in 2..Len(b) : at[i] = RoundUp(at[i - 1] + b[i - 1].n, b[i].a)
      BY <1>4, <1>5 DEF RoundUp
    <2> QED
      BY <1>4, <2>1, <2>2, <2>3 DEF BodyOK
  <1>7. SpecialOK(type, b)
    BY <1>4, <1>5 DEF SpecialOK
  <1>8. LastOK(b, at, 12)
    BY <1>4, <1>5 DEF LastOK, Flexible
  <1>9. FixedOK(fixed, b, at)
    <2>1. /\ fixed["assoc_id"] = BodySpot(b, at, 1)
      BY <1>2, <1>4 DEF BodySpot, u16_at, u32_at, from_be, sn_flags
    <2>2. DOMAIN fixed = {"assoc_id"}
      BY <1>2
    <2> HIDE DEF at
    <2> QED
      BY <1>4, <2>1, <2>2 DEF FixedOK
  <1>10. LeastOK(fixed, 12)
    BY <1>2 DEF LeastOK, Flexible, u16_at, u32_at, from_be, sn_flags
  <1>11. VarOK(var, b, at, 12)
    BY <1>2, <1>4 DEF VarOK, Flexible
  <1> QED
    BY <1>3, <1>6, <1>7, <1>8, <1>9, <1>10, <1>11 DEF b, fixed, var, LaidOut

LEMMA PartialDeliveryLaidOut ==
    ASSUME NEW n \in Nat
    PROVE  LaidOut("PARTIAL_DELIVERY_EVENT", Body("PARTIAL_DELIVERY_EVENT", n), <<8, 12, 16, 20>>, 24)
  <1> DEFINE b == Body("PARTIAL_DELIVERY_EVENT", n)
             fixed == FieldsOf("PARTIAL_DELIVERY_EVENT").fixed
             var == FieldsOf("PARTIAL_DELIVERY_EVENT").var
             at == <<8, 12, 16, 20>>
  <1>1. b = <<Member("indication", 4), Member("assoc_id", 4), Member("stream", 4),
              Member("seq", 4)>>
    BY DEF Body
  <1>2. /\ fixed = [indication |-> u32_at(8), assoc_id |-> u32_at(12), stream |-> u32_at(16),
                    seq |-> u32_at(20)]
        /\ var = << >>
    BY DEF FieldsOf, Fixed
  <1> HIDE DEF b, fixed, var
  <1>3. IsList(b)
    BY <1>1 DEF IsList
  <1>4. /\ Len(b) = 4
        /\ b[1].name = "indication" /\ b[1].n = 4 /\ b[1].a = 4 /\ b[1].be = FALSE
        /\ b[2].name = "assoc_id" /\ b[2].n = 4 /\ b[2].a = 4 /\ b[2].be = FALSE
        /\ b[3].name = "stream" /\ b[3].n = 4 /\ b[3].a = 4 /\ b[3].be = FALSE
        /\ b[4].name = "seq" /\ b[4].n = 4 /\ b[4].a = 4 /\ b[4].be = FALSE
    BY <1>1 DEF Member, Blob, BigEndian
  <1>5. \A i \in 1..4 : i \in {1, 2, 3, 4}
    OBVIOUS
  <1>6. BodyOK(b, at)
    <2>1. Distinct(b)
      BY <1>4, <1>5 DEF Distinct
    <2>2. \A i \in 1..Len(b) : /\ b[i].n \in Nat /\ b[i].a \in Nat \ {0} /\ at[i] \in Nat
                                /\ b[i].name \notin {"sn_type", "flags", "sn_length"}
      BY <1>4, <1>5
    <2>3. /\ at[1] = RoundUp(8, b[1].a)
          /\ \A i \in 2..Len(b) : at[i] = RoundUp(at[i - 1] + b[i - 1].n, b[i].a)
      BY <1>4, <1>5 DEF RoundUp
    <2> QED
      BY <1>4, <2>1, <2>2, <2>3 DEF BodyOK
  <1>7. SpecialOK("PARTIAL_DELIVERY_EVENT", b)
    BY <1>4, <1>5 DEF SpecialOK
  <1>8. LastOK(b, at, 24)
    BY <1>4, <1>5 DEF LastOK, Flexible
  <1>9. FixedOK(fixed, b, at)
    <2>1. /\ fixed["indication"] = BodySpot(b, at, 1)
          /\ fixed["assoc_id"] = BodySpot(b, at, 2)
          /\ fixed["stream"] = BodySpot(b, at, 3)
          /\ fixed["seq"] = BodySpot(b, at, 4)
      BY <1>2, <1>4 DEF BodySpot, u16_at, u32_at, from_be, sn_flags
    <2>2. DOMAIN fixed = {"indication", "assoc_id", "stream", "seq"}
      BY <1>2
    <2> HIDE DEF at
    <2> QED
      BY <1>4, <2>1, <2>2 DEF FixedOK
  <1>10. LeastOK(fixed, 24)
    BY <1>2 DEF LeastOK, Flexible, u16_at, u32_at, from_be, sn_flags
  <1>11. VarOK(var, b, at, 24)
    BY <1>2, <1>4 DEF VarOK, Flexible
  <1> QED
    BY <1>3, <1>6, <1>7, <1>8, <1>9, <1>10, <1>11 DEF b, fixed, var, LaidOut

LEMMA AdaptationLaidOut ==
    ASSUME NEW n \in Nat
    PROVE  LaidOut("ADAPTATION_INDICATION", Body("ADAPTATION_INDICATION", n), <<8, 12>>, 16)
  <1> DEFINE b == Body("ADAPTATION_INDICATION", n)
             fixed == FieldsOf("ADAPTATION_INDICATION").fixed
             var == FieldsOf("ADAPTATION_INDICATION").var
             at == <<8, 12>>
  <1>1. b = <<Member("indication", 4), Member("assoc_id", 4)>>
    BY DEF Body
  <1>2. /\ fixed = [indication |-> u32_at(8), assoc_id |-> u32_at(12)]
        /\ var = << >>
    BY DEF FieldsOf, Fixed
  <1> HIDE DEF b, fixed, var
  <1>3. IsList(b)
    BY <1>1 DEF IsList
  <1>4. /\ Len(b) = 2
        /\ b[1].name = "indication" /\ b[1].n = 4 /\ b[1].a = 4 /\ b[1].be = FALSE
        /\ b[2].name = "assoc_id" /\ b[2].n = 4 /\ b[2].a = 4 /\ b[2].be = FALSE
    BY <1>1 DEF Member, Blob, BigEndian
  <1>5. \A i \in 1..2 : i \in {1, 2}
    OBVIOUS
  <1>6. BodyOK(b, at)
    <2>1. Distinct(b)
      BY <1>4, <1>5 DEF Distinct
    <2>2. \A i \in 1..Len(b) : /\ b[i].n \in Nat /\ b[i].a \in Nat \ {0} /\ at[i] \in Nat
                                /\ b[i].name \notin {"sn_type", "flags", "sn_length"}
      BY <1>4, <1>5
    <2>3. /\ at[1] = RoundUp(8, b[1].a)
          /\ \A i \in 2..Len(b) : at[i] = RoundUp(at[i - 1] + b[i - 1].n, b[i].a)
      BY <1>4, <1>5 DEF RoundUp
    <2> QED
      BY <1>4, <2>1, <2>2, <2>3 DEF BodyOK
  <1>7. SpecialOK("ADAPTATION_INDICATION", b)
    BY <1>4, <1>5 DEF SpecialOK
  <1>8. LastOK(b, at, 16)
    BY <1>4, <1>5 DEF LastOK, Flexible
  <1>9. FixedOK(fixed, b, at)
    <2>1. /\ fixed["indication"] = BodySpot(b, at, 1)
          /\ fixed["assoc_id"] = BodySpot(b, at, 2)
      BY <1>2, <1>4 DEF BodySpot, u16_at, u32_at, from_be, sn_flags
    <2>2. DOMAIN fixed = {"indication", "assoc_id"}
      BY <1>2
    <2> HIDE DEF at
    <2> QED
      BY <1>4, <2>1, <2>2 DEF FixedOK
  <1>10. LeastOK(fixed, 16)
    BY <1>2 DEF LeastOK, Flexible, u16_at, u32_at, from_be, sn_flags
  <1>11. VarOK(var, b, at, 16)
    BY <1>2, <1>4 DEF VarOK, Flexible
  <1> QED
    BY <1>3, <1>6, <1>7, <1>8, <1>9, <1>10, <1>11 DEF b, fixed, var, LaidOut

LEMMA AuthenticationLaidOut ==
    ASSUME NEW n \in Nat
    PROVE  LaidOut("AUTHENTICATION_EVENT", Body("AUTHENTICATION_EVENT", n), <<8, 10, 12, 16>>, 20)
  <1> DEFINE b == Body("AUTHENTICATION_EVENT", n)
             fixed == FieldsOf("AUTHENTICATION_EVENT").fixed
             var == FieldsOf("AUTHENTICATION_EVENT").var
             at == <<8, 10, 12, 16>>
  <1>1. b = <<Member("key_number", 2), Member("alt_key_number", 2), Member("indication", 4),
              Member("assoc_id", 4)>>
    BY DEF Body
  <1>2. /\ fixed = [key_number |-> u16_at(8), alt_key_number |-> u16_at(10),
                    indication |-> u32_at(12), assoc_id |-> u32_at(16)]
        /\ var = << >>
    BY DEF FieldsOf, Fixed
  <1> HIDE DEF b, fixed, var
  <1>3. IsList(b)
    BY <1>1 DEF IsList
  <1>4. /\ Len(b) = 4
        /\ b[1].name = "key_number" /\ b[1].n = 2 /\ b[1].a = 2 /\ b[1].be = FALSE
        /\ b[2].name = "alt_key_number" /\ b[2].n = 2 /\ b[2].a = 2 /\ b[2].be = FALSE
        /\ b[3].name = "indication" /\ b[3].n = 4 /\ b[3].a = 4 /\ b[3].be = FALSE
        /\ b[4].name = "assoc_id" /\ b[4].n = 4 /\ b[4].a = 4 /\ b[4].be = FALSE
    BY <1>1 DEF Member, Blob, BigEndian
  <1>5. \A i \in 1..4 : i \in {1, 2, 3, 4}
    OBVIOUS
  <1>6. BodyOK(b, at)
    <2>1. Distinct(b)
      BY <1>4, <1>5 DEF Distinct
    <2>2. \A i \in 1..Len(b) : /\ b[i].n \in Nat /\ b[i].a \in Nat \ {0} /\ at[i] \in Nat
                                /\ b[i].name \notin {"sn_type", "flags", "sn_length"}
      BY <1>4, <1>5
    <2>3. /\ at[1] = RoundUp(8, b[1].a)
          /\ \A i \in 2..Len(b) : at[i] = RoundUp(at[i - 1] + b[i - 1].n, b[i].a)
      BY <1>4, <1>5 DEF RoundUp
    <2> QED
      BY <1>4, <2>1, <2>2, <2>3 DEF BodyOK
  <1>7. SpecialOK("AUTHENTICATION_EVENT", b)
    BY <1>4, <1>5 DEF SpecialOK
  <1>8. LastOK(b, at, 20)
    BY <1>4, <1>5 DEF LastOK, Flexible
  <1>9. FixedOK(fixed, b, at)
    <2>1. /\ fixed["key_number"] = BodySpot(b, at, 1)
          /\ fixed["alt_key_number"] = BodySpot(b, at, 2)
          /\ fixed["indication"] = BodySpot(b, at, 3)
          /\ fixed["assoc_id"] = BodySpot(b, at, 4)
      BY <1>2, <1>4 DEF BodySpot, u16_at, u32_at, from_be, sn_flags
    <2>2. DOMAIN fixed = {"key_number", "alt_key_number", "indication", "assoc_id"}
      BY <1>2
    <2> HIDE DEF at
    <2> QED
      BY <1>4, <2>1, <2>2 DEF FixedOK
  <1>10. LeastOK(fixed, 20)
    BY <1>2 DEF LeastOK, Flexible, u16_at, u32_at, from_be, sn_flags
  <1>11. VarOK(var, b, at, 20)
    BY <1>2, <1>4 DEF VarOK, Flexible
  <1> QED
    BY <1>3, <1>6, <1>7, <1>8, <1>9, <1>10, <1>11 DEF b, fixed, var, LaidOut

LEMMA StreamResetLaidOut ==
    ASSUME NEW n \in Nat
    PROVE  LaidOut("STREAM_RESET_EVENT", Body("STREAM_RESET_EVENT", n), <<8, 12>>, 12)
  <1> DEFINE b == Body("STREAM_RESET_EVENT", n)
             fixed == FieldsOf("STREAM_RESET_EVENT").fixed
             var == FieldsOf("STREAM_RESET_EVENT").var
             at == <<8, 12>>
  <1>1. b = <<Member("assoc_id", 4), Blob("streams", n, 2)>>
    BY DEF Body
  <1>2. /\ fixed = [flags |-> sn_flags, assoc_id |-> u32_at(8)]
        /\ var = [streams |-> 12]
    BY DEF FieldsOf
  <1> HIDE DEF b, fixed, var
  <1>3. IsList(b)
    BY <1>1 DEF IsList
  <1>4. /\ Len(b) = 2
        /\ b[1].name = "assoc_id" /\ b[1].n = 4 /\ b[1].a = 4 /\ b[1].be = FALSE
        /\ b[2].name = "streams" /\ b[2].n = n /\ b[2].a = 2 /\ b[2].be = FALSE
    BY <1>1 DEF Member, Blob, BigEndian
  <1>5. \A i \in 1..2 : i \in {1, 2}
    OBVIOUS
  <1>6. BodyOK(b, at)
    <2>1. Distinct(b)
      BY <1>4, <1>5 DEF Distinct
    <2>2. \A i \in 1..Len(b) : /\ b[i].n \in Nat /\ b[i].a \in Nat \ {0} /\ at[i] \in Nat
                                /\ b[i].name \notin {"sn_type", "flags", "sn_length"}
      BY <1>4, <1>5
    <2>3. /\ at[1] = RoundUp(8, b[1].a)
          /\ \A i \in 2..Len(b) : at[i] = RoundUp(at[i - 1] + b[i - 1].n, b[i].a)
      BY <1>4, <1>5 DEF RoundUp
    <2> QED
      BY <1>4, <2>1, <2>2, <2>3 DEF BodyOK
  <1>7. SpecialOK("STREAM_RESET_EVENT", b)
    BY <1>4, <1>5 DEF SpecialOK
  <1>8. LastOK(b, at, 12)
    BY <1>4, <1>5 DEF LastOK, Flexible
  <1>9. FixedOK(fixed, b, at)
    <2>1. /\ fixed["flags"] = sn_flags
          /\ fixed["assoc_id"] = BodySpot(b, at, 1)
      BY <1>2, <1>4 DEF BodySpot, u16_at, u32_at, from_be, sn_flags
    <2>2. DOMAIN fixed = {"flags", "assoc_id"}
      BY <1>2
    <2> HIDE DEF at
    <2> QED
      BY <1>4, <2>1, <2>2 DEF FixedOK
  <1>10. LeastOK(fixed, 12)
    BY <1>2 DEF LeastOK, Flexible, u16_at, u32_at, from_be, sn_flags
  <1>11. VarOK(var, b, at, 12)
    BY <1>2, <1>4 DEF VarOK, Flexible
  <1> QED
    BY <1>3, <1>6, <1>7, <1>8, <1>9, <1>10, <1>11 DEF b, fixed, var, LaidOut

LEMMA AssocResetLaidOut ==
    ASSUME NEW n \in Nat
    PROVE  LaidOut("ASSOC_RESET_EVENT", Body("ASSOC_RESET_EVENT", n), <<8, 12, 16>>, 20)
  <1> DEFINE b == Body("ASSOC_RESET_EVENT", n)
             fixed == FieldsOf("ASSOC_RESET_EVENT").fixed
             var == FieldsOf("ASSOC_RESET_EVENT").var
             at == <<8, 12, 16>>
  <1>1. b = <<Member("assoc_id", 4), Member("local_tsn", 4), Member("remote_tsn", 4)>>
    BY DEF Body
  <1>2. /\ fixed = [flags |-> sn_flags, assoc_id |-> u32_at(8), local_tsn |-> u32_at(12),
                    remote_tsn |-> u32_at(16)]
        /\ var = << >>
    BY DEF FieldsOf, Fixed
  <1> HIDE DEF b, fixed, var
  <1>3. IsList(b)
    BY <1>1 DEF IsList
  <1>4. /\ Len(b) = 3
        /\ b[1].name = "assoc_id" /\ b[1].n = 4 /\ b[1].a = 4 /\ b[1].be = FALSE
        /\ b[2].name = "local_tsn" /\ b[2].n = 4 /\ b[2].a = 4 /\ b[2].be = FALSE
        /\ b[3].name = "remote_tsn" /\ b[3].n = 4 /\ b[3].a = 4 /\ b[3].be = FALSE
    BY <1>1 DEF Member, Blob, BigEndian
  <1>5. \A i \in 1..3 : i \in {1, 2, 3}
    OBVIOUS
  <1>6. BodyOK(b, at)
    <2>1. Distinct(b)
      BY <1>4, <1>5 DEF Distinct
    <2>2. \A i \in 1..Len(b) : /\ b[i].n \in Nat /\ b[i].a \in Nat \ {0} /\ at[i] \in Nat
                                /\ b[i].name \notin {"sn_type", "flags", "sn_length"}
      BY <1>4, <1>5
    <2>3. /\ at[1] = RoundUp(8, b[1].a)
          /\ \A i \in 2..Len(b) : at[i] = RoundUp(at[i - 1] + b[i - 1].n, b[i].a)
      BY <1>4, <1>5 DEF RoundUp
    <2> QED
      BY <1>4, <2>1, <2>2, <2>3 DEF BodyOK
  <1>7. SpecialOK("ASSOC_RESET_EVENT", b)
    BY <1>4, <1>5 DEF SpecialOK
  <1>8. LastOK(b, at, 20)
    BY <1>4, <1>5 DEF LastOK, Flexible
  <1>9. FixedOK(fixed, b, at)
    <2>1. /\ fixed["flags"] = sn_flags
          /\ fixed["assoc_id"] = BodySpot(b, at, 1)
          /\ fixed["local_tsn"] = BodySpot(b, at, 2)
          /\ fixed["remote_tsn"] = BodySpot(b, at, 3)
      BY <1>2, <1>4 DEF BodySpot, u16_at, u32_at, from_be, sn_flags
    <2>2. DOMAIN fixed = {"flags", "assoc_id", "local_tsn", "remote_tsn"}
      BY <1>2
    <2> HIDE DEF at
    <2> QED
      BY <1>4, <2>1, <2>2 DEF FixedOK
  <1>10. LeastOK(fixed, 20)
    BY <1>2 DEF LeastOK, Flexible, u16_at, u32_at, from_be, sn_flags
  <1>11. VarOK(var, b, at, 20)
    BY <1>2, <1>4 DEF VarOK, Flexible
  <1> QED
    BY <1>3, <1>6, <1>7, <1>8, <1>9, <1>10, <1>11 DEF b, fixed, var, LaidOut

LEMMA StreamChangeLaidOut ==
    ASSUME NEW n \in Nat
    PROVE  LaidOut("STREAM_CHANGE_EVENT", Body("STREAM_CHANGE_EVENT", n), <<8, 12, 14>>, 16)
  <1> DEFINE b == Body("STREAM_CHANGE_EVENT", n)
             fixed == FieldsOf("STREAM_CHANGE_EVENT").fixed
             var == FieldsOf("STREAM_CHANGE_EVENT").var
             at == <<8, 12, 14>>
  <1>1. b = <<Member("assoc_id", 4), Member("instrms", 2), Member("outstrms", 2)>>
    BY DEF Body
  <1>2. /\ fixed = [flags |-> sn_flags, assoc_id |-> u32_at(8), instrms |-> u16_at(12),
                    outstrms |-> u16_at(14)]
        /\ var = << >>
    BY DEF FieldsOf, Fixed
  <1> HIDE DEF b, fixed, var
  <1>3. IsList(b)
    BY <1>1 DEF IsList
  <1>4. /\ Len(b) = 3
        /\ b[1].name = "assoc_id" /\ b[1].n = 4 /\ b[1].a = 4 /\ b[1].be = FALSE
        /\ b[2].name = "instrms" /\ b[2].n = 2 /\ b[2].a = 2 /\ b[2].be = FALSE
        /\ b[3].name = "outstrms" /\ b[3].n = 2 /\ b[3].a = 2 /\ b[3].be = FALSE
    BY <1>1 DEF Member, Blob, BigEndian
  <1>5. \A i \in 1..3 : i \in {1, 2, 3}
    OBVIOUS
  <1>6. BodyOK(b, at)
    <2>1. Distinct(b)
      BY <1>4, <1>5 DEF Distinct
    <2>2. \A i \in 1..Len(b) : /\ b[i].n \in Nat /\ b[i].a \in Nat \ {0} /\ at[i] \in Nat
                                /\ b[i].name \notin {"sn_type", "flags", "sn_length"}
      BY <1>4, <1>5
    <2>3. /\ at[1] = RoundUp(8, b[1].a)
          /\ \A i \in 2..Len(b) : at[i] = RoundUp(at[i - 1] + b[i - 1].n, b[i].a)
      BY <1>4, <1>5 DEF RoundUp
    <2> QED
      BY <1>4, <2>1, <2>2, <2>3 DEF BodyOK
  <1>7. SpecialOK("STREAM_CHANGE_EVENT", b)
    BY <1>4, <1>5 DEF SpecialOK
  <1>8. LastOK(b, at, 16)
    BY <1>4, <1>5 DEF LastOK, Flexible
  <1>9. FixedOK(fixed, b, at)
    <2>1. /\ fixed["flags"] = sn_flags
          /\ fixed["assoc_id"] = BodySpot(b, at, 1)
          /\ fixed["instrms"] = BodySpot(b, at, 2)
          /\ fixed["outstrms"] = BodySpot(b, at, 3)
      BY <1>2, <1>4 DEF BodySpot, u16_at, u32_at, from_be, sn_flags
    <2>2. DOMAIN fixed = {"flags", "assoc_id", "instrms", "outstrms"}
      BY <1>2
    <2> HIDE DEF at
    <2> QED
      BY <1>4, <2>1, <2>2 DEF FixedOK
  <1>10. LeastOK(fixed, 16)
    BY <1>2 DEF LeastOK, Flexible, u16_at, u32_at, from_be, sn_flags
  <1>11. VarOK(var, b, at, 16)
    BY <1>2, <1>4 DEF VarOK, Flexible
  <1> QED
    BY <1>3, <1>6, <1>7, <1>8, <1>9, <1>10, <1>11 DEF b, fixed, var, LaidOut

-----------------------------------------------------------------------------
(* The header and the members behind it.                                   *)

Follows(m, h, t) ==
    /\ Len(m) = Len(h) + Len(t)
    /\ \A i \in 1..Len(h) : m[i] = h[i]
    /\ \A i \in 1..Len(t) : m[Len(h) + i] = t[i]

\* The members of a list that is put together from two.
LEMMA Joined ==
    ASSUME NEW h, IsList(h), NEW t, IsList(t)
    PROVE  IsList(h \o t) /\ Follows(h \o t, h, t)
  <1> DEFINE S == {h[i] : i \in 1..Len(h)} \cup {t[i] : i \in 1..Len(t)}
             m == h \o t
  <1>1. h \in [1..Len(h) -> S] /\ t \in [1..Len(t) -> S] /\ Len(h) \in Nat /\ Len(t) \in Nat
    BY DEF IsList
  <1> HIDE DEF S
  <1>2. h \in Seq(S) /\ t \in Seq(S)
    BY <1>1
  <1>3. /\ m \in Seq(S) /\ Len(m) = Len(h) + Len(t)
        /\ \A i \in 1..(Len(h) + Len(t)) : m[i] = IF i <= Len(h) THEN h[i] ELSE t[i - Len(h)]
    BY <1>2, ConcatProperties
  <1> HIDE DEF m
  <1>4. IsList(m)
    BY <1>3 DEF IsList
  <1>5. Follows(m, h, t)
    BY <1>1, <1>3 DEF Follows
  <1> QED
    BY <1>4, <1>5 DEF m

\* The structure m is the header with the members b behind it, at these offsets.
Headed(m, b, at) ==
    /\ Struct_OK(m) /\ Distinct(m) /\ Len(m) = 3 + Len(b) /\ Len(b) \in Nat \ {0}
    /\ m[1].name = "sn_type" /\ m[2].name = "flags" /\ m[3].name = "sn_length"
    /\ m[1].n = 2 /\ m[2].n = 2 /\ m[3].n = 4 /\ m[1].be = FALSE /\ m[2].be = FALSE
    /\ At(m, 1) = 0 /\ At(m, 2) = 2 /\ At(m, 3) = 4
    /\ Ends(m)[1] = 2 /\ Ends(m)[2] = 4 /\ Ends(m)[3] = 8
    /\ \A i \in 1..Len(b) : /\ m[3 + i] = b[i] /\ At(m, 3 + i) = at[i]
                            /\ Ends(m)[3 + i] = at[i] + b[i].n

\* With the header in front, the members lie where BodyOK says.
LEMMA HeaderFirst ==
    ASSUME NEW b, NEW at, IsList(b), BodyOK(b, at)
    PROVE  Headed(Header \o b, b, at)
  <1> DEFINE m == Header \o b
             n == Len(b)
             full == [i \in 1..(3 + n) |-> IF i = 1 THEN 0 ELSE IF i = 2 THEN 2
                                           ELSE IF i = 3 THEN 4 ELSE at[i - 3]]
  <1>1. /\ IsList(Header) /\ Len(Header) = 3
        /\ Header[1] = Member("sn_type", 2) /\ Header[2] = Member("flags", 2)
        /\ Header[3] = Member("sn_length", 4)
    BY DEF IsList, Header
  <1>2. Follows(m, Header, b)
    BY <1>1, Joined
  <1> HIDE DEF m
  <1>3. /\ n \in Nat \ {0} /\ Len(m) = 3 + n
        /\ m[1] = Member("sn_type", 2) /\ m[2] = Member("flags", 2)
        /\ m[3] = Member("sn_length", 4)
        /\ \A i \in 1..n : m[3 + i] = b[i]
    BY <1>1, <1>2 DEF Follows, BodyOK
  <1>4. /\ m[1].name = "sn_type" /\ m[2].name = "flags" /\ m[3].name = "sn_length"
        /\ m[1].n = 2 /\ m[2].n = 2 /\ m[3].n = 4 /\ m[1].a = 2 /\ m[2].a = 2 /\ m[3].a = 4
        /\ m[1].be = FALSE /\ m[2].be = FALSE
    BY <1>3 DEF Member
  <1> HIDE DEF n
  <1>5. \A i \in 1..(3 + n) : i = 1 \/ i = 2 \/ i = 3
                                \/ (i - 3 \in 1..n /\ i = 3 + (i - 3) /\ m[i] = b[i - 3])
    <2> SUFFICES ASSUME NEW i \in 1..(3 + n), i # 1, i # 2, i # 3
                 PROVE  i - 3 \in 1..n /\ i = 3 + (i - 3) /\ m[i] = b[i - 3]
      OBVIOUS
    <2> DEFINE k == i - 3
    <2>1. k \in 1..n /\ i = 3 + k
      BY <1>3
    <2> HIDE DEF k
    <2>2. m[i] = b[k]
      BY <1>3, <2>1
    <2> QED
      BY <2>1, <2>2 DEF k
  <1>6. \A i \in 1..n : /\ b[i].n \in Nat /\ b[i].a \in Nat \ {0} /\ at[i] \in Nat
                        /\ b[i].name \notin {"sn_type", "flags", "sn_length"}
    BY DEF BodyOK, n
  <1>7. Struct_OK(m)
    <2>1. ASSUME NEW i \in 1..(3 + n) PROVE m[i].n \in Nat /\ m[i].a \in Nat \ {0}
      <3>1. CASE i = 1 \/ i = 2 \/ i = 3
        BY <1>4, <3>1
      <3>2. CASE i - 3 \in 1..n /\ m[i] = b[i - 3]
        BY <1>6, <3>2
      <3> QED
        BY <1>5, <3>1, <3>2
    <2> QED
      BY <1>3, <2>1 DEF Struct_OK
  <1>8. Distinct(m)
    <2>1. \A i, j \in 1..n : b[i].name = b[j].name => i = j
      BY DEF BodyOK, Distinct, n
    <2>2. ASSUME NEW i \in 1..(3 + n), NEW j \in 1..(3 + n), m[i].name = m[j].name
          PROVE  i = j
      <3> DEFINE k == i - 3
                 l == j - 3
      <3>1. i = 1 \/ i = 2 \/ i = 3 \/ (k \in 1..n /\ i = 3 + k /\ m[i] = b[k])
        BY <1>5
      <3>2. j = 1 \/ j = 2 \/ j = 3 \/ (l \in 1..n /\ j = 3 + l /\ m[j] = b[l])
        BY <1>5
      <3> HIDE DEF k, l
      <3>3. CASE (i = 1 \/ i = 2 \/ i = 3) /\ (j = 1 \/ j = 2 \/ j = 3)
        BY <1>4, <2>2, <3>3
      <3>4. CASE (i = 1 \/ i = 2 \/ i = 3) /\ l \in 1..n /\ m[j] = b[l]
        BY <1>4, <1>6, <2>2, <3>4
      <3>5. CASE (j = 1 \/ j = 2 \/ j = 3) /\ k \in 1..n /\ m[i] = b[k]
        BY <1>4, <1>6, <2>2, <3>5
      <3>6. CASE /\ k \in 1..n /\ i = 3 + k /\ m[i] = b[k]
                 /\ l \in 1..n /\ j = 3 + l /\ m[j] = b[l]
        BY <2>1, <2>2, <3>6
      <3> QED
        BY <3>1, <3>2, <3>3, <3>4, <3>5, <3>6
    <2> QED
      BY <1>3, <2>2 DEF Distinct
  <1>9. Offsets(m, full)
    <2>1. full[1] = 0 /\ full[2] = 2 /\ full[3] = 4 /\ \A i \in 1..n : full[3 + i] = at[i]
      BY <1>3
    <2>2. \A i \in 1..(3 + n) : full[i] \in Nat
      BY <1>3, <1>6
    <2> HIDE DEF full
    <2>3. ASSUME NEW i \in 2..(3 + n)
          PROVE  full[i] = RoundUp(full[i - 1] + m[i - 1].n, m[i].a)
      <3>1. CASE i = 2
        BY <1>4, <2>1, <3>1 DEF RoundUp
      <3>2. CASE i = 3
        BY <1>4, <2>1, <3>2 DEF RoundUp
      <3>3. CASE i = 4
        <4>1. 1 \in 1..n /\ m[4] = b[1] /\ full[4] = at[1]
          BY <1>3, <2>1
        <4>2. at[1] = RoundUp(8, b[1].a)
          BY DEF BodyOK
        <4>3. full[i - 1] + m[i - 1].n = 8
          BY <1>4, <2>1, <3>3
        <4> QED
          BY <3>3, <4>1, <4>2, <4>3
      <3>4. CASE i > 4
        <4> DEFINE k == i - 3
                   j == k - 1
        <4>1. k \in 2..n /\ j \in 1..n /\ i = 3 + k /\ i - 1 = 3 + j /\ k \in 1..n
          BY <1>3, <3>4
        <4>2. at[k] = RoundUp(at[j] + b[j].n, b[k].a)
          BY <4>1 DEF BodyOK, n
        <4> HIDE DEF k, j
        <4>3. /\ full[i] = at[k] /\ full[i - 1] = at[j] /\ m[i] = b[k] /\ m[i - 1] = b[j]
          BY <1>3, <2>1, <4>1
        <4> QED
          BY <4>2, <4>3
      <3> QED
        BY <1>3, <3>1, <3>2, <3>3, <3>4
    <2> QED
      BY <1>3, <2>1, <2>2, <2>3 DEF Offsets
  <1>10. \A i \in 1..(3 + n) : At(m, i) = full[i] /\ Ends(m)[i] = full[i] + m[i].n
    <2> HIDE DEF full
    <2>1. \A i \in 1..Len(m) : At(m, i) = full[i] /\ Ends(m)[i] = full[i] + m[i].n
      BY <1>7, <1>9, TableIs
    <2> QED
      BY <1>3, <2>1
  <1>11. /\ 1 \in 1..(3 + n) /\ 2 \in 1..(3 + n) /\ 3 \in 1..(3 + n)
         /\ full[1] = 0 /\ full[2] = 2 /\ full[3] = 4 /\ \A i \in 1..n : full[3 + i] = at[i]
    BY <1>3
  <1> HIDE DEF full
  <1>12. /\ At(m, 1) = 0 /\ At(m, 2) = 2 /\ At(m, 3) = 4
         /\ Ends(m)[1] = 2 /\ Ends(m)[2] = 4 /\ Ends(m)[3] = 8
    BY <1>4, <1>10, <1>11
  <1>13. ASSUME NEW i \in 1..n
         PROVE  /\ m[3 + i] = b[i] /\ At(m, 3 + i) = at[i]
                /\ Ends(m)[3 + i] = at[i] + b[i].n
    <2>1. 3 + i \in 1..(3 + n)
      BY <1>3
    <2> QED
      BY <1>3, <1>10, <1>11, <2>1
  <1>14. Headed(m, b, at)
    BY <1>3, <1>4, <1>7, <1>8, <1>12, <1>13 DEF Headed, n
  <1> QED
    BY <1>14 DEF m

-----------------------------------------------------------------------------
(* parse.                                                                  *)

\* The bytes of a notification with these members, possibly cut at the end.
Notified(buf, m, b, at, val, little, code, type) ==
    /\ Headed(m, b, at) /\ Holding(buf, m, val, little)
    /\ {"sn_type", "flags"} \subseteq DOMAIN val
    /\ code \in Nat /\ val["sn_type"] = Field(code, 2) /\ SnType(code) = type

Fields_parsed(type, buf, little) ==
    [f \in DOMAIN FieldsOf(type).fixed \cup DOMAIN FieldsOf(type).var |->
        Converted(type, f, IF f \in DOMAIN FieldsOf(type).fixed
                           THEN Read(buf, FieldsOf(type).fixed[f], little)
                           ELSE tail(buf, FieldsOf(type).var[f]))]

\* The type is read correctly, and the fields are read if all of them are there.
LEMMA ParseIs ==
    ASSUME NEW buf, NEW m, NEW b, NEW at, NEW val, NEW little, NEW code, NEW type,
           Notified(buf, m, b, at, val, little, code, type),
           NEW least, LeastOK(FieldsOf(type).fixed, least)
    PROVE  /\ Len(buf) \in Nat
           /\ Len(buf) < least => parse(buf, little) = Truncated
           /\ Len(buf) >= least =>
                parse(buf, little) =
                    [ok |-> TRUE, type |-> type,
                     unsent |-> type \in {"SEND_FAILED", "SEND_FAILED_EVENT"}
                                /\ val["flags"] = Field(0, 2),
                     fields |-> Fields_parsed(type, buf, little)]
  <1> DEFINE fixed == FieldsOf(type).fixed
             read == SnType(Value(Slice(buf, 0, 2)))
  <1>1. /\ least \in Nat /\ least >= 4
        /\ \A f \in DOMAIN fixed : /\ fixed[f].at + fixed[f].n \in Nat
                                   /\ fixed[f].at + fixed[f].n <= least
        /\ \E f \in DOMAIN fixed : fixed[f].at + fixed[f].n = least
    BY DEF LeastOK
  <1>2. Headed(m, b, at) /\ Holding(buf, m, val, little)
    BY DEF Notified
  <1>3. Len(buf) \in Nat /\ buf \in Seq(Byte)
    BY <1>2, LenProperties DEF Holding
  <1>4. /\ 1 \in 1..Len(m) /\ 2 \in 1..Len(m) /\ m[1].name = "sn_type" /\ m[2].name = "flags"
        /\ Ends(m)[1] = 2 /\ Ends(m)[2] = 4 /\ At(m, 1) = 0 /\ At(m, 2) = 2
        /\ m[1].n = 2 /\ m[2].n = 2 /\ m[1].be = FALSE /\ m[2].be = FALSE
    BY <1>2 DEF Headed, Struct_OK
  <1>5. ASSUME Len(buf) >= 4 PROVE read = type /\ Read(buf, sn_flags, little) = val["flags"]
    <2>1. Read(buf, Spot(m, 1), little) = MemberValue(m, val, "sn_type")
      <3>1. Ends(m)[1] <= Len(buf)
        BY <1>3, <1>4, <1>5
      <3> QED
        BY <1>2, <1>4, <3>1, FieldThere
    <2>2. Read(buf, Spot(m, 2), little) = MemberValue(m, val, "flags")
      <3>1. Ends(m)[2] <= Len(buf)
        BY <1>3, <1>4, <1>5
      <3> QED
        BY <1>2, <1>4, <3>1, FieldThere
    <2>3. MemberValue(m, val, "sn_type") = Field(code, 2) /\ MemberValue(m, val, "flags") = val["flags"]
      BY DEF Notified, MemberValue
    <2>4. Read(buf, Spot(m, 1), little) = Slice(buf, 0, 2)
      BY <1>4 DEF Read, Spot
    <2>5. Spot(m, 2) = sn_flags
      BY <1>4 DEF Spot, sn_flags, u16_at
    <2>6. Value(Field(code, 2)) = code
      BY FieldHasValue DEF Notified, FieldValues
    <2> QED
      BY <2>1, <2>2, <2>3, <2>4, <2>5, <2>6 DEF Notified
  <1>6. ASSUME Len(buf) < least PROVE parse(buf, little) = Truncated
    <2>1. CASE Len(buf) < 4
      BY <2>1 DEF parse
    <2>2. CASE Len(buf) >= 4
      <3>1. read = type
        BY <1>5, <2>2
      <3>2. PICK f \in DOMAIN fixed : fixed[f].at + fixed[f].n = least
        BY <1>1
      <3>3. ~(fixed[f].at + fixed[f].n <= Len(buf))
        BY <1>1, <1>3, <1>6, <3>2
      <3>4. \E g \in DOMAIN FieldsOf(read).fixed :
                ~(FieldsOf(read).fixed[g].at + FieldsOf(read).fixed[g].n <= Len(buf))
        BY <3>1, <3>2, <3>3
      <3> QED
        BY <3>4 DEF parse
    <2> QED
      BY <1>3, <2>1, <2>2
  <1>7. ASSUME Len(buf) >= least
        PROVE  parse(buf, little) =
                    [ok |-> TRUE, type |-> type,
                     unsent |-> type \in {"SEND_FAILED", "SEND_FAILED_EVENT"}
                                /\ val["flags"] = Field(0, 2),
                     fields |-> Fields_parsed(type, buf, little)]
    <2>1. Len(buf) >= 4
      BY <1>1, <1>3, <1>7
    <2>2. read = type /\ Read(buf, sn_flags, little) = val["flags"]
      BY <1>5, <2>1
    <2>3. \A f \in DOMAIN fixed : fixed[f].at + fixed[f].n <= Len(buf)
      <3> SUFFICES ASSUME NEW f \in DOMAIN fixed PROVE fixed[f].at + fixed[f].n <= Len(buf)
        OBVIOUS
      <3> DEFINE e == fixed[f].at + fixed[f].n
      <3>1. e \in Nat /\ e <= least
        BY <1>1
      <3> QED
        BY <1>1, <1>3, <1>7, <3>1
    <2>4. ~(Len(buf) < 4 \/ \E f \in DOMAIN FieldsOf(read).fixed :
                ~(FieldsOf(read).fixed[f].at + FieldsOf(read).fixed[f].n <= Len(buf)))
      BY <1>3, <2>1, <2>2, <2>3
    <2>5. parse(buf, little) =
            [ok |-> TRUE, type |-> read,
             unsent |-> read \in {"SEND_FAILED", "SEND_FAILED_EVENT"}
                        /\ Read(buf, sn_flags, little) = Field(0, 2),
             fields |-> Fields_parsed(read, buf, little)]
      BY <2>4, Zenon DEF parse, Fields_parsed, SCTP_DATA_UNSENT
    <2> QED
      BY <2>2, <2>5, Zenon
  <1> QED
    BY <1>3, <1>6, <1>7

\* A field at a fixed offset is the member of its name.
LEMMA FixedRead ==
    ASSUME NEW buf, NEW m, NEW b, NEW at, NEW val, NEW little, NEW code, NEW type,
           Notified(buf, m, b, at, val, little, code, type),
           NEW fixed, FixedOK(fixed, b, at), NEW least, LeastOK(fixed, least),
           Len(buf) >= least, NEW f \in DOMAIN fixed
    PROVE  /\ Read(buf, fixed[f], little) = MemberValue(m, val, f)
           /\ f \in {"sn_type", "flags"} \/ \E i \in 1..Len(b) : b[i].name = f
  <1>1. Headed(m, b, at) /\ Holding(buf, m, val, little)
    BY DEF Notified
  <1>2. Len(buf) \in Nat /\ Len(m) \in Nat /\ Len(b) \in Nat /\ Len(m) = 3 + Len(b)
    <2>1. buf \in Seq(Byte)
      BY <1>1 DEF Holding
    <2> QED
      BY <1>1, <2>1, LenProperties DEF Headed, Struct_OK
  <1>3. /\ least \in Nat /\ fixed[f].at + fixed[f].n \in Nat
        /\ fixed[f].at + fixed[f].n <= least
    BY DEF LeastOK
  <1>4. CASE f = "flags" /\ fixed[f] = sn_flags
    <2>1. /\ 2 \in 1..Len(m) /\ m[2].name = "flags" /\ Ends(m)[2] = 4 /\ At(m, 2) = 2
          /\ m[2].n = 2 /\ m[2].be = FALSE
      BY <1>1, <1>2 DEF Headed
    <2>2. Spot(m, 2) = sn_flags
      BY <2>1 DEF Spot, sn_flags, u16_at
    <2>3. Ends(m)[2] <= Len(buf)
      BY <1>2, <1>3, <2>1 DEF LeastOK
    <2>4. Read(buf, Spot(m, 2), little) = MemberValue(m, val, m[2].name)
      BY <1>1, <2>1, <2>3, FieldThere
    <2> QED
      BY <1>4, <2>1, <2>2, <2>4
  <1>6. CASE f = "sn_type" /\ fixed[f] = sn_type
    <2>1. /\ 1 \in 1..Len(m) /\ m[1].name = "sn_type" /\ Ends(m)[1] = 2 /\ At(m, 1) = 0
          /\ m[1].n = 2 /\ m[1].be = FALSE
      BY <1>1, <1>2 DEF Headed
    <2>2. Spot(m, 1) = sn_type
      BY <2>1 DEF Spot, sn_type, u16_at
    <2>3. Ends(m)[1] <= Len(buf)
      BY <1>2, <1>3, <2>1 DEF LeastOK
    <2>4. Read(buf, Spot(m, 1), little) = MemberValue(m, val, m[1].name)
      BY <1>1, <2>1, <2>3, FieldThere
    <2> QED
      BY <1>6, <2>1, <2>2, <2>4
  <1>5. CASE \E i \in 1..Len(b) : b[i].name = f /\ fixed[f] = BodySpot(b, at, i)
    <2>1. PICK i \in 1..Len(b) : b[i].name = f /\ fixed[f] = BodySpot(b, at, i)
      BY <1>5
    <2> DEFINE k == 3 + i
    <2>2. /\ k \in 1..Len(m) /\ m[k] = b[i] /\ At(m, k) = at[i] /\ Ends(m)[k] = at[i] + b[i].n
      BY <1>1, <1>2 DEF Headed
    <2> HIDE DEF k
    <2>3. Spot(m, k) = fixed[f]
      BY <2>1, <2>2 DEF Spot, BodySpot
    <2>4. fixed[f].at = at[i] /\ fixed[f].n = b[i].n
      BY <2>1 DEF BodySpot
    <2>5. Ends(m)[k] <= Len(buf)
      BY <1>2, <1>3, <2>2, <2>4
    <2>6. Read(buf, Spot(m, k), little) = MemberValue(m, val, m[k].name)
      BY <1>1, <2>2, <2>5, FieldThere
    <2> QED
      BY <2>1, <2>2, <2>3, <2>6
  <1> QED
    BY <1>4, <1>5, <1>6 DEF FixedOK

\* The beginning of a beginning.
LEMMA BeginningOf ==
    ASSUME NEW s \in Seq(Byte), NEW h \in Nat, h <= Len(s), NEW k \in Nat, k <= h
    PROVE  SubSeq(SubSeq(s, 1, h), 1, k) = SubSeq(s, 1, k)
  <1> DEFINE t == SubSeq(s, 1, h)
             u == SubSeq(t, 1, k)
             w == SubSeq(s, 1, k)
  <1>1. Len(s) \in Nat
    BY LenProperties
  <1>2. t \in Seq(Byte) /\ Len(t) = h /\ \A i \in 1..h : t[i] = s[i]
    BY Beginning DEF Prefix
  <1>3. w \in Seq(Byte) /\ Len(w) = k /\ \A i \in 1..k : w[i] = s[i]
    BY <1>1, Beginning DEF Prefix
  <1> HIDE DEF t, w
  <1>4. u \in Seq(Byte) /\ Len(u) = k /\ \A i \in 1..k : u[i] = t[i]
    BY <1>2, Beginning DEF Prefix
  <1> HIDE DEF u
  <1>5. u = w
    BY <1>2, <1>3, <1>4, SeqEqual
  <1> QED
    BY <1>5 DEF t, u, w

\* What lies behind the fixed fields is the beginning of the last member.
LEMMA VarRead ==
    ASSUME NEW buf, NEW m, NEW b, NEW at, NEW val, NEW little, NEW code, NEW type,
           Notified(buf, m, b, at, val, little, code, type),
           NEW var, NEW least \in Nat, VarOK(var, b, at, least), Len(buf) >= least,
           NEW f \in DOMAIN var, NEW here, here = Len(buf) - At(m, Named(m, f))
    PROVE  /\ MemberValue(m, val, f) \in Seq(Byte)
           /\ here \in Nat /\ here <= Len(MemberValue(m, val, f))
           /\ tail(buf, var[f]) = SubSeq(MemberValue(m, val, f), 1, here)
  <1> DEFINE i == Len(m)
             v == MemberValue(m, val, f)
             img == Image(m, val, little)
             t == tail(buf, least)
             w == SubSeq(v, 1, here)
  <1>1. Headed(m, b, at) /\ Holding(buf, m, val, little)
    BY DEF Notified
  <1>2. /\ Struct_OK(m) /\ Distinct(m) /\ Widths(m, val) /\ little \in BOOLEAN
        /\ buf \in Seq(Byte) /\ Len(buf) <= Len(img) /\ \A j \in 1..Len(buf) : img[j] = buf[j]
    BY <1>1 DEF Holding, Prefix
  <1>3. /\ Len(buf) \in Nat /\ Len(m) \in Nat /\ Len(b) \in Nat \ {0}
        /\ i \in 1..Len(m) /\ i = 3 + Len(b) /\ Len(b) \in 1..Len(b)
    BY <1>1, <1>2, LenProperties DEF Headed, Struct_OK
  <1>4. /\ var[f] = least /\ at[Len(b)] = least
        /\ b[Len(b)].name = f /\ b[Len(b)].be = FALSE
    BY DEF VarOK
  <1>5. /\ m[i] = b[Len(b)] /\ At(m, i) = least /\ Ends(m)[i] = least + m[i].n
    BY <1>1, <1>3, <1>4 DEF Headed
  <1>6. m[i].name = f /\ m[i].be = FALSE /\ m[i].n \in Nat
    BY <1>2, <1>3, <1>4, <1>5 DEF Struct_OK
  <1>7. Named(m, f) = i
    BY <1>2, <1>3, <1>6, NamedIs
  <1>8. v \in Seq(Byte) /\ Len(v) = m[i].n /\ Valued(m, val)
    BY <1>2, <1>3, <1>6, Filling DEF Valued
  <1>9. Ordered(m, val, i, little) = v
    BY <1>6 DEF Ordered
  <1>10. /\ img \in Seq(Byte) /\ Len(img) = least + m[i].n
         /\ \A j \in 1..m[i].n : img[least + j] = v[j]
    <2>1. /\ img \in Seq(Byte) /\ Len(img) = Ends(m)[i]
          /\ \A j \in 1..m[i].n : img[At(m, i) + j] = Ordered(m, val, i, little)[j]
      BY <1>2, <1>3, <1>8, ImageIs, SMTT(30)
    <2> QED
      BY <1>5, <1>9, <2>1
  <1> DEFINE l == m[i].n
  <1> HIDE DEF v, img, i, l
  <1>11. /\ here \in Nat /\ here = Len(buf) - least /\ here <= Len(v)
    BY <1>2, <1>3, <1>5, <1>6, <1>7, <1>8, <1>10 DEF l
  <1>12. /\ t \in Seq(Byte) /\ Len(t) = here /\ \A j \in 1..here : t[j] = buf[least + j]
    <2>1. tail(buf, least) = Drop(buf, least)
      BY DEF tail, Drop
    <2>2. least <= Len(buf)
      BY <1>3
    <2>3. /\ Drop(buf, least) \in Seq(Byte) /\ Len(Drop(buf, least)) = Len(buf) - least
          /\ \A j \in 1..(Len(buf) - least) : Drop(buf, least)[j] = buf[least + j]
      BY <1>2, <2>2, Rest
    <2> QED
      BY <1>11, <2>1, <2>3
  <1>13. /\ w \in Seq(Byte) /\ Len(w) = here /\ \A j \in 1..here : w[j] = v[j]
    BY <1>8, <1>11, Beginning DEF Prefix
  <1> HIDE DEF t, w
  <1>14. ASSUME NEW j \in 1..here PROVE t[j] = w[j]
    <2>1. j \in 1..l /\ least + j \in 1..Len(buf)
      BY <1>3, <1>8, <1>11 DEF l
    <2> QED
      BY <1>2, <1>10, <1>12, <1>13, <2>1 DEF l
  <1>15. t = w
    BY <1>12, <1>13, <1>14, SeqEqual
  <1> QED
    BY <1>4, <1>8, <1>11, <1>15 DEF v, t, w

-----------------------------------------------------------------------------
(* A notification as the kernel writes it.                                 *)

\* The state that the kernel writes is read as it is meant.
LEMMA StateIs ==
    ASSUME NEW type, NEW state \in DOMAIN StateOf(type)
    PROVE  /\ StateOf(type)[state] \in Nat
           /\ type = "ASSOC_CHANGE" =>
                AssocChangeState_from_raw(Field(StateOf(type)[state], 2)) = <<state>>
           /\ type = "PEER_ADDR_CHANGE" =>
                PeerAddrChangeState_from_raw(Field(StateOf(type)[state], 4)) = <<state>>
  <1>1. CASE type = "ASSOC_CHANGE"
    BY <1>1, SacState DEF StateOf
  <1>2. CASE type = "PEER_ADDR_CHANGE"
    BY <1>2, SpcState DEF StateOf
  <1>3. CASE type # "ASSOC_CHANGE" /\ type # "PEER_ADDR_CHANGE"
    BY <1>3 DEF StateOf
  <1> QED
    BY <1>1, <1>2, <1>3

\* The values given for a notification are its type, flags, address and state.
LEMMA ValuesAre ==
    ASSUME NEW type, NEW code, NEW flags, NEW addr, NEW state, NEW val,
           val = Values(type, code, flags, addr, state)
    PROVE  /\ DOMAIN val = {"sn_type", "flags", "address", "state"}
           /\ val["sn_type"] = Field(code, 2) /\ val["flags"] = Field(flags, 2)
           /\ val["address"] = KernelStorage(addr)
           /\ val["state"] = Field(StateOf(type)[state], IF type = "ASSOC_CHANGE" THEN 2 ELSE 4)
  <1>1. DOMAIN val = {"sn_type", "flags", "address", "state"}
    BY DEF Values
  <1>2. /\ val["sn_type"] = Field(code, 2) /\ val["flags"] = Field(flags, 2)
        /\ val["address"] = KernelStorage(addr)
        /\ val["state"] = Field(StateOf(type)[state], IF type = "ASSOC_CHANGE" THEN 2 ELSE 4)
    BY DEF Values
  <1> QED
    BY <1>1, <1>2

\* They have the width of their members.
LEMMA ValuesFit ==
    ASSUME NEW type, NEW m, NEW b, NEW at, Headed(m, b, at), SpecialOK(type, b),
           NEW code \in Nat, NEW flags \in Nat, NEW addr \in MaybeAddress,
           NEW state \in DOMAIN StateOf(type)
    PROVE  Widths(m, Values(type, code, flags, addr, state))
  <1> DEFINE val == Values(type, code, flags, addr, state)
             w == IF type = "ASSOC_CHANGE" THEN 2 ELSE 4
  <1>1. DOMAIN val = {"sn_type", "flags", "address", "state"}
    BY ValuesAre
  <1>2. /\ val["sn_type"] = Field(code, 2) /\ val["flags"] = Field(flags, 2)
        /\ val["address"] = KernelStorage(addr)
        /\ val["state"] = Field(StateOf(type)[state], w)
    BY ValuesAre
  <1> HIDE DEF val
  <1>3. /\ val["sn_type"] \in Seq(Byte) /\ Len(val["sn_type"]) = 2
        /\ val["flags"] \in Seq(Byte) /\ Len(val["flags"]) = 2
    <2>1. code \in FieldValues /\ flags \in FieldValues
      BY DEF FieldValues
    <2> QED
      BY <1>2, <2>1, FirstField
  <1>4. val["address"] \in Seq(Byte) /\ Len(val["address"]) = 128
    BY <1>2, StorageReads
  <1>5. val["state"] \in Seq(Byte) /\ Len(val["state"]) = w
    <2>1. StateOf(type)[state] \in FieldValues /\ w \in Nat
      BY StateIs DEF FieldValues
    <2> HIDE DEF w
    <2> QED
      BY <1>2, <2>1, FieldIsSeq
  <1> HIDE DEF w
  <1>6. ASSUME NEW i \in 1..Len(m), m[i].name \in DOMAIN val
        PROVE  val[m[i].name] \in Seq(Byte) /\ Len(val[m[i].name]) = m[i].n
    <2>1. CASE i = 1
      BY <1>3, <2>1 DEF Headed
    <2>2. CASE i = 2
      BY <1>3, <2>2 DEF Headed
    <2>3. CASE i = 3
      BY <1>1, <1>6, <2>3 DEF Headed
    <2>4. CASE i > 3
      <3> DEFINE k == i - 3
      <3>1. k \in 1..Len(b) /\ i = 3 + k
        BY <2>4 DEF Headed
      <3> HIDE DEF k
      <3>2. m[i] = b[k]
        BY <3>1 DEF Headed
      <3>3. CASE b[k].name = "address"
        BY <1>4, <3>1, <3>2, <3>3, ZenonT(30) DEF SpecialOK
      <3>4. CASE b[k].name = "state"
        BY <1>5, <3>1, <3>2, <3>4 DEF SpecialOK, w
      <3>5. CASE b[k].name \in {"sn_type", "flags"}
        <4>1. 1 \in 1..Len(m) /\ 2 \in 1..Len(m) /\ m[1].name = "sn_type" /\ m[2].name = "flags"
          BY DEF Headed
        <4>2. i = 1 \/ i = 2
          BY <3>2, <3>5, <4>1 DEF Headed, Distinct
        <4> QED
          BY <2>1, <2>2, <4>2
      <3> QED
        BY <1>1, <1>6, <3>2, <3>3, <3>4, <3>5
    <2> QED
      BY <2>1, <2>2, <2>3, <2>4
  <1> QED
    BY <1>6 DEF Widths, val

\* The length of a notification that has all fields.
LEMMA MinimumIs ==
    ASSUME NEW type, type # "UNKNOWN", NEW m, NEW b, NEW at, Headed(m, b, at),
           NEW least, LastOK(b, at, least)
    PROVE  Minimum(type, m) = least
  <1> DEFINE fixed == {i \in 1..Len(m) : m[i].name \notin Flexible}
             Last(i) == i \in fixed /\ \A j \in fixed : j <= i
  <1>1. PICK k \in 1..Len(b) : /\ b[k].name \notin Flexible /\ at[k] + b[k].n = least
                               /\ \A i \in 1..Len(b) : i > k => b[i].name \in Flexible
    BY DEF LastOK
  <1>2. Len(b) \in Nat /\ Len(m) = 3 + Len(b) /\ \A i \in 1..Len(b) : m[3 + i] = b[i]
    BY DEF Headed
  <1> DEFINE l == 3 + k
  <1>3. l \in 1..Len(m) /\ m[l] = b[k]
    BY <1>2
  <1>4. ASSUME NEW j \in fixed PROVE j <= l
    <2> SUFFICES ASSUME j > l PROVE FALSE
      BY <1>2
    <2> DEFINE i == j - 3
    <2>1. i \in 1..Len(b) /\ i > k /\ j = 3 + i
      BY <1>2
    <2> HIDE DEF i
    <2>2. m[j] = b[i] /\ b[i].name \in Flexible
      BY <1>1, <1>2, <2>1
    <2> QED
      BY <2>2
  <1>5. Last(l)
    BY <1>1, <1>3, <1>4
  <1> DEFINE c == CHOOSE i \in fixed : \A j \in fixed : j <= i
  <1>6. c \in fixed /\ \A j \in fixed : j <= c
    BY <1>5, Zenon
  <1> HIDE DEF c
  <1>7. c = l
    BY <1>2, <1>3, <1>5, <1>6
  <1>8. Minimum(type, m) = Ends(m)[c]
    BY DEF Minimum, c
  <1>9. Ends(m)[l] = least
    BY <1>1 DEF Headed
  <1> QED
    BY <1>7, <1>8, <1>9

\* A notification of this type, with these values.
Sent(buf, m, b, at, val, little, type, code, flags, addr, state) ==
    /\ Notified(buf, m, b, at, val, little, code, type) /\ SpecialOK(type, b)
    /\ flags \in Nat /\ addr \in MaybeAddress /\ state \in DOMAIN StateOf(type)
    /\ val = Values(type, code, flags, addr, state)

\* The field that parse makes of a member at a fixed offset.
LEMMA FixedWanted ==
    ASSUME NEW buf, NEW m, NEW b, NEW at, NEW val, NEW little, NEW type, NEW code, NEW flags,
           NEW addr, NEW state, Sent(buf, m, b, at, val, little, type, code, flags, addr, state),
           NEW fixed, FixedOK(fixed, b, at), NEW least, LeastOK(fixed, least),
           Len(buf) >= least, NEW f \in DOMAIN fixed
    PROVE  Converted(type, f, Read(buf, fixed[f], little))
            = FieldWanted(type, m, val, buf, addr, state, f)
  <1> DEFINE v == MemberValue(m, val, f)
  <1> USE DEF Sent
  <1>1. Read(buf, fixed[f], little) = v 
        /\ (f \in {"sn_type", "flags"} \/ \E i \in 1..Len(b) : b[i].name = f)
    BY FixedRead
  <1>2. f \notin Flexible
    BY DEF LeastOK
  <1> DEFINE w == IF type = "ASSOC_CHANGE" THEN 2 ELSE 4
  <1>6. /\ "address" \in DOMAIN val /\ val["address"] = KernelStorage(addr)
        /\ "state" \in DOMAIN val /\ val["state"] = Field(StateOf(type)[state], w)
    BY ValuesAre
  <1>3. CASE f = "address"
    <2>1. v = KernelStorage(addr)
      BY <1>3, <1>6, Zenon DEF MemberValue
    <2>2. Converted(type, f, v) = read_sockaddr(v)
      BY <1>3 DEF Converted
    <2>3. FieldWanted(type, m, val, buf, addr, state, f) = Known(addr)
      BY <1>3 DEF FieldWanted, Flexible
    <2> QED
      BY <1>1, <2>1, <2>2, <2>3, StorageReads
  <1>4. CASE f = "state"
    <2>1. PICK i \in 1..Len(b) : b[i].name = "state"
      BY <1>1, <1>4
    <2>2. type \in {"ASSOC_CHANGE", "PEER_ADDR_CHANGE"}
      BY <2>1 DEF SpecialOK
    <2>3. v = Field(StateOf(type)[state], w)
      BY <1>4, <1>6, Zenon DEF MemberValue
    <2>4. FieldWanted(type, m, val, buf, addr, state, f) = <<state>>
      BY <1>4 DEF FieldWanted, Flexible
    <2> HIDE DEF v
    <2>5. CASE type = "ASSOC_CHANGE"
      <3>1. Converted(type, f, v) = AssocChangeState_from_raw(v)
        BY <1>4, <2>5 DEF Converted
      <3> QED
        BY <1>1, <2>3, <2>4, <2>5, <3>1, StateIs
    <2>6. CASE type = "PEER_ADDR_CHANGE"
      <3>1. Converted(type, f, v) = PeerAddrChangeState_from_raw(v)
        BY <1>4, <2>6 DEF Converted
      <3> QED
        BY <1>1, <2>3, <2>4, <2>6, <3>1, StateIs
    <2> QED
      BY <2>2, <2>5, <2>6
  <1>5. CASE f # "address" /\ f # "state"
    <2>1. Converted(type, f, v) = v
      BY <1>2, <1>5 DEF Converted, Flexible
    <2>2. FieldWanted(type, m, val, buf, addr, state, f) = v
      BY <1>2, <1>5 DEF FieldWanted, Flexible
    <2> QED
      BY <1>1, <2>1, <2>2
  <1> QED
    BY <1>3, <1>4, <1>5

\* The field that parse makes of the flexible member.
LEMMA VarWanted ==
    ASSUME NEW buf, NEW m, NEW b, NEW at, NEW val, NEW little, NEW type, NEW code, NEW flags,
           NEW addr, NEW state, Sent(buf, m, b, at, val, little, type, code, flags, addr, state),
           type # "UNKNOWN", NEW var, NEW least \in Nat, VarOK(var, b, at, least), Len(buf) >= least,
           NEW f \in DOMAIN var
    PROVE  Converted(type, f, tail(buf, var[f]))
            = FieldWanted(type, m, val, buf, addr, state, f)
  <1> DEFINE here == Len(buf) - At(m, Named(m, f))
             v == MemberValue(m, val, f)
             t == tail(buf, var[f])
             k == 2 * (here \div 2)
  <1>1. v \in Seq(Byte) /\ here \in Nat /\ here <= Len(v) /\ t = SubSeq(v, 1, here)
    BY VarRead DEF Sent
  <1>2. f \in Flexible
    BY DEF VarOK
  <1>3. FieldWanted(type, m, val, buf, addr, state, f)
            = SubSeq(v, 1, IF f = "streams" THEN here - (here % 2) ELSE here)
    BY <1>2 DEF FieldWanted, Flexible
  <1> HIDE DEF t, v, here
  <1>4. CASE f = "streams"
    <2>1. Len(t) = here
      BY <1>1, Beginning
    <2>2. Converted(type, f, t) = SubSeq(t, 1, 2 * (Len(t) \div 2))
      BY <1>4 DEF Converted
    <2>3. k \in Nat /\ k <= here /\ k = here - (here % 2)
      BY <1>1
    <2> HIDE DEF k
    <2>4. SubSeq(SubSeq(v, 1, here), 1, k) = SubSeq(v, 1, k)
      BY <1>1, <2>3, BeginningOf
    <2>5. Converted(type, f, t) = SubSeq(t, 1, k)
      BY <2>1, <2>2 DEF k
    <2> QED
      BY <1>1, <1>3, <1>4, <2>3, <2>4, <2>5 DEF t
  <1>5. CASE f # "streams"
    <2>1. Converted(type, f, t) = t
      BY <1>2, <1>5 DEF Converted, Flexible
    <2> QED
      BY <1>1, <1>3, <1>5, <2>1 DEF t
  <1> QED
    BY <1>4, <1>5

\* A notification that may have been cut.
LEMMA SentIs ==
    ASSUME NEW type, NEW b, NEW at, IsList(b), BodyOK(b, at), SpecialOK(type, b),
           NEW code \in Nat, SnType(code) = type, NEW flags \in Nat, NEW addr \in MaybeAddress,
           NEW state \in DOMAIN StateOf(type), NEW little \in BOOLEAN, NEW cut \in Nat,
           NEW m, m = Header \o b, NEW val, val = Values(type, code, flags, addr, state),
           NEW bytes, bytes = Image(m, val, little),
           NEW buf, buf = SubSeq(bytes, 1, Len(bytes) - cut)
    PROVE  Sent(buf, m, b, at, val, little, type, code, flags, addr, state)
  <1>1. Headed(m, b, at)
    BY HeaderFirst
  <1>2. Widths(m, val)
    BY <1>1, ValuesFit
  <1>3. Struct_OK(m) /\ Distinct(m)
    BY <1>1 DEF Headed
  <1>4. Valued(m, val)
    BY <1>2, <1>3, Filling
  <1>5. bytes \in Seq(Byte)
    BY <1>3, <1>4, ImageIs
  <1>6. Len(bytes) \in Nat
    BY <1>5, LenProperties
  <1>7. buf \in Seq(Byte) /\ Prefix(buf, bytes)
    <2> DEFINE l == Len(bytes) - cut
    <2>1. l \in Int /\ l <= Len(bytes)
      BY <1>6
    <2> HIDE DEF l
    <2>2. SubSeq(bytes, 1, l) \in Seq(Byte) /\ Prefix(SubSeq(bytes, 1, l), bytes)
      BY <1>5, <2>1, Beginning
    <2> QED
      BY <2>2 DEF l
  <1>8. Holding(buf, m, val, little)
    BY <1>2, <1>3, <1>7 DEF Holding
  <1>9. {"sn_type", "flags"} \subseteq DOMAIN val /\ val["sn_type"] = Field(code, 2)
    BY ValuesAre
  <1> QED
    BY <1>1, <1>8, <1>9 DEF Notified, Sent

\* The flags of a notification that says whether data was sent.
LEMMA UnsentIs ==
    ASSUME NEW flags \in Nat
    PROVE  (Field(flags, 2) = Field(0, 2)) <=> (flags = 0)
  <1>1. Field(flags, 2)[1] = <<flags, 1>> /\ Field(0, 2)[1] = <<0, 1>>
    BY DEF Field
  <1> QED
    BY <1>1

\* Every field is as wanted.
AllWanted(type, m, val, buf, little, addr, state) ==
    \A f \in DOMAIN FieldsOf(type).fixed \cup DOMAIN FieldsOf(type).var :
        Fields_parsed(type, buf, little)[f] = FieldWanted(type, m, val, buf, addr, state, f)

\* If each field is as wanted, parse returns what ParseWanted says.
LEMMA WholeWanted ==
    ASSUME NEW buf, NEW m, NEW b, NEW at, NEW val, NEW little, NEW type, NEW code, NEW flags,
           NEW addr, NEW state, Sent(buf, m, b, at, val, little, type, code, flags, addr, state),
           NEW least, LeastOK(FieldsOf(type).fixed, least), Minimum(type, m) = least,
           Len(buf) >= least => AllWanted(type, m, val, buf, little, addr, state)
    PROVE  parse(buf, little) = ParseWanted(type, m, val, buf, flags, addr, state,
                                            parse(buf, little))
  <1> DEFINE got == parse(buf, little)
             D == DOMAIN FieldsOf(type).fixed \cup DOMAIN FieldsOf(type).var
             p == Fields_parsed(type, buf, little)
             w == [f \in D |-> FieldWanted(type, m, val, buf, addr, state, f)]
             u == type \in {"SEND_FAILED", "SEND_FAILED_EVENT"} /\ flags = 0
             x == type \in {"SEND_FAILED", "SEND_FAILED_EVENT"} /\ val["flags"] = Field(0, 2)
  <1>5. /\ Notified(buf, m, b, at, val, little, code, type)
        /\ flags \in Nat /\ val["flags"] = Field(flags, 2)
    BY ValuesAre DEF Sent
  <1>1. /\ Len(buf) \in Nat
        /\ Len(buf) < least => got = Truncated
        /\ Len(buf) >= least => got = [ok |-> TRUE, type |-> type, unsent |-> x, fields |-> p]
    BY <1>5, ParseIs
  <1>2. least \in Nat
    BY DEF LeastOK
  <1>3. CASE Len(buf) < least
    BY <1>1, <1>3 DEF ParseWanted
  <1>4. CASE Len(buf) >= least
    <2>1. x = u
      BY <1>5, UnsentIs
    <2>2. DOMAIN p = D /\ p = [f \in D |-> p[f]]
      BY DEF Fields_parsed
    <2>3. p = w
      BY <1>4, <2>2 DEF AllWanted
    <2>4. got = [ok |-> TRUE, type |-> type, unsent |-> u, fields |-> p]
      BY <1>1, <1>4, <2>1
    <2> HIDE DEF got, p, D, u
    <2>5. DOMAIN got.fields = D
      BY <2>2, <2>4
    <2>6. ParseWanted(type, m, val, buf, flags, addr, state, got)
            = [ok |-> TRUE, type |-> type, unsent |-> u, fields |-> w]
      <3>1. ~(Len(buf) < Minimum(type, m))
        BY <1>1, <1>2, <1>4
      <3> QED
        BY <2>5, <3>1 DEF ParseWanted, u
    <2> QED
      BY <2>3, <2>4, <2>6 DEF got
  <1> QED
    BY <1>1, <1>2, <1>3, <1>4

\* The fields of a notification of a known type are as wanted.
LEMMA KnownWanted ==
    ASSUME NEW buf, NEW m, NEW b, NEW at, NEW val, NEW little, NEW type, NEW code, NEW flags,
           NEW addr, NEW state, Sent(buf, m, b, at, val, little, type, code, flags, addr, state),
           type # "UNKNOWN", NEW least, LaidOut(type, b, at, least), Len(buf) >= least
    PROVE  AllWanted(type, m, val, buf, little, addr, state)
  <1> DEFINE fixed == FieldsOf(type).fixed
             var == FieldsOf(type).var
             p == Fields_parsed(type, buf, little)
  <1>1. /\ FixedOK(fixed, b, at) /\ LeastOK(fixed, least) /\ VarOK(var, b, at, least)
        /\ least \in Nat
    BY DEF LaidOut, LeastOK
  <1>2. ASSUME NEW f \in DOMAIN fixed \cup DOMAIN var
        PROVE  p[f] = FieldWanted(type, m, val, buf, addr, state, f)
    <2>1. CASE f \in DOMAIN fixed
      <3>1. p[f] = Converted(type, f, Read(buf, fixed[f], little))
        BY <2>1 DEF Fields_parsed
      <3>2. Converted(type, f, Read(buf, fixed[f], little))
                = FieldWanted(type, m, val, buf, addr, state, f)
        <4> HIDE DEF fixed
        <4> QED
          BY <1>1, <2>1, FixedWanted
      <3> QED
        BY <3>1, <3>2
    <2>2. CASE f \notin DOMAIN fixed
      <3>1. p[f] = Converted(type, f, tail(buf, var[f]))
        BY <1>2, <2>2 DEF Fields_parsed
      <3>2. Converted(type, f, tail(buf, var[f]))
                = FieldWanted(type, m, val, buf, addr, state, f)
        <4> HIDE DEF var
        <4> QED
          BY <1>1, <1>2, <2>2, VarWanted
      <3> QED
        BY <3>1, <3>2
    <2> QED
      BY <2>1, <2>2
  <1> QED
    BY <1>2 DEF AllWanted

\* A notification of a known type, cut or not.
LEMMA KnownParsed ==
    ASSUME NEW buf, NEW m, NEW b, NEW at, NEW val, NEW little, NEW type, NEW code, NEW flags,
           NEW addr, NEW state, Sent(buf, m, b, at, val, little, type, code, flags, addr, state),
           type # "UNKNOWN", NEW least, LaidOut(type, b, at, least)
    PROVE  parse(buf, little) = ParseWanted(type, m, val, buf, flags, addr, state,
                                            parse(buf, little))
  <1>1. LeastOK(FieldsOf(type).fixed, least) /\ LastOK(b, at, least)
    BY DEF LaidOut
  <1>2. Headed(m, b, at)
    BY DEF Sent, Notified
  <1>3. Minimum(type, m) = least
    BY <1>1, <1>2, MinimumIs
  <1>4. Len(buf) >= least => AllWanted(type, m, val, buf, little, addr, state)
    BY KnownWanted
  <1> QED
    BY <1>1, <1>3, <1>4, WholeWanted

\* Of a notification of an unknown type, the flags and all bytes are kept.
LEMMA UnknownLaidOut ==
    ASSUME NEW n \in Nat
    PROVE  /\ IsList(Body("UNKNOWN", n)) /\ BodyOK(Body("UNKNOWN", n), <<8>>)
           /\ SpecialOK("UNKNOWN", Body("UNKNOWN", n))
           /\ FixedOK(FieldsOf("UNKNOWN").fixed, Body("UNKNOWN", n), <<8>>)
           /\ LeastOK(FieldsOf("UNKNOWN").fixed, 4)
           /\ FieldsOf("UNKNOWN").fixed = [sn_type |-> sn_type, flags |-> sn_flags]
           /\ FieldsOf("UNKNOWN").var = [data |-> 0]
  <1> DEFINE b == Body("UNKNOWN", n)
             at == <<8>>
             fixed == FieldsOf("UNKNOWN").fixed
  <1>1. b = <<Blob("unknown", n, 1)>>
    BY DEF Body
  <1>2. fixed = [sn_type |-> sn_type, flags |-> sn_flags] /\ FieldsOf("UNKNOWN").var = [data |-> 0]
    BY DEF FieldsOf
  <1>3. DOMAIN fixed = {"sn_type", "flags"} /\ fixed["flags"] = sn_flags
        /\ fixed["sn_type"] = sn_type
    BY <1>2
  <1>4. /\ Len(b) = 1 /\ b[1].name = "unknown" /\ b[1].n = n /\ b[1].a = 1
        /\ Len(at) = 1 /\ at[1] = 8 /\ DOMAIN b = 1..Len(b)
    BY <1>1 DEF Blob, Member
  <1>5. IsList(b)
    BY <1>1 DEF IsList
  <1>6. \A i \in 1..1 : i = 1
    OBVIOUS
  <1> HIDE DEF b, at, fixed
  <1>7. BodyOK(b, at)
    BY <1>4, <1>5, <1>6 DEF BodyOK, RoundUp, IsList, Distinct
  <1>8. SpecialOK("UNKNOWN", b)
    BY <1>4, <1>6 DEF SpecialOK, Flexible
  <1>9. FixedOK(fixed, b, at)
    BY <1>3 DEF FixedOK
  <1>10. LeastOK(fixed, 4)
    BY <1>3 DEF LeastOK, Flexible, sn_flags, sn_type, u16_at
  <1> QED
    BY <1>2, <1>5, <1>7, <1>8, <1>9, <1>10 DEF b, at, fixed

\* They are as wanted.
LEMMA UnknownWanted ==
    ASSUME NEW buf, NEW m, NEW b, NEW at, NEW val, NEW little, NEW code, NEW flags,
           NEW addr, NEW state, Sent(buf, m, b, at, val, little, "UNKNOWN", code, flags, addr, state),
           FixedOK(FieldsOf("UNKNOWN").fixed, b, at), LeastOK(FieldsOf("UNKNOWN").fixed, 4),
           FieldsOf("UNKNOWN").fixed = [sn_type |-> sn_type, flags |-> sn_flags],
           FieldsOf("UNKNOWN").var = [data |-> 0], Len(buf) >= 4
    PROVE  AllWanted("UNKNOWN", m, val, buf, little, addr, state)
  <1> DEFINE fixed == FieldsOf("UNKNOWN").fixed
             var == FieldsOf("UNKNOWN").var
             p == Fields_parsed("UNKNOWN", buf, little)
  <1>1. DOMAIN fixed = {"sn_type", "flags"} /\ DOMAIN var = {"data"} /\ var["data"] = 0
    OBVIOUS
  <1>2. ASSUME NEW f \in DOMAIN fixed \cup DOMAIN var
        PROVE  p[f] = FieldWanted("UNKNOWN", m, val, buf, addr, state, f)
    <2>1. CASE f \in DOMAIN fixed
      <3>1. p[f] = Converted("UNKNOWN", f, Read(buf, fixed[f], little))
        BY <2>1 DEF Fields_parsed
      <3>2. Converted("UNKNOWN", f, Read(buf, fixed[f], little))
                = FieldWanted("UNKNOWN", m, val, buf, addr, state, f)
        <4> HIDE DEF fixed
        <4> QED
          BY <2>1, FixedWanted DEF fixed
      <3> QED
        BY <3>1, <3>2
    <2>2. CASE f = "data"
      <3>1. p[f] = Converted("UNKNOWN", f, tail(buf, 0))
        BY <1>1, <2>2 DEF Fields_parsed
      <3>2. tail(buf, 0) = buf
        <4>1. buf \in Seq(Byte)
          BY DEF Sent, Notified, Holding
        <4> QED
          BY <4>1 DEF tail
      <3>3. Converted("UNKNOWN", f, buf) = buf
        BY <2>2 DEF Converted
      <3>4. FieldWanted("UNKNOWN", m, val, buf, addr, state, f) = buf
        BY <2>2 DEF FieldWanted
      <3> QED
        BY <3>1, <3>2, <3>3, <3>4
    <2> QED
      BY <1>1, <1>2, <2>1, <2>2
  <1> QED
    BY <1>2 DEF AllWanted

\* A notification of an unknown type, cut or not.
LEMMA UnknownParsed ==
    ASSUME NEW buf, NEW m, NEW b, NEW at, NEW val, NEW little, NEW code, NEW flags,
           NEW addr, NEW state, Sent(buf, m, b, at, val, little, "UNKNOWN", code, flags, addr, state),
           FixedOK(FieldsOf("UNKNOWN").fixed, b, at), LeastOK(FieldsOf("UNKNOWN").fixed, 4),
           FieldsOf("UNKNOWN").fixed = [sn_type |-> sn_type, flags |-> sn_flags],
           FieldsOf("UNKNOWN").var = [data |-> 0]
    PROVE  parse(buf, little) = ParseWanted("UNKNOWN", m, val, buf, flags, addr, state,
                                            parse(buf, little))
  <1>1. Len(buf) >= 4 => AllWanted("UNKNOWN", m, val, buf, little, addr, state)
    BY UnknownWanted
  <1>2. Minimum("UNKNOWN", m) = 4
    <2> DEFINE c == CHOOSE i \in {1, 2} : \A j \in {1, 2} : j <= i
    <2>1. c = 2
      OBVIOUS
    <2>2. Minimum("UNKNOWN", m) = Ends(m)[c]
      BY DEF Minimum
    <2>3. Ends(m)[2] = 4
      BY DEF Sent, Notified, Headed
    <2> QED
      BY <2>1, <2>2, <2>3
  <1> QED
    BY <1>1, <1>2, WholeWanted

\* Every type the kernel knows has a layout that parse agrees with.
LEMMA TypesLaidOut ==
    ASSUME NEW k \in 1..13, NEW n \in Nat
    PROVE  \E at, least : LaidOut(SnTypes[k], Body(SnTypes[k], n), at, least)
  <1>1. CASE k = 1
    BY <1>1, AssocChangeLaidOut DEF SnTypes
  <1>2. CASE k = 2
    BY <1>2, PeerAddrChangeLaidOut DEF SnTypes
  <1>3. CASE k = 3
    BY <1>3, SendFailedLaidOut DEF SnTypes
  <1>4. CASE k = 4
    BY <1>4, RemoteErrorLaidOut DEF SnTypes
  <1>5. CASE k = 5 \/ k = 9
    <2>1. SnTypes[k] \in {"SHUTDOWN_EVENT", "SENDER_DRY_EVENT"}
      BY <1>5 DEF SnTypes
    <2> QED
      BY <2>1, ShutdownLaidOut
  <1>6. CASE k = 6
    BY <1>6, PartialDeliveryLaidOut DEF SnTypes
  <1>7. CASE k = 7
    BY <1>7, AdaptationLaidOut DEF SnTypes
  <1>8. CASE k = 8
    BY <1>8, AuthenticationLaidOut DEF SnTypes
  <1>10. CASE k = 10
    BY <1>10, StreamResetLaidOut DEF SnTypes
  <1>11. CASE k = 11
    BY <1>11, AssocResetLaidOut DEF SnTypes
  <1>12. CASE k = 12
    BY <1>12, StreamChangeLaidOut DEF SnTypes
  <1>13. CASE k = 13
    BY <1>13, SendFailedEventLaidOut DEF SnTypes
  <1> QED
    BY <1>1, <1>2, <1>3, <1>4, <1>5, <1>6, <1>7, <1>8, <1>10, <1>11, <1>12, <1>13

\* The code of a type is recognised, and the others are unknown.
LEMMA TypeIs ==
    ASSUME NEW code \in Codes, NEW type, type = TypeOf(code)
    PROVE  /\ code \in Nat /\ SnType(code) = type
           /\ type # "UNKNOWN" => \E k \in 1..13 : type = SnTypes[k]
  <1>1. Len(SnTypes) = 13 /\ \A k \in 1..13 : SnTypes[k] # "UNKNOWN"
    BY DEF SnTypes
  <1> DEFINE k == code - SCTP_SN_TYPE_BASE
  <1>2. code \in Nat /\ k \in 1..14 /\ (k = 14 <=> code = SCTP_SN_TYPE_BASE + 14)
    BY DEF Codes, SCTP_SN_TYPE_BASE
  <1>3. SnType(code) = IF k \in 1..Len(SnTypes) THEN SnTypes[k] ELSE "UNKNOWN"
    BY DEF SnType
  <1>4. type = IF k = 14 THEN "UNKNOWN" ELSE SnTypes[k]
    BY <1>2 DEF TypeOf
  <1> HIDE DEF k
  <1> QED
    BY <1>1, <1>2, <1>3, <1>4

\* The bytes of a notification, some of which are missing.
Arrived(code, type, flags, n, addr, little, state, cut, m, val, bytes, buf) ==
    /\ code \in Codes /\ type = TypeOf(code) /\ flags \in Nat /\ n \in Nat
    /\ addr \in MaybeAddress /\ little \in BOOLEAN /\ state \in DOMAIN StateOf(type)
    /\ cut \in Nat /\ m = KernelStruct(type, n) /\ val = Values(type, code, flags, addr, state)
    /\ bytes = Image(m, val, little) /\ buf = SubSeq(bytes, 1, Len(bytes) - cut)

\* parse gives every notification, cut or not, its fields.
LEMMA Parsed ==
    ASSUME NEW code, NEW type, NEW flags, NEW n, NEW addr, NEW little, NEW state, NEW cut, NEW m,
           NEW val, NEW bytes, NEW buf,
           Arrived(code, type, flags, n, addr, little, state, cut, m, val, bytes, buf)
    PROVE  parse(buf, little) = ParseWanted(type, m, val, buf, flags, addr, state,
                                            parse(buf, little))
  <1> DEFINE b == Body(type, n)
  <1> USE DEF Arrived
  <1>1. m = Header \o b
    BY DEF KernelStruct
  <1>2. /\ code \in Nat /\ SnType(code) = type
        /\ type # "UNKNOWN" => \E k \in 1..13 : type = SnTypes[k]
    BY TypeIs
  <1>3. CASE type = "UNKNOWN"
    <2> DEFINE at == <<8>>
    <2>1. /\ IsList(b) /\ BodyOK(b, at) /\ SpecialOK(type, b)
      BY <1>3, UnknownLaidOut
    <2>2. /\ FixedOK(FieldsOf("UNKNOWN").fixed, b, at) /\ LeastOK(FieldsOf("UNKNOWN").fixed, 4)
          /\ FieldsOf("UNKNOWN").fixed = [sn_type |-> sn_type, flags |-> sn_flags]
          /\ FieldsOf("UNKNOWN").var = [data |-> 0]
      BY <1>3, UnknownLaidOut
    <2> HIDE DEF b, at
    <2>3. Sent(buf, m, b, at, val, little, type, code, flags, addr, state)
      BY <1>1, <1>2, <2>1, SentIs, ZenonT(30)
    <2>4. Sent(buf, m, b, at, val, little, "UNKNOWN", code, flags, addr, state)
      BY <1>3, <2>3
    <2>5. parse(buf, little) = ParseWanted("UNKNOWN", m, val, buf, flags, addr, state,
                                            parse(buf, little))
      BY <2>2, <2>4, UnknownParsed
    <2> QED
      BY <1>3, <2>5
  <1>4. CASE type # "UNKNOWN"
    <2>1. PICK k \in 1..13 : type = SnTypes[k]
      BY <1>2, <1>4
    <2>2. PICK at, least : LaidOut(type, b, at, least)
      BY <2>1, TypesLaidOut
    <2>3. IsList(b) /\ BodyOK(b, at) /\ SpecialOK(type, b)
      BY <2>2 DEF LaidOut
    <2> HIDE DEF b
    <2>4. Sent(buf, m, b, at, val, little, type, code, flags, addr, state)
      BY <1>1, <1>2, <2>3, SentIs, ZenonT(30)
    <2> QED
      BY <1>4, <2>2, <2>4, KnownParsed
  <1> QED
    BY <1>3, <1>4

\* The last call did what it should.
Fine(op) == \E x : last' = [op |-> op, got |-> x, want |-> x]

\* Every step of parse returns what it should.
LEMMA NotificationsParsed == parse_notification => Fine("parse")
  <1> SUFFICES ASSUME parse_notification PROVE Fine("parse")
    OBVIOUS
  <1> DEFINE Val(code, flags, addr, state) == Values(TypeOf(code), code, flags, addr, state)
             Bytes(code, flags, n, addr, little, state) ==
                Image(KernelStruct(TypeOf(code), n), Val(code, flags, addr, state), little)
             Buf(code, flags, n, addr, little, state, cut) ==
                SubSeq(Bytes(code, flags, n, addr, little, state), 1,
                       Len(Bytes(code, flags, n, addr, little, state)) - cut)
  <1>1. PICK code \in Codes, flags \in {0, 1}, n \in Tails, addr \in MaybeAddress,
             little \in BOOLEAN :
          \E state \in DOMAIN StateOf(TypeOf(code)), cut \in Cuts :
            Done("parse", parse(Buf(code, flags, n, addr, little, state, cut), little),
                 ParseWanted(TypeOf(code), KernelStruct(TypeOf(code), n),
                             Val(code, flags, addr, state),
                             Buf(code, flags, n, addr, little, state, cut), flags, addr, state,
                             parse(Buf(code, flags, n, addr, little, state, cut), little)))
    BY DEF parse_notification
  <1>2. PICK state \in DOMAIN StateOf(TypeOf(code)), cut \in Cuts :
            Done("parse", parse(Buf(code, flags, n, addr, little, state, cut), little),
                 ParseWanted(TypeOf(code), KernelStruct(TypeOf(code), n),
                             Val(code, flags, addr, state),
                             Buf(code, flags, n, addr, little, state, cut), flags, addr, state,
                             parse(Buf(code, flags, n, addr, little, state, cut), little)))
    BY <1>1, Zenon
  <1> DEFINE type == TypeOf(code)
             m == KernelStruct(type, n)
             val == Val(code, flags, addr, state)
             bytes == Bytes(code, flags, n, addr, little, state)
             buf == Buf(code, flags, n, addr, little, state, cut)
  <1>3. flags \in Nat /\ n \in Nat /\ cut \in Nat
    BY TailsAssumption
  <1>4. parse(buf, little) = ParseWanted(type, m, val, buf, flags, addr, state,
                                         parse(buf, little))
    <2>1. /\ type = TypeOf(code)
          /\ m = KernelStruct(type, n) /\ val = Values(type, code, flags, addr, state)
          /\ bytes = Image(m, val, little) /\ buf = SubSeq(bytes, 1, Len(bytes) - cut)
      OBVIOUS
    <2>2. state \in DOMAIN StateOf(type)
      OBVIOUS
    <2>3. code \in Codes /\ addr \in MaybeAddress /\ little \in BOOLEAN
      OBVIOUS
    <2> HIDE DEF type, m, Val, Bytes, Buf, val, bytes, buf
    <2>4. Arrived(code, type, flags, n, addr, little, state, cut, m, val, bytes, buf)
      BY <1>3, <2>1, <2>2, <2>3 DEF Arrived
    <2> QED
      BY <2>4, Parsed
  <1>5. Done("parse", parse(buf, little),
             ParseWanted(type, m, val, buf, flags, addr, state, parse(buf, little)))
    BY <1>2
  <1> HIDE DEF type, m, val, buf
  <1> QED
    BY <1>4, <1>5 DEF Done, Fine

-----------------------------------------------------------------------------
(* Structures that are read where the other side wrote its own.            *)

\* A member with this name, width and alignment, in the host's order.
Plain(e, name, n, a) == e.name = name /\ e.n = n /\ e.a = a /\ e.be = FALSE

\* A structure and the offsets of its members.
Table(m, at) == Struct_OK(m) /\ Distinct(m) /\ Offsets(m, at)

\* The bytes of a whole structure.
Whole(buf, m, at, val, little) ==
    /\ Table(m, at) /\ Widths(m, val) /\ little \in BOOLEAN /\ buf = Image(m, val, little)

\* The bytes of a structure, whole.
LEMMA WholeIs ==
    ASSUME NEW buf, NEW m, NEW at, NEW val, NEW little, Whole(buf, m, at, val, little)
    PROVE  /\ Holding(buf, m, val, little)
           /\ buf \in Seq(Byte) /\ Len(buf) \in Nat
           /\ Len(buf) = Ends(m)[Len(m)] /\ Len(buf) = at[Len(m)] + m[Len(m)].n
           /\ \A i \in 1..Len(m) : Ends(m)[i] <= Len(buf)
           /\ \A i \in 1..Len(m) : At(m, i) = at[i]
  <1>1. Struct_OK(m) /\ Distinct(m) /\ Offsets(m, at) /\ Widths(m, val) /\ little \in BOOLEAN
    BY DEF Whole, Table
  <1>2. Valued(m, val)
    BY <1>1, Filling
  <1>3. /\ Image(m, val, little) \in Seq(Byte)
        /\ Len(Image(m, val, little)) = Ends(m)[Len(m)]
        /\ \A i \in 1..Len(m) : Ends(m)[i] <= Ends(m)[Len(m)]
    BY <1>1, <1>2, ImageIs
  <1>4. buf = Image(m, val, little)
    BY DEF Whole
  <1>5. buf \in Seq(Byte) /\ Len(buf) \in Nat
    BY <1>3, <1>4, LenProperties
  <1>6. Prefix(buf, Image(m, val, little))
    BY <1>4, <1>5 DEF Prefix
  <1>7. Len(m) \in 1..Len(m)
    BY <1>1 DEF Struct_OK
  <1>8. \A i \in 1..Len(m) : At(m, i) = at[i] /\ Ends(m)[i] = at[i] + m[i].n
    BY <1>1, TableIs
  <1> QED
    BY <1>1, <1>3, <1>4, <1>5, <1>6, <1>7, <1>8 DEF Holding

\* Member j of r is where member i of m is.
Meets(r, j, m, i) ==
    /\ Distinct(r) /\ j \in 1..Len(r) /\ i \in 1..Len(m) /\ m[i].be = FALSE
    /\ At(r, j) = At(m, i) /\ r[j].n = m[i].n

\* A member is read where another structure wrote one of the same width.
LEMMA RawIs ==
    ASSUME NEW buf, NEW m, NEW at, NEW val, NEW little, Whole(buf, m, at, val, little),
           NEW r, NEW j, NEW i, Meets(r, j, m, i)
    PROVE  Raw(r, buf, r[j].name) = MemberValue(m, val, m[i].name)
  <1>1. Holding(buf, m, val, little) /\ Ends(m)[i] <= Len(buf) /\ i \in 1..Len(m)
    BY WholeIs DEF Meets
  <1>2. Slice(buf, At(m, i), At(m, i) + m[i].n) = Ordered(m, val, i, little)
    BY <1>1, MemberThere
  <1>3. Named(r, r[j].name) = j
    BY NamedIs DEF Meets
  <1>4. Raw(r, buf, r[j].name) = Slice(buf, At(r, j), At(r, j) + r[j].n)
    BY <1>3 DEF Raw
  <1>5. m[i].be = FALSE
    BY DEF Meets
  <1>6. Ordered(m, val, i, little) = MemberValue(m, val, m[i].name)
    BY <1>5 DEF Ordered
  <1> QED
    BY <1>2, <1>4, <1>6 DEF Meets

\* Every member of m has its place in r, where r has member j[i].
Fits(r, rat, m, mat, j) ==
    /\ Table(r, rat) /\ Table(m, mat)
    /\ \A i \in 1..Len(m) : /\ j[i] \in 1..Len(r) /\ rat[j[i]] = mat[i] /\ r[j[i]].n = m[i].n
                            /\ r[j[i]].be = FALSE /\ m[i].be = FALSE

\* Where the members of two structures meet.
LEMMA FitsMeet ==
    ASSUME NEW r, NEW rat, NEW m, NEW mat, NEW j, Fits(r, rat, m, mat, j), NEW i \in 1..Len(m)
    PROVE  Meets(r, j[i], m, i) /\ Meets(m, i, r, j[i])
  <1>1. j[i] \in 1..Len(r)
    BY DEF Fits
  <1>2. At(r, j[i]) = rat[j[i]] /\ At(m, i) = mat[i]
    BY <1>1, TableIs DEF Fits, Table
  <1> QED
    BY <1>1, <1>2 DEF Meets, Fits, Table

\* r reads what m wrote.
LEMMA FitsRead ==
    ASSUME NEW buf, NEW r, NEW rat, NEW m, NEW mat, NEW j, Fits(r, rat, m, mat, j), NEW val,
           NEW little, Whole(buf, m, mat, val, little)
    PROVE  \A i \in 1..Len(m) : Raw(r, buf, r[j[i]].name) = MemberValue(m, val, m[i].name)
  BY FitsMeet, RawIs

\* A report whose fields are those of m, special ones excepted.
Reports(rec, m, val, special) ==
    /\ DOMAIN rec = {m[i].name : i \in 1..Len(m)} /\ rec = [f \in DOMAIN rec |-> rec[f]]
    /\ DOMAIN val = DOMAIN special
    /\ \A i \in 1..Len(m) : rec[m[i].name] = IF m[i].name \in DOMAIN special
                                             THEN special[m[i].name]
                                             ELSE MemberValue(m, val, m[i].name)

\* The report that Fields asks for, from the fields one by one.
LEMMA ReportIs ==
    ASSUME NEW rec, NEW m, NEW val, NEW special, Reports(rec, m, val, special)
    PROVE  rec = Fields(m, special)
  <1> DEFINE g == Fields(m, special)
             D == {m[i].name : i \in 1..Len(m)}
  <1>1. g = [f \in D |-> IF f \in DOMAIN special THEN special[f] ELSE MemberValue(m, << >>, f)]
    BY DEF Fields
  <1>2. DOMAIN rec = D /\ rec = [f \in D |-> rec[f]]
    BY DEF Reports
  <1>3. ASSUME NEW f \in D PROVE rec[f] = g[f]
    <2>1. PICK i \in 1..Len(m) : f = m[i].name
      OBVIOUS
    <2>2. CASE f \in DOMAIN special
      BY <1>1, <2>1, <2>2 DEF Reports
    <2>3. CASE f \notin DOMAIN special
      <3>1. MemberValue(m, val, f) = MemberValue(m, << >>, f)
        BY <2>3 DEF MemberValue, Reports
      <3> QED
        BY <1>1, <2>1, <2>3, <3>1 DEF Reports
    <2> QED
      BY <2>2, <2>3
  <1>4. g = [f \in D |-> g[f]]
    BY <1>1
  <1> HIDE DEF g, D
  <1> QED
    BY <1>2, <1>3, <1>4 DEF g

-----------------------------------------------------------------------------
(* Reports on associations.                                                *)

\* The structures of the reports, as sys.rs and as the kernel declares them.
LEMMA PaddrTable ==
    ASSUME NEW m, m = sctp_paddrinfo
    PROVE  /\ Table(m, <<0, 4, 132, 136, 140, 144, 148>>)
           /\ Len(m) = 7
           /\ Plain(m[1], "spinfo_assoc_id", 4, 1) /\ Plain(m[2], "spinfo_address", 128, 1)
           /\ Plain(m[3], "spinfo_state", 4, 1) /\ Plain(m[4], "spinfo_cwnd", 4, 1)
           /\ Plain(m[5], "spinfo_srtt", 4, 1) /\ Plain(m[6], "spinfo_rto", 4, 1)
           /\ Plain(m[7], "spinfo_mtu", 4, 1)
  <1> DEFINE at == <<0, 4, 132, 136, 140, 144, 148>>
  <1>1. /\ Len(m) = 7
        /\ Plain(m[1], "spinfo_assoc_id", 4, 1) /\ Plain(m[2], "spinfo_address", 128, 1)
        /\ Plain(m[3], "spinfo_state", 4, 1) /\ Plain(m[4], "spinfo_cwnd", 4, 1)
        /\ Plain(m[5], "spinfo_srtt", 4, 1) /\ Plain(m[6], "spinfo_rto", 4, 1)
        /\ Plain(m[7], "spinfo_mtu", 4, 1)
    BY DEF Plain, sctp_paddrinfo, Packed4, Storage, Blob, Member
  <1>2. \A i \in 1..7 : i \in {1, 2, 3, 4, 5, 6, 7}
    OBVIOUS
  <1>3. Struct_OK(m)
    BY <1>1, <1>2 DEF Struct_OK, Plain
  <1>4. Distinct(m)
    BY <1>1, <1>2 DEF Distinct, Plain
  <1>5. Offsets(m, at)
    BY <1>1, <1>2 DEF Offsets, RoundUp, Plain
  <1> HIDE DEF at
  <1>6. Table(m, at)
    BY <1>3, <1>4, <1>5 DEF Table
  <1> QED
    BY <1>1, <1>6 DEF at

LEMMA KernelPaddrTable ==
    ASSUME NEW m, m = KernelPaddrInfo
    PROVE  /\ Table(m, <<0, 4, 132, 136, 140, 144, 148>>)
           /\ Len(m) = 7
           /\ Plain(m[1], "assoc_id", 4, 4) /\ Plain(m[2], "address", 128, 4)
           /\ Plain(m[3], "state", 4, 4) /\ Plain(m[4], "cwnd", 4, 4) /\ Plain(m[5], "srtt", 4, 4)
           /\ Plain(m[6], "rto", 4, 4) /\ Plain(m[7], "mtu", 4, 4)
  <1> DEFINE at == <<0, 4, 132, 136, 140, 144, 148>>
  <1>1. /\ Len(m) = 7
        /\ Plain(m[1], "assoc_id", 4, 4) /\ Plain(m[2], "address", 128, 4)
        /\ Plain(m[3], "state", 4, 4) /\ Plain(m[4], "cwnd", 4, 4) /\ Plain(m[5], "srtt", 4, 4)
        /\ Plain(m[6], "rto", 4, 4) /\ Plain(m[7], "mtu", 4, 4)
    BY DEF Plain, KernelPaddrInfo, Blob, Member
  <1>2. \A i \in 1..7 : i \in {1, 2, 3, 4, 5, 6, 7}
    OBVIOUS
  <1>3. Struct_OK(m)
    BY <1>1, <1>2 DEF Struct_OK, Plain
  <1>4. Distinct(m)
    BY <1>1, <1>2 DEF Distinct, Plain
  <1>5. Offsets(m, at)
    BY <1>1, <1>2 DEF Offsets, RoundUp, Plain
  <1> HIDE DEF at
  <1>6. Table(m, at)
    BY <1>3, <1>4, <1>5 DEF Table
  <1> QED
    BY <1>1, <1>6 DEF at

\* sstat_primary has the size of the kernel's.
LEMMA PaddrSize == SizeOfStruct(sctp_paddrinfo) = 152
  <1> DEFINE m == sctp_paddrinfo
             at == <<0, 4, 132, 136, 140, 144, 148>>
  <1>1. Table(m, at) /\ Len(m) = 7 /\ m[7].n = 4
    BY PaddrTable DEF Plain
  <1>2. at[7] = 148 /\ 7 \in 1..7
    OBVIOUS
  <1> HIDE DEF m, at
  <1>3. Struct_OK(m) /\ Offsets(m, at)
    BY <1>1 DEF Table
  <1>4. \A i \in 1..Len(m) : Ends(m)[i] = at[i] + m[i].n
    BY <1>3, TableIs
  <1>5. Ends(m)[7] = 152
    BY <1>1, <1>2, <1>4
  <1> QED
    BY <1>1, <1>5 DEF SizeOfStruct, m

LEMMA StatusTable ==
    ASSUME NEW m, m = sctp_status
    PROVE  /\ Table(m, <<0, 4, 8, 12, 14, 16, 18, 20, 24>>)
           /\ Len(m) = 9
           /\ Plain(m[1], "sstat_assoc_id", 4, 4) /\ Plain(m[2], "sstat_state", 4, 4)
           /\ Plain(m[3], "sstat_rwnd", 4, 4) /\ Plain(m[4], "sstat_unackdata", 2, 2)
           /\ Plain(m[5], "sstat_penddata", 2, 2) /\ Plain(m[6], "sstat_instrms", 2, 2)
           /\ Plain(m[7], "sstat_outstrms", 2, 2)
           /\ Plain(m[8], "sstat_fragmentation_point", 4, 4)
           /\ Plain(m[9], "sstat_primary", 152, 1)
  <1> DEFINE at == <<0, 4, 8, 12, 14, 16, 18, 20, 24>>
  <1>1. /\ Len(m) = 9
        /\ Plain(m[1], "sstat_assoc_id", 4, 4) /\ Plain(m[2], "sstat_state", 4, 4)
        /\ Plain(m[3], "sstat_rwnd", 4, 4) /\ Plain(m[4], "sstat_unackdata", 2, 2)
        /\ Plain(m[5], "sstat_penddata", 2, 2) /\ Plain(m[6], "sstat_instrms", 2, 2)
        /\ Plain(m[7], "sstat_outstrms", 2, 2) /\ Plain(m[8], "sstat_fragmentation_point", 4, 4)
        /\ Plain(m[9], "sstat_primary", 152, 1)
    BY PaddrSize DEF Plain, sctp_status, Blob, Member
  <1>2. \A i \in 1..9 : i \in {1, 2, 3, 4, 5, 6, 7, 8, 9}
    OBVIOUS
  <1>3. Struct_OK(m)
    BY <1>1, <1>2 DEF Struct_OK, Plain
  <1>4. Distinct(m)
    BY <1>1, <1>2 DEF Distinct, Plain
  <1>5. Offsets(m, at)
    BY <1>1, <1>2 DEF Offsets, RoundUp, Plain
  <1> HIDE DEF at
  <1>6. Table(m, at)
    BY <1>3, <1>4, <1>5 DEF Table
  <1> QED
    BY <1>1, <1>6 DEF at

LEMMA KernelStatusTable ==
    ASSUME NEW m, m = KernelStatus
    PROVE  /\ Table(m, <<0, 4, 8, 12, 14, 16, 18, 20, 24>>)
           /\ Len(m) = 9
           /\ Plain(m[1], "assoc_id", 4, 4) /\ Plain(m[2], "state", 4, 4)
           /\ Plain(m[3], "rwnd", 4, 4) /\ Plain(m[4], "unackdata", 2, 2)
           /\ Plain(m[5], "penddata", 2, 2) /\ Plain(m[6], "instrms", 2, 2)
           /\ Plain(m[7], "outstrms", 2, 2) /\ Plain(m[8], "fragmentation_point", 4, 4)
           /\ Plain(m[9], "primary", 152, 4)
  <1> DEFINE at == <<0, 4, 8, 12, 14, 16, 18, 20, 24>>
  <1>1. /\ Len(m) = 9
        /\ Plain(m[1], "assoc_id", 4, 4) /\ Plain(m[2], "state", 4, 4)
        /\ Plain(m[3], "rwnd", 4, 4) /\ Plain(m[4], "unackdata", 2, 2)
        /\ Plain(m[5], "penddata", 2, 2) /\ Plain(m[6], "instrms", 2, 2)
        /\ Plain(m[7], "outstrms", 2, 2) /\ Plain(m[8], "fragmentation_point", 4, 4)
        /\ Plain(m[9], "primary", 152, 4)
    BY DEF Plain, KernelStatus, Blob, Member
  <1>2. \A i \in 1..9 : i \in {1, 2, 3, 4, 5, 6, 7, 8, 9}
    OBVIOUS
  <1>3. Struct_OK(m)
    BY <1>1, <1>2 DEF Struct_OK, Plain
  <1>4. Distinct(m)
    BY <1>1, <1>2 DEF Distinct, Plain
  <1>5. Offsets(m, at)
    BY <1>1, <1>2 DEF Offsets, RoundUp, Plain
  <1> HIDE DEF at
  <1>6. Table(m, at)
    BY <1>3, <1>4, <1>5 DEF Table
  <1> QED
    BY <1>1, <1>6 DEF at

\* Hosts, with the offset of the first counter.
Host(P, W, c) == \/ P = 4 /\ W = 4 /\ c = 132
                 \/ P = 4 /\ W = 8 /\ c = 136
                 \/ P = 8 /\ W = 8 /\ c = 136
Host4(P, W, c) == Host(P, W, c) /\ P = 4
Host8(P, W, c) == Host(P, W, c) /\ P = 8

LEMMA KernelStatsTable ==
    ASSUME NEW P, NEW W, NEW c, Host(P, W, c), NEW m, m = KernelAssocStats(P, W)
    PROVE  /\ Table(m, <<0, P, c, c + 8, c + 16, c + 24, c + 32, c + 40, c + 48, c + 56, c + 64,
                        c + 72, c + 80, c + 88, c + 96, c + 104, c + 112>>)
           /\ Len(m) = 17
           /\ Plain(m[1], "assoc_id", 4, 4) /\ Plain(m[2], "max_rto_address", 128, P)
           /\ Plain(m[3], "max_rto_kernel_ticks", 8, W) /\ Plain(m[4], "sacks_received", 8, W)
           /\ Plain(m[5], "sacks_sent", 8, W) /\ Plain(m[6], "packets_sent", 8, W)
           /\ Plain(m[7], "packets_received", 8, W) /\ Plain(m[8], "retransmitted_chunks", 8, W)
           /\ Plain(m[9], "out_of_sequence_tsns", 8, W)
           /\ Plain(m[10], "duplicate_chunks_received", 8, W) /\ Plain(m[11], "gap_acks", 8, W)
           /\ Plain(m[12], "unordered_data_chunks_sent", 8, W)
           /\ Plain(m[13], "unordered_data_chunks_received", 8, W)
           /\ Plain(m[14], "ordered_data_chunks_sent", 8, W)
           /\ Plain(m[15], "ordered_data_chunks_received", 8, W)
           /\ Plain(m[16], "control_chunks_sent", 8, W)
           /\ Plain(m[17], "control_chunks_received", 8, W)
  <1> DEFINE at == <<0, P, c, c + 8, c + 16, c + 24, c + 32, c + 40, c + 48, c + 56, c + 64,
                     c + 72, c + 80, c + 88, c + 96, c + 104, c + 112>>
  <1>1. /\ Len(m) = 17
        /\ Plain(m[1], "assoc_id", 4, 4) /\ Plain(m[2], "max_rto_address", 128, P)
        /\ Plain(m[3], "max_rto_kernel_ticks", 8, W) /\ Plain(m[4], "sacks_received", 8, W)
        /\ Plain(m[5], "sacks_sent", 8, W) /\ Plain(m[6], "packets_sent", 8, W)
        /\ Plain(m[7], "packets_received", 8, W) /\ Plain(m[8], "retransmitted_chunks", 8, W)
        /\ Plain(m[9], "out_of_sequence_tsns", 8, W)
        /\ Plain(m[10], "duplicate_chunks_received", 8, W) /\ Plain(m[11], "gap_acks", 8, W)
        /\ Plain(m[12], "unordered_data_chunks_sent", 8, W)
        /\ Plain(m[13], "unordered_data_chunks_received", 8, W)
        /\ Plain(m[14], "ordered_data_chunks_sent", 8, W)
        /\ Plain(m[15], "ordered_data_chunks_received", 8, W)
        /\ Plain(m[16], "control_chunks_sent", 8, W)
        /\ Plain(m[17], "control_chunks_received", 8, W)
    <2> DEFINE h == <<Member("assoc_id", 4), Blob("max_rto_address", 128, P)>>
               names == <<"max_rto_kernel_ticks", "sacks_received", "sacks_sent", "packets_sent",
                           "packets_received", "retransmitted_chunks", "out_of_sequence_tsns",
                           "duplicate_chunks_received", "gap_acks", "unordered_data_chunks_sent",
                           "unordered_data_chunks_received", "ordered_data_chunks_sent",
                           "ordered_data_chunks_received", "control_chunks_sent",
                           "control_chunks_received">>
               u == U64s(names, W)
    <2>1. m = h \o u
      BY DEF KernelAssocStats
    <2>2. IsList(h) /\ Len(h) = 2
      BY DEF IsList
    <2>3. Len(names) = 15
      OBVIOUS
    <2>4. IsList(u) /\ Len(u) = 15 /\ \A i \in 1..15 : u[i] = U64(names[i], W)
      BY <2>3 DEF IsList, U64s
    <2>5. h[1] = Member("assoc_id", 4) /\ h[2] = Blob("max_rto_address", 128, P)
      OBVIOUS
    <2>6. /\ names[1] = "max_rto_kernel_ticks"
          /\ names[2] = "sacks_received"
          /\ names[3] = "sacks_sent"
          /\ names[4] = "packets_sent"
          /\ names[5] = "packets_received"
          /\ names[6] = "retransmitted_chunks"
          /\ names[7] = "out_of_sequence_tsns"
          /\ names[8] = "duplicate_chunks_received"
          /\ names[9] = "gap_acks"
          /\ names[10] = "unordered_data_chunks_sent"
          /\ names[11] = "unordered_data_chunks_received"
          /\ names[12] = "ordered_data_chunks_sent"
          /\ names[13] = "ordered_data_chunks_received"
          /\ names[14] = "control_chunks_sent"
          /\ names[15] = "control_chunks_received"
      OBVIOUS
    <2> HIDE DEF h, u, names
    <2>7. Follows(m, h, u)
      BY <2>1, <2>2, <2>4, Joined
    <2>8. Len(m) = 17 /\ m[1] = h[1] /\ m[2] = h[2]
      BY <2>2, <2>4, <2>7 DEF Follows
    <2>9. \A i \in 1..15 : m[2 + i] = U64(names[i], W)
      BY <2>2, <2>4, <2>7 DEF Follows
    <2>10. /\ m[3] = U64("max_rto_kernel_ticks", W)
           /\ m[4] = U64("sacks_received", W)
           /\ m[5] = U64("sacks_sent", W)
           /\ m[6] = U64("packets_sent", W)
           /\ m[7] = U64("packets_received", W)
           /\ m[8] = U64("retransmitted_chunks", W)
           /\ m[9] = U64("out_of_sequence_tsns", W)
           /\ m[10] = U64("duplicate_chunks_received", W)
           /\ m[11] = U64("gap_acks", W)
           /\ m[12] = U64("unordered_data_chunks_sent", W)
           /\ m[13] = U64("unordered_data_chunks_received", W)
           /\ m[14] = U64("ordered_data_chunks_sent", W)
           /\ m[15] = U64("ordered_data_chunks_received", W)
           /\ m[16] = U64("control_chunks_sent", W)
           /\ m[17] = U64("control_chunks_received", W)
      BY <2>6, <2>9
    <2> QED
      BY <2>5, <2>8, <2>10 DEF Plain, U64, Storage, Blob, Member
  <1>2. \A i \in 1..17 : i \in {1, 2, 3, 4, 5, 6, 7, 8, 9, 10, 11, 12, 13, 14, 15, 16, 17}
    OBVIOUS
  <1>3. Struct_OK(m)
    <2>1. P \in Nat \ {0} /\ W \in Nat \ {0}
      BY DEF Host
    <2> QED
      BY <1>1, <1>2, <2>1 DEF Struct_OK, Plain
  <1>4. Distinct(m)
    BY <1>1, <1>2 DEF Distinct, Plain
  <1>5. Offsets(m, at)
    <2>1. CASE P = 4 /\ W = 4 /\ c = 132
      BY <1>1, <1>2, <2>1 DEF Offsets, RoundUp, Plain
    <2>2. CASE P = 4 /\ W = 8 /\ c = 136
      BY <1>1, <1>2, <2>2 DEF Offsets, RoundUp, Plain
    <2>3. CASE P = 8 /\ W = 8 /\ c = 136
      BY <1>1, <1>2, <2>3 DEF Offsets, RoundUp, Plain
    <2> QED
      BY <2>1, <2>2, <2>3 DEF Host
  <1> HIDE DEF at
  <1>6. Table(m, at)
    BY <1>3, <1>4, <1>5 DEF Table
  <1> QED
    BY <1>1, <1>6 DEF at

LEMMA Stats4Table ==
    ASSUME NEW P, NEW W, NEW c, Host4(P, W, c), NEW m, m = sctp_assoc_stats(P, W)
    PROVE  /\ Table(m, <<0, P, c, c + 8, c + 16, c + 24, c + 32, c + 40, c + 48, c + 56, c + 64,
                        c + 72, c + 80, c + 88, c + 96, c + 104, c + 112>>)
           /\ Len(m) = 17
           /\ Plain(m[1], "sas_assoc_id", 4, 4) /\ Plain(m[2], "sas_obs_rto_ipaddr", 128, 1)
           /\ Plain(m[3], "sas_maxrto", 8, W) /\ Plain(m[4], "sas_isacks", 8, W)
           /\ Plain(m[5], "sas_osacks", 8, W) /\ Plain(m[6], "sas_opackets", 8, W)
           /\ Plain(m[7], "sas_ipackets", 8, W) /\ Plain(m[8], "sas_rtxchunks", 8, W)
           /\ Plain(m[9], "sas_outofseqtsns", 8, W) /\ Plain(m[10], "sas_idupchunks", 8, W)
           /\ Plain(m[11], "sas_gapcnt", 8, W) /\ Plain(m[12], "sas_ouodchunks", 8, W)
           /\ Plain(m[13], "sas_iuodchunks", 8, W) /\ Plain(m[14], "sas_oodchunks", 8, W)
           /\ Plain(m[15], "sas_iodchunks", 8, W) /\ Plain(m[16], "sas_octrlchunks", 8, W)
           /\ Plain(m[17], "sas_ictrlchunks", 8, W)
  <1> DEFINE at == <<0, P, c, c + 8, c + 16, c + 24, c + 32, c + 40, c + 48, c + 56, c + 64,
                     c + 72, c + 80, c + 88, c + 96, c + 104, c + 112>>
  <1>1. /\ Len(m) = 17
        /\ Plain(m[1], "sas_assoc_id", 4, 4) /\ Plain(m[2], "sas_obs_rto_ipaddr", 128, 1)
        /\ Plain(m[3], "sas_maxrto", 8, W) /\ Plain(m[4], "sas_isacks", 8, W)
        /\ Plain(m[5], "sas_osacks", 8, W) /\ Plain(m[6], "sas_opackets", 8, W)
        /\ Plain(m[7], "sas_ipackets", 8, W) /\ Plain(m[8], "sas_rtxchunks", 8, W)
        /\ Plain(m[9], "sas_outofseqtsns", 8, W) /\ Plain(m[10], "sas_idupchunks", 8, W)
        /\ Plain(m[11], "sas_gapcnt", 8, W) /\ Plain(m[12], "sas_ouodchunks", 8, W)
        /\ Plain(m[13], "sas_iuodchunks", 8, W) /\ Plain(m[14], "sas_oodchunks", 8, W)
        /\ Plain(m[15], "sas_iodchunks", 8, W) /\ Plain(m[16], "sas_octrlchunks", 8, W)
        /\ Plain(m[17], "sas_ictrlchunks", 8, W)
    <2> DEFINE h == <<Member("sas_assoc_id", 4), Storage("sas_obs_rto_ipaddr")>>
               names == <<"sas_maxrto", "sas_isacks", "sas_osacks", "sas_opackets",
                           "sas_ipackets", "sas_rtxchunks", "sas_outofseqtsns", "sas_idupchunks",
                           "sas_gapcnt", "sas_ouodchunks", "sas_iuodchunks", "sas_oodchunks",
                           "sas_iodchunks", "sas_octrlchunks", "sas_ictrlchunks">>
               u == U64s(names, W)
    <2>1. m = h \o u
      BY DEF Host4, sctp_assoc_stats, sas_counters
    <2>2. IsList(h) /\ Len(h) = 2
      BY DEF IsList
    <2>3. Len(names) = 15
      OBVIOUS
    <2>4. IsList(u) /\ Len(u) = 15 /\ \A i \in 1..15 : u[i] = U64(names[i], W)
      BY <2>3 DEF IsList, U64s
    <2>5. h[1] = Member("sas_assoc_id", 4) /\ h[2] = Storage("sas_obs_rto_ipaddr")
      OBVIOUS
    <2>6. /\ names[1] = "sas_maxrto"
          /\ names[2] = "sas_isacks"
          /\ names[3] = "sas_osacks"
          /\ names[4] = "sas_opackets"
          /\ names[5] = "sas_ipackets"
          /\ names[6] = "sas_rtxchunks"
          /\ names[7] = "sas_outofseqtsns"
          /\ names[8] = "sas_idupchunks"
          /\ names[9] = "sas_gapcnt"
          /\ names[10] = "sas_ouodchunks"
          /\ names[11] = "sas_iuodchunks"
          /\ names[12] = "sas_oodchunks"
          /\ names[13] = "sas_iodchunks"
          /\ names[14] = "sas_octrlchunks"
          /\ names[15] = "sas_ictrlchunks"
      OBVIOUS
    <2> HIDE DEF h, u, names
    <2>7. Follows(m, h, u)
      BY <2>1, <2>2, <2>4, Joined
    <2>8. Len(m) = 17 /\ m[1] = h[1] /\ m[2] = h[2]
      BY <2>2, <2>4, <2>7 DEF Follows
    <2>9. \A i \in 1..15 : m[2 + i] = U64(names[i], W)
      BY <2>2, <2>4, <2>7 DEF Follows
    <2>10. /\ m[3] = U64("sas_maxrto", W)
           /\ m[4] = U64("sas_isacks", W)
           /\ m[5] = U64("sas_osacks", W)
           /\ m[6] = U64("sas_opackets", W)
           /\ m[7] = U64("sas_ipackets", W)
           /\ m[8] = U64("sas_rtxchunks", W)
           /\ m[9] = U64("sas_outofseqtsns", W)
           /\ m[10] = U64("sas_idupchunks", W)
           /\ m[11] = U64("sas_gapcnt", W)
           /\ m[12] = U64("sas_ouodchunks", W)
           /\ m[13] = U64("sas_iuodchunks", W)
           /\ m[14] = U64("sas_oodchunks", W)
           /\ m[15] = U64("sas_iodchunks", W)
           /\ m[16] = U64("sas_octrlchunks", W)
           /\ m[17] = U64("sas_ictrlchunks", W)
      BY <2>6, <2>9
    <2> QED
      BY <2>5, <2>8, <2>10 DEF Plain, U64, Storage, Blob, Member
  <1>2. \A i \in 1..17 : i \in {1, 2, 3, 4, 5, 6, 7, 8, 9, 10, 11, 12, 13, 14, 15, 16, 17}
    OBVIOUS
  <1>3. Struct_OK(m)
    <2>1. P \in Nat \ {0} /\ W \in Nat \ {0}
      BY DEF Host4, Host
    <2> QED
      BY <1>1, <1>2, <2>1 DEF Struct_OK, Plain
  <1>4. Distinct(m)
    BY <1>1, <1>2 DEF Distinct, Plain
  <1>5. Offsets(m, at)
    <2>1. CASE P = 4 /\ W = 4 /\ c = 132
      BY <1>1, <1>2, <2>1 DEF Offsets, RoundUp, Plain
    <2>2. CASE P = 4 /\ W = 8 /\ c = 136
      BY <1>1, <1>2, <2>2 DEF Offsets, RoundUp, Plain
    <2> QED
      BY <2>1, <2>2 DEF Host4, Host
  <1> HIDE DEF at
  <1>6. Table(m, at)
    BY <1>3, <1>4, <1>5 DEF Table
  <1> QED
    BY <1>1, <1>6 DEF at

LEMMA Stats8Table ==
    ASSUME NEW P, NEW W, NEW c, Host8(P, W, c), NEW m, m = sctp_assoc_stats(P, W)
    PROVE  /\ Table(m, <<0, 4, 8, 136, 144, 152, 160, 168, 176, 184, 192, 200, 208, 216, 224, 232,
                        240, 248>>)
           /\ Len(m) = 18
           /\ Plain(m[1], "sas_assoc_id", 4, 4) /\ Plain(m[2], "_pad", 4, 4)
           /\ Plain(m[3], "sas_obs_rto_ipaddr", 128, 1) /\ Plain(m[4], "sas_maxrto", 8, W)
           /\ Plain(m[5], "sas_isacks", 8, W) /\ Plain(m[6], "sas_osacks", 8, W)
           /\ Plain(m[7], "sas_opackets", 8, W) /\ Plain(m[8], "sas_ipackets", 8, W)
           /\ Plain(m[9], "sas_rtxchunks", 8, W) /\ Plain(m[10], "sas_outofseqtsns", 8, W)
           /\ Plain(m[11], "sas_idupchunks", 8, W) /\ Plain(m[12], "sas_gapcnt", 8, W)
           /\ Plain(m[13], "sas_ouodchunks", 8, W) /\ Plain(m[14], "sas_iuodchunks", 8, W)
           /\ Plain(m[15], "sas_oodchunks", 8, W) /\ Plain(m[16], "sas_iodchunks", 8, W)
           /\ Plain(m[17], "sas_octrlchunks", 8, W) /\ Plain(m[18], "sas_ictrlchunks", 8, W)
  <1> DEFINE at == <<0, 4, 8, 136, 144, 152, 160, 168, 176, 184, 192, 200, 208, 216, 224, 232,
                     240, 248>>
  <1>1. /\ Len(m) = 18
        /\ Plain(m[1], "sas_assoc_id", 4, 4) /\ Plain(m[2], "_pad", 4, 4)
        /\ Plain(m[3], "sas_obs_rto_ipaddr", 128, 1) /\ Plain(m[4], "sas_maxrto", 8, W)
        /\ Plain(m[5], "sas_isacks", 8, W) /\ Plain(m[6], "sas_osacks", 8, W)
        /\ Plain(m[7], "sas_opackets", 8, W) /\ Plain(m[8], "sas_ipackets", 8, W)
        /\ Plain(m[9], "sas_rtxchunks", 8, W) /\ Plain(m[10], "sas_outofseqtsns", 8, W)
        /\ Plain(m[11], "sas_idupchunks", 8, W) /\ Plain(m[12], "sas_gapcnt", 8, W)
        /\ Plain(m[13], "sas_ouodchunks", 8, W) /\ Plain(m[14], "sas_iuodchunks", 8, W)
        /\ Plain(m[15], "sas_oodchunks", 8, W) /\ Plain(m[16], "sas_iodchunks", 8, W)
        /\ Plain(m[17], "sas_octrlchunks", 8, W) /\ Plain(m[18], "sas_ictrlchunks", 8, W)
    <2> DEFINE h == <<Member("sas_assoc_id", 4), Member("_pad", 4), Storage("sas_obs_rto_ipaddr")>>
               names == <<"sas_maxrto", "sas_isacks", "sas_osacks", "sas_opackets",
                           "sas_ipackets", "sas_rtxchunks", "sas_outofseqtsns", "sas_idupchunks",
                           "sas_gapcnt", "sas_ouodchunks", "sas_iuodchunks", "sas_oodchunks",
                           "sas_iodchunks", "sas_octrlchunks", "sas_ictrlchunks">>
               u == U64s(names, W)
    <2>1. m = h \o u
      BY DEF Host8, sctp_assoc_stats, sas_counters
    <2>2. IsList(h) /\ Len(h) = 3
      BY DEF IsList
    <2>3. Len(names) = 15
      OBVIOUS
    <2>4. IsList(u) /\ Len(u) = 15 /\ \A i \in 1..15 : u[i] = U64(names[i], W)
      BY <2>3 DEF IsList, U64s
    <2>5. h[1] = Member("sas_assoc_id", 4) /\ h[2] = Member("_pad", 4) /\ h[3] = Storage("sas_obs_rto_ipaddr")
      OBVIOUS
    <2>6. /\ names[1] = "sas_maxrto"
          /\ names[2] = "sas_isacks"
          /\ names[3] = "sas_osacks"
          /\ names[4] = "sas_opackets"
          /\ names[5] = "sas_ipackets"
          /\ names[6] = "sas_rtxchunks"
          /\ names[7] = "sas_outofseqtsns"
          /\ names[8] = "sas_idupchunks"
          /\ names[9] = "sas_gapcnt"
          /\ names[10] = "sas_ouodchunks"
          /\ names[11] = "sas_iuodchunks"
          /\ names[12] = "sas_oodchunks"
          /\ names[13] = "sas_iodchunks"
          /\ names[14] = "sas_octrlchunks"
          /\ names[15] = "sas_ictrlchunks"
      OBVIOUS
    <2> HIDE DEF h, u, names
    <2>7. Follows(m, h, u)
      BY <2>1, <2>2, <2>4, Joined
    <2>8. Len(m) = 18 /\ m[1] = h[1] /\ m[2] = h[2] /\ m[3] = h[3]
      BY <2>2, <2>4, <2>7 DEF Follows
    <2>9. \A i \in 1..15 : m[3 + i] = U64(names[i], W)
      BY <2>2, <2>4, <2>7 DEF Follows
    <2>10. /\ m[4] = U64("sas_maxrto", W)
           /\ m[5] = U64("sas_isacks", W)
           /\ m[6] = U64("sas_osacks", W)
           /\ m[7] = U64("sas_opackets", W)
           /\ m[8] = U64("sas_ipackets", W)
           /\ m[9] = U64("sas_rtxchunks", W)
           /\ m[10] = U64("sas_outofseqtsns", W)
           /\ m[11] = U64("sas_idupchunks", W)
           /\ m[12] = U64("sas_gapcnt", W)
           /\ m[13] = U64("sas_ouodchunks", W)
           /\ m[14] = U64("sas_iuodchunks", W)
           /\ m[15] = U64("sas_oodchunks", W)
           /\ m[16] = U64("sas_iodchunks", W)
           /\ m[17] = U64("sas_octrlchunks", W)
           /\ m[18] = U64("sas_ictrlchunks", W)
      BY <2>6, <2>9
    <2> QED
      BY <2>5, <2>8, <2>10 DEF Plain, U64, Storage, Blob, Member
  <1>2. \A i \in 1..18 : i \in {1, 2, 3, 4, 5, 6, 7, 8, 9, 10, 11, 12, 13, 14, 15, 16, 17, 18}
    OBVIOUS
  <1>3. Struct_OK(m)
    <2>1. P \in Nat \ {0} /\ W \in Nat \ {0}
      BY DEF Host8, Host
    <2> QED
      BY <1>1, <1>2, <2>1 DEF Struct_OK, Plain
  <1>4. Distinct(m)
    BY <1>1, <1>2 DEF Distinct, Plain
  <1>5. Offsets(m, at)
    <2>1. CASE P = 8 /\ W = 8 /\ c = 136
      BY <1>1, <1>2, <2>1 DEF Offsets, RoundUp, Plain
    <2> QED
      BY <2>1 DEF Host8, Host
  <1> HIDE DEF at
  <1>6. Table(m, at)
    BY <1>3, <1>4, <1>5 DEF Table
  <1> QED
    BY <1>1, <1>6 DEF at

\* The reports, from structures that fit.
LEMMA PathRead ==
    ASSUME NEW r, NEW rat, NEW m, NEW mat, NEW j, Fits(r, rat, m, mat, j), NEW buf, NEW val,
           NEW special, NEW little, Whole(buf, m, mat, val, little), DOMAIN val = DOMAIN special,
           Len(m) = 7,
           /\ r[j[1]].name = "spinfo_assoc_id" /\ r[j[2]].name = "spinfo_address"
           /\ r[j[3]].name = "spinfo_state" /\ r[j[4]].name = "spinfo_cwnd"
           /\ r[j[5]].name = "spinfo_srtt" /\ r[j[6]].name = "spinfo_rto"
           /\ r[j[7]].name = "spinfo_mtu" /\ m[1].name = "assoc_id" /\ m[2].name = "address"
           /\ m[3].name = "state" /\ m[4].name = "cwnd" /\ m[5].name = "srtt" /\ m[6].name = "rto"
           /\ m[7].name = "mtu",
           DOMAIN special = {"address", "state"},
           /\ read_sockaddr(val["address"]) = special["address"]
           /\ PeerAddrState_from_raw(val["state"]) = special["state"],
           NEW rec,
           rec = [assoc_id |-> Raw(r, buf, "spinfo_assoc_id"),
                  address |-> read_sockaddr(Raw(r, buf, "spinfo_address")),
                  state |-> PeerAddrState_from_raw(Raw(r, buf, "spinfo_state")),
                  cwnd |-> Raw(r, buf, "spinfo_cwnd"), srtt |-> Raw(r, buf, "spinfo_srtt"),
                  rto |-> Raw(r, buf, "spinfo_rto"), mtu |-> Raw(r, buf, "spinfo_mtu")]
    PROVE  rec = Fields(m, special)
  <1>1. \A i \in 1..7 : i \in {1, 2, 3, 4, 5, 6, 7}
    OBVIOUS
  <1>2. \A i \in 1..Len(m) : Raw(r, buf, r[j[i]].name) = MemberValue(m, val, m[i].name)
    BY ONLY Fits(r, rat, m, mat, j), Whole(buf, m, mat, val, little), FitsRead
  <1>3. /\ Raw(r, buf, "spinfo_assoc_id") = MemberValue(m, val, "assoc_id")
        /\ Raw(r, buf, "spinfo_address") = MemberValue(m, val, "address")
        /\ Raw(r, buf, "spinfo_state") = MemberValue(m, val, "state")
        /\ Raw(r, buf, "spinfo_cwnd") = MemberValue(m, val, "cwnd")
        /\ Raw(r, buf, "spinfo_srtt") = MemberValue(m, val, "srtt")
        /\ Raw(r, buf, "spinfo_rto") = MemberValue(m, val, "rto")
        /\ Raw(r, buf, "spinfo_mtu") = MemberValue(m, val, "mtu")
    BY <1>2
  <1>4. /\ MemberValue(m, val, "address") = val["address"]
        /\ MemberValue(m, val, "state") = val["state"]
    BY DEF MemberValue
  <1>5. /\ DOMAIN rec = {"assoc_id", "address", "state", "cwnd", "srtt", "rto", "mtu"}
        /\ rec = [f \in DOMAIN rec |-> rec[f]]
    OBVIOUS
  <1>6. /\ rec["assoc_id"] = MemberValue(m, val, "assoc_id")
        /\ rec["address"] = special["address"] /\ rec["state"] = special["state"]
        /\ rec["cwnd"] = MemberValue(m, val, "cwnd") /\ rec["srtt"] = MemberValue(m, val, "srtt")
        /\ rec["rto"] = MemberValue(m, val, "rto") /\ rec["mtu"] = MemberValue(m, val, "mtu")
    BY <1>3, <1>4
  <1>7. {m[i].name : i \in 1..Len(m)}
          = {"assoc_id", "address", "state", "cwnd", "srtt", "rto", "mtu"}
    BY <1>1
  <1>8. ASSUME NEW i \in 1..Len(m)
        PROVE  rec[m[i].name] = IF m[i].name \in DOMAIN special THEN special[m[i].name]
                                ELSE MemberValue(m, val, m[i].name)
    BY <1>1, <1>6
  <1>9. Reports(rec, m, val, special)
    BY <1>5, <1>7, <1>8 DEF Reports
  <1> QED
    BY <1>9, ReportIs

\* The declarations of sys.rs fit the kernel's.
LEMMA PathFits ==
    ASSUME NEW r, r = sctp_paddrinfo, NEW m, m = KernelPaddrInfo, NEW j,
           j = <<1, 2, 3, 4, 5, 6, 7>>, NEW rat, rat = <<0, 4, 132, 136, 140, 144, 148>>,
           NEW mat, mat = <<0, 4, 132, 136, 140, 144, 148>>
    PROVE  /\ Fits(r, rat, m, mat, j) /\ Len(m) = 7
           /\ r[j[1]].name = "spinfo_assoc_id" /\ r[j[2]].name = "spinfo_address"
           /\ r[j[3]].name = "spinfo_state" /\ r[j[4]].name = "spinfo_cwnd"
           /\ r[j[5]].name = "spinfo_srtt" /\ r[j[6]].name = "spinfo_rto"
           /\ r[j[7]].name = "spinfo_mtu" /\ Plain(m[1], "assoc_id", 4, 4)
           /\ Plain(m[2], "address", 128, 4) /\ Plain(m[3], "state", 4, 4)
           /\ Plain(m[4], "cwnd", 4, 4) /\ Plain(m[5], "srtt", 4, 4) /\ Plain(m[6], "rto", 4, 4)
           /\ Plain(m[7], "mtu", 4, 4)
  <1>1. /\ Table(r, rat) /\ Len(r) = 7
        /\ Plain(r[1], "spinfo_assoc_id", 4, 1) /\ Plain(r[2], "spinfo_address", 128, 1)
        /\ Plain(r[3], "spinfo_state", 4, 1) /\ Plain(r[4], "spinfo_cwnd", 4, 1)
        /\ Plain(r[5], "spinfo_srtt", 4, 1) /\ Plain(r[6], "spinfo_rto", 4, 1)
        /\ Plain(r[7], "spinfo_mtu", 4, 1)
    BY PaddrTable
  <1>2. /\ Table(m, mat) /\ Len(m) = 7
        /\ Plain(m[1], "assoc_id", 4, 4) /\ Plain(m[2], "address", 128, 4)
        /\ Plain(m[3], "state", 4, 4) /\ Plain(m[4], "cwnd", 4, 4) /\ Plain(m[5], "srtt", 4, 4)
        /\ Plain(m[6], "rto", 4, 4) /\ Plain(m[7], "mtu", 4, 4)
    BY KernelPaddrTable
  <1>3. \A i \in 1..7 : i \in {1, 2, 3, 4, 5, 6, 7}
    OBVIOUS
  <1>4. \A i \in 1..Len(m) : j[i] \in 1..Len(r) /\ rat[j[i]] = mat[i]
    BY <1>1, <1>2, <1>3
  <1>5. /\ j[1] = 1 /\ j[2] = 2 /\ j[3] = 3 /\ j[4] = 4 /\ j[5] = 5 /\ j[6] = 6 /\ j[7] = 7
    OBVIOUS
  <1>6. \A i \in 1..Len(m) : /\ r[j[i]].n = m[i].n /\ r[j[i]].be = FALSE
                            /\ m[i].be = FALSE
    BY <1>1, <1>2, <1>3, <1>5 DEF Plain
  <1>7. Fits(r, rat, m, mat, j)
    BY <1>1, <1>2, <1>4, <1>6 DEF Fits
  <1> QED
    BY <1>1, <1>2, <1>5, <1>7 DEF Plain

LEMMA StatusFits ==
    ASSUME NEW r, r = sctp_status, NEW m, m = KernelStatus, NEW j,
           j = <<1, 2, 3, 4, 5, 6, 7, 8, 9>>, NEW rat, rat = <<0, 4, 8, 12, 14, 16, 18, 20, 24>>,
           NEW mat, mat = <<0, 4, 8, 12, 14, 16, 18, 20, 24>>
    PROVE  /\ Fits(r, rat, m, mat, j) /\ Len(m) = 9
           /\ r[j[1]].name = "sstat_assoc_id" /\ r[j[2]].name = "sstat_state"
           /\ r[j[3]].name = "sstat_rwnd" /\ r[j[4]].name = "sstat_unackdata"
           /\ r[j[5]].name = "sstat_penddata" /\ r[j[6]].name = "sstat_instrms"
           /\ r[j[7]].name = "sstat_outstrms" /\ r[j[8]].name = "sstat_fragmentation_point"
           /\ r[j[9]].name = "sstat_primary" /\ Plain(m[1], "assoc_id", 4, 4)
           /\ Plain(m[2], "state", 4, 4) /\ Plain(m[3], "rwnd", 4, 4)
           /\ Plain(m[4], "unackdata", 2, 2) /\ Plain(m[5], "penddata", 2, 2)
           /\ Plain(m[6], "instrms", 2, 2) /\ Plain(m[7], "outstrms", 2, 2)
           /\ Plain(m[8], "fragmentation_point", 4, 4) /\ Plain(m[9], "primary", 152, 4)
  <1>1. /\ Table(r, rat) /\ Len(r) = 9
        /\ Plain(r[1], "sstat_assoc_id", 4, 4) /\ Plain(r[2], "sstat_state", 4, 4)
        /\ Plain(r[3], "sstat_rwnd", 4, 4) /\ Plain(r[4], "sstat_unackdata", 2, 2)
        /\ Plain(r[5], "sstat_penddata", 2, 2) /\ Plain(r[6], "sstat_instrms", 2, 2)
        /\ Plain(r[7], "sstat_outstrms", 2, 2) /\ Plain(r[8], "sstat_fragmentation_point", 4, 4)
        /\ Plain(r[9], "sstat_primary", 152, 1)
    BY StatusTable
  <1>2. /\ Table(m, mat) /\ Len(m) = 9
        /\ Plain(m[1], "assoc_id", 4, 4) /\ Plain(m[2], "state", 4, 4)
        /\ Plain(m[3], "rwnd", 4, 4) /\ Plain(m[4], "unackdata", 2, 2)
        /\ Plain(m[5], "penddata", 2, 2) /\ Plain(m[6], "instrms", 2, 2)
        /\ Plain(m[7], "outstrms", 2, 2) /\ Plain(m[8], "fragmentation_point", 4, 4)
        /\ Plain(m[9], "primary", 152, 4)
    BY KernelStatusTable
  <1>3. \A i \in 1..9 : i \in {1, 2, 3, 4, 5, 6, 7, 8, 9}
    OBVIOUS
  <1>4. \A i \in 1..Len(m) : j[i] \in 1..Len(r) /\ rat[j[i]] = mat[i]
    BY <1>1, <1>2, <1>3
  <1>5. /\ j[1] = 1 /\ j[2] = 2 /\ j[3] = 3 /\ j[4] = 4 /\ j[5] = 5 /\ j[6] = 6 /\ j[7] = 7
        /\ j[8] = 8 /\ j[9] = 9
    OBVIOUS
  <1>6. \A i \in 1..Len(m) : /\ r[j[i]].n = m[i].n /\ r[j[i]].be = FALSE
                            /\ m[i].be = FALSE
    BY <1>1, <1>2, <1>3, <1>5 DEF Plain
  <1>7. Fits(r, rat, m, mat, j)
    BY <1>1, <1>2, <1>4, <1>6 DEF Fits
  <1> QED
    BY <1>1, <1>2, <1>5, <1>7 DEF Plain

LEMMA Stats4Fits ==
    ASSUME NEW P, NEW W, NEW c, Host4(P, W, c), NEW r, r = sctp_assoc_stats(P, W), NEW m,
           m = KernelAssocStats(P, W), NEW j,
           j = <<1, 2, 3, 4, 5, 6, 7, 8, 9, 10, 11, 12, 13, 14, 15, 16, 17>>,
           NEW rat, rat = <<0, P, c, c + 8, c + 16, c + 24, c + 32, c + 40, c + 48, c + 56, c + 64,
                    c + 72, c + 80, c + 88, c + 96, c + 104, c + 112>>,
           NEW mat, mat = <<0, P, c, c + 8, c + 16, c + 24, c + 32, c + 40, c + 48, c + 56, c + 64,
                    c + 72, c + 80, c + 88, c + 96, c + 104, c + 112>>
    PROVE  /\ Fits(r, rat, m, mat, j) /\ Len(m) = 17
           /\ r[j[1]].name = "sas_assoc_id" /\ r[j[2]].name = "sas_obs_rto_ipaddr"
           /\ r[j[3]].name = "sas_maxrto" /\ r[j[4]].name = "sas_isacks"
           /\ r[j[5]].name = "sas_osacks" /\ r[j[6]].name = "sas_opackets"
           /\ r[j[7]].name = "sas_ipackets" /\ r[j[8]].name = "sas_rtxchunks"
           /\ r[j[9]].name = "sas_outofseqtsns" /\ r[j[10]].name = "sas_idupchunks"
           /\ r[j[11]].name = "sas_gapcnt" /\ r[j[12]].name = "sas_ouodchunks"
           /\ r[j[13]].name = "sas_iuodchunks" /\ r[j[14]].name = "sas_oodchunks"
           /\ r[j[15]].name = "sas_iodchunks" /\ r[j[16]].name = "sas_octrlchunks"
           /\ r[j[17]].name = "sas_ictrlchunks" /\ Plain(m[1], "assoc_id", 4, 4)
           /\ Plain(m[2], "max_rto_address", 128, P) /\ Plain(m[3], "max_rto_kernel_ticks", 8, W)
           /\ Plain(m[4], "sacks_received", 8, W) /\ Plain(m[5], "sacks_sent", 8, W)
           /\ Plain(m[6], "packets_sent", 8, W) /\ Plain(m[7], "packets_received", 8, W)
           /\ Plain(m[8], "retransmitted_chunks", 8, W)
           /\ Plain(m[9], "out_of_sequence_tsns", 8, W)
           /\ Plain(m[10], "duplicate_chunks_received", 8, W) /\ Plain(m[11], "gap_acks", 8, W)
           /\ Plain(m[12], "unordered_data_chunks_sent", 8, W)
           /\ Plain(m[13], "unordered_data_chunks_received", 8, W)
           /\ Plain(m[14], "ordered_data_chunks_sent", 8, W)
           /\ Plain(m[15], "ordered_data_chunks_received", 8, W)
           /\ Plain(m[16], "control_chunks_sent", 8, W)
           /\ Plain(m[17], "control_chunks_received", 8, W)
  <1>1. /\ Table(r, rat) /\ Len(r) = 17
        /\ Plain(r[1], "sas_assoc_id", 4, 4) /\ Plain(r[2], "sas_obs_rto_ipaddr", 128, 1)
        /\ Plain(r[3], "sas_maxrto", 8, W) /\ Plain(r[4], "sas_isacks", 8, W)
        /\ Plain(r[5], "sas_osacks", 8, W) /\ Plain(r[6], "sas_opackets", 8, W)
        /\ Plain(r[7], "sas_ipackets", 8, W) /\ Plain(r[8], "sas_rtxchunks", 8, W)
        /\ Plain(r[9], "sas_outofseqtsns", 8, W) /\ Plain(r[10], "sas_idupchunks", 8, W)
        /\ Plain(r[11], "sas_gapcnt", 8, W) /\ Plain(r[12], "sas_ouodchunks", 8, W)
        /\ Plain(r[13], "sas_iuodchunks", 8, W) /\ Plain(r[14], "sas_oodchunks", 8, W)
        /\ Plain(r[15], "sas_iodchunks", 8, W) /\ Plain(r[16], "sas_octrlchunks", 8, W)
        /\ Plain(r[17], "sas_ictrlchunks", 8, W)
    BY Stats4Table
  <1>2. /\ Table(m, mat) /\ Len(m) = 17
        /\ Plain(m[1], "assoc_id", 4, 4) /\ Plain(m[2], "max_rto_address", 128, P)
        /\ Plain(m[3], "max_rto_kernel_ticks", 8, W) /\ Plain(m[4], "sacks_received", 8, W)
        /\ Plain(m[5], "sacks_sent", 8, W) /\ Plain(m[6], "packets_sent", 8, W)
        /\ Plain(m[7], "packets_received", 8, W) /\ Plain(m[8], "retransmitted_chunks", 8, W)
        /\ Plain(m[9], "out_of_sequence_tsns", 8, W)
        /\ Plain(m[10], "duplicate_chunks_received", 8, W) /\ Plain(m[11], "gap_acks", 8, W)
        /\ Plain(m[12], "unordered_data_chunks_sent", 8, W)
        /\ Plain(m[13], "unordered_data_chunks_received", 8, W)
        /\ Plain(m[14], "ordered_data_chunks_sent", 8, W)
        /\ Plain(m[15], "ordered_data_chunks_received", 8, W)
        /\ Plain(m[16], "control_chunks_sent", 8, W)
        /\ Plain(m[17], "control_chunks_received", 8, W)
    BY KernelStatsTable DEF Host4
  <1>3. \A i \in 1..17 : i \in {1, 2, 3, 4, 5, 6, 7, 8, 9, 10, 11, 12, 13, 14, 15, 16, 17}
    OBVIOUS
  <1>4. \A i \in 1..Len(m) : j[i] \in 1..Len(r) /\ rat[j[i]] = mat[i]
    BY <1>1, <1>2, <1>3
  <1>5. /\ j[1] = 1 /\ j[2] = 2 /\ j[3] = 3 /\ j[4] = 4 /\ j[5] = 5 /\ j[6] = 6 /\ j[7] = 7
        /\ j[8] = 8 /\ j[9] = 9 /\ j[10] = 10 /\ j[11] = 11 /\ j[12] = 12 /\ j[13] = 13
        /\ j[14] = 14 /\ j[15] = 15 /\ j[16] = 16 /\ j[17] = 17
    OBVIOUS
  <1>6. \A i \in 1..Len(m) : /\ r[j[i]].n = m[i].n /\ r[j[i]].be = FALSE
                            /\ m[i].be = FALSE
    BY <1>1, <1>2, <1>3, <1>5 DEF Plain
  <1>7. Fits(r, rat, m, mat, j)
    BY <1>1, <1>2, <1>4, <1>6 DEF Fits
  <1> QED
    BY <1>1, <1>2, <1>5, <1>7 DEF Plain

LEMMA Stats8Fits ==
    ASSUME NEW P, NEW W, NEW c, Host8(P, W, c), NEW r, r = sctp_assoc_stats(P, W), NEW m,
           m = KernelAssocStats(P, W), NEW j,
           j = <<1, 3, 4, 5, 6, 7, 8, 9, 10, 11, 12, 13, 14, 15, 16, 17, 18>>,
           NEW rat, rat = <<0, 4, 8, 136, 144, 152, 160, 168, 176, 184, 192, 200, 208, 216, 224, 232,
                    240, 248>>,
           NEW mat, mat = <<0, P, c, c + 8, c + 16, c + 24, c + 32, c + 40, c + 48, c + 56, c + 64,
                    c + 72, c + 80, c + 88, c + 96, c + 104, c + 112>>
    PROVE  /\ Fits(r, rat, m, mat, j) /\ Len(m) = 17
           /\ r[j[1]].name = "sas_assoc_id" /\ r[j[2]].name = "sas_obs_rto_ipaddr"
           /\ r[j[3]].name = "sas_maxrto" /\ r[j[4]].name = "sas_isacks"
           /\ r[j[5]].name = "sas_osacks" /\ r[j[6]].name = "sas_opackets"
           /\ r[j[7]].name = "sas_ipackets" /\ r[j[8]].name = "sas_rtxchunks"
           /\ r[j[9]].name = "sas_outofseqtsns" /\ r[j[10]].name = "sas_idupchunks"
           /\ r[j[11]].name = "sas_gapcnt" /\ r[j[12]].name = "sas_ouodchunks"
           /\ r[j[13]].name = "sas_iuodchunks" /\ r[j[14]].name = "sas_oodchunks"
           /\ r[j[15]].name = "sas_iodchunks" /\ r[j[16]].name = "sas_octrlchunks"
           /\ r[j[17]].name = "sas_ictrlchunks" /\ Plain(m[1], "assoc_id", 4, 4)
           /\ Plain(m[2], "max_rto_address", 128, P) /\ Plain(m[3], "max_rto_kernel_ticks", 8, W)
           /\ Plain(m[4], "sacks_received", 8, W) /\ Plain(m[5], "sacks_sent", 8, W)
           /\ Plain(m[6], "packets_sent", 8, W) /\ Plain(m[7], "packets_received", 8, W)
           /\ Plain(m[8], "retransmitted_chunks", 8, W)
           /\ Plain(m[9], "out_of_sequence_tsns", 8, W)
           /\ Plain(m[10], "duplicate_chunks_received", 8, W) /\ Plain(m[11], "gap_acks", 8, W)
           /\ Plain(m[12], "unordered_data_chunks_sent", 8, W)
           /\ Plain(m[13], "unordered_data_chunks_received", 8, W)
           /\ Plain(m[14], "ordered_data_chunks_sent", 8, W)
           /\ Plain(m[15], "ordered_data_chunks_received", 8, W)
           /\ Plain(m[16], "control_chunks_sent", 8, W)
           /\ Plain(m[17], "control_chunks_received", 8, W)
  <1>1. /\ Table(r, rat) /\ Len(r) = 18
        /\ Plain(r[1], "sas_assoc_id", 4, 4) /\ Plain(r[2], "_pad", 4, 4)
        /\ Plain(r[3], "sas_obs_rto_ipaddr", 128, 1) /\ Plain(r[4], "sas_maxrto", 8, W)
        /\ Plain(r[5], "sas_isacks", 8, W) /\ Plain(r[6], "sas_osacks", 8, W)
        /\ Plain(r[7], "sas_opackets", 8, W) /\ Plain(r[8], "sas_ipackets", 8, W)
        /\ Plain(r[9], "sas_rtxchunks", 8, W) /\ Plain(r[10], "sas_outofseqtsns", 8, W)
        /\ Plain(r[11], "sas_idupchunks", 8, W) /\ Plain(r[12], "sas_gapcnt", 8, W)
        /\ Plain(r[13], "sas_ouodchunks", 8, W) /\ Plain(r[14], "sas_iuodchunks", 8, W)
        /\ Plain(r[15], "sas_oodchunks", 8, W) /\ Plain(r[16], "sas_iodchunks", 8, W)
        /\ Plain(r[17], "sas_octrlchunks", 8, W) /\ Plain(r[18], "sas_ictrlchunks", 8, W)
    BY Stats8Table
  <1>2. /\ Table(m, mat) /\ Len(m) = 17
        /\ Plain(m[1], "assoc_id", 4, 4) /\ Plain(m[2], "max_rto_address", 128, P)
        /\ Plain(m[3], "max_rto_kernel_ticks", 8, W) /\ Plain(m[4], "sacks_received", 8, W)
        /\ Plain(m[5], "sacks_sent", 8, W) /\ Plain(m[6], "packets_sent", 8, W)
        /\ Plain(m[7], "packets_received", 8, W) /\ Plain(m[8], "retransmitted_chunks", 8, W)
        /\ Plain(m[9], "out_of_sequence_tsns", 8, W)
        /\ Plain(m[10], "duplicate_chunks_received", 8, W) /\ Plain(m[11], "gap_acks", 8, W)
        /\ Plain(m[12], "unordered_data_chunks_sent", 8, W)
        /\ Plain(m[13], "unordered_data_chunks_received", 8, W)
        /\ Plain(m[14], "ordered_data_chunks_sent", 8, W)
        /\ Plain(m[15], "ordered_data_chunks_received", 8, W)
        /\ Plain(m[16], "control_chunks_sent", 8, W)
        /\ Plain(m[17], "control_chunks_received", 8, W)
    BY KernelStatsTable DEF Host8
  <1>3. \A i \in 1..17 : i \in {1, 2, 3, 4, 5, 6, 7, 8, 9, 10, 11, 12, 13, 14, 15, 16, 17}
    OBVIOUS
  <1>4. \A i \in 1..Len(m) : j[i] \in 1..Len(r) /\ rat[j[i]] = mat[i]
    <2>1. P = 8 /\ c = 136
      BY DEF Host8, Host
    <2>2. Len(m) = 17 /\ Len(r) = 18
      BY <1>1, <1>2
    <2>3. /\ mat[1] = 0 /\ mat[2] = 8 /\ mat[3] = 136 /\ mat[4] = 144 /\ mat[5] = 152
          /\ mat[6] = 160 /\ mat[7] = 168 /\ mat[8] = 176 /\ mat[9] = 184 /\ mat[10] = 192
          /\ mat[11] = 200 /\ mat[12] = 208 /\ mat[13] = 216 /\ mat[14] = 224 /\ mat[15] = 232
          /\ mat[16] = 240 /\ mat[17] = 248
      BY <2>1
    <2>4. /\ rat[1] = 0 /\ rat[2] = 4 /\ rat[3] = 8 /\ rat[4] = 136 /\ rat[5] = 144
          /\ rat[6] = 152 /\ rat[7] = 160 /\ rat[8] = 168 /\ rat[9] = 176 /\ rat[10] = 184
          /\ rat[11] = 192 /\ rat[12] = 200 /\ rat[13] = 208 /\ rat[14] = 216 /\ rat[15] = 224
          /\ rat[16] = 232 /\ rat[17] = 240 /\ rat[18] = 248
      OBVIOUS
    <2>5. /\ j[1] = 1 /\ j[2] = 3 /\ j[3] = 4 /\ j[4] = 5 /\ j[5] = 6 /\ j[6] = 7 /\ j[7] = 8
          /\ j[8] = 9 /\ j[9] = 10 /\ j[10] = 11 /\ j[11] = 12 /\ j[12] = 13 /\ j[13] = 14
          /\ j[14] = 15 /\ j[15] = 16 /\ j[16] = 17 /\ j[17] = 18
      OBVIOUS
    <2>6. ASSUME NEW i \in 1..17 PROVE j[i] \in 1..18 /\ rat[j[i]] = mat[i]
      BY ONLY <1>3, <2>3, <2>4, <2>5, <2>6
    <2> QED
      BY <2>2, <2>6
  <1>5. /\ j[1] = 1 /\ j[2] = 3 /\ j[3] = 4 /\ j[4] = 5 /\ j[5] = 6 /\ j[6] = 7 /\ j[7] = 8
        /\ j[8] = 9 /\ j[9] = 10 /\ j[10] = 11 /\ j[11] = 12 /\ j[12] = 13 /\ j[13] = 14
        /\ j[14] = 15 /\ j[15] = 16 /\ j[16] = 17 /\ j[17] = 18
    OBVIOUS
  <1>6. \A i \in 1..Len(m) : /\ r[j[i]].n = m[i].n /\ r[j[i]].be = FALSE
                            /\ m[i].be = FALSE
    BY <1>1, <1>2, <1>3, <1>5 DEF Plain
  <1>7. Fits(r, rat, m, mat, j)
    BY <1>1, <1>2, <1>4, <1>6 DEF Fits
  <1> QED
    BY <1>1, <1>2, <1>5, <1>7 DEF Plain

\* status, from structures that fit.
LEMMA StatusRead ==
    ASSUME NEW r, NEW rat, NEW m, NEW mat, NEW j, Fits(r, rat, m, mat, j), NEW buf, NEW val,
           NEW special, NEW little, Whole(buf, m, mat, val, little), DOMAIN val = DOMAIN special,
           Len(m) = 9,
           /\ r[j[1]].name = "sstat_assoc_id" /\ r[j[2]].name = "sstat_state"
           /\ r[j[3]].name = "sstat_rwnd" /\ r[j[4]].name = "sstat_unackdata"
           /\ r[j[5]].name = "sstat_penddata" /\ r[j[6]].name = "sstat_instrms"
           /\ r[j[7]].name = "sstat_outstrms" /\ r[j[8]].name = "sstat_fragmentation_point"
           /\ r[j[9]].name = "sstat_primary" /\ m[1].name = "assoc_id" /\ m[2].name = "state"
           /\ m[3].name = "rwnd" /\ m[4].name = "unackdata" /\ m[5].name = "penddata"
           /\ m[6].name = "instrms" /\ m[7].name = "outstrms" /\ m[8].name = "fragmentation_point"
           /\ m[9].name = "primary",
           DOMAIN special = {"state", "primary"},
           /\ AssocState_from_raw(val["state"]) = special["state"]
           /\ PeerAddrInfo_from_sys(val["primary"]) = special["primary"],
           NEW rec,
           rec = [assoc_id |-> Raw(r, buf, "sstat_assoc_id"),
                  state |-> AssocState_from_raw(Raw(r, buf, "sstat_state")),
                  rwnd |-> Raw(r, buf, "sstat_rwnd"),
                  unackdata |-> Raw(r, buf, "sstat_unackdata"),
                  penddata |-> Raw(r, buf, "sstat_penddata"),
                  instrms |-> Raw(r, buf, "sstat_instrms"),
                  outstrms |-> Raw(r, buf, "sstat_outstrms"),
                  fragmentation_point |-> Raw(r, buf, "sstat_fragmentation_point"),
                  primary |-> PeerAddrInfo_from_sys(Raw(r, buf, "sstat_primary"))]
    PROVE  rec = Fields(m, special)
  <1>1. \A i \in 1..9 : i \in {1, 2, 3, 4, 5, 6, 7, 8, 9}
    OBVIOUS
  <1>2. \A i \in 1..Len(m) : Raw(r, buf, r[j[i]].name) = MemberValue(m, val, m[i].name)
    BY ONLY Fits(r, rat, m, mat, j), Whole(buf, m, mat, val, little), FitsRead
  <1>3. /\ Raw(r, buf, "sstat_assoc_id") = MemberValue(m, val, "assoc_id")
        /\ Raw(r, buf, "sstat_state") = MemberValue(m, val, "state")
        /\ Raw(r, buf, "sstat_rwnd") = MemberValue(m, val, "rwnd")
        /\ Raw(r, buf, "sstat_unackdata") = MemberValue(m, val, "unackdata")
        /\ Raw(r, buf, "sstat_penddata") = MemberValue(m, val, "penddata")
        /\ Raw(r, buf, "sstat_instrms") = MemberValue(m, val, "instrms")
        /\ Raw(r, buf, "sstat_outstrms") = MemberValue(m, val, "outstrms")
        /\ Raw(r, buf, "sstat_fragmentation_point") = MemberValue(m, val, "fragmentation_point")
        /\ Raw(r, buf, "sstat_primary") = MemberValue(m, val, "primary")
    BY <1>2
  <1>4. /\ MemberValue(m, val, "state") = val["state"]
        /\ MemberValue(m, val, "primary") = val["primary"]
    BY DEF MemberValue
  <1>5. /\ DOMAIN rec = {"assoc_id", "state", "rwnd", "unackdata", "penddata", "instrms", "outstrms",
              "fragmentation_point", "primary"}
        /\ rec = [f \in DOMAIN rec |-> rec[f]]
    OBVIOUS
  <1>6. /\ rec["assoc_id"] = MemberValue(m, val, "assoc_id") /\ rec["state"] = special["state"]
        /\ rec["rwnd"] = MemberValue(m, val, "rwnd")
        /\ rec["unackdata"] = MemberValue(m, val, "unackdata")
        /\ rec["penddata"] = MemberValue(m, val, "penddata")
        /\ rec["instrms"] = MemberValue(m, val, "instrms")
        /\ rec["outstrms"] = MemberValue(m, val, "outstrms")
        /\ rec["fragmentation_point"] = MemberValue(m, val, "fragmentation_point")
        /\ rec["primary"] = special["primary"]
    BY <1>3, <1>4
  <1>7. {m[i].name : i \in 1..Len(m)}
          = {"assoc_id", "state", "rwnd", "unackdata", "penddata", "instrms", "outstrms",
              "fragmentation_point", "primary"}
    BY <1>1
  <1>8. ASSUME NEW i \in 1..Len(m)
        PROVE  rec[m[i].name] = IF m[i].name \in DOMAIN special THEN special[m[i].name]
                                ELSE MemberValue(m, val, m[i].name)
    BY <1>1, <1>6
  <1>9. Reports(rec, m, val, special)
    BY <1>5, <1>7, <1>8 DEF Reports
  <1> QED
    BY <1>9, ReportIs

\* assoc_stats, from structures that fit.
LEMMA StatsRead ==
    ASSUME NEW r, NEW rat, NEW m, NEW mat, NEW j, Fits(r, rat, m, mat, j), NEW buf, NEW val,
           NEW special, NEW little, Whole(buf, m, mat, val, little), DOMAIN val = DOMAIN special,
           Len(m) = 17,
           /\ r[j[1]].name = "sas_assoc_id" /\ r[j[2]].name = "sas_obs_rto_ipaddr"
           /\ r[j[3]].name = "sas_maxrto" /\ r[j[4]].name = "sas_isacks"
           /\ r[j[5]].name = "sas_osacks" /\ r[j[6]].name = "sas_opackets"
           /\ r[j[7]].name = "sas_ipackets" /\ r[j[8]].name = "sas_rtxchunks"
           /\ r[j[9]].name = "sas_outofseqtsns" /\ r[j[10]].name = "sas_idupchunks"
           /\ r[j[11]].name = "sas_gapcnt" /\ r[j[12]].name = "sas_ouodchunks"
           /\ r[j[13]].name = "sas_iuodchunks" /\ r[j[14]].name = "sas_oodchunks"
           /\ r[j[15]].name = "sas_iodchunks" /\ r[j[16]].name = "sas_octrlchunks"
           /\ r[j[17]].name = "sas_ictrlchunks" /\ m[1].name = "assoc_id"
           /\ m[2].name = "max_rto_address" /\ m[3].name = "max_rto_kernel_ticks"
           /\ m[4].name = "sacks_received" /\ m[5].name = "sacks_sent"
           /\ m[6].name = "packets_sent" /\ m[7].name = "packets_received"
           /\ m[8].name = "retransmitted_chunks" /\ m[9].name = "out_of_sequence_tsns"
           /\ m[10].name = "duplicate_chunks_received" /\ m[11].name = "gap_acks"
           /\ m[12].name = "unordered_data_chunks_sent"
           /\ m[13].name = "unordered_data_chunks_received"
           /\ m[14].name = "ordered_data_chunks_sent"
           /\ m[15].name = "ordered_data_chunks_received" /\ m[16].name = "control_chunks_sent"
           /\ m[17].name = "control_chunks_received",
           DOMAIN special = {"max_rto_address"},
           /\ read_sockaddr(val["max_rto_address"]) = special["max_rto_address"],
           NEW rec,
           rec = [assoc_id |-> Raw(r, buf, "sas_assoc_id"),
                  retransmitted_chunks |-> Raw(r, buf, "sas_rtxchunks"),
                  gap_acks |-> Raw(r, buf, "sas_gapcnt"),
                  out_of_sequence_tsns |-> Raw(r, buf, "sas_outofseqtsns"),
                  sacks_sent |-> Raw(r, buf, "sas_osacks"),
                  sacks_received |-> Raw(r, buf, "sas_isacks"),
                  control_chunks_sent |-> Raw(r, buf, "sas_octrlchunks"),
                  control_chunks_received |-> Raw(r, buf, "sas_ictrlchunks"),
                  ordered_data_chunks_sent |-> Raw(r, buf, "sas_oodchunks"),
                  ordered_data_chunks_received |-> Raw(r, buf, "sas_iodchunks"),
                  unordered_data_chunks_sent |-> Raw(r, buf, "sas_ouodchunks"),
                  unordered_data_chunks_received |-> Raw(r, buf, "sas_iuodchunks"),
                  duplicate_chunks_received |-> Raw(r, buf, "sas_idupchunks"),
                  packets_sent |-> Raw(r, buf, "sas_opackets"),
                  packets_received |-> Raw(r, buf, "sas_ipackets"),
                  max_rto_kernel_ticks |-> Raw(r, buf, "sas_maxrto"),
                  max_rto_address |-> read_sockaddr(Raw(r, buf, "sas_obs_rto_ipaddr"))]
    PROVE  rec = Fields(m, special)
  <1>1. \A i \in 1..17 : i \in {1, 2, 3, 4, 5, 6, 7, 8, 9, 10, 11, 12, 13, 14, 15, 16, 17}
    OBVIOUS
  <1>2. \A i \in 1..Len(m) : Raw(r, buf, r[j[i]].name) = MemberValue(m, val, m[i].name)
    BY ONLY Fits(r, rat, m, mat, j), Whole(buf, m, mat, val, little), FitsRead
  <1>3. /\ Raw(r, buf, "sas_assoc_id") = MemberValue(m, val, "assoc_id")
        /\ Raw(r, buf, "sas_obs_rto_ipaddr") = MemberValue(m, val, "max_rto_address")
        /\ Raw(r, buf, "sas_maxrto") = MemberValue(m, val, "max_rto_kernel_ticks")
        /\ Raw(r, buf, "sas_isacks") = MemberValue(m, val, "sacks_received")
        /\ Raw(r, buf, "sas_osacks") = MemberValue(m, val, "sacks_sent")
        /\ Raw(r, buf, "sas_opackets") = MemberValue(m, val, "packets_sent")
        /\ Raw(r, buf, "sas_ipackets") = MemberValue(m, val, "packets_received")
        /\ Raw(r, buf, "sas_rtxchunks") = MemberValue(m, val, "retransmitted_chunks")
        /\ Raw(r, buf, "sas_outofseqtsns") = MemberValue(m, val, "out_of_sequence_tsns")
        /\ Raw(r, buf, "sas_idupchunks") = MemberValue(m, val, "duplicate_chunks_received")
        /\ Raw(r, buf, "sas_gapcnt") = MemberValue(m, val, "gap_acks")
        /\ Raw(r, buf, "sas_ouodchunks") = MemberValue(m, val, "unordered_data_chunks_sent")
        /\ Raw(r, buf, "sas_iuodchunks") = MemberValue(m, val, "unordered_data_chunks_received")
        /\ Raw(r, buf, "sas_oodchunks") = MemberValue(m, val, "ordered_data_chunks_sent")
        /\ Raw(r, buf, "sas_iodchunks") = MemberValue(m, val, "ordered_data_chunks_received")
        /\ Raw(r, buf, "sas_octrlchunks") = MemberValue(m, val, "control_chunks_sent")
        /\ Raw(r, buf, "sas_ictrlchunks") = MemberValue(m, val, "control_chunks_received")
    BY <1>2
  <1>4. /\ MemberValue(m, val, "max_rto_address") = val["max_rto_address"]
    BY DEF MemberValue
  <1>5. /\ DOMAIN rec = {"assoc_id", "max_rto_address", "max_rto_kernel_ticks", "sacks_received",
              "sacks_sent", "packets_sent", "packets_received", "retransmitted_chunks",
              "out_of_sequence_tsns", "duplicate_chunks_received", "gap_acks",
              "unordered_data_chunks_sent", "unordered_data_chunks_received",
              "ordered_data_chunks_sent", "ordered_data_chunks_received", "control_chunks_sent",
              "control_chunks_received"}
        /\ rec = [f \in DOMAIN rec |-> rec[f]]
    OBVIOUS
  <1>6. /\ rec["assoc_id"] = MemberValue(m, val, "assoc_id")
        /\ rec["max_rto_address"] = special["max_rto_address"]
        /\ rec["max_rto_kernel_ticks"] = MemberValue(m, val, "max_rto_kernel_ticks")
        /\ rec["sacks_received"] = MemberValue(m, val, "sacks_received")
        /\ rec["sacks_sent"] = MemberValue(m, val, "sacks_sent")
        /\ rec["packets_sent"] = MemberValue(m, val, "packets_sent")
        /\ rec["packets_received"] = MemberValue(m, val, "packets_received")
        /\ rec["retransmitted_chunks"] = MemberValue(m, val, "retransmitted_chunks")
        /\ rec["out_of_sequence_tsns"] = MemberValue(m, val, "out_of_sequence_tsns")
        /\ rec["duplicate_chunks_received"] = MemberValue(m, val, "duplicate_chunks_received")
        /\ rec["gap_acks"] = MemberValue(m, val, "gap_acks")
        /\ rec["unordered_data_chunks_sent"] = MemberValue(m, val, "unordered_data_chunks_sent")
        /\ rec["unordered_data_chunks_received"] = MemberValue(m, val, "unordered_data_chunks_received")
        /\ rec["ordered_data_chunks_sent"] = MemberValue(m, val, "ordered_data_chunks_sent")
        /\ rec["ordered_data_chunks_received"] = MemberValue(m, val, "ordered_data_chunks_received")
        /\ rec["control_chunks_sent"] = MemberValue(m, val, "control_chunks_sent")
        /\ rec["control_chunks_received"] = MemberValue(m, val, "control_chunks_received")
    BY <1>3, <1>4
  <1>7. {m[i].name : i \in 1..Len(m)}
          = {"assoc_id", "max_rto_address", "max_rto_kernel_ticks", "sacks_received",
              "sacks_sent", "packets_sent", "packets_received", "retransmitted_chunks",
              "out_of_sequence_tsns", "duplicate_chunks_received", "gap_acks",
              "unordered_data_chunks_sent", "unordered_data_chunks_received",
              "ordered_data_chunks_sent", "ordered_data_chunks_received", "control_chunks_sent",
              "control_chunks_received"}
    BY <1>1
  <1>8. ASSUME NEW i \in 1..Len(m)
        PROVE  rec[m[i].name] = IF m[i].name \in DOMAIN special THEN special[m[i].name]
                                ELSE MemberValue(m, val, m[i].name)
    BY <1>1, <1>6
  <1>9. Reports(rec, m, val, special)
    <2>1. DOMAIN rec = {m[i].name : i \in 1..Len(m)} /\ rec = [f \in DOMAIN rec |-> rec[f]]
      BY ONLY <1>5, <1>7
    <2>2. DOMAIN val = DOMAIN special
      OBVIOUS
    <2> QED
      BY ONLY <1>8, <2>1, <2>2 DEF Reports
  <1> QED
    BY <1>9, ReportIs

\* What peer_addr_info reports.
LEMMA PathDecoded ==
    ASSUME NEW addr \in MaybeAddress, NEW path \in DOMAIN KernelSpinfoState
    PROVE  /\ PathImage(addr, path) \in Seq(Byte) /\ Len(PathImage(addr, path)) = 152
           /\ PeerAddrInfo_from_sys(PathImage(addr, path)) = PathWanted(addr, path)
  <1> DEFINE m == KernelPaddrInfo
             r == sctp_paddrinfo
             at == <<0, 4, 132, 136, 140, 144, 148>>
             j == <<1, 2, 3, 4, 5, 6, 7>>
             s == Field(KernelSpinfoState[path], 4)
             val == [address |-> KernelStorage(addr), state |-> s]
             special == [address |-> Known(addr), state |-> <<path>>]
             buf == PathImage(addr, path)
             rec == PeerAddrInfo_from_sys(buf)
  <1>1. PICK little \in BOOLEAN : little = TRUE
    OBVIOUS
  <1>2. /\ Fits(r, at, m, at, j) /\ Len(m) = 7
        /\ r[j[1]].name = "spinfo_assoc_id" /\ r[j[2]].name = "spinfo_address"
        /\ r[j[3]].name = "spinfo_state" /\ r[j[4]].name = "spinfo_cwnd"
        /\ r[j[5]].name = "spinfo_srtt" /\ r[j[6]].name = "spinfo_rto"
        /\ r[j[7]].name = "spinfo_mtu"
        /\ Plain(m[1], "assoc_id", 4, 4) /\ Plain(m[2], "address", 128, 4)
        /\ Plain(m[3], "state", 4, 4) /\ Plain(m[4], "cwnd", 4, 4) /\ Plain(m[5], "srtt", 4, 4)
        /\ Plain(m[6], "rto", 4, 4) /\ Plain(m[7], "mtu", 4, 4)
    BY PathFits
  <1>3. Fits(r, at, m, at, j)
    BY <1>2
  <1>4. Len(m) = 7 /\ at[7] = 148 /\ m[7].n = 4
    BY <1>2 DEF Plain
  <1>5. \A i \in 1..7 : i \in {1, 2, 3, 4, 5, 6, 7}
    OBVIOUS
  <1>6. buf = Image(m, val, little)
    BY <1>1 DEF PathImage
  <1>7. /\ DOMAIN val = {"address", "state"} /\ val["address"] = KernelStorage(addr)
        /\ val["state"] = s /\ DOMAIN special = {"address", "state"}
        /\ special["address"] = Known(addr) /\ special["state"] = <<path>>
    OBVIOUS
  <1>8. s \in Seq(Byte) /\ Len(s) = 4 /\ PeerAddrState_from_raw(s) = <<path>>
    <2>1. KernelSpinfoState[path] \in Nat /\ PeerAddrState_from_raw(s) = <<path>>
      BY SpinfoState
    <2>2. KernelSpinfoState[path] \in FieldValues
      BY <2>1 DEF FieldValues
    <2> QED
      BY <2>1, <2>2, FirstField
  <1>9. rec = [assoc_id |-> Raw(r, buf, "spinfo_assoc_id"),
               address |-> read_sockaddr(Raw(r, buf, "spinfo_address")),
               state |-> PeerAddrState_from_raw(Raw(r, buf, "spinfo_state")),
               cwnd |-> Raw(r, buf, "spinfo_cwnd"), srtt |-> Raw(r, buf, "spinfo_srtt"),
               rto |-> Raw(r, buf, "spinfo_rto"), mtu |-> Raw(r, buf, "spinfo_mtu")]
    BY DEF PeerAddrInfo_from_sys
  <1>10. PathWanted(addr, path) = Fields(m, special)
    BY DEF PathWanted
  <1> HIDE DEF m, r, at, j, s, val, special, buf, rec
  <1>11. Widths(m, val)
    <2>1. ASSUME NEW i \in 1..Len(m), m[i].name \in DOMAIN val PROVE i \in {2, 3}
      BY <1>2, <1>5, <1>7, <2>1 DEF Plain
    <2>2. val["address"] \in Seq(Byte) /\ Len(val["address"]) = 128
      BY <1>7, StorageReads
    <2>3. val["state"] \in Seq(Byte) /\ Len(val["state"]) = 4
      BY <1>7, <1>8
    <2>4. ASSUME NEW i \in {2, 3}
          PROVE  val[m[i].name] \in Seq(Byte) /\ Len(val[m[i].name]) = m[i].n
      <3>1. CASE i = 2
        BY <1>2, <2>2, <3>1 DEF Plain
      <3>2. CASE i = 3
        BY <1>2, <2>3, <3>2 DEF Plain
      <3> QED
        BY <2>4, <3>1, <3>2
    <2> QED
      BY <2>1, <2>4 DEF Widths
  <1>12. Whole(buf, m, at, val, little)
    BY <1>3, <1>6, <1>11 DEF Whole, Fits
  <1>13. buf \in Seq(Byte) /\ Len(buf) = 152
    <2>1. buf \in Seq(Byte) /\ Len(buf) = at[Len(m)] + m[Len(m)].n
      BY <1>12, WholeIs
    <2> QED
      BY <1>4, <2>1
  <1>14. /\ read_sockaddr(val["address"]) = special["address"]
         /\ PeerAddrState_from_raw(val["state"]) = special["state"]
    BY <1>7, <1>8, StorageReads
  <1>15. rec = Fields(m, special)
    BY <1>2, <1>7, <1>9, <1>12, <1>14, PathRead DEF Plain
  <1> QED
    BY <1>10, <1>13, <1>15 DEF buf, rec

\* What status reports.
LEMMA StatusDecoded ==
    ASSUME NEW addr \in MaybeAddress, NEW state \in DOMAIN KernelSstatState, NEW little \in BOOLEAN,
           NEW val, val = [state |-> Field(KernelSstatState[state], 4),
                           primary |-> PathImage(addr, "Active")],
           NEW buf, buf = Image(KernelStatus, val, little)
    PROVE  AssocStatus_from_sys(buf)
            = Fields(KernelStatus, [state |-> <<state>>, primary |-> PathWanted(addr, "Active")])
  <1> DEFINE m == KernelStatus
             r == sctp_status
             at == <<0, 4, 8, 12, 14, 16, 18, 20, 24>>
             j == <<1, 2, 3, 4, 5, 6, 7, 8, 9>>
             s == Field(KernelSstatState[state], 4)
             p == PathImage(addr, "Active")
             special == [state |-> <<state>>, primary |-> PathWanted(addr, "Active")]
             rec == AssocStatus_from_sys(buf)
  <1>2. /\ Fits(r, at, m, at, j) /\ Len(m) = 9
        /\ r[j[1]].name = "sstat_assoc_id" /\ r[j[2]].name = "sstat_state"
        /\ r[j[3]].name = "sstat_rwnd" /\ r[j[4]].name = "sstat_unackdata"
        /\ r[j[5]].name = "sstat_penddata" /\ r[j[6]].name = "sstat_instrms"
        /\ r[j[7]].name = "sstat_outstrms" /\ r[j[8]].name = "sstat_fragmentation_point"
        /\ r[j[9]].name = "sstat_primary"
        /\ Plain(m[1], "assoc_id", 4, 4) /\ Plain(m[2], "state", 4, 4) /\ Plain(m[3], "rwnd", 4, 4)
        /\ Plain(m[4], "unackdata", 2, 2) /\ Plain(m[5], "penddata", 2, 2)
        /\ Plain(m[6], "instrms", 2, 2) /\ Plain(m[7], "outstrms", 2, 2)
        /\ Plain(m[8], "fragmentation_point", 4, 4) /\ Plain(m[9], "primary", 152, 4)
    BY StatusFits
  <1>3. Fits(r, at, m, at, j)
    BY <1>2
  <1>5. \A i \in 1..9 : i \in {1, 2, 3, 4, 5, 6, 7, 8, 9}
    OBVIOUS
  <1>7. /\ DOMAIN val = {"state", "primary"} /\ val["primary"] = p /\ val["state"] = s
        /\ DOMAIN special = {"state", "primary"}
        /\ special["primary"] = PathWanted(addr, "Active") /\ special["state"] = <<state>>
    OBVIOUS
  <1>8. s \in Seq(Byte) /\ Len(s) = 4 /\ AssocState_from_raw(s) = <<state>>
    <2>1. KernelSstatState[state] \in Nat /\ AssocState_from_raw(s) = <<state>>
      BY SstatState
    <2>2. KernelSstatState[state] \in FieldValues
      BY <2>1 DEF FieldValues
    <2> QED
      BY <2>1, <2>2, FirstField
  <1>1. /\ p \in Seq(Byte) /\ Len(p) = 152
        /\ PeerAddrInfo_from_sys(p) = PathWanted(addr, "Active")
    <2>1. "Active" \in DOMAIN KernelSpinfoState
      BY DEF KernelSpinfoState
    <2> QED
      BY <2>1, PathDecoded
  <1>9. rec = [assoc_id |-> Raw(r, buf, "sstat_assoc_id"),
               state |-> AssocState_from_raw(Raw(r, buf, "sstat_state")),
               rwnd |-> Raw(r, buf, "sstat_rwnd"), unackdata |-> Raw(r, buf, "sstat_unackdata"),
               penddata |-> Raw(r, buf, "sstat_penddata"),
               instrms |-> Raw(r, buf, "sstat_instrms"),
               outstrms |-> Raw(r, buf, "sstat_outstrms"),
               fragmentation_point |-> Raw(r, buf, "sstat_fragmentation_point"),
               primary |-> PeerAddrInfo_from_sys(Raw(r, buf, "sstat_primary"))]
    BY DEF AssocStatus_from_sys
  <1>6. buf = Image(m, val, little)
    OBVIOUS
  <1> HIDE DEF m, r, at, j, s, p, special, rec
  <1>11. Widths(m, val)
    <2>1. ASSUME NEW i \in 1..Len(m), m[i].name \in DOMAIN val PROVE i \in {2, 9}
      BY <1>2, <1>5, <1>7, <2>1 DEF Plain
    <2>4. ASSUME NEW i \in {2, 9}
          PROVE  val[m[i].name] \in Seq(Byte) /\ Len(val[m[i].name]) = m[i].n
      <3>1. CASE i = 2
        BY <1>2, <1>7, <1>8, <3>1 DEF Plain
      <3>2. CASE i = 9
        BY <1>1, <1>2, <1>7, <3>2 DEF Plain
      <3> QED
        BY <2>4, <3>1, <3>2
    <2> QED
      BY <2>1, <2>4 DEF Widths
  <1>12. Whole(buf, m, at, val, little)
    BY <1>3, <1>6, <1>11 DEF Whole, Fits
  <1>14. /\ AssocState_from_raw(val["state"]) = special["state"]
         /\ PeerAddrInfo_from_sys(val["primary"]) = special["primary"]
    BY <1>1, <1>7, <1>8
  <1>15. rec = Fields(m, special)
    BY <1>2, <1>7, <1>9, <1>12, <1>14, StatusRead DEF Plain
  <1> QED
    BY <1>15 DEF rec, m, special

\* The structures agree on every host.
LEMMA StatsFit ==
    ASSUME NEW P, NEW W, NEW c, Host(P, W, c), NEW r, r = sctp_assoc_stats(P, W),
           NEW m, m = KernelAssocStats(P, W), NEW mat,
           mat = <<0, P, c, c + 8, c + 16, c + 24, c + 32, c + 40, c + 48, c + 56, c + 64, c + 72,
                   c + 80, c + 88, c + 96, c + 104, c + 112>>
    PROVE  \E rat, j :
           /\ Fits(r, rat, m, mat, j) /\ Len(m) = 17
           /\ r[j[1]].name = "sas_assoc_id" /\ r[j[2]].name = "sas_obs_rto_ipaddr"
           /\ r[j[3]].name = "sas_maxrto" /\ r[j[4]].name = "sas_isacks"
           /\ r[j[5]].name = "sas_osacks" /\ r[j[6]].name = "sas_opackets"
           /\ r[j[7]].name = "sas_ipackets" /\ r[j[8]].name = "sas_rtxchunks"
           /\ r[j[9]].name = "sas_outofseqtsns" /\ r[j[10]].name = "sas_idupchunks"
           /\ r[j[11]].name = "sas_gapcnt" /\ r[j[12]].name = "sas_ouodchunks"
           /\ r[j[13]].name = "sas_iuodchunks" /\ r[j[14]].name = "sas_oodchunks"
           /\ r[j[15]].name = "sas_iodchunks" /\ r[j[16]].name = "sas_octrlchunks"
           /\ r[j[17]].name = "sas_ictrlchunks" /\ Plain(m[1], "assoc_id", 4, 4)
           /\ Plain(m[2], "max_rto_address", 128, P) /\ Plain(m[3], "max_rto_kernel_ticks", 8, W)
           /\ Plain(m[4], "sacks_received", 8, W) /\ Plain(m[5], "sacks_sent", 8, W)
           /\ Plain(m[6], "packets_sent", 8, W) /\ Plain(m[7], "packets_received", 8, W)
           /\ Plain(m[8], "retransmitted_chunks", 8, W)
           /\ Plain(m[9], "out_of_sequence_tsns", 8, W)
           /\ Plain(m[10], "duplicate_chunks_received", 8, W) /\ Plain(m[11], "gap_acks", 8, W)
           /\ Plain(m[12], "unordered_data_chunks_sent", 8, W)
           /\ Plain(m[13], "unordered_data_chunks_received", 8, W)
           /\ Plain(m[14], "ordered_data_chunks_sent", 8, W)
           /\ Plain(m[15], "ordered_data_chunks_received", 8, W)
           /\ Plain(m[16], "control_chunks_sent", 8, W)
           /\ Plain(m[17], "control_chunks_received", 8, W)
  <1>1. CASE Host4(P, W, c)
    <2> DEFINE j == <<1, 2, 3, 4, 5, 6, 7, 8, 9, 10, 11, 12, 13, 14, 15, 16, 17>>
    <2>1. /\ Fits(r, mat, m, mat, j) /\ Len(m) = 17
          /\ r[j[1]].name = "sas_assoc_id" /\ r[j[2]].name = "sas_obs_rto_ipaddr"
          /\ r[j[3]].name = "sas_maxrto" /\ r[j[4]].name = "sas_isacks"
          /\ r[j[5]].name = "sas_osacks" /\ r[j[6]].name = "sas_opackets"
          /\ r[j[7]].name = "sas_ipackets" /\ r[j[8]].name = "sas_rtxchunks"
          /\ r[j[9]].name = "sas_outofseqtsns" /\ r[j[10]].name = "sas_idupchunks"
          /\ r[j[11]].name = "sas_gapcnt" /\ r[j[12]].name = "sas_ouodchunks"
          /\ r[j[13]].name = "sas_iuodchunks" /\ r[j[14]].name = "sas_oodchunks"
          /\ r[j[15]].name = "sas_iodchunks" /\ r[j[16]].name = "sas_octrlchunks"
          /\ r[j[17]].name = "sas_ictrlchunks" /\ Plain(m[1], "assoc_id", 4, 4)
          /\ Plain(m[2], "max_rto_address", 128, P) /\ Plain(m[3], "max_rto_kernel_ticks", 8, W)
          /\ Plain(m[4], "sacks_received", 8, W) /\ Plain(m[5], "sacks_sent", 8, W)
          /\ Plain(m[6], "packets_sent", 8, W) /\ Plain(m[7], "packets_received", 8, W)
          /\ Plain(m[8], "retransmitted_chunks", 8, W)
          /\ Plain(m[9], "out_of_sequence_tsns", 8, W)
          /\ Plain(m[10], "duplicate_chunks_received", 8, W) /\ Plain(m[11], "gap_acks", 8, W)
          /\ Plain(m[12], "unordered_data_chunks_sent", 8, W)
          /\ Plain(m[13], "unordered_data_chunks_received", 8, W)
          /\ Plain(m[14], "ordered_data_chunks_sent", 8, W)
          /\ Plain(m[15], "ordered_data_chunks_received", 8, W)
          /\ Plain(m[16], "control_chunks_sent", 8, W)
          /\ Plain(m[17], "control_chunks_received", 8, W)
      BY <1>1, Stats4Fits
    <2> HIDE DEF j
    <2> QED
      BY <2>1
  <1>2. CASE Host8(P, W, c)
    <2> DEFINE j == <<1, 3, 4, 5, 6, 7, 8, 9, 10, 11, 12, 13, 14, 15, 16, 17, 18>>
               rat == <<0, 4, 8, 136, 144, 152, 160, 168, 176, 184, 192, 200, 208, 216, 224, 232,
                        240, 248>>
    <2>1. /\ Fits(r, rat, m, mat, j) /\ Len(m) = 17
          /\ r[j[1]].name = "sas_assoc_id" /\ r[j[2]].name = "sas_obs_rto_ipaddr"
          /\ r[j[3]].name = "sas_maxrto" /\ r[j[4]].name = "sas_isacks"
          /\ r[j[5]].name = "sas_osacks" /\ r[j[6]].name = "sas_opackets"
          /\ r[j[7]].name = "sas_ipackets" /\ r[j[8]].name = "sas_rtxchunks"
          /\ r[j[9]].name = "sas_outofseqtsns" /\ r[j[10]].name = "sas_idupchunks"
          /\ r[j[11]].name = "sas_gapcnt" /\ r[j[12]].name = "sas_ouodchunks"
          /\ r[j[13]].name = "sas_iuodchunks" /\ r[j[14]].name = "sas_oodchunks"
          /\ r[j[15]].name = "sas_iodchunks" /\ r[j[16]].name = "sas_octrlchunks"
          /\ r[j[17]].name = "sas_ictrlchunks" /\ Plain(m[1], "assoc_id", 4, 4)
          /\ Plain(m[2], "max_rto_address", 128, P) /\ Plain(m[3], "max_rto_kernel_ticks", 8, W)
          /\ Plain(m[4], "sacks_received", 8, W) /\ Plain(m[5], "sacks_sent", 8, W)
          /\ Plain(m[6], "packets_sent", 8, W) /\ Plain(m[7], "packets_received", 8, W)
          /\ Plain(m[8], "retransmitted_chunks", 8, W)
          /\ Plain(m[9], "out_of_sequence_tsns", 8, W)
          /\ Plain(m[10], "duplicate_chunks_received", 8, W) /\ Plain(m[11], "gap_acks", 8, W)
          /\ Plain(m[12], "unordered_data_chunks_sent", 8, W)
          /\ Plain(m[13], "unordered_data_chunks_received", 8, W)
          /\ Plain(m[14], "ordered_data_chunks_sent", 8, W)
          /\ Plain(m[15], "ordered_data_chunks_received", 8, W)
          /\ Plain(m[16], "control_chunks_sent", 8, W)
          /\ Plain(m[17], "control_chunks_received", 8, W)
      BY <1>2, Stats8Fits
    <2> HIDE DEF j, rat
    <2> QED
      BY <2>1
  <1> QED
    BY <1>1, <1>2 DEF Host, Host4, Host8

\* What assoc_stats reports.
LEMMA StatsDecoded ==
    ASSUME NEW P, NEW W, NEW c, Host(P, W, c), NEW addr \in MaybeAddress, NEW little \in BOOLEAN,
           NEW m, m = KernelAssocStats(P, W),
           NEW val, val = [max_rto_address |-> KernelStorage(addr)],
           NEW buf, buf = Image(m, val, little)
    PROVE  AssocStats_from_sys(buf, P, W) = Fields(m, [max_rto_address |-> Known(addr)])
  <1> DEFINE r == sctp_assoc_stats(P, W)
             mat == <<0, P, c, c + 8, c + 16, c + 24, c + 32, c + 40, c + 48, c + 56, c + 64,
                      c + 72, c + 80, c + 88, c + 96, c + 104, c + 112>>
             special == [max_rto_address |-> Known(addr)]
             rec == AssocStats_from_sys(buf, P, W)
  <1>1. PICK rat, j :
        /\ Fits(r, rat, m, mat, j) /\ Len(m) = 17
        /\ r[j[1]].name = "sas_assoc_id" /\ r[j[2]].name = "sas_obs_rto_ipaddr"
        /\ r[j[3]].name = "sas_maxrto" /\ r[j[4]].name = "sas_isacks"
        /\ r[j[5]].name = "sas_osacks" /\ r[j[6]].name = "sas_opackets"
        /\ r[j[7]].name = "sas_ipackets" /\ r[j[8]].name = "sas_rtxchunks"
        /\ r[j[9]].name = "sas_outofseqtsns" /\ r[j[10]].name = "sas_idupchunks"
        /\ r[j[11]].name = "sas_gapcnt" /\ r[j[12]].name = "sas_ouodchunks"
        /\ r[j[13]].name = "sas_iuodchunks" /\ r[j[14]].name = "sas_oodchunks"
        /\ r[j[15]].name = "sas_iodchunks" /\ r[j[16]].name = "sas_octrlchunks"
        /\ r[j[17]].name = "sas_ictrlchunks" /\ Plain(m[1], "assoc_id", 4, 4)
        /\ Plain(m[2], "max_rto_address", 128, P) /\ Plain(m[3], "max_rto_kernel_ticks", 8, W)
        /\ Plain(m[4], "sacks_received", 8, W) /\ Plain(m[5], "sacks_sent", 8, W)
        /\ Plain(m[6], "packets_sent", 8, W) /\ Plain(m[7], "packets_received", 8, W)
        /\ Plain(m[8], "retransmitted_chunks", 8, W) /\ Plain(m[9], "out_of_sequence_tsns", 8, W)
        /\ Plain(m[10], "duplicate_chunks_received", 8, W) /\ Plain(m[11], "gap_acks", 8, W)
        /\ Plain(m[12], "unordered_data_chunks_sent", 8, W)
        /\ Plain(m[13], "unordered_data_chunks_received", 8, W)
        /\ Plain(m[14], "ordered_data_chunks_sent", 8, W)
        /\ Plain(m[15], "ordered_data_chunks_received", 8, W)
        /\ Plain(m[16], "control_chunks_sent", 8, W)
        /\ Plain(m[17], "control_chunks_received", 8, W)
    BY StatsFit
  <1>2. Fits(r, rat, m, mat, j)
    BY <1>1
  <1>3. \A i \in 1..17 : i \in {1, 2, 3, 4, 5, 6, 7, 8, 9, 10, 11, 12, 13, 14, 15, 16, 17}
    OBVIOUS
  <1>4. /\ DOMAIN val = {"max_rto_address"} /\ val["max_rto_address"] = KernelStorage(addr)
        /\ DOMAIN special = {"max_rto_address"} /\ special["max_rto_address"] = Known(addr)
    OBVIOUS
  <1>5. rec = [assoc_id |-> Raw(r, buf, "sas_assoc_id"),
                retransmitted_chunks |-> Raw(r, buf, "sas_rtxchunks"),
                gap_acks |-> Raw(r, buf, "sas_gapcnt"),
                out_of_sequence_tsns |-> Raw(r, buf, "sas_outofseqtsns"),
                sacks_sent |-> Raw(r, buf, "sas_osacks"),
                sacks_received |-> Raw(r, buf, "sas_isacks"),
                control_chunks_sent |-> Raw(r, buf, "sas_octrlchunks"),
                control_chunks_received |-> Raw(r, buf, "sas_ictrlchunks"),
                ordered_data_chunks_sent |-> Raw(r, buf, "sas_oodchunks"),
                ordered_data_chunks_received |-> Raw(r, buf, "sas_iodchunks"),
                unordered_data_chunks_sent |-> Raw(r, buf, "sas_ouodchunks"),
                unordered_data_chunks_received |-> Raw(r, buf, "sas_iuodchunks"),
                duplicate_chunks_received |-> Raw(r, buf, "sas_idupchunks"),
                packets_sent |-> Raw(r, buf, "sas_opackets"),
                packets_received |-> Raw(r, buf, "sas_ipackets"),
                max_rto_kernel_ticks |-> Raw(r, buf, "sas_maxrto"),
                max_rto_address |-> read_sockaddr(Raw(r, buf, "sas_obs_rto_ipaddr"))]
    BY DEF AssocStats_from_sys
  <1> HIDE DEF r, mat, special, rec
  <1>6. Widths(m, val)
    <2>1. ASSUME NEW i \in 1..Len(m), m[i].name \in DOMAIN val PROVE i = 2
      BY <1>1, <1>3, <1>4, <2>1 DEF Plain
    <2>2. m[2].name = "max_rto_address" /\ m[2].n = 128
      BY <1>1 DEF Plain
    <2>3. val[m[2].name] \in Seq(Byte) /\ Len(val[m[2].name]) = m[2].n
      BY <1>4, <2>2, StorageReads
    <2> QED
      BY <2>1, <2>3 DEF Widths
  <1>7. Whole(buf, m, mat, val, little)
    BY <1>2, <1>6 DEF Whole, Fits
  <1>8. read_sockaddr(val["max_rto_address"]) = special["max_rto_address"]
    BY <1>4, StorageReads
  <1>9. rec = Fields(m, special)
    BY <1>1, <1>4, <1>5, <1>7, <1>8, StatsRead DEF Plain
  <1> QED
    BY <1>9 DEF rec, special

\* Every step of peer_addr_info, status and assoc_stats returns what it should.
LEMMA PathsReported == peer_addr_info => Fine("peer_addr_info")
  <1> SUFFICES ASSUME peer_addr_info PROVE Fine("peer_addr_info")
    OBVIOUS
  <1>1. PICK addr \in MaybeAddress, path \in DOMAIN KernelSpinfoState :
            Done("peer_addr_info", PeerAddrInfo_from_sys(PathImage(addr, path)),
                 PathWanted(addr, path))
    BY DEF peer_addr_info
  <1>2. PeerAddrInfo_from_sys(PathImage(addr, path)) = PathWanted(addr, path)
    BY PathDecoded
  <1> QED
    BY <1>1, <1>2 DEF Done, Fine

LEMMA StatusReported == status => Fine("status")
  <1> SUFFICES ASSUME status PROVE Fine("status")
    OBVIOUS
  <1> DEFINE val(addr, state) == [state |-> Field(KernelSstatState[state], 4),
                                  primary |-> PathImage(addr, "Active")]
             want(addr, state) == Fields(KernelStatus, [state |-> <<state>>,
                                                        primary |-> PathWanted(addr, "Active")])
  <1>1. PICK addr \in MaybeAddress, state \in DOMAIN KernelSstatState :
            Done("status", AssocStatus_from_sys(Image(KernelStatus, val(addr, state), TRUE)),
                 want(addr, state))
    BY DEF status
  <1>2. PICK little \in BOOLEAN : little = TRUE
    OBVIOUS
  <1>3. AssocStatus_from_sys(Image(KernelStatus, val(addr, state), little)) = want(addr, state)
    BY StatusDecoded
  <1> HIDE DEF val, want
  <1> QED
    BY <1>1, <1>2, <1>3 DEF Done, Fine

\* A host is one of those with 4 or 8 bytes for a pointer and for the alignment of u64.
LEMMA HostIs ==
    ASSUME NEW h \in Hosts
    PROVE  h.little \in BOOLEAN /\ \E c : Host(h.P, h.W, c)
  BY DEF Hosts, Host

LEMMA StatsReported == assoc_stats => Fine("assoc_stats")
  <1> SUFFICES ASSUME assoc_stats PROVE Fine("assoc_stats")
    OBVIOUS
  <1> DEFINE m(h) == KernelAssocStats(h.P, h.W)
             val(addr) == [max_rto_address |-> KernelStorage(addr)]
             want(addr, h) == Fields(m(h), [max_rto_address |-> Known(addr)])
  <1>1. PICK addr \in MaybeAddress, h \in Hosts :
            Done("assoc_stats",
                 AssocStats_from_sys(Image(m(h), val(addr), h.little), h.P, h.W), want(addr, h))
    BY DEF assoc_stats
  <1>2. PICK c : Host(h.P, h.W, c)
    BY HostIs
  <1>3. h.little \in BOOLEAN
    BY HostIs
  <1>4. AssocStats_from_sys(Image(m(h), val(addr), h.little), h.P, h.W) = want(addr, h)
    BY <1>2, <1>3, StatsDecoded
  <1> HIDE DEF m, val, want
  <1> QED
    BY <1>1, <1>4 DEF Done, Fine

-----------------------------------------------------------------------------
(* Single addresses and codes.                                             *)

\* bind and connect pass an address as the kernel reads it.
LEMMA AddressesPassed == pass_addr => Fine("pass_addr")
  BY KernelBytes DEF pass_addr, Done, Fine

\* What is read of an address of which len bytes were filled.
LEMMA NameReads ==
    ASSUME NEW addr \in MaybeAddress, NEW len \in 2..128, addr # Foreign => len >= SizeOf(addr)
    PROVE  read_name(KernelStorage(addr), len) = Known(addr)
  <1> DEFINE s == KernelStorage(addr)
             b == SubSeq(s, 1, len)
  <1>1. s \in Seq(Byte) /\ Len(s) = 128
    BY StorageReads
  <1>2. len \in Nat /\ len <= Len(s) /\ len >= 2
    BY <1>1
  <1>3. read_name(s, len) = read_sockaddr(b)
    BY DEF read_name
  <1>10. b \in Seq(Byte) /\ Len(b) = len /\ Prefix(b, s)
    <2> HIDE DEF s
    <2>1. s \in Seq(Byte) /\ len \in Int /\ len <= Len(s)
      BY <1>1, <1>2
    <2>2. /\ b \in Seq(Byte) /\ Len(b) = (IF len >= 0 THEN len ELSE 0) /\ Prefix(b, s)
      BY ONLY <2>1, Beginning
    <2> QED
      BY <1>2, <2>2
  <1>4. b \in Seq(Byte) /\ Len(b) = len /\ \A i \in 1..len : b[i] = s[i]
    BY <1>2, <1>10 DEF Prefix
  <1>5. CASE addr = Foreign
    <2>1. Holds(s, 0, 77, 2)
      BY <1>5, StorageIs
    <2> HIDE DEF s, b
    <2>2. \A i \in 1..2 : i \in 1..len /\ 0 + i = i
      BY <1>2
    <2>3. Holds(b, 0, 77, 2)
      BY <1>4, <2>1, <2>2 DEF Holds
    <2>4. b \in Seq(Byte) /\ Len(b) >= 2
      BY <1>2, <1>4
    <2>5. read_sockaddr(b) = None
      BY <2>3, <2>4, ForeignReads
    <2> QED
      BY <1>3, <1>5, <2>5 DEF Known, s
  <1>6. CASE addr # Foreign
    <2> DEFINE k == KernelSockaddr(addr)
    <2>1. addr \in Addresses /\ Prefix(k, s)
      BY <1>6, StorageIs
    <2>2. Len(k) = SizeOf(addr) /\ SizeOf(addr) \in Nat
      BY <2>1, KernelBytes
    <2>3. Prefix(k, b)
      <3> HIDE DEF k, s, b
      <3> QED
        BY <1>2, <1>4, <1>6, <2>1, <2>2 DEF Prefix
    <2>4. read_sockaddr(b) = Some(addr, SizeOf(addr))
      BY <1>4, <2>1, <2>3, ReadsPrefix
    <2> QED
      BY <1>3, <1>6, <2>4 DEF Known
  <1> QED
    BY <1>5, <1>6

\* Every step of local_addr, peer_addr and accept returns what it should.
LEMMA NamesRead == socket_addr => Fine("socket_addr")
  <1> SUFFICES ASSUME socket_addr PROVE Fine("socket_addr")
    OBVIOUS
  <1>1. PICK addr \in MaybeAddress :
            Done("socket_addr",
                 read_name(KernelStorage(addr), IF addr = Foreign THEN 16 ELSE SizeOf(addr)),
                 Known(addr))
    BY DEF socket_addr
  <1> DEFINE len == IF addr = Foreign THEN 16 ELSE SizeOf(addr)
  <1>2. len \in 2..128 /\ (addr # Foreign => len >= SizeOf(addr))
    BY DEF SizeOf, SOCKADDR_IN_LEN, SOCKADDR_IN6_LEN
  <1>3. Done("socket_addr", read_name(KernelStorage(addr), len), Known(addr))
    BY <1>1
  <1> HIDE DEF len
  <1>4. read_name(KernelStorage(addr), len) = Known(addr)
    BY <1>2, NameReads
  <1> QED
    BY <1>3, <1>4 DEF Done, Fine

\* EventType::to_raw gives the kernel's code.
LEMMA EventCodes == ASSUME NEW e \in DOMAIN KernelEvent PROVE to_raw(e) = KernelEvent[e]
  <1>1. Len(SnTypes) = 13 /\ \A i, j \in 1..13 : SnTypes[i] = SnTypes[j] => i = j
    BY DEF SnTypes
  <1>2. ASSUME NEW i \in 1..13, NEW const, const = SnTypes[i]
        PROVE  (CHOOSE k \in 1..Len(SnTypes) : SnTypes[k] = const) = i
    BY <1>1, <1>2
  <1> QED
    BY <1>2 DEF to_raw, KernelEvent, SnTypes

\* Every step of subscribe passes the kernel's code.
LEMMA EventsSubscribed == subscribe => Fine("subscribe")
  BY EventCodes DEF subscribe, Done, Fine

\* SppFlags has the kernel's bits.
LEMMA FlagBits ==
    ASSUME NEW f \in DOMAIN KernelSppBit
    PROVE  \E i \in 1..10 : SPP[i] = f /\ KernelSppBit[f] = i - 1
  <1>1. /\ SPP[1] = "HB_ENABLE" /\ SPP[2] = "HB_DISABLE" /\ SPP[3] = "HB_DEMAND"
        /\ SPP[4] = "PMTUD_ENABLE" /\ SPP[5] = "PMTUD_DISABLE" /\ SPP[6] = "SACKDELAY_ENABLE"
        /\ SPP[7] = "SACKDELAY_DISABLE" /\ SPP[8] = "HB_TIME_IS_ZERO"
        /\ SPP[9] = "IPV6_FLOWLABEL" /\ SPP[10] = "DSCP"
    BY DEF SPP
  <1>2. /\ KernelSppBit["HB_ENABLE"] = 0 /\ KernelSppBit["HB_DISABLE"] = 1
        /\ KernelSppBit["HB_DEMAND"] = 2 /\ KernelSppBit["PMTUD_ENABLE"] = 3
        /\ KernelSppBit["PMTUD_DISABLE"] = 4 /\ KernelSppBit["SACKDELAY_ENABLE"] = 5
        /\ KernelSppBit["SACKDELAY_DISABLE"] = 6 /\ KernelSppBit["HB_TIME_IS_ZERO"] = 7
        /\ KernelSppBit["IPV6_FLOWLABEL"] = 8 /\ KernelSppBit["DSCP"] = 9
    BY DEF KernelSppBit
  <1>3. f \in {"HB_ENABLE", "HB_DISABLE", "HB_DEMAND", "PMTUD_ENABLE", "PMTUD_DISABLE",
               "SACKDELAY_ENABLE", "SACKDELAY_DISABLE", "HB_TIME_IS_ZERO", "IPV6_FLOWLABEL",
               "DSCP"}
    BY DEF KernelSppBit
  <1> QED
    BY <1>1, <1>2, <1>3

\* Every pair of flags is encoded as the kernel's bits.
LEMMA FlagsEncoded == spp_flags => Fine("spp_flags")
  <1> SUFFICES ASSUME spp_flags PROVE Fine("spp_flags")
    OBVIOUS
  <1>1. PICK f, g \in DOMAIN KernelSppBit :
            Done("spp_flags", bits({f, g}), {KernelSppBit[f], KernelSppBit[g]})
    BY DEF spp_flags
  <1>2. PICK i \in 1..10 : SPP[i] = f /\ KernelSppBit[f] = i - 1
    BY FlagBits
  <1>3. PICK j \in 1..10 : SPP[j] = g /\ KernelSppBit[g] = j - 1
    BY FlagBits
  <1>4. Len(SPP) = 10 /\ \A k, l \in 1..10 : SPP[k] = SPP[l] => k = l
    BY DEF SPP
  <1>5. {k \in 1..Len(SPP) : SPP[k] \in {f, g}} = {i, j}
    BY <1>2, <1>3, <1>4
  <1>6. bits({f, g}) = {k - 1 : k \in {i, j}}
    BY <1>5 DEF bits
  <1>7. bits({f, g}) = {KernelSppBit[f], KernelSppBit[g]}
    BY <1>2, <1>3, <1>6
  <1> QED
    BY <1>1, <1>7 DEF Done, Fine

-----------------------------------------------------------------------------
(* Socket options.                                                         *)

\* Each parameter or field belongs to the member of that meaning.
Stores(map, s, k, j) ==
    \A g \in DOMAIN map : \E i \in 1..Len(k) : k[i].name = g /\ map[g] = s[j[i]].name

\* A structure of sys.rs and the kernel's that agree.
Agree(S, K, sat, kat, j, size) ==
    /\ Fits(S.members, sat, K.members, kat, j)
    /\ \A a, b \in 1..Len(K.members) : j[a] = j[b] => a = b
    /\ size \in Nat /\ size_of(S) = size /\ size_of(K) = size
    /\ SizeOfStruct(S.members) <= size /\ SizeOfStruct(K.members) <= size

\* Values for a structure, which its bytes end with zeros.
Padded(S, at, val, size) ==
    /\ Table(S.members, at) /\ Widths(S.members, val)
    /\ size \in Nat /\ size_of(S) = size /\ SizeOfStruct(S.members) <= size

\* Bytes in which every reading finds the members of m where m has them.
Carries(bytes, m, val) ==
    \A r, j, i : Meets(r, j, m, i) =>
        Raw(r, bytes, r[j].name) = MemberValue(m, val, m[i].name)

\* The bytes of a structure, and what is read from them.
LEMMA PaddedIs ==
    ASSUME NEW S, NEW at, NEW val, NEW size, Padded(S, at, val, size)
    PROVE  /\ BytesOf(S, val) \in Seq(Byte) /\ Len(BytesOf(S, val)) = size
           /\ Carries(BytesOf(S, val), S.members, val)
  <1>a. PICK m : m = S.members
    OBVIOUS
  <1>b. /\ Table(m, at) /\ Widths(m, val)
        /\ size \in Nat /\ size_of(S) = size /\ SizeOfStruct(m) <= size
    BY <1>a DEF Padded
  <1>1. PICK little \in BOOLEAN : little = TRUE
    OBVIOUS
  <1> DEFINE image == Image(m, val, little)
             bytes == BytesOf(S, val)
             d == size - Len(image)
             z == Zeros(d)
  <1>2. Whole(image, m, at, val, little)
    BY <1>b DEF Whole
  <1>3. bytes = image \o z
    BY <1>1, <1>a, <1>b DEF BytesOf
  <1> HIDE DEF image, bytes, d, z
  <1>4. /\ image \in Seq(Byte) /\ Len(image) \in Nat /\ Len(image) = Ends(m)[Len(m)]
        /\ \A i \in 1..Len(m) : Ends(m)[i] <= Len(image)
    BY <1>2, WholeIs
  <1>5. d \in Nat
    BY <1>4, <1>b DEF SizeOfStruct, d
  <1>6. z \in Seq(Byte) /\ Len(z) = d
    <2>1. 0 \in FieldValues
      BY DEF FieldValues
    <2> QED
      BY <1>5, <2>1, FirstField DEF z, Zeros
  <1>7. /\ bytes \in Seq(Byte) /\ Len(bytes) = Len(image) + Len(z)
        /\ \A i \in 1..Len(image) : bytes[i] = image[i]
    BY <1>3, <1>4, <1>6, Concat
  <1>8. Len(bytes) = size
    BY <1>4, <1>6, <1>7, <1>b DEF d
  <1>9. ASSUME NEW r, NEW j, NEW i, Meets(r, j, m, i)
        PROVE  Raw(r, bytes, r[j].name) = MemberValue(m, val, m[i].name)
    <2>1. Raw(r, image, r[j].name) = MemberValue(m, val, m[i].name)
      BY <1>2, <1>9, RawIs
    <2>2. Named(r, r[j].name) = j
      BY <1>9, NamedIs DEF Meets
    <2> DEFINE from == At(m, i)
               to == At(m, i) + m[i].n
    <2>3. /\ Raw(r, image, r[j].name) = Slice(image, from, to)
          /\ Raw(r, bytes, r[j].name) = Slice(bytes, from, to)
      BY <1>9, <2>2 DEF Raw, Meets
    <2>4. from \in Nat /\ to \in Nat /\ from <= to /\ to <= Len(image) /\ to <= Len(bytes)
      <3>1. i \in 1..Len(m) /\ Struct_OK(m)
        BY <1>9, <1>b DEF Meets, Table
      <3>2. At(m, i) \in Nat /\ Ends(m)[i] = At(m, i) + m[i].n /\ m[i].n \in Nat
        BY <3>1, EndsIs DEF Struct_OK
      <3>3. Ends(m)[i] <= Len(image)
        BY <1>4, <3>1
      <3> QED
        BY <1>4, <1>5, <1>6, <1>7, <3>2, <3>3
    <2> HIDE DEF from, to
    <2> DEFINE s == Slice(image, from, to)
    <2>5. s \in Seq(Byte) /\ Len(s) = to - from /\ \A l \in 1..(to - from) : s[l] = image[from + l]
      BY <1>4, <2>4, SubBytes
    <2> HIDE DEF s
    <2>6. \A l \in 1..Len(s) : bytes[from + l] = s[l]
      BY <1>4, <1>7, <2>4, <2>5
    <2>7. to = from + Len(s)
      BY <2>4, <2>5
    <2>8. Slice(bytes, from, to) = s
      BY <1>7, <2>4, <2>5, <2>6, <2>7, SliceIs
    <2> QED
      BY <2>1, <2>3, <2>8 DEF s
  <1>10. Carries(bytes, m, val)
    BY <1>9 DEF Carries
  <1> QED
    BY <1>7, <1>8, <1>10, <1>a DEF bytes

-----------------------------------------------------------------------------
(* Socket options.                                                         *)

\* The members of a structure that is given no values.
LEMMA DefaultIs ==
    ASSUME NEW m, NEW at, Table(m, at)
    PROVE  \A i \in 1..Len(m) : /\ MemberValue(m, << >>, m[i].name) = Field(100 + i, m[i].n)
                                /\ Field(100 + i, m[i].n) \in Seq(Byte)
                                /\ Len(Field(100 + i, m[i].n)) = m[i].n
  <1> DEFINE val == << >>
  <1>1. DOMAIN val = {}
    OBVIOUS
  <1> HIDE DEF val
  <1>2. Widths(m, val)
    BY <1>1 DEF Widths
  <1>3. Struct_OK(m) /\ Distinct(m)
    BY DEF Table
  <1>4. /\ Valued(m, val)
        /\ \A i \in 1..Len(m) : MemberValue(m, val, m[i].name) =
                IF m[i].name \in DOMAIN val THEN val[m[i].name] ELSE Field(100 + i, m[i].n)
    BY <1>2, <1>3, Filling
  <1>5. \A i \in 1..Len(m) : MemberValue(m, val, m[i].name) = Field(100 + i, m[i].n)
    BY <1>1, <1>4
  <1> QED
    BY <1>4, <1>5 DEF Valued, val

\* The value that setsockopt gives member e of S.
Given(sets, k, e) ==
    LET stored == {f \in DOMAIN sets : sets[f] = e.name}
    IN  IF stored = {} THEN Zeros(e.n)
        ELSE Field(100 + Named(k, CHOOSE f \in stored : TRUE), e.n)

\* It is what the parameter of the kernel's member there has, or zero.
LEMMA GivenIs ==
    ASSUME NEW s, NEW sat, NEW k, NEW kat, NEW j, Fits(s, sat, k, kat, j),
           \A a, b \in 1..Len(k) : j[a] = j[b] => a = b, NEW sets, Stores(sets, s, k, j)
    PROVE  /\ \A i \in 1..Len(s) : /\ Given(sets, k, s[i]) \in Seq(Byte)
                                   /\ Len(Given(sets, k, s[i])) = s[i].n
           /\ \A i \in 1..Len(k) : Given(sets, k, s[j[i]]) =
                IF k[i].name \in DOMAIN sets THEN Field(100 + i, k[i].n) ELSE Zeros(k[i].n)
  <1> DEFINE stored(e) == {f \in DOMAIN sets : sets[f] = e.name}
             chosen(e) == CHOOSE f \in stored(e) : TRUE
  <1>1. Struct_OK(s) /\ Struct_OK(k) /\ Distinct(s) /\ Distinct(k)
    BY DEF Fits, Table
  <1>2. \A e : /\ stored(e) = {} => Given(sets, k, e) = Zeros(e.n)
               /\ stored(e) # {} => Given(sets, k, e) = Field(100 + Named(k, chosen(e)), e.n)
    BY DEF Given
  <1>3. \A e : stored(e) # {} => chosen(e) \in stored(e)
    OBVIOUS
  <1>4. ASSUME NEW e, stored(e) # {}
        PROVE  \E i \in 1..Len(k) : /\ k[i].name = chosen(e) /\ Named(k, chosen(e)) = i
                                    /\ e.name = s[j[i]].name
    <2>1. chosen(e) \in DOMAIN sets /\ sets[chosen(e)] = e.name
      BY <1>3, <1>4
    <2> HIDE DEF chosen
    <2>2. PICK i \in 1..Len(k) : k[i].name = chosen(e) /\ sets[chosen(e)] = s[j[i]].name
      BY <2>1 DEF Stores
    <2>3. Named(k, k[i].name) = i
      BY <1>1, NamedIs
    <2> QED
      BY <2>1, <2>2, <2>3
  <1>5. ASSUME NEW i \in 1..Len(s)
        PROVE  Given(sets, k, s[i]) \in Seq(Byte) /\ Len(Given(sets, k, s[i])) = s[i].n
    <2>1. s[i].n \in Nat
      BY <1>1 DEF Struct_OK
    <2>2. CASE stored(s[i]) = {}
      <3>1. 0 \in FieldValues
        BY DEF FieldValues
      <3>2. Zeros(s[i].n) \in Seq(Byte) /\ Len(Zeros(s[i].n)) = s[i].n
        BY <2>1, <3>1, FirstField DEF Zeros
      <3> QED
        BY <1>2, <2>2, <3>2
    <2>3. CASE stored(s[i]) # {}
      <3> DEFINE v == 100 + Named(k, chosen(s[i]))
      <3>1. Named(k, chosen(s[i])) \in 1..Len(k) /\ Len(k) \in Nat
        BY <1>1, <1>4, <2>3 DEF Struct_OK
      <3> HIDE DEF chosen
      <3>2. v \in FieldValues
        BY <3>1 DEF FieldValues
      <3>3. Given(sets, k, s[i]) = Field(v, s[i].n)
        BY <1>2, <2>3
      <3> HIDE DEF v
      <3> QED
        BY <2>1, <3>2, <3>3, FirstField
    <2> QED
      BY <2>2, <2>3
  <1>6. ASSUME NEW i \in 1..Len(k)
        PROVE  Given(sets, k, s[j[i]]) =
                IF k[i].name \in DOMAIN sets THEN Field(100 + i, k[i].n) ELSE Zeros(k[i].n)
    <2> DEFINE e == s[j[i]]
    <2>1. j[i] \in 1..Len(s) /\ e.n = k[i].n
      BY DEF Fits
    <2>2. ASSUME NEW l \in 1..Len(k), s[j[l]].name = e.name PROVE l = i
      <3>1. j[l] \in 1..Len(s)
        BY DEF Fits
      <3>2. j[l] = j[i]
        BY <1>1, <2>1, <2>2, <3>1 DEF Distinct
      <3> QED
        BY <3>2
    <2> HIDE DEF e
    <2>3. CASE stored(e) = {}
      <3>1. ASSUME k[i].name \in DOMAIN sets PROVE FALSE
        <4>1. PICK l \in 1..Len(k) : k[l].name = k[i].name /\ sets[k[i].name] = s[j[l]].name
          BY <3>1 DEF Stores
        <4>2. l = i
          BY <1>1, <4>1 DEF Distinct
        <4>3. sets[k[i].name] = e.name
          BY <4>1, <4>2 DEF e
        <4> QED
          BY <2>3, <3>1, <4>3
      <3>2. Given(sets, k, e) = Zeros(k[i].n)
        BY <1>2, <2>1, <2>3
      <3> QED
        BY <3>1, <3>2 DEF e
    <2>4. CASE stored(e) # {}
      <3>1. PICK l \in 1..Len(k) : /\ k[l].name = chosen(e) /\ Named(k, chosen(e)) = l
                                   /\ e.name = s[j[l]].name
        BY <1>4, <2>4
      <3>2. l = i
        BY <2>2, <3>1
      <3>3. chosen(e) \in DOMAIN sets
        BY <1>3, <2>4
      <3>4. Given(sets, k, e) = Field(100 + i, k[i].n)
        BY <1>2, <2>1, <2>4, <3>1, <3>2
      <3> HIDE DEF chosen
      <3> QED
        BY <3>1, <3>2, <3>3, <3>4 DEF e
    <2> QED
      BY <2>3, <2>4
  <1> QED
    BY <1>5, <1>6

\* What the kernel finds in the structure that setsockopt passes.
LEMMA SetIs ==
    ASSUME NEW opt, NEW P, NEW S, S = sys(opt, P), NEW K, K = Kernel(opt, P),
           NEW sat, NEW kat, NEW j, NEW size, Agree(S, K, sat, kat, j, size),
           Stores(Sets(opt), S.members, K.members, j)
    PROVE  /\ Len(setsockopt(opt, P)) = size_of(K)
           /\ \A f \in Names(K) : Raw(K.members, setsockopt(opt, P), f) =
                IF f \in DOMAIN Sets(opt) THEN MemberValue(K.members, << >>, f)
                ELSE Zeros(Len(MemberValue(K.members, << >>, f)))
  <1> DEFINE s == S.members
             k == K.members
             sets == Sets(opt)
             val == [name \in Names(S) |-> Given(sets, k, s[Named(s, name)])]
             bytes == BytesOf(S, val)
  <1>1. setsockopt(opt, P) = bytes
    BY DEF setsockopt, Given
  <1>2. DOMAIN val = Names(S)
    OBVIOUS
  <1>3. \A name \in Names(S) : val[name] = Given(sets, k, s[Named(s, name)])
    OBVIOUS
  <1>4. Names(S) = {s[i].name : i \in 1..Len(s)} /\ Names(K) = {k[i].name : i \in 1..Len(k)}
    BY DEF Names
  <1>5. /\ Fits(s, sat, k, kat, j) /\ \A a, b \in 1..Len(k) : j[a] = j[b] => a = b
        /\ size \in Nat /\ size_of(S) = size /\ size_of(K) = size /\ SizeOfStruct(s) <= size
        /\ Stores(sets, s, k, j)
    BY DEF Agree
  <1> HIDE DEF val, bytes, sets, k, s
  <1>6. Table(s, sat) /\ Table(k, kat) /\ Struct_OK(s) /\ Distinct(s) /\ Distinct(k)
    BY <1>5 DEF Fits, Table
  <1>7. /\ \A i \in 1..Len(s) : /\ Given(sets, k, s[i]) \in Seq(Byte)
                                /\ Len(Given(sets, k, s[i])) = s[i].n
        /\ \A i \in 1..Len(k) : Given(sets, k, s[j[i]]) =
                IF k[i].name \in DOMAIN sets THEN Field(100 + i, k[i].n) ELSE Zeros(k[i].n)
    BY <1>5, GivenIs
  <1>8. ASSUME NEW i \in 1..Len(s)
        PROVE  s[i].name \in DOMAIN val /\ val[s[i].name] = Given(sets, k, s[i])
    <2>1. Named(s, s[i].name) = i
      BY <1>6, NamedIs
    <2> QED
      BY <1>2, <1>3, <1>4, <2>1
  <1>9. Widths(s, val)
    BY <1>7, <1>8 DEF Widths
  <1>a. Padded(S, sat, val, size)
    BY <1>5, <1>6, <1>9 DEF Padded, s
  <1>10. Len(bytes) = size /\ Carries(bytes, s, val)
    BY <1>a, PaddedIs DEF bytes, s
  <1>11. ASSUME NEW i \in 1..Len(k)
         PROVE  Raw(k, bytes, k[i].name) =
                    IF k[i].name \in DOMAIN sets THEN MemberValue(k, << >>, k[i].name)
                    ELSE Zeros(Len(MemberValue(k, << >>, k[i].name)))
    <2>1. Meets(k, i, s, j[i])
      BY <1>5, FitsMeet
    <2>2. j[i] \in 1..Len(s)
      BY <2>1 DEF Meets
    <2>3. Raw(k, bytes, k[i].name) = MemberValue(s, val, s[j[i]].name)
      BY <1>10, <2>1 DEF Carries
    <2>4. MemberValue(s, val, s[j[i]].name) = Given(sets, k, s[j[i]])
      BY <1>8, <2>2 DEF MemberValue
    <2>5. MemberValue(k, << >>, k[i].name) = Field(100 + i, k[i].n)
          /\ Len(Field(100 + i, k[i].n)) = k[i].n
      BY <1>6, DefaultIs
    <2> QED
      BY <1>7, <2>3, <2>4, <2>5
  <1> QED
    BY <1>1, <1>4, <1>5, <1>10, <1>11 DEF k, sets

\* What getsockopt makes of the structure that the kernel wrote.
LEMMA GetIs ==
    ASSUME NEW opt, NEW P, NEW S, S = sys(opt, P), NEW K, K = Kernel(opt, P),
           NEW sat, NEW kat, NEW j, NEW size, Agree(S, K, sat, kat, j, size),
           Stores(Reads(opt), S.members, K.members, j)
    PROVE  getsockopt(opt, P, SubSeq(BytesOf(K, << >>), 1, size_of(S)))
            = [f \in DOMAIN Reads(opt) |-> MemberValue(K.members, << >>, f)]
  <1> DEFINE s == S.members
             k == K.members
             val == << >>
             bytes == BytesOf(K, val)
             cut == SubSeq(bytes, 1, size_of(S))
  <1>1. /\ Fits(s, sat, k, kat, j)
        /\ size \in Nat /\ size_of(S) = size /\ size_of(K) = size /\ SizeOfStruct(k) <= size
    BY DEF Agree
  <1>2. Table(k, kat)
    BY <1>1 DEF Fits
  <1>3. DOMAIN val = {}
    OBVIOUS
  <1> HIDE DEF val
  <1>4. Widths(k, val)
    BY <1>3 DEF Widths
  <1> HIDE DEF bytes, k
  <1>a. Padded(K, kat, val, size)
    BY <1>1, <1>2, <1>4 DEF Padded, k
  <1>5. bytes \in Seq(Byte) /\ Len(bytes) = size /\ Carries(bytes, k, val)
    BY <1>a, PaddedIs DEF bytes, k
  <1>6. cut = bytes
    <2>1. SubSeq(bytes, 1, Len(bytes)) = bytes
      BY <1>5
    <2> QED
      BY <1>1, <1>5, <2>1
  <1>7. ASSUME NEW f \in DOMAIN Reads(opt)
        PROVE  Raw(s, bytes, Reads(opt)[f]) = MemberValue(k, val, f)
    <2>1. PICK i \in 1..Len(k) : k[i].name = f /\ Reads(opt)[f] = s[j[i]].name
      BY DEF Stores, k
    <2>2. Meets(s, j[i], k, i)
      BY <1>1, FitsMeet
    <2>3. Raw(s, bytes, s[j[i]].name) = MemberValue(k, val, k[i].name)
      BY <1>5, <2>2 DEF Carries
    <2> QED
      BY <2>1, <2>3
  <1>8. getsockopt(opt, P, bytes) = [f \in DOMAIN Reads(opt) |-> Raw(s, bytes, Reads(opt)[f])]
    BY DEF getsockopt
  <1>9. getsockopt(opt, P, bytes) = [f \in DOMAIN Reads(opt) |-> MemberValue(k, val, f)]
    BY <1>7, <1>8
  <1> QED
    BY <1>6, <1>9 DEF k, val, bytes

\* The option's structure and the kernel's agree, and the methods use them alike.
Agreed(opt, P) ==
    \E sat, kat, j, size :
        /\ Agree(sys(opt, P), Kernel(opt, P), sat, kat, j, size)
        /\ Stores(Sets(opt), sys(opt, P).members, Kernel(opt, P).members, j)
        /\ opt \in Readable =>
                Stores(Reads(opt), sys(opt, P).members, Kernel(opt, P).members, j)

Sized(m, at, size) == Table(m, at) /\ at[Len(m)] + m[Len(m)].n = size

\* The size of a structure, from its table.
LEMMA TableSize ==
    ASSUME NEW m, NEW at, NEW size, Sized(m, at, size)
    PROVE  SizeOfStruct(m) = size
  <1>1. Struct_OK(m) /\ Offsets(m, at)
    BY DEF Sized, Table
  <1>2. Len(m) \in 1..Len(m)
    BY <1>1 DEF Struct_OK
  <1> QED
    BY <1>1, <1>2, TableIs DEF Sized, SizeOfStruct

\* Member b of the structure S has the widest alignment, a.
Widest(m, S, b, a) ==
    /\ S = Struct(m) /\ b \in 1..Len(m) /\ m[b].a = a
    /\ \A i \in 1..Len(m) : m[i].a \in Nat /\ m[i].a <= a

\* The alignment of a structure is that of its widest member.
LEMMA StructIs ==
    ASSUME NEW m, NEW S, NEW b, NEW a, Widest(m, S, b, a)
    PROVE  S.members = m /\ S.align = a
  <1> DEFINE A == {m[i].a : i \in 1..Len(m)}
             top(c) == c \in A /\ \A i \in 1..Len(m) : m[i].a <= c
  <1>1. S.members = m /\ S.align = CHOOSE c \in A : \A i \in 1..Len(m) : m[i].a <= c
    BY DEF Widest, Struct
  <1>2. top(a)
    BY DEF Widest
  <1>3. top(S.align)
    BY <1>1, <1>2
  <1>4. \A c : top(c) => c = a
    BY DEF Widest
  <1> QED
    BY <1>1, <1>3, <1>4

\* Option by option, the structure of sys.rs and the kernel's agree, and the
\* methods store and read each parameter in the member of its meaning.
LEMMA InitmsgAgrees ==
    ASSUME NEW opt, opt = "INITMSG", NEW P \in {4, 8}
    PROVE  Agreed(opt, P)
  <1> DEFINE S == sys(opt, P)
             K == Kernel(opt, P)
             s == S.members
             k == K.members
             at == <<0, 2, 4, 6>>
             j == <<1, 2, 3, 4>>
             size == 8
  <1>1. /\ S = Struct(s) /\ Len(s) = 4
        /\ Plain(s[1], "sinit_num_ostreams", 2, 2) /\ Plain(s[2], "sinit_max_instreams", 2, 2)
        /\ Plain(s[3], "sinit_max_attempts", 2, 2) /\ Plain(s[4], "sinit_max_init_timeo", 2, 2)
    <2>1. PICK m : m = <<Member("sinit_num_ostreams", 2), Member("sinit_max_instreams", 2),
                       Member("sinit_max_attempts", 2), Member("sinit_max_init_timeo", 2)>>
      OBVIOUS
    <2>2. /\ Len(m) = 4
          /\ Plain(m[1], "sinit_num_ostreams", 2, 2) /\ Plain(m[2], "sinit_max_instreams", 2, 2)
          /\ Plain(m[3], "sinit_max_attempts", 2, 2) /\ Plain(m[4], "sinit_max_init_timeo", 2, 2)
      BY <2>1 DEF Member, Plain
    <2>3. S = Struct(m)
      BY <2>1 DEF sys, sctp_initmsg
    <2>4. S.members = m
      BY <2>3 DEF Struct
    <2> QED
      BY <2>2, <2>3, <2>4
  <1>2. /\ K = Struct(k) /\ Len(k) = 4
        /\ Plain(k[1], "num_ostreams", 2, 2) /\ Plain(k[2], "max_instreams", 2, 2)
        /\ Plain(k[3], "max_attempts", 2, 2) /\ Plain(k[4], "max_init_timeo", 2, 2)
    <2>1. PICK m : m = Ints(<<"num_ostreams", "max_instreams", "max_attempts",
                       "max_init_timeo">>, 2)
      OBVIOUS
    <2>2. /\ Len(m) = 4
          /\ Plain(m[1], "num_ostreams", 2, 2) /\ Plain(m[2], "max_instreams", 2, 2)
          /\ Plain(m[3], "max_attempts", 2, 2) /\ Plain(m[4], "max_init_timeo", 2, 2)
      BY <2>1 DEF Ints, Member, Plain
    <2>3. K = Struct(m)
      BY <2>1 DEF Kernel
    <2>4. K.members = m
      BY <2>3 DEF Struct
    <2> QED
      BY <2>2, <2>3, <2>4
  <1>3. \A i \in 1..4 : i \in {1, 2, 3, 4}
    OBVIOUS
  <1> HIDE DEF S, K, s, k
  <1>4. Table(s, at)
    <2>1. Struct_OK(s)
      BY <1>1, <1>3 DEF Struct_OK, Plain
    <2>2. Distinct(s)
      BY <1>1, <1>3 DEF Distinct, Plain
    <2>3. Offsets(s, at)
      BY <1>1, <1>3 DEF Offsets, RoundUp, Plain
    <2> QED
      BY <2>1, <2>2, <2>3 DEF Table
  <1>5. Table(k, at)
    <2>1. Struct_OK(k)
      BY <1>2, <1>3 DEF Struct_OK, Plain
    <2>2. Distinct(k)
      BY <1>2, <1>3 DEF Distinct, Plain
    <2>3. Offsets(k, at)
      BY <1>2, <1>3 DEF Offsets, RoundUp, Plain
    <2> QED
      BY <2>1, <2>2, <2>3 DEF Table
  <1>6. /\ j[1] = 1 /\ j[2] = 2 /\ j[3] = 3 /\ j[4] = 4
    OBVIOUS
  <1>7. Fits(s, at, k, at, j)
    <2>1. \A i \in 1..Len(k) : j[i] \in 1..Len(s) /\ at[j[i]] = at[i]
      BY <1>1, <1>2, <1>3, <1>6
    <2>2. \A i \in 1..Len(k) : /\ s[j[i]].n = k[i].n /\ s[j[i]].be = FALSE /\ k[i].be = FALSE
      BY <1>1, <1>2, <1>3, <1>6 DEF Plain
    <2> QED
      BY <1>4, <1>5, <2>1, <2>2 DEF Fits
  <1>8. size_of(S) = size /\ SizeOfStruct(s) <= size /\ S.members = s
    <2>1. SizeOfStruct(s) = 8
      <3>1. Sized(s, at, 8)
        BY <1>1, <1>4 DEF Sized, Plain
      <3> QED
        BY <3>1, TableSize
    <2>2. S.align = 2 /\ S.members = s
      <3>1. Widest(s, S, 1, 2)
        BY <1>1, <1>3 DEF Widest, Plain
      <3> QED
        BY <3>1, StructIs
    <2> QED
      BY <2>1, <2>2 DEF size_of, RoundUp
  <1>9. size_of(K) = size /\ SizeOfStruct(k) <= size /\ K.members = k
    <2>1. SizeOfStruct(k) = 8
      <3>1. Sized(k, at, 8)
        BY <1>2, <1>5 DEF Sized, Plain
      <3> QED
        BY <3>1, TableSize
    <2>2. K.align = 2 /\ K.members = k
      <3>1. Widest(k, K, 1, 2)
        BY <1>2, <1>3 DEF Widest, Plain
      <3> QED
        BY <3>1, StructIs
    <2> QED
      BY <2>1, <2>2 DEF size_of, RoundUp
  <1>10. Agree(S, K, at, at, j, size)
    <2>1. \A a, b \in 1..Len(k) : j[a] = j[b] => a = b
      BY <1>2, <1>3, <1>6
    <2>2. size \in Nat
      OBVIOUS
    <2> HIDE DEF at, j, size
    <2> QED
      BY <1>7, <1>8, <1>9, <2>1, <2>2 DEF Agree
  <1>11. Stores(Sets(opt), s, k, j)
    <2>1. Sets(opt) = InitParams_to_sys
      BY DEF Sets
    <2>2. /\ DOMAIN Sets(opt) = {"num_ostreams", "max_instreams", "max_attempts", "max_init_timeo"}
          /\ Sets(opt)["num_ostreams"] = "sinit_num_ostreams"
          /\ Sets(opt)["max_instreams"] = "sinit_max_instreams"
          /\ Sets(opt)["max_attempts"] = "sinit_max_attempts"
          /\ Sets(opt)["max_init_timeo"] = "sinit_max_init_timeo"
      BY <2>1 DEF InitParams_to_sys
    <2>3. /\ k[1].name = "num_ostreams" /\ s[j[1]].name = "sinit_num_ostreams"
          /\ k[2].name = "max_instreams" /\ s[j[2]].name = "sinit_max_instreams"
          /\ k[3].name = "max_attempts" /\ s[j[3]].name = "sinit_max_attempts"
          /\ k[4].name = "max_init_timeo" /\ s[j[4]].name = "sinit_max_init_timeo"
      BY <1>1, <1>2, <1>6 DEF Plain
    <2>4. Len(k) = 4
      BY <1>2
    <2> HIDE DEF j
    <2> QED
      BY <2>2, <2>3, <2>4 DEF Stores
  <1>12. Stores(Reads(opt), s, k, j)
    <2>1. Reads(opt) = InitParams_from_sys
      BY DEF Reads
    <2>2. /\ DOMAIN Reads(opt) = {"num_ostreams", "max_instreams", "max_attempts", "max_init_timeo"}
          /\ Reads(opt)["num_ostreams"] = "sinit_num_ostreams"
          /\ Reads(opt)["max_instreams"] = "sinit_max_instreams"
          /\ Reads(opt)["max_attempts"] = "sinit_max_attempts"
          /\ Reads(opt)["max_init_timeo"] = "sinit_max_init_timeo"
      BY <2>1 DEF InitParams_from_sys
    <2>3. /\ k[1].name = "num_ostreams" /\ s[j[1]].name = "sinit_num_ostreams"
          /\ k[2].name = "max_instreams" /\ s[j[2]].name = "sinit_max_instreams"
          /\ k[3].name = "max_attempts" /\ s[j[3]].name = "sinit_max_attempts"
          /\ k[4].name = "max_init_timeo" /\ s[j[4]].name = "sinit_max_init_timeo"
      BY <1>1, <1>2, <1>6 DEF Plain
    <2>4. Len(k) = 4
      BY <1>2
    <2> HIDE DEF j
    <2> QED
      BY <2>2, <2>3, <2>4 DEF Stores
  <1> HIDE DEF at, j, size
  <1> QED
    BY <1>8, <1>9, <1>10, <1>11, <1>12 DEF Agreed, S, K

LEMMA EventAgrees ==
    ASSUME NEW opt, opt = "EVENT", NEW P \in {4, 8}
    PROVE  Agreed(opt, P)
  <1> DEFINE S == sys(opt, P)
             K == Kernel(opt, P)
             s == S.members
             k == K.members
             at == <<0, 4, 6>>
             j == <<1, 2, 3>>
             size == 8
  <1>1. /\ S = Struct(s) /\ Len(s) = 3
        /\ Plain(s[1], "se_assoc_id", 4, 4) /\ Plain(s[2], "se_type", 2, 2)
        /\ Plain(s[3], "se_on", 1, 1)
    <2>1. PICK m : m = <<Member("se_assoc_id", 4), Member("se_type", 2), Member("se_on", 1)>>
      OBVIOUS
    <2>2. /\ Len(m) = 3
          /\ Plain(m[1], "se_assoc_id", 4, 4) /\ Plain(m[2], "se_type", 2, 2)
          /\ Plain(m[3], "se_on", 1, 1)
      BY <2>1 DEF Member, Plain
    <2>3. S = Struct(m)
      BY <2>1 DEF sys, sctp_event
    <2>4. S.members = m
      BY <2>3 DEF Struct
    <2> QED
      BY <2>2, <2>3, <2>4
  <1>2. /\ K = Struct(k) /\ Len(k) = 3
        /\ Plain(k[1], "assoc_id", 4, 4) /\ Plain(k[2], "event", 2, 2) /\ Plain(k[3], "on", 1, 1)
    <2>1. PICK m : m = <<Member("assoc_id", 4), Member("event", 2), Member("on", 1)>>
      OBVIOUS
    <2>2. /\ Len(m) = 3
          /\ Plain(m[1], "assoc_id", 4, 4) /\ Plain(m[2], "event", 2, 2)
          /\ Plain(m[3], "on", 1, 1)
      BY <2>1 DEF Member, Plain
    <2>3. K = Struct(m)
      BY <2>1 DEF Kernel
    <2>4. K.members = m
      BY <2>3 DEF Struct
    <2> QED
      BY <2>2, <2>3, <2>4
  <1>3. \A i \in 1..3 : i \in {1, 2, 3}
    OBVIOUS
  <1> HIDE DEF S, K, s, k
  <1>4. Table(s, at)
    <2>1. Struct_OK(s)
      BY <1>1, <1>3 DEF Struct_OK, Plain
    <2>2. Distinct(s)
      BY <1>1, <1>3 DEF Distinct, Plain
    <2>3. Offsets(s, at)
      BY <1>1, <1>3 DEF Offsets, RoundUp, Plain
    <2> QED
      BY <2>1, <2>2, <2>3 DEF Table
  <1>5. Table(k, at)
    <2>1. Struct_OK(k)
      BY <1>2, <1>3 DEF Struct_OK, Plain
    <2>2. Distinct(k)
      BY <1>2, <1>3 DEF Distinct, Plain
    <2>3. Offsets(k, at)
      BY <1>2, <1>3 DEF Offsets, RoundUp, Plain
    <2> QED
      BY <2>1, <2>2, <2>3 DEF Table
  <1>6. /\ j[1] = 1 /\ j[2] = 2 /\ j[3] = 3
    OBVIOUS
  <1>7. Fits(s, at, k, at, j)
    <2>1. \A i \in 1..Len(k) : j[i] \in 1..Len(s) /\ at[j[i]] = at[i]
      BY <1>1, <1>2, <1>3, <1>6
    <2>2. \A i \in 1..Len(k) : /\ s[j[i]].n = k[i].n /\ s[j[i]].be = FALSE /\ k[i].be = FALSE
      BY <1>1, <1>2, <1>3, <1>6 DEF Plain
    <2> QED
      BY <1>4, <1>5, <2>1, <2>2 DEF Fits
  <1>8. size_of(S) = size /\ SizeOfStruct(s) <= size /\ S.members = s
    <2>1. SizeOfStruct(s) = 7
      <3>1. Sized(s, at, 7)
        BY <1>1, <1>4 DEF Sized, Plain
      <3> QED
        BY <3>1, TableSize
    <2>2. S.align = 4 /\ S.members = s
      <3>1. Widest(s, S, 1, 4)
        BY <1>1, <1>3 DEF Widest, Plain
      <3> QED
        BY <3>1, StructIs
    <2> QED
      BY <2>1, <2>2 DEF size_of, RoundUp
  <1>9. size_of(K) = size /\ SizeOfStruct(k) <= size /\ K.members = k
    <2>1. SizeOfStruct(k) = 7
      <3>1. Sized(k, at, 7)
        BY <1>2, <1>5 DEF Sized, Plain
      <3> QED
        BY <3>1, TableSize
    <2>2. K.align = 4 /\ K.members = k
      <3>1. Widest(k, K, 1, 4)
        BY <1>2, <1>3 DEF Widest, Plain
      <3> QED
        BY <3>1, StructIs
    <2> QED
      BY <2>1, <2>2 DEF size_of, RoundUp
  <1>10. Agree(S, K, at, at, j, size)
    <2>1. \A a, b \in 1..Len(k) : j[a] = j[b] => a = b
      BY <1>2, <1>3, <1>6
    <2>2. size \in Nat
      OBVIOUS
    <2> HIDE DEF at, j, size
    <2> QED
      BY <1>7, <1>8, <1>9, <2>1, <2>2 DEF Agree
  <1>11. Stores(Sets(opt), s, k, j)
    <2>1. Sets(opt) = subscribe_event_for
      BY DEF Sets
    <2>2. /\ DOMAIN Sets(opt) = {"assoc_id", "event", "on"}
          /\ Sets(opt)["assoc_id"] = "se_assoc_id" /\ Sets(opt)["event"] = "se_type"
          /\ Sets(opt)["on"] = "se_on"
      BY <2>1 DEF subscribe_event_for
    <2>3. /\ k[1].name = "assoc_id" /\ s[j[1]].name = "se_assoc_id"
          /\ k[2].name = "event" /\ s[j[2]].name = "se_type"
          /\ k[3].name = "on" /\ s[j[3]].name = "se_on"
      BY <1>1, <1>2, <1>6 DEF Plain
    <2>4. Len(k) = 3
      BY <1>2
    <2> HIDE DEF j
    <2> QED
      BY <2>2, <2>3, <2>4 DEF Stores
  <1>12. opt \notin Readable
    BY DEF Readable
  <1> HIDE DEF at, j, size
  <1> QED
    BY <1>8, <1>9, <1>10, <1>11, <1>12 DEF Agreed, S, K

LEMMA RtoInfoAgrees ==
    ASSUME NEW opt, opt = "RTOINFO", NEW P \in {4, 8}
    PROVE  Agreed(opt, P)
  <1> DEFINE S == sys(opt, P)
             K == Kernel(opt, P)
             s == S.members
             k == K.members
             at == <<0, 4, 8, 12>>
             j == <<1, 2, 3, 4>>
             size == 16
  <1>1. /\ S = Struct(s) /\ Len(s) = 4
        /\ Plain(s[1], "srto_assoc_id", 4, 4) /\ Plain(s[2], "srto_initial", 4, 4)
        /\ Plain(s[3], "srto_max", 4, 4) /\ Plain(s[4], "srto_min", 4, 4)
    <2>1. PICK m : m = <<Member("srto_assoc_id", 4), Member("srto_initial", 4),
                       Member("srto_max", 4), Member("srto_min", 4)>>
      OBVIOUS
    <2>2. /\ Len(m) = 4
          /\ Plain(m[1], "srto_assoc_id", 4, 4) /\ Plain(m[2], "srto_initial", 4, 4)
          /\ Plain(m[3], "srto_max", 4, 4) /\ Plain(m[4], "srto_min", 4, 4)
      BY <2>1 DEF Member, Plain
    <2>3. S = Struct(m)
      BY <2>1 DEF sys, sctp_rtoinfo
    <2>4. S.members = m
      BY <2>3 DEF Struct
    <2> QED
      BY <2>2, <2>3, <2>4
  <1>2. /\ K = Struct(k) /\ Len(k) = 4
        /\ Plain(k[1], "assoc_id", 4, 4) /\ Plain(k[2], "initial", 4, 4)
        /\ Plain(k[3], "max", 4, 4) /\ Plain(k[4], "min", 4, 4)
    <2>1. PICK m : m = Ints(<<"assoc_id", "initial", "max", "min">>, 4)
      OBVIOUS
    <2>2. /\ Len(m) = 4
          /\ Plain(m[1], "assoc_id", 4, 4) /\ Plain(m[2], "initial", 4, 4)
          /\ Plain(m[3], "max", 4, 4) /\ Plain(m[4], "min", 4, 4)
      BY <2>1 DEF Ints, Member, Plain
    <2>3. K = Struct(m)
      BY <2>1 DEF Kernel
    <2>4. K.members = m
      BY <2>3 DEF Struct
    <2> QED
      BY <2>2, <2>3, <2>4
  <1>3. \A i \in 1..4 : i \in {1, 2, 3, 4}
    OBVIOUS
  <1> HIDE DEF S, K, s, k
  <1>4. Table(s, at)
    <2>1. Struct_OK(s)
      BY <1>1, <1>3 DEF Struct_OK, Plain
    <2>2. Distinct(s)
      BY <1>1, <1>3 DEF Distinct, Plain
    <2>3. Offsets(s, at)
      BY <1>1, <1>3 DEF Offsets, RoundUp, Plain
    <2> QED
      BY <2>1, <2>2, <2>3 DEF Table
  <1>5. Table(k, at)
    <2>1. Struct_OK(k)
      BY <1>2, <1>3 DEF Struct_OK, Plain
    <2>2. Distinct(k)
      BY <1>2, <1>3 DEF Distinct, Plain
    <2>3. Offsets(k, at)
      BY <1>2, <1>3 DEF Offsets, RoundUp, Plain
    <2> QED
      BY <2>1, <2>2, <2>3 DEF Table
  <1>6. /\ j[1] = 1 /\ j[2] = 2 /\ j[3] = 3 /\ j[4] = 4
    OBVIOUS
  <1>7. Fits(s, at, k, at, j)
    <2>1. \A i \in 1..Len(k) : j[i] \in 1..Len(s) /\ at[j[i]] = at[i]
      BY <1>1, <1>2, <1>3, <1>6
    <2>2. \A i \in 1..Len(k) : /\ s[j[i]].n = k[i].n /\ s[j[i]].be = FALSE /\ k[i].be = FALSE
      BY <1>1, <1>2, <1>3, <1>6 DEF Plain
    <2> QED
      BY <1>4, <1>5, <2>1, <2>2 DEF Fits
  <1>8. size_of(S) = size /\ SizeOfStruct(s) <= size /\ S.members = s
    <2>1. SizeOfStruct(s) = 16
      <3>1. Sized(s, at, 16)
        BY <1>1, <1>4 DEF Sized, Plain
      <3> QED
        BY <3>1, TableSize
    <2>2. S.align = 4 /\ S.members = s
      <3>1. Widest(s, S, 1, 4)
        BY <1>1, <1>3 DEF Widest, Plain
      <3> QED
        BY <3>1, StructIs
    <2> QED
      BY <2>1, <2>2 DEF size_of, RoundUp
  <1>9. size_of(K) = size /\ SizeOfStruct(k) <= size /\ K.members = k
    <2>1. SizeOfStruct(k) = 16
      <3>1. Sized(k, at, 16)
        BY <1>2, <1>5 DEF Sized, Plain
      <3> QED
        BY <3>1, TableSize
    <2>2. K.align = 4 /\ K.members = k
      <3>1. Widest(k, K, 1, 4)
        BY <1>2, <1>3 DEF Widest, Plain
      <3> QED
        BY <3>1, StructIs
    <2> QED
      BY <2>1, <2>2 DEF size_of, RoundUp
  <1>10. Agree(S, K, at, at, j, size)
    <2>1. \A a, b \in 1..Len(k) : j[a] = j[b] => a = b
      BY <1>2, <1>3, <1>6
    <2>2. size \in Nat
      OBVIOUS
    <2> HIDE DEF at, j, size
    <2> QED
      BY <1>7, <1>8, <1>9, <2>1, <2>2 DEF Agree
  <1>11. Stores(Sets(opt), s, k, j)
    <2>1. Sets(opt) = set_rto_info
      BY DEF Sets
    <2>2. /\ DOMAIN Sets(opt) = {"assoc_id", "initial", "max", "min"}
          /\ Sets(opt)["assoc_id"] = "srto_assoc_id" /\ Sets(opt)["initial"] = "srto_initial"
          /\ Sets(opt)["max"] = "srto_max" /\ Sets(opt)["min"] = "srto_min"
      BY <2>1 DEF set_rto_info
    <2>3. /\ k[1].name = "assoc_id" /\ s[j[1]].name = "srto_assoc_id"
          /\ k[2].name = "initial" /\ s[j[2]].name = "srto_initial"
          /\ k[3].name = "max" /\ s[j[3]].name = "srto_max"
          /\ k[4].name = "min" /\ s[j[4]].name = "srto_min"
      BY <1>1, <1>2, <1>6 DEF Plain
    <2>4. Len(k) = 4
      BY <1>2
    <2> HIDE DEF j
    <2> QED
      BY <2>2, <2>3, <2>4 DEF Stores
  <1>12. Stores(Reads(opt), s, k, j)
    <2>1. Reads(opt) = rto_info
      BY DEF Reads
    <2>2. /\ DOMAIN Reads(opt) = {"initial", "max", "min"}
          /\ Reads(opt)["initial"] = "srto_initial" /\ Reads(opt)["max"] = "srto_max"
          /\ Reads(opt)["min"] = "srto_min"
      BY <2>1 DEF rto_info
    <2>3. /\ k[2].name = "initial" /\ s[j[2]].name = "srto_initial"
          /\ k[3].name = "max" /\ s[j[3]].name = "srto_max"
          /\ k[4].name = "min" /\ s[j[4]].name = "srto_min"
      BY <1>1, <1>2, <1>6 DEF Plain
    <2>4. Len(k) = 4
      BY <1>2
    <2> HIDE DEF j
    <2> QED
      BY <2>2, <2>3, <2>4 DEF Stores
  <1> HIDE DEF at, j, size
  <1> QED
    BY <1>8, <1>9, <1>10, <1>11, <1>12 DEF Agreed, S, K

LEMMA AssocInfoAgrees ==
    ASSUME NEW opt, opt = "ASSOCINFO", NEW P \in {4, 8}
    PROVE  Agreed(opt, P)
  <1> DEFINE S == sys(opt, P)
             K == Kernel(opt, P)
             s == S.members
             k == K.members
             at == <<0, 4, 6, 8, 12, 16>>
             j == <<1, 2, 3, 4, 5, 6>>
             size == 20
  <1>1. /\ S = Struct(s) /\ Len(s) = 6
        /\ Plain(s[1], "sasoc_assoc_id", 4, 4) /\ Plain(s[2], "sasoc_asocmaxrxt", 2, 2)
        /\ Plain(s[3], "sasoc_number_peer_destinations", 2, 2)
        /\ Plain(s[4], "sasoc_peer_rwnd", 4, 4) /\ Plain(s[5], "sasoc_local_rwnd", 4, 4)
        /\ Plain(s[6], "sasoc_cookie_life", 4, 4)
    <2>1. PICK m : m = <<Member("sasoc_assoc_id", 4), Member("sasoc_asocmaxrxt", 2),
                       Member("sasoc_number_peer_destinations", 2), Member("sasoc_peer_rwnd", 4),
                       Member("sasoc_local_rwnd", 4), Member("sasoc_cookie_life", 4)>>
      OBVIOUS
    <2>2. /\ Len(m) = 6
          /\ Plain(m[1], "sasoc_assoc_id", 4, 4) /\ Plain(m[2], "sasoc_asocmaxrxt", 2, 2)
          /\ Plain(m[3], "sasoc_number_peer_destinations", 2, 2)
          /\ Plain(m[4], "sasoc_peer_rwnd", 4, 4) /\ Plain(m[5], "sasoc_local_rwnd", 4, 4)
          /\ Plain(m[6], "sasoc_cookie_life", 4, 4)
      BY <2>1 DEF Member, Plain
    <2>3. S = Struct(m)
      BY <2>1 DEF sys, sctp_assocparams
    <2>4. S.members = m
      BY <2>3 DEF Struct
    <2> QED
      BY <2>2, <2>3, <2>4
  <1>2. /\ K = Struct(k) /\ Len(k) = 6
        /\ Plain(k[1], "assoc_id", 4, 4) /\ Plain(k[2], "asocmaxrxt", 2, 2)
        /\ Plain(k[3], "number_peer_destinations", 2, 2) /\ Plain(k[4], "peer_rwnd", 4, 4)
        /\ Plain(k[5], "local_rwnd", 4, 4) /\ Plain(k[6], "cookie_life", 4, 4)
    <2>1. PICK m : m = <<Member("assoc_id", 4), Member("asocmaxrxt", 2),
                       Member("number_peer_destinations", 2), Member("peer_rwnd", 4),
                       Member("local_rwnd", 4), Member("cookie_life", 4)>>
      OBVIOUS
    <2>2. /\ Len(m) = 6
          /\ Plain(m[1], "assoc_id", 4, 4) /\ Plain(m[2], "asocmaxrxt", 2, 2)
          /\ Plain(m[3], "number_peer_destinations", 2, 2) /\ Plain(m[4], "peer_rwnd", 4, 4)
          /\ Plain(m[5], "local_rwnd", 4, 4) /\ Plain(m[6], "cookie_life", 4, 4)
      BY <2>1 DEF Member, Plain
    <2>3. K = Struct(m)
      BY <2>1 DEF Kernel
    <2>4. K.members = m
      BY <2>3 DEF Struct
    <2> QED
      BY <2>2, <2>3, <2>4
  <1>3. \A i \in 1..6 : i \in {1, 2, 3, 4, 5, 6}
    OBVIOUS
  <1> HIDE DEF S, K, s, k
  <1>4. Table(s, at)
    <2>1. Struct_OK(s)
      BY <1>1, <1>3 DEF Struct_OK, Plain
    <2>2. Distinct(s)
      BY <1>1, <1>3 DEF Distinct, Plain
    <2>3. Offsets(s, at)
      BY <1>1, <1>3 DEF Offsets, RoundUp, Plain
    <2> QED
      BY <2>1, <2>2, <2>3 DEF Table
  <1>5. Table(k, at)
    <2>1. Struct_OK(k)
      BY <1>2, <1>3 DEF Struct_OK, Plain
    <2>2. Distinct(k)
      BY <1>2, <1>3 DEF Distinct, Plain
    <2>3. Offsets(k, at)
      BY <1>2, <1>3 DEF Offsets, RoundUp, Plain
    <2> QED
      BY <2>1, <2>2, <2>3 DEF Table
  <1>6. /\ j[1] = 1 /\ j[2] = 2 /\ j[3] = 3 /\ j[4] = 4 /\ j[5] = 5 /\ j[6] = 6
    OBVIOUS
  <1>7. Fits(s, at, k, at, j)
    <2>1. \A i \in 1..Len(k) : j[i] \in 1..Len(s) /\ at[j[i]] = at[i]
      BY <1>1, <1>2, <1>3, <1>6
    <2>2. \A i \in 1..Len(k) : /\ s[j[i]].n = k[i].n /\ s[j[i]].be = FALSE /\ k[i].be = FALSE
      BY <1>1, <1>2, <1>3, <1>6 DEF Plain
    <2> QED
      BY <1>4, <1>5, <2>1, <2>2 DEF Fits
  <1>8. size_of(S) = size /\ SizeOfStruct(s) <= size /\ S.members = s
    <2>1. SizeOfStruct(s) = 20
      <3>1. Sized(s, at, 20)
        BY <1>1, <1>4 DEF Sized, Plain
      <3> QED
        BY <3>1, TableSize
    <2>2. S.align = 4 /\ S.members = s
      <3>1. Widest(s, S, 1, 4)
        BY <1>1, <1>3 DEF Widest, Plain
      <3> QED
        BY <3>1, StructIs
    <2> QED
      BY <2>1, <2>2 DEF size_of, RoundUp
  <1>9. size_of(K) = size /\ SizeOfStruct(k) <= size /\ K.members = k
    <2>1. SizeOfStruct(k) = 20
      <3>1. Sized(k, at, 20)
        BY <1>2, <1>5 DEF Sized, Plain
      <3> QED
        BY <3>1, TableSize
    <2>2. K.align = 4 /\ K.members = k
      <3>1. Widest(k, K, 1, 4)
        BY <1>2, <1>3 DEF Widest, Plain
      <3> QED
        BY <3>1, StructIs
    <2> QED
      BY <2>1, <2>2 DEF size_of, RoundUp
  <1>10. Agree(S, K, at, at, j, size)
    <2>1. \A a, b \in 1..Len(k) : j[a] = j[b] => a = b
      BY <1>2, <1>3, <1>6
    <2>2. size \in Nat
      OBVIOUS
    <2> HIDE DEF at, j, size
    <2> QED
      BY <1>7, <1>8, <1>9, <2>1, <2>2 DEF Agree
  <1>11. Stores(Sets(opt), s, k, j)
    <2>1. Sets(opt) = set_assoc_info
      BY DEF Sets
    <2>2. /\ DOMAIN Sets(opt) = {"assoc_id", "asocmaxrxt", "cookie_life"}
          /\ Sets(opt)["assoc_id"] = "sasoc_assoc_id"
          /\ Sets(opt)["asocmaxrxt"] = "sasoc_asocmaxrxt"
          /\ Sets(opt)["cookie_life"] = "sasoc_cookie_life"
      BY <2>1 DEF set_assoc_info
    <2>3. /\ k[1].name = "assoc_id" /\ s[j[1]].name = "sasoc_assoc_id"
          /\ k[2].name = "asocmaxrxt" /\ s[j[2]].name = "sasoc_asocmaxrxt"
          /\ k[6].name = "cookie_life" /\ s[j[6]].name = "sasoc_cookie_life"
      BY <1>1, <1>2, <1>6 DEF Plain
    <2>4. Len(k) = 6
      BY <1>2
    <2> HIDE DEF j
    <2> QED
      BY <2>2, <2>3, <2>4 DEF Stores
  <1>12. Stores(Reads(opt), s, k, j)
    <2>1. Reads(opt) = assoc_info
      BY DEF Reads
    <2>2. /\ DOMAIN Reads(opt) = {"asocmaxrxt", "number_peer_destinations", "peer_rwnd",
                                  "local_rwnd", "cookie_life"}
          /\ Reads(opt)["asocmaxrxt"] = "sasoc_asocmaxrxt"
          /\ Reads(opt)["number_peer_destinations"] = "sasoc_number_peer_destinations"
          /\ Reads(opt)["peer_rwnd"] = "sasoc_peer_rwnd"
          /\ Reads(opt)["local_rwnd"] = "sasoc_local_rwnd"
          /\ Reads(opt)["cookie_life"] = "sasoc_cookie_life"
      BY <2>1 DEF assoc_info
    <2>3. /\ k[2].name = "asocmaxrxt" /\ s[j[2]].name = "sasoc_asocmaxrxt"
          /\ k[3].name = "number_peer_destinations" /\ s[j[3]].name = "sasoc_number_peer_destinations"
          /\ k[4].name = "peer_rwnd" /\ s[j[4]].name = "sasoc_peer_rwnd"
          /\ k[5].name = "local_rwnd" /\ s[j[5]].name = "sasoc_local_rwnd"
          /\ k[6].name = "cookie_life" /\ s[j[6]].name = "sasoc_cookie_life"
      BY <1>1, <1>2, <1>6 DEF Plain
    <2>4. Len(k) = 6
      BY <1>2
    <2> HIDE DEF j
    <2> QED
      BY <2>2, <2>3, <2>4 DEF Stores
  <1> HIDE DEF at, j, size
  <1> QED
    BY <1>8, <1>9, <1>10, <1>11, <1>12 DEF Agreed, S, K

LEMMA DelayedSackAgrees ==
    ASSUME NEW opt, opt = "DELAYED_SACK", NEW P \in {4, 8}
    PROVE  Agreed(opt, P)
  <1> DEFINE S == sys(opt, P)
             K == Kernel(opt, P)
             s == S.members
             k == K.members
             at == <<0, 4, 8>>
             j == <<1, 2, 3>>
             size == 12
  <1>1. /\ S = Struct(s) /\ Len(s) = 3
        /\ Plain(s[1], "sack_assoc_id", 4, 4) /\ Plain(s[2], "sack_delay", 4, 4)
        /\ Plain(s[3], "sack_freq", 4, 4)
    <2>1. PICK m : m = <<Member("sack_assoc_id", 4), Member("sack_delay", 4), Member("sack_freq",
                       4)>>
      OBVIOUS
    <2>2. /\ Len(m) = 3
          /\ Plain(m[1], "sack_assoc_id", 4, 4) /\ Plain(m[2], "sack_delay", 4, 4)
          /\ Plain(m[3], "sack_freq", 4, 4)
      BY <2>1 DEF Member, Plain
    <2>3. S = Struct(m)
      BY <2>1 DEF sys, sctp_sack_info
    <2>4. S.members = m
      BY <2>3 DEF Struct
    <2> QED
      BY <2>2, <2>3, <2>4
  <1>2. /\ K = Struct(k) /\ Len(k) = 3
        /\ Plain(k[1], "assoc_id", 4, 4) /\ Plain(k[2], "delay_ms", 4, 4)
        /\ Plain(k[3], "freq", 4, 4)
    <2>1. PICK m : m = Ints(<<"assoc_id", "delay_ms", "freq">>, 4)
      OBVIOUS
    <2>2. /\ Len(m) = 3
          /\ Plain(m[1], "assoc_id", 4, 4) /\ Plain(m[2], "delay_ms", 4, 4)
          /\ Plain(m[3], "freq", 4, 4)
      BY <2>1 DEF Ints, Member, Plain
    <2>3. K = Struct(m)
      BY <2>1 DEF Kernel
    <2>4. K.members = m
      BY <2>3 DEF Struct
    <2> QED
      BY <2>2, <2>3, <2>4
  <1>3. \A i \in 1..3 : i \in {1, 2, 3}
    OBVIOUS
  <1> HIDE DEF S, K, s, k
  <1>4. Table(s, at)
    <2>1. Struct_OK(s)
      BY <1>1, <1>3 DEF Struct_OK, Plain
    <2>2. Distinct(s)
      BY <1>1, <1>3 DEF Distinct, Plain
    <2>3. Offsets(s, at)
      BY <1>1, <1>3 DEF Offsets, RoundUp, Plain
    <2> QED
      BY <2>1, <2>2, <2>3 DEF Table
  <1>5. Table(k, at)
    <2>1. Struct_OK(k)
      BY <1>2, <1>3 DEF Struct_OK, Plain
    <2>2. Distinct(k)
      BY <1>2, <1>3 DEF Distinct, Plain
    <2>3. Offsets(k, at)
      BY <1>2, <1>3 DEF Offsets, RoundUp, Plain
    <2> QED
      BY <2>1, <2>2, <2>3 DEF Table
  <1>6. /\ j[1] = 1 /\ j[2] = 2 /\ j[3] = 3
    OBVIOUS
  <1>7. Fits(s, at, k, at, j)
    <2>1. \A i \in 1..Len(k) : j[i] \in 1..Len(s) /\ at[j[i]] = at[i]
      BY <1>1, <1>2, <1>3, <1>6
    <2>2. \A i \in 1..Len(k) : /\ s[j[i]].n = k[i].n /\ s[j[i]].be = FALSE /\ k[i].be = FALSE
      BY <1>1, <1>2, <1>3, <1>6 DEF Plain
    <2> QED
      BY <1>4, <1>5, <2>1, <2>2 DEF Fits
  <1>8. size_of(S) = size /\ SizeOfStruct(s) <= size /\ S.members = s
    <2>1. SizeOfStruct(s) = 12
      <3>1. Sized(s, at, 12)
        BY <1>1, <1>4 DEF Sized, Plain
      <3> QED
        BY <3>1, TableSize
    <2>2. S.align = 4 /\ S.members = s
      <3>1. Widest(s, S, 1, 4)
        BY <1>1, <1>3 DEF Widest, Plain
      <3> QED
        BY <3>1, StructIs
    <2> QED
      BY <2>1, <2>2 DEF size_of, RoundUp
  <1>9. size_of(K) = size /\ SizeOfStruct(k) <= size /\ K.members = k
    <2>1. SizeOfStruct(k) = 12
      <3>1. Sized(k, at, 12)
        BY <1>2, <1>5 DEF Sized, Plain
      <3> QED
        BY <3>1, TableSize
    <2>2. K.align = 4 /\ K.members = k
      <3>1. Widest(k, K, 1, 4)
        BY <1>2, <1>3 DEF Widest, Plain
      <3> QED
        BY <3>1, StructIs
    <2> QED
      BY <2>1, <2>2 DEF size_of, RoundUp
  <1>10. Agree(S, K, at, at, j, size)
    <2>1. \A a, b \in 1..Len(k) : j[a] = j[b] => a = b
      BY <1>2, <1>3, <1>6
    <2>2. size \in Nat
      OBVIOUS
    <2> HIDE DEF at, j, size
    <2> QED
      BY <1>7, <1>8, <1>9, <2>1, <2>2 DEF Agree
  <1>11. Stores(Sets(opt), s, k, j)
    <2>1. Sets(opt) = set_delayed_sack
      BY DEF Sets
    <2>2. /\ DOMAIN Sets(opt) = {"assoc_id", "delay_ms", "freq"}
          /\ Sets(opt)["assoc_id"] = "sack_assoc_id" /\ Sets(opt)["delay_ms"] = "sack_delay"
          /\ Sets(opt)["freq"] = "sack_freq"
      BY <2>1 DEF set_delayed_sack
    <2>3. /\ k[1].name = "assoc_id" /\ s[j[1]].name = "sack_assoc_id"
          /\ k[2].name = "delay_ms" /\ s[j[2]].name = "sack_delay"
          /\ k[3].name = "freq" /\ s[j[3]].name = "sack_freq"
      BY <1>1, <1>2, <1>6 DEF Plain
    <2>4. Len(k) = 3
      BY <1>2
    <2> HIDE DEF j
    <2> QED
      BY <2>2, <2>3, <2>4 DEF Stores
  <1>12. Stores(Reads(opt), s, k, j)
    <2>1. Reads(opt) = delayed_sack
      BY DEF Reads
    <2>2. /\ DOMAIN Reads(opt) = {"delay_ms", "freq"}
          /\ Reads(opt)["delay_ms"] = "sack_delay" /\ Reads(opt)["freq"] = "sack_freq"
      BY <2>1 DEF delayed_sack
    <2>3. /\ k[2].name = "delay_ms" /\ s[j[2]].name = "sack_delay"
          /\ k[3].name = "freq" /\ s[j[3]].name = "sack_freq"
      BY <1>1, <1>2, <1>6 DEF Plain
    <2>4. Len(k) = 3
      BY <1>2
    <2> HIDE DEF j
    <2> QED
      BY <2>2, <2>3, <2>4 DEF Stores
  <1> HIDE DEF at, j, size
  <1> QED
    BY <1>8, <1>9, <1>10, <1>11, <1>12 DEF Agreed, S, K

LEMMA PrimaryAddrAgrees ==
    ASSUME NEW opt, opt = "PRIMARY_ADDR", NEW P \in {4, 8}
    PROVE  Agreed(opt, P)
  <1> DEFINE S == sys(opt, P)
             K == Kernel(opt, P)
             s == S.members
             k == K.members
             at == <<0, 4>>
             j == <<1, 2>>
             size == 132
  <1>1. /\ S = [members |-> s, align |-> 1] /\ Len(s) = 2
        /\ Plain(s[1], "ssp_assoc_id", 4, 1) /\ Plain(s[2], "ssp_addr", 128, 1)
    <2>1. PICK m : m = Packed4(<<Member("ssp_assoc_id", 4), Storage("ssp_addr")>>)
      OBVIOUS
    <2>2. /\ Len(m) = 2
          /\ Plain(m[1], "ssp_assoc_id", 4, 1) /\ Plain(m[2], "ssp_addr", 128, 1)
      BY <2>1 DEF Packed4, Storage, Blob, Member, Plain
    <2>3. S = [members |-> m, align |-> 1]
      BY <2>1 DEF PackedStruct, sys, sctp_prim
    <2>4. S.members = m
      BY <2>3
    <2> QED
      BY <2>2, <2>3, <2>4
  <1>2. /\ K = Struct(k) /\ Len(k) = 2
        /\ Plain(k[1], "assoc_id", 4, 4) /\ Plain(k[2], "address", 128, 1)
    <2>1. PICK m : m = <<Member("assoc_id", 4), Storage("address")>>
      OBVIOUS
    <2>2. /\ Len(m) = 2
          /\ Plain(m[1], "assoc_id", 4, 4) /\ Plain(m[2], "address", 128, 1)
      BY <2>1 DEF Storage, Blob, Member, Plain
    <2>3. K = Struct(m)
      BY <2>1 DEF Kernel
    <2>4. K.members = m
      BY <2>3 DEF Struct
    <2> QED
      BY <2>2, <2>3, <2>4
  <1>3. \A i \in 1..2 : i \in {1, 2}
    OBVIOUS
  <1> HIDE DEF S, K, s, k
  <1>4. Table(s, at)
    <2>1. Struct_OK(s)
      BY <1>1, <1>3 DEF Struct_OK, Plain
    <2>2. Distinct(s)
      BY <1>1, <1>3 DEF Distinct, Plain
    <2>3. Offsets(s, at)
      BY <1>1, <1>3 DEF Offsets, RoundUp, Plain
    <2> QED
      BY <2>1, <2>2, <2>3 DEF Table
  <1>5. Table(k, at)
    <2>1. Struct_OK(k)
      BY <1>2, <1>3 DEF Struct_OK, Plain
    <2>2. Distinct(k)
      BY <1>2, <1>3 DEF Distinct, Plain
    <2>3. Offsets(k, at)
      BY <1>2, <1>3 DEF Offsets, RoundUp, Plain
    <2> QED
      BY <2>1, <2>2, <2>3 DEF Table
  <1>6. /\ j[1] = 1 /\ j[2] = 2
    OBVIOUS
  <1>7. Fits(s, at, k, at, j)
    <2>1. \A i \in 1..Len(k) : j[i] \in 1..Len(s) /\ at[j[i]] = at[i]
      BY <1>1, <1>2, <1>3, <1>6
    <2>2. \A i \in 1..Len(k) : /\ s[j[i]].n = k[i].n /\ s[j[i]].be = FALSE /\ k[i].be = FALSE
      BY <1>1, <1>2, <1>3, <1>6 DEF Plain
    <2> QED
      BY <1>4, <1>5, <2>1, <2>2 DEF Fits
  <1>8. size_of(S) = size /\ SizeOfStruct(s) <= size /\ S.members = s
    <2>1. SizeOfStruct(s) = 132
      <3>1. Sized(s, at, 132)
        BY <1>1, <1>4 DEF Sized, Plain
      <3> QED
        BY <3>1, TableSize
    <2>2. S.align = 1 /\ S.members = s
      BY <1>1
    <2> QED
      BY <2>1, <2>2 DEF size_of, RoundUp
  <1>9. size_of(K) = size /\ SizeOfStruct(k) <= size /\ K.members = k
    <2>1. SizeOfStruct(k) = 132
      <3>1. Sized(k, at, 132)
        BY <1>2, <1>5 DEF Sized, Plain
      <3> QED
        BY <3>1, TableSize
    <2>2. K.align = 4 /\ K.members = k
      <3>1. Widest(k, K, 1, 4)
        BY <1>2, <1>3 DEF Widest, Plain
      <3> QED
        BY <3>1, StructIs
    <2> QED
      BY <2>1, <2>2 DEF size_of, RoundUp
  <1>10. Agree(S, K, at, at, j, size)
    <2>1. \A a, b \in 1..Len(k) : j[a] = j[b] => a = b
      BY <1>2, <1>3, <1>6
    <2>2. size \in Nat
      OBVIOUS
    <2> HIDE DEF at, j, size
    <2> QED
      BY <1>7, <1>8, <1>9, <2>1, <2>2 DEF Agree
  <1>11. Stores(Sets(opt), s, k, j)
    <2>1. Sets(opt) = set_primary
      BY DEF Sets
    <2>2. /\ DOMAIN Sets(opt) = {"assoc_id", "address"}
          /\ Sets(opt)["assoc_id"] = "ssp_assoc_id" /\ Sets(opt)["address"] = "ssp_addr"
      BY <2>1 DEF set_primary
    <2>3. /\ k[1].name = "assoc_id" /\ s[j[1]].name = "ssp_assoc_id"
          /\ k[2].name = "address" /\ s[j[2]].name = "ssp_addr"
      BY <1>1, <1>2, <1>6 DEF Plain
    <2>4. Len(k) = 2
      BY <1>2
    <2> HIDE DEF j
    <2> QED
      BY <2>2, <2>3, <2>4 DEF Stores
  <1>12. opt \notin Readable
    BY DEF Readable
  <1> HIDE DEF at, j, size
  <1> QED
    BY <1>8, <1>9, <1>10, <1>11, <1>12 DEF Agreed, S, K

LEMMA PeerAddrParamsAgrees ==
    ASSUME NEW opt, opt = "PEER_ADDR_PARAMS", NEW P \in {4, 8}
    PROVE  Agreed(opt, P)
  <1> DEFINE S == sys(opt, P)
             K == Kernel(opt, P)
             s == S.members
             k == K.members
             at == <<0, 4, 132, 136, 138, 142, 146, 150, 154, 155>>
             j == <<1, 2, 3, 4, 5, 6, 7, 8, 9>>
             size == 156
  <1>1. /\ S = [members |-> s, align |-> 1] /\ Len(s) = 10
        /\ Plain(s[1], "spp_assoc_id", 4, 1) /\ Plain(s[2], "spp_address", 128, 1)
        /\ Plain(s[3], "spp_hbinterval", 4, 1) /\ Plain(s[4], "spp_pathmaxrxt", 2, 1)
        /\ Plain(s[5], "spp_pathmtu", 4, 1) /\ Plain(s[6], "spp_sackdelay", 4, 1)
        /\ Plain(s[7], "spp_flags", 4, 1) /\ Plain(s[8], "spp_ipv6_flowlabel", 4, 1)
        /\ Plain(s[9], "spp_dscp", 1, 1) /\ Plain(s[10], "_pad", 1, 1)
    <2>1. PICK m : m = Packed4(spp_members \o <<Member("_pad", 1)>>)
      OBVIOUS
    <2>2. /\ Len(m) = 10
          /\ Plain(m[1], "spp_assoc_id", 4, 1) /\ Plain(m[2], "spp_address", 128, 1)
          /\ Plain(m[3], "spp_hbinterval", 4, 1) /\ Plain(m[4], "spp_pathmaxrxt", 2, 1)
          /\ Plain(m[5], "spp_pathmtu", 4, 1) /\ Plain(m[6], "spp_sackdelay", 4, 1)
          /\ Plain(m[7], "spp_flags", 4, 1) /\ Plain(m[8], "spp_ipv6_flowlabel", 4, 1)
          /\ Plain(m[9], "spp_dscp", 1, 1) /\ Plain(m[10], "_pad", 1, 1)
      BY <2>1 DEF Packed4, spp_members, Storage, Blob, Member, Plain
    <2>3. S = [members |-> m, align |-> 1]
      BY <2>1 DEF PackedStruct, sys, sctp_paddrparams
    <2>4. S.members = m
      BY <2>3
    <2> QED
      BY <2>2, <2>3, <2>4
  <1>2. /\ K = [members |-> k, align |-> 4] /\ Len(k) = 9
        /\ Plain(k[1], "assoc_id", 4, 1) /\ Plain(k[2], "address", 128, 1)
        /\ Plain(k[3], "hb_interval", 4, 1) /\ Plain(k[4], "path_max_rxt", 2, 1)
        /\ Plain(k[5], "path_mtu", 4, 1) /\ Plain(k[6], "sack_delay", 4, 1)
        /\ Plain(k[7], "flags", 4, 1) /\ Plain(k[8], "ipv6_flowlabel", 4, 1)
        /\ Plain(k[9], "dscp", 1, 1)
    <2>1. PICK m : m = Packed4(<<Member("assoc_id", 4), Storage("address"), Member("hb_interval",
                       4), Member("path_max_rxt", 2), Member("path_mtu", 4), Member("sack_delay",
                       4), Member("flags", 4), Member("ipv6_flowlabel", 4), Member("dscp", 1)>>)
      OBVIOUS
    <2>2. /\ Len(m) = 9
          /\ Plain(m[1], "assoc_id", 4, 1) /\ Plain(m[2], "address", 128, 1)
          /\ Plain(m[3], "hb_interval", 4, 1) /\ Plain(m[4], "path_max_rxt", 2, 1)
          /\ Plain(m[5], "path_mtu", 4, 1) /\ Plain(m[6], "sack_delay", 4, 1)
          /\ Plain(m[7], "flags", 4, 1) /\ Plain(m[8], "ipv6_flowlabel", 4, 1)
          /\ Plain(m[9], "dscp", 1, 1)
      BY <2>1 DEF Packed4, Storage, Blob, Member, Plain
    <2>3. K = [members |-> m, align |-> 4]
      BY <2>1 DEF PackedStruct, Kernel
    <2>4. K.members = m
      BY <2>3
    <2> QED
      BY <2>2, <2>3, <2>4
  <1>3. \A i \in 1..10 : i \in {1, 2, 3, 4, 5, 6, 7, 8, 9, 10}
    OBVIOUS
  <1> HIDE DEF S, K, s, k
  <1>4. Table(s, at)
    <2>1. Struct_OK(s)
      BY <1>1, <1>3 DEF Struct_OK, Plain
    <2>2. Distinct(s)
      BY <1>1, <1>3 DEF Distinct, Plain
    <2>3. Offsets(s, at)
      BY <1>1, <1>3 DEF Offsets, RoundUp, Plain
    <2> QED
      BY <2>1, <2>2, <2>3 DEF Table
  <1>5. Table(k, at)
    <2>1. Struct_OK(k)
      BY <1>2, <1>3 DEF Struct_OK, Plain
    <2>2. Distinct(k)
      BY <1>2, <1>3 DEF Distinct, Plain
    <2>3. Offsets(k, at)
      BY <1>2, <1>3 DEF Offsets, RoundUp, Plain
    <2> QED
      BY <2>1, <2>2, <2>3 DEF Table
  <1>6. /\ j[1] = 1 /\ j[2] = 2 /\ j[3] = 3 /\ j[4] = 4 /\ j[5] = 5 /\ j[6] = 6 /\ j[7] = 7
        /\ j[8] = 8 /\ j[9] = 9
    OBVIOUS
  <1>7. Fits(s, at, k, at, j)
    <2>1. \A i \in 1..Len(k) : j[i] \in 1..Len(s) /\ at[j[i]] = at[i]
      BY <1>1, <1>2, <1>3, <1>6
    <2>2. \A i \in 1..Len(k) : /\ s[j[i]].n = k[i].n /\ s[j[i]].be = FALSE /\ k[i].be = FALSE
      BY <1>1, <1>2, <1>3, <1>6 DEF Plain
    <2> QED
      BY <1>4, <1>5, <2>1, <2>2 DEF Fits
  <1>8. size_of(S) = size /\ SizeOfStruct(s) <= size /\ S.members = s
    <2>1. SizeOfStruct(s) = 156
      <3>1. Sized(s, at, 156)
        BY <1>1, <1>4 DEF Sized, Plain
      <3> QED
        BY <3>1, TableSize
    <2>2. S.align = 1 /\ S.members = s
      BY <1>1
    <2> QED
      BY <2>1, <2>2 DEF size_of, RoundUp
  <1>9. size_of(K) = size /\ SizeOfStruct(k) <= size /\ K.members = k
    <2>1. SizeOfStruct(k) = 155
      <3>1. Sized(k, at, 155)
        BY <1>2, <1>5 DEF Sized, Plain
      <3> QED
        BY <3>1, TableSize
    <2>2. K.align = 4 /\ K.members = k
      BY <1>2
    <2> QED
      BY <2>1, <2>2 DEF size_of, RoundUp
  <1>10. Agree(S, K, at, at, j, size)
    <2>1. \A a, b \in 1..Len(k) : j[a] = j[b] => a = b
      BY <1>2, <1>3, <1>6
    <2>2. size \in Nat
      OBVIOUS
    <2> HIDE DEF at, j, size
    <2> QED
      BY <1>7, <1>8, <1>9, <2>1, <2>2 DEF Agree
  <1>11. Stores(Sets(opt), s, k, j)
    <2>1. Sets(opt) = set_peer_addr_params
      BY DEF Sets
    <2>2. /\ DOMAIN Sets(opt) = {"assoc_id", "address", "hb_interval", "path_max_rxt", "path_mtu",
                                 "sack_delay", "flags", "ipv6_flowlabel", "dscp"}
          /\ Sets(opt)["assoc_id"] = "spp_assoc_id" /\ Sets(opt)["address"] = "spp_address"
          /\ Sets(opt)["hb_interval"] = "spp_hbinterval"
          /\ Sets(opt)["path_max_rxt"] = "spp_pathmaxrxt" /\ Sets(opt)["path_mtu"] = "spp_pathmtu"
          /\ Sets(opt)["sack_delay"] = "spp_sackdelay" /\ Sets(opt)["flags"] = "spp_flags"
          /\ Sets(opt)["ipv6_flowlabel"] = "spp_ipv6_flowlabel" /\ Sets(opt)["dscp"] = "spp_dscp"
      BY <2>1 DEF set_peer_addr_params
    <2>3. /\ k[1].name = "assoc_id" /\ s[j[1]].name = "spp_assoc_id"
          /\ k[2].name = "address" /\ s[j[2]].name = "spp_address"
          /\ k[3].name = "hb_interval" /\ s[j[3]].name = "spp_hbinterval"
          /\ k[4].name = "path_max_rxt" /\ s[j[4]].name = "spp_pathmaxrxt"
          /\ k[5].name = "path_mtu" /\ s[j[5]].name = "spp_pathmtu"
          /\ k[6].name = "sack_delay" /\ s[j[6]].name = "spp_sackdelay"
          /\ k[7].name = "flags" /\ s[j[7]].name = "spp_flags"
          /\ k[8].name = "ipv6_flowlabel" /\ s[j[8]].name = "spp_ipv6_flowlabel"
          /\ k[9].name = "dscp" /\ s[j[9]].name = "spp_dscp"
      BY <1>1, <1>2, <1>6 DEF Plain
    <2>4. Len(k) = 9
      BY <1>2
    <2> HIDE DEF j
    <2> QED
      BY <2>2, <2>3, <2>4 DEF Stores
  <1>12. Stores(Reads(opt), s, k, j)
    <2>1. Reads(opt) = PeerAddrParams_from_sys
      BY DEF Reads
    <2>2. /\ DOMAIN Reads(opt) = {"hb_interval", "path_max_rxt", "path_mtu", "sack_delay", "flags",
                                  "ipv6_flowlabel", "dscp"}
          /\ Reads(opt)["hb_interval"] = "spp_hbinterval"
          /\ Reads(opt)["path_max_rxt"] = "spp_pathmaxrxt"
          /\ Reads(opt)["path_mtu"] = "spp_pathmtu" /\ Reads(opt)["sack_delay"] = "spp_sackdelay"
          /\ Reads(opt)["flags"] = "spp_flags"
          /\ Reads(opt)["ipv6_flowlabel"] = "spp_ipv6_flowlabel"
          /\ Reads(opt)["dscp"] = "spp_dscp"
      BY <2>1 DEF PeerAddrParams_from_sys
    <2>3. /\ k[3].name = "hb_interval" /\ s[j[3]].name = "spp_hbinterval"
          /\ k[4].name = "path_max_rxt" /\ s[j[4]].name = "spp_pathmaxrxt"
          /\ k[5].name = "path_mtu" /\ s[j[5]].name = "spp_pathmtu"
          /\ k[6].name = "sack_delay" /\ s[j[6]].name = "spp_sackdelay"
          /\ k[7].name = "flags" /\ s[j[7]].name = "spp_flags"
          /\ k[8].name = "ipv6_flowlabel" /\ s[j[8]].name = "spp_ipv6_flowlabel"
          /\ k[9].name = "dscp" /\ s[j[9]].name = "spp_dscp"
      BY <1>1, <1>2, <1>6 DEF Plain
    <2>4. Len(k) = 9
      BY <1>2
    <2> HIDE DEF j
    <2> QED
      BY <2>2, <2>3, <2>4 DEF Stores
  <1> HIDE DEF at, j, size
  <1> QED
    BY <1>8, <1>9, <1>10, <1>11, <1>12 DEF Agreed, S, K

LEMMA PeeloffFlagsAgrees ==
    ASSUME NEW opt, opt = "PEELOFF_FLAGS", NEW P \in {4, 8}
    PROVE  Agreed(opt, P)
  <1> DEFINE S == sys(opt, P)
             K == Kernel(opt, P)
             s == S.members
             k == K.members
             at == <<0, 4, 8>>
             j == <<1, 2, 3>>
             size == 12
  <1>1. /\ S = Struct(s) /\ Len(s) = 3
        /\ Plain(s[1], "associd", 4, 4) /\ Plain(s[2], "sd", 4, 4) /\ Plain(s[3], "flags", 4, 4)
    <2>1. PICK m : m = <<Member("associd", 4), Member("sd", 4), Member("flags", 4)>>
      OBVIOUS
    <2>2. /\ Len(m) = 3
          /\ Plain(m[1], "associd", 4, 4) /\ Plain(m[2], "sd", 4, 4) /\ Plain(m[3], "flags", 4, 4)
      BY <2>1 DEF Member, Plain
    <2>3. S = Struct(m)
      BY <2>1 DEF sys, sctp_peeloff_flags_arg_t
    <2>4. S.members = m
      BY <2>3 DEF Struct
    <2> QED
      BY <2>2, <2>3, <2>4
  <1>2. /\ K = Struct(k) /\ Len(k) = 3
        /\ Plain(k[1], "assoc_id", 4, 4) /\ Plain(k[2], "sd", 4, 4) /\ Plain(k[3], "flags", 4, 4)
    <2>1. PICK m : m = Ints(<<"assoc_id", "sd", "flags">>, 4)
      OBVIOUS
    <2>2. /\ Len(m) = 3
          /\ Plain(m[1], "assoc_id", 4, 4) /\ Plain(m[2], "sd", 4, 4)
          /\ Plain(m[3], "flags", 4, 4)
      BY <2>1 DEF Ints, Member, Plain
    <2>3. K = Struct(m)
      BY <2>1 DEF Kernel
    <2>4. K.members = m
      BY <2>3 DEF Struct
    <2> QED
      BY <2>2, <2>3, <2>4
  <1>3. \A i \in 1..3 : i \in {1, 2, 3}
    OBVIOUS
  <1> HIDE DEF S, K, s, k
  <1>4. Table(s, at)
    <2>1. Struct_OK(s)
      BY <1>1, <1>3 DEF Struct_OK, Plain
    <2>2. Distinct(s)
      BY <1>1, <1>3 DEF Distinct, Plain
    <2>3. Offsets(s, at)
      BY <1>1, <1>3 DEF Offsets, RoundUp, Plain
    <2> QED
      BY <2>1, <2>2, <2>3 DEF Table
  <1>5. Table(k, at)
    <2>1. Struct_OK(k)
      BY <1>2, <1>3 DEF Struct_OK, Plain
    <2>2. Distinct(k)
      BY <1>2, <1>3 DEF Distinct, Plain
    <2>3. Offsets(k, at)
      BY <1>2, <1>3 DEF Offsets, RoundUp, Plain
    <2> QED
      BY <2>1, <2>2, <2>3 DEF Table
  <1>6. /\ j[1] = 1 /\ j[2] = 2 /\ j[3] = 3
    OBVIOUS
  <1>7. Fits(s, at, k, at, j)
    <2>1. \A i \in 1..Len(k) : j[i] \in 1..Len(s) /\ at[j[i]] = at[i]
      BY <1>1, <1>2, <1>3, <1>6
    <2>2. \A i \in 1..Len(k) : /\ s[j[i]].n = k[i].n /\ s[j[i]].be = FALSE /\ k[i].be = FALSE
      BY <1>1, <1>2, <1>3, <1>6 DEF Plain
    <2> QED
      BY <1>4, <1>5, <2>1, <2>2 DEF Fits
  <1>8. size_of(S) = size /\ SizeOfStruct(s) <= size /\ S.members = s
    <2>1. SizeOfStruct(s) = 12
      <3>1. Sized(s, at, 12)
        BY <1>1, <1>4 DEF Sized, Plain
      <3> QED
        BY <3>1, TableSize
    <2>2. S.align = 4 /\ S.members = s
      <3>1. Widest(s, S, 1, 4)
        BY <1>1, <1>3 DEF Widest, Plain
      <3> QED
        BY <3>1, StructIs
    <2> QED
      BY <2>1, <2>2 DEF size_of, RoundUp
  <1>9. size_of(K) = size /\ SizeOfStruct(k) <= size /\ K.members = k
    <2>1. SizeOfStruct(k) = 12
      <3>1. Sized(k, at, 12)
        BY <1>2, <1>5 DEF Sized, Plain
      <3> QED
        BY <3>1, TableSize
    <2>2. K.align = 4 /\ K.members = k
      <3>1. Widest(k, K, 1, 4)
        BY <1>2, <1>3 DEF Widest, Plain
      <3> QED
        BY <3>1, StructIs
    <2> QED
      BY <2>1, <2>2 DEF size_of, RoundUp
  <1>10. Agree(S, K, at, at, j, size)
    <2>1. \A a, b \in 1..Len(k) : j[a] = j[b] => a = b
      BY <1>2, <1>3, <1>6
    <2>2. size \in Nat
      OBVIOUS
    <2> HIDE DEF at, j, size
    <2> QED
      BY <1>7, <1>8, <1>9, <2>1, <2>2 DEF Agree
  <1>11. Stores(Sets(opt), s, k, j)
    <2>1. Sets(opt) = peeloff_with_flags
      BY DEF Sets
    <2>2. /\ DOMAIN Sets(opt) = {"assoc_id", "sd", "flags"}
          /\ Sets(opt)["assoc_id"] = "associd" /\ Sets(opt)["sd"] = "sd"
          /\ Sets(opt)["flags"] = "flags"
      BY <2>1 DEF peeloff_with_flags
    <2>3. /\ k[1].name = "assoc_id" /\ s[j[1]].name = "associd"
          /\ k[2].name = "sd" /\ s[j[2]].name = "sd"
          /\ k[3].name = "flags" /\ s[j[3]].name = "flags"
      BY <1>1, <1>2, <1>6 DEF Plain
    <2>4. Len(k) = 3
      BY <1>2
    <2> HIDE DEF j
    <2> QED
      BY <2>2, <2>3, <2>4 DEF Stores
  <1>12. Stores(Reads(opt), s, k, j)
    <2>1. Reads(opt) = [sd |-> "sd"]
      BY DEF Reads
    <2>2. /\ DOMAIN Reads(opt) = {"sd"}
          /\ Reads(opt)["sd"] = "sd"
      BY <2>1
    <2>3. /\ k[2].name = "sd" /\ s[j[2]].name = "sd"
      BY <1>1, <1>2, <1>6 DEF Plain
    <2>4. Len(k) = 3
      BY <1>2
    <2> HIDE DEF j
    <2> QED
      BY <2>2, <2>3, <2>4 DEF Stores
  <1> HIDE DEF at, j, size
  <1> QED
    BY <1>8, <1>9, <1>10, <1>11, <1>12 DEF Agreed, S, K

LEMMA Connectx3Agrees ==
    ASSUME NEW opt, opt = "CONNECTX3", NEW P \in {4, 8}
    PROVE  Agreed(opt, P)
  <1> DEFINE S == sys(opt, P)
             K == Kernel(opt, P)
             s == S.members
             k == K.members
             at == <<0, 4, 8>>
             j == <<1, 2, 3>>
             size == 8 + P
  <1>1. /\ S = Struct(s) /\ Len(s) = 3
        /\ Plain(s[1], "assoc_id", 4, 4) /\ Plain(s[2], "addr_num", 4, 4)
        /\ Plain(s[3], "addrs", P, P)
    <2>1. PICK m : m = <<Member("assoc_id", 4), Member("addr_num", 4), Member("addrs", P)>>
      OBVIOUS
    <2>2. /\ Len(m) = 3
          /\ Plain(m[1], "assoc_id", 4, 4) /\ Plain(m[2], "addr_num", 4, 4)
          /\ Plain(m[3], "addrs", P, P)
      BY <2>1 DEF Member, Plain
    <2>3. S = Struct(m)
      BY <2>1 DEF sys, sctp_getaddrs_old
    <2>4. S.members = m
      BY <2>3 DEF Struct
    <2> QED
      BY <2>2, <2>3, <2>4
  <1>2. /\ K = Struct(k) /\ Len(k) = 3
        /\ Plain(k[1], "assoc_id", 4, 4) /\ Plain(k[2], "size", 4, 4)
        /\ Plain(k[3], "addrs", P, P)
    <2>1. PICK m : m = <<Member("assoc_id", 4), Member("size", 4), Member("addrs", P)>>
      OBVIOUS
    <2>2. /\ Len(m) = 3
          /\ Plain(m[1], "assoc_id", 4, 4) /\ Plain(m[2], "size", 4, 4)
          /\ Plain(m[3], "addrs", P, P)
      BY <2>1 DEF Member, Plain
    <2>3. K = Struct(m)
      BY <2>1 DEF Kernel
    <2>4. K.members = m
      BY <2>3 DEF Struct
    <2> QED
      BY <2>2, <2>3, <2>4
  <1>3. \A i \in 1..3 : i \in {1, 2, 3}
    OBVIOUS
  <1> HIDE DEF S, K, s, k
  <1>4. Table(s, at)
    <2>1. Struct_OK(s)
      BY <1>1, <1>3 DEF Struct_OK, Plain
    <2>2. Distinct(s)
      BY <1>1, <1>3 DEF Distinct, Plain
    <2>3. Offsets(s, at)
      <3>1. CASE P = 4
        BY <1>1, <1>3, <3>1 DEF Offsets, RoundUp, Plain
      <3>2. CASE P = 8
        BY <1>1, <1>3, <3>2 DEF Offsets, RoundUp, Plain
      <3> QED
        BY <3>1, <3>2
    <2> QED
      BY <2>1, <2>2, <2>3 DEF Table
  <1>5. Table(k, at)
    <2>1. Struct_OK(k)
      BY <1>2, <1>3 DEF Struct_OK, Plain
    <2>2. Distinct(k)
      BY <1>2, <1>3 DEF Distinct, Plain
    <2>3. Offsets(k, at)
      <3>1. CASE P = 4
        BY <1>2, <1>3, <3>1 DEF Offsets, RoundUp, Plain
      <3>2. CASE P = 8
        BY <1>2, <1>3, <3>2 DEF Offsets, RoundUp, Plain
      <3> QED
        BY <3>1, <3>2
    <2> QED
      BY <2>1, <2>2, <2>3 DEF Table
  <1>6. /\ j[1] = 1 /\ j[2] = 2 /\ j[3] = 3
    OBVIOUS
  <1>7. Fits(s, at, k, at, j)
    <2>1. \A i \in 1..Len(k) : j[i] \in 1..Len(s) /\ at[j[i]] = at[i]
      BY <1>1, <1>2, <1>3, <1>6
    <2>2. \A i \in 1..Len(k) : /\ s[j[i]].n = k[i].n /\ s[j[i]].be = FALSE /\ k[i].be = FALSE
      BY <1>1, <1>2, <1>3, <1>6 DEF Plain
    <2> QED
      BY <1>4, <1>5, <2>1, <2>2 DEF Fits
  <1>8. size_of(S) = size /\ SizeOfStruct(s) <= size /\ S.members = s
    <2>1. SizeOfStruct(s) = 8 + P
      <3>1. Sized(s, at, 8 + P)
        BY <1>1, <1>4 DEF Sized, Plain
      <3> QED
        BY <3>1, TableSize
    <2>2. S.align = P /\ S.members = s
      <3>1. Widest(s, S, 3, P)
        BY <1>1, <1>3 DEF Widest, Plain
      <3> QED
        BY <3>1, StructIs
    <2> QED
      BY <2>1, <2>2 DEF size_of, RoundUp
  <1>9. size_of(K) = size /\ SizeOfStruct(k) <= size /\ K.members = k
    <2>1. SizeOfStruct(k) = 8 + P
      <3>1. Sized(k, at, 8 + P)
        BY <1>2, <1>5 DEF Sized, Plain
      <3> QED
        BY <3>1, TableSize
    <2>2. K.align = P /\ K.members = k
      <3>1. Widest(k, K, 3, P)
        BY <1>2, <1>3 DEF Widest, Plain
      <3> QED
        BY <3>1, StructIs
    <2> QED
      BY <2>1, <2>2 DEF size_of, RoundUp
  <1>10. Agree(S, K, at, at, j, size)
    <2>1. \A a, b \in 1..Len(k) : j[a] = j[b] => a = b
      BY <1>2, <1>3, <1>6
    <2>2. size \in Nat
      OBVIOUS
    <2> HIDE DEF at, j, size
    <2> QED
      BY <1>7, <1>8, <1>9, <2>1, <2>2 DEF Agree
  <1>11. Stores(Sets(opt), s, k, j)
    <2>1. Sets(opt) = connectx_param
      BY DEF Sets
    <2>2. /\ DOMAIN Sets(opt) = {"size", "addrs"}
          /\ Sets(opt)["size"] = "addr_num" /\ Sets(opt)["addrs"] = "addrs"
      BY <2>1 DEF connectx_param
    <2>3. /\ k[2].name = "size" /\ s[j[2]].name = "addr_num"
          /\ k[3].name = "addrs" /\ s[j[3]].name = "addrs"
      BY <1>1, <1>2, <1>6 DEF Plain
    <2>4. Len(k) = 3
      BY <1>2
    <2> HIDE DEF j
    <2> QED
      BY <2>2, <2>3, <2>4 DEF Stores
  <1>12. Stores(Reads(opt), s, k, j)
    <2>1. Reads(opt) = [assoc_id |-> "assoc_id"]
      BY DEF Reads
    <2>2. /\ DOMAIN Reads(opt) = {"assoc_id"}
          /\ Reads(opt)["assoc_id"] = "assoc_id"
      BY <2>1
    <2>3. /\ k[1].name = "assoc_id" /\ s[j[1]].name = "assoc_id"
      BY <1>1, <1>2, <1>6 DEF Plain
    <2>4. Len(k) = 3
      BY <1>2
    <2> HIDE DEF j
    <2> QED
      BY <2>2, <2>3, <2>4 DEF Stores
  <1> HIDE DEF at, j, size
  <1> QED
    BY <1>8, <1>9, <1>10, <1>11, <1>12 DEF Agreed, S, K

\* So for every option.
LEMMA OptionsAgree ==
    ASSUME NEW opt \in Settable, NEW P \in {4, 8}
    PROVE  Agreed(opt, P)
  BY InitmsgAgrees, EventAgrees, RtoInfoAgrees, AssocInfoAgrees, DelayedSackAgrees,
     PrimaryAddrAgrees, PeerAddrParamsAgrees, PeeloffFlagsAgrees, Connectx3Agrees
     DEF Settable

\* Every step of a setter passes what the kernel is to find.
LEMMA OptionsSet == set_option => Fine("set_option")
  <1> SUFFICES ASSUME set_option PROVE Fine("set_option")
    OBVIOUS
  <1> DEFINE found(opt, P) ==
                 [size |-> Len(setsockopt(opt, P)),
                  fields |-> [f \in Names(Kernel(opt, P)) |->
                                Raw(Kernel(opt, P).members, setsockopt(opt, P), f)]]
             value(opt, P, f) == MemberValue(Kernel(opt, P).members, << >>, f)
             sent(opt, P) ==
                 [size |-> size_of(Kernel(opt, P)),
                  fields |-> [f \in Names(Kernel(opt, P)) |->
                                IF f \in DOMAIN Sets(opt) THEN value(opt, P, f)
                                ELSE Zeros(Len(value(opt, P, f)))]]
  <1>1. PICK opt \in Settable, P \in {4, 8} : Done("set_option", found(opt, P), sent(opt, P))
    BY DEF set_option
  <1>2. PICK sat, kat, j, size :
            /\ Agree(sys(opt, P), Kernel(opt, P), sat, kat, j, size)
            /\ Stores(Sets(opt), sys(opt, P).members, Kernel(opt, P).members, j)
    BY OptionsAgree DEF Agreed
  <1>3. /\ Len(setsockopt(opt, P)) = size_of(Kernel(opt, P))
        /\ \A f \in Names(Kernel(opt, P)) : Raw(Kernel(opt, P).members, setsockopt(opt, P), f) =
                IF f \in DOMAIN Sets(opt) THEN value(opt, P, f) ELSE Zeros(Len(value(opt, P, f)))
    BY ONLY <1>2, SetIs
  <1> HIDE DEF value
  <1>4. found(opt, P) = sent(opt, P)
    BY <1>3
  <1> HIDE DEF found, sent
  <1> QED
    BY <1>1, <1>4 DEF Done, Fine

\* Every step of a getter returns what the kernel wrote.
LEMMA OptionsRead == get_option => Fine("get_option")
  <1> SUFFICES ASSUME get_option PROVE Fine("get_option")
    OBVIOUS
  <1> DEFINE found(opt, P) ==
                 getsockopt(opt, P,
                            SubSeq(BytesOf(Kernel(opt, P), << >>), 1, size_of(sys(opt, P))))
             sent(opt, P) ==
                 [f \in DOMAIN Reads(opt) |-> MemberValue(Kernel(opt, P).members, << >>, f)]
  <1>1. PICK opt \in Readable, P \in {4, 8} : Done("get_option", found(opt, P), sent(opt, P))
    BY DEF get_option
  <1>2. opt \in Settable
    BY DEF Readable
  <1>3. PICK sat, kat, j, size :
            /\ Agree(sys(opt, P), Kernel(opt, P), sat, kat, j, size)
            /\ Stores(Reads(opt), sys(opt, P).members, Kernel(opt, P).members, j)
    BY <1>2, OptionsAgree DEF Agreed
  <1>4. found(opt, P) = sent(opt, P)
    BY ONLY <1>3, GetIs
  <1> HIDE DEF found, sent
  <1> QED
    BY <1>1, <1>4 DEF Done, Fine

-----------------------------------------------------------------------------
(* Control messages.                                                       *)

\* A message as the kernel attaches it, in full.
Attached(x, level, ty, data, P, h) ==
    /\ P \in {4, 8} /\ h = P + 8 /\ data \in Seq(Byte) /\ level \in Nat /\ ty \in Nat
    /\ x = PaddedCmsg(KernelCmsg(level, ty, data, P), P)

\* h is the length of a header.
LEMMA HeaderIs ==
    ASSUME NEW P \in {4, 8}
    PROVE  /\ HDR_LEN(P) = P + 8 /\ (IF P = 8 THEN 16 ELSE 12) = P + 8
           /\ \A n \in Nat : RoundUp(n, P) \in Nat /\ RoundUp(n, P) >= n
           /\ \A n \in Nat : align(n, P) = RoundUp(n, P)
  <1>1. CASE P = 4
    BY <1>1, RoundUpFacts DEF HDR_LEN, align, RoundUp
  <1>2. CASE P = 8
    BY <1>2, RoundUpFacts DEF HDR_LEN, align, RoundUp
  <1> QED
    BY <1>1, <1>2

\* What stands where in a message.
LEMMA CmsgIs ==
    ASSUME NEW x, NEW level, NEW ty, NEW data, NEW P, NEW h, Attached(x, level, ty, data, P, h)
    PROVE  /\ x \in Seq(Byte) /\ Len(data) \in Nat
           /\ Len(x) = RoundUp(h + Len(data), P) /\ Len(x) >= h + Len(data)
           /\ Holds(x, 0, h + Len(data), P) /\ Holds(x, P, level, 4) /\ Holds(x, P + 4, ty, 4)
           /\ \A i \in 1..Len(data) : x[h + i] = data[i]
           /\ Len(KernelCmsg(level, ty, data, P)) = h + Len(data)
  <1> DEFINE len == h + Len(data)
             a == Field(len, P)
             b == Add(a, level, 4)
             c == Add(b, ty, 4)
             d == c \o data
             pad == RoundUp(len, P) - len
             z == Zeros(pad)
  <1>1. P \in Nat /\ P \in {4, 8} /\ h = P + 8 /\ data \in Seq(Byte) /\ Len(data) \in Nat
        /\ level \in Nat /\ ty \in Nat
    BY LenProperties DEF Attached
  <1>2. len \in Nat /\ pad \in Nat
    <2>1. len \in Nat
      BY <1>1
    <2> HIDE DEF len
    <2>2. RoundUp(len, P) \in Nat /\ RoundUp(len, P) >= len
      BY <1>1, <2>1, HeaderIs
    <2> QED
      BY <2>1, <2>2
  <1>3. KernelCmsg(level, ty, data, P) = d
    <2>1. (IF P = 8 THEN 16 ELSE 12) = h
      BY <1>1, HeaderIs
    <2> QED
      BY <2>1 DEF KernelCmsg, Add
  <1> HIDE DEF a, b, c, len, pad
  <1>4. len \in FieldValues /\ level \in FieldValues /\ ty \in FieldValues /\ 0 \in FieldValues
    BY <1>1, <1>2 DEF FieldValues
  <1>5. a \in Seq(Byte) /\ Len(a) = P /\ Holds(a, 0, len, P)
    BY <1>1, <1>4, FirstField DEF a
  <1>6. Extended(a, P, b, level, 4)
    BY <1>1, <1>4, <1>5, AddField DEF b
  <1>7. b \in Seq(Byte) /\ Len(b) = P + 4 /\ Holds(b, P, level, 4) /\ Holds(b, 0, len, P)
    BY <1>1, <1>4, <1>5, <1>6 DEF Extended
  <1>8. Extended(b, P + 4, c, ty, 4)
    <2>1. P + 4 \in Nat /\ 4 \in Nat
      BY <1>1
    <2> QED
      BY <1>4, <1>7, <2>1, AddField DEF c
  <1>9. /\ c \in Seq(Byte) /\ Len(c) = h /\ Holds(c, P + 4, ty, 4)
        /\ Holds(c, P, level, 4) /\ Holds(c, 0, len, P)
    BY <1>1, <1>4, <1>7, <1>8 DEF Extended
  <1> HIDE DEF d, z
  <1>10. /\ d \in Seq(Byte) /\ Len(d) = h + Len(data)
         /\ \A i \in 1..h : d[i] = c[i]
         /\ \A i \in 1..Len(data) : d[h + i] = data[i]
    BY <1>1, <1>9, Concat DEF d
  <1>11. z \in Seq(Byte) /\ Len(z) = pad
    BY <1>2, <1>4, FirstField DEF z, Zeros
  <1>12. x = d \o z
    <2>1. x = PaddedCmsg(d, P)
      BY <1>3 DEF Attached
    <2>2. Len(d) = len
      BY <1>10 DEF len
    <2> QED
      BY <2>1, <2>2 DEF PaddedCmsg, pad, z
  <1>13. /\ x \in Seq(Byte) /\ Len(x) = len + pad /\ \A i \in 1..len : x[i] = d[i]
    <2>1. Len(d) = len /\ d \in Seq(Byte)
      BY <1>10 DEF len
    <2>2. /\ d \o z \in Seq(Byte) /\ Len(d \o z) = Len(d) + Len(z)
          /\ \A i \in 1..Len(d) : (d \o z)[i] = d[i]
      BY <1>11, <2>1, Concat
    <2> QED
      BY <1>11, <1>12, <2>1, <2>2
  <1>14. Len(x) = RoundUp(len, P) /\ Len(x) >= len
    <2>1. RoundUp(len, P) \in Nat
      BY <1>1, <1>2, HeaderIs
    <2> QED
      BY <1>2, <1>13, <2>1 DEF pad
  <1>15. \A i \in 1..h : x[i] = c[i]
    BY <1>1, <1>10, <1>13 DEF len
  <1>16. \A from, n \in Nat : \A v :
            from + n <= h /\ Holds(c, from, v, n) => Holds(x, from, v, n)
    <2> SUFFICES ASSUME NEW from \in Nat, NEW n \in Nat, NEW v, from + n <= h, Holds(c, from, v, n),
                        NEW i \in 1..n
                 PROVE  x[from + i] = <<v, i>>
      BY DEF Holds
    <2>1. from + i \in 1..h
      BY <1>1
    <2> QED
      BY <1>15, <2>1 DEF Holds
  <1>17. Holds(x, 0, len, P) /\ Holds(x, P, level, 4) /\ Holds(x, P + 4, ty, 4)
    BY <1>1, <1>9, <1>16
  <1>18. \A i \in 1..Len(data) : x[h + i] = data[i]
    BY <1>1, <1>10, <1>13 DEF len
  <1> QED
    BY <1>1, <1>3, <1>10, <1>13, <1>14, <1>17, <1>18 DEF len

Joins(buf, x, t) == t \in Seq(Byte) /\ buf = x \o t

\* Iter::next finds it in front of the others.
LEMMA CmsgRead ==
    ASSUME NEW x, NEW level, NEW ty, NEW data, NEW P, NEW h, Attached(x, level, ty, data, P, h),
           NEW t, NEW buf, Joins(buf, x, t)
    PROVE  /\ has_next(buf, P)
           /\ next(buf, P) = [level |-> level, ty |-> ty, data |-> data, rest |-> t]
  <1> DEFINE len == h + Len(data)
             l == Value(Slice(buf, 0, P))
  <1>1. P \in Nat /\ P \in {4, 8} /\ h = P + 8 /\ data \in Seq(Byte)
        /\ level \in Nat /\ ty \in Nat
    BY DEF Attached
  <1>2. /\ x \in Seq(Byte) /\ Len(data) \in Nat
        /\ Len(x) = RoundUp(len, P) /\ Len(x) >= len
        /\ Holds(x, 0, len, P) /\ Holds(x, P, level, 4) /\ Holds(x, P + 4, ty, 4)
        /\ \A i \in 1..Len(data) : x[h + i] = data[i]
    BY CmsgIs
  <1>3. HDR_LEN(P) = h /\ align(len, P) = RoundUp(len, P)
    <2>1. len \in Nat
      BY <1>1, <1>2
    <2> HIDE DEF len
    <2>2. HDR_LEN(P) = P + 8 /\ align(len, P) = RoundUp(len, P)
      BY <1>1, <2>1, HeaderIs
    <2> QED
      BY <1>1, <2>2
  <1>4. /\ buf \in Seq(Byte) /\ Len(x) \in Nat /\ Len(t) \in Nat
        /\ Len(buf) = Len(x) + Len(t)
        /\ \A i \in 1..Len(x) : buf[i] = x[i]
        /\ \A i \in 1..Len(t) : buf[Len(x) + i] = t[i]
    BY <1>2, Concat DEF Joins
  <1>a. t \in Seq(Byte)
    BY DEF Joins
  <1>5. len \in Nat /\ len >= h
    BY <1>1, <1>2
  <1>6. len \in FieldValues /\ level \in FieldValues /\ ty \in FieldValues
    BY <1>1, <1>5 DEF FieldValues
  <1> HIDE DEF len
  <1>7. \A from, to \in Nat, v \in FieldValues, n \in Nat :
              /\ from < to /\ to <= Len(x) /\ n = to - from
              /\ Holds(x, from, v, n)
              => Value(Slice(buf, from, to)) = v
    <2>1. buf \in Seq(Byte) /\ Len(x) \in Nat /\ Len(buf) >= Len(x)
          /\ \A i \in 1..Len(x) : buf[i] = x[i]
      BY <1>4
    <2> DEFINE size == Len(x)
    <2>2. size \in Nat /\ Len(buf) >= size /\ \A i \in 1..size : buf[i] = x[i]
      BY <2>1
    <2> HIDE DEF size
    <2>3. \A from, to \in Nat, v \in FieldValues, n \in Nat :
              /\ from < to /\ to <= size /\ n = to - from
              /\ Holds(x, from, v, n)
              => Value(Slice(buf, from, to)) = v
      BY ONLY <2>1, <2>2, FieldsInBuffer
    <2> QED
      BY <2>3 DEF size
  <1>8. P <= Len(x) /\ P + 4 <= Len(x) /\ P + 8 <= Len(x) /\ P + 4 \in Nat /\ P + 8 \in Nat
    BY <1>1, <1>2, <1>4, <1>5
  <1>9. l = len
    <2>1. 0 < P /\ P = P - 0 /\ 0 \in Nat
      BY <1>1
    <2>2. Holds(x, 0, len, P)
      BY <1>2
    <2> QED
      BY <1>1, <1>6, <1>7, <1>8, <2>1, <2>2
  <1>10. Value(Slice(buf, P, P + 4)) = level
    <2>1. P < P + 4 /\ 4 = (P + 4) - P
      BY <1>1
    <2> QED
      BY <1>1, <1>2, <1>6, <1>7, <1>8, <2>1
  <1>11. Value(Slice(buf, P + 4, P + 8)) = ty
    <2>1. P + 4 < P + 8 /\ 4 = (P + 8) - (P + 4)
      BY <1>1
    <2> QED
      BY <1>1, <1>2, <1>6, <1>7, <1>8, <2>1
  <1>12. Slice(buf, h, len) = data
    <2>1. \A i \in 1..Len(data) : buf[h + i] = data[i]
      <3>1. ASSUME NEW i \in 1..Len(data) PROVE h + i \in 1..Len(x)
        BY <1>1, <1>2, <1>4 DEF len
      <3> QED
        BY <1>2, <1>4, <3>1
    <2>2. len = h + Len(data) /\ len <= Len(buf) /\ h \in Nat
      BY <1>1, <1>2, <1>4, <1>5 DEF len
    <2> QED
      BY <1>1, <1>4, <1>5, <2>1, <2>2, SliceIs, ZenonT(30)
  <1>13. advance(len, Len(buf), P) = Len(x)
    <2>1. RoundUp(len, P) < Len(buf) \/ RoundUp(len, P) = Len(buf)
      BY <1>2, <1>4
    <2> QED
      BY <1>2, <1>3, <2>1 DEF advance
  <1>14. Slice(buf, Len(x), Len(buf)) = t
    BY <1>4, <1>a, SliceIs, SMTT(30)
  <1>15. has_next(buf, P)
    BY <1>1, <1>2, <1>3, <1>4, <1>5, <1>9 DEF has_next
  <1>16. next(buf, P) = [level |-> level, ty |-> ty, data |-> data, rest |-> t]
    BY <1>3, <1>9, <1>10, <1>11, <1>12, <1>13, <1>14 DEF next
  <1> QED
    BY <1>15, <1>16

\* put_cmsg attaches it in full where there is room.
LEMMA PutIs ==
    ASSUME NEW x, NEW level, NEW ty, NEW data, NEW P, NEW h, Attached(x, level, ty, data, P, h),
           NEW left \in Int, left >= Len(x), NEW control
    PROVE  put_cmsg(control, left, KernelCmsg(level, ty, data, P), P) = control \o x
  <1> DEFINE whole == KernelCmsg(level, ty, data, P)
             n == IF Len(x) < left THEN Len(x) ELSE left
  <1>1. /\ x \in Seq(Byte) /\ Len(data) \in Nat /\ Len(x) >= h + Len(data)
        /\ Len(whole) = h + Len(data) /\ h = P + 8 /\ P \in {4, 8}
    BY CmsgIs DEF Attached
  <1>2. Len(x) \in Nat
    BY <1>1, LenProperties
  <1>3. PaddedCmsg(whole, P) = x
    BY DEF Attached
  <1> HIDE DEF whole
  <1>4. n = Len(x)
    BY <1>2
  <1>5. SubSeq(x, 1, Len(x)) = x
    BY <1>1
  <1>6. ~(left < P + 8) /\ ~(left < Len(whole))
    BY <1>1, <1>2
  <1>7. put_cmsg(control, left, whole, P) = control \o SubSeq(x, 1, n)
    BY <1>3, <1>6 DEF put_cmsg
  <1> QED
    BY <1>4, <1>5, <1>7 DEF whole

-----------------------------------------------------------------------------
(* RCVINFO and SNDINFO.                                                    *)

\* A member in network order.
Network(e, name, n) == e.name = name /\ e.n = n /\ e.a = n /\ e.be = TRUE

\* Member j of r is where member i of m is, in whatever order.
Faces(r, j, m, i) ==
    /\ Distinct(r) /\ j \in 1..Len(r) /\ i \in 1..Len(m)
    /\ At(r, j) = At(m, i) /\ r[j].n = m[i].n

\* A member in the host's or in network order, read as an integer.
LEMMA RawOrdered ==
    ASSUME NEW buf, NEW m, NEW at, NEW val, NEW little, Whole(buf, m, at, val, little),
           NEW r, NEW j, NEW i, Faces(r, j, m, i)
    PROVE  Raw(r, buf, r[j].name) = Ordered(m, val, i, little)
  <1>1. Holding(buf, m, val, little) /\ Ends(m)[i] <= Len(buf) /\ i \in 1..Len(m)
    BY WholeIs DEF Faces
  <1>2. Slice(buf, At(m, i), At(m, i) + m[i].n) = Ordered(m, val, i, little)
    BY <1>1, MemberThere
  <1>3. Named(r, r[j].name) = j
    BY NamedIs DEF Faces
  <1>4. Raw(r, buf, r[j].name) = Slice(buf, At(r, j), At(r, j) + r[j].n)
    BY <1>3 DEF Raw
  <1> QED
    BY <1>2, <1>4 DEF Faces

\* A structure without values for its members.
LEMMA EmptyWhole ==
    ASSUME NEW m, NEW at, Table(m, at), NEW little \in BOOLEAN
    PROVE  Whole(Image(m, << >>, little), m, at, << >>, little)
  <1> DEFINE val == << >>
  <1>1. DOMAIN val = {}
    OBVIOUS
  <1> HIDE DEF val
  <1>2. Widths(m, val)
    BY <1>1 DEF Widths
  <1> QED
    BY <1>2 DEF Whole, val

\* The structures of the control messages, as sys.rs and as the kernel declares them.
LEMMA RcvInfoTable ==
    ASSUME NEW m, m = sctp_rcvinfo
    PROVE  /\ Table(m, <<0, 2, 4, 8, 12, 16, 20, 24>>) /\ Len(m) = 8
           /\ SizeOfStruct(m) = 28
           /\ Plain(m[1], "rcv_sid", 2, 2) /\ Plain(m[2], "rcv_ssn", 2, 2)
           /\ Plain(m[3], "rcv_flags", 2, 2) /\ Plain(m[4], "rcv_ppid", 4, 4)
           /\ Plain(m[5], "rcv_tsn", 4, 4) /\ Plain(m[6], "rcv_cumtsn", 4, 4)
           /\ Plain(m[7], "rcv_context", 4, 4) /\ Plain(m[8], "rcv_assoc_id", 4, 4)
  <1> DEFINE at == <<0, 2, 4, 8, 12, 16, 20, 24>>
  <1>1. /\ Len(m) = 8
        /\ Plain(m[1], "rcv_sid", 2, 2) /\ Plain(m[2], "rcv_ssn", 2, 2)
        /\ Plain(m[3], "rcv_flags", 2, 2) /\ Plain(m[4], "rcv_ppid", 4, 4)
        /\ Plain(m[5], "rcv_tsn", 4, 4) /\ Plain(m[6], "rcv_cumtsn", 4, 4)
        /\ Plain(m[7], "rcv_context", 4, 4) /\ Plain(m[8], "rcv_assoc_id", 4, 4)
    BY DEF Plain, sctp_rcvinfo, Member
  <1>2. \A i \in 1..8 : i \in {1, 2, 3, 4, 5, 6, 7, 8}
    OBVIOUS
  <1>3. Struct_OK(m)
    BY <1>1, <1>2 DEF Struct_OK, Plain
  <1>4. Distinct(m)
    BY <1>1, <1>2 DEF Distinct, Plain
  <1>5. Offsets(m, at)
    BY <1>1, <1>2 DEF Offsets, RoundUp, Plain
  <1>6. Table(m, at)
    BY <1>3, <1>4, <1>5 DEF Table
  <1>7. Sized(m, at, 28)
    BY <1>1, <1>6 DEF Sized, Plain
  <1> HIDE DEF at
  <1>8. SizeOfStruct(m) = 28
    BY <1>7, TableSize
  <1> QED
    BY <1>1, <1>6, <1>8 DEF at

LEMMA KernelRcvInfoTable ==
    ASSUME NEW m, m = KernelRcvInfo
    PROVE  /\ Table(m, <<0, 2, 4, 8, 12, 16, 20, 24>>) /\ Len(m) = 8
           /\ SizeOfStruct(m) = 28
           /\ Plain(m[1], "sid", 2, 2) /\ Plain(m[2], "ssn", 2, 2) /\ Plain(m[3], "flags", 2, 2)
           /\ Network(m[4], "ppid", 4) /\ Plain(m[5], "tsn", 4, 4) /\ Plain(m[6], "cumtsn", 4, 4)
           /\ Plain(m[7], "context", 4, 4) /\ Plain(m[8], "assoc_id", 4, 4)
  <1> DEFINE at == <<0, 2, 4, 8, 12, 16, 20, 24>>
  <1>1. /\ Len(m) = 8
        /\ Plain(m[1], "sid", 2, 2) /\ Plain(m[2], "ssn", 2, 2) /\ Plain(m[3], "flags", 2, 2)
        /\ Network(m[4], "ppid", 4) /\ Plain(m[5], "tsn", 4, 4) /\ Plain(m[6], "cumtsn", 4, 4)
        /\ Plain(m[7], "context", 4, 4) /\ Plain(m[8], "assoc_id", 4, 4)
    BY DEF Plain, Network, KernelRcvInfo, BigEndian, Member
  <1>2. \A i \in 1..8 : i \in {1, 2, 3, 4, 5, 6, 7, 8}
    OBVIOUS
  <1>3. Struct_OK(m)
    BY <1>1, <1>2 DEF Struct_OK, Plain, Network
  <1>4. Distinct(m)
    BY <1>1, <1>2 DEF Distinct, Plain, Network
  <1>5. Offsets(m, at)
    BY <1>1, <1>2 DEF Offsets, RoundUp, Plain, Network
  <1>6. Table(m, at)
    BY <1>3, <1>4, <1>5 DEF Table
  <1>7. Sized(m, at, 28)
    BY <1>1, <1>6 DEF Sized, Plain, Network
  <1> HIDE DEF at
  <1>8. SizeOfStruct(m) = 28
    BY <1>7, TableSize
  <1> QED
    BY <1>1, <1>6, <1>8 DEF at

LEMMA SndInfoTable ==
    ASSUME NEW m, m = sctp_sndinfo
    PROVE  /\ Table(m, <<0, 2, 4, 8, 12>>) /\ Len(m) = 5
           /\ SizeOfStruct(m) = 16
           /\ Plain(m[1], "snd_sid", 2, 2) /\ Plain(m[2], "snd_flags", 2, 2)
           /\ Plain(m[3], "snd_ppid", 4, 4) /\ Plain(m[4], "snd_context", 4, 4)
           /\ Plain(m[5], "snd_assoc_id", 4, 4)
  <1> DEFINE at == <<0, 2, 4, 8, 12>>
  <1>1. /\ Len(m) = 5
        /\ Plain(m[1], "snd_sid", 2, 2) /\ Plain(m[2], "snd_flags", 2, 2)
        /\ Plain(m[3], "snd_ppid", 4, 4) /\ Plain(m[4], "snd_context", 4, 4)
        /\ Plain(m[5], "snd_assoc_id", 4, 4)
    BY DEF Plain, sctp_sndinfo, Member
  <1>2. \A i \in 1..5 : i \in {1, 2, 3, 4, 5}
    OBVIOUS
  <1>3. Struct_OK(m)
    BY <1>1, <1>2 DEF Struct_OK, Plain
  <1>4. Distinct(m)
    BY <1>1, <1>2 DEF Distinct, Plain
  <1>5. Offsets(m, at)
    BY <1>1, <1>2 DEF Offsets, RoundUp, Plain
  <1>6. Table(m, at)
    BY <1>3, <1>4, <1>5 DEF Table
  <1>7. Sized(m, at, 16)
    BY <1>1, <1>6 DEF Sized, Plain
  <1> HIDE DEF at
  <1>8. SizeOfStruct(m) = 16
    BY <1>7, TableSize
  <1> QED
    BY <1>1, <1>6, <1>8 DEF at

LEMMA KernelSndInfoTable ==
    ASSUME NEW m, m = KernelSndInfo
    PROVE  /\ Table(m, <<0, 2, 4, 8, 12>>) /\ Len(m) = 5
           /\ SizeOfStruct(m) = 16
           /\ Plain(m[1], "sid", 2, 2) /\ Plain(m[2], "flags", 2, 2) /\ Network(m[3], "ppid", 4)
           /\ Plain(m[4], "context", 4, 4) /\ Plain(m[5], "assoc_id", 4, 4)
  <1> DEFINE at == <<0, 2, 4, 8, 12>>
  <1>1. /\ Len(m) = 5
        /\ Plain(m[1], "sid", 2, 2) /\ Plain(m[2], "flags", 2, 2) /\ Network(m[3], "ppid", 4)
        /\ Plain(m[4], "context", 4, 4) /\ Plain(m[5], "assoc_id", 4, 4)
    BY DEF Plain, Network, KernelSndInfo, BigEndian, Member
  <1>2. \A i \in 1..5 : i \in {1, 2, 3, 4, 5}
    OBVIOUS
  <1>3. Struct_OK(m)
    BY <1>1, <1>2 DEF Struct_OK, Plain, Network
  <1>4. Distinct(m)
    BY <1>1, <1>2 DEF Distinct, Plain, Network
  <1>5. Offsets(m, at)
    BY <1>1, <1>2 DEF Offsets, RoundUp, Plain, Network
  <1>6. Table(m, at)
    BY <1>3, <1>4, <1>5 DEF Table
  <1>7. Sized(m, at, 16)
    BY <1>1, <1>6 DEF Sized, Plain, Network
  <1> HIDE DEF at
  <1>8. SizeOfStruct(m) = 16
    BY <1>7, TableSize
  <1> QED
    BY <1>1, <1>6, <1>8 DEF at

\* RcvInfo::from_sys reads every field that the kernel wrote.
LEMMA RcvInfoRead ==
    ASSUME NEW little \in BOOLEAN, NEW data, data = Image(KernelRcvInfo, << >>, little)
    PROVE  /\ data \in Seq(Byte) /\ Len(data) = 28 /\ SizeOfStruct(sctp_rcvinfo) = 28
           /\ RcvInfo_from_sys(data, little) =
                [f \in {"sid", "ssn", "flags", "ppid", "tsn", "cumtsn", "context", "assoc_id"} |->
                    MemberValue(KernelRcvInfo, << >>, f)]
  <1> DEFINE r == sctp_rcvinfo
             m == KernelRcvInfo
             val == << >>
             at == <<0, 2, 4, 8, 12, 16, 20, 24>>
             field(f) == MemberValue(m, val, f)
             rec == RcvInfo_from_sys(data, little)
             D == {"sid", "ssn", "flags", "ppid", "tsn", "cumtsn", "context", "assoc_id"}
  <1>1. /\ Table(r, at) /\ Len(r) = 8 /\ SizeOfStruct(r) = 28
        /\ Plain(r[1], "rcv_sid", 2, 2) /\ Plain(r[2], "rcv_ssn", 2, 2)
        /\ Plain(r[3], "rcv_flags", 2, 2) /\ Plain(r[4], "rcv_ppid", 4, 4)
        /\ Plain(r[5], "rcv_tsn", 4, 4) /\ Plain(r[6], "rcv_cumtsn", 4, 4)
        /\ Plain(r[7], "rcv_context", 4, 4) /\ Plain(r[8], "rcv_assoc_id", 4, 4)
    BY RcvInfoTable
  <1>2. /\ Table(m, at) /\ Len(m) = 8 /\ SizeOfStruct(m) = 28
        /\ Plain(m[1], "sid", 2, 2) /\ Plain(m[2], "ssn", 2, 2) /\ Plain(m[3], "flags", 2, 2)
        /\ Network(m[4], "ppid", 4) /\ Plain(m[5], "tsn", 4, 4) /\ Plain(m[6], "cumtsn", 4, 4)
        /\ Plain(m[7], "context", 4, 4) /\ Plain(m[8], "assoc_id", 4, 4)
    BY KernelRcvInfoTable
  <1>3. Whole(data, m, at, val, little)
    BY <1>2, EmptyWhole
  <1>4. rec = [sid |-> Raw(r, data, "rcv_sid"), ssn |-> Raw(r, data, "rcv_ssn"),
               flags |-> Raw(r, data, "rcv_flags"),
               ppid |-> from_wire(Raw(r, data, "rcv_ppid"), little),
               tsn |-> Raw(r, data, "rcv_tsn"), cumtsn |-> Raw(r, data, "rcv_cumtsn"),
               context |-> Raw(r, data, "rcv_context"), assoc_id |-> Raw(r, data, "rcv_assoc_id")]
    BY DEF RcvInfo_from_sys
  <1> HIDE DEF r, m, val, at, rec
  <1>5. /\ data \in Seq(Byte) /\ Len(data) = SizeOfStruct(m)
    BY <1>3, WholeIs DEF SizeOfStruct
  <1>6. \A i \in 1..8 : i \in {1, 2, 3, 4, 5, 6, 7, 8}
    OBVIOUS
  <1>7. \A i \in 1..Len(r) : Faces(r, i, m, i)
    <2>1. Len(r) = Len(m) /\ \A i \in 1..Len(r) : r[i].n = m[i].n
      BY <1>1, <1>2, <1>6 DEF Plain, Network
    <2>2. Struct_OK(r) /\ Offsets(r, at) /\ Struct_OK(m) /\ Offsets(m, at) /\ Distinct(r)
      BY <1>1, <1>2 DEF Table
    <2>3. /\ \A i \in 1..Len(r) : At(r, i) = at[i]
          /\ \A i \in 1..Len(m) : At(m, i) = at[i]
      BY <2>2, TableIs
    <2> QED
      BY <2>1, <2>2, <2>3 DEF Faces
  <1>8. \A i \in 1..Len(r) : Raw(r, data, r[i].name) = Ordered(m, val, i, little)
    BY <1>3, <1>7, RawOrdered
  <1>9. /\ Raw(r, data, "rcv_sid") = Ordered(m, val, 1, little)
        /\ Raw(r, data, "rcv_ssn") = Ordered(m, val, 2, little)
        /\ Raw(r, data, "rcv_flags") = Ordered(m, val, 3, little)
        /\ Raw(r, data, "rcv_ppid") = Ordered(m, val, 4, little)
        /\ Raw(r, data, "rcv_tsn") = Ordered(m, val, 5, little)
        /\ Raw(r, data, "rcv_cumtsn") = Ordered(m, val, 6, little)
        /\ Raw(r, data, "rcv_context") = Ordered(m, val, 7, little)
        /\ Raw(r, data, "rcv_assoc_id") = Ordered(m, val, 8, little)
    BY <1>1, <1>8 DEF Plain
  <1>10. /\ Ordered(m, val, 1, little) = field("sid") /\ Ordered(m, val, 2, little) = field("ssn")
         /\ Ordered(m, val, 3, little) = field("flags")
         /\ Ordered(m, val, 4, little) = HostOrder(field("ppid"), little)
         /\ Ordered(m, val, 5, little) = field("tsn")
         /\ Ordered(m, val, 6, little) = field("cumtsn")
         /\ Ordered(m, val, 7, little) = field("context")
         /\ Ordered(m, val, 8, little) = field("assoc_id")
    BY <1>2 DEF Ordered, Plain, Network
  <1>11. field("ppid") \in Seq(Byte)
    <2>1. Valued(m, val) /\ 4 \in 1..Len(m) /\ m[4].name = "ppid"
      BY <1>2, <1>3, Filling DEF Whole, Table, Network
    <2> QED
      BY <2>1 DEF Valued
  <1>12. HostOrder(HostOrder(field("ppid"), little), little) = field("ppid")
    BY <1>11, SwappedFacts
  <1>13. from_wire(Raw(r, data, "rcv_ppid"), little) = field("ppid")
    BY <1>9, <1>10, <1>12 DEF from_wire
  <1> HIDE DEF field
  <1>14. rec = [sid |-> field("sid"), ssn |-> field("ssn"), flags |-> field("flags"),
                ppid |-> field("ppid"), tsn |-> field("tsn"), cumtsn |-> field("cumtsn"),
                context |-> field("context"), assoc_id |-> field("assoc_id")]
    BY <1>4, <1>9, <1>10, <1>13
  <1>15. rec = [f \in D |-> field(f)]
    BY <1>14
  <1> QED
    BY <1>1, <1>2, <1>5, <1>15 DEF r, m, val, rec, field

\* Members that fill their structure without a gap.
Gapless(m, at, size) ==
    \A p \in 1..size : \E i \in 1..Len(m) : \E j \in 1..m[i].n : p = at[i] + j

\* Two structures whose members lie alike and have the same bytes are the same.
LEMMA SameImage ==
    ASSUME NEW a, NEW r, NEW at, NEW v, NEW little, Whole(a, r, at, v, little),
           NEW b, NEW m, NEW w, Whole(b, m, at, w, little), NEW size,
           SizeOfStruct(r) = size, SizeOfStruct(m) = size, Gapless(m, at, size),
           Len(r) = Len(m),
           \A i \in 1..Len(m) : r[i].n = m[i].n /\ Ordered(r, v, i, little) = Ordered(m, w, i, little)
    PROVE  a = b
  <1>1. /\ a \in Seq(Byte) /\ Len(a) \in Nat /\ Len(a) = size
        /\ \A i \in 1..Len(r) : At(r, i) = at[i]
    BY WholeIs DEF SizeOfStruct
  <1>2. /\ b \in Seq(Byte) /\ Len(b) \in Nat /\ Len(b) = size
        /\ \A i \in 1..Len(m) : At(m, i) = at[i]
    BY WholeIs DEF SizeOfStruct
  <1>3. \A i \in 1..Len(r) : \A j \in 1..r[i].n : a[At(r, i) + j] = Ordered(r, v, i, little)[j]
    BY Filling, ImageIs DEF Whole, Table
  <1>4. \A i \in 1..Len(m) : \A j \in 1..m[i].n : b[At(m, i) + j] = Ordered(m, w, i, little)[j]
    BY Filling, ImageIs DEF Whole, Table
  <1>5. ASSUME NEW p \in 1..size PROVE a[p] = b[p]
    <2>1. PICK i \in 1..Len(m) : \E j \in 1..m[i].n : p = at[i] + j
      BY DEF Gapless
    <2>2. PICK j \in 1..m[i].n : p = at[i] + j
      BY <2>1
    <2>3. r[i].n = m[i].n /\ Ordered(r, v, i, little) = Ordered(m, w, i, little) /\ i \in 1..Len(r)
      OBVIOUS
    <2>4. a[at[i] + j] = Ordered(r, v, i, little)[j]
      <3>1. At(r, i) = at[i]
        BY <1>1, <2>3
      <3> QED
        BY <1>3, <2>3, <3>1
    <2>5. b[at[i] + j] = Ordered(m, w, i, little)[j]
      <3>1. At(m, i) = at[i]
        BY <1>2
      <3> QED
        BY <1>4, <3>1
    <2> QED
      BY <2>2, <2>3, <2>4, <2>5
  <1> QED
    BY <1>1, <1>2, <1>5, SeqEqual

\* SendInfo::to_sys writes what the kernel reads.
LEMMA SndInfoWritten ==
    ASSUME NEW little \in BOOLEAN, NEW info,
           info = [f \in {"sid", "flags", "ppid", "context", "assoc_id"} |->
                        MemberValue(KernelSndInfo, << >>, f)]
    PROVE  /\ SendInfo_to_sys(info, little) = Image(KernelSndInfo, << >>, little)
           /\ SendInfo_to_sys(info, little) \in Seq(Byte)
           /\ Len(SendInfo_to_sys(info, little)) = 16
  <1> DEFINE r == sctp_sndinfo
             m == KernelSndInfo
             w == << >>
             at == <<0, 2, 4, 8, 12>>
             v == [snd_sid |-> info.sid, snd_flags |-> info.flags,
                   snd_ppid |-> to_wire(info.ppid, little), snd_context |-> info.context,
                   snd_assoc_id |-> info.assoc_id]
             a == SendInfo_to_sys(info, little)
             b == Image(m, w, little)
             field(f) == MemberValue(m, w, f)
  <1>1. /\ Table(r, at) /\ Len(r) = 5 /\ SizeOfStruct(r) = 16
        /\ Plain(r[1], "snd_sid", 2, 2) /\ Plain(r[2], "snd_flags", 2, 2)
        /\ Plain(r[3], "snd_ppid", 4, 4) /\ Plain(r[4], "snd_context", 4, 4)
        /\ Plain(r[5], "snd_assoc_id", 4, 4)
    BY SndInfoTable
  <1>2. /\ Table(m, at) /\ Len(m) = 5 /\ SizeOfStruct(m) = 16
        /\ Plain(m[1], "sid", 2, 2) /\ Plain(m[2], "flags", 2, 2) /\ Network(m[3], "ppid", 4)
        /\ Plain(m[4], "context", 4, 4) /\ Plain(m[5], "assoc_id", 4, 4)
    BY KernelSndInfoTable
  <1>3. \A i \in 1..5 : i \in {1, 2, 3, 4, 5}
    OBVIOUS
  <1>4. Whole(b, m, at, w, little)
    BY <1>2, EmptyWhole
  <1>5. a = Image(r, v, little)
    BY DEF SendInfo_to_sys
  <1>6. /\ DOMAIN v = {"snd_sid", "snd_flags", "snd_ppid", "snd_context", "snd_assoc_id"}
        /\ v["snd_sid"] = info.sid /\ v["snd_flags"] = info.flags
        /\ v["snd_ppid"] = HostOrder(info.ppid, little) /\ v["snd_context"] = info.context
        /\ v["snd_assoc_id"] = info.assoc_id
    BY DEF to_wire
  <1>7. /\ info.sid = field("sid") /\ info.flags = field("flags") /\ info.ppid = field("ppid")
        /\ info.context = field("context") /\ info.assoc_id = field("assoc_id")
    OBVIOUS
  <1>8. \A i \in 1..Len(m) : field(m[i].name) \in Seq(Byte) /\ Len(field(m[i].name)) = m[i].n
    BY <1>4, Filling DEF Whole, Table, Valued
  <1>9. Gapless(m, at, 16)
    <2>1. /\ at[1] = 0 /\ m[1].n = 2 /\ at[2] = 2 /\ m[2].n = 2 /\ at[3] = 4 /\ m[3].n = 4
          /\ at[4] = 8 /\ m[4].n = 4 /\ at[5] = 12 /\ m[5].n = 4
      BY <1>2 DEF Plain, Network
    <2>2. ASSUME NEW p \in 1..16 PROVE \E i \in 1..5 : \E j \in 1..m[i].n : p = at[i] + j
      <3>1. CASE p \in 1..2
        BY <2>1, <3>1
      <3>2. CASE p \in 3..4
        <4>1. p - 2 \in 1..m[2].n /\ p = at[2] + (p - 2)
          BY <2>1, <3>2
        <4> QED
          BY <4>1
      <3>3. CASE p \in 5..8
        <4>1. p - 4 \in 1..m[3].n /\ p = at[3] + (p - 4)
          BY <2>1, <3>3
        <4> QED
          BY <4>1
      <3>4. CASE p \in 9..12
        <4>1. p - 8 \in 1..m[4].n /\ p = at[4] + (p - 8)
          BY <2>1, <3>4
        <4> QED
          BY <4>1
      <3>5. CASE p \in 13..16
        <4>1. p - 12 \in 1..m[5].n /\ p = at[5] + (p - 12)
          BY <2>1, <3>5
        <4> QED
          BY <4>1
      <3> QED
        BY <3>1, <3>2, <3>3, <3>4, <3>5
    <2> QED
      BY <1>2, <2>2 DEF Gapless
  <1> HIDE DEF r, m, w, at, v, a, b, field
  <1>10. /\ field("sid") \in Seq(Byte) /\ Len(field("sid")) = 2
         /\ field("flags") \in Seq(Byte) /\ Len(field("flags")) = 2
         /\ field("ppid") \in Seq(Byte) /\ Len(field("ppid")) = 4
         /\ field("context") \in Seq(Byte) /\ Len(field("context")) = 4
         /\ field("assoc_id") \in Seq(Byte) /\ Len(field("assoc_id")) = 4
    <2>1. /\ m[1].name = "sid" /\ m[1].n = 2 /\ m[2].name = "flags" /\ m[2].n = 2
          /\ m[3].name = "ppid" /\ m[3].n = 4 /\ m[4].name = "context" /\ m[4].n = 4
          /\ m[5].name = "assoc_id" /\ m[5].n = 4
      BY <1>2 DEF Plain, Network
    <2>2. /\ field(m[1].name) \in Seq(Byte) /\ Len(field(m[1].name)) = m[1].n
          /\ field(m[2].name) \in Seq(Byte) /\ Len(field(m[2].name)) = m[2].n
          /\ field(m[3].name) \in Seq(Byte) /\ Len(field(m[3].name)) = m[3].n
          /\ field(m[4].name) \in Seq(Byte) /\ Len(field(m[4].name)) = m[4].n
          /\ field(m[5].name) \in Seq(Byte) /\ Len(field(m[5].name)) = m[5].n
      BY <1>2, <1>8
    <2> QED
      BY <2>1, <2>2
  <1>11. HostOrder(field("ppid"), little) \in Seq(Byte) /\ Len(HostOrder(field("ppid"), little)) = 4
    BY <1>10, SwappedFacts
  <1>12. Widths(r, v)
    <2>1. /\ r[1].name = "snd_sid" /\ r[1].n = 2 /\ r[2].name = "snd_flags" /\ r[2].n = 2
          /\ r[3].name = "snd_ppid" /\ r[3].n = 4 /\ r[4].name = "snd_context" /\ r[4].n = 4
          /\ r[5].name = "snd_assoc_id" /\ r[5].n = 4
      BY <1>1 DEF Plain
    <2>2. /\ v["snd_sid"] \in Seq(Byte) /\ Len(v["snd_sid"]) = 2
          /\ v["snd_flags"] \in Seq(Byte) /\ Len(v["snd_flags"]) = 2
          /\ v["snd_ppid"] \in Seq(Byte) /\ Len(v["snd_ppid"]) = 4
          /\ v["snd_context"] \in Seq(Byte) /\ Len(v["snd_context"]) = 4
          /\ v["snd_assoc_id"] \in Seq(Byte) /\ Len(v["snd_assoc_id"]) = 4
      BY <1>6, <1>7, <1>10, <1>11
    <2>4. /\ v[r[1].name] \in Seq(Byte) /\ Len(v[r[1].name]) = r[1].n
          /\ v[r[2].name] \in Seq(Byte) /\ Len(v[r[2].name]) = r[2].n
          /\ v[r[3].name] \in Seq(Byte) /\ Len(v[r[3].name]) = r[3].n
          /\ v[r[4].name] \in Seq(Byte) /\ Len(v[r[4].name]) = r[4].n
          /\ v[r[5].name] \in Seq(Byte) /\ Len(v[r[5].name]) = r[5].n
      BY <2>1, <2>2
    <2>5. \A i \in 1..5 : v[r[i].name] \in Seq(Byte) /\ Len(v[r[i].name]) = r[i].n
      BY <1>3, <2>4
    <2>3. Len(r) = 5
      BY <1>1
    <2> QED
      BY <2>3, <2>5 DEF Widths
  <1>13. Whole(a, r, at, v, little)
    BY <1>1, <1>5, <1>12 DEF Whole
  <1>14. /\ Ordered(r, v, 1, little) = v["snd_sid"] /\ Ordered(r, v, 2, little) = v["snd_flags"]
         /\ Ordered(r, v, 3, little) = v["snd_ppid"]
         /\ Ordered(r, v, 4, little) = v["snd_context"]
         /\ Ordered(r, v, 5, little) = v["snd_assoc_id"]
    BY <1>1, <1>6 DEF Ordered, MemberValue, Plain
  <1>15. /\ Ordered(m, w, 1, little) = field("sid") /\ Ordered(m, w, 2, little) = field("flags")
         /\ Ordered(m, w, 3, little) = HostOrder(field("ppid"), little)
         /\ Ordered(m, w, 4, little) = field("context")
         /\ Ordered(m, w, 5, little) = field("assoc_id")
    BY <1>2 DEF Ordered, field, Plain, Network
  <1>16. \A i \in 1..Len(m) : r[i].n = m[i].n /\ Ordered(r, v, i, little) = Ordered(m, w, i, little)
    BY <1>1, <1>2, <1>3, <1>6, <1>7, <1>14, <1>15 DEF Plain, Network
  <1>17. Len(r) = Len(m) /\ SizeOfStruct(r) = SizeOfStruct(m) /\ Gapless(m, at, SizeOfStruct(m))
    BY <1>1, <1>2, <1>9
  <1>18. a = b
    BY <1>4, <1>13, <1>16, <1>17, SameImage
  <1>19. a \in Seq(Byte) /\ Len(a) = SizeOfStruct(r)
    BY <1>13, WholeIs DEF SizeOfStruct
  <1> QED
    BY <1>1, <1>18, <1>19 DEF a, b, m, w

\* send_msg passes a message as the kernel does.
LEMMA InfosSent == send_control_message => Fine("send_info")
  <1> SUFFICES ASSUME send_control_message PROVE Fine("send_info")
    OBVIOUS
  <1> DEFINE info == [f \in {"sid", "flags", "ppid", "context", "assoc_id"} |->
                        MemberValue(KernelSndInfo, << >>, f)]
             passed(h) == send_control(info, h.P, h.little)
             read(h) == Field((IF h.P = 8 THEN 16 ELSE 12) + 16, h.P) \o Field(132, 4)
                            \o Field(2, 4) \o Image(KernelSndInfo, << >>, h.little)
  <1>1. PICK h \in Hosts : Done("send_info", passed(h), read(h))
    BY DEF send_control_message
  <1>2. h.P \in {4, 8} /\ h.little \in BOOLEAN
    BY DEF Hosts
  <1> DEFINE P == h.P
             data == SendInfo_to_sys(info, h.little)
             len == P + 8 + 16
             a == Field(len, P)
             b == Field(132, 4)
             c == Field(2, 4)
             z == Zeros(0)
  <1>3. data = Image(KernelSndInfo, << >>, h.little) /\ data \in Seq(Byte) /\ Len(data) = 16
    BY <1>2, SndInfoWritten
  <1>4. HDR_LEN(P) = P + 8 /\ (IF P = 8 THEN 16 ELSE 12) = P + 8 /\ align(Len(data), P) = Len(data)
    <2>1. align(Len(data), P) = Len(data)
      <3>1. Len(data) = 16 /\ P \in {4, 8}
        BY <1>2, <1>3
      <3> HIDE DEF data, P
      <3> QED
        BY <3>1 DEF align, RoundUp
    <2>2. P \in {4, 8}
      BY <1>2
    <2> HIDE DEF data, P
    <2> QED
      BY <2>1, <2>2, HeaderIs
  <1> HIDE DEF P, data, info
  <1>5. /\ cmsg_len(Len(data), P) = len
        /\ HDR_LEN(P) - P - 8 = 0
        /\ space(Len(data), P) - cmsg_len(Len(data), P) = 0
    <2>1. P \in {4, 8}
      BY <1>2 DEF P
    <2> DEFINE n == Len(data)
    <2>2. n = 16 /\ align(n, P) = n
      BY <1>3, <1>4
    <2> HIDE DEF n
    <2>3. cmsg_len(n, P) = HDR_LEN(P) + n /\ space(n, P) = HDR_LEN(P) + align(n, P)
      BY DEF cmsg_len, space
    <2>4. cmsg_len(n, P) = len /\ HDR_LEN(P) - P - 8 = 0 /\ space(n, P) - cmsg_len(n, P) = 0
      BY <1>4, <2>1, <2>2, <2>3
    <2> QED
      BY <2>4 DEF n
  <1>6. passed(h) = ((((a \o b) \o c) \o z) \o data) \o z
    BY <1>5 DEF send_control, write, IPPROTO_SCTP, SCTP_CMSG_SNDINFO, P, data
  <1>7. read(h) = ((a \o b) \o c) \o data
    BY <1>3, <1>4 DEF P, data
  <1>8. a \in Seq(Byte) /\ b \in Seq(Byte) /\ c \in Seq(Byte)
    <2>1. len \in FieldValues /\ 132 \in FieldValues /\ 2 \in FieldValues /\ P \in Nat
      BY <1>2 DEF FieldValues, P
    <2> QED
      BY <2>1, FirstField
  <1>9. z = << >>
    BY DEF Zeros, Field
  <1> HIDE DEF a, b, c, z
  <1> DEFINE d == (a \o b) \o c
  <1>10. d \in Seq(Byte)
    BY <1>8, Concat
  <1> HIDE DEF d
  <1>11. d \o z = d /\ (d \o data) \o z = d \o data
    <2>1. \A s \in Seq(Byte) : s \o << >> = s
      OBVIOUS
    <2>2. d \o data \in Seq(Byte)
      BY <1>3, <1>10, Concat
    <2> QED
      BY <1>9, <1>10, <2>1, <2>2
  <1>12. passed(h) = read(h)
    BY <1>6, <1>7, <1>11 DEF d
  <1> HIDE DEF passed, read
  <1> QED
    BY <1>1, <1>12 DEF Done, Fine

-----------------------------------------------------------------------------
(* The loop of recv_msg over the control messages.                         *)

\* From one place of recv_msg's loop to the next: the same, or one turn on, with
\* at least a header less to go.
Stage(y, w, i, P, little) ==
    \/ y[i] = y[i - 1] /\ w[i] = w[i - 1]
    \/ recv_turn(y[i - 1], P, little) = y[i] /\ w[i] + (P + 8) <= w[i - 1]

\* Places on the way of the loop, with the length that is left at each.
Way(y, w, control, P, little) ==
    /\ P \in {4, 8} /\ control \in Seq(Byte)
    /\ y[0] = [rest |-> control, info |-> None] /\ w[0] = Len(control)
    /\ \A i \in 0..5 : w[i] \in Nat
    /\ \A i \in 1..5 : Stage(y, w, i, P, little)
    /\ recv_turn(y[5], P, little) = y[5]

\* The loop ends at the last of them.
LEMMA Walked ==
    ASSUME NEW y, NEW w, NEW control, NEW P, NEW little, Way(y, w, control, P, little)
    PROVE  recv_info(control, P, little) = y[5].info
  <1> DEFINE n == turns(control, P)
             h == P + 8
             S == {y[i] : i \in 0..5}
             G == [s \in S |-> recv_turn(s, P, little)]
             F == [i \in 1..n |-> G]
             Q(g) == g = [i \in 0..n |-> IF i = 0 THEN [rest |-> control, info |-> None]
                                         ELSE recv_turn(g[i - 1], P, little)]
             c == CHOOSE g : Q(g)
  <1>1. /\ P \in {4, 8} /\ control \in Seq(Byte) /\ Len(control) \in Nat
        /\ y[0] = [rest |-> control, info |-> None] /\ w[0] = Len(control)
        /\ \A i \in 0..5 : w[i] \in Nat
        /\ \A i \in 1..5 : Stage(y, w, i, P, little)
        /\ recv_turn(y[5], P, little) = y[5]
    BY LenProperties DEF Way
  <1>2. HDR_LEN(P) = h /\ h \in Nat \ {0}
    <2>1. P \in {4, 8}
      BY <1>1
    <2> QED
      BY ONLY <2>1, HeaderIs
  <1>3. n = Len(control) \div h
    BY <1>2 DEF turns
  <1> HIDE DEF n
  <1>4. n \in Nat
    BY <1>1, <1>2, <1>3, DivFacts
  <1>5. \A s \in S : recv_turn(s, P, little) \in S
    <2> DEFINE K(i) == recv_turn(y[i], P, little) \in S
    <2>1. \A i \in 0..5 : y[i] \in S
      OBVIOUS
    <2>2. K(5)
      BY <1>1, <2>1
    <2>3. ASSUME NEW i \in 1..5, K(i) PROVE K(i - 1)
      <3>1. Stage(y, w, i, P, little) /\ y[i] \in S
        BY <1>1, <2>1
      <3> QED
        BY <2>3, <3>1 DEF Stage
    <2> HIDE DEF K
    <2>4. K(4)
      BY <2>2, <2>3
    <2>5. K(3)
      BY <2>3, <2>4
    <2>6. K(2)
      BY <2>3, <2>5
    <2>7. K(1)
      BY <2>3, <2>6
    <2>8. K(0)
      BY <2>3, <2>7
    <2>9. \A i \in 0..5 : i \in {0, 1, 2, 3, 4, 5}
      OBVIOUS
    <2>10. \A i \in 0..5 : K(i)
      BY <2>2, <2>4, <2>5, <2>6, <2>7, <2>8, <2>9
    <2> QED
      BY <2>10 DEF K
  <1>6. y[0] \in S
    OBVIOUS
  <1> HIDE DEF S
  <1>7. F \in [1..n -> [S -> S]]
    BY <1>5
  <1>8. PICK f : f \in [0..n -> S] /\ f[0] = y[0] /\ \A i \in 1..n : f[i] = F[i][f[i - 1]]
    <2> HIDE DEF F
    <2>1. \E f : Steps(f, n, S, y[0], F)
      BY <1>4, <1>6, <1>7, StepsExist
    <2> QED
      BY <2>1 DEF Steps
  <1>9. \A i \in 1..n : f[i] = recv_turn(f[i - 1], P, little)
    <2>1. \A i \in 1..n : i - 1 \in 0..n
      BY <1>4
    <2>2. \A i \in 1..n : f[i - 1] \in S /\ F[i] = G
      BY <1>8, <2>1
    <2>3. \A s \in S : G[s] = recv_turn(s, P, little)
      OBVIOUS
    <2> HIDE DEF F, G
    <2> QED
      BY <1>8, <2>2, <2>3
  <1>10. Q(f)
    <2>1. f = [i \in 0..n |-> f[i]]
      BY <1>8
    <2>2. \A i \in 0..n : i # 0 => i \in 1..n
      BY <1>4
    <2> QED
      BY <1>1, <1>8, <1>9, <2>1, <2>2
  <1>11. Q(c)
    BY <1>10, Zenon
  <1>12. recv_info(control, P, little) = c[n].info
    BY DEF recv_info, n
  <1> HIDE DEF c
  <1>13. c[0] = y[0] /\ \A i \in 1..n : c[i] = recv_turn(c[i - 1], P, little)
    BY <1>1, <1>4, <1>11, SMTT(30)
  <1> HIDE DEF Q
  \* y[i] is reached after k turns, at the latest when all the headers are read.
  <1> DEFINE At5(i) == \E k \in 0..n : c[k] = y[i] /\ k * h + w[i] <= Len(control)
  <1>14. At5(0)
    <2>1. 0 * h + w[0] <= Len(control) /\ 0 \in 0..n
      BY <1>1, <1>2, <1>4
    <2> QED
      BY <1>13, <2>1
  <1>15. ASSUME NEW i \in 1..5, At5(i - 1) PROVE At5(i)
    <2>1. PICK k \in 0..n : c[k] = y[i - 1] /\ k * h + w[i - 1] <= Len(control)
      BY <1>15
    <2>2. w[i] \in Nat /\ w[i - 1] \in Nat /\ Stage(y, w, i, P, little)
      BY <1>1
    <2>3. CASE y[i] = y[i - 1] /\ w[i] = w[i - 1]
      BY <2>1, <2>3
    <2>4. CASE recv_turn(y[i - 1], P, little) = y[i] /\ w[i] + (P + 8) <= w[i - 1]
      <3>1. k \in Nat /\ k * h \in Nat /\ (k + 1) * h = k * h + h
        <4>1. k \in Nat
          BY <1>4
        <4> HIDE DEF h
        <4> QED
          BY <1>2, <4>1, Z3
      <3>2. (k + 1) * h + w[i] <= Len(control)
        BY <1>1, <1>2, <2>1, <2>2, <2>4, <3>1, SMTT(30)
      <3>3. (k + 1) * h <= Len(control)
        <4>1. (k + 1) * h \in Nat
          BY <1>2, <3>1
        <4> QED
          BY <1>1, <2>2, <3>2, <4>1
      <3>4. k + 1 <= n
        <4> HIDE DEF h
        <4>1. k + 1 \in Nat
          BY <3>1
        <4> QED
          BY <1>1, <1>2, <1>3, <3>3, <4>1, DivLargest
      <3>5. k + 1 \in 1..n /\ k + 1 \in 0..n /\ (k + 1) - 1 = k
        BY <1>4, <3>1, <3>4
      <3>6. c[k + 1] = y[i]
        BY <1>13, <2>1, <2>4, <3>5
      <3> QED
        BY <3>2, <3>5, <3>6
    <2> QED
      BY <2>2, <2>3, <2>4 DEF Stage
  <1> HIDE DEF At5
  <1>16. At5(5)
    <2>1. At5(1)
      BY <1>14, <1>15
    <2>2. At5(2)
      BY <1>15, <2>1
    <2>3. At5(3)
      BY <1>15, <2>2
    <2>4. At5(4)
      BY <1>15, <2>3
    <2> QED
      BY <1>15, <2>4
  <1>17. PICK k \in 0..n : c[k] = y[5]
    BY <1>16 DEF At5
  <1>18. c[n] = y[5]
    <2> DEFINE T == {j \in Nat : k + j <= n => c[k + j] = y[5]}
    <2>1. 0 \in T
      BY <1>4, <1>17
    <2>2. ASSUME NEW j \in T PROVE j + 1 \in T
      <3> SUFFICES ASSUME k + (j + 1) <= n PROVE c[k + (j + 1)] = y[5]
        OBVIOUS
      <3>1. j \in Nat /\ k \in Nat /\ k + j <= n /\ k + (j + 1) \in 1..n /\ (k + (j + 1)) - 1 = k + j
        BY <1>4
      <3>2. c[k + j] = y[5]
        BY <2>2, <3>1
      <3> QED
        BY <1>1, <1>13, <3>1, <3>2
    <2> HIDE DEF T
    <2>3. T = Nat
      <3>1. T \in SUBSET Nat
        BY DEF T
      <3> QED
        BY <2>1, <2>2, <3>1, SetInduction
    <2>4. n - k \in T /\ k + (n - k) = n
      BY <1>4, <2>3
    <2> QED
      BY <1>4, <2>4 DEF T
  <1> QED
    BY <1>12, <1>18

\* Entry e of Attachable: what it attaches, in at most this many bytes.
Entry(e, level, ty, data, P, bound) ==
    /\ e.cmsg = KernelCmsg(level, ty, data, P)
    /\ Attached(PaddedCmsg(e.cmsg, P), level, ty, data, P, P + 8)
    /\ bound \in Nat /\ Len(PaddedCmsg(e.cmsg, P)) <= bound

Part(e, enabled, P) == IF e.on \in enabled THEN PaddedCmsg(e.cmsg, P) ELSE << >>

\* What makes an entry.
LEMMA EntryIs ==
    ASSUME NEW e, NEW level \in Nat, NEW ty \in Nat, NEW data \in Seq(Byte), NEW P \in {4, 8},
           e.cmsg = KernelCmsg(level, ty, data, P), NEW bound \in Nat,
           RoundUp(P + 8 + Len(data), P) <= bound
    PROVE  Entry(e, level, ty, data, P, bound)
  <1> DEFINE x == PaddedCmsg(e.cmsg, P)
             h == P + 8
  <1>1. Attached(x, level, ty, data, P, h)
    BY DEF Attached
  <1>2. Len(x) = RoundUp(h + Len(data), P)
    <2> HIDE DEF x, h
    <2> QED
      BY ONLY <1>1, CmsgIs
  <1> QED
    BY <1>1, <1>2 DEF Entry

\* sctp_recvmsg attaches the entry, behind what there is.
LEMMA EntryPut ==
    ASSUME NEW e, NEW level, NEW ty, NEW data, NEW P, NEW bound, Entry(e, level, ty, data, P, bound),
           NEW enabled, NEW z \in Seq(Byte), Len(z) + bound <= RCV_CMSG_SPACE
    PROVE  /\ Part(e, enabled, P) \in Seq(Byte) /\ Len(Part(e, enabled, P)) <= bound
           /\ z \o Part(e, enabled, P) \in Seq(Byte)
           /\ Len(z \o Part(e, enabled, P)) <= Len(z) + bound
           /\ z \o Part(e, enabled, P) =
                IF e.on \in enabled THEN put_cmsg(z, RCV_CMSG_SPACE - Len(z), e.cmsg, P) ELSE z
  <1> DEFINE x == PaddedCmsg(e.cmsg, P)
             h == P + 8
             left == RCV_CMSG_SPACE - Len(z)
  <1>1. Attached(x, level, ty, data, P, h) /\ e.cmsg = KernelCmsg(level, ty, data, P)
        /\ bound \in Nat /\ Len(x) <= bound
    BY DEF Entry
  <1> HIDE DEF x, h
  <1>2. x \in Seq(Byte) /\ Len(x) \in Nat /\ Len(z) \in Nat
    <2>1. x \in Seq(Byte)
      BY <1>1, CmsgIs
    <2> QED
      BY <2>1, LenProperties
  <1>3. left \in Int /\ left >= Len(x)
    BY <1>1, <1>2 DEF RCV_CMSG_SPACE
  <1> HIDE DEF left
  <1>4. put_cmsg(z, left, e.cmsg, P) = z \o x
    <2>1. Attached(x, level, ty, data, P, h)
      BY <1>1
    <2>2. put_cmsg(z, left, KernelCmsg(level, ty, data, P), P) = z \o x
      BY ONLY <1>3, <2>1, PutIs
    <2> QED
      BY <1>1, <2>2
  <1>5. CASE e.on \in enabled
    <2>1. Part(e, enabled, P) = x
      BY <1>5 DEF Part, x
    <2>2. z \o x \in Seq(Byte) /\ Len(z \o x) = Len(z) + Len(x)
      BY <1>2, Concat
    <2> QED
      BY <1>1, <1>2, <1>4, <1>5, <2>1, <2>2 DEF left
  <1>6. CASE e.on \notin enabled
    <2>1. Part(e, enabled, P) = << >>
      BY <1>6 DEF Part
    <2>2. z \o << >> = z
      OBVIOUS
    <2>3. << >> \in Seq(Byte) /\ Len(<< >>) = 0
      BY EmptySeq
    <2> QED
      BY <1>1, <1>2, <1>6, <2>1, <2>2, <2>3
  <1> QED
    BY <1>5, <1>6

\* recv_msg's loop passes the entry.
LEMMA EntryPassed ==
    ASSUME NEW e, NEW level, NEW ty, NEW data, NEW P, NEW bound, Entry(e, level, ty, data, P, bound),
           NEW enabled, NEW t, NEW buf, Joins(buf, Part(e, enabled, P), t), NEW r, NEW little
    PROVE  /\ e.on \notin enabled => buf = t
           /\ e.on \in enabled =>
                /\ Len(t) + (P + 8) <= Len(buf)
                /\ recv_turn([rest |-> buf, info |-> r], P, little) =
                    [rest |-> t,
                     info |-> IF is_rcvinfo([level |-> level, ty |-> ty, data |-> data, rest |-> t])
                              THEN RcvInfo_from_sys(data, little) ELSE r]
  <1> DEFINE x == PaddedCmsg(e.cmsg, P)
             h == P + 8
             m == [level |-> level, ty |-> ty, data |-> data, rest |-> t]
             s == [rest |-> buf, info |-> r]
  <1>1. Attached(x, level, ty, data, P, h) /\ h = P + 8
    BY DEF Entry
  <1>2. CASE e.on \notin enabled
    <2>1. buf = << >> \o t /\ t \in Seq(Byte)
      BY <1>2 DEF Joins, Part
    <2>2. << >> \o t = t
      BY <2>1
    <2> QED
      BY <1>2, <2>1, <2>2
  <1>3. CASE e.on \in enabled
    <2>1. Joins(buf, x, t)
      BY <1>3 DEF Part
    <2> HIDE DEF x, h
    <2>2. has_next(buf, P) /\ next(buf, P) = m
      BY <1>1, <2>1, CmsgRead
    <2>3. Len(t) + h <= Len(buf)
      <3>1. x \in Seq(Byte) /\ Len(data) \in Nat /\ Len(x) >= h + Len(data)
        BY <1>1, CmsgIs
      <3>2. Len(buf) = Len(x) + Len(t) /\ Len(x) \in Nat /\ Len(t) \in Nat
        BY <2>1, <3>1, Concat DEF Joins
      <3>3. h \in Nat
        BY <1>1 DEF Attached
      <3> QED
        BY <3>1, <3>2, <3>3
    <2>4. s.rest = buf /\ s.info = r /\ m.data = data /\ m.rest = t
      OBVIOUS
    <2> HIDE DEF s, m
    <2>5. recv_turn(s, P, little) =
            [rest |-> m.rest,
             info |-> IF is_rcvinfo(m) THEN RcvInfo_from_sys(m.data, little) ELSE s.info]
      BY <2>2, <2>4 DEF recv_turn
    <2> QED
      BY <1>1, <1>3, <2>3, <2>4, <2>5 DEF s, m
  <1> QED
    BY <1>2, <1>3

\* The entries that fit into RCV_CMSG_SPACE together.
Fitting(all) == <<all[1], all[3], all[5], all[6], all[7]>>

LEMMA EntriesAre ==
    ASSUME NEW P \in {4, 8}, NEW little \in BOOLEAN, NEW all, all = Attachable(P, little),
           NEW few, few = Fitting(all),
           NEW img, img = Image(KernelRcvInfo, << >>, little)
    PROVE  /\ Len(all) = 7 /\ all[2].on = "TIMESTAMPING" /\ all[4].on = "RCVMARK"
           /\ few[1].on = "TIMESTAMP" /\ few[2].on = "RXQ_OVFL" /\ few[3].on = "NXTINFO"
           /\ few[4].on = "RCVINFO" /\ few[5].on = "SNDRCV"
           /\ Entry(few[1], 1, 29, Field(7, 16), P, 32)
           /\ Entry(few[2], 1, 40, Field(6, 4), P, 24)
           /\ Entry(few[3], IPPROTO_SCTP, SCTP_CMSG_NXTINFO, Field(8, 16), P, 32)
           /\ Entry(few[4], IPPROTO_SCTP, SCTP_CMSG_RCVINFO, img, P, 48)
           /\ Entry(few[5], IPPROTO_SCTP, SCTP_CMSG_SNDRCV, Field(9, 32), P, 48)
  <1>1. /\ Len(all) = 7 /\ all[2].on = "TIMESTAMPING" /\ all[4].on = "RCVMARK"
        /\ few[1].on = "TIMESTAMP" /\ few[2].on = "RXQ_OVFL" /\ few[3].on = "NXTINFO"
        /\ few[4].on = "RCVINFO" /\ few[5].on = "SNDRCV"
        /\ few[1].cmsg = KernelCmsg(1, 29, Field(7, 16), P)
        /\ few[2].cmsg = KernelCmsg(1, 40, Field(6, 4), P)
        /\ few[3].cmsg = KernelCmsg(IPPROTO_SCTP, SCTP_CMSG_NXTINFO, Field(8, 16), P)
        /\ few[4].cmsg = KernelCmsg(IPPROTO_SCTP, SCTP_CMSG_RCVINFO, img, P)
        /\ few[5].cmsg = KernelCmsg(IPPROTO_SCTP, SCTP_CMSG_SNDRCV, Field(9, 32), P)
    BY DEF Attachable, Fitting
  <1>2. Entry(few[1], 1, 29, Field(7, 16), P, 32)
    <2>1. Field(7, 16) \in Seq(Byte) /\ Len(Field(7, 16)) = 16
      BY FirstField DEF FieldValues
    <2> DEFINE data == Field(7, 16)
    <2>2. data \in Seq(Byte) /\ Len(data) = 16
      BY <2>1
    <2> HIDE DEF data
    <2>3. RoundUp(P + 8 + Len(data), P) <= 32
      BY <2>2 DEF RoundUp
    <2>4. 1 \in Nat /\ 29 \in Nat /\ 32 \in Nat
      OBVIOUS
    <2>5. few[1].cmsg = KernelCmsg(1, 29, data, P)
      BY <1>1 DEF data
    <2>6. Entry(few[1], 1, 29, data, P, 32)
      BY ONLY <2>2, <2>3, <2>4, <2>5, P \in {4, 8}, EntryIs
    <2> QED
      BY <2>6 DEF data
  <1>3. Entry(few[2], 1, 40, Field(6, 4), P, 24)
    <2>1. Field(6, 4) \in Seq(Byte) /\ Len(Field(6, 4)) = 4
      BY FirstField DEF FieldValues
    <2> DEFINE data == Field(6, 4)
    <2>2. data \in Seq(Byte) /\ Len(data) = 4
      BY <2>1
    <2> HIDE DEF data
    <2>3. RoundUp(P + 8 + Len(data), P) <= 24
      BY <2>2 DEF RoundUp
    <2>4. 1 \in Nat /\ 40 \in Nat /\ 24 \in Nat
      OBVIOUS
    <2>5. few[2].cmsg = KernelCmsg(1, 40, data, P)
      BY <1>1 DEF data
    <2>6. Entry(few[2], 1, 40, data, P, 24)
      BY ONLY <2>2, <2>3, <2>4, <2>5, P \in {4, 8}, EntryIs, ZenonT(30)
    <2> QED
      BY <2>6 DEF data
  <1>4. Entry(few[3], IPPROTO_SCTP, SCTP_CMSG_NXTINFO, Field(8, 16), P, 32)
    <2>1. Field(8, 16) \in Seq(Byte) /\ Len(Field(8, 16)) = 16
      BY FirstField DEF FieldValues
    <2> DEFINE data == Field(8, 16)
    <2>2. data \in Seq(Byte) /\ Len(data) = 16
      BY <2>1
    <2> HIDE DEF data
    <2>3. RoundUp(P + 8 + Len(data), P) <= 32
      BY <2>2 DEF RoundUp
    <2>4. IPPROTO_SCTP \in Nat /\ SCTP_CMSG_NXTINFO \in Nat /\ 32 \in Nat
      BY DEF IPPROTO_SCTP, SCTP_CMSG_NXTINFO
    <2>5. few[3].cmsg = KernelCmsg(IPPROTO_SCTP, SCTP_CMSG_NXTINFO, data, P)
      BY <1>1 DEF data
    <2>6. Entry(few[3], IPPROTO_SCTP, SCTP_CMSG_NXTINFO, data, P, 32)
      BY ONLY <2>2, <2>3, <2>4, <2>5, P \in {4, 8}, EntryIs
    <2> QED
      BY <2>6 DEF data
  <1>5. Entry(few[4], IPPROTO_SCTP, SCTP_CMSG_RCVINFO, img, P, 48)
    <2>1. img \in Seq(Byte) /\ Len(img) = 28
      BY RcvInfoRead
    <2> DEFINE data == img
    <2>2. data \in Seq(Byte) /\ Len(data) = 28
      BY <2>1
    <2> HIDE DEF data
    <2>3. RoundUp(P + 8 + Len(data), P) <= 48
      BY <2>2 DEF RoundUp
    <2>4. IPPROTO_SCTP \in Nat /\ SCTP_CMSG_RCVINFO \in Nat /\ 48 \in Nat
      BY DEF IPPROTO_SCTP, SCTP_CMSG_RCVINFO
    <2>5. few[4].cmsg = KernelCmsg(IPPROTO_SCTP, SCTP_CMSG_RCVINFO, data, P)
      BY <1>1 DEF data
    <2>6. Entry(few[4], IPPROTO_SCTP, SCTP_CMSG_RCVINFO, data, P, 48)
      BY ONLY <2>2, <2>3, <2>4, <2>5, P \in {4, 8}, EntryIs, ZenonT(30)
    <2> QED
      BY <2>6 DEF data
  <1>6. Entry(few[5], IPPROTO_SCTP, SCTP_CMSG_SNDRCV, Field(9, 32), P, 48)
    <2>1. Field(9, 32) \in Seq(Byte) /\ Len(Field(9, 32)) = 32
      BY FirstField DEF FieldValues
    <2> DEFINE data == Field(9, 32)
    <2>2. data \in Seq(Byte) /\ Len(data) = 32
      BY <2>1
    <2> HIDE DEF data
    <2>3. RoundUp(P + 8 + Len(data), P) <= 48
      BY <2>2 DEF RoundUp
    <2>4. IPPROTO_SCTP \in Nat /\ SCTP_CMSG_SNDRCV \in Nat /\ 48 \in Nat
      BY DEF IPPROTO_SCTP, SCTP_CMSG_SNDRCV
    <2>5. few[5].cmsg = KernelCmsg(IPPROTO_SCTP, SCTP_CMSG_SNDRCV, data, P)
      BY <1>1 DEF data
    <2>6. Entry(few[5], IPPROTO_SCTP, SCTP_CMSG_SNDRCV, data, P, 48)
      BY ONLY <2>2, <2>3, <2>4, <2>5, P \in {4, 8}, EntryIs, ZenonT(30)
    <2> QED
      BY <2>6 DEF data
  <1> QED
    BY <1>1, <1>2, <1>3, <1>4, <1>5, <1>6

Bounded(e, P, bound) == \E level, ty, data : Entry(e, level, ty, data, P, bound)

\* What KernelControl makes of one entry, behind what it has gathered.
Gathered(z, e, enabled, P) ==
    IF e.on \in enabled THEN put_cmsg(z, RCV_CMSG_SPACE - Len(z), e.cmsg, P) ELSE z

Room(z, e, P, bound) ==
    z \in Seq(Byte) /\ Bounded(e, P, bound) /\ Len(z) + bound <= RCV_CMSG_SPACE
Grows(z, e, enabled, P, bound) ==
    /\ Part(e, enabled, P) \in Seq(Byte)
    /\ z \o Part(e, enabled, P) \in Seq(Byte)
    /\ Len(z \o Part(e, enabled, P)) <= Len(z) + bound
    /\ Gathered(z, e, enabled, P) = z \o Part(e, enabled, P)

\* An entry that fits is gathered in full.
LEMMA GatheredIs ==
    ASSUME NEW z, NEW e, NEW P, NEW bound, Room(z, e, P, bound), NEW enabled
    PROVE  Grows(z, e, enabled, P, bound)
  <1>1. PICK level, ty, data : Entry(e, level, ty, data, P, bound)
    BY DEF Room, Bounded
  <1>2. z \in Seq(Byte) /\ Len(z) + bound <= RCV_CMSG_SPACE
    BY DEF Room
  <1> QED
    BY <1>1, <1>2, EntryPut DEF Gathered, Grows

\* The entries' parts, one behind the other, and what is left behind each.
Rests(t, control, all, enabled, P) ==
    /\ t[0] = control /\ t[5] = << >> /\ \A i \in 0..5 : t[i] \in Seq(Byte)
    /\ \A i \in 1..5 : Joins(t[i - 1], Part(all[i], enabled, P), t[i])

\* The control messages are the enabled entries in order.
LEMMA ControlIs ==
    ASSUME NEW P \in {4, 8}, NEW little \in BOOLEAN, NEW enabled, NEW all,
           all = Attachable(P, little), NEW few, few = Fitting(all),
           enabled \subseteq Usual
    PROVE  \E t : Rests(t, KernelControl(enabled, RCV_CMSG_SPACE, P, little), few, enabled, P)
  <1> DEFINE img == Image(KernelRcvInfo, << >>, little)
             control == KernelControl(enabled, RCV_CMSG_SPACE, P, little)
             Q(g) == g = [i \in 0..Len(all) |->
                            IF i = 0 THEN << >>
                            ELSE IF all[i].on \in enabled
                            THEN put_cmsg(g[i - 1], RCV_CMSG_SPACE - Len(g[i - 1]), all[i].cmsg, P)
                            ELSE g[i - 1]]
             c == CHOOSE g : Q(g)
             p1 == Part(few[1], enabled, P)
             p2 == Part(few[2], enabled, P)
             p3 == Part(few[3], enabled, P)
             p4 == Part(few[4], enabled, P)
             p5 == Part(few[5], enabled, P)
             z0 == << >>
             z1 == z0 \o p1
             z2 == z1 \o p2
             z3 == z2 \o p3
             z4 == z3 \o p4
             z5 == z4 \o p5
             f == [i \in 0..7 |-> CASE i = 0 -> z0 [] i = 1 -> z1 [] i = 2 -> z1 [] i = 3 -> z2
                                    [] i = 4 -> z2 [] i = 5 -> z3 [] i = 6 -> z4 [] i = 7 -> z5]
             t5 == << >>
             t4 == p5 \o t5
             t3 == p4 \o t4
             t2 == p3 \o t3
             t1 == p2 \o t2
             t0 == p1 \o t1
             t == [i \in 0..5 |-> CASE i = 0 -> t0 [] i = 1 -> t1 [] i = 2 -> t2 [] i = 3 -> t3
                                    [] i = 4 -> t4 [] i = 5 -> t5]
  <1>1. /\ Len(all) = 7 /\ all[2].on \notin enabled /\ all[4].on \notin enabled
        /\ Bounded(few[1], P, 32) /\ Bounded(few[2], P, 24)
        /\ Bounded(few[3], P, 32) /\ Bounded(few[4], P, 48) /\ Bounded(few[5], P, 48)
    <2>1. "TIMESTAMPING" \notin enabled /\ "RCVMARK" \notin enabled
      BY DEF Usual
    <2> QED
      BY <2>1, EntriesAre DEF Bounded
  <1>2. control = c[Len(all)]
    BY DEF KernelControl
  <1> HIDE DEF p1, p2, p3, p4, p5, z0, z1, z2, z3, z4, z5, c
  <1>3. z0 \in Seq(Byte) /\ Len(z0) = 0
    BY EmptySeq DEF z0
  <1>4. /\ p1 \in Seq(Byte) /\ z1 \in Seq(Byte) /\ Len(z1) <= 32
        /\ Gathered(z0, few[1], enabled, P) = z1
    <2>1. Len(z0) + 32 <= RCV_CMSG_SPACE /\ Len(z0) \in Nat
      BY <1>3, LenProperties DEF RCV_CMSG_SPACE
    <2>2. Room(z0, few[1], P, 32)
      BY <1>1, <1>3, <2>1 DEF Room
    <2>5. Grows(z0, few[1], enabled, P, 32)
      BY ONLY <2>2, GatheredIs
    <2>3. /\ p1 \in Seq(Byte) /\ z1 \in Seq(Byte) /\ Len(z1) <= Len(z0) + 32
          /\ Gathered(z0, few[1], enabled, P) = z1
      BY ONLY <2>5 DEF Grows, p1, z1
    <2>4. Len(z1) \in Nat
      BY <2>3, LenProperties
    <2> QED
      BY <1>3, <2>1, <2>3, <2>4
  <1>5. /\ p2 \in Seq(Byte) /\ z2 \in Seq(Byte) /\ Len(z2) <= 56
        /\ Gathered(z1, few[2], enabled, P) = z2
    <2>1. Len(z1) + 24 <= RCV_CMSG_SPACE /\ Len(z1) \in Nat
      BY <1>4, LenProperties DEF RCV_CMSG_SPACE
    <2>2. Room(z1, few[2], P, 24)
      BY <1>1, <1>4, <2>1 DEF Room
    <2>5. Grows(z1, few[2], enabled, P, 24)
      BY ONLY <2>2, GatheredIs
    <2>3. /\ p2 \in Seq(Byte) /\ z2 \in Seq(Byte) /\ Len(z2) <= Len(z1) + 24
          /\ Gathered(z1, few[2], enabled, P) = z2
      BY ONLY <2>5 DEF Grows, p2, z2
    <2>4. Len(z2) \in Nat
      BY <2>3, LenProperties
    <2> QED
      BY <1>4, <2>1, <2>3, <2>4
  <1>6. /\ p3 \in Seq(Byte) /\ z3 \in Seq(Byte) /\ Len(z3) <= 88
        /\ Gathered(z2, few[3], enabled, P) = z3
    <2>1. Len(z2) + 32 <= RCV_CMSG_SPACE /\ Len(z2) \in Nat
      BY <1>5, LenProperties DEF RCV_CMSG_SPACE
    <2>2. Room(z2, few[3], P, 32)
      BY <1>1, <1>5, <2>1 DEF Room
    <2>5. Grows(z2, few[3], enabled, P, 32)
      BY ONLY <2>2, GatheredIs
    <2>3. /\ p3 \in Seq(Byte) /\ z3 \in Seq(Byte) /\ Len(z3) <= Len(z2) + 32
          /\ Gathered(z2, few[3], enabled, P) = z3
      BY ONLY <2>5 DEF Grows, p3, z3
    <2>4. Len(z3) \in Nat
      BY <2>3, LenProperties
    <2> QED
      BY <1>5, <2>1, <2>3, <2>4
  <1>7. /\ p4 \in Seq(Byte) /\ z4 \in Seq(Byte) /\ Len(z4) <= 136
        /\ Gathered(z3, few[4], enabled, P) = z4
    <2>1. Len(z3) + 48 <= RCV_CMSG_SPACE /\ Len(z3) \in Nat
      BY <1>6, LenProperties DEF RCV_CMSG_SPACE
    <2>2. Room(z3, few[4], P, 48)
      BY <1>1, <1>6, <2>1 DEF Room
    <2>5. Grows(z3, few[4], enabled, P, 48)
      BY ONLY <2>2, GatheredIs
    <2>3. /\ p4 \in Seq(Byte) /\ z4 \in Seq(Byte) /\ Len(z4) <= Len(z3) + 48
          /\ Gathered(z3, few[4], enabled, P) = z4
      BY ONLY <2>5 DEF Grows, p4, z4
    <2>4. Len(z4) \in Nat
      BY <2>3, LenProperties
    <2> QED
      BY <1>6, <2>1, <2>3, <2>4
  <1>8. /\ p5 \in Seq(Byte) /\ z5 \in Seq(Byte) /\ Len(z5) <= 184
        /\ Gathered(z4, few[5], enabled, P) = z5
    <2>1. Len(z4) + 48 <= RCV_CMSG_SPACE /\ Len(z4) \in Nat
      BY <1>7, LenProperties DEF RCV_CMSG_SPACE
    <2>2. Room(z4, few[5], P, 48)
      BY <1>1, <1>7, <2>1 DEF Room
    <2>5. Grows(z4, few[5], enabled, P, 48)
      BY ONLY <2>2, GatheredIs
    <2>3. /\ p5 \in Seq(Byte) /\ z5 \in Seq(Byte) /\ Len(z5) <= Len(z4) + 48
          /\ Gathered(z4, few[5], enabled, P) = z5
      BY ONLY <2>5 DEF Grows, p5, z5
    <2>4. Len(z5) \in Nat
      BY <2>3, LenProperties
    <2> QED
      BY <1>7, <2>1, <2>3, <2>4
  <1>9. /\ f[0] = z0 /\ f[1] = z1 /\ f[2] = z1 /\ f[3] = z2 /\ f[4] = z2 /\ f[5] = z3
        /\ f[6] = z4 /\ f[7] = z5
    OBVIOUS
  <1>10. f = [i \in 0..7 |-> f[i]]
    OBVIOUS
  <1> HIDE DEF f
  <1>12. \A g : Q(g) <=> g = [i \in 0..7 |-> IF i = 0 THEN z0 ELSE Gathered(g[i - 1], all[i], enabled, P)]
    BY <1>1 DEF Gathered, z0
  <1> HIDE DEF Q
  <1>11. /\ Gathered(z0, all[1], enabled, P) = z1 /\ Gathered(z1, all[2], enabled, P) = z1
         /\ Gathered(z1, all[3], enabled, P) = z2 /\ Gathered(z2, all[4], enabled, P) = z2
         /\ Gathered(z2, all[5], enabled, P) = z3 /\ Gathered(z3, all[6], enabled, P) = z4
         /\ Gathered(z4, all[7], enabled, P) = z5
    <2>1. /\ few[1] = all[1] /\ few[2] = all[3] /\ few[3] = all[5] /\ few[4] = all[6]
          /\ few[5] = all[7]
      BY DEF Fitting
    <2>2. Gathered(z1, all[2], enabled, P) = z1 /\ Gathered(z2, all[4], enabled, P) = z2
      BY <1>1 DEF Gathered
    <2> QED
      BY <1>4, <1>5, <1>6, <1>7, <1>8, <2>1, <2>2
  <1>13. Q(f)
    <2>1. ASSUME NEW i \in 1..7 PROVE f[i] = Gathered(f[i - 1], all[i], enabled, P)
      <3>1. /\ f[1] = Gathered(f[0], all[1], enabled, P) /\ f[2] = Gathered(f[1], all[2], enabled, P)
            /\ f[3] = Gathered(f[2], all[3], enabled, P) /\ f[4] = Gathered(f[3], all[4], enabled, P)
            /\ f[5] = Gathered(f[4], all[5], enabled, P) /\ f[6] = Gathered(f[5], all[6], enabled, P)
            /\ f[7] = Gathered(f[6], all[7], enabled, P)
        BY <1>9, <1>11
      <3>2. i \in {1, 2, 3, 4, 5, 6, 7}
        OBVIOUS
      <3> QED
        BY <3>1, <3>2
    <2>2. \A i \in 0..7 : i # 0 => i \in 1..7
      OBVIOUS
    <2>3. f = [i \in 0..7 |-> IF i = 0 THEN z0 ELSE Gathered(f[i - 1], all[i], enabled, P)]
      BY <1>9, <1>10, <2>1, <2>2
    <2> QED
      BY <1>12, <2>3
  <1>14. Q(c)
    BY <1>13, Zenon DEF c
  <1>15. c = [i \in 0..7 |-> IF i = 0 THEN z0 ELSE Gathered(c[i - 1], all[i], enabled, P)]
    BY <1>12, <1>14
  <1>16. c[7] = z5
    <2>1. c[0] = z0 /\ \A i \in 1..7 : c[i] = Gathered(c[i - 1], all[i], enabled, P)
      BY <1>15
    <2>2. /\ c[1] = Gathered(c[0], all[1], enabled, P) /\ c[2] = Gathered(c[1], all[2], enabled, P)
          /\ c[3] = Gathered(c[2], all[3], enabled, P) /\ c[4] = Gathered(c[3], all[4], enabled, P)
          /\ c[5] = Gathered(c[4], all[5], enabled, P) /\ c[6] = Gathered(c[5], all[6], enabled, P)
          /\ c[7] = Gathered(c[6], all[7], enabled, P)
      BY <2>1
    <2>3. c[1] = z1 /\ c[2] = z1 /\ c[3] = z2 /\ c[4] = z2
      BY <1>11, <2>1, <2>2
    <2>4. c[5] = z3 /\ c[6] = z4
      BY <1>11, <2>2, <2>3
    <2> QED
      BY <1>11, <2>2, <2>4
  <1>17. control = z5
    BY <1>1, <1>2, <1>16
  <1> HIDE DEF control, t0, t1, t2, t3, t4, t5
  <1>18. t5 \in Seq(Byte)
    BY EmptySeq DEF t5
  <1>19. t4 \in Seq(Byte) /\ t3 \in Seq(Byte) /\ t2 \in Seq(Byte) /\ t1 \in Seq(Byte) /\ t0 \in Seq(Byte)
    BY <1>4, <1>5, <1>6, <1>7, <1>8, <1>18, Concat DEF t4, t3, t2, t1, t0
  <1>20. z5 = t0
    <2>1. z5 = z4 \o t4
      BY <1>8 DEF z5, t4, t5
    <2>2. z4 \o t4 = z3 \o t3
      <3>1. z3 \in Seq(Byte) /\ p4 \in Seq(Byte) /\ t4 \in Seq(Byte)
        BY <1>6, <1>7, <1>19
      <3>2. (z3 \o p4) \o t4 = z3 \o (p4 \o t4)
        BY ONLY <3>1, Assoc
      <3> QED
        BY <3>2, Zenon DEF z4, t3
    <2>3. z3 \o t3 = z2 \o t2
      <3>1. z2 \in Seq(Byte) /\ p3 \in Seq(Byte) /\ t3 \in Seq(Byte)
        BY <1>5, <1>6, <1>19
      <3>2. (z2 \o p3) \o t3 = z2 \o (p3 \o t3)
        BY ONLY <3>1, Assoc
      <3> QED
        BY <3>2, Zenon DEF z3, t2
    <2>4. z2 \o t2 = z1 \o t1
      <3>1. z1 \in Seq(Byte) /\ p2 \in Seq(Byte) /\ t2 \in Seq(Byte)
        BY <1>4, <1>5, <1>19
      <3>2. (z1 \o p2) \o t2 = z1 \o (p2 \o t2)
        BY ONLY <3>1, Assoc
      <3> QED
        BY <3>2, Zenon DEF z2, t1
    <2>5. z1 \o t1 = z0 \o t0
      <3>1. z0 \in Seq(Byte) /\ p1 \in Seq(Byte) /\ t1 \in Seq(Byte)
        BY <1>3, <1>4, <1>19
      <3>2. (z0 \o p1) \o t1 = z0 \o (p1 \o t1)
        BY ONLY <3>1, Assoc
      <3> QED
        BY <3>2, Zenon DEF z1, t0
    <2>6. z0 \o t0 = t0
      BY <1>19 DEF z0
    <2> QED
      BY <2>1, <2>2, <2>3, <2>4, <2>5, <2>6
  <1>21. t[0] = t0 /\ t[1] = t1 /\ t[2] = t2 /\ t[3] = t3 /\ t[4] = t4 /\ t[5] = t5
    OBVIOUS
  <1> HIDE DEF t
  <1>22. ASSUME NEW i \in 1..5 PROVE Joins(t[i - 1], Part(few[i], enabled, P), t[i])
    <2>1. /\ Joins(t[0], p1, t[1]) /\ Joins(t[1], p2, t[2]) /\ Joins(t[2], p3, t[3])
          /\ Joins(t[3], p4, t[4]) /\ Joins(t[4], p5, t[5])
      BY <1>18, <1>19, <1>21 DEF Joins, t0, t1, t2, t3, t4
    <2>2. i \in {1, 2, 3, 4, 5}
      OBVIOUS
    <2> QED
      BY <2>1, <2>2 DEF p1, p2, p3, p4, p5
  <1>23. \A i \in 0..5 : t[i] \in Seq(Byte)
    <2>1. \A i \in 0..5 : i \in {0, 1, 2, 3, 4, 5}
      OBVIOUS
    <2> QED
      BY <1>18, <1>19, <1>21, <2>1
  <1>24. Rests(t, control, few, enabled, P)
    BY <1>17, <1>20, <1>21, <1>22, <1>23 DEF Rests, t5
  <1> QED
    BY <1>24 DEF control

\* recv_msg's loop gets from buf, with r found, to t, with s found.
Passes(buf, r, t, s, P, little) ==
    \/ buf = t /\ r = s
    \/ /\ recv_turn([rest |-> buf, info |-> r], P, little) = [rest |-> t, info |-> s]
       /\ Len(t) + (P + 8) <= Len(buf)

\* Entry e, not enabled or in front of t.
InFront(e, level, ty, data, P, bound, enabled, buf, t) ==
    Entry(e, level, ty, data, P, bound) /\ Joins(buf, Part(e, enabled, P), t)

\* A message that is no RCVINFO changes nothing that was found.
LEMMA OtherPassed ==
    ASSUME NEW e, NEW level, NEW ty, NEW data, NEW P, NEW bound, NEW enabled, NEW buf, NEW t,
           InFront(e, level, ty, data, P, bound, enabled, buf, t),
           level # IPPROTO_SCTP \/ ty # SCTP_CMSG_RCVINFO, NEW r, NEW little
    PROVE  Passes(buf, r, t, r, P, little)
  <1> DEFINE m == [level |-> level, ty |-> ty, data |-> data, rest |-> t]
  <1>1. Entry(e, level, ty, data, P, bound) /\ Joins(buf, Part(e, enabled, P), t)
    BY DEF InFront
  <1>2. ~is_rcvinfo(m)
    BY DEF is_rcvinfo
  <1> HIDE DEF m
  <1>3. /\ e.on \notin enabled => buf = t
        /\ e.on \in enabled =>
            /\ Len(t) + (P + 8) <= Len(buf)
            /\ recv_turn([rest |-> buf, info |-> r], P, little) =
                [rest |-> t,
                 info |-> IF is_rcvinfo(m) THEN RcvInfo_from_sys(data, little) ELSE r]
    BY ONLY <1>1, EntryPassed DEF m
  <1> QED
    BY <1>2, <1>3 DEF Passes

\* RCVINFO is found.
LEMMA RcvInfoPassed ==
    ASSUME NEW e, NEW level, NEW ty, NEW data, NEW P, NEW bound, NEW enabled, NEW buf, NEW t,
           InFront(e, level, ty, data, P, bound, enabled, buf, t),
           level = IPPROTO_SCTP, ty = SCTP_CMSG_RCVINFO,
           Len(data) >= SizeOfStruct(sctp_rcvinfo), NEW r, NEW little
    PROVE  Passes(buf, r, t, IF e.on \in enabled THEN RcvInfo_from_sys(data, little) ELSE r,
                  P, little)
  <1> DEFINE m == [level |-> level, ty |-> ty, data |-> data, rest |-> t]
  <1>1. Entry(e, level, ty, data, P, bound) /\ Joins(buf, Part(e, enabled, P), t)
    BY DEF InFront
  <1>2. is_rcvinfo(m)
    BY DEF is_rcvinfo
  <1> HIDE DEF m
  <1>3. /\ e.on \notin enabled => buf = t
        /\ e.on \in enabled =>
            /\ Len(t) + (P + 8) <= Len(buf)
            /\ recv_turn([rest |-> buf, info |-> r], P, little) =
                [rest |-> t,
                 info |-> IF is_rcvinfo(m) THEN RcvInfo_from_sys(data, little) ELSE r]
    BY ONLY <1>1, EntryPassed DEF m
  <1> QED
    BY <1>2, <1>3 DEF Passes

\* There is no message in nothing.
LEMMA EndIsEnd ==
    ASSUME NEW P \in {4, 8}, NEW little, NEW s, s.rest = << >>
    PROVE  recv_turn(s, P, little) = s
  <1>1. Len(s.rest) = 0 /\ HDR_LEN(P) = P + 8
    BY EmptySeq, HeaderIs
  <1>2. ~has_next(s.rest, P)
    BY <1>1 DEF has_next
  <1> QED
    BY <1>2 DEF recv_turn

\* recv_msg's loop over the control messages returns what it should, unless more
\* is enabled than fits.
LEMMA InfosReceived == recv_control => Fine("recv_info") \/ last'.op = "recv_info_crowded"
  <1> SUFFICES ASSUME recv_control, last'.op # "recv_info_crowded" PROVE Fine("recv_info")
    OBVIOUS
  <1> DEFINE wanted(enabled) ==
                 IF "RCVINFO" \notin enabled THEN None
                 ELSE [f \in {"sid", "ssn", "flags", "ppid", "tsn", "cumtsn", "context", "assoc_id"}
                            |-> MemberValue(KernelRcvInfo, << >>, f)]
             control(enabled, h) == KernelControl(enabled, RCV_CMSG_SPACE, h.P, h.little)
             found(enabled, h) == recv_info(control(enabled, h), h.P, h.little)
             op(enabled) == IF enabled \subseteq Usual THEN "recv_info" ELSE "recv_info_crowded"
  <1>28. PICK enabled \in SUBSET (Usual \cup Crowding), h \in Hosts :
            Done(op(enabled), found(enabled, h), wanted(enabled))
    BY DEF recv_control
  <1>29. enabled \subseteq Usual
    <2> HIDE DEF found, wanted
    <2> QED
      BY <1>28 DEF Done
  <1>1. Done("recv_info", found(enabled, h), wanted(enabled))
    <2> HIDE DEF found, wanted
    <2> QED
      BY <1>28, <1>29
  <1>2. h.P \in {4, 8} /\ h.little \in BOOLEAN
    BY DEF Hosts
  <1>3. PICK P, little : P = h.P /\ little = h.little
    OBVIOUS
  <1>4. P \in {4, 8} /\ little \in BOOLEAN
    BY <1>2, <1>3
  <1>5. PICK all, few, img : all = Attachable(P, little) /\ few = Fitting(all) /\ img = Image(KernelRcvInfo, << >>, little)
    OBVIOUS
  <1> DEFINE z == KernelControl(enabled, RCV_CMSG_SPACE, P, little)
             got == IF few[4].on \in enabled THEN RcvInfo_from_sys(img, little) ELSE None
  <1>6. PICK t : Rests(t, z, few, enabled, P)
    BY <1>4, <1>5, <1>29, ControlIs
  <1>7. /\ t[0] = z /\ t[5] = << >> /\ \A i \in 0..5 : t[i] \in Seq(Byte)
        /\ \A i \in 1..5 : Joins(t[i - 1], Part(few[i], enabled, P), t[i])
    BY <1>6 DEF Rests
  <1>8. /\ Joins(t[0], Part(few[1], enabled, P), t[1]) /\ Joins(t[1], Part(few[2], enabled, P), t[2])
        /\ Joins(t[2], Part(few[3], enabled, P), t[3]) /\ Joins(t[3], Part(few[4], enabled, P), t[4])
        /\ Joins(t[4], Part(few[5], enabled, P), t[5])
    BY <1>7
  <1>9. /\ few[4].on = "RCVINFO"
        /\ Entry(few[1], 1, 29, Field(7, 16), P, 32)
        /\ Entry(few[2], 1, 40, Field(6, 4), P, 24)
        /\ Entry(few[3], IPPROTO_SCTP, SCTP_CMSG_NXTINFO, Field(8, 16), P, 32)
        /\ Entry(few[4], IPPROTO_SCTP, SCTP_CMSG_RCVINFO, img, P, 48)
        /\ Entry(few[5], IPPROTO_SCTP, SCTP_CMSG_SNDRCV, Field(9, 32), P, 48)
    BY <1>4, <1>5, EntriesAre
  <1>10. /\ InFront(few[1], 1, 29, Field(7, 16), P, 32, enabled, t[0], t[1])
         /\ InFront(few[2], 1, 40, Field(6, 4), P, 24, enabled, t[1], t[2])
         /\ InFront(few[3], IPPROTO_SCTP, SCTP_CMSG_NXTINFO, Field(8, 16), P, 32, enabled, t[2], t[3])
         /\ InFront(few[4], IPPROTO_SCTP, SCTP_CMSG_RCVINFO, img, P, 48, enabled, t[3], t[4])
         /\ InFront(few[5], IPPROTO_SCTP, SCTP_CMSG_SNDRCV, Field(9, 32), P, 48, enabled, t[4], t[5])
    BY <1>8, <1>9 DEF InFront
  <1>11. /\ Len(img) >= SizeOfStruct(sctp_rcvinfo)
         /\ RcvInfo_from_sys(img, little) =
                [f \in {"sid", "ssn", "flags", "ppid", "tsn", "cumtsn", "context", "assoc_id"} |->
                    MemberValue(KernelRcvInfo, << >>, f)]
    <2>1. /\ Len(img) = 28 /\ SizeOfStruct(sctp_rcvinfo) = 28
          /\ RcvInfo_from_sys(img, little) =
                [f \in {"sid", "ssn", "flags", "ppid", "tsn", "cumtsn", "context", "assoc_id"} |->
                    MemberValue(KernelRcvInfo, << >>, f)]
      BY <1>4, <1>5, RcvInfoRead
    <2>2. Len(img) >= SizeOfStruct(sctp_rcvinfo)
      BY ONLY <2>1
    <2> QED
      BY <2>1, <2>2
  <1>12. /\ 1 # IPPROTO_SCTP /\ SCTP_CMSG_NXTINFO # SCTP_CMSG_RCVINFO
         /\ SCTP_CMSG_SNDRCV # SCTP_CMSG_RCVINFO
    BY DEF IPPROTO_SCTP, SCTP_CMSG_NXTINFO, SCTP_CMSG_SNDRCV, SCTP_CMSG_RCVINFO
  <1> HIDE DEF z
  <1>13. /\ Passes(t[0], None, t[1], None, P, little)
         /\ Passes(t[1], None, t[2], None, P, little)
         /\ Passes(t[2], None, t[3], None, P, little)
    <2>1. Passes(t[0], None, t[1], None, P, little)
      <3>1. InFront(few[1], 1, 29, Field(7, 16), P, 32, enabled, t[0], t[1]) /\ 1 # IPPROTO_SCTP
        BY <1>10, <1>12
      <3> QED
        BY ONLY <3>1, OtherPassed
    <2>2. Passes(t[1], None, t[2], None, P, little)
      <3>1. InFront(few[2], 1, 40, Field(6, 4), P, 24, enabled, t[1], t[2]) /\ 1 # IPPROTO_SCTP
        BY <1>10, <1>12
      <3> QED
        BY ONLY <3>1, OtherPassed
    <2>3. Passes(t[2], None, t[3], None, P, little)
      <3>1. /\ InFront(few[3], IPPROTO_SCTP, SCTP_CMSG_NXTINFO, Field(8, 16), P, 32, enabled,
                       t[2], t[3])
            /\ SCTP_CMSG_NXTINFO # SCTP_CMSG_RCVINFO
        BY <1>10, <1>12
      <3> QED
        BY ONLY <3>1, OtherPassed
    <2> QED
      BY <2>1, <2>2, <2>3
  <1>14. Passes(t[3], None, t[4], got, P, little)
    <2>1. /\ InFront(few[4], IPPROTO_SCTP, SCTP_CMSG_RCVINFO, img, P, 48, enabled, t[3], t[4])
          /\ Len(img) >= SizeOfStruct(sctp_rcvinfo)
      BY <1>10, <1>11
    <2> QED
      BY ONLY <2>1, RcvInfoPassed DEF got
  <1>15. Passes(t[4], got, t[5], got, P, little)
    <2>1. /\ InFront(few[5], IPPROTO_SCTP, SCTP_CMSG_SNDRCV, Field(9, 32), P, 48, enabled,
                     t[4], t[5])
          /\ SCTP_CMSG_SNDRCV # SCTP_CMSG_RCVINFO
      BY <1>10, <1>12
    <2> QED
      BY ONLY <2>1, OtherPassed
  <1>16. got = wanted(enabled)
    BY <1>9, <1>11
  <1> HIDE DEF got, wanted
  <1> DEFINE s == [i \in 0..5 |-> IF i >= 4 THEN got ELSE None]
             y == [i \in 0..5 |-> [rest |-> t[i], info |-> s[i]]]
             w == [i \in 0..5 |-> Len(t[i])]
  <1>17. \A i \in 1..5 : Passes(t[i - 1], s[i - 1], t[i], s[i], P, little)
    <2>1. s[0] = None /\ s[1] = None /\ s[2] = None /\ s[3] = None /\ s[4] = got /\ s[5] = got
      OBVIOUS
    <2> HIDE DEF s
    <2>2. \A i \in 1..5 : i \in {1, 2, 3, 4, 5}
      OBVIOUS
    <2> QED
      BY <1>13, <1>14, <1>15, <2>1, <2>2
  <1>18. s[0] = None /\ s[5] = got
    OBVIOUS
  <1> HIDE DEF s
  <1>19. \A i \in 0..5 : y[i] = [rest |-> t[i], info |-> s[i]] /\ w[i] = Len(t[i])
    OBVIOUS
  <1> HIDE DEF y, w
  <1>20. \A i \in 1..5 : Stage(y, w, i, P, little)
    <2> SUFFICES ASSUME NEW i \in 1..5 PROVE Stage(y, w, i, P, little)
      OBVIOUS
    <2>1. i \in 0..5 /\ i - 1 \in 0..5
      OBVIOUS
    <2>2. /\ y[i] = [rest |-> t[i], info |-> s[i]] /\ w[i] = Len(t[i])
          /\ y[i - 1] = [rest |-> t[i - 1], info |-> s[i - 1]] /\ w[i - 1] = Len(t[i - 1])
      BY <1>19, <2>1
    <2>3. Passes(t[i - 1], s[i - 1], t[i], s[i], P, little)
      BY <1>17
    <2> QED
      BY <2>2, <2>3 DEF Passes, Stage
  <1>21. y[5].rest = << >> /\ y[5].info = got /\ y[0] = [rest |-> z, info |-> None] /\ w[0] = Len(z)
    BY <1>7, <1>18, <1>19
  <1>22. recv_turn(y[5], P, little) = y[5]
    BY <1>4, <1>21, EndIsEnd
  <1>23. \A i \in 0..5 : w[i] \in Nat
    BY <1>7, <1>19, LenProperties
  <1>24. z \in Seq(Byte)
    BY <1>7
  <1>25. Way(y, w, z, P, little)
    BY <1>4, <1>20, <1>21, <1>22, <1>23, <1>24 DEF Way
  <1>26. recv_info(z, P, little) = got
    <2>1. recv_info(z, P, little) = y[5].info
      BY ONLY <1>25, Walked
    <2> QED
      BY <1>21, <2>1
  <1>27. found(enabled, h) = wanted(enabled)
    BY <1>3, <1>16, <1>26 DEF z
  <1> HIDE DEF found
  <1> QED
    BY <1>1, <1>27 DEF Done, Fine

-----------------------------------------------------------------------------
(* The theorems.                                                           *)

\* A call other than set_timeout, or recv_msg with too much enabled, returns what
\* it should.
LEMMA CallsAreFine ==
    Call => set_timeout \/ last'.op = "recv_info_crowded" \/ \E op : Fine(op)
  <1>1. CASE parse_notification \/ peer_addr_info \/ status \/ assoc_stats
    BY <1>1, NotificationsParsed, PathsReported, StatusReported, StatsReported
  <1>2. CASE set_option \/ get_option \/ subscribe \/ spp_flags \/ socket_addr \/ pass_addr
    BY <1>2, OptionsSet, OptionsRead, EventsSubscribed, FlagsEncoded, NamesRead, AddressesPassed
  <1>3. CASE recv_control \/ send_control_message
    BY <1>3, InfosReceived, InfosSent
  <1> QED
    BY <1>1, <1>2, <1>3 DEF Call

\* Every step leaves a result that is as it should be, or one of those.
LEMMA ResultsAreFine ==
    ASSUME [WireNext]_wvars
    PROVE  \/ last' = last \/ last' = NoCall \/ \E op : Fine(op)
           \/ last'.op \in {"timeout", "recv_info_crowded"}
  <1>1. CASE Call
    <2>1. CASE set_timeout
      <3>1. PICK got, want : Done("timeout", got, want)
        BY <2>1 DEF set_timeout
      <3> QED
        BY <3>1 DEF Done
    <2> QED
      BY <1>1, <2>1, CallsAreFine
  <1>2. CASE ~Call
    BY <1>2 DEF WireNext, NextCall, wvars
  <1> QED
    BY <1>1, <1>2

\* Notifications and reports are decoded as the kernel wrote them, whatever the
\* addresses, the lengths of the variable parts and the cuts are.
THEOREM NotificationsAndReportsAreDecoded == WireSpec => []DecodedAsWritten
  <1>1. WireInit => DecodedAsWritten
    BY DEF WireInit, NoCall, DecodedAsWritten
  <1>2. DecodedAsWritten /\ [WireNext]_wvars => DecodedAsWritten'
    <2> SUFFICES ASSUME DecodedAsWritten, [WireNext]_wvars PROVE DecodedAsWritten'
      OBVIOUS
    <2> QED
      BY ResultsAreFine DEF Fine, NoCall, DecodedAsWritten
  <1> QED
    BY <1>1, <1>2, PTL DEF WireSpec

\* recv_msg finds RCVINFO among TIMESTAMP, RXQ_OVFL, NXTINFO and SNDRCV, whichever
\* of them are enabled, with either pointer width and byte order, and send_msg
\* passes SNDINFO as the kernel reads it.
THEOREM ControlIsCarried == WireSpec => []ControlCarried
  <1>1. WireInit => ControlCarried
    BY DEF WireInit, NoCall, ControlCarried
  <1>2. ControlCarried /\ [WireNext]_wvars => ControlCarried'
    <2> SUFFICES ASSUME ControlCarried, [WireNext]_wvars PROVE ControlCarried'
      OBVIOUS
    <2> QED
      BY ResultsAreFine DEF Fine, NoCall, ControlCarried
  <1> QED
    BY <1>1, <1>2, PTL DEF WireSpec

\* Every option's structure carries what its method was given, and back, and
\* single addresses, event types and flags are the kernel's.
THEOREM OptionsAreCarried == WireSpec => []OptionsCarried
  <1>1. WireInit => OptionsCarried
    BY DEF WireInit, NoCall, OptionsCarried
  <1>2. OptionsCarried /\ [WireNext]_wvars => OptionsCarried'
    <2> SUFFICES ASSUME OptionsCarried, [WireNext]_wvars PROVE OptionsCarried'
      OBVIOUS
    <2> QED
      BY ResultsAreFine DEF Fine, NoCall, OptionsCarried
  <1> QED
    BY <1>1, <1>2, PTL DEF WireSpec

\* Whatever a control buffer holds, Iter::next stays inside it: a message that it
\* finds and what it leaves are parts of the buffer that do not overlap and come
\* behind a header, so that the loop of recv_msg ends.
THEOREM IterationStaysInside ==
    ASSUME NEW P \in {4, 8}, NEW buf \in Seq(Byte), Value(Slice(buf, 0, P)) \in Nat,
           has_next(buf, P)
    PROVE  /\ next(buf, P).data \in Seq(Byte) /\ next(buf, P).rest \in Seq(Byte)
           /\ HDR_LEN(P) + Len(next(buf, P).data) + Len(next(buf, P).rest) <= Len(buf)
           /\ HDR_LEN(P) \in Nat \ {0}
  <1> DEFINE len == Value(Slice(buf, 0, P))
             h == HDR_LEN(P)
             n == Len(buf)
             on == advance(len, n, P)
             data == Slice(buf, h, len)
             rest == Slice(buf, on, n)
  <1>1. len \in Nat /\ h \in Nat \ {0} /\ n \in Nat /\ len >= h /\ len <= n
    <2>1. n >= h /\ len >= h /\ len <= n
      BY DEF has_next
    <2>2. h \in Nat \ {0}
      <3>1. h = P + 8
        BY HeaderIs
      <3> QED
        BY <3>1
    <2>3. n \in Nat
      BY LenProperties
    <2> HIDE DEF len, h, n
    <2>4. len \in Nat
      BY DEF len
    <2> QED
      BY <2>1, <2>2, <2>3, <2>4
  <1>2. next(buf, P).data = data /\ next(buf, P).rest = rest
    BY DEF next
  <1> HIDE DEF len, h, n, on
  <1>3. on \in Nat /\ len <= on /\ on <= n
    <2>1. align(len, P) \in Nat /\ align(len, P) >= len
      BY <1>1, HeaderIs
    <2> QED
      BY <1>1, <2>1 DEF on, advance
  <1>4. data \in Seq(Byte) /\ Len(data) = len - h
    BY <1>1, SubBytes DEF n, data
  <1>5. rest \in Seq(Byte) /\ Len(rest) = n - on
    <2>1. n <= Len(buf) /\ n \in Nat
      BY <1>1 DEF n
    <2> QED
      BY <1>3, <2>1, SubBytes
  <1> HIDE DEF data, rest
  <1>6. h + Len(data) + Len(rest) <= n
    BY <1>1, <1>3, <1>4, <1>5
  <1> QED
    BY <1>1, <1>2, <1>4, <1>5, <1>6 DEF h, n
=============================================================================

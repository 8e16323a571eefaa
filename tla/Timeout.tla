------------------------------ MODULE Timeout -------------------------------
(***************************************************************************)
(* set_recv_timeout and set_send_timeout (imp/kernel.rs): from a Duration  *)
(* to a timeval, to the kernel's timer ticks and back. The units are       *)
(* scaled: a microsecond has Nanos, a second Micros parts.                 *)
(***************************************************************************)
EXTENDS Integers

CONSTANTS
    Nanos, Micros,  \* 1000 and 1000000 in reality
    Hz,             \* the kernel's ticks per second
    TIME_T_MAX,     \* largest tv_sec
    MaxTimeoutSecs  \* the kernel waits for ever from this many seconds on

ASSUME UnitsAssumption ==
    /\ Nanos \in Nat \ {0} /\ Micros \in Nat \ {0} /\ Hz \in 1..Micros
    /\ TIME_T_MAX \in Nat /\ MaxTimeoutSecs \in 1..TIME_T_MAX

\* A Duration; what is below a second is counted in nanoseconds.
Durations(secs) == [secs : secs, nanos : 0..(Nanos * Micros - 1)]
IsZero(d) == d.secs = 0 /\ d.nanos = 0
NoTimeout == [secs |-> 0, nanos |-> 0]

subsec_micros(d) == d.nanos \div Nanos

\* Mutant: a duration below a microsecond becomes the zero timeval.
timeval_truncated(d) ==
    [tv_sec |-> IF d.secs > TIME_T_MAX THEN TIME_T_MAX ELSE d.secs,
     tv_usec |-> subsec_micros(d)]

timeval(d) ==
    [tv_sec |-> IF d.secs > TIME_T_MAX THEN TIME_T_MAX ELSE d.secs,
     tv_usec |-> IF d.secs = 0 /\ subsec_micros(d) = 0 THEN 1 ELSE subsec_micros(d)]

ZeroTimeval == [tv_sec |-> 0, tv_usec |-> 0]

\* sock_set_timeout and sock_get_timeout (external): ticks, rounded up, or for
\* ever; 0 is reported for "for ever".
Forever == -1
KernelTimeo(tv) ==
    IF tv = ZeroTimeval \/ tv.tv_sec >= MaxTimeoutSecs THEN Forever
    ELSE tv.tv_sec * Hz + (tv.tv_usec * Hz + Micros - 1) \div Micros
KernelTimeval(timeo) ==
    IF timeo = Forever THEN ZeroTimeval
    ELSE [tv_sec |-> timeo \div Hz, tv_usec |-> ((timeo % Hz) * Micros) \div Hz]

\* What timeout() makes of the kernel's answer; NoTimeout stands for None.
from_timeval(tv) ==
    IF tv = ZeroTimeval THEN NoTimeout
    ELSE [secs |-> tv.tv_sec, nanos |-> tv.tv_usec * Nanos]
=============================================================================

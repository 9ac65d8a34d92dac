------------------------------ MODULE SdbTime -------------------------------
(***************************************************************************)
(* src/sdhs/Common/Time.c: absolute and relative times for the waits of    *)
(* Thread.c and Socket.c.  An sdb_timediff is in nanoseconds.  It is       *)
(* divided as a double, which gives the integer quotient for differences   *)
(* below 2^52 ns, 52 days.  A time of day is not as small: AsDouble.       *)
(***************************************************************************)
EXTENDS Integers, FiniteSets, Bitwise

NsPerS == 1000000000
UsPerS == 1000000
Time(s, ns) == [tv_sec |-> s, tv_nsec |-> ns]

(* Fault: a full second of nanoseconds is not carried.                     *)
SdbTimeAddNoCarry(t, delta) == Time(t.tv_sec + delta \div NsPerS, t.tv_nsec + (delta % NsPerS))
SdbTimeAdd(t, delta) ==
  LET s == t.tv_sec + delta \div NsPerS  ns == t.tv_nsec + (delta % NsPerS)
  IN  IF ns >= NsPerS THEN Time(s + 1, ns % NsPerS) ELSE Time(s, ns)

SdbTimePrintSpecDiffWT(start, end) ==
  IF end.tv_nsec < start.tv_nsec
  THEN Time(end.tv_sec - start.tv_sec - 1, NsPerS + end.tv_nsec - start.tv_nsec)
  ELSE Time(end.tv_sec - start.tv_sec, end.tv_nsec - start.tv_nsec)

SdbTimespec(delta) == Time(delta \div NsPerS, delta % NsPerS)

(* The microseconds are masked where the remainder is meant.               *)
SdbTimeval(delta) == [tv_sec |-> delta \div NsPerS, tv_usec |-> (delta \div 1000) & UsPerS]

(* What a double of a time can tell apart: every nanosecond below 2^53 ns, *)
(* every second one below 2^54 ns, and every 256th from 2006 until 2043.   *)
(* The limits are those of 9007199 s, 2^53 ns to the second, doubled.      *)
Spacing(t) == 2 ^ Cardinality({k \in 0 .. 7 : t.tv_sec >= 9007199 * 2 ^ k})

(* tv_sec * 1e9 + tv_nsec in doubles.  The product is exact and an even    *)
(* multiple of every spacing; the sum is the nearest double, of two at the *)
(* same distance the one with the even number of spacings.                 *)
AsDouble(t) ==
  LET u == Spacing(t)  q == t.tv_nsec \div u  r == t.tv_nsec % u
      ns == u * (IF 2 * r > u \/ (2 * r = u /\ q % 2 = 1) THEN q + 1 ELSE q)
  IN  Time(t.tv_sec + ns \div NsPerS, ns % NsPerS)

Later(t, than) ==
  \/ t.tv_sec > than.tv_sec
  \/ t.tv_sec = than.tv_sec /\ t.tv_nsec > than.tv_nsec

(* Fault: a timeout has expired when it is reached.                        *)
SdbTimeoutExpiredAtOnce(timeout, now) == ~ Later(AsDouble(timeout), AsDouble(now))

SdbTimeoutExpired(timeout, now) == Later(AsDouble(now), AsDouble(timeout))
=============================================================================

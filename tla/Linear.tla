------------------------------- MODULE Linear -------------------------------
(***************************************************************************)
(* tslib's calibration filter, plugins/linear.c, of one coordinate that    *)
(* does not depend on the other.                                           *)
(***************************************************************************)
EXTENDS Batch

CONSTANTS
  Scale, Offset, Divisor,  \* a[0], a[2] and a[6]
  Res, CalRes,             \* the screen's resolution, now and when calibrated
  POffset, PMult, PDiv,    \* those of the pressure
  UnsignedMod              \* 2^32; a smaller power where TLC computes with it

ASSUME LinearAssumption ==
  /\ Scale \in Int /\ Offset \in Int /\ Divisor \in Int \ {0}
  /\ Res \in Nat /\ CalRes \in Nat
  /\ POffset \in Int /\ PMult \in Int /\ PDiv \in Int \ {0}
  /\ UnsignedMod \in Nat \ {0}
  /\ PDiv % UnsignedMod # 0   \* PDiv is an int

\* the division of C, towards 0
Quotient(a, b) ==
  LET q == (IF a < 0 THEN -a ELSE a) \div (IF b < 0 THEN -b ELSE b)
  IN IF (a < 0) = (b < 0) THEN q ELSE -q

ToInt(u) == IF u < UnsignedMod \div 2 THEN u ELSE u - UnsignedMod
ToUnsigned(i) == i % UnsignedMod

\* a coordinate; res_x and cal_res_x are unsigned, and so is the division
Calibrated(x) ==
  LET c == Quotient(Offset + Scale * x, Divisor)
  IN IF Res # 0 /\ CalRes # 0 THEN ToInt(ToUnsigned(c * Res) \div CalRes) ELSE c

\* pressure is unsigned, and p_offset, p_mult and p_div become so
CalibratedPressure(p) ==
  ToUnsigned(ToUnsigned(p + POffset) * ToUnsigned(PMult)) \div ToUnsigned(PDiv)

LinearJudge(m, s) ==
  [mod |-> m, keep |-> TRUE,
   sample |-> [s EXCEPT !.pos = Calibrated(s.pos), !.pressure = CalibratedPressure(s.pressure)]]

linear_read(m, batch)    == OneByOne(LinearJudge, m, batch)
linear_read_mt(m, batch) == OneByOne(LinearJudge, m, batch)
=============================================================================

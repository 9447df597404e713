------------------------------- MODULE Pthres -------------------------------
(***************************************************************************)
(* tslib's pressure threshold filter, plugins/pthres.c: what it does with  *)
(* one sample.  Its state is, for each slot, whether the pen is down and   *)
(* where it was; pthres_read keeps that of its one finger in static        *)
(* variables.                                                              *)
(***************************************************************************)
EXTENDS Batch

CONSTANTS
  Origin,      \* where x and y are 0
  Pmin, Pmax   \* the module's parameters

ASSUME PthresAssumption == Pmin \in Nat /\ Pmax \in Nat

PthresStart == [slot \in Slots |-> [press |-> FALSE, save |-> Origin]]

\* a press, which passes
Pressed(m, s) ==
  [mod |-> [m EXCEPT ![s.slot] = [press |-> TRUE, save |-> s.pos]],
   keep |-> TRUE, sample |-> s]

\* Mutant: press is not taken back.
ReleasedStays(m, s) ==
  [mod |-> m, keep |-> TRUE,
   sample |-> [s EXCEPT !.pressure = 0, !.pos = m[s.slot].save]]

\* a release is reported where the pen was last
Released(m, s) ==
  [mod |-> [m EXCEPT ![s.slot].press = FALSE], keep |-> TRUE,
   sample |-> [s EXCEPT !.pressure = 0, !.pos = m[s.slot].save]]

Dropped(m, s) == [mod |-> m, keep |-> FALSE, sample |-> s]

\* Mutant: a release is forgotten when the pen is too light.
PthresJudgeLight(m, s) ==
  IF s.pressure = 0 /\ m[s.slot].press THEN Released(m, s)
  ELSE IF s.pressure < Pmin THEN [Dropped(m, s) EXCEPT !.mod[s.slot].press = FALSE]
  ELSE IF s.pressure > Pmax THEN Dropped(m, s) ELSE Pressed(m, s)

PthresJudge(m, s) ==
  IF s.pressure < Pmin
  THEN IF m[s.slot].press THEN Released(m, s) ELSE Dropped(m, s)
  ELSE IF s.pressure > Pmax THEN Dropped(m, s) ELSE Pressed(m, s)

pthres_read(m, batch) == InPlace(PthresJudge, m, batch)

\* pthres_read_mt does not look at press but tests the pointer to the array of
\* all of them, which is never NULL there
PthresJudgeMt(m, s) ==
  IF s.pressure < Pmin THEN Released(m, s)
  ELSE IF s.pressure > Pmax THEN Dropped(m, s) ELSE Pressed(m, s)

pthres_read_mt(m, batch) == OneByOne(PthresJudgeMt, m, batch)
=============================================================================

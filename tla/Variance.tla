------------------------------ MODULE Variance ------------------------------
(***************************************************************************)
(* tslib's noise filter, plugins/variance.c: what variance_read does with  *)
(* one sample, and which samples it gives for it: the one before, none as  *)
(* long as the sample may be noise, or two when that proves to be a quick  *)
(* motion.  It pulls samples singly.  VAR_PENDOWN, which is set whenever   *)
(* it is tested, is left out.                                              *)
(***************************************************************************)
EXTENDS Batch

CONSTANT VarianceDelta   \* the parameter delta, squared once more by the module

ASSUME VarianceAssumption == VarianceDelta \in Nat

\* last and noise hold what malloc left until they are set
VarianceStart(junk) == [last |-> junk, noise |-> junk, lastvalid |-> FALSE,
                        noisevalid |-> FALSE, submitnoise |-> FALSE]

Far(m, s) == (s.pos - m.last.pos) * (s.pos - m.last.pos) > VarianceDelta

\* Mutant: noise that waits outlives the touch.
PenUpKeepsNoise(m, s) ==
  [mod |-> [m EXCEPT !.last = s, !.lastvalid = FALSE, !.submitnoise = FALSE], out |-> <<s>>]

\* a release is given at once and resets the state machine
PenUp(m, s) ==
  [mod |-> [m EXCEPT !.last = s, !.lastvalid = FALSE, !.noisevalid = FALSE,
                     !.submitnoise = FALSE],
   out |-> <<s>>]

FirstOfTouch(m, s) == [mod |-> [m EXCEPT !.last = s, !.lastvalid = TRUE], out |-> <<s>>]

\* two that are far: a quick movement, of which the first is given
Quick(m, s) ==
  [mod |-> [m EXCEPT !.last = m.noise, !.noisevalid = FALSE, !.submitnoise = TRUE, !.noise = s],
   out |-> <<m.noise>>]

Suspect(m, s) == [mod |-> [m EXCEPT !.noisevalid = TRUE, !.noise = s], out |-> <<>>]

Near(m, s) == [mod |-> [m EXCEPT !.noisevalid = FALSE, !.last = s], out |-> <<m.last>>]

Turn(m, s) ==
  IF s.pressure = 0 THEN PenUp(m, s)
  ELSE IF ~m.lastvalid THEN FirstOfTouch(m, s)
  ELSE IF ~Far(m, s) THEN Near(m, s)
  ELSE IF m.noisevalid THEN Quick(m, s) ELSE Suspect(m, s)

\* the second of two that are far goes through the loop once more
VarianceTake(m, s) ==
  LET v == Turn(m, s)
      w == Turn([v.mod EXCEPT !.submitnoise = FALSE], v.mod.noise)
  IN IF v.mod.submitnoise THEN [mod |-> w.mod, out |-> v.out \o w.out] ELSE v
=============================================================================

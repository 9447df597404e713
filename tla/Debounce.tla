------------------------------ MODULE Debounce ------------------------------
(***************************************************************************)
(* tslib's debounce filter, plugins/debounce.c: what it does with one      *)
(* sample.  Times are in milliseconds after the last sample of the read    *)
(* before, so last_release is given as quiet, how long before that sample  *)
(* each slot was released; it counts no further than Threshold.            *)
(***************************************************************************)
EXTENDS Batch

CONSTANT Threshold   \* drop_threshold

ASSUME DebounceAssumption == Threshold \in Nat

\* last_release is 0, and the clock shows a late time when the device is opened
DebounceStart == [slot \in Slots |-> Threshold]

\* Mutant: a drop takes the release behind it along.
DebounceJudgeSwallows(m, s) ==
  LET dt   == s.at + m.quiet[s.slot]
      drop == m.drop \/ (s.pressure # 0 /\ dt < Threshold)
  IN [mod |-> [quiet |-> IF s.pressure # 0 THEN m.quiet
                         ELSE [m.quiet EXCEPT ![s.slot] = -s.at],
               drop  |-> drop],
      sample |-> s, keep |-> ~drop]

\* the body of the loop; drop is a local of the whole call and is never reset
DebounceJudge(m, s) ==
  LET dt   == s.at + m.quiet[s.slot]
      drop == m.drop \/ (s.pressure # 0 /\ dt < Threshold)
  IN [mod |-> [quiet |-> IF s.pressure # 0 THEN m.quiet
                         ELSE [m.quiet EXCEPT ![s.slot] = -s.at],
               drop  |-> drop],
      sample |-> s, keep |-> ~(s.pressure # 0 /\ drop)]

debounce_read(quiet, batch) ==
  LET d == InPlace(DebounceJudge, [quiet |-> quiet, drop |-> FALSE], batch)
  IN [mod |-> d.mod.quiet, out |-> d.out]

\* one drop for all slots
debounce_read_mt(quiet, batch) ==
  LET d == OneByOne(DebounceJudge, [quiet |-> quiet, drop |-> FALSE], batch)
  IN [mod |-> d.mod.quiet, out |-> d.out]

\* Mutant: time does not pass while nothing is read.
WaitedNot(quiet, ms) == quiet

\* quiet, seen from ms milliseconds later
Waited(quiet, ms) ==
  [slot \in Slots |-> IF quiet[slot] + ms < Threshold THEN quiet[slot] + ms
                      ELSE Threshold]
=============================================================================

------------------------------ MODULE Dejitter ------------------------------
(***************************************************************************)
(* tslib's smoothing filter, plugins/dejitter.c: what it does with one     *)
(* sample.  For each slot it keeps the last samples in a ring, where a     *)
(* release or a jump only forgets how many of them count.  y is treated    *)
(* like x, so a position is one number.                                    *)
(***************************************************************************)
EXTENDS Batch

CONSTANT DejitterDelta   \* the parameter delta, squared once more by the module

ASSUME DejitterAssumption == DejitterDelta \in Nat

NR_SAMPHISTLEN == 4

\* the newest sample first; the last number is the logarithm of their sum
weight == << <<5, 3, 0, 0, 3>>, <<8, 5, 3, 0, 4>>, <<6, 4, 3, 3, 4>> >>

sqr(x) == x * x

DejitterStart ==
  [slot \in Slots |-> [nr |-> 0, head |-> 0,
                       hist |-> [i \in 0 .. NR_SAMPHISTLEN - 1 |-> [pos |-> 0, p |-> 0]]]]

\* Mutant: the average starts behind the newest sample.
averageFromNext(c, s) ==
  LET w == weight[c.nr - 1]
      part[i \in 0 .. c.nr] ==
        IF i = 0 THEN [pos |-> 0, p |-> 0]
        ELSE LET h == c.hist[(c.head + 1 - (i - 1) + NR_SAMPHISTLEN) % NR_SAMPHISTLEN]
             IN [pos |-> part[i - 1].pos + h.pos * w[i], p |-> part[i - 1].p + h.p * w[i]]
  IN [s EXCEPT !.pos = part[c.nr].pos \div 2 ^ w[5],
               !.pressure = part[c.nr].p \div 2 ^ w[5]]

\* s with the weighted position and pressure of the nr samples that count
average(c, s) ==
  LET w == weight[c.nr - 1]
      part[i \in 0 .. c.nr] ==
        IF i = 0 THEN [pos |-> 0, p |-> 0]
        ELSE LET h == c.hist[(c.head - (i - 1) + NR_SAMPHISTLEN) % NR_SAMPHISTLEN]
             IN [pos |-> part[i - 1].pos + h.pos * w[i], p |-> part[i - 1].p + h.p * w[i]]
  IN [s EXCEPT !.pos = part[c.nr].pos \div 2 ^ w[5],
               !.pressure = part[c.nr].p \div 2 ^ w[5]]

\* a release is passed on and empties the backlog
DejitterRelease(c, s) == [c |-> [c EXCEPT !.nr = 0], sample |-> s]

TooFast(c, s) ==
  c.nr > 0 /\ sqr(s.pos - c.hist[(c.head - 1 + NR_SAMPHISTLEN) % NR_SAMPHISTLEN].pos)
              > DejitterDelta

DejitterPress(c, s) ==
  LET kept == IF TooFast(c, s) THEN 0 ELSE c.nr
      with == [c EXCEPT !.hist[c.head] = [pos |-> s.pos, p |-> s.pressure],
                        !.nr = IF kept < NR_SAMPHISTLEN THEN kept + 1 ELSE kept]
  IN [c |-> [with EXCEPT !.head = (c.head + 1) % NR_SAMPHISTLEN],
      sample |-> IF with.nr = 1 THEN s ELSE average(with, s)]

\* Mutant: all slots share one ring.
DejitterJudgeOneRing(m, s) ==
  LET shared == m[CHOOSE slot \in Slots : TRUE]
      v == IF s.pressure = 0 THEN DejitterRelease(shared, s) ELSE DejitterPress(shared, s)
  IN [mod |-> [slot \in Slots |-> v.c], keep |-> TRUE, sample |-> v.sample]

DejitterJudge(m, s) ==
  LET v == IF s.pressure = 0 THEN DejitterRelease(m[s.slot], s)
           ELSE DejitterPress(m[s.slot], s)
  IN [mod |-> [m EXCEPT ![s.slot] = v.c], keep |-> TRUE, sample |-> v.sample]

dejitter_read(m, batch)    == OneByOne(DejitterJudge, m, batch)
dejitter_read_mt(m, batch) == OneByOne(DejitterJudge, m, batch)
=============================================================================

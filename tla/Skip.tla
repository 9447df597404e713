-------------------------------- MODULE Skip --------------------------------
(***************************************************************************)
(* tslib's skip filter, plugins/skip.c: skip_read drops the first nhead    *)
(* and the last ntail samples of every touch.  It pulls samples singly and *)
(* holds ntail of them back in a ring.  Each operator below is one way     *)
(* through the loop: what becomes of its state m with the sample s, and    *)
(* which samples it gives.                                                 *)
(***************************************************************************)
EXTENDS Batch

\* as skip_mod_init leaves it, with the parameters and what malloc left in buf
SkipStart(nhead, ntail, junk) ==
  [nhead |-> nhead, ntail |-> ntail, N |-> 0, M |-> 0, sent |-> FALSE,
   buf |-> [i \in 0 .. ntail - 1 |-> junk]]

reset_skip(m) == [m EXCEPT !.N = 0, !.M = 0, !.sent = FALSE]

\* skip the first N samples
SkipHead(m, s) ==
  [mod |-> IF s.pressure = 0 THEN reset_skip(m) ELSE [m EXCEPT !.N = @ + 1], out |-> <<>>]

\* a release of a touch of which nothing was sent
IgnoreUp(m, s) == [mod |-> reset_skip(m), out |-> <<>>]

\* ntail is zero: accept the sample
Accept(m, s) ==
  [mod |-> IF s.pressure = 0 THEN reset_skip(m) ELSE [m EXCEPT !.sent = TRUE], out |-> <<s>>]

\* queue the sample while the ring is filled for the first time
Queue(m, s) == [mod |-> [m EXCEPT !.buf[m.M] = s, !.M = @ + 1], out |-> <<>>]

\* Mutant: the ring is taken for a single place.
OldestFirst(m) == 0

\* where the ring's oldest sample is
Oldest(m) == IF m.M >= m.ntail THEN 0 ELSE m.M

\* the ring is full: give its oldest sample, as the release if this is one
Exchange(m, s) ==
  LET k == Oldest(m)
  IN IF s.pressure = 0
     THEN LET up == [m.buf[k] EXCEPT !.pressure = 0]
          IN [mod |-> reset_skip([m EXCEPT !.buf[k] = up]), out |-> <<up>>]
     ELSE [mod |-> [m EXCEPT !.buf[k] = s, !.M = k + 1, !.sent = TRUE], out |-> <<m.buf[k]>>]

SkipTake(m, s) ==
  IF m.N < m.nhead THEN SkipHead(m, s)
  ELSE IF s.pressure = 0 /\ ~m.sent THEN IgnoreUp(m, s)
  ELSE IF m.ntail = 0 THEN Accept(m, s)
  ELSE IF ~m.sent /\ m.M < m.ntail THEN Queue(m, s)
  ELSE Exchange(m, s)
=============================================================================

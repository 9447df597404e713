------------------------------- MODULE Batch -------------------------------
(***************************************************************************)
(* How pthres_read and debounce_read drop samples: they walk over the      *)
(* array the next module filled, close the gap of each dropped sample with *)
(* memmove and go on at the same place, and count the samples they keep.   *)
(* What is kept or dropped is for the filter to say: Judge(mod, sample)    *)
(* gives its new state, the sample as it is passed on, and keep.  The      *)
(* read_mt functions fill a table of samples and slots and mark what they  *)
(* drop with valid = 0; the table is given as the sequence of its valid    *)
(* samples, in the order in which the loops come to them.                  *)
(***************************************************************************)
EXTENDS Integers, FiniteSets, SequencesExt

CONSTANT Slots   \* the fingers a sample may be of; those of ts_read are of one

\* Mutant: memmove moves one sample too few.
CloseGapShort(buf, k, left) ==
  SubSeq(buf, 1, k - 1) \o SubSeq(buf, k + 1, k + left - 1)
    \o SubSeq(buf, k + left - 1, k + left)

\* memmove(s, s + 1, left * sizeof(struct ts_sample)), s the k-th sample; what
\* is behind those samples, the last one itself, stays
CloseGap(buf, k, left) ==
  SubSeq(buf, 1, k - 1) \o SubSeq(buf, k + 1, k + left)
    \o SubSeq(buf, k + left, Len(buf))

\* one turn of the loop, whose s is always behind the nr samples it kept and
\* for which the verdict is v
Round(w, v) ==
  LET k    == w.nr + 1
      left == Len(w.buf) - w.nr - 1
  IN IF w.done THEN w
     ELSE IF v.keep THEN [mod |-> v.mod, buf |-> [w.buf EXCEPT ![k] = v.sample],
                          nr |-> k, done |-> FALSE]
     ELSE IF left > 0
          THEN [w EXCEPT !.mod = v.mod, !.buf = CloseGap(w.buf, k, left)]
     ELSE [w EXCEPT !.mod = v.mod, !.done = TRUE]

\* the loop over the ret samples of a batch: the filter's state and its output
InPlace(Judge(_, _), mod, batch) ==
  LET loop[n \in 0 .. Len(batch)] ==
        IF n = 0 THEN [mod |-> mod, buf |-> batch, nr |-> 0, done |-> FALSE]
        ELSE LET w == loop[n - 1] IN Round(w, Judge(w.mod, w.buf[w.nr + 1]))
      end == loop[Len(batch)]
  IN [mod |-> end.mod, out |-> SubSeq(end.buf, 1, end.nr)]

\* what has been passed on, with the sample of the verdict v
Passed(out, v) == IF v.keep THEN Append(out, v.sample) ELSE out

\* every sample is judged by itself, in order: what read_mt does, and read of
\* a filter that drops nothing
OneByOne(Judge(_, _), mod, batch) ==
  LET upto[n \in 0 .. Len(batch)] ==
        IF n = 0 THEN [mod |-> mod, out |-> <<>>]
        ELSE LET v == Judge(upto[n - 1].mod, batch[n])
             IN [mod |-> v.mod, out |-> Passed(upto[n - 1].out, v)]
  IN upto[Len(batch)]
=============================================================================

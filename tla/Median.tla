------------------------------- MODULE Median -------------------------------
(***************************************************************************)
(* tslib's median filter, plugins/median.c: what it does with one sample.  *)
(* It keeps the last Depth samples of each slot and gives the median of    *)
(* their positions and that of their pressures; a release empties it.      *)
(***************************************************************************)
EXTENDS Batch

CONSTANTS
  Depth,                    \* the parameter depth
  SampleSize, SampleMtSize  \* bytes of struct ts_sample and struct ts_sample_mt

ASSUME MedianAssumption ==
  Depth \in Nat \ {0} /\ SampleSize \in Nat \ {0} /\ SampleMtSize \in Nat \ {0}

None == [pos |-> 0, p |-> 0]

\* the memory of the samples is that of malloc for median_read, and calloc's
\* for median_read_mt
MedianStart(mt, junk) ==
  [slot \in Slots |-> [with |-> FALSE,
                       delay |-> [i \in 0 .. Depth - 1 |-> IF mt THEN None ELSE junk]]]

\* sorted[size / 2]
MiddleOf(values) ==
  LET Below(v) == {i \in DOMAIN values : values[i] < v}
      UpTo(v)  == {i \in DOMAIN values : values[i] <= v}
  IN CHOOSE v \in {values[i] : i \in DOMAIN values} :
       Cardinality(Below(v)) <= Depth \div 2 /\ Depth \div 2 < Cardinality(UpTo(v))

\* Mutant: the samples are kept.
FlushedNot(delay) == delay

\* memset over all samples
Flushed(delay) == [i \in DOMAIN delay |-> None]

\* median_read_mt clears as many bytes as Depth samples of struct ts_sample
\* have, of which one has position and pressure in the first 12
FlushedMt(delay) ==
  [i \in DOMAIN delay |->
     IF i * SampleMtSize + 12 > Depth * SampleSize THEN delay[i] ELSE None]

\* the last Depth samples of c with s
Delayed(c, s) ==
  [i \in DOMAIN c.delay |-> IF i = Depth - 1 THEN [pos |-> s.pos, p |-> s.pressure]
                            ELSE c.delay[i + 1]]

PenUpEnds(c, s) == s.pressure = 0 /\ c.with

\* the sample that is passed on
Medians(c, s) ==
  LET delay == Delayed(c, s)
      mid   == [s EXCEPT !.pos = MiddleOf([i \in DOMAIN delay |-> delay[i].pos]),
                         !.pressure = MiddleOf([i \in DOMAIN delay |-> delay[i].p])]
  IN IF PenUpEnds(c, s) THEN [mid EXCEPT !.pressure = 0] ELSE mid

\* the line of samples with s, and what a pen up leaves of it
MedianTurn(m, s, flushed) ==
  LET c == m[s.slot]
  IN [mod    |-> [m EXCEPT ![s.slot] =
                    IF PenUpEnds(c, s) THEN [with |-> FALSE, delay |-> flushed]
                    ELSE [with |-> c.with \/ s.pressure # 0, delay |-> Delayed(c, s)]],
      keep   |-> TRUE,
      sample |-> Medians(c, s)]

MedianJudge(m, s)   == MedianTurn(m, s, Flushed(Delayed(m[s.slot], s)))
MedianJudgeMt(m, s) == MedianTurn(m, s, FlushedMt(Delayed(m[s.slot], s)))

median_read(m, batch)    == OneByOne(MedianJudge, m, batch)
median_read_mt(m, batch) == OneByOne(MedianJudgeMt, m, batch)
=============================================================================

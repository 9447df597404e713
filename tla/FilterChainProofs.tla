-------------------------- MODULE FilterChainProofs --------------------------
(***************************************************************************)
(* Proofs about tslib's chain of filters: for all chains, settings of the  *)
(* filters, samples and ways a program reads.                              *)
(*                                                                         *)
(* TypeOK says which states each filter can be in, and every theorem rests *)
(* on it.  A filter changes its state and passes samples on one by one     *)
(* (Take), whatever loop it does that in: what a turn of it keeps, the     *)
(* walk over a read keeps, and what every filter of the chain keeps, the   *)
(* read keeps.  So each property has a part that is about one sample:      *)
(*                                                                         *)
(*  - that pthres passes a release on behind a press, and the same as      *)
(*    without its loop that closes gaps (the turns of pthres);             *)
(*  - that debounce passes nothing on too early, and never drops the last  *)
(*    release (the turns of debounce);                                     *)
(*  - that what the last sample of a slot was, behind a filter, is as it   *)
(*    was before it, once that is a release (Linked; Unstuck of the chain);*)
(*  - that skip has passed on the middle of what it was given of a touch   *)
(*    (Going, in the invariant Middles).                                   *)
(***************************************************************************)
EXTENDS FilterChain, TLAPS, WellFoundedInduction, SequenceTheorems, FiniteSetTheorems

-----------------------------------------------------------------------------
(* Numbers, and what is computed along them                                *)

\* What holds of 0, and of n + 1 if of n, holds of every number up to L.
LEMMA CountUp ==
  ASSUME NEW L \in Nat, NEW T, 0 \in T, \A n \in 0 .. L - 1 : n \in T => n + 1 \in T
  PROVE  \A n \in 0 .. L : n \in T
<1> DEFINE B == (0 .. L) \ T
<1> SUFFICES ASSUME B # {}
             PROVE  FALSE
  OBVIOUS
<1>1. PICK x \in B : \A y \in B : <<y, x>> \notin OpToRel(<, Nat)
  <2>1. B \subseteq Nat
    OBVIOUS
  <2>. HIDE DEF B
  <2>. QED  BY <2>1, NatLessThanWellFounded, WFMin
<1>2. x \in 1 .. L /\ x - 1 \in 0 .. L - 1
  OBVIOUS
<1>3. x - 1 \in B
  BY <1>2
<1>4. <<x - 1, x>> \in OpToRel(<, Nat)
  BY <1>2, <1>3 DEF OpToRel
<1>. QED  BY <1>1, <1>3, <1>4

\* the values of a function on 0 .. L in D, each but a following from the one before
Runs(f, L, D, a, G) ==
  f \in [0 .. L -> D] /\ f[0] = a /\ \A k \in 1 .. L : f[k] = G[k][f[k - 1]]

\* There is such a function.
LEMMA StepsExist ==
  ASSUME NEW L \in Nat, NEW D, NEW a \in D, NEW G \in [1 .. L -> [D -> D]]
  PROVE  \E f : Runs(f, L, D, a, G)
<1> DEFINE UpTo(f, n) == Runs(f, n, D, a, G)
           T == {n \in Nat : \E f : UpTo(f, n)}
<1>1. 0 \in T
  <2>1. UpTo([k \in 0 .. 0 |-> a], 0)
    BY DEF Runs
  <2>. QED  BY <2>1
<1>2. ASSUME NEW n \in 0 .. L - 1, n \in T
      PROVE  n + 1 \in T
  <2>0. n \in Nat /\ n + 1 \in 1 .. L
    BY <1>2
  <2>1. PICK f : UpTo(f, n)
    BY <1>2
  <2>. USE DEF Runs
  <2>2. f[n] \in D /\ G[n + 1][f[n]] \in D
    BY <2>0, <2>1
  <2> DEFINE g == [k \in 0 .. n + 1 |-> IF k = n + 1 THEN G[n + 1][f[n]] ELSE f[k]]
  <2>3. g \in [0 .. n + 1 -> D]
    <3>1. \A k \in 0 .. n + 1 : k # n + 1 => k \in 0 .. n
      BY <2>0
    <3>. QED  BY <2>1, <2>2, <3>1
  <2>4. g[0] = a
    BY <2>0, <2>1
  <2>5. ASSUME NEW k \in 1 .. n + 1
        PROVE  g[k] = G[k][g[k - 1]]
    <3>1. k - 1 \in 0 .. n /\ k - 1 # n + 1
      BY <2>0
    <3>2. g[k - 1] = f[k - 1]
      BY <2>0, <3>1
    <3>3. CASE k = n + 1
      <4>1. k - 1 = n /\ g[k] = G[k][f[n]]
        BY <2>0, <3>3
      <4>. QED  BY <3>2, <4>1
    <3>4. CASE k # n + 1
      <4>1. k \in 1 .. n /\ g[k] = f[k]
        BY <2>0, <3>4
      <4>. QED  BY <2>1, <3>2, <4>1
    <3>. QED  BY <3>3, <3>4
  <2>6. \E h : UpTo(h, n + 1)
    <3>. HIDE DEF g
    <3>. QED  BY <2>3, <2>4, <2>5
  <2>. HIDE DEF Runs
  <2>7. n + 1 \in Nat
    BY <2>0
  <2>. QED  BY <2>6, <2>7
<1>3. L \in T
  <2>. HIDE DEF T
  <2>1. \A n \in 0 .. L - 1 : n \in T => n + 1 \in T
    BY <1>2
  <2>2. \A n \in 0 .. L : n \in T
    BY <1>1, <2>1, CountUp
  <2>. QED  BY <2>2
<1>. QED  BY <1>3

\* Of a set of numbers that is not empty, one is the least.
LEMMA LeastExists ==
  ASSUME NEW S \in SUBSET Nat, S # {}
  PROVE  \E n \in S : \A k \in S : n <= k
<1>1. PICK n \in S : \A k \in S : <<k, n>> \notin OpToRel(<, Nat)
  BY NatLessThanWellFounded, WFMin
<1>2. \A k \in S : ~(k < n)
  BY <1>1 DEF OpToRel
<1>. QED  BY <1>2

\* Of a set of numbers up to L that is not empty, one is the greatest.
LEMMA GreatestExists ==
  ASSUME NEW L \in Nat, NEW S \in SUBSET (0 .. L), S # {}
  PROVE  \E n \in S : \A k \in S : k <= n
<1> DEFINE T == {L - k : k \in S}
<1>1. T \subseteq Nat /\ T # {}
  <2>1. \A k \in S : L - k \in Nat
    OBVIOUS
  <2>. QED  BY <2>1, Zenon
<1>2. PICK t \in T : \A k \in T : t <= k
  <2>. HIDE DEF T
  <2>. QED  BY <1>1, LeastExists
<1>3. PICK n \in S : t = L - n
  BY <1>2
<1>4. \A k \in S : t <= L - k
  <2> SUFFICES ASSUME NEW k \in S
               PROVE  t <= L - k
    OBVIOUS
  <2>1. L - k \in T
    OBVIOUS
  <2>. HIDE DEF T
  <2>. QED  BY <1>2, <2>1
<1>. QED  BY <1>3, <1>4

\* The last sample of a slot is that of the greatest index.
LEMMA LatestIs ==
  ASSUME NEW n \in Nat, NEW S \in SUBSET (0 .. n), S # {}
  PROVE  Latest(S) \in S /\ \A j \in S : j <= Latest(S)
<1>1. \E i \in S : \A j \in S : j <= i
  BY GreatestExists
<1>. QED  BY <1>1 DEF Latest

\* Nothing is greater than the greatest, which therefore is the only one.
LEMMA LatestOnly ==
  ASSUME NEW n \in Nat, NEW S \in SUBSET (0 .. n), NEW i \in S, \A j \in S : j <= i
  PROVE  Latest(S) = i
<1>1. Latest(S) \in S /\ \A j \in S : j <= Latest(S)
  <2>1. S # {}
    OBVIOUS
  <2>. QED  BY <2>1, LatestIs
<1> DEFINE l == Latest(S)
<1>2. l \in 0 .. n /\ i \in 0 .. n /\ i <= l /\ l <= i
  BY <1>1
<1>. HIDE DEF l
<1>3. l = i
  BY ONLY <1>2, n \in Nat
<1>. QED  BY <1>3 DEF l

-----------------------------------------------------------------------------
(* What a filter passes on                                                 *)

Taken(v) == IF v.keep THEN <<v.sample>> ELSE <<>>

\* What is passed on is put behind what has been passed on.
LEMMA PassedOn ==
  ASSUME NEW S, NEW out \in Seq(S), NEW v, v.keep \in BOOLEAN, v.sample \in S
  PROVE  Passed(out, v) = out \o Taken(v) /\ Taken(v) \in Seq(S) /\ Passed(out, v) \in Seq(S)
<1>1. CASE v.keep
  <2>1. Append(out, v.sample) = out \o <<v.sample>>
    BY AppendIsConcat
  <2>2. <<v.sample>> \in Seq(S) /\ Append(out, v.sample) \in Seq(S)
    OBVIOUS
  <2>. QED  BY <1>1, <2>1, <2>2 DEF Passed, Taken
<1>2. CASE ~v.keep
  <2>1. out \o <<>> = out /\ <<>> \in Seq(S)
    BY ConcatEmptySeq, EmptySeq
  <2>. QED  BY <1>2, <2>1 DEF Passed, Taken
<1>. QED  BY <1>1, <1>2

\* After n turns of the loop, its state w agrees with u, which has been judged
\* one by one: what it kept is at the front, what is to come behind it.
Agrees(S, w, u, batch, n) ==
  /\ w = [mod |-> u.mod, buf |-> w.buf, nr |-> Len(u.out), done |-> w.done]
  /\ w.buf \in Seq(S) /\ Len(w.buf) = Len(batch)
  /\ w.nr <= n /\ w.done \in BOOLEAN
  /\ u.out = SubSeq(w.buf, 1, w.nr)
  /\ ~w.done => \A i \in 1 .. Len(batch) - n : w.buf[w.nr + i] = batch[n + i]
  /\ w.done => n = Len(batch)

\* What closing the gap of the k-th sample does.
LEMMA GapCloses ==
  ASSUME NEW S, NEW buf \in Seq(S), NEW k \in 1 .. Len(buf) - 1
  PROVE  LET b == CloseGap(buf, k, Len(buf) - k)
         IN /\ b \in Seq(S) /\ Len(b) = Len(buf)
            /\ \A i \in 1 .. k - 1 : b[i] = buf[i]
            /\ \A i \in k .. Len(buf) - 1 : b[i] = buf[i + 1]
<1> DEFINE L == Len(buf)
           p == SubSeq(buf, 1, k - 1)
           q == SubSeq(buf, k + 1, L)
           r == SubSeq(buf, L, L)
           b == CloseGap(buf, k, L - k)
<1>1. L \in Nat /\ k \in Nat /\ k < L /\ 1 <= k
  OBVIOUS
<1>2. b = p \o q \o r
  <2>1. k + (L - k) = L
    BY <1>1
  <2>. QED  BY <2>1 DEF CloseGap
<1>3. p \in Seq(S) /\ Len(p) = k - 1 /\ \A i \in 1 .. k - 1 : p[i] = buf[i]
  BY <1>1
<1>4. q \in Seq(S) /\ Len(q) = L - k /\ \A i \in 1 .. L - k : q[i] = buf[k + i]
  BY <1>1
<1>5. r \in Seq(S) /\ Len(r) = 1
  BY <1>1
<1>. HIDE DEF p, q, r, L
<1>6. /\ p \o q \in Seq(S) /\ Len(p \o q) = L - 1
      /\ \A i \in 1 .. L - 1 : (p \o q)[i] = IF i <= k - 1 THEN p[i] ELSE q[i - (k - 1)]
  <2>1. /\ p \o q \in Seq(S) /\ Len(p \o q) = Len(p) + Len(q)
        /\ \A i \in 1 .. Len(p) + Len(q) :
             (p \o q)[i] = IF i <= Len(p) THEN p[i] ELSE q[i - Len(p)]
    BY ONLY <1>3, <1>4, ConcatProperties
  <2>2. Len(p) = k - 1 /\ Len(q) = L - k /\ Len(p) + Len(q) = L - 1
    BY <1>1, <1>3, <1>4
  <2>. QED  BY ONLY <2>1, <2>2
<1>7. /\ (p \o q) \o r \in Seq(S) /\ Len((p \o q) \o r) = L
      /\ \A i \in 1 .. L - 1 : ((p \o q) \o r)[i] = (p \o q)[i]
  <2>. DEFINE pq == p \o q
  <2>1. pq \in Seq(S) /\ Len(pq) = L - 1
    BY <1>6
  <2>. HIDE DEF pq
  <2>2. pq \o r \in Seq(S) /\ Len(pq \o r) = L /\ \A i \in 1 .. L - 1 : (pq \o r)[i] = pq[i]
    <3>1. /\ pq \o r \in Seq(S) /\ Len(pq \o r) = Len(pq) + Len(r)
          /\ \A i \in 1 .. Len(pq) + Len(r) :
               (pq \o r)[i] = IF i <= Len(pq) THEN pq[i] ELSE r[i - Len(pq)]
      BY ONLY <1>5, <2>1, ConcatProperties
    <3>. QED  BY ONLY <1>1, <1>5, <2>1, <3>1
  <2>. QED  BY <2>2 DEF pq
<1>8. \A i \in 1 .. k - 1 : b[i] = buf[i]
  BY <1>1, <1>2, <1>3, <1>6, <1>7
<1>9. ASSUME NEW i \in k .. L - 1
      PROVE  b[i] = buf[i + 1]
  <2>1. i \in 1 .. L - 1 /\ ~(i <= k - 1) /\ i - (k - 1) \in 1 .. L - k /\ k + (i - (k - 1)) = i + 1
    BY <1>1
  <2>2. b[i] = q[i - (k - 1)]
    BY <1>2, <1>6, <1>7, <2>1
  <2>. QED  BY <1>4, <2>1, <2>2
<1>. QED  BY <1>2, <1>7, <1>8, <1>9 DEF L

\* One more turn of the loop keeps it in agreement.
LEMMA RoundAgrees ==
  ASSUME NEW S, NEW batch \in Seq(S), NEW n \in 0 .. Len(batch) - 1, NEW w, NEW u,
         u.out \in Seq(S), Agrees(S, w, u, batch, n), NEW v, v.keep \in BOOLEAN, v.sample \in S
  PROVE  /\ w.buf[w.nr + 1] = batch[n + 1]
         /\ Agrees(S, Round(w, v), [mod |-> v.mod, out |-> Passed(u.out, v)], batch, n + 1)
<1> DEFINE L == Len(batch)
           k == w.nr + 1
<1>1. L \in Nat /\ n \in Nat /\ n < L /\ w.nr \in Nat /\ w.nr <= n /\ ~w.done /\ Len(w.buf) = L
      /\ w.buf \in Seq(S) /\ w.nr = Len(u.out) /\ u.out = SubSeq(w.buf, 1, w.nr)
      /\ \A i \in 1 .. L - n : w.buf[w.nr + i] = batch[n + i]
  BY DEF Agrees
<1>0. L \in Nat /\ n \in Nat /\ n < L /\ w.nr \in Nat /\ w.nr <= n
  BY <1>1
<1>2. w.buf[k] = batch[n + 1]
  BY <1>1
<1>3. k \in 1 .. L
  BY <1>1
<1>4. CASE v.keep
  <2> DEFINE b == [w.buf EXCEPT ![k] = v.sample]
  <2>1. Round(w, v) = [mod |-> v.mod, buf |-> b, nr |-> k, done |-> FALSE]
    BY <1>1, <1>4 DEF Round
  <2>2. b \in Seq(S) /\ Len(b) = L /\ \A i \in 1 .. L : b[i] = IF i = k THEN v.sample ELSE w.buf[i]
    BY <1>1, <1>3, ExceptSeq
  <2>3. Passed(u.out, v) = Append(u.out, v.sample)
    BY <1>4 DEF Passed
  <2>. HIDE DEF b
  <2>4. Append(u.out, v.sample) = SubSeq(b, 1, k)
    <3> DEFINE a == Append(u.out, v.sample)
               c == SubSeq(b, 1, k)
    <3>1. a \in Seq(S) /\ Len(a) = k /\ \A i \in 1 .. k : a[i] = IF i = k THEN v.sample ELSE u.out[i]
      BY <1>1
    <3>2. c \in Seq(S) /\ Len(c) = k /\ \A i \in 1 .. k : c[i] = b[i]
      BY <1>1, <1>3, <2>2
    <3>3. \A i \in 1 .. k : i # k => u.out[i] = w.buf[i]
      BY <1>1
    <3>4. \A i \in 1 .. k : a[i] = c[i]
      <4>. HIDE DEF a, c
      <4>. QED  BY <1>1, <1>3, <2>2, <3>1, <3>2, <3>3
    <3>. HIDE DEF a, c
    <3>5. a = c
      BY <3>1, <3>2, <3>4, SeqEqual
    <3>. QED  BY <3>5 DEF a, c
  <2>5. \A i \in 1 .. L - (n + 1) : b[k + i] = batch[(n + 1) + i]
    <3> SUFFICES ASSUME NEW i \in 1 .. L - (n + 1)
                 PROVE  b[k + i] = batch[(n + 1) + i]
      OBVIOUS
    <3>1. k + i \in 1 .. L /\ k + i # k /\ i + 1 \in 1 .. L - n /\ k + i = w.nr + (i + 1)
          /\ (n + 1) + i = n + (i + 1)
      BY ONLY <1>0, i \in 1 .. L - (n + 1)
    <3>2. b[k + i] = w.buf[w.nr + (i + 1)]
      BY <2>2, <3>1
    <3>3. w.buf[w.nr + (i + 1)] = batch[n + (i + 1)]
      BY <1>1, <3>1
    <3>. QED  BY <3>1, <3>2, <3>3
  <2>6. Len(Passed(u.out, v)) = k
    BY <1>1, <2>3
  <2>7. k <= n + 1
    BY <1>1
  <2> DEFINE W == [mod |-> v.mod, buf |-> b, nr |-> k, done |-> FALSE]
             U == [mod |-> v.mod, out |-> Passed(u.out, v)]
  <2>8. Agrees(S, W, U, batch, n + 1)
    BY <2>2, <2>3, <2>4, <2>5, <2>6, <2>7 DEF Agrees
  <2>. QED  BY <1>2, <2>1, <2>8
<1>5. CASE ~v.keep
  <2>1. Passed(u.out, v) = u.out
    BY <1>5 DEF Passed
  <2>2. CASE k < L
    <3> DEFINE b == CloseGap(w.buf, k, L - k)
               W == [mod |-> v.mod, buf |-> b, nr |-> w.nr, done |-> FALSE]
               U == [mod |-> v.mod, out |-> u.out]
    <3>1. Len(w.buf) - w.nr - 1 = L - k /\ L - k > 0
      BY <1>1, <2>2
    <3>2. Round(w, v) = [w EXCEPT !.mod = v.mod, !.buf = b]
      BY <1>1, <1>5, <3>1 DEF Round
    <3>3. Round(w, v) = W
      BY <1>1, <3>2 DEF Agrees
    <3>4. /\ b \in Seq(S) /\ Len(b) = L
          /\ \A i \in 1 .. k - 1 : b[i] = w.buf[i]
          /\ \A i \in k .. L - 1 : b[i] = w.buf[i + 1]
      <4>1. w.buf \in Seq(S) /\ Len(w.buf) = L /\ k \in 1 .. L - 1
        BY <1>1, <1>3, <2>2
      <4>2. LET a == CloseGap(w.buf, k, Len(w.buf) - k)
            IN /\ a \in Seq(S) /\ Len(a) = Len(w.buf)
               /\ \A i \in 1 .. k - 1 : a[i] = w.buf[i]
               /\ \A i \in k .. Len(w.buf) - 1 : a[i] = w.buf[i + 1]
        <5> DEFINE e == w.buf
                   j == k
        <5>1. e \in Seq(S) /\ j \in 1 .. Len(e) - 1
          BY <4>1
        <5>. HIDE DEF e, j
        <5>2. LET a == CloseGap(e, j, Len(e) - j)
              IN /\ a \in Seq(S) /\ Len(a) = Len(e)
                 /\ \A i \in 1 .. j - 1 : a[i] = e[i]
                 /\ \A i \in j .. Len(e) - 1 : a[i] = e[i + 1]
          BY ONLY <5>1, GapCloses
        <5>. QED  BY <5>2 DEF e, j
      <4>. QED  BY <4>1, <4>2
    <3>. HIDE DEF b
    <3>5. u.out = SubSeq(b, 1, w.nr)
      <4> DEFINE c == SubSeq(b, 1, w.nr)
      <4>1. c \in Seq(S) /\ Len(c) = w.nr /\ \A i \in 1 .. w.nr : c[i] = b[i]
        BY <1>1, <1>3, <3>4
      <4>2. \A i \in 1 .. w.nr : u.out[i] = w.buf[i]
        BY <1>1
      <4>3. \A i \in 1 .. w.nr : u.out[i] = c[i]
        BY <1>1, <3>4, <4>1, <4>2
      <4>. HIDE DEF c
      <4>4. u.out = c
        BY <1>1, <4>1, <4>3, SeqEqual
      <4>. QED  BY <4>4 DEF c
    <3>6. \A i \in 1 .. L - (n + 1) : b[w.nr + i] = batch[(n + 1) + i]
      <4> SUFFICES ASSUME NEW i \in 1 .. L - (n + 1)
                   PROVE  b[w.nr + i] = batch[(n + 1) + i]
        OBVIOUS
      <4>1. w.nr + i \in k .. L - 1 /\ i + 1 \in 1 .. L - n /\ (w.nr + i) + 1 = w.nr + (i + 1)
            /\ (n + 1) + i = n + (i + 1)
        BY ONLY <1>0, i \in 1 .. L - (n + 1)
      <4>. QED  BY <1>1, <3>4, <4>1
    <3>7. Agrees(S, W, U, batch, n + 1)
      <4>1. W.buf = b /\ W.nr = w.nr /\ W.done = FALSE /\ W.mod = v.mod
            /\ U.out = u.out /\ U.mod = v.mod
        OBVIOUS
      <4>2. W = [mod |-> U.mod, buf |-> W.buf, nr |-> Len(U.out), done |-> W.done]
        BY <1>1
      <4>3. W.nr <= n + 1
        BY <1>0, <4>1
      <4>. HIDE DEF W, U
      <4>. QED  BY <3>4, <3>5, <3>6, <4>1, <4>2, <4>3 DEF Agrees
    <3>. QED  BY <1>2, <2>1, <3>3, <3>7
  <2>3. CASE ~(k < L)
    <3> DEFINE W == [mod |-> v.mod, buf |-> w.buf, nr |-> w.nr, done |-> TRUE]
               U == [mod |-> v.mod, out |-> u.out]
    <3>1. ~(Len(w.buf) - w.nr - 1 > 0) /\ n + 1 = L /\ w.nr <= n + 1
      BY <1>1, <2>3
    <3>2. Round(w, v) = [w EXCEPT !.mod = v.mod, !.done = TRUE]
      BY <1>1, <1>5, <3>1 DEF Round
    <3>3. Round(w, v) = W
      BY <1>1, <3>2 DEF Agrees
    <3>4. Agrees(S, W, U, batch, n + 1)
      BY <1>1, <3>1 DEF Agrees
    <3>. QED  BY <1>2, <2>1, <3>3, <3>4
  <2>. QED  BY <2>2, <2>3
<1>. QED  BY <1>4, <1>5

-----------------------------------------------------------------------------
(* The samples, and the states of the filters                              *)

Samples(F) == [at : Int, slot : F, pos : Int, pressure : Int]

Rings == [nr : 0 .. NR_SAMPHISTLEN, head : 0 .. NR_SAMPHISTLEN - 1,
          hist : [0 .. NR_SAMPHISTLEN - 1 -> [pos : Int, p : Int]]]
Delays == [0 .. Depth - 1 -> [pos : Int, p : Int]]
Unset == [pos : Int, pressure : Int]

\* the states of skip: what its ring holds counts once it has been set
SkipStates(c, F) ==
  {m \in [nhead : {c.nhead}, ntail : {c.ntail}, N : 0 .. c.nhead, M : 0 .. c.ntail,
          sent : BOOLEAN, buf : [0 .. c.ntail - 1 -> Samples(F) \cup Unset]] :
     \A i \in 0 .. c.ntail - 1 : i < m.M \/ m.sent => m.buf[i] \in Samples(F)}

VarianceStates(F) ==
  {m \in [last : Samples(F) \cup Unset, noise : Samples(F) \cup Unset, lastvalid : BOOLEAN,
          noisevalid : BOOLEAN, submitnoise : {FALSE}] :
     /\ m.lastvalid => m.last \in Samples(F)
     /\ m.noisevalid => m.noise \in Samples(F)}

\* the states of a filter between two reads
StatesOf(f, c, F) ==
  CASE f = "skip"     -> SkipStates(c, F)
    [] f = "pthres"   -> [Slots -> [press : BOOLEAN, save : Int]]
    [] f = "debounce" -> [Slots -> Int]
    [] f = "median"   -> [Slots -> [with : BOOLEAN, delay : Delays]]
    [] f = "variance" -> VarianceStates(F)
    [] f = "dejitter" -> [Slots -> Rings]
    [] f = "linear"   -> {<<>>}

\* "singly" stands for debounce when it is asked for single samples
Kind == Filters \cup {"singly"}
During(k, c, F) ==
  CASE k = "singly"   -> [Slots -> Int]
    [] k = "debounce" -> [quiet : [Slots -> Int], drop : BOOLEAN]
    [] OTHER          -> StatesOf(k, c, F)

Judged(v) == [mod |-> v.mod, out |-> Taken(v)]

\* what each of them makes of one sample, by itself
Take(k, mt, m, s) ==
  CASE k = "skip"     -> SkipTake(m, s)
    [] k = "pthres"   -> Judged(IF mt THEN PthresJudgeMt(m, s) ELSE PthresJudge(m, s))
    [] k = "debounce" -> Judged(DebounceJudge(m, s))
    [] k = "singly"   -> DebounceTake(m, s)
    [] k = "median"   -> Judged(IF mt THEN MedianJudgeMt(m, s) ELSE MedianJudge(m, s))
    [] k = "variance" -> VarianceTake(m, s)
    [] k = "dejitter" -> Judged(DejitterJudge(m, s))
    [] k = "linear"   -> Judged(LinearJudge(m, s))

Turns(T, S) == [mod : T, out : Seq(S)]

\* A verdict with a state and a sample is a turn.
LEMMA JudgedIsTurn ==
  ASSUME NEW T, NEW S, NEW v, v.mod \in T, v.keep \in BOOLEAN, v.sample \in S
  PROVE  Judged(v) \in Turns(T, S)
<1>1. Taken(v) \in Seq(S)
  BY DEF Taken
<1>. QED  BY <1>1 DEF Judged, Turns

\* The fields of a sample.
LEMMA SampleFields ==
  ASSUME NEW F, NEW s \in Samples(F)
  PROVE  /\ s = [at |-> s.at, slot |-> s.slot, pos |-> s.pos, pressure |-> s.pressure]
         /\ s.at \in Int /\ s.slot \in F /\ s.pos \in Int /\ s.pressure \in Int
BY DEF Samples

At(s, x, p) == [at |-> s.at, slot |-> s.slot, pos |-> x, pressure |-> p]

\* A sample with another place and pressure is a sample.
LEMMA AtIsSample ==
  ASSUME NEW F, NEW s \in Samples(F), NEW x \in Int, NEW p \in Int
  PROVE  /\ At(s, x, p) \in Samples(F)
         /\ At(s, x, p).at = s.at /\ At(s, x, p).slot = s.slot
         /\ At(s, x, p).pos = x /\ At(s, x, p).pressure = p
BY DEF Samples, At

\* It is what setting the pressure and then the place gives,
LEMMA PressureThenPos ==
  ASSUME NEW F, NEW s \in Samples(F), NEW x \in Int, NEW p \in Int
  PROVE  [s EXCEPT !.pressure = p, !.pos = x] = At(s, x, p)
<1> DEFINE b == [s EXCEPT !.pressure = p]
<1>1. b = [at |-> s.at, slot |-> s.slot, pos |-> s.pos, pressure |-> p]
  BY DEF Samples
<1>. HIDE DEF b
<1>2. [b EXCEPT !.pos = x] = [at |-> s.at, slot |-> s.slot, pos |-> x, pressure |-> p]
  BY <1>1
<1>. QED  BY <1>2 DEF b, At

\* and setting the place and then the pressure,
LEMMA PosThenPressure ==
  ASSUME NEW F, NEW s \in Samples(F), NEW x \in Int, NEW p \in Int
  PROVE  [s EXCEPT !.pos = x, !.pressure = p] = At(s, x, p)
<1> DEFINE b == [s EXCEPT !.pos = x]
<1>1. b = [at |-> s.at, slot |-> s.slot, pos |-> x, pressure |-> s.pressure]
  BY DEF Samples
<1>. HIDE DEF b
<1>2. [b EXCEPT !.pressure = p] = [at |-> s.at, slot |-> s.slot, pos |-> x, pressure |-> p]
  BY <1>1
<1>. QED  BY <1>2 DEF b, At

\* and setting the pressure alone leaves the place.
LEMMA PressureOnly ==
  ASSUME NEW F, NEW s \in Samples(F), NEW p \in Int
  PROVE  [s EXCEPT !.pressure = p] = At(s, s.pos, p)
BY DEF Samples, At

-----------------------------------------------------------------------------
Presses == [press : BOOLEAN, save : Int]

\* Whether the pen is down is set without the place.
LEMMA PressSet ==
  ASSUME NEW r \in Presses, NEW c \in BOOLEAN
  PROVE  [r EXCEPT !.press = c] = [press |-> c, save |-> r.save]
BY DEF Presses

\* What pthres may make of the sample s.
PthresTurns(F, mt, m, s, v) ==
  /\ v.mod \in [Slots -> Presses] /\ v.keep \in BOOLEAN /\ v.sample \in Samples(F)
  /\ v.sample.slot = s.slot /\ v.sample.at = s.at
  /\ \/ /\ s.pressure < Pmin /\ (mt \/ m[s.slot].press) /\ v.keep
        /\ v.mod = [m EXCEPT ![s.slot] = [press |-> FALSE, save |-> m[s.slot].save]]
        /\ v.sample.pressure = 0 /\ v.sample.pos = m[s.slot].save
     \/ ~mt /\ s.pressure < Pmin /\ ~m[s.slot].press /\ ~v.keep /\ v.mod = m
     \/ ~(s.pressure < Pmin) /\ s.pressure > Pmax /\ ~v.keep /\ v.mod = m
     \/ /\ ~(s.pressure < Pmin) /\ v.keep /\ v.sample = s
        /\ v.mod = [m EXCEPT ![s.slot] = [press |-> TRUE, save |-> s.pos]]

\* It releases a press, or drops the sample, or lets a press pass.
LEMMA PthresTurn ==
  ASSUME NEW F \in SUBSET Slots, NEW s \in Samples(F), NEW mt \in BOOLEAN,
         NEW m \in [Slots -> Presses],
         NEW v, v = IF mt THEN PthresJudgeMt(m, s) ELSE PthresJudge(m, s)
  PROVE  PthresTurns(F, mt, m, s, v)
<1> DEFINE up == [press |-> FALSE, save |-> m[s.slot].save]
           down == [press |-> TRUE, save |-> s.pos]
           t == At(s, m[s.slot].save, 0)
           Up == [m EXCEPT ![s.slot] = up]
           Down == [m EXCEPT ![s.slot] = down]
<1>1. s.slot \in Slots /\ s.pos \in Int /\ s.pressure \in Int
  <2>1. s.slot \in F /\ s.pos \in Int /\ s.pressure \in Int
    BY SampleFields
  <2>. QED  BY <2>1
<1>2. m[s.slot] \in Presses /\ m[s.slot].press \in BOOLEAN /\ m[s.slot].save \in Int
  BY <1>1 DEF Presses
<1>3. [m[s.slot] EXCEPT !.press = FALSE] = up
  <2> DEFINE no == FALSE
             r == m[s.slot]
  <2>1. no \in BOOLEAN /\ r \in Presses
    BY <1>2
  <2>. HIDE DEF no, r
  <2>2. [r EXCEPT !.press = no] = [press |-> no, save |-> r.save]
    BY ONLY <2>1, PressSet
  <2>. QED  BY ONLY <2>2 DEF no, r
<1>4. up \in Presses /\ down \in Presses
  BY <1>1, <1>2 DEF Presses
<1>5. t \in Samples(F) /\ t.at = s.at /\ t.slot = s.slot /\ t.pos = m[s.slot].save /\ t.pressure = 0
  BY <1>2, AtIsSample
<1>6. Up \in [Slots -> Presses] /\ Down \in [Slots -> Presses]
  <2>. HIDE DEF up, down
  <2>. QED  BY <1>1, <1>4
<1>7. Released(m, s) = [mod |-> Up, keep |-> TRUE, sample |-> t]
  <2>1. [s EXCEPT !.pressure = 0, !.pos = m[s.slot].save] = t
    BY <1>2, 0 \in Int, PressureThenPos, Zenon DEF t
  <2>2. Released(m, s) = [mod |-> [m EXCEPT ![s.slot] = [m[s.slot] EXCEPT !.press = FALSE]],
                          keep |-> TRUE,
                          sample |-> [s EXCEPT !.pressure = 0, !.pos = m[s.slot].save]]
    BY DEF Released
  <2>. QED  BY ONLY <1>3, <2>1, <2>2
<1>8. Pressed(m, s) = [mod |-> Down, keep |-> TRUE, sample |-> s]
  BY DEF Pressed
<1>9. Dropped(m, s) = [mod |-> m, keep |-> FALSE, sample |-> s]
  BY DEF Dropped
<1>. HIDE DEF t, up, down, Up, Down
<1>10. \/ (s.pressure < Pmin /\ (mt \/ m[s.slot].press) /\ v = Released(m, s))
       \/ (~mt /\ s.pressure < Pmin /\ ~m[s.slot].press /\ v = Dropped(m, s))
       \/ (~(s.pressure < Pmin) /\ s.pressure > Pmax /\ v = Dropped(m, s))
       \/ (~(s.pressure < Pmin) /\ v = Pressed(m, s))
  BY DEF PthresJudge, PthresJudgeMt
<1>11. CASE s.pressure < Pmin /\ (mt \/ m[s.slot].press) /\ v = Released(m, s)
  <2>1. v.mod = Up /\ v.keep = TRUE /\ v.sample = t
    BY ONLY <1>7, <1>11
  <2>2. v.mod \in [Slots -> Presses] /\ v.keep \in BOOLEAN /\ v.sample \in Samples(F)
        /\ v.sample.slot = s.slot /\ v.sample.at = s.at
    BY <1>5, <1>6, <2>1
  <2>3. v.sample.pressure = 0 /\ v.sample.pos = m[s.slot].save
    BY <1>5, <2>1
  <2>. QED  BY <1>11, <2>1, <2>2, <2>3 DEF PthresTurns, up, Up
<1>12. CASE ~mt /\ s.pressure < Pmin /\ ~m[s.slot].press /\ v = Dropped(m, s)
  <2>1. v.mod = m /\ v.keep = FALSE /\ v.sample = s
    BY <1>9, <1>12
  <2>. QED  BY <1>12, <2>1 DEF PthresTurns
<1>13. CASE ~(s.pressure < Pmin) /\ s.pressure > Pmax /\ v = Dropped(m, s)
  <2>1. v.mod = m /\ v.keep = FALSE /\ v.sample = s
    BY <1>9, <1>13
  <2>. QED  BY <1>13, <2>1 DEF PthresTurns
<1>14. CASE ~(s.pressure < Pmin) /\ v = Pressed(m, s)
  <2>1. v.mod = Down /\ v.keep = TRUE /\ v.sample = s
    BY ONLY <1>8, <1>14
  <2>2. v.mod \in [Slots -> Presses] /\ v.keep \in BOOLEAN /\ v.sample \in Samples(F)
    BY <1>6, <2>1
  <2>. QED  BY <1>14, <2>1, <2>2 DEF PthresTurns, down, Down
<1>. QED  BY <1>10, <1>11, <1>12, <1>13, <1>14

Quiets == [quiet : [Slots -> Int], drop : BOOLEAN]

\* What debounce may make of the sample s: it keeps releases, and no press of the
\* quiet time; and all others unless it has dropped one in this batch.
DebounceTurns(m, s, v) ==
  LET early == s.pressure # 0 /\ s.at + m.quiet[s.slot] < Threshold
  IN /\ v.mod \in Quiets /\ v.keep \in BOOLEAN /\ v.sample = s
     /\ v.mod.quiet = IF s.pressure # 0 THEN m.quiet ELSE [m.quiet EXCEPT ![s.slot] = -s.at]
     /\ s.pressure = 0 => v.keep
     /\ early => ~v.keep
     /\ ~early /\ ~m.drop => v.keep

\* That is what debounce does.
LEMMA DebounceTurn ==
  ASSUME NEW F \in SUBSET Slots, NEW s \in Samples(F), NEW m \in Quiets,
         NEW v, v = DebounceJudge(m, s)
  PROVE  DebounceTurns(m, s, v)
<1>1. s.slot \in Slots /\ s.at \in Int /\ s.pressure \in Int
  <2>1. s.slot \in F /\ s.at \in Int /\ s.pressure \in Int
    BY SampleFields
  <2>. QED  BY <2>1
<1>2. m.quiet \in [Slots -> Int] /\ m.drop \in BOOLEAN
  BY DEF Quiets
<1>3. [m.quiet EXCEPT ![s.slot] = -s.at] \in [Slots -> Int]
  BY <1>1, <1>2
<1> DEFINE q == IF s.pressure # 0 THEN m.quiet ELSE [m.quiet EXCEPT ![s.slot] = -s.at]
           early == s.pressure # 0 /\ s.at + m.quiet[s.slot] < Threshold
           d == m.drop \/ early
<1>4. q \in [Slots -> Int]
  BY <1>2, <1>3
<1>5. early \in BOOLEAN /\ d \in BOOLEAN
  OBVIOUS
<1>6. v = [mod |-> [quiet |-> q, drop |-> d], sample |-> s, keep |-> ~(s.pressure # 0 /\ d)]
  BY DEF DebounceJudge
<1>. HIDE DEF q
<1>7. v.mod = [quiet |-> q, drop |-> d] /\ v.sample = s
  BY <1>6
<1>8. v.keep <=> ~(s.pressure # 0 /\ d)
  <2>1. v.keep = ~(s.pressure # 0 /\ d)
    BY <1>6
  <2>. QED  BY <2>1
<1>9. v.keep \in BOOLEAN
  <2>1. v.keep = ~(s.pressure # 0 /\ d)
    BY <1>6
  <2>. QED  BY <2>1
<1>10. v.mod \in Quiets /\ v.mod.quiet = q
  BY <1>4, <1>5, <1>7 DEF Quiets
<1>11. /\ s.pressure = 0 => v.keep
       /\ early => ~v.keep
       /\ ~early /\ ~m.drop => v.keep
  <2>. HIDE DEF early
  <2>1. early => s.pressure # 0
    BY DEF early
  <2>. QED  BY <1>8, <2>1
<1>12. /\ v.mod \in Quiets /\ v.keep \in BOOLEAN /\ v.sample = s
       /\ v.mod.quiet = IF s.pressure # 0 THEN m.quiet ELSE [m.quiet EXCEPT ![s.slot] = -s.at]
  BY <1>7, <1>9, <1>10 DEF q
<1>. QED  BY <1>11, <1>12, Zenon DEF DebounceTurns, early

-----------------------------------------------------------------------------
(* dejitter                                                                *)

Points == [pos : Int, p : Int]

\* A place of the ring is a place of the ring.
LEMMA RingPlace == \A x \in Int : x % NR_SAMPHISTLEN \in 0 .. NR_SAMPHISTLEN - 1
BY DEF NR_SAMPHISTLEN

\* The weights are numbers, and their sum is a power of 2.
LEMMA WeightsAre ==
  ASSUME NEW n \in 2 .. NR_SAMPHISTLEN
  PROVE  /\ \A i \in 1 .. n : weight[n - 1][i] \in Int
         /\ 2 ^ weight[n - 1][5] \in Nat \ {0}
<1>1. n = 2 \/ n = 3 \/ n = 4
  BY DEF NR_SAMPHISTLEN
<1>2. weight[1] = <<5, 3, 0, 0, 3>> /\ weight[2] = <<8, 5, 3, 0, 4>>
      /\ weight[3] = <<6, 4, 3, 3, 4>>
  BY DEF weight
<1>3. 2 ^ 3 = 8 /\ 2 ^ 4 = 16
  OBVIOUS
<1>4. CASE n = 2
  <2>1. n - 1 = 1 /\ weight[n - 1] = <<5, 3, 0, 0, 3>>
    BY <1>2, <1>4
  <2>2. \A i \in 1 .. n : i = 1 \/ i = 2
    BY <1>4
  <2>. QED  BY <1>3, <2>1, <2>2
<1>5. CASE n = 3
  <2>1. n - 1 = 2 /\ weight[n - 1] = <<8, 5, 3, 0, 4>>
    BY <1>2, <1>5
  <2>2. \A i \in 1 .. n : i = 1 \/ i = 2 \/ i = 3
    BY <1>5
  <2>. QED  BY <1>3, <2>1, <2>2
<1>6. CASE n = 4
  <2>1. n - 1 = 3 /\ weight[n - 1] = <<6, 4, 3, 3, 4>>
    BY <1>2, <1>6
  <2>2. \A i \in 1 .. n : i = 1 \/ i = 2 \/ i = 3 \/ i = 4
    BY <1>6
  <2>. QED  BY <1>3, <2>1, <2>2
<1>. QED  BY <1>1, <1>4, <1>5, <1>6

\* A number over a power of 2 is a number.
LEMMA Divides == \A a \in Int, b \in Nat \ {0} : a \div b \in Int
OBVIOUS

\* An average is a sample of the same slot.
LEMMA AverageIsSample ==
  ASSUME NEW F, NEW s \in Samples(F), NEW c \in Rings, c.nr \in 2 .. NR_SAMPHISTLEN
  PROVE  average(c, s) \in Samples(F) /\ average(c, s).slot = s.slot
<1> DEFINE w == weight[c.nr - 1]
           n == c.nr
           at(i) == c.hist[(c.head - (i - 1) + NR_SAMPHISTLEN) % NR_SAMPHISTLEN]
           Next1(r, i) == [pos |-> r.pos + at(i).pos * w[i], p |-> r.p + at(i).p * w[i]]
           zero == [pos |-> 0, p |-> 0]
           part == CHOOSE part : part = [i \in 0 .. n |-> IF i = 0 THEN zero
                                                          ELSE Next1(part[i - 1], i)]
           G == [i \in 1 .. n |-> [r \in Points |-> Next1(r, i)]]
<1>1. /\ \A i \in 1 .. n : w[i] \in Int
      /\ 2 ^ w[5] \in Nat \ {0}
  BY WeightsAre
<1>2. n \in Nat /\ zero \in Points /\ n # 0
  BY DEF Points, NR_SAMPHISTLEN
<1>3. \A i \in 1 .. n : at(i) \in Points
  <2>1. c.head \in Int /\ c.hist \in [0 .. NR_SAMPHISTLEN - 1 -> Points]
    BY DEF Rings, Points
  <2>2. \A i \in 1 .. n : c.head - (i - 1) + NR_SAMPHISTLEN \in Int
    BY <1>2, <2>1 DEF NR_SAMPHISTLEN
  <2>. QED  BY <2>1, <2>2, RingPlace
<1>. HIDE DEF w, at, n
<1>4. \A i \in 1 .. n, r \in Points : Next1(r, i) \in Points
  BY <1>1, <1>3 DEF Points
<1>5. G \in [1 .. n -> [Points -> Points]]
  BY <1>4
<1>6. PICK g : Runs(g, n, Points, zero, G)
  <2>. HIDE DEF G, zero
  <2>. QED  BY <1>2, <1>5, StepsExist
<1>7. g = [i \in 0 .. n |-> IF i = 0 THEN zero ELSE Next1(g[i - 1], i)]
  <2>. HIDE DEF Next1, zero
  <2>. USE DEF Runs
  <2>1. \A i \in 0 .. n : i # 0 => i - 1 \in 0 .. n /\ i \in 1 .. n
    BY <1>2
  <2>2. \A i \in 1 .. n : G[i][g[i - 1]] = Next1(g[i - 1], i)
    BY <1>6, <2>1
  <2>3. \A i \in 0 .. n : g[i] = IF i = 0 THEN zero ELSE Next1(g[i - 1], i)
    BY <1>6, <2>1, <2>2
  <2>4. g = [i \in 0 .. n |-> g[i]]
    BY <1>6
  <2>. QED  BY <2>3, <2>4
<1>8. part = [i \in 0 .. n |-> IF i = 0 THEN zero ELSE Next1(part[i - 1], i)]
  <2>. HIDE DEF Next1, zero
  <2>. QED  BY <1>7
<1>9. part[n] \in Points
  <2> DEFINE T == {i \in 0 .. n : part[i] \in Points}
  <2>. HIDE DEF Next1, zero, part
  <2>1. \A i \in 0 .. n : part[i] = IF i = 0 THEN zero ELSE Next1(part[i - 1], i)
    BY ONLY <1>8
  <2>2. 0 \in T
    BY <1>2, <2>1
  <2>3. ASSUME NEW i \in 0 .. n - 1, i \in T
        PROVE  i + 1 \in T
    <3>1. i + 1 \in 1 .. n /\ i + 1 \in 0 .. n /\ i + 1 # 0 /\ i + 1 - 1 = i
      BY <1>2
    <3>2. part[i + 1] = Next1(part[i], i + 1)
      BY <2>1, <3>1
    <3>. QED  BY <1>4, <2>3, <3>1, <3>2
  <2>4. \A i \in 0 .. n : i \in T
    <3>. HIDE DEF T
    <3>. QED  BY <1>2, <2>2, <2>3, CountUp
  <2>. QED  BY <1>2, <2>4
<1> DEFINE x == part[n].pos \div 2 ^ w[5]
           p == part[n].p \div 2 ^ w[5]
<1>10. average(c, s) = [s EXCEPT !.pos = x, !.pressure = p]
  BY DEF average, part, Next1, zero, at, w, n
<1>11. x \in Int /\ p \in Int
  <2> DEFINE q == part[n]
             d == 2 ^ w[5]
  <2>1. q.pos \in Int /\ q.p \in Int /\ d \in Nat \ {0}
    BY <1>1, <1>9 DEF Points
  <2>. HIDE DEF q, d
  <2>2. q.pos \div d \in Int /\ q.p \div d \in Int
    BY <2>1, Divides
  <2>. QED  BY <2>2 DEF q, d
<1>. HIDE DEF x, p
<1>12. average(c, s) = At(s, x, p)
  BY <1>10, <1>11, PosThenPressure
<1>. QED  BY <1>11, <1>12, AtIsSample

\* What the filters that pass on every sample may make of s: a release stays one.
PassesOn(T, F, s, v) ==
  /\ v.mod \in T /\ v.keep = TRUE /\ v.sample \in Samples(F) /\ v.sample.slot = s.slot
  /\ s.pressure = 0 => v.sample.pressure = 0

\* dejitter passes on every sample.
LEMMA DejitterTurn ==
  ASSUME NEW F \in SUBSET Slots, NEW s \in Samples(F), NEW m \in [Slots -> Rings],
         NEW v, v = DejitterJudge(m, s)
  PROVE  PassesOn([Slots -> Rings], F, s, v)
<1> DEFINE c == m[s.slot]
           kept == IF TooFast(c, s) THEN 0 ELSE c.nr
           nr == IF kept < NR_SAMPHISTLEN THEN kept + 1 ELSE kept
           point == [pos |-> s.pos, p |-> s.pressure]
           hist == [c.hist EXCEPT ![c.head] = point]
           with == [c EXCEPT !.hist[c.head] = point, !.nr = nr]
           head == (c.head + 1) % NR_SAMPHISTLEN
           u == IF s.pressure = 0 THEN DejitterRelease(c, s) ELSE DejitterPress(c, s)
<1>1. s.slot \in Slots /\ s.pos \in Int /\ s.pressure \in Int
  <2>1. s.slot \in F /\ s.pos \in Int /\ s.pressure \in Int
    BY SampleFields
  <2>. QED  BY <2>1
<1>2. c \in Rings
  BY <1>1
<1>3. /\ c = [nr |-> c.nr, head |-> c.head, hist |-> c.hist]
      /\ c.nr \in 0 .. NR_SAMPHISTLEN /\ c.head \in 0 .. NR_SAMPHISTLEN - 1
      /\ c.hist \in [0 .. NR_SAMPHISTLEN - 1 -> Points]
  <2>. HIDE DEF c
  <2>. QED  BY <1>2 DEF Rings, Points
<1>. HIDE DEF c
<1>4. u.c \in Rings /\ u.sample \in Samples(F) /\ u.sample.slot = s.slot
      /\ (s.pressure = 0 => u.sample.pressure = 0)
  <2>1. CASE s.pressure = 0
    <3>1. u = [c |-> [c EXCEPT !.nr = 0], sample |-> s]
      BY <2>1 DEF DejitterRelease
    <3>2. [c EXCEPT !.nr = 0] = [nr |-> 0, head |-> c.head, hist |-> c.hist]
      BY <1>3
    <3>3. [nr |-> 0, head |-> c.head, hist |-> c.hist] \in Rings
      BY <1>3 DEF Rings, Points, NR_SAMPHISTLEN
    <3>. HIDE DEF u
    <3>. QED  BY <2>1, <3>1, <3>2, <3>3
  <2>2. CASE s.pressure # 0
    <3>0. kept \in 0 .. NR_SAMPHISTLEN
      BY <1>3 DEF NR_SAMPHISTLEN
    <3>1. nr \in 1 .. NR_SAMPHISTLEN
      <4>. HIDE DEF kept
      <4>. QED  BY <3>0 DEF NR_SAMPHISTLEN
    <3>2. point \in Points
      BY <1>1 DEF Points
    <3>3. hist \in [0 .. NR_SAMPHISTLEN - 1 -> Points]
      <4>. HIDE DEF point
      <4>. QED  BY <1>3, <3>2
    <3>4. head \in 0 .. NR_SAMPHISTLEN - 1
      BY <1>3, RingPlace DEF NR_SAMPHISTLEN
    <3>5. u = [c |-> [with EXCEPT !.head = head], sample |-> IF with.nr = 1 THEN s ELSE average(with, s)]
      BY <2>2 DEF DejitterPress
    <3> DEFINE a == [c EXCEPT !.hist = hist]
    <3>6. with = [a EXCEPT !.nr = nr]
      OBVIOUS
    <3>. HIDE DEF with, nr, kept, head, hist, point, u
    <3>7. a = [nr |-> c.nr, head |-> c.head, hist |-> hist]
      BY <1>3
    <3>. HIDE DEF a
    <3>8. with = [nr |-> nr, head |-> c.head, hist |-> hist]
      BY <3>6, <3>7
    <3>9. [with EXCEPT !.head = head] = [nr |-> nr, head |-> head, hist |-> hist]
      BY <3>8
    <3>10. with \in Rings /\ with.nr = nr /\ [nr |-> nr, head |-> head, hist |-> hist] \in Rings
      <4>1. nr \in 0 .. NR_SAMPHISTLEN
        BY <3>1 DEF NR_SAMPHISTLEN
      <4>. QED  BY <1>3, <3>3, <3>4, <3>8, <4>1 DEF Rings, Points
    <3>11. nr # 1 => average(with, s) \in Samples(F) /\ average(with, s).slot = s.slot
      <4>1. nr # 1 => with.nr \in 2 .. NR_SAMPHISTLEN
        BY <3>1, <3>10 DEF NR_SAMPHISTLEN
      <4>. QED  BY <3>10, <4>1, AverageIsSample
    <3>12. u.c \in Rings
      BY <3>5, <3>9, <3>10
    <3>13. u.sample = IF nr = 1 THEN s ELSE average(with, s)
      BY <3>5, <3>10
    <3>. QED  BY <2>2, <3>11, <3>12, <3>13
  <2>. QED  BY <2>1, <2>2
<1>5. v = [mod |-> [m EXCEPT ![s.slot] = u.c], keep |-> TRUE, sample |-> u.sample]
  BY DEF DejitterJudge, c
<1>. HIDE DEF u
<1> DEFINE M == [m EXCEPT ![s.slot] = u.c]
<1>6. M \in [Slots -> Rings]
  BY <1>1, <1>4
<1>. HIDE DEF M
<1>7. v = [mod |-> M, keep |-> TRUE, sample |-> u.sample]
  BY <1>5 DEF M
<1>8. v.mod = M /\ v.keep = TRUE /\ v.sample = u.sample
  BY ONLY <1>7
<1>. QED  BY <1>4, <1>6, <1>8 DEF PassesOn

-----------------------------------------------------------------------------
(* linear                                                                  *)

\* A quotient of numbers is a number.
LEMMA QuotientIsInt == \A a \in Int, b \in Int \ {0} : Quotient(a, b) \in Int
<1> SUFFICES ASSUME NEW a \in Int, NEW b \in Int \ {0}
             PROVE  Quotient(a, b) \in Int
  OBVIOUS
<1> DEFINE x == IF a < 0 THEN -a ELSE a
           y == IF b < 0 THEN -b ELSE b
           q == x \div y
<1>1. x \in Int /\ y \in Nat \ {0}
  OBVIOUS
<1>2. q \in Int
  <2>. HIDE DEF x, y
  <2>. QED  BY <1>1, Divides
<1>3. Quotient(a, b) = IF (a < 0) = (b < 0) THEN q ELSE -q
  BY DEF Quotient
<1>. HIDE DEF q
<1>. QED  BY <1>2, <1>3

\* As an unsigned number it is not negative.
LEMMA UnsignedIsNat == \A i \in Int : ToUnsigned(i) \in Nat
BY LinearAssumption DEF ToUnsigned

\* Calibration gives numbers.
LEMMA CalibratedIsInt ==
  /\ \A x \in Int : Calibrated(x) \in Int
  /\ \A p \in Int : CalibratedPressure(p) \in Int
<1> USE LinearAssumption
<1>1. ASSUME NEW x \in Int
      PROVE  Calibrated(x) \in Int
  <2> DEFINE c == Quotient(Offset + Scale * x, Divisor)
             u == ToUnsigned(c * Res) \div CalRes
  <2>1. Offset + Scale * x \in Int
    OBVIOUS
  <2>2. c \in Int
    BY <2>1, QuotientIsInt
  <2>3. Calibrated(x) = IF Res # 0 /\ CalRes # 0 THEN ToInt(u) ELSE c
    BY DEF Calibrated
  <2>. HIDE DEF c
  <2>4. ToUnsigned(c * Res) \in Nat
    BY <2>2, UnsignedIsNat
  <2>5. CalRes # 0 => u \in Int
    <3> DEFINE t == ToUnsigned(c * Res)
    <3>. HIDE DEF t
    <3>1. t \in Int
      BY <2>4 DEF t
    <3>2. CalRes # 0 => t \div CalRes \in Int
      BY <3>1, Divides
    <3>. QED  BY <3>2 DEF t
  <2>. HIDE DEF u
  <2>6. u \in Int => ToInt(u) \in Int
    BY DEF ToInt
  <2>. QED  BY <2>2, <2>3, <2>5, <2>6
<1>2. ASSUME NEW p \in Int
      PROVE  CalibratedPressure(p) \in Int
  <2> DEFINE a == ToUnsigned(p + POffset)
             b == ToUnsigned(PMult)
             d == ToUnsigned(PDiv)
             u == ToUnsigned(a * b)
  <2>1. a \in Nat /\ b \in Nat /\ d \in Nat
    BY UnsignedIsNat
  <2>2. d # 0
    BY DEF ToUnsigned
  <2>3. CalibratedPressure(p) = u \div d
    BY DEF CalibratedPressure
  <2>. HIDE DEF a, b, d
  <2>4. a * b \in Int
    BY <2>1
  <2>5. u \in Int
    BY <2>4, UnsignedIsNat
  <2>. HIDE DEF u
  <2>. QED  BY <2>1, <2>2, <2>3, <2>5, Divides
<1>. QED  BY <1>1, <1>2

\* What linear makes of s.
LinearTurns(F, s, v) ==
  /\ v.mod = <<>> /\ v.keep = TRUE /\ v.sample \in Samples(F) /\ v.sample.slot = s.slot
  /\ v.sample.pos = Calibrated(s.pos)
  /\ v.sample.pressure = CalibratedPressure(s.pressure)

\* linear passes on every sample, calibrated.
LEMMA LinearTurn ==
  ASSUME NEW F \in SUBSET Slots, NEW s \in Samples(F), NEW v, v = LinearJudge(<<>>, s)
  PROVE  LinearTurns(F, s, v)
<1> DEFINE x == Calibrated(s.pos)
           p == CalibratedPressure(s.pressure)
<1>1. s.pos \in Int /\ s.pressure \in Int
  BY SampleFields
<1>2. x \in Int /\ p \in Int
  BY <1>1, CalibratedIsInt
<1>3. v = [mod |-> <<>>, keep |-> TRUE, sample |-> [s EXCEPT !.pos = x, !.pressure = p]]
  BY DEF LinearJudge
<1>. HIDE DEF p
<1>5. At(s, x, p) = [s EXCEPT !.pos = x, !.pressure = p]
  <2>. HIDE DEF x
  <2>. QED  BY <1>2, PosThenPressure
<1>6. v.mod = <<>> /\ v.keep = TRUE /\ v.sample = At(s, x, p)
  BY ONLY <1>3, <1>5
<1>. HIDE DEF x
<1>7. /\ At(s, x, p) \in Samples(F) /\ At(s, x, p).slot = s.slot
      /\ At(s, x, p).pos = x /\ At(s, x, p).pressure = p
  BY <1>2, AtIsSample
<1>. QED  BY <1>6, <1>7 DEF x, p, LinearTurns

-----------------------------------------------------------------------------
(* median                                                                  *)

Depths == 0 .. Depth - 1

\* A set of places has no more than Depth, and one with more places has more.
LEMMA PlacesCount ==
  /\ \A S \in SUBSET Depths : IsFiniteSet(S) /\ Cardinality(S) \in Nat
  /\ \A S, T \in SUBSET Depths : S \subseteq T /\ S # T => Cardinality(S) < Cardinality(T)
  /\ Cardinality(Depths) = Depth /\ Cardinality({}) = 0
<1>1. 0 \in Int /\ Depth - 1 \in Int /\ Depth - 1 - 0 + 1 = Depth /\ 0 <= Depth - 1
  BY MedianAssumption
<1>2. IsFiniteSet(Depths) /\ Cardinality(Depths) = Depth
  <2>1. /\ IsFiniteSet(0 .. Depth - 1)
        /\ Cardinality(0 .. Depth - 1) = IF 0 > Depth - 1 THEN 0 ELSE Depth - 1 - 0 + 1
    BY <1>1, FS_Interval
  <2>. QED  BY <1>1, <2>1 DEF Depths
<1>3. \A S \in SUBSET Depths : IsFiniteSet(S)
  BY <1>2, FS_Subset
<1>4. \A S \in SUBSET Depths : Cardinality(S) \in Nat
  BY <1>3, FS_CardinalityType
<1>5. ASSUME NEW S \in SUBSET Depths, NEW T \in SUBSET Depths, S \subseteq T, S # T
      PROVE  Cardinality(S) < Cardinality(T)
  <2>1. Cardinality(S) <= Cardinality(T) /\ (Cardinality(S) = Cardinality(T) => S = T)
    BY <1>3, <1>5, FS_Subset
  <2>2. Cardinality(S) \in Nat /\ Cardinality(T) \in Nat
    BY <1>4
  <2>. QED  BY <1>5, <2>1, <2>2
<1>6. Cardinality({}) = 0
  BY FS_EmptySet
<1>. QED  BY <1>2, <1>3, <1>4, <1>5, <1>6

\* The middle of the values is one of them.
LEMMA MiddleIsOne ==
  ASSUME NEW values \in [Depths -> Int]
  PROVE  \E i \in Depths : MiddleOf(values) = values[i]
<1> DEFINE Below(v) == {i \in Depths : values[i] < v}
           UpTo(v) == {i \in Depths : values[i] <= v}
           C(i) == Cardinality(UpTo(values[i]))
           half == Depth \div 2
           Many == {i \in Depths : half < C(i)}
           Few(w) == {i \in Depths : values[i] < w}
<1>0. Depth \in Nat \ {0} /\ half \in Nat /\ half < Depth
  BY MedianAssumption
<1>1. \A v \in Int : Below(v) \in SUBSET Depths /\ UpTo(v) \in SUBSET Depths
  OBVIOUS
<1>2. \A i \in Depths : values[i] \in Int /\ C(i) \in Nat
  BY <1>1, PlacesCount
<1>3. 0 \in Depths
  BY <1>0 DEF Depths
\* the place of a value such that as many as possible are up to it
<1>4. ASSUME NEW S \in SUBSET Depths, S # {}
      PROVE  \E i \in S : \A j \in S : values[j] <= values[i]
  <2> DEFINE N == {C(i) : i \in S}
  <2>1. N \in SUBSET (0 .. Depth) /\ N # {}
    <3>1. \A i \in S : C(i) \in 0 .. Depth
      <4> SUFFICES ASSUME NEW i \in S
                   PROVE  C(i) \in 0 .. Depth
        OBVIOUS
      <4> DEFINE U == UpTo(values[i])
      <4>1. U \in SUBSET Depths
        OBVIOUS
      <4>. HIDE DEF U
      <4>2. Cardinality(U) \in Nat /\ Cardinality(U) <= Depth
        <5>1. U = Depths \/ Cardinality(U) < Cardinality(Depths)
          BY <4>1, PlacesCount
        <5>. QED  BY <1>0, <4>1, <5>1, PlacesCount
      <4>3. Cardinality(U) \in 0 .. Depth
        BY <1>0, <4>2
      <4>. QED  BY <4>3 DEF U
    <3>. HIDE DEF C
    <3>. QED  BY <1>4, <3>1
  <2>2. PICK k \in N : \A n \in N : n <= k
    <3>. HIDE DEF N
    <3>. QED  BY <1>0, <2>1, GreatestExists
  <2>3. PICK i \in S : k = C(i)
    BY <2>2
  <2>4. \A j \in S : C(j) <= C(i)
    BY <2>2, <2>3
  <2>5. ASSUME NEW j \in S, ~(values[j] <= values[i])
        PROVE  FALSE
    <3>1. values[j] \in Int /\ values[i] \in Int /\ values[i] < values[j]
      BY <1>2, <2>5
    <3>2. UpTo(values[i]) \subseteq UpTo(values[j]) /\ j \in UpTo(values[j]) /\ j \notin UpTo(values[i])
      BY <1>2, <3>1
    <3> DEFINE A == UpTo(values[i])
               B == UpTo(values[j])
    <3>3. A \in SUBSET Depths /\ B \in SUBSET Depths /\ A \subseteq B /\ A # B
      BY <3>2
    <3>. HIDE DEF A, B
    <3>4. Cardinality(A) < Cardinality(B)
      BY <3>3, PlacesCount
    <3>5. C(j) <= C(i) /\ C(j) = Cardinality(B) /\ C(i) = Cardinality(A)
      BY <2>4 DEF A, B
    <3>6. Cardinality(A) \in Nat /\ Cardinality(B) \in Nat
      BY <3>3, PlacesCount
    <3>. HIDE DEF C
    <3>. QED  BY <3>4, <3>5, <3>6
  <2>. QED  BY <2>5
\* all are up to the greatest, so there are values up to which there are many
<1>5. Many # {}
  <2>1. PICK i \in Depths : \A j \in Depths : values[j] <= values[i]
    BY <1>3, <1>4
  <2>2. UpTo(values[i]) = Depths
    BY <2>1
  <2>3. C(i) = Depth
    BY <2>2, PlacesCount
  <2>. QED  BY <1>0, <2>3
<1>6. PICK i \in Many : \A j \in Many : C(i) <= C(j)
  <2> DEFINE N == {C(j) : j \in Many}
  <2>1. N \in SUBSET Nat /\ N # {}
    <3>. HIDE DEF C
    <3>. QED  BY <1>2, <1>5
  <2>2. PICK k \in N : \A n \in N : k <= n
    <3>. HIDE DEF N
    <3>. QED  BY <2>1, LeastExists
  <2>. QED  BY <2>2
<1>7. Cardinality(Below(values[i])) <= half
  <2>1. CASE Below(values[i]) = {}
    BY <1>0, <2>1, PlacesCount
  <2>2. CASE Below(values[i]) # {}
    <3> DEFINE S == Below(values[i])
    <3>1. S \in SUBSET Depths /\ S # {}
      BY <2>2
    <3>2. PICK j \in S : \A k \in S : values[k] <= values[j]
      <4>. HIDE DEF S
      <4>. QED  BY <1>4, <3>1
    <3>3. j \in Depths /\ values[j] \in Int /\ values[i] \in Int /\ values[j] < values[i]
      BY <1>2, <3>2
    <3>4. UpTo(values[j]) = S
      <4>1. \A k \in Depths : values[k] <= values[j] => values[k] < values[i]
        BY <1>2, <3>3
      <4>. QED  BY <3>2, <4>1
    <3>5. UpTo(values[j]) \subseteq UpTo(values[i]) /\ i \in UpTo(values[i]) /\ i \notin UpTo(values[j])
      BY <1>2, <3>3
    <3> DEFINE A == UpTo(values[j])
               B == UpTo(values[i])
    <3>6. A \in SUBSET Depths /\ B \in SUBSET Depths /\ A \subseteq B /\ A # B
      BY <3>5
    <3>7. C(j) < C(i)
      <4>1. Cardinality(A) < Cardinality(B)
        <5>. HIDE DEF A, B
        <5>. QED  BY <3>6, PlacesCount
      <4>. QED  BY <4>1
    <3>8. C(j) \in Nat /\ C(i) \in Nat
      BY <1>2, <3>3
    <3>9. j \notin Many
      <4>. HIDE DEF C
      <4>. QED  BY <1>6, <3>7, <3>8
    <3>10. ~(half < C(j))
      BY <3>3, <3>9
    <3>11. C(j) <= half
      <4>. HIDE DEF C, half
      <4>. QED  BY <1>0, <3>8, <3>10
    <3>12. Cardinality(S) = C(j)
      BY <3>4
    <3>. HIDE DEF C, half
    <3>. QED  BY <3>11, <3>12
  <2>. QED  BY <2>1, <2>2
<1> DEFINE Values == {values[k] : k \in DOMAIN values}
           P(v) == /\ Cardinality({k \in DOMAIN values : values[k] < v}) <= Depth \div 2
                   /\ Depth \div 2 < Cardinality({k \in DOMAIN values : values[k] <= v})
<1>8. DOMAIN values = Depths
  OBVIOUS
<1>9. values[i] \in Values /\ P(values[i])
  BY <1>6, <1>7, <1>8
<1>10. MiddleOf(values) = CHOOSE v \in Values : P(v)
  BY DEF MiddleOf
<1>11. MiddleOf(values) \in Values
  <2>. HIDE DEF P, Values
  <2>. QED  BY <1>9, <1>10
<1>. QED  BY <1>8, <1>11

\* The middle of values that are all 0 is 0, and of numbers a number.
LEMMA MiddleIsInt ==
  ASSUME NEW values \in [Depths -> Int]
  PROVE  /\ MiddleOf(values) \in Int
         /\ (\A i \in Depths : values[i] = 0) => MiddleOf(values) = 0
<1>1. PICK i \in Depths : MiddleOf(values) = values[i]
  BY MiddleIsOne
<1>. QED  BY <1>1

Lines == [with : BOOLEAN, delay : [Depths -> Points]]

Junky(c) == \E i \in Depths : c.delay[i].pos \in Junk

\* while no press is under way, what is left in the line has no pressure
Settled(c) == ~c.with => \A i \in Depths : c.delay[i].p = 0 \/ c.delay[i].pos \in Junk

MedianTurns(F, mt, m, s, v) ==
  /\ v.mod \in [Slots -> Lines] /\ v.keep = TRUE
  /\ v.sample \in Samples(F) /\ v.sample.slot = s.slot
  /\ \A slot \in Slots : slot # s.slot => v.mod[slot] = m[slot]
  /\ ~mt /\ Settled(m[s.slot]) =>
       /\ Settled(v.mod[s.slot])
       /\ s.pressure = 0 => v.sample.pressure = 0 \/ Junky(v.mod[s.slot])

\* The line with the sample s.
LEMMA DelayedIs ==
  ASSUME NEW c \in Lines, NEW x \in Int, NEW p \in Int, NEW s, s.pos = x, s.pressure = p
  PROVE  /\ Delayed(c, s) \in [Depths -> Points]
         /\ \A i \in Depths : Delayed(c, s)[i] = IF i = Depth - 1 THEN [pos |-> x, p |-> p]
                                                ELSE c.delay[i + 1]
         /\ \A i \in Depths : i # Depth - 1 => i + 1 \in Depths
<1>0. Depth \in Nat \ {0}
  BY MedianAssumption
<1>1. DOMAIN c.delay = Depths /\ c.delay \in [Depths -> Points]
  BY DEF Lines
<1>2. \A i \in Depths : i # Depth - 1 => i + 1 \in Depths
  BY <1>0 DEF Depths
<1>3. Delayed(c, s) = [i \in Depths |-> IF i = Depth - 1 THEN [pos |-> x, p |-> p]
                                        ELSE c.delay[i + 1]]
  BY <1>1 DEF Delayed
<1>4. [pos |-> x, p |-> p] \in Points
  BY DEF Points
<1>5. \A i \in Depths : i # Depth - 1 => c.delay[i + 1] \in Points
  BY <1>1, <1>2
<1>. QED  BY <1>2, <1>3, <1>4, <1>5

\* median passes on every sample; as read does it, a release becomes one, unless
\* memory that nobody has set counts.
LEMMA MedianTurnIs ==
  ASSUME NEW F \in SUBSET Slots, NEW s \in Samples(F), NEW mt \in BOOLEAN,
         NEW m \in [Slots -> Lines],
         NEW v, v = IF mt THEN MedianJudgeMt(m, s) ELSE MedianJudge(m, s)
  PROVE  MedianTurns(F, mt, m, s, v)
<1> DEFINE c == m[s.slot]
           d == Delayed(c, s)
           f == IF mt THEN FlushedMt(d) ELSE Flushed(d)
           P == [i \in Depths |-> d[i].pos]
           Q == [i \in Depths |-> d[i].p]
           x == MiddleOf(P)
           p == MiddleOf(Q)
           up == [with |-> FALSE, delay |-> f]
           on == [with |-> c.with \/ s.pressure # 0, delay |-> d]
           next == IF PenUpEnds(c, s) THEN up ELSE on
           t == IF PenUpEnds(c, s) THEN At(s, x, 0) ELSE At(s, x, p)
           M == [m EXCEPT ![s.slot] = next]
<1>1. s.slot \in Slots /\ s.pos \in Int /\ s.pressure \in Int
  <2>1. s.slot \in F /\ s.pos \in Int /\ s.pressure \in Int
    BY SampleFields
  <2>. QED  BY <2>1
<1>2. c \in Lines
  BY <1>1
<1>. HIDE DEF c
<1>3. c.with \in BOOLEAN /\ c.delay \in [Depths -> Points]
  BY <1>2 DEF Lines
<1>4. /\ d \in [Depths -> Points]
      /\ \A i \in Depths : d[i] = IF i = Depth - 1 THEN [pos |-> s.pos, p |-> s.pressure]
                                  ELSE c.delay[i + 1]
      /\ \A i \in Depths : i # Depth - 1 => i + 1 \in Depths
  BY <1>1, <1>2, DelayedIs
<1>. HIDE DEF d
<1>5. None \in Points /\ None.p = 0
  BY DEF None, Points
<1>6. f \in [Depths -> Points]
  <2>1. DOMAIN d = Depths
    BY <1>4
  <2>. QED  BY <1>4, <1>5, <2>1 DEF Flushed, FlushedMt
<1>7. ~mt => \A i \in Depths : f[i].p = 0
  <2>1. DOMAIN d = Depths
    BY <1>4
  <2>. QED  BY <1>5, <2>1 DEF Flushed
<1>. HIDE DEF f
<1>8. up \in Lines /\ up.with = FALSE /\ up.delay = f
  BY <1>6 DEF Lines
<1>9. on \in Lines /\ on.delay = d /\ (on.with <=> c.with \/ s.pressure # 0)
  <2> DEFINE b == c.with \/ s.pressure # 0
  <2>1. b \in BOOLEAN
    BY <1>3
  <2>. HIDE DEF b
  <2>2. [with |-> b, delay |-> d] \in Lines /\ [with |-> b, delay |-> d].with = b
        /\ [with |-> b, delay |-> d].delay = d
    BY <1>4, <2>1 DEF Lines
  <2>. QED  BY <2>2 DEF b
<1>10. P \in [Depths -> Int] /\ Q \in [Depths -> Int]
  BY <1>4 DEF Points
<1>11. x \in Int /\ p \in Int
  <2>. HIDE DEF P, Q
  <2>. QED  BY <1>10, MiddleIsInt
<1>12. (\A i \in Depths : d[i].p = 0) => p = 0
  <2> SUFFICES ASSUME \A i \in Depths : d[i].p = 0
               PROVE  p = 0
    OBVIOUS
  <2>1. \A i \in Depths : Q[i] = 0
    OBVIOUS
  <2>. HIDE DEF Q
  <2>. QED  BY <1>10, <2>1, MiddleIsInt
<1> DEFINE mid == [s EXCEPT !.pos = x, !.pressure = p]
<1>13. Medians(c, s) = IF PenUpEnds(c, s) THEN [mid EXCEPT !.pressure = 0] ELSE mid
  <2>1. DOMAIN d = Depths
    BY <1>4
  <2>. QED  BY <2>1 DEF Medians, d
<1>. HIDE DEF P, Q, x, p
<1>14. mid = At(s, x, p)
  BY <1>11, PosThenPressure
<1>15. At(s, x, p) \in Samples(F) /\ At(s, x, p).slot = s.slot /\ At(s, x, p).pressure = p
       /\ At(s, x, p).pos = x /\ At(s, x, p).at = s.at
  BY <1>11, AtIsSample
<1>16. At(s, x, 0) \in Samples(F) /\ At(s, x, 0).slot = s.slot /\ At(s, x, 0).pressure = 0
  BY <1>11, AtIsSample
<1>17. [mid EXCEPT !.pressure = 0] = At(s, x, 0)
  <2> DEFINE e == At(s, x, p)
  <2>1. e \in Samples(F) /\ e.pos = x /\ e.slot = s.slot /\ e.at = s.at
    BY <1>15
  <2>. HIDE DEF e, mid
  <2>2. [e EXCEPT !.pressure = 0] = At(e, e.pos, 0)
    BY <2>1, 0 \in Int, PressureOnly, Zenon
  <2>3. At(e, e.pos, 0) = At(s, x, 0)
    BY <2>1 DEF At
  <2>4. mid = e
    BY <1>14 DEF e
  <2>. QED  BY <2>2, <2>3, <2>4
<1>18. Medians(c, s) = t
  BY <1>13, <1>14, <1>17, Zenon
<1>. HIDE DEF mid, up, on
<1>19. v = [mod |-> M, keep |-> TRUE, sample |-> t]
  <2>1. MedianJudge(m, s) = MedianTurn(m, s, Flushed(d))
    BY DEF MedianJudge, c, d
  <2>2. MedianJudgeMt(m, s) = MedianTurn(m, s, FlushedMt(d))
    BY DEF MedianJudgeMt, c, d
  <2>3. v = MedianTurn(m, s, f)
    BY <2>1, <2>2 DEF f
  <2>4. MedianTurn(m, s, f) = [mod |-> M, keep |-> TRUE, sample |-> Medians(c, s)]
    BY DEF MedianTurn, c, d, up, on
  <2>. QED  BY <1>18, <2>3, <2>4
<1>20. next \in Lines /\ t \in Samples(F) /\ t.slot = s.slot
  BY <1>8, <1>9, <1>15, <1>16
<1>21. ASSUME ~mt, Settled(c)
       PROVE  Settled(next) /\ (s.pressure = 0 => t.pressure = 0 \/ Junky(next))
  <2>1. CASE PenUpEnds(c, s)
    <3>1. next = up /\ t = At(s, x, 0)
      BY <2>1
    <3>. HIDE DEF next, t
    <3>. QED  BY <1>7, <1>8, <1>16, <1>21, <3>1 DEF Settled
  <2>2. CASE ~PenUpEnds(c, s)
    <3>1. next = on /\ t = At(s, x, p)
      BY <2>2
    <3>. HIDE DEF next, t
    <3>2. CASE c.with \/ s.pressure # 0
      <4>1. Settled(on)
        BY <1>9, <3>2 DEF Settled
      <4>2. s.pressure # 0
        BY <2>2, <3>2 DEF PenUpEnds
      <4>. QED  BY <3>1, <4>1, <4>2
    <3>3. CASE ~(c.with \/ s.pressure # 0)
      <4>1. \A i \in Depths : d[i].p = 0 \/ d[i].pos \in Junk
        BY <1>4, <1>21, <3>3 DEF Settled
      <4>2. Settled(on)
        BY <1>9, <4>1 DEF Settled
      <4>3. Junky(on) \/ \A i \in Depths : d[i].p = 0
        BY <1>9, <4>1 DEF Junky
      <4>. QED  BY <1>12, <1>15, <3>1, <4>2, <4>3
    <3>. QED  BY <3>2, <3>3
  <2>. QED  BY <2>1, <2>2
<1>. HIDE DEF next, t
<1>22. M \in [Slots -> Lines] /\ M[s.slot] = next /\ \A slot \in Slots : slot # s.slot => M[slot] = m[slot]
  BY <1>1, <1>20
<1>. HIDE DEF M
<1>23. v.mod = M /\ v.keep = TRUE /\ v.sample = t
  BY ONLY <1>19
<1>. QED  BY <1>20, <1>21, <1>22, <1>23 DEF MedianTurns, c

-----------------------------------------------------------------------------
(* variance and skip, which give none, one or two samples                  *)

\* A state of variance, field by field.
Var(l, n, lv, nv, sn) == [last |-> l, noise |-> n, lastvalid |-> lv, noisevalid |-> nv,
                          submitnoise |-> sn]
VarianceFields(F) ==
  [last : Samples(F) \cup Unset, noise : Samples(F) \cup Unset, lastvalid : BOOLEAN,
   noisevalid : BOOLEAN, submitnoise : BOOLEAN]
VarianceOK(m, F) ==
  /\ m \in VarianceFields(F)
  /\ m.lastvalid => m.last \in Samples(F)
  /\ m.noisevalid => m.noise \in Samples(F)

\* A state is made of its fields.
LEMMA VarIs ==
  ASSUME NEW F, NEW l \in Samples(F) \cup Unset, NEW n \in Samples(F) \cup Unset,
         NEW lv \in BOOLEAN, NEW nv \in BOOLEAN, NEW sn \in BOOLEAN,
         lv => l \in Samples(F), nv => n \in Samples(F)
  PROVE  /\ VarianceOK(Var(l, n, lv, nv, sn), F)
         /\ Var(l, n, lv, nv, sn).last = l /\ Var(l, n, lv, nv, sn).noise = n
         /\ Var(l, n, lv, nv, sn).lastvalid = lv /\ Var(l, n, lv, nv, sn).noisevalid = nv
         /\ Var(l, n, lv, nv, sn).submitnoise = sn
BY DEF Var, VarianceOK, VarianceFields

\* One field of it is set.
LEMMA VarSet ==
  /\ \A a, b, c, d, e, x : [Var(a, b, c, d, e) EXCEPT !.last = x] = Var(x, b, c, d, e)
  /\ \A a, b, c, d, e, x : [Var(a, b, c, d, e) EXCEPT !.noise = x] = Var(a, x, c, d, e)
  /\ \A a, b, c, d, e, x : [Var(a, b, c, d, e) EXCEPT !.lastvalid = x] = Var(a, b, x, d, e)
  /\ \A a, b, c, d, e, x : [Var(a, b, c, d, e) EXCEPT !.noisevalid = x] = Var(a, b, c, x, e)
  /\ \A a, b, c, d, e, x : [Var(a, b, c, d, e) EXCEPT !.submitnoise = x] = Var(a, b, c, d, x)
BY DEF Var

\* Noise has been taken.
LEMMA VarCleared ==
  ASSUME NEW l, NEW n, NEW lv, NEW nv, NEW sn,
         NEW no
  PROVE  [Var(l, n, lv, nv, sn) EXCEPT !.submitnoise = no] =
           Var(l, n, lv, nv, no)
<1>1. [Var(l, n, lv, nv, sn) EXCEPT !.submitnoise = no] = Var(l, n, lv, nv, no)
  BY VarSet
<1>. QED  BY <1>1

\* What a turn of variance's loop may do with the sample s.
VarTurns(F, m, s, v) ==
  /\ v = [mod |-> v.mod, out |-> v.out]
  /\ VarianceOK(v.mod, F) /\ v.out \in Seq(Samples(F))
  /\ v.mod.submitnoise =>
       m.noisevalid /\ ~v.mod.noisevalid /\ v.mod.noise = s
  /\ s.pressure = 0 => v.out = <<s>> /\ ~v.mod.submitnoise

\* A turn submits noise only after two samples that are far, and gives a release at once.
LEMMA VarTurnIs ==
  ASSUME NEW F, NEW m, VarianceOK(m, F), ~m.submitnoise, NEW s \in Samples(F),
         NEW v, v = Turn(m, s)
  PROVE  VarTurns(F, m, s, v)
<1> DEFINE l == m.last
           n == m.noise
           lv == m.lastvalid
           nv == m.noisevalid
           sn == m.submitnoise
           yes == TRUE
           no == FALSE
           S == Samples(F)
           R == Samples(F) \cup Unset
<1>1. /\ m = Var(l, n, lv, nv, sn) /\ l \in R /\ n \in R
      /\ lv \in BOOLEAN /\ nv \in BOOLEAN /\ sn \in BOOLEAN
      /\ (lv => l \in S) /\ (nv => n \in S) /\ sn = no
  BY DEF Var, VarianceOK, VarianceFields
<1>0. m = Var(l, n, lv, nv, sn)
  BY DEF VarianceOK, VarianceFields, Var
<1>2. s \in S /\ s \in R /\ yes \in BOOLEAN /\ no \in BOOLEAN /\ yes /\ ~no
  OBVIOUS
<1>3. /\ \A x \in S : <<x>> \in Seq(S)
      /\ <<>> \in Seq(S)
  OBVIOUS
<1>4. \/ s.pressure = 0 /\ v = PenUp(m, s)
      \/ s.pressure # 0 /\ ~lv /\ v = FirstOfTouch(m, s)
      \/ s.pressure # 0 /\ lv /\ v = Near(m, s)
      \/ s.pressure # 0 /\ lv /\ nv /\ v = Quick(m, s)
      \/ s.pressure # 0 /\ lv /\ ~nv /\ v = Suspect(m, s)
  BY Zenon DEF Turn
<1>5. /\ PenUp(m, s) = [mod |-> Var(s, n, no, no, no), out |-> <<s>>]
      /\ FirstOfTouch(m, s) = [mod |-> Var(s, n, yes, nv, sn), out |-> <<s>>]
      /\ Near(m, s) = [mod |-> Var(s, n, lv, no, sn), out |-> <<l>>]
      /\ Quick(m, s) = [mod |-> Var(n, s, lv, no, yes), out |-> <<n>>]
      /\ Suspect(m, s) = [mod |-> Var(l, s, lv, yes, sn), out |-> <<>>]
  <2>1. [m EXCEPT !.last = s, !.lastvalid = no, !.noisevalid = no, !.submitnoise = no] =
          Var(s, n, no, no, no)
    <3> DEFINE a == [m EXCEPT !.last = s]
               b == [a EXCEPT !.lastvalid = no]
               c == [b EXCEPT !.noisevalid = no]
    <3>. HIDE DEF l, n, lv, nv, sn, yes, no
    <3>1. a = Var(s, n, lv, nv, sn)
      BY ONLY <1>0, VarSet DEF a
    <3>. HIDE DEF a
    <3>2. b = Var(s, n, no, nv, sn)
      BY ONLY <3>1, VarSet DEF b
    <3>. HIDE DEF b
    <3>3. c = Var(s, n, no, no, sn)
      BY ONLY <3>2, VarSet DEF c
    <3>. HIDE DEF c
    <3>4. [c EXCEPT !.submitnoise = no] = Var(s, n, no, no, no)
      BY ONLY <3>3, VarSet
    <3>. QED  BY ONLY <3>4 DEF a, b, c
  <2>2. [m EXCEPT !.last = s, !.lastvalid = yes] = Var(s, n, yes, nv, sn)
    <3> DEFINE a == [m EXCEPT !.last = s]
    <3>. HIDE DEF l, n, lv, nv, sn, yes, no
    <3>1. a = Var(s, n, lv, nv, sn)
      BY ONLY <1>0, VarSet DEF a
    <3>. HIDE DEF a
    <3>2. [a EXCEPT !.lastvalid = yes] = Var(s, n, yes, nv, sn)
      BY ONLY <3>1, VarSet
    <3>. QED  BY ONLY <3>2 DEF a
  <2>3. [m EXCEPT !.last = n, !.noisevalid = no, !.submitnoise = yes, !.noise = s] =
          Var(n, s, lv, no, yes)
    <3> DEFINE a == [m EXCEPT !.last = n]
               b == [a EXCEPT !.noisevalid = no]
               c == [b EXCEPT !.submitnoise = yes]
    <3>. HIDE DEF l, n, lv, nv, sn, yes, no
    <3>1. a = Var(n, n, lv, nv, sn)
      BY ONLY <1>0, VarSet DEF a
    <3>. HIDE DEF a
    <3>2. b = Var(n, n, lv, no, sn)
      BY ONLY <3>1, VarSet DEF b
    <3>. HIDE DEF b
    <3>3. c = Var(n, n, lv, no, yes)
      BY ONLY <3>2, VarSet DEF c
    <3>. HIDE DEF c
    <3>4. [c EXCEPT !.noise = s] = Var(n, s, lv, no, yes)
      BY ONLY <3>3, VarSet
    <3>. QED  BY ONLY <3>4 DEF a, b, c
  <2>4. [m EXCEPT !.noisevalid = yes, !.noise = s] = Var(l, s, lv, yes, sn)
    <3> DEFINE a == [m EXCEPT !.noisevalid = yes]
    <3>. HIDE DEF l, n, lv, nv, sn, yes, no
    <3>1. a = Var(l, n, lv, yes, sn)
      BY ONLY <1>0, VarSet DEF a
    <3>. HIDE DEF a
    <3>2. [a EXCEPT !.noise = s] = Var(l, s, lv, yes, sn)
      BY ONLY <3>1, VarSet
    <3>. QED  BY ONLY <3>2 DEF a
  <2>5. [m EXCEPT !.noisevalid = no, !.last = s] = Var(s, n, lv, no, sn)
    <3> DEFINE a == [m EXCEPT !.noisevalid = no]
    <3>. HIDE DEF l, n, lv, nv, sn, yes, no
    <3>1. a = Var(l, n, lv, no, sn)
      BY ONLY <1>0, VarSet DEF a
    <3>. HIDE DEF a
    <3>2. [a EXCEPT !.last = s] = Var(s, n, lv, no, sn)
      BY ONLY <3>1, VarSet
    <3>. QED  BY ONLY <3>2 DEF a
  <2>. QED  BY <2>1, <2>2, <2>3, <2>4, <2>5, Zenon DEF PenUp, FirstOfTouch, Near, Quick, Suspect
<1>6. ~(s.pressure = 0) => s.pressure # 0
  OBVIOUS
<1>. HIDE DEF l, n, lv, nv, sn, yes, no, S, R
<1>7. \A a, b, c, d, e, o :
        v = [mod |-> Var(a, b, c, d, e), out |-> o]
          => v = [mod |-> v.mod, out |-> v.out] /\ v.mod = Var(a, b, c, d, e) /\ v.out = o
  OBVIOUS
<1>8. \A a \in R, b \in R, c \in BOOLEAN, d \in BOOLEAN, e \in BOOLEAN :
        (c => a \in S) /\ (d => b \in S) =>
          /\ VarianceOK(Var(a, b, c, d, e), F)
          /\ Var(a, b, c, d, e).noise = b
          /\ Var(a, b, c, d, e).noisevalid = d
          /\ Var(a, b, c, d, e).submitnoise = e
  BY VarIs DEF R, S
<1>9. \A x \in S : x \in R
  BY DEF R, S
<1>10. CASE s.pressure = 0 /\ v = PenUp(m, s)
  <2>1. /\ v = [mod |-> v.mod, out |-> v.out] /\ v.mod = Var(s, n, no, no, no)
        /\ v.out = <<s>>
    BY ONLY <1>5, <1>7, <1>10
  <2>2. VarianceOK(v.mod, F) /\ v.mod.submitnoise = no
    BY ONLY <1>1, <1>2, <1>8, <2>1
  <2>3. v.out \in Seq(S) /\ ~v.mod.submitnoise
    BY ONLY <1>2, <1>3, <2>1, <2>2
  <2>. QED  BY <1>10, <2>1, <2>2, <2>3, Zenon DEF VarTurns, S
<1>11. CASE s.pressure # 0 /\ ~lv /\ v = FirstOfTouch(m, s)
  <2>1. /\ v = [mod |-> v.mod, out |-> v.out] /\ v.mod = Var(s, n, yes, nv, sn)
        /\ v.out = <<s>>
    BY ONLY <1>5, <1>7, <1>11
  <2>2. VarianceOK(v.mod, F) /\ v.mod.submitnoise = sn
    <3>1. /\ s \in R /\ n \in R /\ yes \in BOOLEAN /\ nv \in BOOLEAN /\ sn \in BOOLEAN
          /\ (yes => s \in S) /\ (nv => n \in S)
      BY ONLY <1>1, <1>2, <1>9
    <3>2. VarianceOK(Var(s, n, yes, nv, sn), F) /\ Var(s, n, yes, nv, sn).submitnoise = sn
      BY ONLY <1>8, <3>1
    <3>. QED  BY ONLY <2>1, <3>2
  <2>3. v.out \in Seq(S) /\ ~v.mod.submitnoise
    BY <1>1, <1>2, <1>3, <2>1, <2>2, Zenon
  <2>. QED  BY <1>11, <2>1, <2>2, <2>3, Zenon DEF VarTurns, S
<1>12. CASE s.pressure # 0 /\ lv /\ v = Near(m, s)
  <2>1. /\ v = [mod |-> v.mod, out |-> v.out] /\ v.mod = Var(s, n, lv, no, sn)
        /\ v.out = <<l>>
    BY ONLY <1>5, <1>7, <1>12
  <2>2. VarianceOK(v.mod, F) /\ v.mod.submitnoise = sn
    <3>1. /\ s \in R /\ n \in R /\ lv \in BOOLEAN /\ no \in BOOLEAN /\ sn \in BOOLEAN
          /\ (lv => s \in S) /\ (no => n \in S)
      BY ONLY <1>1, <1>2, <1>9, <1>12
    <3>2. VarianceOK(Var(s, n, lv, no, sn), F) /\ Var(s, n, lv, no, sn).submitnoise = sn
      BY ONLY <1>8, <3>1
    <3>. QED  BY ONLY <2>1, <3>2
  <2>3. v.out \in Seq(S) /\ ~v.mod.submitnoise
    BY ONLY <1>1, <1>2, <1>3, <1>12, <2>1, <2>2
  <2>. QED  BY <1>12, <2>1, <2>2, <2>3, Zenon DEF VarTurns, S
<1>13. CASE s.pressure # 0 /\ lv /\ nv /\ v = Quick(m, s)
  <2>1. /\ v = [mod |-> v.mod, out |-> v.out] /\ v.mod = Var(n, s, lv, no, yes)
        /\ v.out = <<n>>
    BY ONLY <1>5, <1>7, <1>13
  <2>2. VarianceOK(v.mod, F) /\ v.mod.noise = s /\ v.mod.noisevalid = no
    <3>1. /\ n \in R /\ s \in R /\ lv \in BOOLEAN /\ no \in BOOLEAN /\ yes \in BOOLEAN
          /\ (lv => n \in S) /\ (no => s \in S)
      BY ONLY <1>1, <1>2, <1>13
    <3>2. VarianceOK(Var(n, s, lv, no, yes), F) /\ Var(n, s, lv, no, yes).noise = s
          /\ Var(n, s, lv, no, yes).noisevalid = no
      BY ONLY <1>8, <3>1
    <3>. QED  BY ONLY <2>1, <3>2
  <2>3. v.out \in Seq(S) /\ ~v.mod.noisevalid
    BY ONLY <1>1, <1>2, <1>3, <1>13, <2>1, <2>2
  <2>4. m.noisevalid
    BY <1>13 DEF nv
  <2>. QED  BY <1>13, <2>1, <2>2, <2>3, <2>4, Zenon DEF VarTurns, S
<1>14. CASE s.pressure # 0 /\ lv /\ ~nv /\ v = Suspect(m, s)
  <2>1. /\ v = [mod |-> v.mod, out |-> v.out] /\ v.mod = Var(l, s, lv, yes, sn)
        /\ v.out = <<>>
    BY ONLY <1>5, <1>7, <1>14
  <2>2. VarianceOK(v.mod, F) /\ v.mod.submitnoise = sn
    <3>1. /\ l \in R /\ s \in R /\ lv \in BOOLEAN /\ yes \in BOOLEAN /\ sn \in BOOLEAN
          /\ (lv => l \in S) /\ (yes => s \in S)
      BY ONLY <1>1, <1>2, <1>9
    <3>2. VarianceOK(Var(l, s, lv, yes, sn), F) /\ Var(l, s, lv, yes, sn).submitnoise = sn
      BY ONLY <1>8, <3>1
    <3>. QED  BY ONLY <2>1, <3>2
  <2>3. v.out \in Seq(S) /\ ~v.mod.submitnoise
    BY <1>1, <1>2, <1>3, <2>1, <2>2, Zenon
  <2>. QED  BY <1>14, <2>1, <2>2, <2>3, Zenon DEF VarTurns, S
<1>. QED  BY <1>4, <1>10, <1>11, <1>12, <1>13, <1>14

\* With a sample, variance keeps its state, and it gives a release at once.
LEMMA VarianceTakeIs ==
  ASSUME NEW F, NEW m \in VarianceStates(F), NEW s \in Samples(F),
         NEW t, t = VarianceTake(m, s)
  PROVE  /\ t \in Turns(VarianceStates(F), Samples(F))
         /\ s.pressure = 0 => t.out = <<s>>
<1> DEFINE v == Turn(m, s)
           m2 == [v.mod EXCEPT !.submitnoise = FALSE]
           w == Turn(m2, v.mod.noise)
           S == Samples(F)
<1>0. \A x : x \in VarianceStates(F) <=> VarianceOK(x, F) /\ x.submitnoise = FALSE
  BY DEF VarianceStates, VarianceOK, VarianceFields
<1>1. VarianceOK(m, F) /\ m.submitnoise = FALSE
  BY <1>0
<1>2. VarTurns(F, m, s, v)
  <2>. HIDE DEF v
  <2>1. v = Turn(m, s)
    BY DEF v
  <2>. QED  BY <1>1, <2>1, VarTurnIs
<1>3. t = IF v.mod.submitnoise THEN [mod |-> w.mod, out |-> v.out \o w.out] ELSE v
  BY DEF VarianceTake
<1>. HIDE DEF v
<1>4. \A x : VarianceOK(x, F) => x.submitnoise \in BOOLEAN
  BY DEF VarianceOK, VarianceFields
<1>5. CASE v.mod.submitnoise
  <2>1. /\ VarianceOK(v.mod, F) /\ v.out \in Seq(S) /\ ~v.mod.noisevalid /\ v.mod.noise = s
        /\ s.pressure # 0
    BY <1>2, <1>5, Zenon DEF VarTurns, S
  <2> DEFINE l == v.mod.last
             n == v.mod.noise
             lv == v.mod.lastvalid
             nv == v.mod.noisevalid
             sn == v.mod.submitnoise
             no == FALSE
             R == Samples(F) \cup Unset
  <2>2. /\ v.mod = Var(l, n, lv, nv, sn) /\ l \in R /\ n \in R
        /\ lv \in BOOLEAN /\ nv \in BOOLEAN
        /\ (lv => l \in S) /\ (nv => n \in S)
    BY <2>1 DEF Var, VarianceOK, VarianceFields
  <2>3. m2 = Var(l, n, lv, nv, no)
    <3>. HIDE DEF l, n, lv, nv, sn, no
    <3>1. [v.mod EXCEPT !.submitnoise = no] = Var(l, n, lv, nv, no)
      BY <2>2, VarCleared
    <3>. QED  BY <3>1, Zenon DEF no
  <2>4. no \in BOOLEAN
    OBVIOUS
  <2>. HIDE DEF m2
  <2>5. VarianceOK(m2, F) /\ m2.noisevalid = nv /\ m2.submitnoise = no
    <3>. HIDE DEF l, n, lv, nv, sn, no
    <3>. QED  BY ONLY <2>2, <2>3, <2>4, VarIs DEF R, S
  <2>6. ~m2.noisevalid /\ ~m2.submitnoise
    BY <2>1, <2>5
  <2>7. VarTurns(F, m2, s, w)
    <3>1. w = Turn(m2, s)
      BY <2>1
    <3>. HIDE DEF w
    <3>. QED  BY <2>5, <2>6, <3>1, VarTurnIs
  <2>. HIDE DEF w, l, n, lv, nv, sn, no, S
  <2>8. VarianceOK(w.mod, F) /\ w.out \in Seq(S) /\ ~w.mod.submitnoise
    BY <2>6, <2>7, Zenon DEF VarTurns, S
  <2>9. w.mod \in VarianceStates(F)
    <3>1. w.mod.submitnoise = FALSE
      BY <1>4, <2>8
    <3>. QED  BY <1>0, <2>8, <3>1
  <2>10. v.out \o w.out \in Seq(S)
    BY ONLY <2>1, <2>8, ConcatProperties
  <2>11. t = [mod |-> w.mod, out |-> v.out \o w.out]
    BY <1>3, <1>5
  <2>12. t \in Turns(VarianceStates(F), S)
    BY ONLY <2>9, <2>10, <2>11 DEF Turns
  <2>. QED  BY <2>1, <2>12 DEF S
<1>6. CASE ~v.mod.submitnoise
  <2>1. /\ v = [mod |-> v.mod, out |-> v.out] /\ VarianceOK(v.mod, F) /\ v.out \in Seq(S)
        /\ s.pressure = 0 => v.out = <<s>>
    BY <1>2, Zenon DEF VarTurns, S
  <2>2. v.mod \in VarianceStates(F)
    <3>1. v.mod.submitnoise = FALSE
      BY <1>4, <1>6, <2>1
    <3>. QED  BY <1>0, <2>1, <3>1
  <2>3. t = v
    BY <1>3, <1>6
  <2>4. t \in Turns(VarianceStates(F), S)
    BY ONLY <2>1, <2>2, <2>3 DEF Turns
  <2>. QED  BY <2>1, <2>3, <2>4 DEF S
<1>. QED  BY <1>5, <1>6

\* A state of skip, field by field.
Sk(c, n, k, y, b) ==
  [nhead |-> c.nhead, ntail |-> c.ntail, N |-> n, M |-> k, sent |-> y, buf |-> b]

\* One field of it is set,
LEMMA SkSet ==
  /\ \A c, n, k, y, b, x : [Sk(c, n, k, y, b) EXCEPT !.N = x] = Sk(c, x, k, y, b)
  /\ \A c, n, k, y, b, x : [Sk(c, n, k, y, b) EXCEPT !.M = x] = Sk(c, n, x, y, b)
  /\ \A c, n, k, y, b, x : [Sk(c, n, k, y, b) EXCEPT !.sent = x] = Sk(c, n, k, x, b)
BY DEF Sk

\* or a place of its ring.
LEMMA SkPut ==
  \A c, n, k, y, b, i, x :
    [Sk(c, n, k, y, b) EXCEPT !.buf[i] = x] = Sk(c, n, k, y, [b EXCEPT ![i] = x])
BY DEF Sk

\* It is reset.
LEMMA SkReset ==
  \A c, n, k, y, b : reset_skip(Sk(c, n, k, y, b)) = Sk(c, 0, 0, FALSE, b)
<1> TAKE c, n, k, y, b
<1> DEFINE m == Sk(c, n, k, y, b)
           p == [m EXCEPT !.N = 0]
           q == [p EXCEPT !.M = 0]
           no == FALSE
           o == 0
<1>. HIDE DEF no, o
<1>1. p = Sk(c, o, k, y, b)
  BY ONLY SkSet DEF o, p
<1>. HIDE DEF p
<1>2. q = Sk(c, o, o, y, b)
  BY <1>1, SkSet DEF o
<1>. HIDE DEF q
<1>3. [q EXCEPT !.sent = no] = Sk(c, o, o, no, b)
  BY <1>2, SkSet
<1>. QED  BY ONLY <1>3, Zenon DEF p, q, no, o, m, reset_skip

Cells(c, F) == [0 .. c.ntail - 1 -> Samples(F) \cup Unset]
Filled(c, F, k, y, b) == \A i \in 0 .. c.ntail - 1 : i < k \/ y => b[i] \in Samples(F)

\* The states of skip are those records,
LEMMA SkFields ==
  ASSUME NEW c, c.nhead \in Nat, c.ntail \in Nat, NEW F, NEW m \in SkipStates(c, F)
  PROVE  /\ m = Sk(c, m.N, m.M, m.sent, m.buf)
         /\ m.nhead = c.nhead /\ m.ntail = c.ntail
         /\ m.N \in 0 .. c.nhead /\ m.M \in 0 .. c.ntail /\ m.sent \in BOOLEAN
         /\ m.buf \in Cells(c, F) /\ Filled(c, F, m.M, m.sent, m.buf)
BY DEF SkipStates, Sk, Cells, Filled

\* and each of those is a state.
LEMMA SkIsState ==
  ASSUME NEW c, c.nhead \in Nat, c.ntail \in Nat, NEW F, NEW n \in 0 .. c.nhead,
         NEW k \in 0 .. c.ntail, NEW y \in BOOLEAN, NEW b \in Cells(c, F), Filled(c, F, k, y, b)
  PROVE  /\ Sk(c, n, k, y, b) \in SkipStates(c, F)
         /\ Sk(c, n, k, y, b).N = n /\ Sk(c, n, k, y, b).sent = y
BY DEF SkipStates, Sk, Cells, Filled

\* The ways that skip may go with the sample s, from the state with n, k, y and b.
SkipWays(c, n, k, y, b, s, t) ==
  \/ /\ n < c.nhead /\ s.pressure = 0
     /\ t = [mod |-> Sk(c, 0, 0, FALSE, b), out |-> <<>>]
  \/ /\ n < c.nhead /\ s.pressure # 0
     /\ t = [mod |-> Sk(c, n + 1, k, y, b), out |-> <<>>]
  \/ /\ n >= c.nhead /\ s.pressure = 0 /\ ~y
     /\ t = [mod |-> Sk(c, 0, 0, FALSE, b), out |-> <<>>]
  \/ /\ n >= c.nhead /\ s.pressure = 0 /\ y /\ c.ntail = 0
     /\ t = [mod |-> Sk(c, 0, 0, FALSE, b), out |-> <<s>>]
  \/ /\ n >= c.nhead /\ s.pressure # 0 /\ c.ntail = 0
     /\ t = [mod |-> Sk(c, n, k, TRUE, b), out |-> <<s>>]
  \/ /\ n >= c.nhead /\ s.pressure # 0 /\ ~y /\ k < c.ntail
     /\ t = [mod |-> Sk(c, n, k + 1, y, [b EXCEPT ![k] = s]), out |-> <<>>]
  \/ /\ n >= c.nhead /\ s.pressure = 0 /\ y /\ c.ntail # 0
     /\ LET i  == IF k >= c.ntail THEN 0 ELSE k
            up == At(b[i], b[i].pos, 0)
        IN t = [mod |-> Sk(c, 0, 0, FALSE, [b EXCEPT ![i] = up]), out |-> <<up>>]
  \/ /\ n >= c.nhead /\ s.pressure # 0 /\ c.ntail # 0 /\ (y \/ k >= c.ntail)
     /\ LET i  == IF k >= c.ntail THEN 0 ELSE k
        IN t = [mod |-> Sk(c, n, i + 1, TRUE, [b EXCEPT ![i] = s]), out |-> <<b[i]>>]

\* The place that is exchanged holds a sample.
LEMMA OldestHolds ==
  ASSUME NEW c, c.ntail \in Nat \ {0}, NEW F, NEW k \in 0 .. c.ntail, NEW y \in BOOLEAN,
         NEW b \in Cells(c, F), Filled(c, F, k, y, b), y \/ k >= c.ntail,
         NEW i, i = IF k >= c.ntail THEN 0 ELSE k
  PROVE  i \in 0 .. c.ntail - 1 /\ b[i] \in Samples(F)
<1>1. i \in 0 .. c.ntail - 1 /\ (i < k \/ y)
  OBVIOUS
<1>. QED  BY <1>1 DEF Filled

\* skip goes one of those ways.
LEMMA SkipGoes ==
  ASSUME NEW c, c.nhead \in Nat, c.ntail \in Nat, NEW F, NEW m \in SkipStates(c, F),
         NEW s \in Samples(F), NEW t, t = SkipTake(m, s)
  PROVE  SkipWays(c, m.N, m.M, m.sent, m.buf, s, t)
<1> DEFINE n == m.N
           k == m.M
           y == m.sent
           b == m.buf
           i == IF k >= c.ntail THEN 0 ELSE k
           up == At(b[i], b[i].pos, 0)
           yes == TRUE
           no == FALSE
           o == 0
           n1 == n + 1
           k1 == k + 1
           i1 == i + 1
<1>1. /\ m.nhead = c.nhead /\ m.ntail = c.ntail
      /\ n \in 0 .. c.nhead /\ k \in 0 .. c.ntail /\ y \in BOOLEAN
      /\ b \in Cells(c, F) /\ Filled(c, F, k, y, b)
  BY SkFields
<1>2. m = Sk(c, n, k, y, b)
  BY SkFields
<1>3. Oldest(m) = i
  BY <1>1 DEF Oldest
<1>4. reset_skip(m) = Sk(c, 0, 0, FALSE, b)
  <2>. HIDE DEF n, k, y, b
  <2>. QED  BY ONLY <1>2, SkReset
<1>5. [m EXCEPT !.N = @ + 1] = Sk(c, n1, k, y, b)
  <2>1. m.N = n
    OBVIOUS
  <2>. HIDE DEF n, k, y, b, n1
  <2>2. [m EXCEPT !.N = n1] = Sk(c, n1, k, y, b)
    BY ONLY <1>2, SkSet
  <2>. QED  BY ONLY <2>1, <2>2 DEF n1
<1>6. [m EXCEPT !.sent = TRUE] = Sk(c, n, k, TRUE, b)
  <2>. HIDE DEF n, k, y, b, yes
  <2>1. [m EXCEPT !.sent = yes] = Sk(c, n, k, yes, b)
    BY ONLY <1>2, SkSet
  <2>. QED  BY ONLY <2>1, Zenon DEF yes
<1>7. [m EXCEPT !.buf[m.M] = s, !.M = @ + 1] = Sk(c, n, k1, y, [b EXCEPT ![k] = s])
  <2> DEFINE p == [m EXCEPT !.buf[m.M] = s]
             b1 == [b EXCEPT ![k] = s]
  <2>1. m.M = k
    OBVIOUS
  <2>. HIDE DEF n, k, y, b, k1
  <2>2. p = Sk(c, n, k, y, b1)
    <3>1. [Sk(c, n, k, y, b) EXCEPT !.buf[k] = s] = Sk(c, n, k, y, b1)
      BY ONLY TRUE DEF Sk, b1
    <3>. QED  BY ONLY <1>2, <2>1, <3>1 DEF p
  <2>. HIDE DEF p, b1
  <2>3. [p EXCEPT !.M = k1] = Sk(c, n, k1, y, b1) /\ p.M = k
    BY ONLY <2>2, SkSet DEF Sk
  <2>4. [p EXCEPT !.M = @ + 1] = Sk(c, n, k1, y, b1)
    BY ONLY <2>3 DEF k1
  <2>. QED  BY ONLY <2>4 DEF p, b1
<1>8. ASSUME c.ntail # 0, y \/ k >= c.ntail
      PROVE  /\ [m.buf[i] EXCEPT !.pressure = 0] = up
             /\ reset_skip([m EXCEPT !.buf[i] = up]) = Sk(c, 0, 0, FALSE, [b EXCEPT ![i] = up])
  <2>1. b[i] \in Samples(F)
    <3>1. c.ntail \in Nat \ {0}
      BY <1>8
    <3>. HIDE DEF i
    <3>. QED  BY <1>1, <1>8, <3>1, OldestHolds DEF i
  <2>2. [b[i] EXCEPT !.pressure = 0] = up
    <3>. HIDE DEF b, i
    <3>. QED  BY <2>1, 0 \in Int, PressureOnly, Zenon DEF up
  <2> DEFINE p == [m EXCEPT !.buf[i] = up]
             b1 == [b EXCEPT ![i] = up]
  <2>. HIDE DEF n, k, y, i, up
  <2>3. p = Sk(c, n, k, y, b1)
    <3>. HIDE DEF b
    <3>1. [Sk(c, n, k, y, b) EXCEPT !.buf[i] = up] = Sk(c, n, k, y, b1)
      BY ONLY TRUE DEF Sk, b1
    <3>. QED  BY ONLY <1>2, <3>1
  <2>. HIDE DEF p
  <2>4. reset_skip(p) = Sk(c, 0, 0, FALSE, b1)
    <3>. HIDE DEF b1, b
    <3>. QED  BY ONLY <2>3, SkReset
  <2>. QED  BY <2>2, <2>4 DEF p
<1>9. [m EXCEPT !.buf[i] = s, !.M = i + 1, !.sent = TRUE] = Sk(c, n, i1, TRUE, [b EXCEPT ![i] = s])
  <2> DEFINE p == [m EXCEPT !.buf[i] = s]
             q == [p EXCEPT !.M = i1]
             b1 == [b EXCEPT ![i] = s]
  <2>. HIDE DEF n, k, y, b, i, i1, yes
  <2>1. p = Sk(c, n, k, y, b1)
    <3>1. [Sk(c, n, k, y, b) EXCEPT !.buf[i] = s] = Sk(c, n, k, y, b1)
      BY ONLY TRUE DEF Sk, b1
    <3>. QED  BY ONLY <1>2, <3>1 DEF p
  <2>. HIDE DEF p, b1
  <2>2. q = Sk(c, n, i1, y, b1)
    BY ONLY <2>1, SkSet
  <2>. HIDE DEF q
  <2>3. [q EXCEPT !.sent = yes] = Sk(c, n, i1, yes, b1)
    BY ONLY <2>2, SkSet
  <2>. QED  BY ONLY <2>3, Zenon DEF p, q, b1, i1, yes
<1>. HIDE DEF n, k, y, b, i, up
<1>10. \/ n < c.nhead /\ t = SkipHead(m, s)
       \/ n >= c.nhead /\ s.pressure = 0 /\ ~y /\ t = IgnoreUp(m, s)
       \/ n >= c.nhead /\ (s.pressure # 0 \/ y) /\ c.ntail = 0 /\ t = Accept(m, s)
       \/ /\ n >= c.nhead /\ s.pressure # 0 /\ c.ntail # 0 /\ ~y /\ k < c.ntail
          /\ t = Queue(m, s)
       \/ /\ n >= c.nhead /\ (s.pressure # 0 \/ y) /\ c.ntail # 0 /\ (y \/ k >= c.ntail)
          /\ t = Exchange(m, s)
  <2>1. /\ n < c.nhead => t = SkipHead(m, s)
        /\ ~(n < c.nhead) /\ s.pressure = 0 /\ ~y => t = IgnoreUp(m, s)
        /\ ~(n < c.nhead) /\ ~(s.pressure = 0 /\ ~y) /\ c.ntail = 0 => t = Accept(m, s)
        /\ ~(n < c.nhead) /\ ~(s.pressure = 0 /\ ~y) /\ ~(c.ntail = 0) /\ ~y /\ k < c.ntail =>
             t = Queue(m, s)
        /\ ~(n < c.nhead) /\ ~(s.pressure = 0 /\ ~y) /\ ~(c.ntail = 0) /\ ~(~y /\ k < c.ntail) =>
             t = Exchange(m, s)
    BY <1>1, Zenon DEF SkipTake, n, y, k
  <2>2. /\ n < c.nhead \/ n >= c.nhead
        /\ ~(n < c.nhead) => n >= c.nhead
        /\ k < c.ntail \/ k >= c.ntail
        /\ ~(k < c.ntail) => k >= c.ntail
    BY <1>1
  <2>. QED  BY ONLY <2>1, <2>2, Zenon
<1>11. CASE n < c.nhead /\ t = SkipHead(m, s)
  <2>1. t = [mod |-> IF s.pressure = 0 THEN Sk(c, 0, 0, FALSE, b) ELSE Sk(c, n + 1, k, y, b),
             out |-> <<>>]
    BY ONLY <1>4, <1>5, <1>11 DEF SkipHead, n1
  <2>. QED  BY ONLY <1>11, <2>1 DEF SkipWays, n, k, y, b
<1>12. CASE n >= c.nhead /\ s.pressure = 0 /\ ~y /\ t = IgnoreUp(m, s)
  <2>1. t = [mod |-> Sk(c, 0, 0, FALSE, b), out |-> <<>>]
    BY ONLY <1>4, <1>12 DEF IgnoreUp
  <2>. QED  BY ONLY <1>12, <2>1 DEF SkipWays, n, k, y, b
<1>13. CASE n >= c.nhead /\ (s.pressure # 0 \/ y) /\ c.ntail = 0 /\ t = Accept(m, s)
  <2>1. t = [mod |-> IF s.pressure = 0 THEN Sk(c, 0, 0, FALSE, b) ELSE Sk(c, n, k, TRUE, b),
             out |-> <<s>>]
    BY ONLY <1>4, <1>6, <1>13 DEF Accept
  <2>. QED  BY ONLY <1>13, <2>1 DEF SkipWays, n, k, y, b
<1>14. CASE /\ n >= c.nhead /\ s.pressure # 0 /\ c.ntail # 0 /\ ~y /\ k < c.ntail
            /\ t = Queue(m, s)
  <2>1. t = [mod |-> Sk(c, n, k + 1, y, [b EXCEPT ![k] = s]), out |-> <<>>]
    BY ONLY <1>7, <1>14, Zenon DEF Queue, k1
  <2>. QED  BY ONLY <1>14, <2>1 DEF SkipWays, n, k, y, b
<1>15. CASE /\ n >= c.nhead /\ (s.pressure # 0 \/ y) /\ c.ntail # 0 /\ (y \/ k >= c.ntail)
            /\ t = Exchange(m, s)
  <2>1. m.buf[i] = b[i]
    BY DEF b
  <2>2. s.pressure = 0 => t = [mod |-> Sk(c, 0, 0, FALSE, [b EXCEPT ![i] = up]), out |-> <<up>>]
    <3>1. [m.buf[i] EXCEPT !.pressure = 0] = up
      BY <1>8, <1>15
    <3>2. reset_skip([m EXCEPT !.buf[i] = up]) = Sk(c, 0, 0, FALSE, [b EXCEPT ![i] = up])
      BY <1>8, <1>15
    <3>. QED  BY ONLY <1>3, <1>15, <3>1, <3>2, Zenon DEF Exchange
  <2>3. s.pressure # 0 => t = [mod |-> Sk(c, n, i + 1, TRUE, [b EXCEPT ![i] = s]), out |-> <<b[i]>>]
    BY ONLY <1>3, <1>9, <1>15, <2>1, Zenon DEF Exchange, i1
  <2>4. s.pressure = 0 \/ s.pressure # 0
    OBVIOUS
  <2>. QED  BY ONLY <1>15, <2>2, <2>3, <2>4, Zenon DEF SkipWays, n, k, y, b, i, up
<1>. QED  BY <1>10, <1>11, <1>12, <1>13, <1>14, <1>15

\* What matters of a turn of skip to whoever wants to know whether the pen is down.
SkipTurns(c, F, m, s, t) ==
  /\ t \in Turns(SkipStates(c, F), Samples(F))
  /\ (m.N < c.nhead => ~m.sent) =>
       /\ t.mod.N < c.nhead => ~t.mod.sent
       /\ s.pressure = 0 => \/ t.out = <<>> /\ ~m.sent
                            \/ \E u \in Samples(F) : t.out = <<u>> /\ u.pressure = 0
       /\ s.pressure # 0 /\ (t.out # <<>> \/ m.sent) => t.mod.sent

\* That is what skip does.
LEMMA SkipTakeIs ==
  ASSUME NEW c, c.nhead \in Nat, c.ntail \in Nat, NEW F, NEW m \in SkipStates(c, F),
         NEW s \in Samples(F), NEW t, t = SkipTake(m, s)
  PROVE  SkipTurns(c, F, m, s, t)
<1> DEFINE n == m.N
           k == m.M
           y == m.sent
           b == m.buf
           S == Samples(F)
           h == c.nhead
           l == c.ntail
           Fine == (n < h => ~y) =>
                     /\ t.mod.N < h => ~t.mod.sent
                     /\ s.pressure = 0 => \/ t.out = <<>> /\ ~y
                                          \/ \E u \in S : t.out = <<u>> /\ u.pressure = 0
                     /\ s.pressure # 0 /\ (t.out # <<>> \/ y) => t.mod.sent
<1>1. n \in 0 .. h /\ k \in 0 .. l /\ y \in BOOLEAN /\ b \in Cells(c, F) /\ Filled(c, F, k, y, b)
  BY SkFields
<1>2. SkipWays(c, n, k, y, b, s, t)
  BY SkipGoes
<1>3. h \in Nat /\ l \in Nat /\ s \in S
  OBVIOUS
<1>4. /\ \A x \in S : <<x>> \in Seq(S) /\ <<x>> # <<>>
      /\ <<>> \in Seq(S)
  OBVIOUS
<1>5. \A n1 \in 0 .. h, k1 \in 0 .. l, y1 \in BOOLEAN, b1 \in Cells(c, F) :
        Filled(c, F, k1, y1, b1) =>
          /\ Sk(c, n1, k1, y1, b1) \in SkipStates(c, F)
          /\ Sk(c, n1, k1, y1, b1).N = n1 /\ Sk(c, n1, k1, y1, b1).sent = y1
  BY SkIsState
<1>6. \A i \in 0 .. l - 1, x \in S : [b EXCEPT ![i] = x] \in Cells(c, F)
  BY <1>1 DEF Cells
<1>7. \A b1 \in Cells(c, F) : Filled(c, F, 0, FALSE, b1)
  <2>1. \A i \in 0 .. c.ntail - 1 : ~(i < 0 \/ FALSE)
    OBVIOUS
  <2>. QED  BY <2>1 DEF Filled
<1>8. 0 \in 0 .. h /\ 0 \in 0 .. l /\ FALSE \in BOOLEAN /\ TRUE \in BOOLEAN
  BY <1>3
<1>9. ASSUME NEW a, NEW o \in Seq(S), t = [mod |-> a, out |-> o], a \in SkipStates(c, F)
      PROVE  t \in Turns(SkipStates(c, F), S) /\ t.mod = a /\ t.out = o
  BY <1>9 DEF Turns
<1>. HIDE DEF n, k, y, b, h, l, S
<1>10. ASSUME NEW b1 \in Cells(c, F), NEW o \in Seq(S), s.pressure = 0,
              t = [mod |-> Sk(c, 0, 0, FALSE, b1), out |-> o],
              (o = <<>> /\ ((n < h => ~y) => ~y)) \/ \E u \in S : o = <<u>> /\ u.pressure = 0
       PROVE  t \in Turns(SkipStates(c, F), S) /\ Fine
  <2>1. /\ Sk(c, 0, 0, FALSE, b1) \in SkipStates(c, F)
        /\ Sk(c, 0, 0, FALSE, b1).sent = FALSE
    BY ONLY <1>5, <1>7, <1>8, b1 \in Cells(c, F)
  <2>2. /\ t \in Turns(SkipStates(c, F), S) /\ t.mod = Sk(c, 0, 0, FALSE, b1)
        /\ t.out = o
    BY <1>9, <1>10, <2>1
  <2>3. ~t.mod.sent
    BY ONLY <2>1, <2>2
  <2>. QED  BY <1>10, <2>2, <2>3, Zenon DEF Fine
<1>11. ASSUME NEW n1 \in 0 .. h, NEW k1 \in 0 .. l, NEW y1 \in BOOLEAN, NEW b1 \in Cells(c, F),
              Filled(c, F, k1, y1, b1), NEW o \in Seq(S), s.pressure # 0,
              t = [mod |-> Sk(c, n1, k1, y1, b1), out |-> o],
              (n < h => ~y) => (n1 < h => ~y1),
              (n < h => ~y) /\ (o # <<>> \/ y) => y1
       PROVE  t \in Turns(SkipStates(c, F), S) /\ Fine
  <2>1. /\ Sk(c, n1, k1, y1, b1) \in SkipStates(c, F)
        /\ Sk(c, n1, k1, y1, b1).N = n1 /\ Sk(c, n1, k1, y1, b1).sent = y1
    BY <1>5, <1>11
  <2>2. /\ t \in Turns(SkipStates(c, F), S) /\ t.mod = Sk(c, n1, k1, y1, b1)
        /\ t.out = o
    BY <1>9, <1>11, <2>1
  <2>3. t.mod.N = n1 /\ t.mod.sent = y1
    BY ONLY <2>1, <2>2
  <2>. QED  BY <1>11, <2>2, <2>3, Zenon DEF Fine
<1>12. CASE n < h /\ s.pressure = 0 /\ t = [mod |-> Sk(c, 0, 0, FALSE, b), out |-> <<>>]
  <2>1. t \in Turns(SkipStates(c, F), S) /\ Fine
    BY <1>1, <1>4, <1>10, <1>12, Zenon
  <2>. QED  BY <2>1, Zenon DEF SkipTurns, Fine, n, h, y, S
<1>13. CASE n < h /\ s.pressure # 0 /\ t = [mod |-> Sk(c, n + 1, k, y, b), out |-> <<>>]
  <2>1. n + 1 \in 0 .. h
    BY ONLY <1>1, <1>3, <1>13
  <2>2. t \in Turns(SkipStates(c, F), S) /\ Fine
    BY <1>1, <1>4, <1>11, <1>13, <2>1, Zenon
  <2>. QED  BY <2>2, Zenon DEF SkipTurns, Fine, n, h, y, S
<1>14. CASE n >= h /\ s.pressure = 0 /\ ~y /\ t = [mod |-> Sk(c, 0, 0, FALSE, b), out |-> <<>>]
  <2>1. t \in Turns(SkipStates(c, F), S) /\ Fine
    BY <1>1, <1>4, <1>10, <1>14, Zenon
  <2>. QED  BY <2>1, Zenon DEF SkipTurns, Fine, n, h, y, S
<1>15. CASE /\ n >= h /\ s.pressure = 0 /\ y /\ l = 0
            /\ t = [mod |-> Sk(c, 0, 0, FALSE, b), out |-> <<s>>]
  <2>1. t \in Turns(SkipStates(c, F), S) /\ Fine
    BY <1>1, <1>3, <1>4, <1>10, <1>15, Zenon
  <2>. QED  BY <2>1, Zenon DEF SkipTurns, Fine, n, h, y, S
<1>16. CASE /\ n >= h /\ s.pressure # 0 /\ l = 0
            /\ t = [mod |-> Sk(c, n, k, TRUE, b), out |-> <<s>>]
  <2>1. Filled(c, F, k, TRUE, b)
    BY <1>16 DEF Filled, l
  <2>2. ~(n < h)
    BY ONLY <1>1, <1>3, <1>16
  <2>3. t \in Turns(SkipStates(c, F), S) /\ Fine
    BY <1>1, <1>3, <1>4, <1>8, <1>11, <1>16, <2>1, <2>2, Zenon
  <2>. QED  BY <2>3, Zenon DEF SkipTurns, Fine, n, h, y, S
<1>17. CASE /\ n >= h /\ s.pressure # 0 /\ ~y /\ k < l
            /\ t = [mod |-> Sk(c, n, k + 1, y, [b EXCEPT ![k] = s]), out |-> <<>>]
  <2> DEFINE b1 == [b EXCEPT ![k] = s]
  <2>1. k + 1 \in 0 .. l /\ k \in 0 .. l - 1
    BY ONLY <1>1, <1>3, <1>17
  <2>2. b1 \in Cells(c, F)
    BY <1>3, <1>6, <2>1
  <2>3. Filled(c, F, k + 1, y, b1)
    <3>1. \A i \in 0 .. l - 1 : i < k + 1 \/ y => i = k \/ (i < k \/ y)
      BY <1>1, <1>17
    <3>2. \A i \in 0 .. l - 1 : b1[i] = IF i = k THEN s ELSE b[i]
      BY <1>1 DEF Cells, l
    <3>. HIDE DEF b1
    <3>. QED  BY <1>1, <1>3, <3>1, <3>2 DEF Filled, l, S
  <2>. HIDE DEF b1
  <2>4. t = [mod |-> Sk(c, n, k + 1, y, b1), out |-> <<>>]
    BY <1>17 DEF b1
  <2>5. ~(n < h)
    BY ONLY <1>1, <1>3, <1>17
  <2>6. t \in Turns(SkipStates(c, F), S) /\ Fine
    BY <1>1, <1>4, <1>11, <1>17, <2>1, <2>2, <2>3, <2>4, <2>5, Zenon
  <2>. QED  BY <2>6, Zenon DEF SkipTurns, Fine, n, h, y, S
<1>18. CASE /\ n >= h /\ s.pressure = 0 /\ y /\ l # 0
            /\ LET i  == IF k >= l THEN 0 ELSE k
                   up == At(b[i], b[i].pos, 0)
               IN t = [mod |-> Sk(c, 0, 0, FALSE, [b EXCEPT ![i] = up]), out |-> <<up>>]
  <2> DEFINE i == IF k >= l THEN 0 ELSE k
             up == At(b[i], b[i].pos, 0)
             b1 == [b EXCEPT ![i] = up]
  <2>1. i \in 0 .. l - 1 /\ b[i] \in S
    <3>1. c.ntail \in Nat \ {0}
      BY <1>3, <1>18 DEF l
    <3>. QED  BY <1>1, <1>18, <3>1, OldestHolds DEF l, S
  <2>. HIDE DEF i
  <2>2. up \in S /\ up.pressure = 0
    <3>1. b[i].pos \in Int
      BY <2>1, SampleFields DEF S
    <3>. QED  BY <2>1, <3>1, AtIsSample DEF S
  <2>3. t = [mod |-> Sk(c, 0, 0, FALSE, b1), out |-> <<up>>]
    BY <1>18 DEF i
  <2>. HIDE DEF up
  <2>4. b1 \in Cells(c, F)
    BY <1>6, <2>1, <2>2
  <2>. HIDE DEF b1
  <2>5. t \in Turns(SkipStates(c, F), S) /\ Fine
    BY <1>4, <1>10, <1>18, <2>2, <2>3, <2>4, Zenon
  <2>. QED  BY <2>5, Zenon DEF SkipTurns, Fine, n, h, y, S
<1>19. CASE /\ n >= h /\ s.pressure # 0 /\ l # 0 /\ (y \/ k >= l)
            /\ LET i  == IF k >= l THEN 0 ELSE k
               IN t = [mod |-> Sk(c, n, i + 1, TRUE, [b EXCEPT ![i] = s]), out |-> <<b[i]>>]
  <2> DEFINE i == IF k >= l THEN 0 ELSE k
             b1 == [b EXCEPT ![i] = s]
  <2>1. i \in 0 .. l - 1 /\ b[i] \in S
    <3>1. c.ntail \in Nat \ {0}
      BY <1>3, <1>19 DEF l
    <3>. QED  BY <1>1, <1>19, <3>1, OldestHolds DEF l, S
  <2>2. t = [mod |-> Sk(c, n, i + 1, TRUE, b1), out |-> <<b[i]>>]
    BY <1>19
  <2>3. \A j \in 0 .. l - 1 : b[j] \in S
    <3>1. \A j \in 0 .. l - 1 : j < k \/ y
      BY <1>1, <1>3, <1>19
    <3>. QED  BY <1>1, <3>1 DEF Filled, l, S
  <2>. HIDE DEF i
  <2>4. b1 \in Cells(c, F)
    BY <1>3, <1>6, <2>1
  <2>5. \A j \in 0 .. l - 1 : b1[j] = IF j = i THEN s ELSE b[j]
    BY <1>1 DEF Cells, l
  <2>. HIDE DEF b1
  <2>6. Filled(c, F, i + 1, TRUE, b1)
    BY <1>3, <2>3, <2>5 DEF Filled, l, S
  <2>7. ~(n < h) /\ i + 1 \in 0 .. l
    BY ONLY <1>1, <1>3, <1>19, <2>1
  <2>8. t \in Turns(SkipStates(c, F), S) /\ Fine
    BY <1>1, <1>4, <1>8, <1>11, <1>19, <2>1, <2>2, <2>4, <2>6, <2>7, Zenon
  <2>. QED  BY <2>8, Zenon DEF SkipTurns, Fine, n, h, y, S
<1>20. \/ n < h /\ s.pressure = 0 /\ t = [mod |-> Sk(c, 0, 0, FALSE, b), out |-> <<>>]
       \/ n < h /\ s.pressure # 0 /\ t = [mod |-> Sk(c, n + 1, k, y, b), out |-> <<>>]
       \/ n >= h /\ s.pressure = 0 /\ ~y /\ t = [mod |-> Sk(c, 0, 0, FALSE, b), out |-> <<>>]
       \/ /\ n >= h /\ s.pressure = 0 /\ y /\ l = 0
          /\ t = [mod |-> Sk(c, 0, 0, FALSE, b), out |-> <<s>>]
       \/ /\ n >= h /\ s.pressure # 0 /\ l = 0
          /\ t = [mod |-> Sk(c, n, k, TRUE, b), out |-> <<s>>]
       \/ /\ n >= h /\ s.pressure # 0 /\ ~y /\ k < l
          /\ t = [mod |-> Sk(c, n, k + 1, y, [b EXCEPT ![k] = s]), out |-> <<>>]
       \/ /\ n >= h /\ s.pressure = 0 /\ y /\ l # 0
          /\ LET i  == IF k >= l THEN 0 ELSE k
                 up == At(b[i], b[i].pos, 0)
             IN t = [mod |-> Sk(c, 0, 0, FALSE, [b EXCEPT ![i] = up]), out |-> <<up>>]
       \/ /\ n >= h /\ s.pressure # 0 /\ l # 0 /\ (y \/ k >= l)
          /\ LET i  == IF k >= l THEN 0 ELSE k
             IN t = [mod |-> Sk(c, n, i + 1, TRUE, [b EXCEPT ![i] = s]), out |-> <<b[i]>>]
  BY <1>2, Zenon DEF SkipWays, h, l
<1>. QED  BY <1>12, <1>13, <1>14, <1>15, <1>16, <1>17, <1>18, <1>19, <1>20, Zenon

-----------------------------------------------------------------------------
(* What each filter does with one sample                                   *)

\* debounce, asked for a single sample, judges it with nothing dropped.
LEMMA DebounceOnce ==
  ASSUME NEW F \in SUBSET Slots, NEW s \in Samples(F), NEW q \in [Slots -> Int],
         NEW v, v = DebounceJudge([quiet |-> q, drop |-> FALSE], s)
  PROVE  DebounceTake(q, s) = [mod |-> v.mod.quiet, out |-> Taken(v)]
<1> DEFINE m == [quiet |-> q, drop |-> FALSE]
           b == <<s>>
           a == [mod |-> m, buf |-> b, nr |-> 0, done |-> FALSE]
           z == Round(a, DebounceJudge(a.mod, a.buf[a.nr + 1]))
           loop == CHOOSE f : f = [n \in 0 .. Len(b) |->
                     IF n = 0 THEN [mod |-> m, buf |-> b, nr |-> 0, done |-> FALSE]
                     ELSE LET w == f[n - 1] IN Round(w, DebounceJudge(w.mod, w.buf[w.nr + 1]))]
           end == loop[Len(b)]
           g == [n \in 0 .. Len(b) |-> IF n = 0 THEN a ELSE z]
<1>1. Len(b) = 1 /\ b[1] = s /\ 0 .. Len(b) = {0, 1}
  OBVIOUS
<1>2. loop = [n \in 0 .. Len(b) |->
                     IF n = 0 THEN [mod |-> m, buf |-> b, nr |-> 0, done |-> FALSE]
                     ELSE LET w == loop[n - 1]
                          IN Round(w, DebounceJudge(w.mod, w.buf[w.nr + 1]))]
  <2>1. g[0] = a
    BY <1>1
  <2>2. \A n \in 0 .. Len(b) : n # 0 => n - 1 = 0
    BY <1>1
  <2>. HIDE DEF a
  <2>3. g = [n \in 0 .. Len(b) |->
                     IF n = 0 THEN a
                     ELSE LET w == g[n - 1]
                          IN Round(w, DebounceJudge(w.mod, w.buf[w.nr + 1]))]
    BY ONLY <2>1, <2>2 DEF g, z
  <2>4. \E f : f = [n \in 0 .. Len(b) |->
                     IF n = 0 THEN a
                     ELSE LET w == f[n - 1]
                          IN Round(w, DebounceJudge(w.mod, w.buf[w.nr + 1]))]
    <3>. HIDE DEF g
    <3>. QED  BY ONLY <2>3, Zenon
  <2>. QED  BY ONLY <2>4, Zenon DEF loop, a
<1>3. DebounceTake(q, s) = [mod |-> end.mod.quiet, out |-> SubSeq(end.buf, 1, end.nr)]
  BY Zenon DEF DebounceTake, debounce_read, InPlace
<1>. HIDE DEF loop
<1>4. loop[0] = a /\ loop[1] = z
  <2>1. 0 \in 0 .. Len(b) /\ 1 \in 0 .. Len(b) /\ 1 # 0 /\ 1 - 1 = 0
    BY <1>1
  <2>2. loop[0] = a
    BY ONLY <1>2, <2>1, Zenon DEF a
  <2>3. loop[1] = LET w == loop[1 - 1] IN Round(w, DebounceJudge(w.mod, w.buf[w.nr + 1]))
    BY ONLY <1>2, <2>1, Zenon
  <2>. QED  BY ONLY <2>1, <2>2, <2>3 DEF z
<1>5. a.mod = m /\ a.buf = b /\ a.nr = 0 /\ a.done = FALSE /\ a.buf[a.nr + 1] = s
  BY <1>1
<1>6. z = Round(a, v)
  BY <1>5
<1>. HIDE DEF a, z
<1>7. DebounceTurns(m, s, v)
  <2>1. m \in Quiets
    BY DEF Quiets
  <2>. HIDE DEF m
  <2>2. v = DebounceJudge(m, s)
    BY DEF m
  <2>. QED  BY <2>1, <2>2, DebounceTurn
<1>8. v.keep \in BOOLEAN /\ v.sample = s
  BY <1>7 DEF DebounceTurns
<1>9. CASE v.keep
  <2>1. z = [mod |-> v.mod, buf |-> [b EXCEPT ![1] = s], nr |-> 1, done |-> FALSE]
    <3>. HIDE DEF b, m
    <3>1. ~a.done /\ a.nr + 1 = 1
      BY <1>5
    <3>2. z = [mod |-> v.mod, buf |-> [a.buf EXCEPT ![a.nr + 1] = v.sample], nr |-> a.nr + 1,
               done |-> FALSE]
      BY ONLY <1>6, <1>9, <3>1, Zenon DEF Round
    <3>. QED  BY ONLY <1>5, <1>8, <3>1, <3>2
  <2>2. [b EXCEPT ![1] = s] = b
    <3>1. b \in Seq({s}) /\ 1 \in 1 .. Len(b) /\ s \in {s} /\ b[1] = s
      OBVIOUS
    <3>. HIDE DEF b
    <3> DEFINE d == [b EXCEPT ![1] = s]
    <3>2. d \in Seq({s}) /\ Len(d) = Len(b) /\ \A j \in 1 .. Len(b) : d[j] = IF j = 1 THEN s ELSE b[j]
      BY ONLY <3>1, ExceptSeq
    <3>. HIDE DEF d
    <3>3. \A j \in 1 .. Len(b) : d[j] = b[j]
      BY <3>1, <3>2
    <3>4. d = b
      BY ONLY <3>1, <3>2, <3>3, SeqEqual
    <3>. QED  BY <3>4 DEF d
  <2>5. SubSeq(b, 1, 1) = b
    <3>1. b \in Seq({s})
      OBVIOUS
    <3>. HIDE DEF b
    <3>. QED  BY ONLY <1>1, <3>1
  <2>3. z.mod = v.mod /\ SubSeq(z.buf, 1, z.nr) = <<s>>
    <3>. HIDE DEF b
    <3>1. z.buf = b /\ z.nr = 1 /\ z.mod = v.mod
      BY ONLY <2>1, <2>2
    <3>2. SubSeq(z.buf, 1, z.nr) = b
      BY ONLY <2>5, <3>1
    <3>. QED  BY ONLY <3>1, <3>2 DEF b
  <2>. QED  BY <1>1, <1>3, <1>4, <1>8, <1>9, <2>3 DEF Taken
<1>10. CASE ~v.keep
  <2>1. z = [a EXCEPT !.mod = v.mod, !.done = TRUE]
    BY <1>1, <1>5, <1>6, <1>10 DEF Round
  <2>2. z.mod = v.mod /\ z.buf = b /\ z.nr = 0
    BY <2>1 DEF a
  <2>3. SubSeq(z.buf, 1, z.nr) = <<>>
    BY <2>2
  <2>. QED  BY <1>1, <1>3, <1>4, <1>10, <2>2, <2>3 DEF Taken
<1>. QED  BY <1>8, <1>9, <1>10

\* what read_mt can do, and the numbers of a configuration
Legal(k, mt) == mt \in BOOLEAN /\ k \in Kind /\ (mt => k \notin {"skip", "variance", "singly"})
Counts(c) == c.nhead \in Nat /\ c.ntail \in Nat

\* Every filter takes a sample into a state and samples.
LEMMA TakeIs ==
  ASSUME NEW c, Counts(c), NEW F \in SUBSET Slots, NEW mt, NEW k, Legal(k, mt),
         NEW m \in During(k, c, F), NEW s \in Samples(F), NEW t, t = Take(k, mt, m, s)
  PROVE  t \in Turns(During(k, c, F), Samples(F))
<1> DEFINE S == Samples(F)
           T == During(k, c, F)
<1>0. mt \in BOOLEAN /\ k \in Kind /\ c.nhead \in Nat /\ c.ntail \in Nat
  BY DEF Legal, Counts
<1>1. ASSUME NEW v, t = Judged(v), v.mod \in T, v.keep \in BOOLEAN, v.sample \in S
      PROVE  t \in Turns(T, S)
  <2>. HIDE DEF T, S
  <2>. QED  BY <1>1, JudgedIsTurn
<1>2. CASE k = "skip"
  <2>1. T = SkipStates(c, F) /\ t = SkipTake(m, s)
    BY <1>2 DEF During, StatesOf, Take
  <2>2. SkipTurns(c, F, m, s, t)
    BY <1>0, <2>1, SkipTakeIs
  <2>. QED  BY <2>1, <2>2 DEF SkipTurns
<1>3. CASE k = "pthres"
  <2> DEFINE v == IF mt THEN PthresJudgeMt(m, s) ELSE PthresJudge(m, s)
  <2>1. T = [Slots -> Presses] /\ t = Judged(v)
    BY <1>3 DEF During, StatesOf, Take, Presses
  <2>2. PthresTurns(F, mt, m, s, v)
    <3>. HIDE DEF v
    <3>1. v = IF mt THEN PthresJudgeMt(m, s) ELSE PthresJudge(m, s)
      BY DEF v
    <3>2. m \in [Slots -> Presses]
      BY <2>1
    <3>. QED  BY <1>0, <3>1, <3>2, PthresTurn
  <2>. HIDE DEF v
  <2>3. v.mod \in T /\ v.keep \in BOOLEAN /\ v.sample \in S
    BY <2>1, <2>2, Zenon DEF PthresTurns
  <2>. QED  BY <1>1, <2>1, <2>3
<1>4. CASE k = "debounce"
  <2> DEFINE v == DebounceJudge(m, s)
  <2>1. T = Quiets /\ t = Judged(v)
    BY <1>4 DEF During, Take, Quiets
  <2>2. DebounceTurns(m, s, v)
    <3>. HIDE DEF v
    <3>1. v = DebounceJudge(m, s)
      BY DEF v
    <3>2. m \in Quiets
      BY <2>1
    <3>. QED  BY <3>1, <3>2, DebounceTurn
  <2>. HIDE DEF v
  <2>3. v.mod \in T /\ v.keep \in BOOLEAN /\ v.sample \in S
    BY <2>1, <2>2, Zenon DEF DebounceTurns
  <2>. QED  BY <1>1, <2>1, <2>3
<1>5. CASE k = "singly"
  <2> DEFINE q == [quiet |-> m, drop |-> FALSE]
             v == DebounceJudge(q, s)
  <2>1. T = [Slots -> Int] /\ t = DebounceTake(m, s)
    BY <1>5 DEF During, Take
  <2>2. q \in Quiets
    BY <2>1 DEF Quiets
  <2>3. t = [mod |-> v.mod.quiet, out |-> Taken(v)]
    <3>. HIDE DEF v
    <3>1. v = DebounceJudge([quiet |-> m, drop |-> FALSE], s)
      BY DEF v
    <3>. QED  BY <2>1, <3>1, DebounceOnce
  <2>4. DebounceTurns(q, s, v)
    <3>. HIDE DEF v, q
    <3>1. v = DebounceJudge(q, s)
      BY DEF v
    <3>. QED  BY <2>2, <3>1, DebounceTurn
  <2>. HIDE DEF v, q
  <2>5. v.mod \in Quiets /\ v.keep \in BOOLEAN /\ v.sample \in S
    BY <2>4, Zenon DEF DebounceTurns
  <2>6. v.mod.quiet \in T /\ Taken(v) \in Seq(S)
    BY <2>1, <2>5 DEF Quiets, Taken
  <2>. QED  BY ONLY <2>3, <2>6 DEF Turns
<1>6. CASE k = "median"
  <2> DEFINE v == IF mt THEN MedianJudgeMt(m, s) ELSE MedianJudge(m, s)
  <2>1. T = [Slots -> Lines] /\ t = Judged(v)
    BY <1>6 DEF During, StatesOf, Take, Lines, Delays, Points, Depths
  <2>2. MedianTurns(F, mt, m, s, v)
    <3>. HIDE DEF v
    <3>1. v = IF mt THEN MedianJudgeMt(m, s) ELSE MedianJudge(m, s)
      BY DEF v
    <3>2. m \in [Slots -> Lines]
      BY <2>1
    <3>. QED  BY <1>0, <3>1, <3>2, MedianTurnIs
  <2>. HIDE DEF v
  <2>3. v.mod \in T /\ v.keep = TRUE /\ v.sample \in S
    BY <2>1, <2>2, Zenon DEF MedianTurns
  <2>. QED  BY <1>1, <2>1, <2>3
<1>7. CASE k = "variance"
  <2>1. T = VarianceStates(F) /\ t = VarianceTake(m, s)
    BY <1>7 DEF During, StatesOf, Take
  <2>. QED  BY <2>1, VarianceTakeIs
<1>8. CASE k = "dejitter"
  <2> DEFINE v == DejitterJudge(m, s)
  <2>1. T = [Slots -> Rings] /\ t = Judged(v)
    BY <1>8 DEF During, StatesOf, Take
  <2>2. PassesOn([Slots -> Rings], F, s, v)
    <3>. HIDE DEF v
    <3>1. v = DejitterJudge(m, s)
      BY DEF v
    <3>2. m \in [Slots -> Rings]
      BY <2>1
    <3>. QED  BY <3>1, <3>2, DejitterTurn
  <2>. HIDE DEF v
  <2>3. v.mod \in T /\ v.keep = TRUE /\ v.sample \in S
    BY <2>1, <2>2, Zenon DEF PassesOn
  <2>. QED  BY <1>1, <2>1, <2>3
<1>9. CASE k = "linear"
  <2> DEFINE v == LinearJudge(m, s)
  <2>1. T = {<<>>} /\ t = Judged(v)
    BY <1>9 DEF During, StatesOf, Take
  <2>2. m = <<>>
    BY <2>1
  <2>3. v.mod = <<>> /\ v.keep = TRUE /\ v.sample \in S
    <3>. HIDE DEF v
    <3>1. v = LinearJudge(<<>>, s)
      BY <2>2 DEF v
    <3>2. LinearTurns(F, s, v)
      BY <3>1, LinearTurn
    <3>. QED  BY <3>2, Zenon DEF LinearTurns
  <2>. HIDE DEF v
  <2>4. v.mod \in T /\ v.keep \in BOOLEAN
    BY <2>1, <2>3
  <2>. QED  BY <1>1, <2>1, <2>3, <2>4
<1>. QED  BY <1>0, <1>2, <1>3, <1>4, <1>5, <1>6, <1>7, <1>8, <1>9 DEF Kind, Filters

\* The indices of a slot's samples.
Mine(out, slot) == {i \in DOMAIN out : out[i].slot = slot}

\* LastOf is one of them, if there are any.
LEMMA LastOfIs ==
  ASSUME NEW F, NEW out \in Seq(Samples(F)), NEW slot, NEW old
  PROVE  /\ (\A i \in 1 .. Len(out) : out[i].slot # slot) => LastOf(out, slot, old) = old
         /\ \A i \in 1 .. Len(out) :
              out[i].slot = slot /\ (\A j \in i + 1 .. Len(out) : out[j].slot # slot) =>
                LastOf(out, slot, old) = out[i]
<1> DEFINE mine == {i \in DOMAIN out : out[i].slot = slot}
<1>1. DOMAIN out = 1 .. Len(out) /\ Len(out) \in Nat
  OBVIOUS
<1>2. LastOf(out, slot, old) = IF mine = {} THEN old ELSE out[Latest(mine)]
  BY DEF LastOf
<1>3. ASSUME NEW i \in 1 .. Len(out), out[i].slot = slot,
             \A j \in i + 1 .. Len(out) : out[j].slot # slot
      PROVE  LastOf(out, slot, old) = out[i]
  <2>1. i \in mine /\ mine \in SUBSET (0 .. Len(out)) /\ \A j \in mine : j <= i
    BY <1>1, <1>3
  <2>. HIDE DEF mine
  <2>2. Latest(mine) = i
    BY ONLY <1>1, <2>1, LatestOnly
  <2>. QED  BY <1>2, <2>1, <2>2
<1>4. (\A i \in 1 .. Len(out) : out[i].slot # slot) => mine = {}
  BY <1>1
<1>. HIDE DEF mine
<1>. QED  BY <1>2, <1>3, <1>4

\* When there are any, one of them is the last.
LEMMA LastExists ==
  ASSUME NEW F, NEW out \in Seq(Samples(F)), NEW slot
  PROVE  \/ \A i \in 1 .. Len(out) : out[i].slot # slot
         \/ \E i \in 1 .. Len(out) :
              out[i].slot = slot /\ \A j \in i + 1 .. Len(out) : out[j].slot # slot
<1> DEFINE mine == {i \in 1 .. Len(out) : out[i].slot = slot}
<1> SUFFICES ASSUME mine # {}
             PROVE  \E i \in 1 .. Len(out) :
                      out[i].slot = slot /\ \A j \in i + 1 .. Len(out) : out[j].slot # slot
  OBVIOUS
<1>1. Len(out) \in Nat /\ mine \in SUBSET (0 .. Len(out))
  OBVIOUS
<1>2. PICK i \in mine : \A j \in mine : j <= i
  <2>. HIDE DEF mine
  <2>. QED  BY <1>1, GreatestExists
<1>3. i \in 1 .. Len(out) /\ out[i].slot = slot
  OBVIOUS
<1>4. \A j \in i + 1 .. Len(out) : j \in 1 .. Len(out) /\ ~(j <= i)
  BY <1>1, <1>3
<1>. QED  BY <1>2, <1>3, <1>4

\* The last sample is that of the last part that has one.
LEMMA LastOfConcat ==
  ASSUME NEW F, NEW a \in Seq(Samples(F)), NEW b \in Seq(Samples(F)), NEW slot, NEW old
  PROVE  LastOf(a \o b, slot, old) = LastOf(b, slot, LastOf(a, slot, old))
<1> DEFINE S == Samples(F)
           c == a \o b
           L == Len(a)
           K == Len(b)
<1>1. /\ c \in Seq(S) /\ Len(c) = L + K /\ L \in Nat /\ K \in Nat
      /\ \A i \in 1 .. L + K : c[i] = IF i <= L THEN a[i] ELSE b[i - L]
  BY ConcatProperties
<1>2. \A i \in 1 .. L : i \in 1 .. L + K /\ c[i] = a[i]
  BY <1>1
<1>3. \A i \in 1 .. K : L + i \in 1 .. L + K /\ c[L + i] = b[i]
  <2>1. \A i \in 1 .. K : L + i \in 1 .. L + K /\ ~(L + i <= L) /\ (L + i) - L = i
    BY <1>1
  <2>. QED  BY <1>1, <2>1
<1>4. \A i \in L + 1 .. L + K : i - L \in 1 .. K /\ c[i] = b[i - L]
  <2>1. \A i \in L + 1 .. L + K : i \in 1 .. L + K /\ ~(i <= L) /\ i - L \in 1 .. K
    BY <1>1
  <2>. QED  BY <1>1, <2>1
<1>8. c \in Seq(Samples(F))
  BY <1>1 DEF S
<1>. HIDE DEF c, S
<1>5. CASE \A i \in 1 .. K : b[i].slot # slot
  <2>1. LastOf(b, slot, LastOf(a, slot, old)) = LastOf(a, slot, old)
    BY <1>5, LastOfIs
  <2>2. CASE \A i \in 1 .. L : a[i].slot # slot
    <3>1. \A i \in 1 .. Len(c) : c[i].slot # slot
      <4>1. \A i \in 1 .. L + K : i \in 1 .. L \/ i \in L + 1 .. L + K
        BY <1>1
      <4>. QED  BY <1>1, <1>2, <1>4, <1>5, <2>2, <4>1
    <3>2. LastOf(c, slot, old) = old
      BY <1>1, <3>1, LastOfIs DEF S
    <3>3. LastOf(a, slot, old) = old
      BY <2>2, LastOfIs
    <3>. QED  BY <2>1, <3>2, <3>3 DEF c
  <2>3. ASSUME NEW i \in 1 .. L, a[i].slot = slot, \A j \in i + 1 .. L : a[j].slot # slot
        PROVE  LastOf(c, slot, old) = LastOf(a, slot, old)
    <3>1. \A j \in i + 1 .. L + K : j \in i + 1 .. L \/ j \in L + 1 .. L + K
      BY <1>1
    <3>2. \A j \in i + 1 .. L : j \in 1 .. L
      BY <1>1
    <3>3. \A j \in i + 1 .. L + K : c[j].slot # slot
      BY <1>2, <1>4, <1>5, <2>3, <3>1, <3>2
    <3>4. LastOf(a, slot, old) = a[i]
      BY <2>3, LastOfIs
    <3>5. i \in 1 .. Len(c) /\ c[i].slot = slot /\ \A j \in i + 1 .. Len(c) : c[j].slot # slot
      <4>1. i \in 1 .. Len(c)
        BY ONLY <1>1, i \in 1 .. L
      <4>2. c[i].slot = slot
        BY <1>2, <2>3
      <4>. QED  BY ONLY <1>1, <3>3, <4>1, <4>2
    <3>6. LastOf(c, slot, old) = c[i]
      BY ONLY <1>8, <3>5, LastOfIs
    <3>. QED  BY <1>2, <3>4, <3>6
  <2>4. \/ \A i \in 1 .. L : a[i].slot # slot
        \/ \E i \in 1 .. L : a[i].slot = slot /\ \A j \in i + 1 .. L : a[j].slot # slot
    BY LastExists
  <2>. QED  BY <2>1, <2>2, <2>3, <2>4 DEF c
<1>6. ASSUME NEW i \in 1 .. K, b[i].slot = slot, \A j \in i + 1 .. K : b[j].slot # slot
      PROVE  LastOf(c, slot, old) = LastOf(b, slot, LastOf(a, slot, old))
  <2>1. LastOf(b, slot, LastOf(a, slot, old)) = b[i]
    BY <1>6, LastOfIs
  <2>2. L + i \in 1 .. Len(c) /\ c[L + i].slot = slot
    BY <1>1, <1>3, <1>6
  <2>3. \A j \in L + i + 1 .. L + K : j \in L + 1 .. L + K /\ j - L \in i + 1 .. K
    BY <1>1
  <2>4. \A j \in L + i + 1 .. Len(c) : c[j].slot # slot
    <3> SUFFICES ASSUME NEW j \in L + i + 1 .. L + K
                 PROVE  c[j].slot # slot
      BY <1>1
    <3>1. j \in L + 1 .. L + K /\ j - L \in i + 1 .. K
      BY <2>3
    <3>2. c[j] = b[j - L]
      BY <1>4, <3>1
    <3>. QED  BY <1>6, <3>1, <3>2
  <2>5. LastOf(c, slot, old) = c[L + i]
    <3> DEFINE n == L + i
    <3>1. n \in 1 .. Len(c) /\ c[n].slot = slot /\ \A j \in n + 1 .. Len(c) : c[j].slot # slot
      BY ONLY <2>2, <2>4
    <3>. HIDE DEF n
    <3>2. LastOf(c, slot, old) = c[n]
      BY ONLY <1>8, <3>1, LastOfIs
    <3>. QED  BY <3>2 DEF n
  <2>. QED  BY <1>3, <2>1, <2>5
<1>7. \/ \A i \in 1 .. K : b[i].slot # slot
      \/ \E i \in 1 .. K : b[i].slot = slot /\ \A j \in i + 1 .. K : b[j].slot # slot
  BY LastExists
<1>. QED  BY <1>5, <1>6, <1>7 DEF c

\* Whether the last sample of the slot is a press; o, if there is none.
Shows(out, slot, o) == LastOf(out, slot, [pressure |-> IF o THEN 1 ELSE 0]).pressure # 0

\* It is the same if the samples come in two parts,
LEMMA ShowsConcat ==
  ASSUME NEW F, NEW a \in Seq(Samples(F)), NEW b \in Seq(Samples(F)), NEW slot, NEW o \in BOOLEAN
  PROVE  Shows(a \o b, slot, o) = Shows(b, slot, Shows(a, slot, o))
<1> DEFINE old == [pressure |-> IF o THEN 1 ELSE 0]
           mid == LastOf(a, slot, old)
           now == [pressure |-> IF mid.pressure # 0 THEN 1 ELSE 0]
<1>1. LastOf(a \o b, slot, old) = LastOf(b, slot, mid)
  <2>. HIDE DEF old
  <2>. QED  BY LastOfConcat
<1>2. (LastOf(b, slot, mid).pressure # 0) = (LastOf(b, slot, now).pressure # 0)
  <2>. HIDE DEF mid, now
  <2>0. (mid.pressure # 0) = (now.pressure # 0)
    BY DEF now
  <2>1. CASE \A i \in 1 .. Len(b) : b[i].slot # slot
    <3>1. LastOf(b, slot, mid) = mid /\ LastOf(b, slot, now) = now
      BY <2>1, LastOfIs
    <3>. QED  BY ONLY <2>0, <3>1
  <2>2. ASSUME NEW i \in 1 .. Len(b), b[i].slot = slot, \A j \in i + 1 .. Len(b) : b[j].slot # slot
        PROVE  LastOf(b, slot, mid) = LastOf(b, slot, now)
    BY <2>2, LastOfIs
  <2>3. \/ \A i \in 1 .. Len(b) : b[i].slot # slot
        \/ \E i \in 1 .. Len(b) : b[i].slot = slot /\ \A j \in i + 1 .. Len(b) : b[j].slot # slot
    BY LastExists
  <2>. QED  BY ONLY <2>1, <2>2, <2>3
<1>. QED  BY <1>1, <1>2 DEF Shows

\* and it does not change with no sample, or none of the slot.
LEMMA ShowsOne ==
  ASSUME NEW F, NEW slot, NEW o \in BOOLEAN
  PROVE  /\ Shows(<<>>, slot, o) <=> o
         /\ \A s \in Samples(F) : /\ s.slot = slot => (Shows(<<s>>, slot, o) <=> s.pressure # 0)
                                  /\ s.slot # slot => (Shows(<<s>>, slot, o) <=> o)
<1> DEFINE old == [pressure |-> IF o THEN 1 ELSE 0]
<1>1. (old.pressure # 0) = o
  OBVIOUS
<1>. HIDE DEF old
<1>2. LastOf(<<>>, slot, old) = old
  <2>1. <<>> \in Seq(Samples(F)) /\ \A i \in 1 .. Len(<<>>) : FALSE
    OBVIOUS
  <2> DEFINE e == <<>>
  <2>. HIDE DEF e
  <2>2. e \in Seq(Samples(F)) /\ \A i \in 1 .. Len(e) : e[i].slot # slot
    BY <2>1 DEF e
  <2>3. LastOf(e, slot, old) = old
    BY <2>2, LastOfIs
  <2>. QED  BY <2>3 DEF e
<1>3. ASSUME NEW s \in Samples(F)
      PROVE  LastOf(<<s>>, slot, old) = IF s.slot = slot THEN s ELSE old
  <2> DEFINE e == <<s>>
  <2>1. e \in Seq(Samples(F)) /\ Len(e) = 1 /\ e[1] = s
    OBVIOUS
  <2>. HIDE DEF e
  <2>2. \A j \in 1 + 1 .. Len(e) : e[j].slot # slot
    BY <2>1
  <2>3. \A i \in 1 .. Len(e) : e[i] = s
    BY <2>1
  <2>4. 1 \in 1 .. Len(e)
    BY <2>1
  <2>5. CASE s.slot = slot
    <3>1. e[1].slot = slot
      BY <2>1, <2>5
    <3>2. LastOf(e, slot, old) = e[1]
      BY ONLY <2>1, <2>2, <2>4, <3>1, LastOfIs, SMTT(60)
    <3>. QED  BY <2>1, <2>5, <3>2 DEF e
  <2>6. CASE s.slot # slot
    <3>1. LastOf(e, slot, old) = old
      BY <2>1, <2>3, <2>6, LastOfIs
    <3>. QED  BY <2>6, <3>1 DEF e
  <2>. QED  BY <2>5, <2>6
<1>4. Shows(<<>>, slot, o) <=> o
  BY <1>1, <1>2 DEF Shows, old
<1>5. ASSUME NEW s \in Samples(F)
      PROVE  /\ s.slot = slot => (Shows(<<s>>, slot, o) <=> s.pressure # 0)
             /\ s.slot # slot => (Shows(<<s>>, slot, o) <=> o)
  <2>1. Shows(<<s>>, slot, o) <=> LastOf(<<s>>, slot, old).pressure # 0
    BY DEF Shows, old
  <2>. QED  BY <1>1, <1>3, <2>1
<1>. QED  BY <1>4, <1>5

\* A sample that begins or goes on with a touch; pthres is first, and has Light for it.
IsPress(k, p) == IF k = "pthres" THEN p >= Pmin ELSE p # 0

(* What a filter with the state m knows of the slot: i says whether the    *)
(* last sample it was given is a press, and o whether the last it passed   *)
(* on is one.                                                              *)
Linked(k, c, m, slot, i, o) ==
  CASE k = "pthres" -> (o => m[slot].press) /\ (m[slot].press => i)
    [] k = "skip"   -> (o => i /\ m.sent) /\ (m.N < c.nhead => ~m.sent)
    [] k = "median" -> Settled(m[slot]) /\ (Junky(m[slot]) \/ (o => i))
    [] OTHER        -> o => i

\* What that is for each of them.
LEMMA LinkedIs ==
  ASSUME NEW k, NEW c, NEW m, NEW slot, NEW i, NEW o
  PROVE  /\ k = "pthres" => (Linked(k, c, m, slot, i, o) <=>
                               (o => m[slot].press) /\ (m[slot].press => i))
         /\ k = "skip" => (Linked(k, c, m, slot, i, o) <=>
                               (o => i /\ m.sent) /\ (m.N < c.nhead => ~m.sent))
         /\ k = "median" => (Linked(k, c, m, slot, i, o) <=>
                               Settled(m[slot]) /\ (Junky(m[slot]) \/ (o => i)))
         /\ k \notin {"pthres", "skip", "median"} => (Linked(k, c, m, slot, i, o) <=> (o => i))
<1>1. CASE k = "pthres"
  BY <1>1 DEF Linked
<1>2. CASE k = "skip"
  BY <1>2 DEF Linked
<1>3. CASE k = "median"
  BY <1>3 DEF Linked
<1>4. CASE k \notin {"pthres", "skip", "median"}
  BY <1>4 DEF Linked
<1>. QED  BY <1>1, <1>2, <1>3, <1>4

\* What a filter makes of one sample keeps that.
LEMMA TakeLinks ==
  ASSUME NEW c, Counts(c), NEW F \in SUBSET Slots, NEW mt, NEW k, Legal(k, mt),
         k = "median" => ~mt, k = "linear" => CalibratedPressure(0) = 0,
         NEW slot \in F, k \in {"skip", "variance"} => F = {slot},
         NEW m \in During(k, c, F), NEW s \in Samples(F), NEW t, t = Take(k, mt, m, s),
         NEW i \in BOOLEAN, NEW o \in BOOLEAN, Linked(k, c, m, slot, i, o)
  PROVE  Linked(k, c, t.mod, slot, IF s.slot = slot THEN IsPress(k, s.pressure) ELSE i,
                Shows(t.out, slot, o))
<1> DEFINE S == Samples(F)
           T == During(k, c, F)
           i1 == IF s.slot = slot THEN IsPress(k, s.pressure) ELSE i
           o1 == Shows(t.out, slot, o)
           Done == Linked(k, c, t.mod, slot, i1, o1)
<1>0. /\ mt \in BOOLEAN /\ k \in Kind /\ c.nhead \in Nat /\ c.ntail \in Nat
      /\ s.slot \in F /\ s.pressure \in Int /\ slot \in Slots
  BY SampleFields DEF Legal, Counts
<1>1. /\ t.out = <<>> => (o1 <=> o)
      /\ \A u \in S : t.out = <<u>> => /\ u.slot = slot => (o1 <=> u.pressure # 0)
                                       /\ u.slot # slot => (o1 <=> o)
  <2>1. /\ Shows(<<>>, slot, o) <=> o
        /\ \A u \in S : /\ u.slot = slot => (Shows(<<u>>, slot, o) <=> u.pressure # 0)
                        /\ u.slot # slot => (Shows(<<u>>, slot, o) <=> o)
    BY ShowsOne
  <2>2. ASSUME t.out = <<>>
        PROVE  o1 <=> o
    BY <2>1, <2>2 DEF o1
  <2>3. ASSUME NEW u \in S, t.out = <<u>>
        PROVE  /\ u.slot = slot => (o1 <=> u.pressure # 0)
               /\ u.slot # slot => (o1 <=> o)
    <3>1. o1 = Shows(<<u>>, slot, o)
      <4>1. o1 = Shows(t.out, slot, o)
        BY DEF o1
      <4>. HIDE DEF o1
      <4>. QED  BY ONLY <2>3, <4>1, Zenon
    <3>. HIDE DEF o1
    <3>. QED  BY <2>1, <2>3, <3>1, Zenon
  <2>. HIDE DEF o1
  <2>. QED  BY ONLY <2>2, <2>3
<1>2. /\ k = "pthres" => (Done <=> (o1 => t.mod[slot].press) /\ (t.mod[slot].press => i1))
      /\ k = "skip" => (Done <=> (o1 => i1 /\ t.mod.sent) /\ (t.mod.N < c.nhead => ~t.mod.sent))
      /\ k = "median" => (Done <=> Settled(t.mod[slot]) /\ (Junky(t.mod[slot]) \/ (o1 => i1)))
      /\ k \notin {"pthres", "skip", "median"} => (Done <=> (o1 => i1))
  <2>. HIDE DEF i1, o1
  <2>. QED  BY LinkedIs DEF Done
<1>14. k \notin {"pthres", "skip", "median"} => (o => i)
  BY LinkedIs
<1>3. /\ s.slot = slot => (i1 <=> IsPress(k, s.pressure))
      /\ s.slot # slot => i1 = i
      /\ k # "pthres" => (IsPress(k, s.pressure) <=> s.pressure # 0)
  BY DEF IsPress
<1>. HIDE DEF o1, i1, Done
\* a filter that passes on what it is given, or drops a press
<1>4. ASSUME NEW v, t.out = Taken(v), v.keep \in BOOLEAN, v.sample \in S, v.sample.slot = s.slot,
             s.pressure = 0 => v.keep /\ v.sample.pressure = 0,
             o => i, k # "pthres"
      PROVE  o1 => i1
  <2>1. CASE v.keep
    <3>1. t.out = <<v.sample>>
      BY <1>4, <2>1 DEF Taken
    <3>2. (o1 <=> IF s.slot = slot THEN v.sample.pressure # 0 ELSE o)
      BY <1>1, <1>4, <3>1
    <3>. QED  BY <1>3, <1>4, <3>2
  <2>2. CASE ~v.keep
    <3>1. t.out = <<>> /\ s.pressure # 0
      BY <1>4, <2>2 DEF Taken
    <3>2. (o1 <=> o)
      BY <1>1, <3>1
    <3>. QED  BY <1>3, <1>4, <3>1, <3>2
  <2>. QED  BY <1>4, <2>1, <2>2
<1>5. ASSUME k = "skip"
      PROVE  Done
  <2>1. T = SkipStates(c, F) /\ t = SkipTake(m, s)
    BY <1>5 DEF During, StatesOf, Take
  <2>2. SkipTurns(c, F, m, s, t)
    BY <1>0, <2>1, SkipTakeIs
  <2>3. (o => i /\ m.sent) /\ (m.N < c.nhead => ~m.sent)
    BY <1>5, LinkedIs, Zenon
  <2>4. F = {slot}
    BY <1>5
  <2>5. s.slot = slot /\ \A u \in S : u.slot = slot
    <3>1. \A u \in S : u.slot \in F
      BY SampleFields
    <3>. QED  BY <1>0, <2>4, <3>1
  <2>6. /\ t.mod.N < c.nhead => ~t.mod.sent
        /\ s.pressure = 0 => \/ t.out = <<>> /\ ~m.sent
                             \/ \E u \in S : t.out = <<u>> /\ u.pressure = 0
        /\ s.pressure # 0 /\ (t.out # <<>> \/ m.sent) => t.mod.sent
    BY <2>2, <2>3, Zenon DEF SkipTurns
  <2>7. s.pressure = 0 => ~o1
    BY <1>1, <2>3, <2>5, <2>6
  <2>8. s.pressure # 0 => i1 /\ (o1 => t.mod.sent)
    <3>1. s.pressure # 0 => i1
      BY <1>3, <1>5, <2>5
    <3>2. s.pressure # 0 /\ t.out = <<>> => (o1 => t.mod.sent)
      BY <1>1, <2>3, <2>6
    <3>. QED  BY <2>6, <3>1, <3>2
  <2>9. (o1 => i1 /\ t.mod.sent) /\ (t.mod.N < c.nhead => ~t.mod.sent)
    BY <2>6, <2>7, <2>8
  <2>. QED  BY ONLY <1>2, <1>5, <2>9
<1>6. ASSUME k = "pthres"
      PROVE  Done
  <2> DEFINE v == IF mt THEN PthresJudgeMt(m, s) ELSE PthresJudge(m, s)
  <2>1. m \in [Slots -> Presses] /\ t = Judged(v)
    BY <1>6 DEF During, StatesOf, Take, Presses
  <2>2. PthresTurns(F, mt, m, s, v)
    <3>. HIDE DEF v
    <3>1. v = IF mt THEN PthresJudgeMt(m, s) ELSE PthresJudge(m, s)
      BY DEF v
    <3>. QED  BY <1>0, <2>1, <3>1, PthresTurn
  <2>. HIDE DEF v
  <2>3. (o => m[slot].press) /\ (m[slot].press => i)
    BY <1>6, LinkedIs, Zenon
  <2>4. t.mod = v.mod /\ t.out = Taken(v)
    BY <2>1 DEF Judged
  <2>5. v.sample \in S /\ v.sample.slot = s.slot
    BY <2>2, Zenon DEF PthresTurns
  <2>6. /\ v.keep => (o1 <=> IF s.slot = slot THEN v.sample.pressure # 0 ELSE o)
        /\ ~v.keep => (o1 <=> o)
    BY <1>1, <2>4, <2>5 DEF Taken
  <2>7. IsPress(k, s.pressure) <=> ~(s.pressure < Pmin)
    BY <1>0, <1>6, PthresAssumption DEF IsPress
  <2>8. s.slot \in Slots
    BY <1>0
  <2> DEFINE Fine == (o1 => v.mod[slot].press) /\ (v.mod[slot].press => i1)
  <2>9. ASSUME s.pressure < Pmin, v.keep,
               v.mod = [m EXCEPT ![s.slot] = [press |-> FALSE, save |-> m[s.slot].save]],
               v.sample.pressure = 0
        PROVE  Fine
    <3> DEFINE r == [press |-> FALSE, save |-> m[s.slot].save]
    <3>2. ~r.press
      OBVIOUS
    <3>. HIDE DEF r
    <3>3. v.mod = [m EXCEPT ![s.slot] = r]
      BY <2>9 DEF r
    <3>1. /\ s.slot = slot => ~v.mod[slot].press
          /\ s.slot # slot => v.mod[slot] = m[slot]
      BY ONLY <1>0, <2>1, <3>2, <3>3
    <3>. QED  BY <1>3, <2>3, <2>6, <2>9, <3>1
  <2>10. ASSUME s.pressure < Pmin, ~m[s.slot].press, ~v.keep, v.mod = m
         PROVE  Fine
    BY <1>3, <2>3, <2>6, <2>10
  <2>11. ASSUME ~(s.pressure < Pmin), ~v.keep, v.mod = m
         PROVE  Fine
    BY <1>3, <2>3, <2>6, <2>7, <2>11
  <2>12. ASSUME ~(s.pressure < Pmin), v.keep,
                v.mod = [m EXCEPT ![s.slot] = [press |-> TRUE, save |-> s.pos]]
         PROVE  Fine
    <3> DEFINE r == [press |-> TRUE, save |-> s.pos]
    <3>2. r.press
      OBVIOUS
    <3>. HIDE DEF r
    <3>3. v.mod = [m EXCEPT ![s.slot] = r]
      BY <2>12 DEF r
    <3>1. /\ s.slot = slot => v.mod[slot].press
          /\ s.slot # slot => v.mod[slot] = m[slot]
      BY ONLY <1>0, <2>1, <3>2, <3>3
    <3>. QED  BY <1>3, <2>3, <2>6, <2>7, <2>12, <3>1
  <2>13. Fine
    <3>. HIDE DEF Fine
    <3>. QED  BY <2>2, <2>9, <2>10, <2>11, <2>12, Zenon DEF PthresTurns
  <2>. QED  BY ONLY <1>2, <1>6, <2>4, <2>13
<1>7. ASSUME k = "debounce"
      PROVE  Done
  <2> DEFINE v == DebounceJudge(m, s)
  <2>1. m \in Quiets /\ t = Judged(v)
    BY <1>7 DEF During, Take, Quiets
  <2>2. DebounceTurns(m, s, v)
    <3>. HIDE DEF v
    <3>1. v = DebounceJudge(m, s)
      BY DEF v
    <3>. QED  BY <2>1, <3>1, DebounceTurn
  <2>. HIDE DEF v
  <2>3. v.keep \in BOOLEAN /\ v.sample = s /\ (s.pressure = 0 => v.keep)
    BY <2>2, Zenon DEF DebounceTurns
  <2>4. t.out = Taken(v)
    BY <2>1 DEF Judged
  <2>5. o1 => i1
    <3>1. v.sample \in S /\ v.sample.slot = s.slot
      BY <2>3
    <3>2. s.pressure = 0 => v.keep /\ v.sample.pressure = 0
      BY <2>3
    <3>. QED  BY <1>14, <1>4, <1>7, <2>3, <2>4, <3>1, <3>2
  <2>. QED  BY ONLY <1>2, <1>7, <2>5
<1>8. ASSUME k = "singly"
      PROVE  Done
  <2> DEFINE q == [quiet |-> m, drop |-> FALSE]
             v == DebounceJudge(q, s)
  <2>1. m \in [Slots -> Int] /\ t = DebounceTake(m, s)
    BY <1>8 DEF During, Take
  <2>2. q \in Quiets
    BY <2>1 DEF Quiets
  <2>3. t = [mod |-> v.mod.quiet, out |-> Taken(v)]
    <3>. HIDE DEF v
    <3>1. v = DebounceJudge([quiet |-> m, drop |-> FALSE], s)
      BY DEF v
    <3>. QED  BY <2>1, <3>1, DebounceOnce
  <2>4. DebounceTurns(q, s, v)
    <3>. HIDE DEF v, q
    <3>1. v = DebounceJudge(q, s)
      BY DEF v
    <3>. QED  BY <2>2, <3>1, DebounceTurn
  <2>. HIDE DEF v, q
  <2>5. v.keep \in BOOLEAN /\ v.sample = s /\ (s.pressure = 0 => v.keep)
    BY <2>4, Zenon DEF DebounceTurns
  <2>6. t.out = Taken(v)
    BY <2>3
  <2>7. o1 => i1
    <3>1. v.sample \in S /\ v.sample.slot = s.slot
      BY <2>5
    <3>2. s.pressure = 0 => v.keep /\ v.sample.pressure = 0
      BY <2>5
    <3>. QED  BY <1>14, <1>4, <1>8, <2>5, <2>6, <3>1, <3>2
  <2>. QED  BY ONLY <1>2, <1>8, <2>7
<1>9. ASSUME k = "median"
      PROVE  Done
  <2> DEFINE v == IF mt THEN MedianJudgeMt(m, s) ELSE MedianJudge(m, s)
  <2>1. m \in [Slots -> Lines] /\ t = Judged(v)
    BY <1>9 DEF During, StatesOf, Take, Lines, Delays, Points, Depths
  <2>2. MedianTurns(F, mt, m, s, v)
    <3>. HIDE DEF v
    <3>1. v = IF mt THEN MedianJudgeMt(m, s) ELSE MedianJudge(m, s)
      BY DEF v
    <3>. QED  BY <1>0, <2>1, <3>1, MedianTurnIs
  <2>. HIDE DEF v
  <2>3. ~mt /\ Settled(m[slot]) /\ (Junky(m[slot]) \/ (o => i))
    BY <1>9, LinkedIs, Zenon
  <2>4. /\ v.keep = TRUE /\ v.sample \in S /\ v.sample.slot = s.slot
        /\ s.slot # slot => v.mod[slot] = m[slot]
        /\ Settled(m[s.slot]) =>
             /\ Settled(v.mod[s.slot])
             /\ s.pressure = 0 => v.sample.pressure = 0 \/ Junky(v.mod[s.slot])
    BY <1>0, <2>2, <2>3, Zenon DEF MedianTurns
  <2>5. t.mod = v.mod /\ t.out = <<v.sample>>
    BY <2>1, <2>4 DEF Judged, Taken
  <2>6. (o1 <=> IF s.slot = slot THEN v.sample.pressure # 0 ELSE o)
    BY <1>1, <2>4, <2>5
  <2>7. Settled(v.mod[slot]) /\ (Junky(v.mod[slot]) \/ (o1 => i1))
    <3>1. CASE s.slot = slot
      <4>1. i1 <=> s.pressure # 0
        BY <1>3, <1>9, <3>1
      <4>2. o1 <=> v.sample.pressure # 0
        BY <2>6, <3>1
      <4>3. /\ Settled(v.mod[slot])
            /\ s.pressure = 0 => v.sample.pressure = 0 \/ Junky(v.mod[slot])
        BY <2>3, <2>4, <3>1
      <4>. QED  BY ONLY <4>1, <4>2, <4>3, Zenon
    <3>2. CASE s.slot # slot
      BY <1>3, <2>3, <2>4, <2>6, <3>2
    <3>. QED  BY <3>1, <3>2
  <2>. QED  BY ONLY <1>2, <1>9, <2>5, <2>7
<1>10. ASSUME k = "variance"
      PROVE  Done
  <2>1. m \in VarianceStates(F) /\ t = VarianceTake(m, s)
    BY <1>10 DEF During, StatesOf, Take
  <2>2. s.pressure = 0 => t.out = <<s>>
    BY <2>1, VarianceTakeIs
  <2>3. s.slot = slot
    BY <1>0, <1>10
  <2>4. o1 => i1
    <3>1. s.pressure = 0 => ~o1
      BY <1>1, <2>2, <2>3
    <3>2. s.pressure # 0 => i1
      BY <1>3, <1>10, <2>3
    <3>. QED  BY <3>1, <3>2
  <2>. QED  BY ONLY <1>2, <1>10, <2>4
<1>11. ASSUME k = "dejitter"
      PROVE  Done
  <2> DEFINE v == DejitterJudge(m, s)
  <2>1. m \in [Slots -> Rings] /\ t = Judged(v)
    BY <1>11 DEF During, StatesOf, Take
  <2>2. PassesOn([Slots -> Rings], F, s, v)
    <3>. HIDE DEF v
    <3>1. v = DejitterJudge(m, s)
      BY DEF v
    <3>. QED  BY <2>1, <3>1, DejitterTurn
  <2>. HIDE DEF v
  <2>3. /\ v.keep = TRUE /\ v.sample \in S /\ v.sample.slot = s.slot
        /\ s.pressure = 0 => v.sample.pressure = 0
    BY <2>2, Zenon DEF PassesOn
  <2>4. t.out = Taken(v)
    BY <2>1 DEF Judged
  <2>5. o1 => i1
    BY <1>14, <1>4, <1>11, <2>3, <2>4
  <2>. QED  BY ONLY <1>2, <1>11, <2>5
<1>12. ASSUME k = "linear"
      PROVE  Done
  <2> DEFINE v == LinearJudge(m, s)
  <2>1. m = <<>> /\ t = Judged(v)
    BY <1>12 DEF During, StatesOf, Take
  <2>2. /\ v.keep = TRUE /\ v.sample \in S /\ v.sample.slot = s.slot
        /\ s.pressure = 0 => v.sample.pressure = 0
    <3>. HIDE DEF v
    <3>1. v = LinearJudge(<<>>, s)
      BY <2>1 DEF v
    <3>2. CalibratedPressure(0) = 0
      BY <1>12
    <3>3. LinearTurns(F, s, v)
      BY <3>1, LinearTurn
    <3>4. /\ v.keep = TRUE /\ v.sample \in S /\ v.sample.slot = s.slot
          /\ v.sample.pressure = CalibratedPressure(s.pressure)
      BY <3>3, Zenon DEF LinearTurns
    <3>. QED  BY ONLY <3>2, <3>4
  <2>. HIDE DEF v
  <2>3. t.out = Taken(v)
    BY <2>1 DEF Judged
  <2>4. o1 => i1
    BY <1>14, <1>4, <1>12, <2>2, <2>3
  <2>. QED  BY ONLY <1>2, <1>12, <2>4
<1>13. Done
  BY <1>0, <1>5, <1>6, <1>7, <1>8, <1>9, <1>10, <1>11, <1>12 DEF Kind, Filters
<1>. QED  BY <1>13 DEF Done, o1, i1

-----------------------------------------------------------------------------
(* A filter's walk over what it is given                                   *)

\* its state, and what it has passed on, with one sample after the other
Walk(k, mt, m, b) ==
  LET w[n \in 0 .. Len(b)] ==
        IF n = 0 THEN [mod |-> m, out |-> <<>>]
        ELSE [mod |-> Take(k, mt, w[n - 1].mod, b[n]).mod,
              out |-> w[n - 1].out \o Take(k, mt, w[n - 1].mod, b[n]).out]
  IN w

Walked(w, k, mt, T, S, m, b) ==
  /\ DOMAIN w = 0 .. Len(b)
  /\ \A n \in 0 .. Len(b) : w[n] \in Turns(T, S)
  /\ w[0] = [mod |-> m, out |-> <<>>]
  /\ \A n \in 1 .. Len(b) :
       /\ Take(k, mt, w[n - 1].mod, b[n]) \in Turns(T, S)
       /\ w[n] = [mod |-> Take(k, mt, w[n - 1].mod, b[n]).mod,
                  out |-> w[n - 1].out \o Take(k, mt, w[n - 1].mod, b[n]).out]

\* The filter can go all the way.
LEMMA WalkIs ==
  ASSUME NEW c, Counts(c), NEW F \in SUBSET Slots, NEW mt, NEW k, Legal(k, mt),
         NEW m \in During(k, c, F), NEW b \in Seq(Samples(F))
  PROVE  Walked(Walk(k, mt, m, b), k, mt, During(k, c, F), Samples(F), m, b)
<1> DEFINE S == Samples(F)
           T == During(k, c, F)
           D == Turns(T, S)
           L == Len(b)
           a == [mod |-> m, out |-> <<>>]
           Then(u, n) == [mod |-> Take(k, mt, u.mod, b[n]).mod,
                          out |-> u.out \o Take(k, mt, u.mod, b[n]).out]
           G == [n \in 1 .. L |-> [u \in D |-> Then(u, n)]]
           w == Walk(k, mt, m, b)
<1>1. L \in Nat /\ a \in D /\ \A n \in 1 .. L : b[n] \in S
  BY DEF Turns
<1>2. ASSUME NEW n \in 1 .. L, NEW u \in D
      PROVE  Take(k, mt, u.mod, b[n]) \in D /\ Then(u, n) \in D
  <2> DEFINE t == Take(k, mt, u.mod, b[n])
  <2>1. u.mod \in T /\ u.out \in Seq(S)
    BY DEF Turns
  <2>2. t \in D
    <3>. HIDE DEF t, T, S
    <3>1. t = Take(k, mt, u.mod, b[n]) /\ b[n] \in S
      BY <1>1 DEF t
    <3>. QED  BY <2>1, <3>1, TakeIs DEF T, S
  <2>3. Then(u, n) = [mod |-> t.mod, out |-> u.out \o t.out]
    OBVIOUS
  <2>. HIDE DEF t, T, S
  <2>4. t.mod \in T /\ t.out \in Seq(S)
    BY <2>2 DEF Turns
  <2>5. u.out \o t.out \in Seq(S)
    BY <2>1, <2>4, ConcatProperties
  <2>6. [mod |-> t.mod, out |-> u.out \o t.out] \in D
    BY ONLY <2>4, <2>5 DEF Turns, D
  <2>. QED  BY <2>2, <2>3, <2>6 DEF t
<1>3. G \in [1 .. L -> [D -> D]]
  <2>. HIDE DEF D, Then
  <2>. QED  BY <1>2
<1>4. w = CHOOSE f : f = [n \in 0 .. Len(b) |-> IF n = 0 THEN [mod |-> m, out |-> <<>>]
                                                 ELSE Then(f[n - 1], n)]
  BY DEF Walk
<1>. HIDE DEF a, D, L
<1>5. PICK f : Runs(f, L, D, a, G)
  <2>. HIDE DEF G
  <2>. QED  BY <1>1, <1>3, StepsExist
<1>6. f \in [0 .. L -> D] /\ f[0] = a /\ \A n \in 1 .. L : f[n] = Then(f[n - 1], n)
  <2>1. f \in [0 .. L -> D] /\ f[0] = a /\ \A n \in 1 .. L : f[n] = G[n][f[n - 1]]
    BY <1>5, Zenon DEF Runs
  <2>2. \A n \in 1 .. L : n - 1 \in 0 .. L
    BY <1>1
  <2>3. \A n \in 1 .. L : f[n - 1] \in D
    BY <2>1, <2>2
  <2>. HIDE DEF Then
  <2>4. \A n \in 1 .. L : G[n][f[n - 1]] = Then(f[n - 1], n)
    BY <2>3
  <2>. QED  BY <2>1, <2>4
<1>. HIDE DEF Then, G, w
<1>7. f = [n \in 0 .. L |-> IF n = 0 THEN a ELSE Then(f[n - 1], n)]
  <2>1. \A n \in 0 .. L : n # 0 => n \in 1 .. L
    BY <1>1
  <2>. QED  BY <1>6, <2>1
<1>8. w = [n \in 0 .. L |-> IF n = 0 THEN a ELSE Then(w[n - 1], n)]
  <2>1. w = CHOOSE g : g = [n \in 0 .. L |-> IF n = 0 THEN a ELSE Then(g[n - 1], n)]
    BY <1>4 DEF a, L
  <2>. QED  BY ONLY <1>7, <2>1, Zenon
<1>9. DOMAIN w = 0 .. L /\ w[0] = a /\ \A n \in 1 .. L : w[n] = Then(w[n - 1], n)
  <2>1. 0 \in 0 .. L /\ \A n \in 1 .. L : n \in 0 .. L /\ n # 0
    BY <1>1
  <2>. QED  BY ONLY <1>8, <2>1
<1>10. \A n \in 0 .. L : w[n] \in D
  <2> DEFINE P == {n \in 0 .. L : w[n] \in D}
  <2>1. 0 \in P
    BY <1>1, <1>9
  <2>2. ASSUME NEW n \in 0 .. L - 1, n \in P
        PROVE  n + 1 \in P
    <3>1. n + 1 \in 1 .. L /\ (n + 1) - 1 = n /\ n + 1 \in 0 .. L
      BY <1>1
    <3>2. w[n + 1] = Then(w[n], n + 1) /\ w[n] \in D
      BY <1>9, <2>2, <3>1
    <3>. QED  BY <1>2, <3>1, <3>2
  <2>. HIDE DEF P
  <2>3. \A n \in 0 .. L : n \in P
    BY <1>1, <2>1, <2>2, CountUp
  <2>. QED  BY <2>3 DEF P
<1>11. \A n \in 1 .. L : Take(k, mt, w[n - 1].mod, b[n]) \in D
  <2>1. \A n \in 1 .. L : n - 1 \in 0 .. L
    BY <1>1
  <2>. QED  BY <1>2, <1>10, <2>1
<1>. QED  BY <1>9, <1>10, <1>11, Zenon DEF Walked, D, S, T, L, a, w, Then

\* The first n + 1 samples are the first n and one more.
LEMMA OneMore ==
  ASSUME NEW S, NEW b \in Seq(S), NEW n \in 0 .. Len(b) - 1
  PROVE  /\ SubSeq(b, 1, n) \in Seq(S) /\ b[n + 1] \in S
         /\ SubSeq(b, 1, n + 1) = SubSeq(b, 1, n) \o <<b[n + 1]>>
<1> DEFINE p == SubSeq(b, 1, n)
           q == SubSeq(b, 1, n + 1)
           r == p \o <<b[n + 1]>>
<1>1. Len(b) \in Nat /\ n \in Nat /\ n + 1 \in 1 .. Len(b) /\ n + 1 \in Nat
  OBVIOUS
<1>2. p \in Seq(S) /\ Len(p) = n /\ \A i \in 1 .. n : p[i] = b[i]
  BY <1>1
<1>3. q \in Seq(S) /\ Len(q) = n + 1 /\ \A i \in 1 .. n + 1 : q[i] = b[i]
  BY <1>1
<1>4. b[n + 1] \in S
  BY <1>1
<1>. HIDE DEF p, q
<1> DEFINE e == <<b[n + 1]>>
<1>5. e \in Seq(S) /\ Len(e) = 1 /\ e[1] = b[n + 1]
  BY <1>4
<1>. HIDE DEF e
<1>6. /\ p \o e \in Seq(S) /\ Len(p \o e) = n + 1
      /\ \A i \in 1 .. n + 1 : (p \o e)[i] = IF i <= n THEN p[i] ELSE e[i - n]
  <2>1. /\ p \o e \in Seq(S) /\ Len(p \o e) = Len(p) + Len(e)
        /\ \A i \in 1 .. Len(p) + Len(e) : (p \o e)[i] = IF i <= Len(p) THEN p[i] ELSE e[i - Len(p)]
    BY ONLY <1>2, <1>5, ConcatProperties
  <2>2. Len(p) = n /\ Len(e) = 1
    BY <1>2, <1>5
  <2>. QED  BY ONLY <2>1, <2>2
<1>7. \A i \in 1 .. n + 1 : (p \o e)[i] = q[i]
  <2> TAKE i \in 1 .. n + 1
  <2>1. CASE i <= n
    <3>1. i \in 1 .. n
      BY ONLY <1>1, <2>1, i \in 1 .. n + 1
    <3>. QED  BY ONLY <1>2, <1>3, <1>6, <2>1, <3>1, i \in 1 .. n + 1
  <2>2. CASE ~(i <= n)
    <3>1. i = n + 1 /\ i - n = 1
      BY ONLY <1>1, <2>2, i \in 1 .. n + 1
    <3>. QED  BY ONLY <1>3, <1>5, <1>6, <2>2, <3>1, i \in 1 .. n + 1
  <2>. QED  BY ONLY <2>1, <2>2
<1>8. p \o e = q
  BY ONLY <1>3, <1>6, <1>7, SeqEqual
<1>. QED  BY <1>2, <1>4, <1>8 DEF p, q, e

\* None of them are none, and all of them are all.
LEMMA AllOfThem ==
  ASSUME NEW S, NEW b \in Seq(S)
  PROVE  SubSeq(b, 1, Len(b)) = b /\ SubSeq(b, 1, 0) = <<>>
OBVIOUS

\* A sample that would make i out of nothing.
Old(k, i) == [pressure |-> IF k = "pthres" THEN (IF i THEN Pmin ELSE Pmin - 1)
                           ELSE IF i THEN 1 ELSE 0]

\* Whether the last sample of the slot that the filter was given is a press.
Given(k, b, slot, i) == IsPress(k, LastOf(b, slot, Old(k, i)).pressure)

\* Without samples the last is the one before.
LEMMA LastOfNone == \A slot, old : LastOf(<<>>, slot, old) = old
<1> TAKE slot, old
<1> DEFINE z == <<>>
<1>1. z \in Seq(Samples({})) /\ \A j \in 1 .. Len(z) : z[j].slot # slot
  OBVIOUS
<1>. HIDE DEF z
<1>2. LastOf(z, slot, old) = old
  BY <1>1, LastOfIs
<1>. QED  BY <1>2 DEF z

\* With no sample it is as it was.
LEMMA GivenNone ==
  ASSUME NEW slot, NEW i \in BOOLEAN, NEW k
  PROVE  (IsPress(k, Old(k, i).pressure) <=> i) /\ (Given(k, <<>>, slot, i) <=> i)
<1> DEFINE old == Old(k, i)
<1>1. IsPress(k, old.pressure) <=> i
  <2>1. Pmin \in Nat
    BY PthresAssumption
  <2>2. CASE k = "pthres"
    <3>1. old.pressure = IF i THEN Pmin ELSE Pmin - 1
      BY <2>2 DEF Old
    <3>2. IsPress(k, old.pressure) <=> old.pressure >= Pmin
      BY <2>2 DEF IsPress
    <3>. HIDE DEF old
    <3>. QED  BY <2>1, <3>1, <3>2
  <2>3. CASE k # "pthres"
    <3>1. old.pressure = IF i THEN 1 ELSE 0
      BY <2>3 DEF Old
    <3>2. IsPress(k, old.pressure) <=> old.pressure # 0
      BY <2>3 DEF IsPress
    <3>. HIDE DEF old
    <3>. QED  BY <3>1, <3>2
  <2>. QED  BY ONLY <2>2, <2>3
<1>. HIDE DEF old
<1>2. LastOf(<<>>, slot, old) = old
  BY LastOfNone
<1>3. Given(k, <<>>, slot, i) = IsPress(k, LastOf(<<>>, slot, old).pressure)
  BY DEF Given, old
<1>4. Given(k, <<>>, slot, i) = IsPress(k, old.pressure)
  BY ONLY <1>2, <1>3
<1>5. Given(k, <<>>, slot, i) <=> i
  BY ONLY <1>1, <1>4
<1>. QED  BY <1>1, <1>5 DEF old

\* One sample is the last of its slot.
LEMMA LastOfOne ==
  ASSUME NEW F, NEW s \in Samples(F), NEW slot, NEW old
  PROVE  LastOf(<<s>>, slot, old) = IF s.slot = slot THEN s ELSE old
<1> DEFINE e == <<s>>
<1>1. e \in Seq(Samples(F)) /\ Len(e) = 1 /\ e[1] = s
  OBVIOUS
<1>. HIDE DEF e
<1>2. \A j \in 1 + 1 .. Len(e) : e[j].slot # slot
  BY <1>1
<1>3. \A i \in 1 .. Len(e) : e[i] = s
  BY <1>1
<1>4. 1 \in 1 .. Len(e)
  BY <1>1
<1>5. CASE s.slot = slot
  <2>1. LastOf(e, slot, old) = e[1]
    BY <1>1, <1>2, <1>4, <1>5, LastOfIs
  <2>. QED  BY <1>1, <1>5, <2>1 DEF e
<1>6. CASE s.slot # slot
  <2>1. LastOf(e, slot, old) = old
    BY <1>1, <1>3, <1>6, LastOfIs
  <2>. QED  BY <1>6, <2>1 DEF e
<1>. QED  BY <1>5, <1>6

\* It is the same if the last sample is taken by itself.
LEMMA GivenMore ==
  ASSUME NEW F, NEW a \in Seq(Samples(F)), NEW s \in Samples(F), NEW slot, NEW i \in BOOLEAN, NEW k
  PROVE  Given(k, a \o <<s>>, slot, i) =
           IF s.slot = slot THEN IsPress(k, s.pressure) ELSE Given(k, a, slot, i)
<1> DEFINE old == Old(k, i)
           e == <<s>>
           mid == LastOf(a, slot, old)
<1>. HIDE DEF old
<1>3. e \in Seq(Samples(F)) /\ Len(e) = 1 /\ e[1] = s
  OBVIOUS
<1>. HIDE DEF e
<1>4. LastOf(a \o e, slot, old) = LastOf(e, slot, mid)
  BY <1>3, LastOfConcat
<1>5. LastOf(e, slot, mid) = IF s.slot = slot THEN s ELSE mid
  BY LastOfOne DEF e
<1>7. Given(k, a \o e, slot, i) = IsPress(k, LastOf(a \o e, slot, old).pressure)
      /\ Given(k, a, slot, i) = IsPress(k, mid.pressure)
  BY DEF Given, old
<1>8. Given(k, a \o e, slot, i) =
        IF s.slot = slot THEN IsPress(k, s.pressure) ELSE Given(k, a, slot, i)
  BY ONLY <1>4, <1>5, <1>7
<1>. QED  BY <1>8 DEF e

\* Whoever is not pthres sees what whoever is not pthres shows.
LEMMA GivenShows ==
  ASSUME NEW k, k # "pthres", NEW b, NEW slot, NEW i
  PROVE  Given(k, b, slot, i) = Shows(b, slot, i)
BY DEF Given, Shows, IsPress, Old

\* Both are yes or no.
LEMMA GivenIsBool ==
  ASSUME NEW F, NEW b \in Seq(Samples(F)), NEW slot, NEW i \in BOOLEAN, NEW k
  PROVE  Given(k, b, slot, i) \in BOOLEAN /\ Shows(b, slot, i) \in BOOLEAN
<1> DEFINE old == Old(k, i)
<1>1. \A p \in Int : IsPress(k, p) \in BOOLEAN
  <2>1. \A p \in Int : (p >= Pmin) \in BOOLEAN /\ (p # 0) \in BOOLEAN
    BY PthresAssumption
  <2>2. \A p : IsPress(k, p) = IF k = "pthres" THEN p >= Pmin ELSE p # 0
    BY Zenon DEF IsPress
  <2>3. CASE k = "pthres"
    <3>1. \A p : IsPress(k, p) = (p >= Pmin)
      BY <2>2, <2>3, Zenon
    <3>. QED  BY ONLY <2>1, <3>1, Zenon
  <2>4. CASE k # "pthres"
    <3>1. \A p : IsPress(k, p) = (p # 0)
      BY <2>2, <2>4, Zenon
    <3>. QED  BY ONLY <2>1, <3>1, Zenon
  <2>. QED  BY <2>3, <2>4
<1>2. old.pressure \in Int
  BY PthresAssumption DEF Old
<1>3. Given(k, b, slot, i) = IsPress(k, LastOf(b, slot, old).pressure)
  BY DEF Given
<1>. HIDE DEF old
<1>4. LastOf(b, slot, old).pressure \in Int
  <2>1. \A j \in 1 .. Len(b) : b[j].pressure \in Int
    BY SampleFields
  <2>2. CASE \A j \in 1 .. Len(b) : b[j].slot # slot
    <3>1. LastOf(b, slot, old) = old
      BY <2>2, LastOfIs
    <3>. QED  BY <1>2, <3>1
  <2>3. CASE \E j \in 1 .. Len(b) :
               b[j].slot = slot /\ \A l \in j + 1 .. Len(b) : b[l].slot # slot
    <3>1. PICK j \in 1 .. Len(b) :
            b[j].slot = slot /\ \A l \in j + 1 .. Len(b) : b[l].slot # slot
      BY <2>3
    <3>2. LastOf(b, slot, old) = b[j]
      BY <3>1, LastOfIs
    <3>. QED  BY <2>1, <3>2
  <2>. QED  BY <2>2, <2>3, LastExists
<1>5. Given(k, b, slot, i) \in BOOLEAN
  BY ONLY <1>1, <1>3, <1>4
<1>6. Shows(b, slot, i) \in BOOLEAN
  BY DEF Shows
<1>. QED  BY <1>5, <1>6

\* What is known of the slot is known at the end of the walk.
LEMMA WalkLinks ==
  ASSUME NEW c, Counts(c), NEW F \in SUBSET Slots, NEW mt, NEW k, Legal(k, mt),
         k = "median" => ~mt, k = "linear" => CalibratedPressure(0) = 0,
         NEW slot \in F, k \in {"skip", "variance"} => F = {slot},
         NEW m \in During(k, c, F), NEW b \in Seq(Samples(F)),
         NEW w, w = Walk(k, mt, m, b),
         NEW i \in BOOLEAN, NEW o \in BOOLEAN, Linked(k, c, m, slot, i, o)
  PROVE  Linked(k, c, w[Len(b)].mod, slot, Given(k, b, slot, i), Shows(w[Len(b)].out, slot, o))
<1> DEFINE S == Samples(F)
           T == During(k, c, F)
           L == Len(b)
           I(n) == Given(k, SubSeq(b, 1, n), slot, i)
           O(n) == Shows(w[n].out, slot, o)
           P == {n \in 0 .. L : Linked(k, c, w[n].mod, slot, I(n), O(n))}
<1>1. Walked(w, k, mt, T, S, m, b)
  <2>1. Walked(Walk(k, mt, m, b), k, mt, During(k, c, F), Samples(F), m, b)
    BY ONLY Counts(c), F \in SUBSET Slots, Legal(k, mt), m \in During(k, c, F),
            b \in Seq(Samples(F)), WalkIs
  <2>. QED  BY <2>1
<1>2. L \in Nat /\ 0 \in 0 .. L /\ L \in 0 .. L
  OBVIOUS
<1>3. 0 \in P
  <2>1. w[0] = [mod |-> m, out |-> <<>>]
    BY <1>1 DEF Walked
  <2>2. SubSeq(b, 1, 0) = <<>>
    BY AllOfThem
  <2>9. /\ Given(k, <<>>, slot, i) \in BOOLEAN /\ Shows(<<>>, slot, o) \in BOOLEAN
        /\ Given(k, <<>>, slot, i) <=> i
        /\ Shows(<<>>, slot, o) <=> o
    <3>1. <<>> \in Seq(Samples({}))
      OBVIOUS
    <3>2. Given(k, <<>>, slot, i) \in BOOLEAN /\ Shows(<<>>, slot, o) \in BOOLEAN
      BY ONLY <3>1, i \in BOOLEAN, o \in BOOLEAN, GivenIsBool
    <3>. QED  BY ONLY <3>2, i \in BOOLEAN, o \in BOOLEAN, GivenNone, ShowsOne
  <2>3. Given(k, <<>>, slot, i) = i
    BY <2>9
  <2>4. Shows(<<>>, slot, o) = o
    BY <2>9
  <2>5. w[0].mod = m /\ I(0) = i /\ O(0) = o
    <3>1. w[0].mod = m /\ w[0].out = <<>>
      BY <2>1
    <3>. QED  BY ONLY <2>2, <2>3, <2>4, <3>1, Zenon
  <2>6. Linked(k, c, w[0].mod, slot, I(0), O(0))
    BY ONLY <2>5, Linked(k, c, m, slot, i, o)
  <2>. QED  BY <1>2, <2>6
<1>4. ASSUME NEW n \in 0 .. L - 1, n \in P
      PROVE  n + 1 \in P
  <2> DEFINE s == b[n + 1]
             v == w[n].mod
             t == Take(k, mt, v, s)
             x == I(n)
             y == O(n)
  <2>1. n + 1 \in 1 .. L /\ (n + 1) - 1 = n /\ n + 1 \in 0 .. L /\ n \in 0 .. L
    BY <1>2
  <2>2. /\ w[n] \in Turns(T, S) /\ t \in Turns(T, S)
        /\ w[n + 1] = [mod |-> t.mod, out |-> w[n].out \o t.out]
    BY <1>1, <2>1 DEF Walked
  <2>3. v \in T /\ w[n].out \in Seq(S) /\ t.out \in Seq(S)
    BY <2>2 DEF Turns
  <2>4. SubSeq(b, 1, n) \in Seq(S) /\ s \in S /\ SubSeq(b, 1, n + 1) = SubSeq(b, 1, n) \o <<s>>
    BY OneMore
  <2>5. Linked(k, c, v, slot, x, y) /\ x \in BOOLEAN /\ y \in BOOLEAN
    <3>1. Linked(k, c, v, slot, x, y)
      BY <1>4
    <3>2. SubSeq(b, 1, n) \in Seq(Samples(F)) /\ w[n].out \in Seq(Samples(F))
      BY <2>3, <2>4
    <3>3. x \in BOOLEAN /\ y \in BOOLEAN
      BY ONLY <3>2, i \in BOOLEAN, o \in BOOLEAN, GivenIsBool
    <3>. QED  BY <3>1, <3>3
  <2>6. I(n + 1) = IF s.slot = slot THEN IsPress(k, s.pressure) ELSE x
    <3> DEFINE a == SubSeq(b, 1, n)
    <3>1. a \in Seq(Samples(F)) /\ s \in Samples(F) /\ I(n + 1) = Given(k, a \o <<s>>, slot, i)
      BY <2>4
    <3>. HIDE DEF s, I, S
    <3>2. a \in Seq(Samples(F)) => Given(k, a \o <<s>>, slot, i) =
            IF s.slot = slot THEN IsPress(k, s.pressure) ELSE Given(k, a, slot, i)
      <4>. HIDE DEF a
      <4>. QED  BY <3>1, GivenMore
    <3>. QED  BY ONLY <3>1, <3>2 DEF I
  <2>7. O(n + 1) = Shows(t.out, slot, y)
    <3> DEFINE a == w[n].out
               d == t.out
    <3>0. a \in Seq(Samples(F)) /\ d \in Seq(Samples(F))
      BY <2>3
    <3>1. w[n + 1].out = a \o d
      <4>1. w[n + 1] = [mod |-> t.mod, out |-> a \o d]
        BY <2>2
      <4>. HIDE DEF t, a, d
      <4>. QED  BY ONLY <4>1
    <3>. HIDE DEF a, d
    <3>2. Shows(a \o d, slot, o) = Shows(d, slot, Shows(a, slot, o))
      BY <3>0, ShowsConcat
    <3>. QED  BY <3>1, <3>2 DEF a, d
  <2>8. w[n + 1].mod = t.mod
    <3> DEFINE a == w[n].out \o t.out
    <3>1. w[n + 1] = [mod |-> t.mod, out |-> a]
      BY <2>2
    <3>. HIDE DEF t, a
    <3>. QED  BY ONLY <3>1
  <2>9. Linked(k, c, t.mod, slot, IF s.slot = slot THEN IsPress(k, s.pressure) ELSE x,
               Shows(t.out, slot, y))
    <3>1. v \in During(k, c, F) /\ s \in Samples(F)
      BY <2>3, <2>4
    <3>. HIDE DEF v, s, x, y, T, S
    <3>. QED  BY <2>5, <3>1, TakeLinks
  <2>10. Linked(k, c, w[n + 1].mod, slot, I(n + 1), O(n + 1))
    BY ONLY <2>6, <2>7, <2>8, <2>9
  <2>. QED  BY <2>1, <2>10
<1>5. L \in P
  <2>. HIDE DEF P
  <2>1. \A n \in 0 .. L : n \in P
    BY <1>2, <1>3, <1>4, CountUp
  <2>. QED  BY <1>2, <2>1
<1>6. SubSeq(b, 1, L) = b
  BY AllOfThem
<1>7. Linked(k, c, w[L].mod, slot, I(L), O(L))
  BY <1>5
<1>. QED  BY ONLY <1>6, <1>7

-----------------------------------------------------------------------------
(* The loops of the filters take them that way                             *)

Judges == {"pthres", "debounce", "median", "dejitter", "linear"}

JudgeOf(k, mt, m, s) ==
  CASE k = "pthres"   -> IF mt THEN PthresJudgeMt(m, s) ELSE PthresJudge(m, s)
    [] k = "debounce" -> DebounceJudge(m, s)
    [] k = "median"   -> IF mt THEN MedianJudgeMt(m, s) ELSE MedianJudge(m, s)
    [] k = "dejitter" -> DejitterJudge(m, s)
    [] k = "linear"   -> LinearJudge(m, s)

\* What that is for each of them.
LEMMA JudgesAre ==
  /\ \A m, s : JudgeOf("pthres", FALSE, m, s) = PthresJudge(m, s)
  /\ \A m, s : JudgeOf("pthres", TRUE, m, s) = PthresJudgeMt(m, s)
  /\ \A mt, m, s : JudgeOf("debounce", mt, m, s) = DebounceJudge(m, s)
  /\ \A m, s : JudgeOf("median", FALSE, m, s) = MedianJudge(m, s)
  /\ \A m, s : JudgeOf("median", TRUE, m, s) = MedianJudgeMt(m, s)
  /\ \A mt, m, s : JudgeOf("dejitter", mt, m, s) = DejitterJudge(m, s)
  /\ \A mt, m, s : JudgeOf("linear", mt, m, s) = LinearJudge(m, s)
BY DEF JudgeOf

\* A verdict has a sample, and is what Take is made of.
LEMMA JudgeIs ==
  ASSUME NEW c, Counts(c), NEW F \in SUBSET Slots, NEW mt \in BOOLEAN, NEW k \in Judges,
         NEW m \in During(k, c, F), NEW s \in Samples(F), NEW v, v = JudgeOf(k, mt, m, s)
  PROVE  /\ Take(k, mt, m, s) = Judged(v)
         /\ v.keep \in BOOLEAN /\ v.sample \in Samples(F)
<1>1. Take(k, mt, m, s) = Judged(v)
  BY DEF Take, JudgeOf, Judges
<1>2. CASE k = "pthres"
  <2>1. m \in [Slots -> Presses] /\ v = IF mt THEN PthresJudgeMt(m, s) ELSE PthresJudge(m, s)
    BY <1>2 DEF During, StatesOf, Presses, JudgeOf
  <2>2. PthresTurns(F, mt, m, s, v)
    BY <2>1, PthresTurn
  <2>3. v.keep \in BOOLEAN /\ v.sample \in Samples(F)
    BY <2>2, Zenon DEF PthresTurns
  <2>. QED  BY <1>1, <2>3
<1>3. CASE k = "debounce"
  <2>1. m \in Quiets /\ v = DebounceJudge(m, s)
    BY <1>3 DEF During, Quiets, JudgeOf
  <2>2. DebounceTurns(m, s, v)
    BY <2>1, DebounceTurn
  <2>3. v.keep \in BOOLEAN /\ v.sample = s
    BY <2>2, Zenon DEF DebounceTurns
  <2>. QED  BY <1>1, <2>3
<1>4. CASE k = "median"
  <2>1. m \in [Slots -> Lines] /\ v = IF mt THEN MedianJudgeMt(m, s) ELSE MedianJudge(m, s)
    BY <1>4 DEF During, StatesOf, Lines, Depths, Points, Delays, JudgeOf
  <2>2. MedianTurns(F, mt, m, s, v)
    BY <2>1, MedianTurnIs
  <2>3. v.keep = TRUE /\ v.sample \in Samples(F)
    BY <2>2, Zenon DEF MedianTurns
  <2>. QED  BY <1>1, <2>3
<1>5. CASE k = "dejitter"
  <2>1. m \in [Slots -> Rings] /\ v = DejitterJudge(m, s)
    BY <1>5 DEF During, StatesOf, JudgeOf
  <2>2. PassesOn([Slots -> Rings], F, s, v)
    BY <2>1, DejitterTurn
  <2>3. v.keep = TRUE /\ v.sample \in Samples(F)
    BY <2>2, Zenon DEF PassesOn
  <2>. QED  BY <1>1, <2>3
<1>6. CASE k = "linear"
  <2>1. v = LinearJudge(<<>>, s)
    BY <1>6 DEF During, StatesOf, JudgeOf
  <2>2. LinearTurns(F, s, v)
    BY <2>1, LinearTurn
  <2>3. v.keep = TRUE /\ v.sample \in Samples(F)
    BY <2>2, Zenon DEF LinearTurns
  <2>. QED  BY <1>1, <2>3
<1>. QED  BY <1>2, <1>3, <1>4, <1>5, <1>6 DEF Judges

Begun(m) == [mod |-> m, out |-> <<>>]
Step(u, v) == [mod |-> v.mod, out |-> Passed(u.out, v)]

\* u goes over the samples with one verdict after the other
Follows(u, k, mt, m, b) ==
  /\ u[0] = Begun(m)
  /\ \A n \in 1 .. Len(b) : u[n] = Step(u[n - 1], JudgeOf(k, mt, u[n - 1].mod, b[n]))

\* The walk does,
LEMMA WalkFollows ==
  ASSUME NEW c, Counts(c), NEW F \in SUBSET Slots, NEW mt \in BOOLEAN, NEW k \in Judges,
         NEW m \in During(k, c, F), NEW b \in Seq(Samples(F)), NEW w,
         Walked(w, k, mt, During(k, c, F), Samples(F), m, b)
  PROVE  Follows(w, k, mt, m, b)
<1> DEFINE S == Samples(F)
           T == During(k, c, F)
<1>1. w[0] = Begun(m)
  BY DEF Walked, Begun
<1>2. ASSUME NEW n \in 1 .. Len(b)
      PROVE  w[n] = Step(w[n - 1], JudgeOf(k, mt, w[n - 1].mod, b[n]))
  <2> DEFINE u == w[n - 1]
             s == b[n]
             v == JudgeOf(k, mt, u.mod, s)
             t == Take(k, mt, u.mod, s)
  <2>1. n - 1 \in 0 .. Len(b) /\ s \in S
    OBVIOUS
  <2>2. u \in Turns(T, S) /\ w[n] = [mod |-> t.mod, out |-> u.out \o t.out]
    BY <2>1 DEF Walked
  <2>3. u.mod \in T /\ u.out \in Seq(S)
    BY <2>2 DEF Turns
  <2>4. t = Judged(v) /\ v.keep \in BOOLEAN /\ v.sample \in S
    <3> DEFINE x == u.mod
    <3>1. x \in During(k, c, F) /\ s \in Samples(F) /\ v = JudgeOf(k, mt, x, s)
      BY <2>1, <2>3
    <3>. HIDE DEF x, s, v
    <3>2. Take(k, mt, x, s) = Judged(v) /\ v.keep \in BOOLEAN /\ v.sample \in Samples(F)
      BY ONLY Counts(c), F \in SUBSET Slots, mt \in BOOLEAN, k \in Judges, <3>1, JudgeIs
    <3>. QED  BY <3>2 DEF x
  <2>. HIDE DEF v, t, u
  <2>5. t.mod = v.mod /\ t.out = Taken(v)
    BY <2>4 DEF Judged
  <2>6. Passed(u.out, v) = u.out \o Taken(v)
    <3> DEFINE x == u.out
    <3>1. x \in Seq(S) /\ v.keep \in BOOLEAN /\ v.sample \in S
      BY <2>3, <2>4
    <3>. HIDE DEF x, S
    <3>2. Passed(x, v) = x \o Taken(v)
      BY ONLY <3>1, PassedOn
    <3>. QED  BY <3>2 DEF x
  <2>7. w[n] = Step(u, v)
    BY ONLY <2>2, <2>5, <2>6 DEF Step
  <2>. QED  BY <2>7 DEF u, v
<1>. QED  BY <1>1, <1>2, Zenon DEF Follows

\* and nothing else does.
LEMMA FollowsOnce ==
  ASSUME NEW k, NEW mt, NEW m, NEW S, NEW b \in Seq(S), NEW u, NEW w,
         Follows(u, k, mt, m, b), Follows(w, k, mt, m, b)
  PROVE  u[Len(b)] = w[Len(b)]
<1> DEFINE L == Len(b)
           P == {n \in 0 .. L : u[n] = w[n]}
<1>1. L \in Nat /\ 0 \in 0 .. L /\ L \in 0 .. L
  OBVIOUS
<1>2. 0 \in P
  BY <1>1 DEF Follows
<1>3. ASSUME NEW n \in 0 .. L - 1, n \in P
      PROVE  n + 1 \in P
  <2>1. n + 1 \in 1 .. L /\ n + 1 \in 0 .. L /\ (n + 1) - 1 = n
    BY <1>1
  <2>2. u[n] = w[n]
    BY <1>3
  <2>3. /\ u[n + 1] = Step(u[n], JudgeOf(k, mt, u[n].mod, b[n + 1]))
        /\ w[n + 1] = Step(w[n], JudgeOf(k, mt, w[n].mod, b[n + 1]))
    BY <2>1 DEF Follows
  <2>. QED  BY <2>1, <2>2, <2>3
<1>. HIDE DEF P
<1>4. \A n \in 0 .. L : n \in P
  BY <1>1, <1>2, <1>3, CountUp
<1>. QED  BY <1>1, <1>4 DEF P

\* What follows, on these places.
On(w, b) == [n \in 0 .. Len(b) |-> w[n]]

Unrolled(g, k, mt, m, b) ==
  /\ g = [n \in 0 .. Len(b) |-> g[n]]
  /\ \A n \in 0 .. Len(b) :
       g[n] = IF n = 0 THEN Begun(m) ELSE Step(g[n - 1], JudgeOf(k, mt, g[n - 1].mod, b[n]))

\* It follows there.
LEMMA OnFollows ==
  ASSUME NEW k, NEW mt, NEW m, NEW S, NEW b \in Seq(S), NEW w, Follows(w, k, mt, m, b)
  PROVE  Unrolled(On(w, b), k, mt, m, b)
<1>1. Len(b) \in Nat /\ \A n \in 0 .. Len(b) : n # 0 => n \in 1 .. Len(b) /\ n - 1 \in 0 .. Len(b)
  OBVIOUS
<1>2. \A n \in 0 .. Len(b) : On(w, b)[n] = w[n]
  BY DEF On
<1>3. \A n \in 0 .. Len(b) :
        w[n] = IF n = 0 THEN Begun(m) ELSE Step(w[n - 1], JudgeOf(k, mt, w[n - 1].mod, b[n]))
  BY <1>1 DEF Follows
<1>4. \A n \in 0 .. Len(b) :
        w[n] = IF n = 0 THEN Begun(m)
               ELSE Step(On(w, b)[n - 1], JudgeOf(k, mt, On(w, b)[n - 1].mod, b[n]))
  BY <1>1, <1>2, <1>3
<1>5. On(w, b) = [n \in 0 .. Len(b) |-> On(w, b)[n]]
  BY DEF On
<1>. QED  BY <1>2, <1>4, <1>5 DEF Unrolled

\* So the loop with the verdicts of pthres goes where the walk goes,
LEMMA PthresOneByOne ==
  ASSUME NEW m, NEW S, NEW b \in Seq(S), NEW w, Follows(w, "pthres", FALSE, m, b)
  PROVE  OneByOne(PthresJudge, m, b) = w[Len(b)]
<1> DEFINE g == On(w, b)
           u == CHOOSE f : f = [n \in 0 .. Len(b) |->
                  IF n = 0 THEN [mod |-> m, out |-> <<>>]
                  ELSE LET v == PthresJudge(f[n - 1].mod, b[n])
                       IN [mod |-> v.mod, out |-> Passed(f[n - 1].out, v)]]
           yes == FALSE
           name == "pthres"
<1>1. g = [n \in 0 .. Len(b) |-> IF n = 0 THEN Begun(m)
                                 ELSE Step(g[n - 1], PthresJudge(g[n - 1].mod, b[n]))]
  <2>1. Follows(w, name, yes, m, b)
    OBVIOUS
  <2>2. \A x, s : JudgeOf(name, yes, x, s) = PthresJudge(x, s)
    BY JudgesAre
  <2>. HIDE DEF name, yes
  <2>3. /\ g = [n \in 0 .. Len(b) |-> g[n]]
        /\ \A n \in 0 .. Len(b) :
             g[n] = IF n = 0 THEN Begun(m)
                    ELSE Step(g[n - 1], JudgeOf(name, yes, g[n - 1].mod, b[n]))
    <3>1. Unrolled(g, name, yes, m, b)
      BY ONLY b \in Seq(S), <2>1, OnFollows DEF g
    <3>. HIDE DEF g
    <3>. QED  BY ONLY <3>1, Zenon DEF Unrolled
  <2>. HIDE DEF g
  <2>4. \A n \in 0 .. Len(b) :
          g[n] = IF n = 0 THEN Begun(m) ELSE Step(g[n - 1], PthresJudge(g[n - 1].mod, b[n]))
    BY ONLY <2>2, <2>3, Zenon
  <2>. QED  BY ONLY <2>3, <2>4
<1>2. u = [n \in 0 .. Len(b) |->
             IF n = 0 THEN [mod |-> m, out |-> <<>>]
             ELSE LET v == PthresJudge(u[n - 1].mod, b[n])
                  IN [mod |-> v.mod, out |-> Passed(u[n - 1].out, v)]]
  <2>. HIDE DEF g
  <2>. QED  BY ONLY <1>1, Zenon DEF u, Begun, Step
<1>3. OneByOne(PthresJudge, m, b) = u[Len(b)]
  BY Zenon DEF OneByOne
<1>. HIDE DEF u
<1>4. Follows(u, name, yes, m, b)
  <2>1. Len(b) \in Nat /\ 0 \in 0 .. Len(b)
    OBVIOUS
  <2>2. \A n \in 1 .. Len(b) : n # 0 /\ n \in 0 .. Len(b)
    BY <2>1
  <2>3. u[0] = Begun(m)
    BY ONLY <1>2, <2>1, Zenon DEF Begun
  <2>4. \A n \in 1 .. Len(b) : u[n] = Step(u[n - 1], PthresJudge(u[n - 1].mod, b[n]))
    BY ONLY <1>2, <2>2, Zenon DEF Step
  <2>5. \A x, s : JudgeOf(name, yes, x, s) = PthresJudge(x, s)
    BY JudgesAre
  <2>. HIDE DEF name, yes
  <2>6. \A n \in 1 .. Len(b) : u[n] = Step(u[n - 1], JudgeOf(name, yes, u[n - 1].mod, b[n]))
    BY ONLY <2>4, <2>5, ZenonT(60)
  <2>. QED  BY ONLY <2>3, <2>6, Zenon DEF Follows
<1>5. Follows(u, name, yes, m, b) /\ Follows(w, name, yes, m, b)
  BY <1>4
<1>. HIDE DEF name, yes
<1>6. u[Len(b)] = w[Len(b)]
  BY ONLY b \in Seq(S), <1>5, FollowsOnce
<1>. QED  BY <1>3, <1>6

\* that of pthres_read_mt,
LEMMA PthresMtOneByOne ==
  ASSUME NEW m, NEW S, NEW b \in Seq(S), NEW w, Follows(w, "pthres", TRUE, m, b)
  PROVE  OneByOne(PthresJudgeMt, m, b) = w[Len(b)]
<1> DEFINE g == On(w, b)
           u == CHOOSE f : f = [n \in 0 .. Len(b) |->
                  IF n = 0 THEN [mod |-> m, out |-> <<>>]
                  ELSE LET v == PthresJudgeMt(f[n - 1].mod, b[n])
                       IN [mod |-> v.mod, out |-> Passed(f[n - 1].out, v)]]
           yes == TRUE
           name == "pthres"
<1>1. g = [n \in 0 .. Len(b) |-> IF n = 0 THEN Begun(m)
                                 ELSE Step(g[n - 1], PthresJudgeMt(g[n - 1].mod, b[n]))]
  <2>1. Follows(w, name, yes, m, b)
    OBVIOUS
  <2>2. \A x, s : JudgeOf(name, yes, x, s) = PthresJudgeMt(x, s)
    BY JudgesAre
  <2>. HIDE DEF name, yes
  <2>3. /\ g = [n \in 0 .. Len(b) |-> g[n]]
        /\ \A n \in 0 .. Len(b) :
             g[n] = IF n = 0 THEN Begun(m)
                    ELSE Step(g[n - 1], JudgeOf(name, yes, g[n - 1].mod, b[n]))
    <3>1. Unrolled(g, name, yes, m, b)
      BY ONLY b \in Seq(S), <2>1, OnFollows DEF g
    <3>. HIDE DEF g
    <3>. QED  BY ONLY <3>1, Zenon DEF Unrolled
  <2>. HIDE DEF g
  <2>4. \A n \in 0 .. Len(b) :
          g[n] = IF n = 0 THEN Begun(m) ELSE Step(g[n - 1], PthresJudgeMt(g[n - 1].mod, b[n]))
    BY ONLY <2>2, <2>3, Zenon
  <2>. QED  BY ONLY <2>3, <2>4
<1>2. u = [n \in 0 .. Len(b) |->
             IF n = 0 THEN [mod |-> m, out |-> <<>>]
             ELSE LET v == PthresJudgeMt(u[n - 1].mod, b[n])
                  IN [mod |-> v.mod, out |-> Passed(u[n - 1].out, v)]]
  <2>. HIDE DEF g
  <2>. QED  BY ONLY <1>1, Zenon DEF u, Begun, Step
<1>3. OneByOne(PthresJudgeMt, m, b) = u[Len(b)]
  BY Zenon DEF OneByOne
<1>. HIDE DEF u
<1>4. Follows(u, name, yes, m, b)
  <2>1. Len(b) \in Nat /\ 0 \in 0 .. Len(b)
    OBVIOUS
  <2>2. \A n \in 1 .. Len(b) : n # 0 /\ n \in 0 .. Len(b)
    BY <2>1
  <2>3. u[0] = Begun(m)
    BY ONLY <1>2, <2>1, Zenon DEF Begun
  <2>4. \A n \in 1 .. Len(b) : u[n] = Step(u[n - 1], PthresJudgeMt(u[n - 1].mod, b[n]))
    BY ONLY <1>2, <2>2, Zenon DEF Step
  <2>5. \A x, s : JudgeOf(name, yes, x, s) = PthresJudgeMt(x, s)
    BY JudgesAre
  <2>. HIDE DEF name, yes
  <2>6. \A n \in 1 .. Len(b) : u[n] = Step(u[n - 1], JudgeOf(name, yes, u[n - 1].mod, b[n]))
    BY ONLY <2>4, <2>5, ZenonT(60)
  <2>. QED  BY ONLY <2>3, <2>6, Zenon DEF Follows
<1>5. Follows(u, name, yes, m, b) /\ Follows(w, name, yes, m, b)
  BY <1>4
<1>. HIDE DEF name, yes
<1>6. u[Len(b)] = w[Len(b)]
  BY ONLY b \in Seq(S), <1>5, FollowsOnce
<1>. QED  BY <1>3, <1>6

\* that of debounce_read_mt,
LEMMA DebounceOneByOne ==
  ASSUME NEW m, NEW S, NEW b \in Seq(S), NEW w, Follows(w, "debounce", TRUE, m, b)
  PROVE  OneByOne(DebounceJudge, m, b) = w[Len(b)]
<1> DEFINE g == On(w, b)
           u == CHOOSE f : f = [n \in 0 .. Len(b) |->
                  IF n = 0 THEN [mod |-> m, out |-> <<>>]
                  ELSE LET v == DebounceJudge(f[n - 1].mod, b[n])
                       IN [mod |-> v.mod, out |-> Passed(f[n - 1].out, v)]]
           yes == TRUE
           name == "debounce"
<1>1. g = [n \in 0 .. Len(b) |-> IF n = 0 THEN Begun(m)
                                 ELSE Step(g[n - 1], DebounceJudge(g[n - 1].mod, b[n]))]
  <2>1. Follows(w, name, yes, m, b)
    OBVIOUS
  <2>2. \A x, s : JudgeOf(name, yes, x, s) = DebounceJudge(x, s)
    BY JudgesAre
  <2>. HIDE DEF name, yes
  <2>3. /\ g = [n \in 0 .. Len(b) |-> g[n]]
        /\ \A n \in 0 .. Len(b) :
             g[n] = IF n = 0 THEN Begun(m)
                    ELSE Step(g[n - 1], JudgeOf(name, yes, g[n - 1].mod, b[n]))
    <3>1. Unrolled(g, name, yes, m, b)
      BY ONLY b \in Seq(S), <2>1, OnFollows DEF g
    <3>. HIDE DEF g
    <3>. QED  BY ONLY <3>1, Zenon DEF Unrolled
  <2>. HIDE DEF g
  <2>4. \A n \in 0 .. Len(b) :
          g[n] = IF n = 0 THEN Begun(m) ELSE Step(g[n - 1], DebounceJudge(g[n - 1].mod, b[n]))
    BY ONLY <2>2, <2>3, Zenon
  <2>. QED  BY ONLY <2>3, <2>4
<1>2. u = [n \in 0 .. Len(b) |->
             IF n = 0 THEN [mod |-> m, out |-> <<>>]
             ELSE LET v == DebounceJudge(u[n - 1].mod, b[n])
                  IN [mod |-> v.mod, out |-> Passed(u[n - 1].out, v)]]
  <2>. HIDE DEF g
  <2>. QED  BY ONLY <1>1, Zenon DEF u, Begun, Step
<1>3. OneByOne(DebounceJudge, m, b) = u[Len(b)]
  BY Zenon DEF OneByOne
<1>. HIDE DEF u
<1>4. Follows(u, name, yes, m, b)
  <2>1. Len(b) \in Nat /\ 0 \in 0 .. Len(b)
    OBVIOUS
  <2>2. \A n \in 1 .. Len(b) : n # 0 /\ n \in 0 .. Len(b)
    BY <2>1
  <2>3. u[0] = Begun(m)
    BY ONLY <1>2, <2>1, Zenon DEF Begun
  <2>4. \A n \in 1 .. Len(b) : u[n] = Step(u[n - 1], DebounceJudge(u[n - 1].mod, b[n]))
    BY ONLY <1>2, <2>2, Zenon DEF Step
  <2>5. \A x, s : JudgeOf(name, yes, x, s) = DebounceJudge(x, s)
    BY JudgesAre
  <2>. HIDE DEF name, yes
  <2>6. \A n \in 1 .. Len(b) : u[n] = Step(u[n - 1], JudgeOf(name, yes, u[n - 1].mod, b[n]))
    BY ONLY <2>4, <2>5, ZenonT(60)
  <2>. QED  BY ONLY <2>3, <2>6, Zenon DEF Follows
<1>5. Follows(u, name, yes, m, b) /\ Follows(w, name, yes, m, b)
  BY <1>4
<1>. HIDE DEF name, yes
<1>6. u[Len(b)] = w[Len(b)]
  BY ONLY b \in Seq(S), <1>5, FollowsOnce
<1>. QED  BY <1>3, <1>6

\* that of median_read,
LEMMA MedianOneByOne ==
  ASSUME NEW m, NEW S, NEW b \in Seq(S), NEW w, Follows(w, "median", FALSE, m, b)
  PROVE  OneByOne(MedianJudge, m, b) = w[Len(b)]
<1> DEFINE g == On(w, b)
           u == CHOOSE f : f = [n \in 0 .. Len(b) |->
                  IF n = 0 THEN [mod |-> m, out |-> <<>>]
                  ELSE LET v == MedianJudge(f[n - 1].mod, b[n])
                       IN [mod |-> v.mod, out |-> Passed(f[n - 1].out, v)]]
           yes == FALSE
           name == "median"
<1>1. g = [n \in 0 .. Len(b) |-> IF n = 0 THEN Begun(m)
                                 ELSE Step(g[n - 1], MedianJudge(g[n - 1].mod, b[n]))]
  <2>1. Follows(w, name, yes, m, b)
    OBVIOUS
  <2>2. \A x, s : JudgeOf(name, yes, x, s) = MedianJudge(x, s)
    BY JudgesAre
  <2>. HIDE DEF name, yes
  <2>3. /\ g = [n \in 0 .. Len(b) |-> g[n]]
        /\ \A n \in 0 .. Len(b) :
             g[n] = IF n = 0 THEN Begun(m)
                    ELSE Step(g[n - 1], JudgeOf(name, yes, g[n - 1].mod, b[n]))
    <3>1. Unrolled(g, name, yes, m, b)
      BY ONLY b \in Seq(S), <2>1, OnFollows DEF g
    <3>. HIDE DEF g
    <3>. QED  BY ONLY <3>1, Zenon DEF Unrolled
  <2>. HIDE DEF g
  <2>4. \A n \in 0 .. Len(b) :
          g[n] = IF n = 0 THEN Begun(m) ELSE Step(g[n - 1], MedianJudge(g[n - 1].mod, b[n]))
    BY ONLY <2>2, <2>3, Zenon
  <2>. QED  BY ONLY <2>3, <2>4
<1>2. u = [n \in 0 .. Len(b) |->
             IF n = 0 THEN [mod |-> m, out |-> <<>>]
             ELSE LET v == MedianJudge(u[n - 1].mod, b[n])
                  IN [mod |-> v.mod, out |-> Passed(u[n - 1].out, v)]]
  <2>. HIDE DEF g
  <2>. QED  BY ONLY <1>1, Zenon DEF u, Begun, Step
<1>3. OneByOne(MedianJudge, m, b) = u[Len(b)]
  BY Zenon DEF OneByOne
<1>. HIDE DEF u
<1>4. Follows(u, name, yes, m, b)
  <2>1. Len(b) \in Nat /\ 0 \in 0 .. Len(b)
    OBVIOUS
  <2>2. \A n \in 1 .. Len(b) : n # 0 /\ n \in 0 .. Len(b)
    BY <2>1
  <2>3. u[0] = Begun(m)
    BY ONLY <1>2, <2>1, Zenon DEF Begun
  <2>4. \A n \in 1 .. Len(b) : u[n] = Step(u[n - 1], MedianJudge(u[n - 1].mod, b[n]))
    BY ONLY <1>2, <2>2, Zenon DEF Step
  <2>5. \A x, s : JudgeOf(name, yes, x, s) = MedianJudge(x, s)
    BY JudgesAre
  <2>. HIDE DEF name, yes
  <2>6. \A n \in 1 .. Len(b) : u[n] = Step(u[n - 1], JudgeOf(name, yes, u[n - 1].mod, b[n]))
    BY ONLY <2>4, <2>5, ZenonT(60)
  <2>. QED  BY ONLY <2>3, <2>6, Zenon DEF Follows
<1>5. Follows(u, name, yes, m, b) /\ Follows(w, name, yes, m, b)
  BY <1>4
<1>. HIDE DEF name, yes
<1>6. u[Len(b)] = w[Len(b)]
  BY ONLY b \in Seq(S), <1>5, FollowsOnce
<1>. QED  BY <1>3, <1>6

\* that of median_read_mt,
LEMMA MedianMtOneByOne ==
  ASSUME NEW m, NEW S, NEW b \in Seq(S), NEW w, Follows(w, "median", TRUE, m, b)
  PROVE  OneByOne(MedianJudgeMt, m, b) = w[Len(b)]
<1> DEFINE g == On(w, b)
           u == CHOOSE f : f = [n \in 0 .. Len(b) |->
                  IF n = 0 THEN [mod |-> m, out |-> <<>>]
                  ELSE LET v == MedianJudgeMt(f[n - 1].mod, b[n])
                       IN [mod |-> v.mod, out |-> Passed(f[n - 1].out, v)]]
           yes == TRUE
           name == "median"
<1>1. g = [n \in 0 .. Len(b) |-> IF n = 0 THEN Begun(m)
                                 ELSE Step(g[n - 1], MedianJudgeMt(g[n - 1].mod, b[n]))]
  <2>1. Follows(w, name, yes, m, b)
    OBVIOUS
  <2>2. \A x, s : JudgeOf(name, yes, x, s) = MedianJudgeMt(x, s)
    BY JudgesAre
  <2>. HIDE DEF name, yes
  <2>3. /\ g = [n \in 0 .. Len(b) |-> g[n]]
        /\ \A n \in 0 .. Len(b) :
             g[n] = IF n = 0 THEN Begun(m)
                    ELSE Step(g[n - 1], JudgeOf(name, yes, g[n - 1].mod, b[n]))
    <3>1. Unrolled(g, name, yes, m, b)
      BY ONLY b \in Seq(S), <2>1, OnFollows DEF g
    <3>. HIDE DEF g
    <3>. QED  BY ONLY <3>1, Zenon DEF Unrolled
  <2>. HIDE DEF g
  <2>4. \A n \in 0 .. Len(b) :
          g[n] = IF n = 0 THEN Begun(m) ELSE Step(g[n - 1], MedianJudgeMt(g[n - 1].mod, b[n]))
    BY ONLY <2>2, <2>3, Zenon
  <2>. QED  BY ONLY <2>3, <2>4
<1>2. u = [n \in 0 .. Len(b) |->
             IF n = 0 THEN [mod |-> m, out |-> <<>>]
             ELSE LET v == MedianJudgeMt(u[n - 1].mod, b[n])
                  IN [mod |-> v.mod, out |-> Passed(u[n - 1].out, v)]]
  <2>. HIDE DEF g
  <2>. QED  BY ONLY <1>1, Zenon DEF u, Begun, Step
<1>3. OneByOne(MedianJudgeMt, m, b) = u[Len(b)]
  BY Zenon DEF OneByOne
<1>. HIDE DEF u
<1>4. Follows(u, name, yes, m, b)
  <2>1. Len(b) \in Nat /\ 0 \in 0 .. Len(b)
    OBVIOUS
  <2>2. \A n \in 1 .. Len(b) : n # 0 /\ n \in 0 .. Len(b)
    BY <2>1
  <2>3. u[0] = Begun(m)
    BY ONLY <1>2, <2>1, Zenon DEF Begun
  <2>4. \A n \in 1 .. Len(b) : u[n] = Step(u[n - 1], MedianJudgeMt(u[n - 1].mod, b[n]))
    BY ONLY <1>2, <2>2, Zenon DEF Step
  <2>5. \A x, s : JudgeOf(name, yes, x, s) = MedianJudgeMt(x, s)
    BY JudgesAre
  <2>. HIDE DEF name, yes
  <2>6. \A n \in 1 .. Len(b) : u[n] = Step(u[n - 1], JudgeOf(name, yes, u[n - 1].mod, b[n]))
    BY ONLY <2>4, <2>5, ZenonT(60)
  <2>. QED  BY ONLY <2>3, <2>6, Zenon DEF Follows
<1>5. Follows(u, name, yes, m, b) /\ Follows(w, name, yes, m, b)
  BY <1>4
<1>. HIDE DEF name, yes
<1>6. u[Len(b)] = w[Len(b)]
  BY ONLY b \in Seq(S), <1>5, FollowsOnce
<1>. QED  BY <1>3, <1>6

\* those of dejitter,
LEMMA DejitterOneByOne ==
  ASSUME NEW mt, NEW m, NEW S, NEW b \in Seq(S), NEW w, Follows(w, "dejitter", mt, m, b)
  PROVE  OneByOne(DejitterJudge, m, b) = w[Len(b)]
<1> DEFINE g == On(w, b)
           u == CHOOSE f : f = [n \in 0 .. Len(b) |->
                  IF n = 0 THEN [mod |-> m, out |-> <<>>]
                  ELSE LET v == DejitterJudge(f[n - 1].mod, b[n])
                       IN [mod |-> v.mod, out |-> Passed(f[n - 1].out, v)]]
           yes == mt
           name == "dejitter"
<1>1. g = [n \in 0 .. Len(b) |-> IF n = 0 THEN Begun(m)
                                 ELSE Step(g[n - 1], DejitterJudge(g[n - 1].mod, b[n]))]
  <2>1. Follows(w, name, yes, m, b)
    OBVIOUS
  <2>2. \A x, s : JudgeOf(name, yes, x, s) = DejitterJudge(x, s)
    BY JudgesAre
  <2>. HIDE DEF name, yes
  <2>3. /\ g = [n \in 0 .. Len(b) |-> g[n]]
        /\ \A n \in 0 .. Len(b) :
             g[n] = IF n = 0 THEN Begun(m)
                    ELSE Step(g[n - 1], JudgeOf(name, yes, g[n - 1].mod, b[n]))
    <3>1. Unrolled(g, name, yes, m, b)
      BY ONLY b \in Seq(S), <2>1, OnFollows DEF g
    <3>. HIDE DEF g
    <3>. QED  BY ONLY <3>1, Zenon DEF Unrolled
  <2>. HIDE DEF g
  <2>4. \A n \in 0 .. Len(b) :
          g[n] = IF n = 0 THEN Begun(m) ELSE Step(g[n - 1], DejitterJudge(g[n - 1].mod, b[n]))
    BY ONLY <2>2, <2>3, Zenon
  <2>. QED  BY ONLY <2>3, <2>4
<1>2. u = [n \in 0 .. Len(b) |->
             IF n = 0 THEN [mod |-> m, out |-> <<>>]
             ELSE LET v == DejitterJudge(u[n - 1].mod, b[n])
                  IN [mod |-> v.mod, out |-> Passed(u[n - 1].out, v)]]
  <2>. HIDE DEF g
  <2>. QED  BY ONLY <1>1, Zenon DEF u, Begun, Step
<1>3. OneByOne(DejitterJudge, m, b) = u[Len(b)]
  BY Zenon DEF OneByOne
<1>. HIDE DEF u
<1>4. Follows(u, name, yes, m, b)
  <2>1. Len(b) \in Nat /\ 0 \in 0 .. Len(b)
    OBVIOUS
  <2>2. \A n \in 1 .. Len(b) : n # 0 /\ n \in 0 .. Len(b)
    BY <2>1
  <2>3. u[0] = Begun(m)
    BY ONLY <1>2, <2>1, Zenon DEF Begun
  <2>4. \A n \in 1 .. Len(b) : u[n] = Step(u[n - 1], DejitterJudge(u[n - 1].mod, b[n]))
    BY ONLY <1>2, <2>2, Zenon DEF Step
  <2>5. \A x, s : JudgeOf(name, yes, x, s) = DejitterJudge(x, s)
    BY JudgesAre
  <2>. HIDE DEF name, yes
  <2>6. \A n \in 1 .. Len(b) : u[n] = Step(u[n - 1], JudgeOf(name, yes, u[n - 1].mod, b[n]))
    BY ONLY <2>4, <2>5, ZenonT(60)
  <2>. QED  BY ONLY <2>3, <2>6, Zenon DEF Follows
<1>5. Follows(u, name, yes, m, b) /\ Follows(w, name, yes, m, b)
  BY <1>4
<1>. HIDE DEF name, yes
<1>6. u[Len(b)] = w[Len(b)]
  BY ONLY b \in Seq(S), <1>5, FollowsOnce
<1>. QED  BY <1>3, <1>6

\* and those of linear.
LEMMA LinearOneByOne ==
  ASSUME NEW mt, NEW m, NEW S, NEW b \in Seq(S), NEW w, Follows(w, "linear", mt, m, b)
  PROVE  OneByOne(LinearJudge, m, b) = w[Len(b)]
<1> DEFINE g == On(w, b)
           u == CHOOSE f : f = [n \in 0 .. Len(b) |->
                  IF n = 0 THEN [mod |-> m, out |-> <<>>]
                  ELSE LET v == LinearJudge(f[n - 1].mod, b[n])
                       IN [mod |-> v.mod, out |-> Passed(f[n - 1].out, v)]]
           yes == mt
           name == "linear"
<1>1. g = [n \in 0 .. Len(b) |-> IF n = 0 THEN Begun(m)
                                 ELSE Step(g[n - 1], LinearJudge(g[n - 1].mod, b[n]))]
  <2>1. Follows(w, name, yes, m, b)
    OBVIOUS
  <2>2. \A x, s : JudgeOf(name, yes, x, s) = LinearJudge(x, s)
    BY JudgesAre
  <2>. HIDE DEF name, yes
  <2>3. /\ g = [n \in 0 .. Len(b) |-> g[n]]
        /\ \A n \in 0 .. Len(b) :
             g[n] = IF n = 0 THEN Begun(m)
                    ELSE Step(g[n - 1], JudgeOf(name, yes, g[n - 1].mod, b[n]))
    <3>1. Unrolled(g, name, yes, m, b)
      BY ONLY b \in Seq(S), <2>1, OnFollows DEF g
    <3>. HIDE DEF g
    <3>. QED  BY ONLY <3>1, Zenon DEF Unrolled
  <2>. HIDE DEF g
  <2>4. \A n \in 0 .. Len(b) :
          g[n] = IF n = 0 THEN Begun(m) ELSE Step(g[n - 1], LinearJudge(g[n - 1].mod, b[n]))
    BY ONLY <2>2, <2>3, Zenon
  <2>. QED  BY ONLY <2>3, <2>4
<1>2. u = [n \in 0 .. Len(b) |->
             IF n = 0 THEN [mod |-> m, out |-> <<>>]
             ELSE LET v == LinearJudge(u[n - 1].mod, b[n])
                  IN [mod |-> v.mod, out |-> Passed(u[n - 1].out, v)]]
  <2>. HIDE DEF g
  <2>. QED  BY ONLY <1>1, Zenon DEF u, Begun, Step
<1>3. OneByOne(LinearJudge, m, b) = u[Len(b)]
  BY Zenon DEF OneByOne
<1>. HIDE DEF u
<1>4. Follows(u, name, yes, m, b)
  <2>1. Len(b) \in Nat /\ 0 \in 0 .. Len(b)
    OBVIOUS
  <2>2. \A n \in 1 .. Len(b) : n # 0 /\ n \in 0 .. Len(b)
    BY <2>1
  <2>3. u[0] = Begun(m)
    BY ONLY <1>2, <2>1, Zenon DEF Begun
  <2>4. \A n \in 1 .. Len(b) : u[n] = Step(u[n - 1], LinearJudge(u[n - 1].mod, b[n]))
    BY ONLY <1>2, <2>2, Zenon DEF Step
  <2>5. \A x, s : JudgeOf(name, yes, x, s) = LinearJudge(x, s)
    BY JudgesAre
  <2>. HIDE DEF name, yes
  <2>6. \A n \in 1 .. Len(b) : u[n] = Step(u[n - 1], JudgeOf(name, yes, u[n - 1].mod, b[n]))
    BY ONLY <2>4, <2>5, ZenonT(60)
  <2>. QED  BY ONLY <2>3, <2>6, Zenon DEF Follows
<1>5. Follows(u, name, yes, m, b) /\ Follows(w, name, yes, m, b)
  BY <1>4
<1>. HIDE DEF name, yes
<1>6. u[Len(b)] = w[Len(b)]
  BY ONLY b \in Seq(S), <1>5, FollowsOnce
<1>. QED  BY <1>3, <1>6

-----------------------------------------------------------------------------
(* The loops that close gaps                                               *)

Entered(m, b) == [mod |-> m, buf |-> b, nr |-> 0, done |-> FALSE]
Verdict(k, mt, x) == JudgeOf(k, mt, x.mod, x.buf[x.nr + 1])

\* f goes around once for each sample
Loops(f, k, mt, m, b) ==
  /\ f[0] = Entered(m, b)
  /\ \A n \in 1 .. Len(b) : f[n] = Round(f[n - 1], Verdict(k, mt, f[n - 1]))

\* Before the first turn the loop agrees with the walk,
LEMMA EnteredAgrees ==
  ASSUME NEW S, NEW b \in Seq(S), NEW m
  PROVE  Agrees(S, Entered(m, b), Begun(m), b, 0)
<1> DEFINE w == Entered(m, b)
           u == Begun(m)
<1>1. w.mod = m /\ w.buf = b /\ w.nr = 0 /\ w.done = FALSE /\ u.mod = m /\ u.out = <<>>
  BY DEF Entered, Begun
<1>2. w = [mod |-> u.mod, buf |-> w.buf, nr |-> Len(u.out), done |-> w.done]
  <2>1. Len(<<>>) = 0
    OBVIOUS
  <2>. QED  BY <1>1, <2>1 DEF Entered
<1>. HIDE DEF w, u
<1>3. u.out = SubSeq(w.buf, 1, w.nr)
  BY <1>1, AllOfThem
<1>4. \A i \in 1 .. Len(b) - 0 : w.buf[w.nr + i] = b[0 + i]
  <2>1. \A i \in 1 .. Len(b) - 0 : 0 + i = i
    OBVIOUS
  <2>. QED  BY <1>1, <2>1
<1>5. Agrees(S, w, u, b, 0)
  <2>1. w.buf \in Seq(S) /\ Len(w.buf) = Len(b)
    BY ONLY <1>1, b \in Seq(S)
  <2>2. w.nr <= 0 /\ w.done \in BOOLEAN /\ ~w.done
    <3>1. w.nr = 0 /\ w.done = FALSE
      BY <1>1
    <3>2. w.nr <= 0
      BY ONLY <3>1
    <3>3. w.done \in BOOLEAN /\ ~w.done
      BY ONLY <3>1, Zenon
    <3>. QED  BY ONLY <3>2, <3>3
  <2>3. ~w.done => \A i \in 1 .. Len(b) - 0 : w.buf[w.nr + i] = b[0 + i]
    BY ONLY <1>4
  <2>4. w.done => 0 = Len(b)
    BY ONLY <2>2
  <2>. QED  BY ONLY <1>2, <1>3, <2>1, <2>2, <2>3, <2>4, Zenon DEF Agrees
<1>. QED  BY <1>5 DEF w, u

\* and with each turn it goes on to do so.
LEMMA TurnAgrees ==
  ASSUME NEW c, Counts(c), NEW F \in SUBSET Slots, NEW mt \in BOOLEAN, NEW k \in Judges,
         NEW m \in During(k, c, F), NEW b \in Seq(Samples(F)), NEW w,
         Walked(w, k, mt, During(k, c, F), Samples(F), m, b),
         NEW n \in 0 .. Len(b) - 1, NEW x, Agrees(Samples(F), x, w[n], b, n)
  PROVE  Agrees(Samples(F), Round(x, Verdict(k, mt, x)), w[n + 1], b, n + 1)
<1> DEFINE S == Samples(F)
           T == During(k, c, F)
           u == w[n]
           s == b[n + 1]
           v == JudgeOf(k, mt, u.mod, s)
           L == Len(b)
           j == n + 1
<1>1. L \in Nat /\ n \in 0 .. L /\ j \in 1 .. L /\ j - 1 = n /\ s \in S
  OBVIOUS
<1>2. u \in Turns(T, S)
  BY <1>1 DEF Walked
<1>3. u.mod \in T /\ u.out \in Seq(S)
  BY <1>2 DEF Turns
<1>4. v.keep \in BOOLEAN /\ v.sample \in S
  <2> DEFINE y == u.mod
  <2>1. y \in During(k, c, F) /\ s \in Samples(F) /\ v = JudgeOf(k, mt, y, s)
    BY <1>1, <1>3
  <2>. HIDE DEF y, s, v
  <2>2. v.keep \in BOOLEAN /\ v.sample \in Samples(F)
    BY ONLY Counts(c), F \in SUBSET Slots, mt \in BOOLEAN, k \in Judges, <2>1, JudgeIs
  <2>. QED  BY <2>2
<1>5. Follows(w, k, mt, m, b)
  BY WalkFollows
<1>6. w[j] = [mod |-> v.mod, out |-> Passed(u.out, v)]
  <2>1. w[j] = Step(w[j - 1], JudgeOf(k, mt, w[j - 1].mod, b[j]))
    <3>. HIDE DEF j
    <3>. QED  BY <1>1, <1>5, Zenon DEF Follows
  <2>2. w[j] = Step(u, v)
    BY <1>1, <2>1
  <2>. QED  BY ONLY <2>2, Zenon DEF Step
<1>7. /\ x.buf[x.nr + 1] = s
      /\ Agrees(S, Round(x, v), [mod |-> v.mod, out |-> Passed(u.out, v)], b, n + 1)
  <2>1. b \in Seq(S) /\ n \in 0 .. Len(b) - 1 /\ Agrees(S, x, u, b, n)
    OBVIOUS
  <2>. HIDE DEF S, u, v, L, j, s
  <2>2. /\ x.buf[x.nr + 1] = b[n + 1]
        /\ Agrees(S, Round(x, v), [mod |-> v.mod, out |-> Passed(u.out, v)], b, n + 1)
    BY ONLY <1>3, <1>4, <2>1, RoundAgrees
  <2>. QED  BY <2>2 DEF s
<1>8. x.mod = u.mod
  BY DEF Agrees
<1>9. Verdict(k, mt, x) = v
  BY <1>7, <1>8 DEF Verdict
<1>. HIDE DEF v, u, S
<1>. QED  BY <1>6, <1>7, <1>9 DEF S, u

\* At the end it has passed on the same.
LEMMA LoopAgrees ==
  ASSUME NEW c, Counts(c), NEW F \in SUBSET Slots, NEW mt \in BOOLEAN, NEW k \in Judges,
         NEW m \in During(k, c, F), NEW b \in Seq(Samples(F)), NEW w,
         Walked(w, k, mt, During(k, c, F), Samples(F), m, b), NEW f, Loops(f, k, mt, m, b)
  PROVE  /\ \A n \in 0 .. Len(b) : Agrees(Samples(F), f[n], w[n], b, n)
         /\ [mod |-> f[Len(b)].mod, out |-> SubSeq(f[Len(b)].buf, 1, f[Len(b)].nr)] = w[Len(b)]
<1> DEFINE S == Samples(F)
           T == During(k, c, F)
           L == Len(b)
           P == {n \in 0 .. L : Agrees(S, f[n], w[n], b, n)}
<1>1. L \in Nat /\ 0 \in 0 .. L /\ L \in 0 .. L
  OBVIOUS
<1>2. 0 \in P
  <2>1. w[0] = Begun(m)
    BY DEF Walked, Begun
  <2>2. f[0] = Entered(m, b)
    BY DEF Loops
  <2>3. Agrees(S, Entered(m, b), Begun(m), b, 0)
    <3>. HIDE DEF S
    <3>1. b \in Seq(S)
      BY DEF S
    <3>. QED  BY <3>1, EnteredAgrees
  <2>. QED  BY <1>1, <2>1, <2>2, <2>3
<1>3. ASSUME NEW n \in 0 .. L - 1, n \in P
      PROVE  n + 1 \in P
  <2> DEFINE x == f[n]
             j == n + 1
  <2>1. j \in 1 .. L /\ j \in 0 .. L /\ j - 1 = n
    BY <1>1
  <2>2. Agrees(Samples(F), x, w[n], b, n)
    BY <1>3
  <2>3. f[j] = Round(x, Verdict(k, mt, x))
    <3>1. f[j] = Round(f[j - 1], Verdict(k, mt, f[j - 1]))
      <4>. HIDE DEF j, L
      <4>. QED  BY <2>1, Zenon DEF Loops, L
    <3>. QED  BY <2>1, <3>1
  <2>4. Agrees(Samples(F), Round(x, Verdict(k, mt, x)), w[n + 1], b, n + 1)
    <3>. HIDE DEF x
    <3>. QED  BY <2>2, TurnAgrees
  <2>5. Agrees(S, f[j], w[j], b, j)
    BY ONLY <2>3, <2>4
  <2>. QED  BY <2>1, <2>5
<1>. HIDE DEF P
<1>4. \A n \in 0 .. L : n \in P
  BY <1>1, <1>2, <1>3, CountUp
<1>5. \A n \in 0 .. L : Agrees(S, f[n], w[n], b, n)
  BY <1>4 DEF P
<1>6. Agrees(S, f[L], w[L], b, L) /\ w[L] \in Turns(T, S)
  BY <1>1, <1>5 DEF Walked
<1>7. w[L] = [mod |-> w[L].mod, out |-> w[L].out]
  BY <1>6 DEF Turns
<1>8. f[L].mod = w[L].mod /\ w[L].out = SubSeq(f[L].buf, 1, f[L].nr)
  <2> DEFINE x == f[L]
             u == w[L]
  <2>1. Agrees(S, x, u, b, L)
    BY <1>6
  <2>. HIDE DEF x, u, S, L
  <2>2. x = [mod |-> u.mod, buf |-> x.buf, nr |-> Len(u.out), done |-> x.done]
        /\ u.out = SubSeq(x.buf, 1, x.nr)
    BY <2>1, Zenon DEF Agrees
  <2>3. x.mod = u.mod
    BY ONLY <2>2
  <2>. QED  BY <2>2, <2>3 DEF x, u
<1>. HIDE DEF S
<1>. QED  BY <1>5, <1>7, <1>8 DEF S

\* There is such a loop.
LEMMA LoopExists ==
  ASSUME NEW c, Counts(c), NEW F \in SUBSET Slots, NEW mt \in BOOLEAN, NEW k \in Judges,
         NEW m \in During(k, c, F), NEW b \in Seq(Samples(F)), NEW w,
         Walked(w, k, mt, During(k, c, F), Samples(F), m, b)
  PROVE  \E f : f = [n \in 0 .. Len(b) |-> f[n]] /\ Loops(f, k, mt, m, b)
<1> DEFINE S == Samples(F)
           T == During(k, c, F)
           L == Len(b)
           D == [mod : T, buf : Seq(S), nr : Nat, done : BOOLEAN]
           Then(x) == Round(x, Verdict(k, mt, x))
           Within(x) == IF Then(x) \in D THEN Then(x) ELSE x
           G == [n \in 1 .. L |-> [x \in D |-> Within(x)]]
           a == Entered(m, b)
<1>1. L \in Nat /\ 0 \in 0 .. L /\ a \in D
  BY DEF Entered
<1>2. G \in [1 .. L -> [D -> D]]
  <2>. HIDE DEF D, Then
  <2>. QED  OBVIOUS
<1>3. ASSUME NEW n \in 0 .. L, NEW x, Agrees(S, x, w[n], b, n)
      PROVE  x \in D
  <2> DEFINE u == w[n]
  <2>1. u \in Turns(T, S)
    BY DEF Walked
  <2>2. u.mod \in T /\ u.out \in Seq(S)
    BY <2>1 DEF Turns
  <2>3. Len(u.out) \in Nat
    BY <2>2
  <2>. HIDE DEF u, T, S
  <2>4. /\ x = [mod |-> u.mod, buf |-> x.buf, nr |-> Len(u.out), done |-> x.done]
        /\ x.buf \in Seq(S) /\ x.done \in BOOLEAN
    BY <1>3, Zenon DEF Agrees, u
  <2> DEFINE y == x.buf
             z == x.done
             o == Len(u.out)
  <2>5. x = [mod |-> u.mod, buf |-> y, nr |-> o, done |-> z] /\ y \in Seq(S) /\ z \in BOOLEAN
        /\ o \in Nat
    BY <2>3, <2>4
  <2>. HIDE DEF y, z, o
  <2>. QED  BY ONLY <2>2, <2>5
<1>. HIDE DEF a, D
<1>4. PICK f : Runs(f, L, D, a, G)
  <2>. HIDE DEF G, L
  <2>. QED  BY <1>1, <1>2, StepsExist
<1>5. f \in [0 .. L -> D] /\ f[0] = a /\ \A n \in 1 .. L : f[n] = G[n][f[n - 1]]
  BY <1>4, Zenon DEF Runs
<1>. HIDE DEF Then
<1>6. \A n \in 1 .. L : n - 1 \in 0 .. L /\ f[n] = Within(f[n - 1])
  <2>1. \A n \in 1 .. L : n - 1 \in 0 .. L
    BY <1>1
  <2>2. \A n \in 1 .. L : f[n - 1] \in D
    BY <1>5, <2>1
  <2>. QED  BY <1>5, <2>1, <2>2
<1> DEFINE P == {n \in 0 .. L : Agrees(S, f[n], w[n], b, n)}
<1>7. 0 \in P
  <2>1. w[0] = Begun(m)
    BY DEF Walked, Begun
  <2>3. Agrees(S, Entered(m, b), Begun(m), b, 0)
    <3>. HIDE DEF S
    <3>1. b \in Seq(S)
      BY DEF S
    <3>. QED  BY <3>1, EnteredAgrees
  <2>. QED  BY <1>1, <1>5, <2>1, <2>3 DEF a
<1>8. ASSUME NEW n \in 0 .. L - 1, Agrees(S, f[n], w[n], b, n)
      PROVE  Agrees(S, f[n + 1], w[n + 1], b, n + 1) /\ f[n + 1] = Then(f[n])
  <2> DEFINE x == f[n]
             j == n + 1
  <2>1. j \in 1 .. L /\ j \in 0 .. L /\ j - 1 = n
    BY <1>1
  <2>2. Agrees(Samples(F), x, w[n], b, n)
    BY <1>8
  <2>3. f[j] = Within(x)
    <3>1. f[j] = Within(f[j - 1])
      <4>. HIDE DEF j, L, Within
      <4>. QED  BY <1>6, <2>1
    <3>. QED  BY <2>1, <3>1
  <2>4. Agrees(Samples(F), Then(x), w[j], b, j)
    <3>1. Agrees(Samples(F), Round(x, Verdict(k, mt, x)), w[n + 1], b, n + 1)
      <4>. HIDE DEF x
      <4>. QED  BY <2>2, TurnAgrees
    <3>. QED  BY <3>1 DEF Then
  <2>5. Then(x) \in D
    <3>. HIDE DEF j, x
    <3>. QED  BY <1>3, <2>1, <2>4
  <2>6. f[j] = Then(x)
    BY <2>3, <2>5
  <2>. QED  BY ONLY <2>4, <2>6
<1>9. \A n \in 0 .. L : Agrees(S, f[n], w[n], b, n)
  <2>1. ASSUME NEW n \in 0 .. L - 1, n \in P
        PROVE  n + 1 \in P
    <3>1. n + 1 \in 0 .. L
      BY <1>1
    <3>. QED  BY <1>8, <2>1, <3>1
  <2>. HIDE DEF P
  <2>2. \A n \in 0 .. L : n \in P
    BY <1>1, <1>7, <2>1, CountUp
  <2>. QED  BY <2>2 DEF P
<1>10. \A n \in 1 .. L : f[n] = Then(f[n - 1])
  <2> TAKE n \in 1 .. L
  <2> DEFINE i == n - 1
  <2>1. i \in 0 .. L - 1 /\ i \in 0 .. L /\ i + 1 = n
    BY <1>1
  <2>2. f[i + 1] = Then(f[i])
    <3>. HIDE DEF i
    <3>. QED  BY <1>8, <1>9, <2>1
  <2>. QED  BY <2>1, <2>2
<1>11. f = [n \in 0 .. Len(b) |-> f[n]]
  <2>. HIDE DEF D
  <2>. QED  BY <1>5
<1>12. Loops(f, k, mt, m, b)
  BY <1>5, <1>10, Zenon DEF Loops, a, Then, L
<1>. QED  BY <1>11, <1>12

\* pthres_read closes gaps and so passes on what it would with each sample by itself,
LEMMA PthresInPlace ==
  ASSUME NEW c, Counts(c), NEW F \in SUBSET Slots, NEW m \in During("pthres", c, F),
         NEW b \in Seq(Samples(F)), NEW w,
         Walked(w, "pthres", FALSE, During("pthres", c, F), Samples(F), m, b)
  PROVE  InPlace(PthresJudge, m, b) = w[Len(b)]
<1> DEFINE u == CHOOSE f : f = [n \in 0 .. Len(b) |->
                  IF n = 0 THEN [mod |-> m, buf |-> b, nr |-> 0, done |-> FALSE]
                  ELSE LET x == f[n - 1] IN Round(x, PthresJudge(x.mod, x.buf[x.nr + 1]))]
           no == FALSE
           name == "pthres"
<1>1. /\ Walked(w, name, no, During(name, c, F), Samples(F), m, b)
      /\ m \in During(name, c, F) /\ no \in BOOLEAN /\ name \in Judges
  BY DEF Judges
<1>2. \A x, s : JudgeOf(name, no, x, s) = PthresJudge(x, s)
  BY JudgesAre
<1>. HIDE DEF no, name
<1>3. PICK g : g = [n \in 0 .. Len(b) |-> g[n]] /\ Loops(g, name, no, m, b)
  BY <1>1, LoopExists
<1>4. \A n \in 0 .. Len(b) : n # 0 => n \in 1 .. Len(b)
  OBVIOUS
<1>5. \A n \in 0 .. Len(b) :
        g[n] = IF n = 0 THEN Entered(m, b)
               ELSE Round(g[n - 1], PthresJudge(g[n - 1].mod, g[n - 1].buf[g[n - 1].nr + 1]))
  <2>1. \A n \in 1 .. Len(b) :
          g[n] = Round(g[n - 1], PthresJudge(g[n - 1].mod, g[n - 1].buf[g[n - 1].nr + 1]))
    BY ONLY <1>2, <1>3, Zenon DEF Loops, Verdict
  <2>2. g[0] = Entered(m, b)
    BY ONLY <1>3, Zenon DEF Loops
  <2>. QED  BY ONLY <1>4, <2>1, <2>2, Zenon
<1>6. g = [n \in 0 .. Len(b) |->
             IF n = 0 THEN Entered(m, b)
             ELSE Round(g[n - 1], PthresJudge(g[n - 1].mod, g[n - 1].buf[g[n - 1].nr + 1]))]
  BY ONLY <1>3, <1>5
<1>7. u = [n \in 0 .. Len(b) |->
             IF n = 0 THEN [mod |-> m, buf |-> b, nr |-> 0, done |-> FALSE]
             ELSE LET x == u[n - 1] IN Round(x, PthresJudge(x.mod, x.buf[x.nr + 1]))]
  BY ONLY <1>6, Zenon DEF u, Entered
<1>8. InPlace(PthresJudge, m, b) =
        [mod |-> u[Len(b)].mod, out |-> SubSeq(u[Len(b)].buf, 1, u[Len(b)].nr)]
  BY Zenon DEF InPlace
<1>. HIDE DEF u
<1>9. Loops(u, name, no, m, b)
  <2>1. Len(b) \in Nat /\ 0 \in 0 .. Len(b)
    OBVIOUS
  <2>2. \A n \in 1 .. Len(b) : n # 0 /\ n \in 0 .. Len(b)
    BY <2>1
  <2>3. u[0] = Entered(m, b)
    BY ONLY <1>7, <2>1, Zenon DEF Entered
  <2>4. \A n \in 1 .. Len(b) :
          u[n] = Round(u[n - 1], PthresJudge(u[n - 1].mod, u[n - 1].buf[u[n - 1].nr + 1]))
    BY ONLY <1>7, <2>2, Zenon
  <2>5. \A n \in 1 .. Len(b) : u[n] = Round(u[n - 1], Verdict(name, no, u[n - 1]))
    <3>1. \A x : Verdict(name, no, x) = PthresJudge(x.mod, x.buf[x.nr + 1])
      BY ONLY <1>2, Zenon DEF Verdict
    <3> TAKE n \in 1 .. Len(b)
    <3> DEFINE x == u[n - 1]
    <3>2. u[n] = Round(x, PthresJudge(x.mod, x.buf[x.nr + 1]))
      BY ONLY <2>4, n \in 1 .. Len(b), Zenon
    <3>. HIDE DEF x
    <3>3. u[n] = Round(x, Verdict(name, no, x))
      BY ONLY <3>1, <3>2
    <3>. QED  BY <3>3 DEF x
  <2>. QED  BY ONLY <2>3, <2>5, Zenon DEF Loops
<1>10. [mod |-> u[Len(b)].mod, out |-> SubSeq(u[Len(b)].buf, 1, u[Len(b)].nr)] = w[Len(b)]
  BY ONLY Counts(c), F \in SUBSET Slots, b \in Seq(Samples(F)), <1>1, <1>9, LoopAgrees,
          SMTT(60)
<1>. QED  BY ONLY <1>8, <1>10

\* and so does debounce_read.
LEMMA DebounceInPlace ==
  ASSUME NEW c, Counts(c), NEW F \in SUBSET Slots, NEW m \in During("debounce", c, F),
         NEW b \in Seq(Samples(F)), NEW w,
         Walked(w, "debounce", FALSE, During("debounce", c, F), Samples(F), m, b)
  PROVE  InPlace(DebounceJudge, m, b) = w[Len(b)]
<1> DEFINE u == CHOOSE f : f = [n \in 0 .. Len(b) |->
                  IF n = 0 THEN [mod |-> m, buf |-> b, nr |-> 0, done |-> FALSE]
                  ELSE LET x == f[n - 1] IN Round(x, DebounceJudge(x.mod, x.buf[x.nr + 1]))]
           no == FALSE
           name == "debounce"
<1>1. /\ Walked(w, name, no, During(name, c, F), Samples(F), m, b)
      /\ m \in During(name, c, F) /\ no \in BOOLEAN /\ name \in Judges
  BY DEF Judges
<1>2. \A x, s : JudgeOf(name, no, x, s) = DebounceJudge(x, s)
  BY JudgesAre
<1>. HIDE DEF no, name
<1>3. PICK g : g = [n \in 0 .. Len(b) |-> g[n]] /\ Loops(g, name, no, m, b)
  BY <1>1, LoopExists
<1>4. \A n \in 0 .. Len(b) : n # 0 => n \in 1 .. Len(b)
  OBVIOUS
<1>5. \A n \in 0 .. Len(b) :
        g[n] = IF n = 0 THEN Entered(m, b)
               ELSE Round(g[n - 1], DebounceJudge(g[n - 1].mod, g[n - 1].buf[g[n - 1].nr + 1]))
  <2>1. \A n \in 1 .. Len(b) :
          g[n] = Round(g[n - 1], DebounceJudge(g[n - 1].mod, g[n - 1].buf[g[n - 1].nr + 1]))
    BY ONLY <1>2, <1>3, Zenon DEF Loops, Verdict
  <2>2. g[0] = Entered(m, b)
    BY ONLY <1>3, Zenon DEF Loops
  <2>. QED  BY ONLY <1>4, <2>1, <2>2, Zenon
<1>6. g = [n \in 0 .. Len(b) |->
             IF n = 0 THEN Entered(m, b)
             ELSE Round(g[n - 1], DebounceJudge(g[n - 1].mod, g[n - 1].buf[g[n - 1].nr + 1]))]
  BY ONLY <1>3, <1>5
<1>7. u = [n \in 0 .. Len(b) |->
             IF n = 0 THEN [mod |-> m, buf |-> b, nr |-> 0, done |-> FALSE]
             ELSE LET x == u[n - 1] IN Round(x, DebounceJudge(x.mod, x.buf[x.nr + 1]))]
  BY ONLY <1>6, Zenon DEF u, Entered
<1>8. InPlace(DebounceJudge, m, b) =
        [mod |-> u[Len(b)].mod, out |-> SubSeq(u[Len(b)].buf, 1, u[Len(b)].nr)]
  BY Zenon DEF InPlace
<1>. HIDE DEF u
<1>9. Loops(u, name, no, m, b)
  <2>1. Len(b) \in Nat /\ 0 \in 0 .. Len(b)
    OBVIOUS
  <2>2. \A n \in 1 .. Len(b) : n # 0 /\ n \in 0 .. Len(b)
    BY <2>1
  <2>3. u[0] = Entered(m, b)
    BY ONLY <1>7, <2>1, Zenon DEF Entered
  <2>4. \A n \in 1 .. Len(b) :
          u[n] = Round(u[n - 1], DebounceJudge(u[n - 1].mod, u[n - 1].buf[u[n - 1].nr + 1]))
    BY ONLY <1>7, <2>2, Zenon
  <2>5. \A n \in 1 .. Len(b) : u[n] = Round(u[n - 1], Verdict(name, no, u[n - 1]))
    <3>1. \A x : Verdict(name, no, x) = DebounceJudge(x.mod, x.buf[x.nr + 1])
      BY ONLY <1>2, Zenon DEF Verdict
    <3> TAKE n \in 1 .. Len(b)
    <3> DEFINE x == u[n - 1]
    <3>2. u[n] = Round(x, DebounceJudge(x.mod, x.buf[x.nr + 1]))
      BY ONLY <2>4, n \in 1 .. Len(b), Zenon
    <3>. HIDE DEF x
    <3>3. u[n] = Round(x, Verdict(name, no, x))
      BY ONLY <3>1, <3>2
    <3>. QED  BY <3>3 DEF x
  <2>. QED  BY ONLY <2>3, <2>5, Zenon DEF Loops
<1>10. [mod |-> u[Len(b)].mod, out |-> SubSeq(u[Len(b)].buf, 1, u[Len(b)].nr)] = w[Len(b)]
  BY ONLY Counts(c), F \in SUBSET Slots, b \in Seq(Samples(F)), <1>1, <1>9, LoopAgrees,
          SMTT(60)
<1>. QED  BY ONLY <1>8, <1>10

-----------------------------------------------------------------------------
(* Asking a filter                                                         *)

Drawn(u, t) == [mod |-> t.mod, out |-> u.out \o t.out]

\* u goes over the samples with one take after the other
Pulls(u, k, m, b) ==
  /\ u[0] = Begun(m)
  /\ \A n \in 1 .. Len(b) : u[n] = Drawn(u[n - 1], Take(k, FALSE, u[n - 1].mod, b[n]))

\* The walk does,
LEMMA WalkPulls ==
  ASSUME NEW k, NEW T, NEW S, NEW m, NEW b, NEW w, Walked(w, k, FALSE, T, S, m, b)
  PROVE  Pulls(w, k, m, b)
BY Zenon DEF Walked, Pulls, Begun, Drawn

\* and nothing else does.
LEMMA PullsOnce ==
  ASSUME NEW k, NEW m, NEW S, NEW b \in Seq(S), NEW u, NEW w, Pulls(u, k, m, b), Pulls(w, k, m, b)
  PROVE  u[Len(b)] = w[Len(b)]
<1> DEFINE L == Len(b)
           P == {n \in 0 .. L : u[n] = w[n]}
<1>1. L \in Nat /\ 0 \in 0 .. L /\ L \in 0 .. L
  OBVIOUS
<1>2. 0 \in P
  BY <1>1 DEF Pulls
<1>3. ASSUME NEW n \in 0 .. L - 1, n \in P
      PROVE  n + 1 \in P
  <2>1. n + 1 \in 1 .. L /\ n + 1 \in 0 .. L /\ (n + 1) - 1 = n
    BY <1>1
  <2>2. u[n] = w[n]
    BY <1>3
  <2>3. /\ u[n + 1] = Drawn(u[n], Take(k, FALSE, u[n].mod, b[n + 1]))
        /\ w[n + 1] = Drawn(w[n], Take(k, FALSE, w[n].mod, b[n + 1]))
    BY <2>1 DEF Pulls
  <2>. QED  BY <2>1, <2>2, <2>3
<1>. HIDE DEF P
<1>4. \A n \in 0 .. L : n \in P
  BY <1>1, <1>2, <1>3, CountUp
<1>. QED  BY <1>1, <1>4 DEF P

\* So pulling samples through skip goes where the walk goes,
LEMMA SkipPulled ==
  ASSUME NEW m, NEW S, NEW b \in Seq(S), NEW w, Pulls(w, "skip", m, b)
  PROVE  Pulled(SkipTake, m, b) = w[Len(b)]
<1> DEFINE g == On(w, b)
           u == CHOOSE f : f = [n \in 0 .. Len(b) |->
                  IF n = 0 THEN [mod |-> m, out |-> <<>>]
                  ELSE LET v == SkipTake(f[n - 1].mod, b[n])
                       IN [mod |-> v.mod, out |-> f[n - 1].out \o v.out]]
           no == FALSE
           name == "skip"
<1>0. /\ Len(b) \in Nat /\ 0 \in 0 .. Len(b)
      /\ \A n \in 0 .. Len(b) : n # 0 => n \in 1 .. Len(b) /\ n - 1 \in 0 .. Len(b)
      /\ \A n \in 1 .. Len(b) : n # 0 /\ n \in 0 .. Len(b)
  OBVIOUS
<1>1. \A x, s : Take(name, no, x, s) = SkipTake(x, s)
  BY DEF Take
<1>2. Pulls(w, name, m, b)
  OBVIOUS
<1>. HIDE DEF name
<1>3. \A n \in 1 .. Len(b) : w[n] = Drawn(w[n - 1], SkipTake(w[n - 1].mod, b[n]))
  <2>1. \A n \in 1 .. Len(b) : w[n] = Drawn(w[n - 1], Take(name, no, w[n - 1].mod, b[n]))
    BY <1>2, Zenon DEF Pulls
  <2>. HIDE DEF no
  <2>. QED  BY ONLY <1>1, <2>1, Zenon
<1>4. w[0] = Begun(m)
  BY <1>2, Zenon DEF Pulls
<1>5. g = [n \in 0 .. Len(b) |->
             IF n = 0 THEN Begun(m) ELSE Drawn(g[n - 1], SkipTake(g[n - 1].mod, b[n]))]
  <2>1. \A n \in 0 .. Len(b) : g[n] = w[n]
    BY DEF On
  <2>2. g = [n \in 0 .. Len(b) |-> g[n]]
    BY DEF On
  <2>. HIDE DEF g
  <2>3. \A n \in 0 .. Len(b) :
          g[n] = IF n = 0 THEN Begun(m) ELSE Drawn(g[n - 1], SkipTake(g[n - 1].mod, b[n]))
    BY ONLY <1>0, <1>3, <1>4, <2>1, Zenon
  <2>. QED  BY ONLY <2>2, <2>3
<1>6. u = [n \in 0 .. Len(b) |->
             IF n = 0 THEN [mod |-> m, out |-> <<>>]
             ELSE LET v == SkipTake(u[n - 1].mod, b[n])
                  IN [mod |-> v.mod, out |-> u[n - 1].out \o v.out]]
  <2>. HIDE DEF g
  <2>. QED  BY ONLY <1>5, Zenon DEF u, Begun, Drawn
<1>7. Pulled(SkipTake, m, b) = u[Len(b)]
  BY Zenon DEF Pulled
<1>. HIDE DEF u
<1>8. Pulls(u, name, m, b)
  <2>1. u[0] = Begun(m)
    BY ONLY <1>0, <1>6, Zenon DEF Begun
  <2>2. \A n \in 1 .. Len(b) : u[n] = Drawn(u[n - 1], SkipTake(u[n - 1].mod, b[n]))
    BY ONLY <1>0, <1>6, Zenon DEF Drawn
  <2>3. \A n \in 1 .. Len(b) : u[n] = Drawn(u[n - 1], Take(name, no, u[n - 1].mod, b[n]))
    <3>. HIDE DEF no
    <3>. QED  BY ONLY <1>1, <2>2, ZenonT(60)
  <2>. QED  BY <2>1, <2>3, Zenon DEF Pulls
<1>9. u[Len(b)] = w[Len(b)]
  BY ONLY b \in Seq(S), <1>2, <1>8, PullsOnce
<1>. QED  BY ONLY <1>7, <1>9

\* through variance,
LEMMA VariancePulled ==
  ASSUME NEW m, NEW S, NEW b \in Seq(S), NEW w, Pulls(w, "variance", m, b)
  PROVE  Pulled(VarianceTake, m, b) = w[Len(b)]
<1> DEFINE g == On(w, b)
           u == CHOOSE f : f = [n \in 0 .. Len(b) |->
                  IF n = 0 THEN [mod |-> m, out |-> <<>>]
                  ELSE LET v == VarianceTake(f[n - 1].mod, b[n])
                       IN [mod |-> v.mod, out |-> f[n - 1].out \o v.out]]
           no == FALSE
           name == "variance"
<1>0. /\ Len(b) \in Nat /\ 0 \in 0 .. Len(b)
      /\ \A n \in 0 .. Len(b) : n # 0 => n \in 1 .. Len(b) /\ n - 1 \in 0 .. Len(b)
      /\ \A n \in 1 .. Len(b) : n # 0 /\ n \in 0 .. Len(b)
  OBVIOUS
<1>1. \A x, s : Take(name, no, x, s) = VarianceTake(x, s)
  BY DEF Take
<1>2. Pulls(w, name, m, b)
  OBVIOUS
<1>. HIDE DEF name
<1>3. \A n \in 1 .. Len(b) : w[n] = Drawn(w[n - 1], VarianceTake(w[n - 1].mod, b[n]))
  <2>1. \A n \in 1 .. Len(b) : w[n] = Drawn(w[n - 1], Take(name, no, w[n - 1].mod, b[n]))
    BY <1>2, Zenon DEF Pulls
  <2>. HIDE DEF no
  <2>. QED  BY ONLY <1>1, <2>1, Zenon
<1>4. w[0] = Begun(m)
  BY <1>2, Zenon DEF Pulls
<1>5. g = [n \in 0 .. Len(b) |->
             IF n = 0 THEN Begun(m) ELSE Drawn(g[n - 1], VarianceTake(g[n - 1].mod, b[n]))]
  <2>1. \A n \in 0 .. Len(b) : g[n] = w[n]
    BY DEF On
  <2>2. g = [n \in 0 .. Len(b) |-> g[n]]
    BY DEF On
  <2>. HIDE DEF g
  <2>3. \A n \in 0 .. Len(b) :
          g[n] = IF n = 0 THEN Begun(m) ELSE Drawn(g[n - 1], VarianceTake(g[n - 1].mod, b[n]))
    BY ONLY <1>0, <1>3, <1>4, <2>1, Zenon
  <2>. QED  BY ONLY <2>2, <2>3
<1>6. u = [n \in 0 .. Len(b) |->
             IF n = 0 THEN [mod |-> m, out |-> <<>>]
             ELSE LET v == VarianceTake(u[n - 1].mod, b[n])
                  IN [mod |-> v.mod, out |-> u[n - 1].out \o v.out]]
  <2>. HIDE DEF g
  <2>. QED  BY ONLY <1>5, Zenon DEF u, Begun, Drawn
<1>7. Pulled(VarianceTake, m, b) = u[Len(b)]
  BY Zenon DEF Pulled
<1>. HIDE DEF u
<1>8. Pulls(u, name, m, b)
  <2>1. u[0] = Begun(m)
    BY ONLY <1>0, <1>6, Zenon DEF Begun
  <2>2. \A n \in 1 .. Len(b) : u[n] = Drawn(u[n - 1], VarianceTake(u[n - 1].mod, b[n]))
    BY ONLY <1>0, <1>6, Zenon DEF Drawn
  <2>3. \A n \in 1 .. Len(b) : u[n] = Drawn(u[n - 1], Take(name, no, u[n - 1].mod, b[n]))
    <3>. HIDE DEF no
    <3>. QED  BY ONLY <1>1, <2>2, ZenonT(60)
  <2>. QED  BY <2>1, <2>3, Zenon DEF Pulls
<1>9. u[Len(b)] = w[Len(b)]
  BY ONLY b \in Seq(S), <1>2, <1>8, PullsOnce
<1>. QED  BY ONLY <1>7, <1>9

\* and through debounce.
LEMMA DebouncePulled ==
  ASSUME NEW m, NEW S, NEW b \in Seq(S), NEW w, Pulls(w, "singly", m, b)
  PROVE  Pulled(DebounceTake, m, b) = w[Len(b)]
<1> DEFINE g == On(w, b)
           u == CHOOSE f : f = [n \in 0 .. Len(b) |->
                  IF n = 0 THEN [mod |-> m, out |-> <<>>]
                  ELSE LET v == DebounceTake(f[n - 1].mod, b[n])
                       IN [mod |-> v.mod, out |-> f[n - 1].out \o v.out]]
           no == FALSE
           name == "singly"
<1>0. /\ Len(b) \in Nat /\ 0 \in 0 .. Len(b)
      /\ \A n \in 0 .. Len(b) : n # 0 => n \in 1 .. Len(b) /\ n - 1 \in 0 .. Len(b)
      /\ \A n \in 1 .. Len(b) : n # 0 /\ n \in 0 .. Len(b)
  OBVIOUS
<1>1. \A x, s : Take(name, no, x, s) = DebounceTake(x, s)
  BY DEF Take
<1>2. Pulls(w, name, m, b)
  OBVIOUS
<1>. HIDE DEF name
<1>3. \A n \in 1 .. Len(b) : w[n] = Drawn(w[n - 1], DebounceTake(w[n - 1].mod, b[n]))
  <2>1. \A n \in 1 .. Len(b) : w[n] = Drawn(w[n - 1], Take(name, no, w[n - 1].mod, b[n]))
    BY <1>2, Zenon DEF Pulls
  <2>. HIDE DEF no
  <2>. QED  BY ONLY <1>1, <2>1, Zenon
<1>4. w[0] = Begun(m)
  BY <1>2, Zenon DEF Pulls
<1>5. g = [n \in 0 .. Len(b) |->
             IF n = 0 THEN Begun(m) ELSE Drawn(g[n - 1], DebounceTake(g[n - 1].mod, b[n]))]
  <2>1. \A n \in 0 .. Len(b) : g[n] = w[n]
    BY DEF On
  <2>2. g = [n \in 0 .. Len(b) |-> g[n]]
    BY DEF On
  <2>. HIDE DEF g
  <2>3. \A n \in 0 .. Len(b) :
          g[n] = IF n = 0 THEN Begun(m) ELSE Drawn(g[n - 1], DebounceTake(g[n - 1].mod, b[n]))
    BY ONLY <1>0, <1>3, <1>4, <2>1, Zenon
  <2>. QED  BY ONLY <2>2, <2>3
<1>6. u = [n \in 0 .. Len(b) |->
             IF n = 0 THEN [mod |-> m, out |-> <<>>]
             ELSE LET v == DebounceTake(u[n - 1].mod, b[n])
                  IN [mod |-> v.mod, out |-> u[n - 1].out \o v.out]]
  <2>. HIDE DEF g
  <2>. QED  BY ONLY <1>5, Zenon DEF u, Begun, Drawn
<1>7. Pulled(DebounceTake, m, b) = u[Len(b)]
  BY Zenon DEF Pulled
<1>. HIDE DEF u
<1>8. Pulls(u, name, m, b)
  <2>1. u[0] = Begun(m)
    BY ONLY <1>0, <1>6, Zenon DEF Begun
  <2>2. \A n \in 1 .. Len(b) : u[n] = Drawn(u[n - 1], DebounceTake(u[n - 1].mod, b[n]))
    BY ONLY <1>0, <1>6, Zenon DEF Drawn
  <2>3. \A n \in 1 .. Len(b) : u[n] = Drawn(u[n - 1], Take(name, no, u[n - 1].mod, b[n]))
    <3>. HIDE DEF no
    <3>. QED  BY ONLY <1>1, <2>2, ZenonT(60)
  <2>. QED  BY <2>1, <2>3, Zenon DEF Pulls
<1>9. u[Len(b)] = w[Len(b)]
  BY ONLY b \in Seq(S), <1>2, <1>8, PullsOnce
<1>. QED  BY ONLY <1>7, <1>9

\* The filter, its state while it is asked, and what stays of that.
KindAt(f, mt, singly) == IF f = "debounce" /\ ~mt /\ singly THEN "singly" ELSE f
Opened(k, m) == IF k = "debounce" THEN [quiet |-> m, drop |-> FALSE] ELSE m
Closed(k, m) == IF k = "debounce" THEN m.quiet ELSE m
WalkAll(k, mt, m, b) == Walk(k, mt, Opened(k, m), b)
Asked(f, mt, m, b, singly) == IF mt THEN AskMt(f, m, b) ELSE Ask(f, m, b, singly)
Ended(k, w, b) == [mod |-> Closed(k, w[Len(b)].mod), out |-> w[Len(b)].out]

\* A state between two reads opens, and one while it is asked closes.
LEMMA OpenClose ==
  ASSUME NEW c, NEW F, NEW f \in Filters, NEW mt, NEW singly, NEW k, k = KindAt(f, mt, singly)
  PROVE  /\ k \in Kind
         /\ \A m \in StatesOf(f, c, F) : Opened(k, m) \in During(k, c, F)
         /\ \A m \in During(k, c, F) : Closed(k, m) \in StatesOf(f, c, F)
<1>1. CASE k = "singly"
  <2>1. f = "debounce"
    BY <1>1 DEF KindAt, Filters
  <2>. QED  BY <1>1, <2>1 DEF Kind, Opened, Closed, During, StatesOf
<1>2. CASE k # "singly"
  <2>1. k = f
    BY <1>2 DEF KindAt
  <2>2. CASE k = "debounce"
    BY <2>1, <2>2 DEF Kind, Opened, Closed, During, StatesOf
  <2>3. CASE k # "debounce"
    <3>1. During(k, c, F) = StatesOf(f, c, F)
      BY <1>2, <2>1, <2>3 DEF During
    <3>2. \A m : Opened(k, m) = m /\ Closed(k, m) = m
      BY <2>3 DEF Opened, Closed
    <3>. QED  BY <2>1, <3>1, <3>2 DEF Kind
  <2>. QED  BY <2>2, <2>3
<1>. QED  BY <1>1, <1>2

\* The end of a filter that has nothing to close.
LEMMA EndedIs ==
  ASSUME NEW k, k # "debounce", NEW w, NEW b, NEW T, NEW S, w[Len(b)] \in Turns(T, S)
  PROVE  Ended(k, w, b) = w[Len(b)]
<1>1. w[Len(b)] = [mod |-> w[Len(b)].mod, out |-> w[Len(b)].out]
  BY DEF Turns
<1>. QED  BY <1>1 DEF Ended, Closed

\* Whatever filter is asked in whatever way, it walks over the samples.
LEMMA AskIs ==
  ASSUME NEW c, Counts(c), NEW F \in SUBSET Slots, NEW f \in Filters, NEW mt, Legal(f, mt),
         NEW singly, NEW k, k = KindAt(f, mt, singly),
         NEW m \in StatesOf(f, c, F), NEW b \in Seq(Samples(F)),
         NEW w, w = WalkAll(k, mt, m, b)
  PROVE  Asked(f, mt, m, b, singly) = Ended(k, w, b)
<1> DEFINE S == Samples(F)
           T == During(k, c, F)
           L == Len(b)
           o == Opened(k, m)
<1>1. mt \in BOOLEAN /\ k \in Kind /\ o \in T /\ Legal(k, mt)
  BY OpenClose DEF Legal, KindAt
<1>2. Walked(w, k, mt, T, S, o, b)
  <2>1. o \in During(k, c, F) /\ Legal(k, mt) /\ w = Walk(k, mt, o, b)
    BY <1>1 DEF WalkAll
  <2>. HIDE DEF o
  <2>2. Walked(Walk(k, mt, o, b), k, mt, During(k, c, F), Samples(F), o, b)
    BY ONLY Counts(c), F \in SUBSET Slots, b \in Seq(Samples(F)), <2>1, WalkIs
  <2>. QED  BY <2>1, <2>2
<1>3. L \in 0 .. L /\ w[L] \in Turns(T, S)
  <2>1. L \in 0 .. L
    OBVIOUS
  <2>. QED  BY <1>2, <2>1 DEF Walked
<1>4. k # "debounce" => o = m
  BY DEF Opened
<1>5. k # "debounce" => Ended(k, w, b) = w[L]
  BY <1>3, EndedIs
<1>. HIDE DEF o, T
<1>6. k \in Judges => Follows(w, k, mt, o, b)
  <2>1. Walked(w, k, mt, During(k, c, F), Samples(F), o, b) /\ o \in During(k, c, F)
    BY <1>1, <1>2 DEF T
  <2>. HIDE DEF S, L
  <2>. QED  BY <1>1, <2>1, WalkFollows
<1>7. ~mt => Pulls(w, k, o, b)
  <2>1. ASSUME ~mt
        PROVE  Pulls(w, k, o, b)
    <3>1. mt = FALSE
      BY <1>1, <2>1
    <3>2. Walked(w, k, FALSE, T, S, o, b)
      BY <1>2, <3>1
    <3>. HIDE DEF S
    <3>. QED  BY ONLY <3>2, WalkPulls
  <2>. QED  BY <2>1
<1>8. CASE k = "skip" \/ k = "variance" \/ k = "singly"
  <2>1. mt = FALSE
    BY <1>1, <1>8 DEF Legal
  <2>2. Pulls(w, k, m, b) /\ Ended(k, w, b) = w[L]
    BY <1>4, <1>5, <1>7, <1>8, <2>1
  <2>3. Asked(f, mt, m, b, singly) = Ask(f, m, b, singly)
    BY <2>1 DEF Asked
  <2>4. CASE k = "skip"
    <3>1. f = "skip"
      BY <2>4 DEF KindAt
    <3>2. Ask(f, m, b, singly) = Pulled(SkipTake, m, b)
      BY <3>1 DEF Ask
    <3>3. Pulls(w, "skip", m, b)
      BY <2>2, <2>4
    <3>4. Pulled(SkipTake, m, b) = w[L]
      BY ONLY b \in Seq(S), <3>3, SkipPulled
    <3>. QED  BY ONLY <2>2, <2>3, <3>2, <3>4
  <2>5. CASE k = "variance"
    <3>1. f = "variance"
      BY <2>5 DEF KindAt
    <3>2. Ask(f, m, b, singly) = Pulled(VarianceTake, m, b)
      BY <3>1 DEF Ask
    <3>3. Pulls(w, "variance", m, b)
      BY <2>2, <2>5
    <3>4. Pulled(VarianceTake, m, b) = w[L]
      BY ONLY b \in Seq(S), <3>3, VariancePulled
    <3>. QED  BY ONLY <2>2, <2>3, <3>2, <3>4
  <2>6. CASE k = "singly"
    <3>1. f = "debounce" /\ singly
      BY <2>6 DEF KindAt, Filters
    <3>2. Ask(f, m, b, singly) = Pulled(DebounceTake, m, b)
      BY <3>1 DEF Ask
    <3>3. Pulls(w, "singly", m, b)
      BY <2>2, <2>6
    <3>4. Pulled(DebounceTake, m, b) = w[L]
      BY ONLY b \in Seq(S), <3>3, DebouncePulled
    <3>. QED  BY ONLY <2>2, <2>3, <3>2, <3>4
  <2>. QED  BY ONLY <1>8, <2>4, <2>5, <2>6
<1>9. CASE k = "pthres" /\ mt = FALSE
  <2>1. f = "pthres"
    BY <1>9 DEF KindAt
  <2>2. Ended(k, w, b) = w[L] /\ o = m
    BY <1>4, <1>5, <1>9
  <2>3. /\ m \in During("pthres", c, F)
        /\ Walked(w, "pthres", FALSE, During("pthres", c, F), Samples(F), m, b)
    BY <1>1, <1>2, <1>9, <2>2 DEF T
  <2>4. InPlace(PthresJudge, m, b) = w[L]
    BY ONLY Counts(c), F \in SUBSET Slots, b \in Seq(S), <2>3, PthresInPlace
  <2>5. Asked(f, mt, m, b, singly) = InPlace(PthresJudge, m, b)
    BY <1>9, <2>1 DEF Asked, Ask, pthres_read
  <2>. QED  BY ONLY <2>2, <2>4, <2>5
<1>10. CASE k = "pthres" /\ mt = TRUE
  <2>1. f = "pthres"
    BY <1>10 DEF KindAt
  <2>2. Ended(k, w, b) = w[L] /\ o = m
    BY <1>4, <1>5, <1>10
  <2>3. Follows(w, "pthres", TRUE, m, b)
    BY <1>6, <1>10, <2>2 DEF Judges
  <2>4. OneByOne(PthresJudgeMt, m, b) = w[L]
    BY ONLY b \in Seq(S), <2>3, PthresMtOneByOne
  <2>5. Asked(f, mt, m, b, singly) = OneByOne(PthresJudgeMt, m, b)
    BY <1>10, <2>1 DEF Asked, Ask, AskMt, pthres_read_mt
  <2>. QED  BY ONLY <2>2, <2>4, <2>5
<1>11. CASE k = "median" /\ mt = FALSE
  <2>1. f = "median"
    BY <1>11 DEF KindAt
  <2>2. Ended(k, w, b) = w[L] /\ o = m
    BY <1>4, <1>5, <1>11
  <2>3. Follows(w, "median", FALSE, m, b)
    BY <1>6, <1>11, <2>2 DEF Judges
  <2>4. OneByOne(MedianJudge, m, b) = w[L]
    BY ONLY b \in Seq(S), <2>3, MedianOneByOne
  <2>5. Asked(f, mt, m, b, singly) = OneByOne(MedianJudge, m, b)
    BY <1>11, <2>1 DEF Asked, Ask, AskMt, median_read
  <2>. QED  BY ONLY <2>2, <2>4, <2>5
<1>12. CASE k = "median" /\ mt = TRUE
  <2>1. f = "median"
    BY <1>12 DEF KindAt
  <2>2. Ended(k, w, b) = w[L] /\ o = m
    BY <1>4, <1>5, <1>12
  <2>3. Follows(w, "median", TRUE, m, b)
    BY <1>6, <1>12, <2>2 DEF Judges
  <2>4. OneByOne(MedianJudgeMt, m, b) = w[L]
    BY ONLY b \in Seq(S), <2>3, MedianMtOneByOne
  <2>5. Asked(f, mt, m, b, singly) = OneByOne(MedianJudgeMt, m, b)
    BY <1>12, <2>1 DEF Asked, Ask, AskMt, median_read_mt
  <2>. QED  BY ONLY <2>2, <2>4, <2>5
<1>13. CASE k = "dejitter" /\ mt = FALSE
  <2>1. f = "dejitter"
    BY <1>13 DEF KindAt
  <2>2. Ended(k, w, b) = w[L] /\ o = m
    BY <1>4, <1>5, <1>13
  <2>3. Follows(w, "dejitter", FALSE, m, b)
    BY <1>6, <1>13, <2>2 DEF Judges
  <2>4. OneByOne(DejitterJudge, m, b) = w[L]
    BY ONLY b \in Seq(S), <2>3, DejitterOneByOne
  <2>5. Asked(f, mt, m, b, singly) = OneByOne(DejitterJudge, m, b)
    BY <1>13, <2>1 DEF Asked, Ask, AskMt, dejitter_read
  <2>. QED  BY ONLY <2>2, <2>4, <2>5
<1>14. CASE k = "dejitter" /\ mt = TRUE
  <2>1. f = "dejitter"
    BY <1>14 DEF KindAt
  <2>2. Ended(k, w, b) = w[L] /\ o = m
    BY <1>4, <1>5, <1>14
  <2>3. Follows(w, "dejitter", TRUE, m, b)
    BY <1>6, <1>14, <2>2 DEF Judges
  <2>4. OneByOne(DejitterJudge, m, b) = w[L]
    BY ONLY b \in Seq(S), <2>3, DejitterOneByOne
  <2>5. Asked(f, mt, m, b, singly) = OneByOne(DejitterJudge, m, b)
    BY <1>14, <2>1 DEF Asked, Ask, AskMt, dejitter_read_mt
  <2>. QED  BY ONLY <2>2, <2>4, <2>5
<1>15. CASE k = "linear" /\ mt = FALSE
  <2>1. f = "linear"
    BY <1>15 DEF KindAt
  <2>2. Ended(k, w, b) = w[L] /\ o = m
    BY <1>4, <1>5, <1>15
  <2>3. Follows(w, "linear", FALSE, m, b)
    BY <1>6, <1>15, <2>2 DEF Judges
  <2>4. OneByOne(LinearJudge, m, b) = w[L]
    BY ONLY b \in Seq(S), <2>3, LinearOneByOne
  <2>5. Asked(f, mt, m, b, singly) = OneByOne(LinearJudge, m, b)
    BY <1>15, <2>1 DEF Asked, Ask, AskMt, linear_read
  <2>. QED  BY ONLY <2>2, <2>4, <2>5
<1>16. CASE k = "linear" /\ mt = TRUE
  <2>1. f = "linear"
    BY <1>16 DEF KindAt
  <2>2. Ended(k, w, b) = w[L] /\ o = m
    BY <1>4, <1>5, <1>16
  <2>3. Follows(w, "linear", TRUE, m, b)
    BY <1>6, <1>16, <2>2 DEF Judges
  <2>4. OneByOne(LinearJudge, m, b) = w[L]
    BY ONLY b \in Seq(S), <2>3, LinearOneByOne
  <2>5. Asked(f, mt, m, b, singly) = OneByOne(LinearJudge, m, b)
    BY <1>16, <2>1 DEF Asked, Ask, AskMt, linear_read_mt
  <2>. QED  BY ONLY <2>2, <2>4, <2>5
<1>17. CASE k = "debounce" /\ mt = FALSE
  <2>1. f = "debounce" /\ (~mt => ~singly)
    BY <1>17 DEF KindAt
  <2>2. o = [quiet |-> m, drop |-> FALSE]
    BY <1>17 DEF o, Opened
  <2>4. InPlace(DebounceJudge, o, b) = w[L]
    <3>1. /\ o \in During("debounce", c, F)
          /\ Walked(w, "debounce", FALSE, During("debounce", c, F), Samples(F), o, b)
      BY <1>1, <1>2, <1>17 DEF T
    <3>. QED  BY ONLY Counts(c), F \in SUBSET Slots, b \in Seq(S), <3>1, DebounceInPlace
  <2>5. Asked(f, mt, m, b, singly) = debounce_read(m, b)
    BY <1>17, <2>1 DEF Asked, Ask, AskMt
  <2>6. debounce_read(m, b) = [mod |-> w[L].mod.quiet, out |-> w[L].out]
    BY ONLY <2>2, <2>4, Zenon DEF debounce_read
  <2>7. Ended(k, w, b) = [mod |-> w[L].mod.quiet, out |-> w[L].out]
    BY <1>17 DEF Ended, Closed
  <2>. QED  BY ONLY <2>5, <2>6, <2>7
<1>18. CASE k = "debounce" /\ mt = TRUE
  <2>1. f = "debounce" /\ (~mt => ~singly)
    BY <1>18 DEF KindAt
  <2>2. o = [quiet |-> m, drop |-> FALSE]
    BY <1>18 DEF o, Opened
  <2>4. OneByOne(DebounceJudge, o, b) = w[L]
    <3>1. Follows(w, "debounce", TRUE, o, b)
      BY <1>6, <1>18 DEF Judges
    <3>. QED  BY ONLY b \in Seq(S), <3>1, DebounceOneByOne
  <2>5. Asked(f, mt, m, b, singly) = debounce_read_mt(m, b)
    BY <1>18, <2>1 DEF Asked, Ask, AskMt
  <2>6. debounce_read_mt(m, b) = [mod |-> w[L].mod.quiet, out |-> w[L].out]
    BY ONLY <2>2, <2>4, Zenon DEF debounce_read_mt
  <2>7. Ended(k, w, b) = [mod |-> w[L].mod.quiet, out |-> w[L].out]
    BY <1>18 DEF Ended, Closed
  <2>. QED  BY ONLY <2>5, <2>6, <2>7
<1>. QED
  <2>1. mt = TRUE \/ mt = FALSE
    BY <1>1
  <2>2. k \in {"skip", "variance", "singly", "pthres", "debounce", "median", "dejitter", "linear"}
    BY <1>1 DEF Kind, Filters
  <2>. QED  BY ONLY <1>8, <1>9, <1>10, <1>11, <1>12, <1>13, <1>14, <1>15, <1>16, <1>17, <1>18,
                    <2>1, <2>2

-----------------------------------------------------------------------------
(* pthres: releases end presses                                            *)

\* The last sample is that at the end, if it is of the slot.
LEMMA LastOfMore ==
  ASSUME NEW F, NEW out \in Seq(Samples(F)), NEW x \in Samples(F), NEW slot, NEW old
  PROVE  LastOf(out \o <<x>>, slot, old) = IF x.slot = slot THEN x ELSE LastOf(out, slot, old)
<1> DEFINE e == <<x>>
           h == LastOf(out, slot, old)
<1>1. e \in Seq(Samples(F))
  OBVIOUS
<1>2. LastOf(e, slot, h) = IF x.slot = slot THEN x ELSE h
  <2>. HIDE DEF h
  <2>. QED  BY LastOfOne
<1>. HIDE DEF e
<1>3. LastOf(out \o e, slot, old) = LastOf(e, slot, h)
  BY <1>1, LastOfConcat
<1>. QED  BY <1>2, <1>3 DEF e

\* What comes before a place is not changed by what is put at the end.
LEMMA MoreAtEnd ==
  ASSUME NEW S, NEW out \in Seq(S), NEW x \in S
  PROVE  /\ out \o <<x>> \in Seq(S) /\ Len(out \o <<x>>) = Len(out) + 1
         /\ (out \o <<x>>)[Len(out) + 1] = x
         /\ \A i \in 1 .. Len(out) : (out \o <<x>>)[i] = out[i]
         /\ \A i \in 1 .. Len(out) + 1 : SubSeq(out \o <<x>>, 1, i - 1) = SubSeq(out, 1, i - 1)
         /\ SubSeq(out, 1, Len(out)) = out
<1> DEFINE e == <<x>>
           L == Len(out)
           a == out \o e
<1>1. e \in Seq(S) /\ Len(e) = 1 /\ e[1] = x /\ L \in Nat
  OBVIOUS
<1>. HIDE DEF e
<1>2. /\ a \in Seq(S) /\ Len(a) = L + 1
      /\ \A i \in 1 .. L + 1 : a[i] = IF i <= L THEN out[i] ELSE e[i - L]
  <2>1. /\ a \in Seq(S) /\ Len(a) = Len(out) + Len(e)
        /\ \A i \in 1 .. Len(out) + Len(e) : a[i] = IF i <= Len(out) THEN out[i] ELSE e[i - Len(out)]
    BY ONLY out \in Seq(S), <1>1, ConcatProperties
  <2>. QED  BY ONLY <1>1, <2>1
<1>3. a[L + 1] = x
  <2>1. L + 1 \in 1 .. L + 1 /\ ~(L + 1 <= L) /\ (L + 1) - L = 1
    BY <1>1
  <2>. QED  BY ONLY <1>1, <1>2, <2>1
<1>4. \A i \in 1 .. L : a[i] = out[i]
  <2>1. \A i \in 1 .. L : i \in 1 .. L + 1 /\ i <= L
    BY <1>1
  <2>. QED  BY ONLY <1>2, <2>1
<1>. HIDE DEF a
<1>5. \A i \in 1 .. L + 1 : SubSeq(a, 1, i - 1) = SubSeq(out, 1, i - 1)
  <2> TAKE i \in 1 .. L + 1
  <2> DEFINE n == i - 1
             p == SubSeq(a, 1, n)
             q == SubSeq(out, 1, n)
  <2>1. n \in Nat /\ n <= L /\ \A j \in 1 .. n : j \in 1 .. L /\ j \in 1 .. L + 1
    BY <1>1
  <2>. HIDE DEF n
  <2>2. p \in Seq(S) /\ Len(p) = n /\ \A j \in 1 .. n : p[j] = a[j]
    BY ONLY <1>1, <1>2, <2>1
  <2>3. q \in Seq(S) /\ Len(q) = n /\ \A j \in 1 .. n : q[j] = out[j]
    BY ONLY <1>1, <2>1, out \in Seq(S) DEF L
  <2>. HIDE DEF p, q
  <2>4. \A j \in 1 .. n : p[j] = q[j]
    BY ONLY <1>4, <2>1, <2>2, <2>3
  <2>5. p = q
    BY ONLY <2>2, <2>3, <2>4, SeqEqual
  <2>. QED  BY <2>5 DEF p, q, n
<1>6. SubSeq(out, 1, L) = out
  BY AllOfThem
<1>. QED  BY <1>2, <1>3, <1>4, <1>5, <1>6 DEF a, e

\* x is a press at the place pos
PressAt(x, pos) == x.pressure >= Pmin /\ x.pos = pos

\* what pthres remembers of a slot is the last it passed on
Keeps(m, out, had) ==
  \A slot \in Slots : m[slot].press => PressAt(LastOf(out, slot, had[slot]), m[slot].save)

\* every release in out has its press before it
Ends(out, had) ==
  \A i \in 1 .. Len(out) :
    out[i].pressure < Pmin =>
      PressAt(LastOf(SubSeq(out, 1, i - 1), out[i].slot, had[out[i].slot]), out[i].pos)

\* One more sample does not take a press from a release.
LEMMA EndsMore ==
  ASSUME NEW F, NEW out \in Seq(Samples(F)), NEW x \in Samples(F), NEW had, Ends(out, had),
         x.pressure < Pmin => PressAt(LastOf(out, x.slot, had[x.slot]), x.pos)
  PROVE  Ends(out \o <<x>>, had)
<1> DEFINE S == Samples(F)
           L == Len(out)
           a == out \o <<x>>
<1>1. /\ Len(a) = L + 1 /\ a[L + 1] = x
      /\ \A i \in 1 .. L : a[i] = out[i]
      /\ \A i \in 1 .. L + 1 : SubSeq(a, 1, i - 1) = SubSeq(out, 1, i - 1)
      /\ SubSeq(out, 1, L) = out
  BY MoreAtEnd
<1>2. L \in Nat
  OBVIOUS
<1>. HIDE DEF a
<1>3. ASSUME NEW i \in 1 .. L + 1, a[i].pressure < Pmin
      PROVE  PressAt(LastOf(SubSeq(a, 1, i - 1), a[i].slot, had[a[i].slot]), a[i].pos)
  <2>1. CASE i \in 1 .. L
    <3>1. a[i] = out[i] /\ SubSeq(a, 1, i - 1) = SubSeq(out, 1, i - 1)
      BY <1>1, <2>1
    <3>2. PressAt(LastOf(SubSeq(out, 1, i - 1), out[i].slot, had[out[i].slot]), out[i].pos)
      BY <1>3, <2>1, <3>1 DEF Ends
    <3>. QED  BY ONLY <3>1, <3>2
  <2>2. CASE i \notin 1 .. L
    <3>1. i = L + 1 /\ i - 1 = L
      BY ONLY <1>2, <2>2, i \in 1 .. L + 1
    <3>2. a[i] = x
      BY ONLY <1>1, <3>1
    <3>3. SubSeq(a, 1, i - 1) = out
      BY ONLY <1>1, <3>1, i \in 1 .. L + 1
    <3>. QED  BY <1>3, <3>2, <3>3
  <2>. QED  BY <2>1, <2>2
<1>4. Ends(a, had)
  BY ONLY <1>1, <1>3, Zenon DEF Ends
<1>. QED  BY <1>4 DEF a

\* With one sample both go on to hold.
LEMMA PthresKeeps ==
  ASSUME NEW F \in SUBSET Slots, NEW s \in Samples(F), NEW m \in [Slots -> Presses],
         NEW v, PthresTurns(F, FALSE, m, s, v), NEW out \in Seq(Samples(F)), NEW had,
         Keeps(m, out, had), Ends(out, had)
  PROVE  Keeps(v.mod, Passed(out, v), had) /\ Ends(Passed(out, v), had)
<1> DEFINE x == v.sample
           t == s.slot
<1>1. /\ v.mod \in [Slots -> Presses] /\ v.keep \in BOOLEAN /\ x \in Samples(F) /\ x.slot = t
      /\ t \in Slots /\ s.pos \in Int /\ s.pressure \in Int /\ Pmin \in Nat
  BY SampleFields, PthresAssumption DEF PthresTurns
<1>2. \A slot \in Slots : LastOf(out \o <<x>>, slot, had[slot]) =
        IF t = slot THEN x ELSE LastOf(out, slot, had[slot])
  <2>. HIDE DEF x, t
  <2>. QED  BY <1>1, LastOfMore
<1>3. CASE ~v.keep
  <2>1. v.mod = m
    BY <1>3, Zenon DEF PthresTurns
  <2>2. Passed(out, v) = out
    BY <1>3 DEF Passed
  <2>. QED  BY ONLY <2>1, <2>2, Keeps(m, out, had), Ends(out, had)
<1>4. CASE v.keep
  <2>1. Passed(out, v) = out \o <<x>>
    <3>. HIDE DEF x
    <3>1. Passed(out, v) = out \o Taken(v)
      BY <1>1, PassedOn DEF x
    <3>. QED  BY <1>4, <3>1 DEF Taken, x
  <2>2. \/ /\ m[t].press /\ v.mod = [m EXCEPT ![t] = [press |-> FALSE, save |-> m[t].save]]
           /\ x.pressure = 0 /\ x.pos = m[t].save
        \/ ~(s.pressure < Pmin) /\ x = s /\ v.mod = [m EXCEPT ![t] = [press |-> TRUE, save |-> s.pos]]
    BY <1>4, Zenon DEF PthresTurns
  <2>. HIDE DEF x, t
  <2>3. CASE /\ m[t].press /\ v.mod = [m EXCEPT ![t] = [press |-> FALSE, save |-> m[t].save]]
             /\ x.pressure = 0 /\ x.pos = m[t].save
    <3>1. \A slot \in Slots : v.mod[slot].press => slot # t /\ v.mod[slot] = m[slot]
      BY <1>1, <2>3
    <3>2. Keeps(v.mod, out \o <<x>>, had)
      BY <1>2, <3>1 DEF Keeps
    <3>3. x.pressure < Pmin => PressAt(LastOf(out, x.slot, had[x.slot]), x.pos)
      <4>1. PressAt(LastOf(out, t, had[t]), m[t].save)
        BY <1>1, <2>3 DEF Keeps
      <4>. QED  BY <1>1, <2>3, <4>1
    <3>4. Ends(out \o <<x>>, had)
      BY <1>1, <3>3, EndsMore
    <3>. QED  BY <2>1, <3>2, <3>4
  <2>4. CASE ~(s.pressure < Pmin) /\ x = s /\ v.mod = [m EXCEPT ![t] = [press |-> TRUE, save |-> s.pos]]
    <3>1. \A slot \in Slots : IF slot = t THEN v.mod[slot].save = s.pos ELSE v.mod[slot] = m[slot]
      BY <1>1, <2>4
    <3>2. PressAt(x, s.pos)
      BY <1>1, <2>4 DEF PressAt
    <3>3. Keeps(v.mod, out \o <<x>>, had)
      BY <1>2, <3>1, <3>2 DEF Keeps
    <3>4. ~(x.pressure < Pmin)
      BY <2>4
    <3>5. Ends(out \o <<x>>, had)
      BY <1>1, <3>4, EndsMore
    <3>. QED  BY <2>1, <3>3, <3>5
  <2>. QED  BY ONLY <2>2, <2>3, <2>4
<1>. QED  BY <1>1, <1>3, <1>4

\* Before the first sample nothing has been passed on.
LEMMA NothingEnds ==
  ASSUME NEW m, NEW had, \A slot \in Slots : m[slot].press => PressAt(had[slot], m[slot].save)
  PROVE  Keeps(m, <<>>, had) /\ Ends(<<>>, had)
<1> DEFINE e == <<>>
<1>1. Len(e) = 0
  OBVIOUS
<1>2. \A slot, old : LastOf(e, slot, old) = old
  BY LastOfNone
<1>. HIDE DEF e
<1>3. Ends(e, had)
  BY <1>1 DEF Ends
<1>4. Keeps(m, e, had)
  BY <1>2 DEF Keeps
<1>. QED  BY <1>3, <1>4 DEF e

\* how pthres_read walks over b
PthresWalk(m, b) == Walk("pthres", FALSE, m, b)

\* So at the end every release that pthres has passed on has its press.
LEMMA PthresEnds ==
  ASSUME NEW c, Counts(c), NEW F \in SUBSET Slots, NEW m \in [Slots -> Presses],
         NEW b \in Seq(Samples(F)), NEW w, w = PthresWalk(m, b), NEW had,
         \A slot \in Slots : m[slot].press => PressAt(had[slot], m[slot].save)
  PROVE  /\ Keeps(w[Len(b)].mod, w[Len(b)].out, had) /\ Ends(w[Len(b)].out, had)
         /\ w[Len(b)].out \in Seq(Samples(F)) /\ w[Len(b)].mod \in [Slots -> Presses]
         /\ OneByOne(PthresJudge, m, b) = w[Len(b)]
<1> DEFINE S == Samples(F)
           T == [Slots -> Presses]
           L == Len(b)
           P == {n \in 0 .. L : Keeps(w[n].mod, w[n].out, had) /\ Ends(w[n].out, had)}
           no == FALSE
           name == "pthres"
<1>1. L \in Nat /\ 0 \in 0 .. L /\ L \in 0 .. L
  OBVIOUS
<1>2. During(name, c, F) = T
  BY DEF During, StatesOf, Presses
<1>3. /\ no \in BOOLEAN /\ name \in Judges /\ w = Walk(name, no, m, b)
      /\ Legal(name, no)
  BY DEF PthresWalk, Judges, Legal, Kind, Filters
<1>4. \A x, s : JudgeOf(name, no, x, s) = PthresJudge(x, s)
  BY JudgesAre
<1>. HIDE DEF name, no
<1>5. Walked(w, name, no, T, S, m, b)
  <2>1. Walked(Walk(name, no, m, b), name, no, During(name, c, F), Samples(F), m, b)
    BY <1>2, <1>3, WalkIs
  <2>. QED  BY <1>2, <1>3, <2>1
<1>6. Follows(w, name, no, m, b)
  BY <1>2, <1>3, <1>5, WalkFollows
<1>7. 0 \in P
  <2>1. w[0] = [mod |-> m, out |-> <<>>]
    BY <1>5, Zenon DEF Walked
  <2>2. w[0].mod = m /\ w[0].out = <<>>
    BY ONLY <2>1
  <2>3. Keeps(m, <<>>, had) /\ Ends(<<>>, had)
    BY NothingEnds
  <2>. QED  BY <1>1, <2>2, <2>3
<1>8. ASSUME NEW n \in 0 .. L - 1, n \in P
      PROVE  n + 1 \in P
  <2> DEFINE u == w[n]
             j == n + 1
             s == b[j]
             x == u.mod
             out == u.out
             v == PthresJudge(x, s)
  <2>1. n \in 0 .. L /\ j \in 1 .. L /\ j \in 0 .. L /\ j - 1 = n /\ s \in S
    BY <1>1
  <2>2. u \in Turns(T, S)
    BY <1>5, <2>1, Zenon DEF Walked
  <2>3. x \in T /\ out \in Seq(S)
    BY <2>2 DEF Turns
  <2>4. w[j] = Step(w[j - 1], JudgeOf(name, no, w[j - 1].mod, b[j]))
    <3>. HIDE DEF j, L
    <3>. QED  BY <1>6, <2>1, Zenon DEF Follows, L
  <2>5. w[j] = [mod |-> v.mod, out |-> Passed(out, v)]
    <3>1. w[j] = Step(u, v)
      BY <1>4, <2>1, <2>4
    <3>. QED  BY ONLY <3>1, Zenon DEF Step
  <2>6. Keeps(x, out, had) /\ Ends(out, had)
    BY <1>8
  <2>. HIDE DEF s, x, out, j
  <2>7. PthresTurns(F, FALSE, x, s, v)
    <3>1. v = IF no THEN PthresJudgeMt(x, s) ELSE PthresJudge(x, s)
      BY DEF no
    <3>. HIDE DEF v
    <3>2. PthresTurns(F, no, x, s, v)
      BY <1>3, <2>1, <2>3, <3>1, PthresTurn
    <3>. QED  BY <3>2 DEF no
  <2>. HIDE DEF v, S, T
  <2>8. Keeps(v.mod, Passed(out, v), had) /\ Ends(Passed(out, v), had)
    BY <2>1, <2>3, <2>6, <2>7, PthresKeeps DEF S, T
  <2>9. w[j].mod = v.mod /\ w[j].out = Passed(out, v)
    BY ONLY <2>5
  <2>. QED  BY <2>1, <2>8, <2>9 DEF j
<1>9. L \in P
  <2>. HIDE DEF P
  <2>1. \A n \in 0 .. L : n \in P
    BY <1>1, <1>7, <1>8, CountUp
  <2>. QED  BY <1>1, <2>1
<1>10. OneByOne(PthresJudge, m, b) = w[L]
  <2>1. Follows(w, "pthres", FALSE, m, b)
    BY <1>6 DEF name, no
  <2>. QED  BY ONLY b \in Seq(Samples(F)), <2>1, PthresOneByOne
<1>11. w[L].mod \in T /\ w[L].out \in Seq(S)
  <2>1. w[L] \in Turns(T, S)
    BY <1>1, <1>5, Zenon DEF Walked
  <2>. QED  BY ONLY <2>1 DEF Turns
<1>. QED  BY <1>9, <1>10, <1>11

-----------------------------------------------------------------------------
(* debounce: nothing comes too early, and no release is lost               *)

\* when the slot was released last before the i-th sample, as it was quiet for q
Ups(b, slot, i) == {j \in 1 .. (i - 1) : b[j].slot = slot /\ b[j].pressure = 0}
Up(q, b, slot, i) ==
  IF Ups(b, slot, i) = {} THEN -q[slot] ELSE b[Latest(Ups(b, slot, i))].at
Early(q, b, i) == b[i].pressure # 0 /\ b[i].at - Up(q, b, b[i].slot, i) < Threshold

UpGoes(q, b, slot, i) ==
  Up(q, b, slot, i + 1) =
    IF b[i].slot = slot /\ b[i].pressure = 0 THEN b[i].at ELSE Up(q, b, slot, i)

\* Behind a release that is when it was, and behind any other sample what it was.
LEMMA UpMore ==
  ASSUME NEW S, NEW b \in Seq(S), NEW n \in 0 .. Len(b) - 1, NEW q, NEW slot,
         NEW i, i = n + 1
  PROVE  UpGoes(q, b, slot, i)
<1> DEFINE old == Ups(b, slot, i)
           new == Ups(b, slot, i + 1)
<1>1. i \in Nat /\ 1 <= i /\ (i + 1) - 1 = i /\ i - 1 = n /\ n \in Nat
  OBVIOUS
<1>2. \A j \in 1 .. i : j = i \/ j \in 1 .. i - 1
  BY ONLY <1>1
<1>3. new = {j \in 1 .. i : b[j].slot = slot /\ b[j].pressure = 0}
      /\ old = {j \in 1 .. i - 1 : b[j].slot = slot /\ b[j].pressure = 0}
  BY <1>1 DEF Ups
<1>. HIDE DEF old, new
<1>4. CASE b[i].slot = slot /\ b[i].pressure = 0
  <2>1. new \in SUBSET (0 .. i) /\ i \in new /\ \A j \in new : j <= i
    BY ONLY <1>1, <1>3, <1>4
  <2>2. Latest(new) = i
    BY ONLY <1>1, <2>1, LatestOnly
  <2>3. Up(q, b, slot, i + 1) = b[i].at
    BY <2>1, <2>2 DEF Up, new
  <2>. QED  BY ONLY <1>4, <2>3 DEF UpGoes
<1>5. CASE ~(b[i].slot = slot /\ b[i].pressure = 0)
  <2>1. new = old
    BY ONLY <1>1, <1>2, <1>3, <1>5
  <2>2. Up(q, b, slot, i + 1) = Up(q, b, slot, i)
    BY <2>1 DEF Up, new, old
  <2>. QED  BY ONLY <1>5, <2>2 DEF UpGoes
<1>. QED  BY ONLY <1>4, <1>5

\* Before the first sample it is what the last read left.
LEMMA UpFirst == \A q, b, slot : Up(q, b, slot, 1) = -q[slot]
<1> TAKE q, b, slot
<1>1. Ups(b, slot, 1) = {}
  BY DEF Ups
<1>. QED  BY <1>1 DEF Up

\* It is a time.
LEMMA UpIsInt ==
  ASSUME NEW F, NEW b \in Seq(Samples(F)), NEW i \in 1 .. Len(b) + 1, NEW slot,
         NEW q, q[slot] \in Int
  PROVE  Up(q, b, slot, i) \in Int
<1> DEFINE S == Ups(b, slot, i)
<1>1. CASE S = {}
  BY <1>1 DEF Up
<1>2. CASE S # {}
  <2>1. S \in SUBSET (0 .. Len(b)) /\ Len(b) \in Nat /\ \A j \in S : j \in 1 .. Len(b)
    BY DEF Ups
  <2>2. Up(q, b, slot, i) = b[Latest(S)].at
    BY <1>2 DEF Up
  <2>. HIDE DEF S
  <2>3. Latest(S) \in S
    BY ONLY <1>2, <2>1, LatestIs
  <2>4. b[Latest(S)] \in Samples(F)
    <3> DEFINE n == Latest(S)
    <3>1. n \in 1 .. Len(b)
      BY ONLY <2>1, <2>3
    <3>. HIDE DEF n
    <3>2. b[n] \in Samples(F)
      BY ONLY <3>1, b \in Seq(Samples(F))
    <3>. QED  BY <3>2 DEF n
  <2>5. \A s \in Samples(F) : s.at \in Int
    BY SampleFields
  <2>. QED  BY ONLY <2>2, <2>4, <2>5
<1>. QED  BY <1>1, <1>2

\* p says where in the first n samples of b those that have been passed on come from
Picks(q, b, out, n, p) ==
  /\ p \in [1 .. Len(out) -> {i \in 1 .. n : ~Early(q, b, i)}]
  /\ \A k \in 1 .. Len(out) : out[k] = b[p[k]]
  /\ \A k, l \in 1 .. Len(out) : k < l => p[k] < p[l]
  /\ \A i \in 1 .. n : b[i].pressure = 0 => \E k \in 1 .. Len(out) : p[k] = i

\* One that is dropped is not picked,
LEMMA PicksOver ==
  ASSUME NEW q, NEW b, NEW out, NEW n \in Nat, NEW p, Picks(q, b, out, n, p),
         b[n + 1].pressure # 0
  PROVE  Picks(q, b, out, n + 1, p)
<1>1. \A i \in 1 .. n + 1 : i = n + 1 \/ i \in 1 .. n
  OBVIOUS
<1>2. \A i \in 1 .. n : i \in 1 .. n + 1
  OBVIOUS
<1>3. {i \in 1 .. n : ~Early(q, b, i)} \subseteq {i \in 1 .. n + 1 : ~Early(q, b, i)}
  BY <1>2
<1>4. p \in [1 .. Len(out) -> {i \in 1 .. n + 1 : ~Early(q, b, i)}]
  <2> DEFINE A == {i \in 1 .. n : ~Early(q, b, i)}
             B == {i \in 1 .. n + 1 : ~Early(q, b, i)}
             D == 1 .. Len(out)
  <2>1. p \in [D -> A] /\ A \subseteq B
    BY <1>3, Zenon DEF Picks
  <2>. HIDE DEF A, B, D
  <2>2. p \in [D -> B]
    BY ONLY <2>1
  <2>. QED  BY <2>2 DEF B, D
<1>5. \A i \in 1 .. n + 1 : b[i].pressure = 0 => \E k \in 1 .. Len(out) : p[k] = i
  BY <1>1 DEF Picks
<1>. QED  BY <1>4, <1>5, Zenon DEF Picks

\* and one that is passed on is picked last.
LEMMA PicksMore ==
  ASSUME NEW S, NEW q, NEW b, NEW out \in Seq(S), NEW n \in Nat, NEW p, Picks(q, b, out, n, p),
         b[n + 1] \in S, ~Early(q, b, n + 1)
  PROVE  \E r : Picks(q, b, out \o <<b[n + 1]>>, n + 1, r)
<1> DEFINE j == n + 1
           x == b[j]
           L == Len(out)
           a == out \o <<x>>
           r == [k \in 1 .. L + 1 |-> IF k = L + 1 THEN j ELSE p[k]]
           A == {i \in 1 .. n : ~Early(q, b, i)}
           B == {i \in 1 .. j : ~Early(q, b, i)}
<1>1. Len(a) = L + 1 /\ a[L + 1] = x /\ \A i \in 1 .. L : a[i] = out[i]
  BY MoreAtEnd
<1>2. /\ L \in Nat /\ j \in Nat /\ j \in B /\ A \subseteq B /\ \A i \in A : i < j
      /\ L + 1 \in 1 .. L + 1
      /\ \A k \in 1 .. L + 1 : k = L + 1 \/ k \in 1 .. L
      /\ \A k \in 1 .. L : k \in 1 .. L + 1 /\ k # L + 1 /\ k < L + 1
      /\ \A k \in 1 .. L : ~(L + 1 < k)
      /\ ~(L + 1 < L + 1)
      /\ \A i \in 1 .. j : i = j \/ i \in 1 .. n
  OBVIOUS
<1>3. /\ p \in [1 .. L -> A]
      /\ \A k \in 1 .. L : out[k] = b[p[k]]
      /\ \A k, l \in 1 .. L : k < l => p[k] < p[l]
      /\ \A i \in 1 .. n : b[i].pressure = 0 => \E k \in 1 .. L : p[k] = i
  BY Zenon DEF Picks
<1>. HIDE DEF A, B
<1>4. /\ r \in [1 .. L + 1 -> B]
      /\ r[L + 1] = j /\ \A k \in 1 .. L : r[k] = p[k] /\ p[k] \in A
  BY ONLY <1>2, <1>3
<1>. HIDE DEF r, a, L
<1>5. \A k \in 1 .. L + 1 : a[k] = b[r[k]]
  BY ONLY <1>1, <1>2, <1>3, <1>4 DEF x
<1>6. \A k, l \in 1 .. L + 1 : k < l => r[k] < r[l]
  <2> SUFFICES ASSUME NEW k \in 1 .. L + 1, NEW l \in 1 .. L + 1, k < l
               PROVE  r[k] < r[l]
    OBVIOUS
  <2>1. k \in 1 .. L
    BY <1>2
  <2>2. CASE l \in 1 .. L
    BY <1>3, <1>4, <2>1, <2>2
  <2>3. CASE l = L + 1
    <3>1. r[l] = j /\ r[k] \in A
      BY <1>4, <2>1, <2>3
    <3>. QED  BY ONLY <1>2, <3>1
  <2>. QED  BY <1>2, <2>2, <2>3
<1>7. \A i \in 1 .. j : b[i].pressure = 0 => \E k \in 1 .. L + 1 : r[k] = i
  <2> SUFFICES ASSUME NEW i \in 1 .. j, b[i].pressure = 0
               PROVE  \E k \in 1 .. L + 1 : r[k] = i
    OBVIOUS
  <2>1. CASE i = j
    BY <1>2, <1>4, <2>1
  <2>2. CASE i \in 1 .. n
    <3>1. PICK k \in 1 .. L : p[k] = i
      BY <1>3, <2>2
    <3>2. k \in 1 .. L + 1 /\ r[k] = i
      BY <1>2, <1>4, <3>1
    <3>. QED  BY <3>2
  <2>. QED  BY <1>2, <2>1, <2>2
<1>8. Picks(q, b, a, j, r)
  BY ONLY <1>1, <1>4, <1>5, <1>6, <1>7 DEF Picks, B
<1>. QED  BY <1>8 DEF a, j, x

\* What either kind of debounce does with a sample.
DebounceGoing(k, m, s, t) ==
  LET quiet == Closed(k, m)
      early == s.pressure # 0 /\ s.at + quiet[s.slot] < Threshold
  IN /\ Closed(k, t.mod) = IF s.pressure # 0 THEN quiet ELSE [quiet EXCEPT ![s.slot] = -s.at]
     /\ t.out = <<>> \/ t.out = <<s>>
     /\ s.pressure = 0 => t.out = <<s>>
     /\ early => t.out = <<>>
     /\ ~early /\ (k = "debounce" => ~m.drop) => t.out = <<s>>

\* It goes that way.
LEMMA DebounceGoes ==
  ASSUME NEW c, NEW F \in SUBSET Slots, NEW mt, NEW k \in {"debounce", "singly"},
         NEW m \in During(k, c, F), NEW s \in Samples(F), NEW t, t = Take(k, mt, m, s)
  PROVE  DebounceGoing(k, m, s, t)
<1> DEFINE d == IF k = "debounce" THEN m.drop ELSE FALSE
           quiet == Closed(k, m)
           x == [quiet |-> quiet, drop |-> d]
           v == DebounceJudge(x, s)
           early == s.pressure # 0 /\ s.at + quiet[s.slot] < Threshold
<1>1. quiet \in [Slots -> Int] /\ d \in BOOLEAN
  BY DEF During, Closed
<1>2. x \in Quiets /\ x.quiet = quiet /\ x.drop = d
  <2>. HIDE DEF quiet, d
  <2>. QED  BY <1>1 DEF Quiets
<1>3. Closed(k, t.mod) = v.mod.quiet /\ t.out = Taken(v)
  <2>1. CASE k = "debounce"
    <3>1. x = m
      <4>1. m \in [quiet : [Slots -> Int], drop : BOOLEAN] /\ x = [quiet |-> m.quiet, drop |-> m.drop]
        BY <2>1 DEF During, Closed
      <4>. QED  BY ONLY <4>1
    <3>2. t = Judged(DebounceJudge(m, s))
      BY <2>1 DEF Take
    <3>3. t = [mod |-> v.mod, out |-> Taken(v)]
      BY ONLY <3>1, <3>2, Zenon DEF Judged
    <3>. HIDE DEF v
    <3>4. t.mod = v.mod /\ t.out = Taken(v)
      BY ONLY <3>3
    <3>5. Closed(k, t.mod) = t.mod.quiet
      BY <2>1 DEF Closed
    <3>. QED  BY ONLY <3>4, <3>5
  <2>2. CASE k = "singly"
    <3>1. quiet = m /\ d = FALSE /\ m \in [Slots -> Int] /\ t = DebounceTake(m, s)
      BY <2>2 DEF During, Closed, Take
    <3>2. x = [quiet |-> m, drop |-> FALSE]
      BY ONLY <3>1, Zenon DEF x
    <3>3. DebounceTake(m, s) = [mod |-> v.mod.quiet, out |-> Taken(v)]
      <4>1. v = DebounceJudge([quiet |-> m, drop |-> FALSE], s)
        BY ONLY <3>2, Zenon DEF v
      <4>. HIDE DEF v
      <4>. QED  BY <3>1, <4>1, DebounceOnce
    <3>. HIDE DEF v
    <3>4. t.mod = v.mod.quiet /\ t.out = Taken(v)
      BY ONLY <3>1, <3>3
    <3>5. Closed(k, t.mod) = t.mod
      BY <2>2 DEF Closed
    <3>. QED  BY ONLY <3>4, <3>5
  <2>. QED  BY <2>1, <2>2
<1>4. DebounceTurns(x, s, v)
  <2>1. v = DebounceJudge(x, s)
    OBVIOUS
  <2>. HIDE DEF v, x
  <2>. QED  BY <1>2, <2>1, DebounceTurn
<1>. HIDE DEF v, x
<1>5. /\ v.mod.quiet = IF s.pressure # 0 THEN x.quiet ELSE [x.quiet EXCEPT ![s.slot] = -s.at]
      /\ v.keep \in BOOLEAN /\ v.sample = s
      /\ s.pressure = 0 => v.keep
      /\ (s.pressure # 0 /\ s.at + x.quiet[s.slot] < Threshold) => ~v.keep
      /\ ~(s.pressure # 0 /\ s.at + x.quiet[s.slot] < Threshold) /\ ~x.drop => v.keep
  BY <1>4, Zenon DEF DebounceTurns
<1>6. v.mod.quiet = IF s.pressure # 0 THEN quiet ELSE [quiet EXCEPT ![s.slot] = -s.at]
  BY ONLY <1>2, <1>5
<1>7. /\ s.pressure = 0 => v.keep
      /\ early => ~v.keep
      /\ ~early /\ ~d => v.keep
  <2>. HIDE DEF quiet, d
  <2>. QED  BY ONLY <1>2, <1>5, Zenon DEF early
<1>8. Taken(v) = IF v.keep THEN <<s>> ELSE <<>>
  BY ONLY <1>5 DEF Taken
<1>9. (k = "debounce" => ~m.drop) => ~d
  OBVIOUS
<1>10. /\ Closed(k, t.mod) = IF s.pressure # 0 THEN quiet ELSE [quiet EXCEPT ![s.slot] = -s.at]
       /\ t.out = <<>> \/ t.out = <<s>>
       /\ s.pressure = 0 => t.out = <<s>>
       /\ early => t.out = <<>>
       /\ ~early /\ (k = "debounce" => ~m.drop) => t.out = <<s>>
  <2>1. Closed(k, t.mod) = IF s.pressure # 0 THEN quiet ELSE [quiet EXCEPT ![s.slot] = -s.at]
    BY ONLY <1>3, <1>6
  <2>2. (v.keep => t.out = <<s>>) /\ (~v.keep => t.out = <<>>)
    BY ONLY <1>3, <1>8
  <2>. HIDE DEF quiet, d, early
  <2>. QED  BY ONLY <1>7, <1>9, <2>1, <2>2, Zenon
<1>. QED  BY ONLY <1>10, Zenon DEF DebounceGoing

\* At the end it is quiet since the last release, what has been passed on is
\* picked, and a single sample that is not early is.
LEMMA DebouncePicks ==
  ASSUME NEW c, Counts(c), NEW F \in SUBSET Slots, NEW mt, NEW k \in {"debounce", "singly"},
         Legal(k, mt), NEW q \in [Slots -> Int], NEW b \in Seq(Samples(F)),
         NEW w, w = WalkAll(k, mt, q, b)
  PROVE  /\ \A slot \in Slots : Closed(k, w[Len(b)].mod)[slot] = -Up(q, b, slot, Len(b) + 1)
         /\ \E p : Picks(q, b, w[Len(b)].out, Len(b), p)
         /\ Len(b) = 1 /\ ~Early(q, b, 1) => w[Len(b)].out = b
<1> DEFINE S == Samples(F)
           T == During(k, c, F)
           L == Len(b)
           m == Opened(k, q)
           Quiet(n) == \A slot \in Slots : Closed(k, w[n].mod)[slot] = -Up(q, b, slot, n + 1)
           P == {n \in 0 .. L : Quiet(n) /\ \E p : Picks(q, b, w[n].out, n, p)}
<1>1. L \in Nat /\ 0 \in 0 .. L /\ L \in 0 .. L
  OBVIOUS
<1>2. m \in T /\ Closed(k, m) = q /\ (k = "debounce" => m.drop = FALSE)
  BY DEF Opened, Closed, During
<1>3. Walked(w, k, mt, T, S, m, b)
  <2>1. w = Walk(k, mt, m, b) /\ m \in During(k, c, F)
    BY <1>2 DEF WalkAll
  <2>. HIDE DEF m
  <2>2. Walked(Walk(k, mt, m, b), k, mt, During(k, c, F), Samples(F), m, b)
    BY <2>1, WalkIs
  <2>. QED  BY <2>1, <2>2
<1>4. w[0].mod = m /\ w[0].out = <<>>
  <2>. HIDE DEF m
  <2>1. w[0] = [mod |-> m, out |-> <<>>]
    BY <1>3, Zenon DEF Walked
  <2>. QED  BY ONLY <2>1
<1>. HIDE DEF m
<1>5. ASSUME NEW n \in 0 .. L - 1
      PROVE  LET s == b[n + 1]
                 u == w[n]
                 t == Take(k, mt, u.mod, s)
             IN /\ n + 1 \in 1 .. L /\ n + 1 \in 0 .. L /\ s \in S /\ u.mod \in T
                /\ u.out \in Seq(S)
                /\ w[n + 1].mod = t.mod /\ w[n + 1].out = u.out \o t.out
                /\ DebounceGoing(k, u.mod, s, t)
  <2> DEFINE j == n + 1
             s == b[j]
             u == w[n]
             x == u.mod
             t == Take(k, mt, x, s)
  <2>1. n \in 0 .. L /\ j \in 1 .. L /\ j \in 0 .. L /\ j - 1 = n /\ s \in S
    BY <1>1
  <2>2. u \in Turns(T, S)
    BY <1>3, <2>1, Zenon DEF Walked
  <2>3. x \in T /\ u.out \in Seq(S)
    BY <2>2 DEF Turns
  <2>4. w[j] = [mod |-> t.mod, out |-> u.out \o t.out]
    <3>1. w[j] = [mod |-> Take(k, mt, w[j - 1].mod, b[j]).mod,
                  out |-> w[j - 1].out \o Take(k, mt, w[j - 1].mod, b[j]).out]
      <4>. HIDE DEF j, L
      <4>. QED  BY <1>3, <2>1, Zenon DEF Walked, L
    <3>. QED  BY ONLY <2>1, <3>1, Zenon
  <2>. HIDE DEF x
  <2>5. DebounceGoing(k, x, s, t)
    <3>. HIDE DEF s, j, u
    <3>. QED  BY <2>1, <2>3, DebounceGoes
  <2>6. w[j].mod = t.mod /\ w[j].out = u.out \o t.out
    <3> DEFINE y == u.out \o t.out
               z == t.mod
    <3>1. w[j] = [mod |-> z, out |-> y]
      BY <2>4
    <3>. HIDE DEF y, z
    <3>2. w[j].mod = z /\ w[j].out = y
      BY ONLY <3>1
    <3>. QED  BY <3>2 DEF y, z
  <2>. HIDE DEF S, T, L
  <2>. QED  BY ONLY <2>1, <2>3, <2>5, <2>6, Zenon DEF x, u, t, s, j
<1>6. 0 \in P
  <2>1. Quiet(0)
    <3>1. \A slot \in Slots : q[slot] \in Int /\ Up(q, b, slot, 0 + 1) = -q[slot]
      <4>1. 0 + 1 = 1
        OBVIOUS
      <4>. QED  BY <4>1, UpFirst
    <3>2. \A x \in Int : -(-x) = x
      OBVIOUS
    <3>. QED  BY <1>2, <1>4, <3>1, <3>2
  <2>2. Picks(q, b, <<>>, 0, <<>>)
    BY DEF Picks
  <2>. QED  BY <1>1, <1>4, <2>1, <2>2
<1>7. ASSUME NEW n \in 0 .. L - 1, n \in P
      PROVE  n + 1 \in P
  <2> DEFINE j == n + 1
             s == b[j]
             u == w[n]
             x == u.mod
             t == Take(k, mt, x, s)
             quiet == Closed(k, x)
             early == s.pressure # 0 /\ s.at + quiet[s.slot] < Threshold
  <2>1. /\ j \in 1 .. L /\ j \in 0 .. L /\ s \in S /\ x \in T /\ u.out \in Seq(S)
        /\ w[j].mod = t.mod /\ w[j].out = u.out \o t.out
        /\ DebounceGoing(k, x, s, t)
    BY <1>5
  <2>2. Quiet(n) /\ \E p : Picks(q, b, u.out, n, p)
    BY <1>7
  <2>. HIDE DEF t
  <2>3. /\ Closed(k, t.mod) = IF s.pressure # 0 THEN quiet ELSE [quiet EXCEPT ![s.slot] = -s.at]
        /\ t.out = <<>> \/ t.out = <<s>>
        /\ s.pressure = 0 => t.out = <<s>>
        /\ early => t.out = <<>>
    <3>. HIDE DEF s, x
    <3>. QED  BY <2>1, Zenon DEF DebounceGoing
  <2>4. quiet \in [Slots -> Int]
    <3>1. x \in During(k, c, F)
      BY <2>1
    <3>. HIDE DEF x
    <3>. QED  BY <3>1 DEF During, Closed
  <2>5. s.slot \in Slots /\ s.at \in Int /\ s.pressure \in Int /\ n \in Nat /\ j \in Nat
    BY <1>1, <2>1, SampleFields
  <2>6. \A slot \in Slots : quiet[slot] = -Up(q, b, slot, j)
    BY <2>2
  <2>7. Quiet(j)
    <3>1. ASSUME NEW slot \in Slots
          PROVE  Closed(k, w[j].mod)[slot] = -Up(q, b, slot, j + 1)
      <4>1. Up(q, b, slot, j + 1) =
              IF s.slot = slot /\ s.pressure = 0 THEN s.at ELSE Up(q, b, slot, j)
        <5>1. b \in Seq(S) /\ n \in 0 .. Len(b) - 1 /\ j = n + 1
          OBVIOUS
        <5>. HIDE DEF j
        <5>2. UpGoes(q, b, slot, j)
          BY ONLY <5>1, UpMore
        <5>. QED  BY ONLY <5>2, Zenon DEF UpGoes, s
      <4>. HIDE DEF quiet, s, x
      <4>2. Closed(k, w[j].mod) = IF s.pressure # 0 THEN quiet ELSE [quiet EXCEPT ![s.slot] = -s.at]
        BY ONLY <2>1, <2>3
      <4>3. Closed(k, w[j].mod)[slot] = IF s.slot = slot /\ s.pressure = 0 THEN -s.at ELSE quiet[slot]
        BY <2>4, <2>5, <4>2
      <4>. QED  BY ONLY <2>6, <4>1, <4>3, slot \in Slots
    <3>. QED  BY <3>1
  <2>8. early <=> Early(q, b, j)
    <3>1. quiet[s.slot] = -Up(q, b, s.slot, j)
      BY <2>5, <2>6
    <3>2. Up(q, b, s.slot, j) \in Int
      <4>1. j \in 1 .. Len(b) + 1 /\ q[s.slot] \in Int
        BY <1>1, <2>1, <2>5
      <4>. HIDE DEF s, j
      <4>. QED  BY <4>1, UpIsInt
    <3>3. Early(q, b, j) <=> s.pressure # 0 /\ s.at - Up(q, b, s.slot, j) < Threshold
      BY Zenon DEF Early
    <3>. HIDE DEF quiet, s
    <3>4. s.at + quiet[s.slot] = s.at - Up(q, b, s.slot, j)
      BY ONLY <2>5, <3>1, <3>2
    <3>. QED  BY <3>3, <3>4
  <2>9. \E r : Picks(q, b, w[j].out, j, r)
    <3>1. PICK p : Picks(q, b, u.out, n, p)
      BY <2>2
    <3>2. CASE t.out = <<>>
      <4>1. u.out \o t.out = u.out
        BY <2>1, <3>2
      <4>2. s.pressure # 0
        BY <2>3, <3>2
      <4>3. Picks(q, b, u.out, n + 1, p)
        BY <2>5, <3>1, <4>2, PicksOver
      <4>. QED  BY <2>1, <4>1, <4>3
    <3>3. CASE t.out = <<s>>
      <4>1. ~Early(q, b, n + 1)
        BY <2>3, <2>8, <3>3
      <4>2. b[n + 1] \in S
        BY <2>1
      <4> DEFINE out == u.out
      <4>3. out \in Seq(S) /\ Picks(q, b, out, n, p)
        BY <2>1, <3>1
      <4>. HIDE DEF out, S
      <4>4. \E r : Picks(q, b, out \o <<b[n + 1]>>, n + 1, r)
        BY ONLY <2>5, <4>1, <4>2, <4>3, PicksMore
      <4>. QED  BY <2>1, <3>3, <4>4 DEF out
    <3>. QED  BY ONLY <2>3, <3>2, <3>3
  <2>. QED  BY <2>1, <2>7, <2>9
<1>8. L \in P
  <2>. HIDE DEF P
  <2>1. \A n \in 0 .. L : n \in P
    BY <1>1, <1>6, <1>7, CountUp
  <2>. QED  BY <1>1, <2>1
<1>9. L = 1 /\ ~Early(q, b, 1) => w[L].out = b
  <2> SUFFICES ASSUME L = 1, ~Early(q, b, 1)
               PROVE  w[L].out = b
    OBVIOUS
  <2> DEFINE s == b[1]
             t == Take(k, mt, m, s)
  <2>1. w[1].out = w[0].out \o t.out /\ DebounceGoing(k, m, s, t) /\ s \in S
    <3>1. 0 \in 0 .. L - 1 /\ 0 + 1 = 1
      OBVIOUS
    <3> DEFINE o == 0
    <3>2. o \in 0 .. L - 1 /\ o + 1 = 1
      BY <3>1
    <3>3. w[o].mod = m
      BY <1>4
    <3>. HIDE DEF o
    <3>4. /\ w[o + 1].out = w[o].out \o Take(k, mt, w[o].mod, b[o + 1]).out
          /\ DebounceGoing(k, w[o].mod, b[o + 1], Take(k, mt, w[o].mod, b[o + 1]))
          /\ b[o + 1] \in S
      BY <1>5, <3>2
    <3>5. /\ w[1].out = w[o].out \o t.out /\ DebounceGoing(k, m, s, t) /\ s \in S
      BY ONLY <3>2, <3>3, <3>4
    <3>. QED  BY <3>5 DEF o
  <2>2. ~(s.pressure # 0 /\ s.at + q[s.slot] < Threshold)
    <3>1. Up(q, b, s.slot, 1) = -q[s.slot] /\ q[s.slot] \in Int /\ s.at \in Int
      BY <2>1, UpFirst, SampleFields
    <3>2. ~(s.pressure # 0 /\ s.at - Up(q, b, s.slot, 1) < Threshold)
      BY Zenon DEF Early
    <3>. HIDE DEF s
    <3>3. s.at - Up(q, b, s.slot, 1) = s.at + q[s.slot]
      BY ONLY <3>1
    <3>. QED  BY ONLY <3>2, <3>3
  <2>3. k = "debounce" => ~m.drop
    BY <1>2
  <2>. HIDE DEF s, t
  <2>4. t.out = <<s>>
    BY <1>2, <2>1, <2>2, <2>3, Zenon DEF DebounceGoing
  <2>5. <<>> \o <<s>> = <<s>>
    OBVIOUS
  <2>6. <<s>> = b
    <3> DEFINE e == <<s>>
    <3>1. e \in Seq(S) /\ Len(e) = 1 /\ e[1] = s
      BY <2>1
    <3>2. \A i \in 1 .. 1 : i = 1
      OBVIOUS
    <3>. HIDE DEF e
    <3>3. \A i \in 1 .. 1 : e[i] = b[i]
      BY ONLY <3>1, <3>2 DEF s
    <3>4. e = b
      BY ONLY <3>1, <3>3, L = 1, b \in Seq(Samples(F)), SeqEqual
    <3>. QED  BY <3>4 DEF e
  <2>. QED  BY <1>4, <2>1, <2>4, <2>5, <2>6
<1>. QED  BY <1>8, <1>9

-----------------------------------------------------------------------------
(* The chain                                                               *)

Results(f, c, F) == [mod : StatesOf(f, c, F), out : Seq(Samples(F))]

\* What a filter makes of samples are a state and samples.
LEMMA EndedIsTyped ==
  ASSUME NEW c, Counts(c), NEW F \in SUBSET Slots, NEW f \in Filters, NEW mt, Legal(f, mt),
         NEW singly, NEW k, k = KindAt(f, mt, singly),
         NEW m \in StatesOf(f, c, F), NEW b \in Seq(Samples(F)),
         NEW w, w = WalkAll(k, mt, m, b)
  PROVE  Ended(k, w, b) \in Results(f, c, F)
<1> DEFINE S == Samples(F)
           T == During(k, c, F)
           L == Len(b)
           o == Opened(k, m)
<1>1. o \in T /\ Legal(k, mt)
  BY OpenClose DEF Legal, KindAt
<1>2. Walked(w, k, mt, T, S, o, b)
  <2>1. o \in During(k, c, F) /\ Legal(k, mt) /\ w = Walk(k, mt, o, b)
    BY <1>1 DEF WalkAll
  <2>. HIDE DEF o
  <2>2. Walked(Walk(k, mt, o, b), k, mt, During(k, c, F), Samples(F), o, b)
    BY ONLY Counts(c), F \in SUBSET Slots, b \in Seq(Samples(F)), <2>1, WalkIs
  <2>. QED  BY <2>1, <2>2
<1>3. w[L] \in Turns(T, S)
  <2>1. L \in 0 .. L
    OBVIOUS
  <2>. QED  BY <1>2, <2>1, Zenon DEF Walked
<1>4. w[L].mod \in T /\ w[L].out \in Seq(S)
  BY ONLY <1>3 DEF Turns
<1>5. Closed(k, w[L].mod) \in StatesOf(f, c, F)
  BY <1>4, OpenClose
<1> DEFINE x == Closed(k, w[L].mod)
           y == w[L].out
<1>6. x \in StatesOf(f, c, F) /\ y \in Seq(S) /\ Ended(k, w, b) = [mod |-> x, out |-> y]
  BY <1>4, <1>5 DEF Ended
<1>. HIDE DEF x, y
<1>. QED  BY ONLY <1>6 DEF Results

Fingers == DOMAIN conf.pos
ChainLen == Len(conf.chain)
SinglyAt(i) == \E j \in DOMAIN conf.chain : j > i /\ conf.chain[j] \in Single
KindOf(i) == KindAt(conf.chain[i], conf.mt, SinglyAt(i))

\* the states of the filters
ModsOK ==
  /\ mods = [f \in {conf.chain[i] : i \in DOMAIN conf.chain} |-> mods[f]]
  /\ \A i \in 1 .. ChainLen : mods[conf.chain[i]] \in StatesOf(conf.chain[i], conf, Fingers)

\* A configuration is one of those allowed.
LEMMA ConfIs ==
  ASSUME conf \in Confs
  PROVE  /\ Counts(conf) /\ Fingers \in SUBSET Slots /\ ChainLen \in Nat
         /\ DOMAIN conf.chain = 1 .. ChainLen /\ conf.mt \in BOOLEAN
         /\ conf.chain \in Seq(Filters)
         /\ \A i \in 1 .. ChainLen : conf.chain[i] \in Filters /\ Legal(conf.chain[i], conf.mt)
         /\ \A i, j \in 1 .. ChainLen : conf.chain[i] = conf.chain[j] => i = j
         /\ ~conf.mt => \E finger \in Slots : Fingers = {finger}
         /\ conf.batch \in Nat \ {0} /\ conf.memory \in Nat \ {0}
         /\ conf.pressures \subseteq Nat /\ conf.gaps \subseteq Nat
         /\ \A finger \in Fingers : conf.pos[finger] \subseteq Int
<1> DEFINE X == Filters \ (IF conf.mt THEN Single ELSE {})
           ch == conf.chain
<1>1. ch \in Seq(X) /\ conf.mt \in BOOLEAN
  BY ConfAssumption
<1>2. \A i, j \in DOMAIN ch : ch[i] = ch[j] => i = j
  BY ConfAssumption, Zenon
<1>3. /\ DOMAIN conf.pos \subseteq Slots
      /\ conf.mt \/ \E finger \in Slots : DOMAIN conf.pos = {finger}
      /\ \A finger \in DOMAIN conf.pos : conf.pos[finger] \subseteq Int
      /\ conf.pressures \subseteq Nat /\ conf.gaps \subseteq Nat
      /\ conf.nhead \in Nat /\ conf.ntail \in Nat
      /\ conf.batch \in Nat \ {0} /\ conf.memory \in Nat \ {0}
  BY ConfAssumption, Zenon
<1>4. \A x \in X : x \in Filters /\ Legal(x, conf.mt)
  BY <1>1 DEF Legal, Kind, Filters, Single
<1>. HIDE DEF X
<1>5. ch \in Seq(X) /\ Len(ch) \in Nat /\ DOMAIN ch = 1 .. Len(ch) /\ \A i \in 1 .. Len(ch) : ch[i] \in X
  BY <1>1
<1>6. ch \in Seq(Filters)
  <2>1. \A i \in 1 .. Len(ch) : ch[i] \in Filters
    BY <1>4, <1>5
  <2>. HIDE DEF ch
  <2>. QED  BY <1>5, <2>1
<1>. HIDE DEF ch
<1>7. Counts(conf) /\ Fingers \in SUBSET Slots
  BY <1>3 DEF Counts, Fingers
<1>. QED  BY <1>1, <1>2, <1>3, <1>4, <1>5, <1>6, <1>7 DEF Fingers, ChainLen, ch

\* what the i-th filter makes of b
AskedAt(i, b) == Asked(conf.chain[i], conf.mt, mods[conf.chain[i]], b, SinglyAt(i))
WalkAt(i, b) == WalkAll(KindOf(i), conf.mt, mods[conf.chain[i]], b)

\* It walks over b.
LEMMA AskedAtIs ==
  ASSUME conf \in Confs, ModsOK, NEW i \in 1 .. ChainLen, NEW b \in Seq(Samples(Fingers))
  PROVE  /\ AskedAt(i, b) = Ended(KindOf(i), WalkAt(i, b), b)
         /\ AskedAt(i, b) \in Results(conf.chain[i], conf, Fingers)
<1> DEFINE F == Fingers
           f == conf.chain[i]
           mt == conf.mt
           m == mods[f]
           k == KindOf(i)
           s == SinglyAt(i)
           w == WalkAt(i, b)
<1>1. Counts(conf) /\ F \in SUBSET Slots /\ f \in Filters /\ Legal(f, mt)
  BY ConfIs
<1>2. m \in StatesOf(f, conf, F)
  BY DEF ModsOK
<1>3. k = KindAt(f, mt, s) /\ w = WalkAll(k, mt, m, b) /\ AskedAt(i, b) = Asked(f, mt, m, b, s)
  BY DEF KindOf, WalkAt, AskedAt
<1>. HIDE DEF F, f, mt, m, k, s, w
<1>4. b \in Seq(Samples(F))
  BY DEF F
<1>5. Asked(f, mt, m, b, s) = Ended(k, w, b)
  BY ONLY <1>1, <1>2, <1>3, <1>4, AskIs
<1>6. Ended(k, w, b) \in Results(f, conf, F)
  BY ONLY <1>1, <1>2, <1>3, <1>4, EndedIsTyped
<1>. QED  BY ONLY <1>3, <1>5, <1>6 DEF F, f, k, w

\* done is what the filters make of the samples that wait, one after the other
Chained(done) ==
  /\ DOMAIN done = 0 .. ChainLen
  /\ done[0] = [out |-> queue, mod |-> <<>>]
  /\ \A i \in 0 .. ChainLen : done[i].out \in Seq(Samples(Fingers))
  /\ \A i \in 1 .. ChainLen :
       /\ done[i] = Ended(KindOf(i), WalkAt(i, done[i - 1].out), done[i - 1].out)
       /\ done[i].mod \in StatesOf(conf.chain[i], conf, Fingers)

\* So does a read.
LEMMA OutsAre ==
  ASSUME conf \in Confs, ModsOK, queue \in Seq(Samples(Fingers))
  PROVE  Chained(Outs)
<1> DEFINE F == Fingers
           L == ChainLen
           Q == Seq(Samples(F))
           M == (UNION {StatesOf(f, conf, F) : f \in Filters}) \cup {<<>>}
           D == [mod : M, out : Q]
           a == [out |-> queue, mod |-> <<>>]
           G == [i \in 1 .. L |-> [u \in D |-> AskedAt(i, u.out)]]
           up == Outs
<1>1. L \in Nat /\ \A i \in 1 .. L : conf.chain[i] \in Filters
  BY ConfIs
<1>2. a \in D
  <2>. HIDE DEF F
  <2>1. queue \in Q
    BY DEF F
  <2>. HIDE DEF Q
  <2>. QED  BY <2>1
<1>3. ASSUME NEW i \in 1 .. L, NEW b \in Q
      PROVE  /\ AskedAt(i, b) \in D
             /\ AskedAt(i, b).out \in Q /\ AskedAt(i, b).mod \in StatesOf(conf.chain[i], conf, F)
             /\ AskedAt(i, b) = Ended(KindOf(i), WalkAt(i, b), b)
  <2> DEFINE x == AskedAt(i, b)
             T == StatesOf(conf.chain[i], conf, F)
  <2>1. x = Ended(KindOf(i), WalkAt(i, b), b) /\ x \in Results(conf.chain[i], conf, F)
    BY AskedAtIs
  <2>2. T \subseteq M
    BY <1>1
  <2>3. x \in [mod : T, out : Q]
    BY <2>1 DEF Results
  <2>. HIDE DEF x, T, Q, M
  <2>4. x \in D /\ x.out \in Q /\ x.mod \in T
    BY ONLY <2>2, <2>3 DEF D
  <2>. QED  BY <2>1, <2>4 DEF x, T
<1>4. \A u \in D : u.out \in Q
  OBVIOUS
<1>. HIDE DEF D, Q
<1>5. G \in [1 .. L -> [D -> D]]
  BY <1>3, <1>4
<1>6. PICK g : Runs(g, L, D, a, G)
  <2>. HIDE DEF G, L, a
  <2>. QED  BY <1>1, <1>2, <1>5, StepsExist
<1>7. g \in [0 .. L -> D] /\ g[0] = a /\ \A i \in 1 .. L : g[i] = G[i][g[i - 1]]
  BY <1>6, Zenon DEF Runs
<1>8. \A i \in 0 .. L : g[i] = IF i = 0 THEN a ELSE AskedAt(i, g[i - 1].out)
  <2>1. \A i \in 1 .. L : i - 1 \in 0 .. L
    BY <1>1
  <2>2. \A i \in 1 .. L : g[i - 1] \in D
    BY <1>7, <2>1
  <2>3. \A i \in 1 .. L : g[i] = AskedAt(i, g[i - 1].out)
    BY <1>7, <2>2
  <2>4. \A i \in 0 .. L : i = 0 \/ i \in 1 .. L
    BY <1>1
  <2>. QED  BY <1>7, <2>3, <2>4
<1>. HIDE DEF G, a
<1>9. g = [i \in 0 .. L |-> IF i = 0 THEN a ELSE AskedAt(i, g[i - 1].out)]
  <2>1. g = [i \in 0 .. L |-> g[i]]
    BY <1>7
  <2>. QED  BY ONLY <1>8, <2>1
<1>10. up = CHOOSE h : h = [i \in 0 .. L |->
               IF i = 0 THEN a
               ELSE IF conf.mt THEN AskMt(conf.chain[i], mods[conf.chain[i]], h[i - 1].out)
                    ELSE Ask(conf.chain[i], mods[conf.chain[i]], h[i - 1].out,
                             \E j \in DOMAIN conf.chain : j > i /\ conf.chain[j] \in Single)]
  BY Zenon DEF Outs, a, ChainLen
<1>11. up = [i \in 0 .. L |-> IF i = 0 THEN a ELSE AskedAt(i, up[i - 1].out)]
  <2>1. up = CHOOSE h : h = [i \in 0 .. L |-> IF i = 0 THEN a ELSE AskedAt(i, h[i - 1].out)]
    BY ONLY <1>10, Zenon DEF AskedAt, Asked, SinglyAt
  <2>. HIDE DEF up
  <2>. QED  BY ONLY <1>9, <2>1, Zenon
<1>. HIDE DEF up
<1>12. DOMAIN up = 0 .. L /\ up[0] = a /\ \A i \in 1 .. L : up[i] = AskedAt(i, up[i - 1].out)
  <2>1. 0 \in 0 .. L /\ \A i \in 1 .. L : i \in 0 .. L /\ i # 0
    BY <1>1
  <2>. QED  BY ONLY <1>11, <2>1
<1>13. \A i \in 0 .. L : up[i].out \in Q
  <2> DEFINE P == {i \in 0 .. L : up[i].out \in Q}
  <2>1. 0 \in P
    <3>1. 0 \in 0 .. L
      BY <1>1
    <3>2. up[0].out \in Q
      BY <1>2, <1>4, <1>12
    <3>. QED  BY <3>1, <3>2
  <2>2. ASSUME NEW n \in 0 .. L - 1, n \in P
        PROVE  n + 1 \in P
    <3>1. n + 1 \in 1 .. L /\ (n + 1) - 1 = n /\ n + 1 \in 0 .. L
      BY <1>1
    <3>2. up[n + 1] = AskedAt(n + 1, up[n].out) /\ up[n].out \in Q
      BY <1>12, <2>2, <3>1
    <3>. QED  BY <1>3, <3>1, <3>2
  <2>. HIDE DEF P
  <2>3. \A n \in 0 .. L : n \in P
    BY <1>1, <2>1, <2>2, CountUp
  <2>. QED  BY <2>3 DEF P
<1>14. \A i \in 1 .. L :
         /\ up[i] = Ended(KindOf(i), WalkAt(i, up[i - 1].out), up[i - 1].out)
         /\ up[i].mod \in StatesOf(conf.chain[i], conf, F)
  <2> TAKE i \in 1 .. L
  <2> DEFINE b == up[i - 1].out
  <2>1. b \in Q /\ up[i] = AskedAt(i, b)
    <3>1. i - 1 \in 0 .. L
      BY <1>1
    <3>. QED  BY <1>12, <1>13, <3>1
  <2>. HIDE DEF b
  <2>2. AskedAt(i, b) = Ended(KindOf(i), WalkAt(i, b), b)
        /\ AskedAt(i, b).mod \in StatesOf(conf.chain[i], conf, F)
    BY <1>3, <2>1
  <2>. QED  BY <2>1, <2>2 DEF b
<1>. QED  BY <1>12, <1>13, <1>14, Zenon DEF Chained, up, F, L, Q, a

-----------------------------------------------------------------------------
(* The invariant                                                           *)

TypeOK ==
  /\ conf \in Confs /\ queue \in Seq(Samples(Fingers)) /\ ModsOK
  /\ held \in [Slots -> Samples(Slots)] /\ seen \in [Slots -> BOOLEAN]
  /\ touch \in [Slots -> Seq(Unset)] /\ given \in [Slots -> Seq(Unset)]

\* what pthres takes a press for is the last sample it passed on
Held ==
  Has("pthres") /\ ~conf.mt =>
    \A slot \in Slots :
      mods["pthres"][slot].press => PressAt(held[slot], mods["pthres"][slot].save)

\* A filter is the one at its place.
LEMMA NthIs ==
  ASSUME conf \in Confs
  PROVE  /\ \A i \in 1 .. ChainLen : Nth(conf.chain[i]) = i
         /\ \A f : Has(f) => Nth(f) \in 1 .. ChainLen /\ conf.chain[Nth(f)] = f
<1>1. DOMAIN conf.chain = 1 .. ChainLen
      /\ \A i, j \in 1 .. ChainLen : conf.chain[i] = conf.chain[j] => i = j
  BY ConfIs
<1>2. ASSUME NEW i \in 1 .. ChainLen
      PROVE  Nth(conf.chain[i]) = i
  BY <1>1 DEF Nth
<1>3. ASSUME NEW f, Has(f)
      PROVE  Nth(f) \in 1 .. ChainLen /\ conf.chain[Nth(f)] = f
  BY <1>1, <1>3 DEF Nth, Has
<1>. QED  BY <1>2, <1>3

\* A filter starts with one of its states.
LEMMA StartIs ==
  ASSUME NEW c, Counts(c), c.mt \in BOOLEAN, NEW F, NEW f \in Filters, NEW junk \in Junk
  PROVE  Start(f, c, junk) \in StatesOf(f, c, F)
<1>0. junk \in Int /\ Origin \in Int /\ Threshold \in Nat /\ Depth \in Nat \ {0}
      /\ c.nhead \in Nat /\ c.ntail \in Nat
  BY JunkAssumption, DebounceAssumption, MedianAssumption DEF Counts
<1>1. CASE f = "skip"
  <2> DEFINE u == [pos |-> junk, pressure |-> junk]
             x == SkipStart(c.nhead, c.ntail, u)
             R == [nhead : {c.nhead}, ntail : {c.ntail}, N : 0 .. c.nhead, M : 0 .. c.ntail,
                   sent : BOOLEAN, buf : [0 .. c.ntail - 1 -> Samples(F) \cup Unset]]
             g == [i \in 0 .. c.ntail - 1 |-> u]
  <2>1. u \in Unset
    BY <1>0 DEF Unset
  <2>. HIDE DEF u
  <2>2. g \in [0 .. c.ntail - 1 -> Samples(F) \cup Unset]
    BY <2>1
  <2>3. x = [nhead |-> c.nhead, ntail |-> c.ntail, N |-> 0, M |-> 0, sent |-> FALSE, buf |-> g]
    BY DEF SkipStart
  <2>. HIDE DEF x, g
  <2>4. x \in R /\ x.M = 0 /\ x.sent = FALSE
    BY <1>0, <2>2, <2>3
  <2>5. \A i \in 0 .. c.ntail - 1 : i < x.M \/ x.sent => x.buf[i] \in Samples(F)
    BY <1>0, <2>4
  <2>6. x \in SkipStates(c, F)
    BY <2>4, <2>5 DEF SkipStates
  <2>. QED  BY <1>1, <2>6 DEF x, u, Start, StatesOf
<1>2. CASE f = "pthres"
  BY <1>0, <1>2 DEF Start, StatesOf, PthresStart
<1>3. CASE f = "debounce"
  BY <1>0, <1>3 DEF Start, StatesOf, DebounceStart
<1>4. CASE f = "median"
  <2> DEFINE u == [pos |-> junk, p |-> junk]
             P == [pos : Int, p : Int]
             y == IF c.mt THEN None ELSE u
             d == [i \in 0 .. Depth - 1 |-> y]
             e == [with |-> FALSE, delay |-> d]
  <2>1. y \in P
    BY <1>0 DEF None
  <2>. HIDE DEF y, P
  <2>2. d \in [0 .. Depth - 1 -> P]
    BY <2>1
  <2>. HIDE DEF d
  <2>3. e \in [with : BOOLEAN, delay : Delays]
    BY <2>2 DEF Delays, P
  <2>. HIDE DEF e
  <2>4. [slot \in Slots |-> e] \in [Slots -> [with : BOOLEAN, delay : Delays]]
    BY <2>3
  <2>5. Start(f, c, junk) = [slot \in Slots |-> e]
    BY <1>4 DEF Start, MedianStart, e, d, y
  <2>. QED  BY <1>4, <2>4, <2>5 DEF StatesOf
<1>5. CASE f = "variance"
  <2> DEFINE u == [pos |-> junk, pressure |-> junk]
             x == VarianceStart(u)
  <2>1. u \in Unset
    BY <1>0 DEF Unset
  <2>. HIDE DEF u
  <2>2. x \in VarianceStates(F)
    BY <2>1 DEF VarianceStart, VarianceStates
  <2>. QED  BY <1>5, <2>2 DEF u, Start, StatesOf
<1>6. CASE f = "dejitter"
  <2>1. DejitterStart \in [Slots -> Rings]
    BY DEF DejitterStart, Rings, NR_SAMPHISTLEN
  <2>. QED  BY <1>6, <2>1 DEF Start, StatesOf
<1>7. CASE f = "linear"
  BY <1>7 DEF Start, StatesOf
<1>. QED  BY <1>1, <1>2, <1>3, <1>4, <1>5, <1>6, <1>7 DEF Filters

\* The chain starts with states of its filters.
LEMMA InitModsOK ==
  ASSUME Init
  PROVE  ModsOK
<1> DEFINE N == {conf.chain[i] : i \in DOMAIN conf.chain}
<1>1. conf \in Confs /\ \E junk \in Junk : mods = [f \in N |-> Start(f, conf, junk)]
  BY DEF Init
<1>2. PICK junk \in Junk : mods = [f \in N |-> Start(f, conf, junk)]
  BY <1>1
<1>3. Counts(conf) /\ conf.mt \in BOOLEAN /\ DOMAIN conf.chain = 1 .. ChainLen
      /\ \A i \in 1 .. ChainLen : conf.chain[i] \in Filters
  BY <1>1, ConfIs
<1>4. mods = [f \in N |-> mods[f]]
  <2>. HIDE DEF N
  <2>. QED  BY ONLY <1>2
<1>5. ASSUME NEW i \in 1 .. ChainLen
      PROVE  mods[conf.chain[i]] \in StatesOf(conf.chain[i], conf, Fingers)
  <2> DEFINE f == conf.chain[i]
  <2>1. f \in N /\ f \in Filters
    BY <1>3
  <2>. HIDE DEF N, f
  <2>2. mods[f] = Start(f, conf, junk)
    BY <1>2, <2>1
  <2>3. Start(f, conf, junk) \in StatesOf(f, conf, Fingers)
    BY ONLY <1>3, <2>1, junk \in Junk, StartIs
  <2>. QED  BY <2>2, <2>3 DEF f
<1>. QED  BY <1>4, <1>5 DEF ModsOK

\* Time that passes changes the state of debounce to another one.
LEMMA AgedIsState ==
  ASSUME NEW c, NEW F, NEW f, NEW m \in StatesOf(f, c, F),
         Last(queue).at \in Int
  PROVE  Aged(f, m) \in StatesOf(f, c, F)
<1>1. CASE f = "debounce"
  <2> DEFINE t == Last(queue).at
  <2>1. m \in [Slots -> Int]
    BY <1>1 DEF StatesOf
  <2>2. Waited(m, t) \in [Slots -> Int]
    <3>. HIDE DEF t
    <3>1. t \in Int
      BY DEF t
    <3>. QED  BY <2>1, <3>1, DebounceAssumption DEF Waited
  <2>3. Aged(f, m) = Waited(m, t)
    BY <1>1 DEF Aged
  <2>. QED  BY <1>1, <2>2, <2>3 DEF StatesOf
<1>2. CASE f # "debounce"
  BY <1>2 DEF Aged
<1>. QED  BY <1>1, <1>2

\* what a read does if done is what the filters make of the samples
Reads(done) ==
  /\ queue # <<>> /\ queue' = <<>> /\ conf' = conf /\ touch' = touch
  /\ mods' = [f \in DOMAIN mods |-> Aged(f, done[Nth(f)].mod)]
  /\ held' = IF ~Has("pthres") THEN held
             ELSE [slot \in Slots |->
                    [LastOf(done[Nth("pthres")].out, slot, held[slot]) EXCEPT !.at = 0]]
  /\ seen' = [slot \in Slots |-> Shows(done[ChainLen].out, slot, seen[slot])]
  /\ given' = [slot \in Slots |->
                 IF ~Has("skip") \/ slot \notin Fingers THEN <<>>
                 ELSE given[slot] \o [i \in DOMAIN done[ChainLen].out |->
                        [pos |-> done[ChainLen].out[i].pos,
                         pressure |-> done[ChainLen].out[i].pressure]]]
  /\ read' = [outs |-> [i \in 0 .. ChainLen |-> done[i].out], mods |-> mods, held |-> held]

\* That is what it does.
LEMMA ReadIs ==
  ASSUME TypeOK, Read
  PROVE  Reads(Outs) /\ Chained(Outs)
<1>1. Chained(Outs)
  BY OutsAre DEF TypeOK
<1>2. Reads(Outs)
  BY Zenon DEF Read, Reads, ChainLen, Fingers, Shows
<1>. QED  BY <1>1, <1>2

\* The last of some samples, or the one before, is a sample.
LEMMA LastOfIsSample ==
  ASSUME NEW F, NEW G, F \subseteq G, NEW out \in Seq(Samples(F)), NEW slot,
         NEW old \in Samples(G)
  PROVE  LastOf(out, slot, old) \in Samples(G)
<1>1. Samples(F) \subseteq Samples(G)
  BY DEF Samples
<1>2. CASE \A i \in 1 .. Len(out) : out[i].slot # slot
  BY <1>2, LastOfIs
<1>3. ASSUME NEW i \in 1 .. Len(out), out[i].slot = slot,
             \A j \in i + 1 .. Len(out) : out[j].slot # slot
      PROVE  LastOf(out, slot, old) \in Samples(G)
  <2>1. LastOf(out, slot, old) = out[i]
    BY <1>3, LastOfIs
  <2>. QED  BY <1>1, <2>1
<1>4. \/ \A i \in 1 .. Len(out) : out[i].slot # slot
      \/ \E i \in 1 .. Len(out) :
           out[i].slot = slot /\ \A j \in i + 1 .. Len(out) : out[j].slot # slot
  BY LastExists
<1>. QED  BY <1>2, <1>3, <1>4

\* The samples that wait have a last one.
LEMMA LastIs ==
  ASSUME NEW S, NEW s \in Seq(S), s # <<>>
  PROVE  Len(s) \in Nat \ {0} /\ Last(s) = s[Len(s)] /\ Last(s) \in S
<1>1. Len(s) \in Nat \ {0}
  BY EmptySeq
<1>. QED  BY <1>1 DEF Last

\* The filters' states after a read are those the filters end in, aged.
LEMMA ReadModsOK ==
  ASSUME TypeOK, NEW done, Chained(done), Reads(done)
  PROVE  /\ ModsOK'
         /\ \A i \in 1 .. ChainLen : mods'[conf.chain[i]] = Aged(conf.chain[i], done[i].mod)
<1> DEFINE N == {conf.chain[i] : i \in DOMAIN conf.chain}
           A(f) == Aged(f, done[Nth(f)].mod)
<1>1. /\ conf' = conf /\ mods' = [f \in DOMAIN mods |-> A(f)]
      /\ DOMAIN conf.chain = 1 .. ChainLen /\ DOMAIN mods = N
  <2>1. mods = [f \in N |-> mods[f]]
    BY DEF TypeOK, ModsOK
  <2>2. DOMAIN mods = N
    <3>. HIDE DEF N
    <3>. QED  BY <2>1
  <2>3. DOMAIN conf.chain = 1 .. ChainLen
    BY ConfIs DEF TypeOK
  <2>. QED  BY <2>2, <2>3 DEF Reads
<1>2. ASSUME NEW i \in 1 .. ChainLen
      PROVE  /\ mods'[conf.chain[i]] = Aged(conf.chain[i], done[i].mod)
             /\ mods'[conf.chain[i]] \in StatesOf(conf.chain[i], conf, Fingers)
  <2> DEFINE f == conf.chain[i]
             m == done[i].mod
  <2>1. f \in N /\ Nth(f) = i
    BY <1>1, NthIs DEF TypeOK
  <2>2. m \in StatesOf(f, conf, Fingers)
    BY DEF Chained
  <2>. HIDE DEF f, N
  <2>3. mods'[f] = Aged(f, m)
    BY <1>1, <2>1
  <2>4. Last(queue).at \in Int
    <3>1. Last(queue) \in Samples(Fingers)
      BY LastIs DEF TypeOK, Reads
    <3>. QED  BY <3>1, SampleFields
  <2>. HIDE DEF m
  <2>5. Aged(f, m) \in StatesOf(f, conf, Fingers)
    BY <2>2, <2>4, AgedIsState
  <2>. QED  BY <2>3, <2>5 DEF f, m
<1>3. mods' = [f \in N |-> mods'[f]]
  <2>. HIDE DEF N
  <2>. QED  BY <1>1
<1>4. ModsOK'
  BY <1>1, <1>2, <1>3 DEF ModsOK, ChainLen, Fingers
<1>. QED  BY <1>2, <1>4

\* A read leaves typed states.
LEMMA ReadTyped ==
  ASSUME TypeOK, NEW done, Chained(done), Reads(done)
  PROVE  TypeOK'
<1> DEFINE F == Fingers
           L == ChainLen
           got == done[L].out
<1>1. conf \in Confs /\ F \in SUBSET Slots /\ L \in Nat
      /\ held \in [Slots -> Samples(Slots)] /\ seen \in [Slots -> BOOLEAN]
      /\ touch \in [Slots -> Seq(Unset)] /\ given \in [Slots -> Seq(Unset)]
  BY ConfIs DEF TypeOK
<1>2. conf' = conf /\ Fingers' = Fingers /\ touch' = touch /\ queue' = <<>>
  BY DEF Reads, Fingers
<1>3. ModsOK'
  BY ReadModsOK
<1>4. \A i \in 0 .. L : done[i].out \in Seq(Samples(F))
  BY DEF Chained
<1>5. held' \in [Slots -> Samples(Slots)]
  <2>1. CASE ~Has("pthres")
    BY <1>1, <2>1 DEF Reads
  <2>2. CASE Has("pthres")
    <3> DEFINE out == done[Nth("pthres")].out
    <3>1. out \in Seq(Samples(F))
      <4>1. Nth("pthres") \in 1 .. L /\ 1 .. L \subseteq 0 .. L
        BY <1>1, <2>2, NthIs
      <4>. QED  BY <1>4, <4>1
    <3>2. held' = [slot \in Slots |-> [LastOf(out, slot, held[slot]) EXCEPT !.at = 0]]
      BY <2>2 DEF Reads
    <3>. HIDE DEF out
    <3>3. ASSUME NEW slot \in Slots
          PROVE  [LastOf(out, slot, held[slot]) EXCEPT !.at = 0] \in Samples(Slots)
      <4> DEFINE x == LastOf(out, slot, held[slot])
      <4>1. x \in Samples(Slots)
        BY <1>1, <3>1, LastOfIsSample
      <4>. HIDE DEF x
      <4>2. [x EXCEPT !.at = 0] \in Samples(Slots)
        BY <4>1 DEF Samples
      <4>. QED  BY <4>2 DEF x
    <3>. QED  BY ONLY <3>2, <3>3
  <2>. QED  BY <2>1, <2>2
<1>6. seen' \in [Slots -> BOOLEAN]
  <2>1. L \in 0 .. L
    BY <1>1
  <2>2. got \in Seq(Samples(F))
    BY <1>4, <2>1
  <2>3. seen' = [slot \in Slots |-> Shows(got, slot, seen[slot])]
    BY DEF Reads
  <2>. HIDE DEF got
  <2>4. \A slot \in Slots : Shows(got, slot, seen[slot]) \in BOOLEAN
    BY <1>1, <2>2, GivenIsBool
  <2>. QED  BY ONLY <2>3, <2>4
<1>7. given' \in [Slots -> Seq(Unset)]
  <2> DEFINE x == [i \in DOMAIN got |-> [pos |-> got[i].pos, pressure |-> got[i].pressure]]
  <2>1. L \in 0 .. L
    BY <1>1
  <2>2. got \in Seq(Samples(F))
    BY <1>4, <2>1
  <2>3. given' = [slot \in Slots |-> IF ~Has("skip") \/ slot \notin Fingers THEN <<>>
                                     ELSE given[slot] \o x]
    BY DEF Reads
  <2>. HIDE DEF got
  <2>4. DOMAIN got = 1 .. Len(got) /\ Len(got) \in Nat
        /\ \A i \in 1 .. Len(got) : got[i] \in Samples(F)
    BY <2>2
  <2>5. \A i \in DOMAIN got : [pos |-> got[i].pos, pressure |-> got[i].pressure] \in Unset
    BY <2>4 DEF Samples, Unset
  <2>6. x \in Seq(Unset)
    BY <2>4, <2>5
  <2>. HIDE DEF x
  <2>7. \A slot \in Slots : given[slot] \o x \in Seq(Unset)
    BY <1>1, <2>6
  <2>8. <<>> \in Seq(Unset)
    OBVIOUS
  <2>. QED  BY ONLY <2>3, <2>7, <2>8
<1>8. queue' \in Seq(Samples(Fingers'))
  BY <1>2
<1>. QED  BY <1>1, <1>2, <1>3, <1>5, <1>6, <1>7, <1>8 DEF TypeOK

Arrives == \E slot \in DOMAIN conf.pos :
             \E gap \in conf.gaps, pos \in conf.pos[slot], pressure \in conf.pressures :
               Arrive(gap, slot, pos, pressure)

\* Some of the end of a sequence.
LEMMA LastFewTyped ==
  ASSUME NEW S, NEW s \in Seq(S), NEW n \in Nat
  PROVE  LastFew(s, n) \in Seq(S)
<1>1. Len(s) \in Nat
  OBVIOUS
<1>2. CASE Len(s) > n
  <2>1. Len(s) - n + 1 \in 1 .. Len(s) + 1
    BY <1>1, <1>2
  <2>2. SubSeq(s, Len(s) - n + 1, Len(s)) \in Seq(S)
    BY <1>1, <2>1, SubSeqProperties
  <2>. QED  BY <1>2, <2>2 DEF LastFew
<1>3. CASE ~(Len(s) > n)
  <2>1. SubSeq(s, 1, Len(s)) \in Seq(S)
    BY <1>1, SubSeqProperties
  <2>. QED  BY <1>3, <2>1 DEF LastFew
<1>. QED  BY <1>2, <1>3

\* A sample that arrives leaves typed states.
LEMMA ArriveTyped ==
  ASSUME TypeOK, Arrives
  PROVE  TypeOK'
<1>0. PICK slot \in Fingers :
        \E gap \in conf.gaps, pos \in conf.pos[slot], pressure \in conf.pressures :
          Arrive(gap, slot, pos, pressure)
  BY DEF Arrives, Fingers
<1>1. PICK gap \in conf.gaps, pos \in conf.pos[slot], pressure \in conf.pressures :
        Arrive(gap, slot, pos, pressure)
  BY <1>0
<1> DEFINE before == IF queue = <<>> THEN 0 ELSE Last(queue).at
           sample == [at |-> before + gap, slot |-> slot, pos |-> pos, pressure |-> pressure]
           one == [pos |-> pos, pressure |-> pressure]
           longer == Append(IF Over(slot) THEN <<>> ELSE touch[slot], one)
<1>2. /\ queue' = Append(queue, sample)
      /\ touch' = [touch EXCEPT ![slot] = LastFew(longer, conf.memory)]
      /\ given' = [given EXCEPT ![slot] = IF Over(slot) THEN <<>> ELSE @]
      /\ conf' = conf /\ mods' = mods /\ held' = held /\ seen' = seen
  BY <1>1, Zenon DEF Arrive
<1>3. /\ gap \in Nat /\ pos \in Int /\ pressure \in Nat /\ conf.memory \in Nat /\ slot \in Slots
      /\ conf \in Confs /\ queue \in Seq(Samples(Fingers)) /\ ModsOK
      /\ held \in [Slots -> Samples(Slots)] /\ seen \in [Slots -> BOOLEAN]
      /\ touch \in [Slots -> Seq(Unset)] /\ given \in [Slots -> Seq(Unset)]
  BY ConfIs DEF TypeOK
<1>4. Fingers' = Fingers /\ ModsOK'
  <2>1. Fingers' = Fingers /\ ChainLen' = ChainLen
    BY <1>2 DEF Fingers, ChainLen
  <2>. QED  BY <1>2, <1>3, <2>1 DEF ModsOK
<1>5. queue' \in Seq(Samples(Fingers))
  <2>1. before \in Int
    <3>1. CASE queue = <<>>
      BY <3>1
    <3>2. CASE queue # <<>>
      <4>1. Last(queue) \in Samples(Fingers)
        BY <1>3, <3>2, LastIs
      <4>. QED  BY <3>2, <4>1, SampleFields
    <3>. QED  BY <3>1, <3>2
  <2>. HIDE DEF before
  <2>2. sample \in Samples(Fingers)
    BY <1>3, <2>1 DEF Samples
  <2>. HIDE DEF sample
  <2>. QED  BY <1>2, <1>3, <2>2
<1>6. touch' \in [Slots -> Seq(Unset)]
  <2>1. one \in Unset
    BY <1>3 DEF Unset
  <2>. HIDE DEF one
  <2>2. longer \in Seq(Unset)
    BY <1>3, <2>1
  <2>. HIDE DEF longer
  <2>3. LastFew(longer, conf.memory) \in Seq(Unset)
    BY <1>3, <2>2, LastFewTyped
  <2>. QED  BY ONLY <1>2, <1>3, <2>3
<1>7. given' \in [Slots -> Seq(Unset)]
  BY <1>2, <1>3
<1>. QED  BY <1>2, <1>3, <1>4, <1>5, <1>6, <1>7 DEF TypeOK

\* The last sample of pthres is that of its press.
LEMMA ReadHeld ==
  ASSUME TypeOK, Held, NEW done, Chained(done), Reads(done), Has("pthres"), ~conf.mt,
         NEW i, i = Nth("pthres"), NEW b, b = done[i - 1].out
  PROVE  /\ i \in 1 .. ChainLen /\ conf.chain[i] = "pthres" /\ b \in Seq(Samples(Fingers))
         /\ done[i].out \in Seq(Samples(Fingers))
         /\ Ends(done[i].out, held) /\ Keeps(done[i].mod, done[i].out, held)
         /\ mods'["pthres"] = done[i].mod
         /\ done[i] = OneByOne(PthresJudge, mods["pthres"], b)
<1> DEFINE m == mods["pthres"]
           F == Fingers
           w == PthresWalk(m, b)
<1>1. Counts(conf) /\ F \in SUBSET Slots /\ ChainLen \in Nat /\ conf.mt = FALSE
  BY ConfIs DEF TypeOK
<1>2. i \in 1 .. ChainLen /\ conf.chain[i] = "pthres" /\ i - 1 \in 0 .. ChainLen
      /\ i \in 0 .. ChainLen
  <2>1. i \in 1 .. ChainLen /\ conf.chain[i] = "pthres"
    BY NthIs DEF TypeOK
  <2>. QED  BY <1>1, <2>1
<1>3. b \in Seq(Samples(F)) /\ done[i].out \in Seq(Samples(F))
  BY <1>2 DEF Chained
<1>4. done[i] = [mod |-> w[Len(b)].mod, out |-> w[Len(b)].out]
  <2>1. KindOf(i) = "pthres" /\ Opened("pthres", m) = m
    BY <1>2 DEF KindOf, KindAt, Opened
  <2>2. WalkAt(i, b) = w
    BY <1>1, <1>2, <2>1, Zenon DEF WalkAt, WalkAll, PthresWalk
  <2>3. done[i] = Ended(KindOf(i), WalkAt(i, b), b)
    BY <1>2 DEF Chained
  <2>. HIDE DEF w
  <2>. QED  BY <2>1, <2>2, <2>3 DEF Ended, Closed
<1>5. m \in [Slots -> Presses]
  <2>1. mods[conf.chain[i]] \in StatesOf(conf.chain[i], conf, F)
    BY <1>2 DEF TypeOK, ModsOK
  <2>. QED  BY <1>2, <2>1 DEF StatesOf, Presses
<1>6. \A slot \in Slots : m[slot].press => PressAt(held[slot], m[slot].save)
  BY DEF Held
<1>7. mods'["pthres"] = Aged("pthres", done[i].mod)
  BY <1>2, ReadModsOK
<1>8. Aged("pthres", done[i].mod) = done[i].mod
  BY DEF Aged
<1>. HIDE DEF w, m
<1>9. /\ Keeps(w[Len(b)].mod, w[Len(b)].out, held) /\ Ends(w[Len(b)].out, held)
      /\ w[Len(b)].out \in Seq(Samples(F)) /\ w[Len(b)].mod \in [Slots -> Presses]
      /\ OneByOne(PthresJudge, m, b) = w[Len(b)]
  <2>1. w = PthresWalk(m, b)
    BY DEF w
  <2> DEFINE h == held
  <2>2. \A slot \in Slots : m[slot].press => PressAt(h[slot], m[slot].save)
    BY <1>6
  <2>. HIDE DEF h
  <2>3. /\ Keeps(w[Len(b)].mod, w[Len(b)].out, h) /\ Ends(w[Len(b)].out, h)
        /\ w[Len(b)].out \in Seq(Samples(F)) /\ w[Len(b)].mod \in [Slots -> Presses]
        /\ OneByOne(PthresJudge, m, b) = w[Len(b)]
    BY ONLY <1>1, <1>3, <1>5, <2>1, <2>2, PthresEnds
  <2>. QED  BY <2>3 DEF h
<1>10. Walked(w, "pthres", FALSE, During("pthres", conf, F), Samples(F), m, b)
  <2>1. Legal("pthres", FALSE) /\ m \in During("pthres", conf, F)
    BY <1>5 DEF Legal, Kind, Filters, During, StatesOf, Presses
  <2>. QED  BY <1>1, <1>3, <2>1, WalkIs DEF w, PthresWalk
<1>11. w[Len(b)] = done[i]
  <2>1. w[Len(b)] \in Turns(During("pthres", conf, F), Samples(F))
    <3>1. Len(b) \in 0 .. Len(b)
      BY <1>3
    <3>. QED  BY <1>10, <3>1, Zenon DEF Walked
  <2>2. w[Len(b)] = [mod |-> w[Len(b)].mod, out |-> w[Len(b)].out]
    BY ONLY <2>1 DEF Turns
  <2>. QED  BY <1>4, <2>2
<1>. QED  BY <1>2, <1>3, <1>7, <1>8, <1>9, <1>11 DEF m

\* What pthres remembers stays in step with what it passed on.
LEMMA ReadKeepsHeld ==
  ASSUME TypeOK, Held, NEW done, Chained(done), Reads(done)
  PROVE  Held'
<1>1. Has("pthres")' <=> Has("pthres")
  BY DEF Reads, Has
<1>2. conf' = conf
  BY DEF Reads
<1>3. ASSUME Has("pthres"), ~conf.mt, NEW slot \in Slots, mods'["pthres"][slot].press
      PROVE  PressAt(held'[slot], mods'["pthres"][slot].save)
  <2> DEFINE i == Nth("pthres")
             out == done[i].out
             x == LastOf(out, slot, held[slot])
  <2>1. Keeps(done[i].mod, out, held) /\ mods'["pthres"] = done[i].mod
        /\ out \in Seq(Samples(Fingers))
    BY <1>3, ReadHeld
  <2>2. held'[slot] = [x EXCEPT !.at = 0]
    BY <1>3 DEF Reads
  <2>3. x \in Samples(Slots)
    <3>1. Fingers \subseteq Slots /\ held[slot] \in Samples(Slots)
      BY ConfIs DEF TypeOK
    <3>. HIDE DEF out
    <3>. QED  BY <2>1, <3>1, LastOfIsSample
  <2>4. PressAt(x, mods'["pthres"][slot].save)
    BY <1>3, <2>1 DEF Keeps
  <2>. HIDE DEF x
  <2>5. held'[slot].pressure = x.pressure /\ held'[slot].pos = x.pos
    BY <2>2, <2>3 DEF Samples
  <2>. QED  BY <2>4, <2>5 DEF PressAt
<1>. QED  BY <1>1, <1>2, <1>3 DEF Held

\* What is remembered of a read.
LEMMA ReadRemembers ==
  ASSUME TypeOK, NEW done, Chained(done), Reads(done)
  PROVE  /\ read' # NoRead /\ read'.mods = mods /\ read'.held = held
         /\ \A i \in 0 .. ChainLen : read'.outs[i] = done[i].out
<1> DEFINE o == [i \in 0 .. ChainLen |-> done[i].out]
<1>1. read' = [outs |-> o, mods |-> mods, held |-> held]
  BY DEF Reads
<1>2. \A i \in 0 .. ChainLen : o[i] = done[i].out
  OBVIOUS
<1>3. DOMAIN o = 0 .. ChainLen /\ 0 \in 0 .. ChainLen
  BY ConfIs DEF TypeOK
<1>. HIDE DEF o
<1>4. read'.outs = o /\ read'.mods = mods /\ read'.held = held
  BY ONLY <1>1
<1>5. o # <<>>
  <2>1. DOMAIN <<>> = {}
    OBVIOUS
  <2>. QED  BY ONLY <1>3, <2>1
<1>6. read' # NoRead
  BY <1>4, <1>5 DEF NoRead
<1>. QED  BY <1>2, <1>4, <1>6

\* The chain stays what it is.
LEMMA ChainStays ==
  ASSUME TypeOK, NEW done, Chained(done), Reads(done)
  PROVE  /\ Has("pthres")' <=> Has("pthres")
         /\ Has("debounce")' <=> Has("debounce")
         /\ Nth("pthres")' = Nth("pthres") /\ Nth("debounce")' = Nth("debounce")
BY Zenon DEF Reads, Has, Nth

(* Behind a read of a program that calls ts_read the two properties of     *)
(* pthres hold.                                                            *)
LEMMA ReadPthres ==
  ASSUME TypeOK, Held, NEW done, Chained(done), Reads(done), ~conf.mt
  PROVE  ReleasesEndPresses' /\ BatchesDoNotMatter'
<1>. SUFFICES ASSUME Has("pthres")
              PROVE  ReleasesEndPresses' /\ BatchesDoNotMatter'
  <2>1. Has("pthres")' <=> Has("pthres")
    BY ChainStays
  <2>. QED  BY <2>1 DEF ReleasesEndPresses, BatchesDoNotMatter
<1> DEFINE i == Nth("pthres")
           b == done[i - 1].out
           out == done[i].out
<1>1. /\ i \in 1 .. ChainLen /\ b \in Seq(Samples(Fingers)) /\ out \in Seq(Samples(Fingers))
      /\ Ends(out, held) /\ done[i] = OneByOne(PthresJudge, mods["pthres"], b)
  BY ReadHeld
<1>2. read' # NoRead /\ read'.mods = mods /\ read'.held = held
      /\ read'.outs[i] = out /\ read'.outs[i - 1] = b
  <2>1. i \in 0 .. ChainLen /\ i - 1 \in 0 .. ChainLen
    <3>1. ChainLen \in Nat
      BY ConfIs DEF TypeOK
    <3>. QED  BY ONLY <1>1, <3>1
  <2>. QED  BY <2>1, ReadRemembers
<1>3. Nth("pthres")' = i
  BY ChainStays
<1>4. Out("pthres")' = out /\ In("pthres")' = b
  <2>1. NoRead' = NoRead
    BY DEF NoRead
  <2>. HIDE DEF i, out, b
  <2>. QED  BY <1>2, <1>3, <2>1 DEF Out, In
<1>5. BatchesDoNotMatter'
  <2>1. out = OneByOne(PthresJudge, mods["pthres"], b).out
    BY <1>1
  <2>. HIDE DEF out, b, i
  <2>. QED  BY <1>2, <1>4, <2>1, Zenon DEF BatchesDoNotMatter
<1>6. ReleasesEndPresses'
  <2>1. DOMAIN out = 1 .. Len(out)
    BY <1>1
  <2>2. \A n \in DOMAIN out : out[n].pressure < Pmin =>
          LET x == LastOf(SubSeq(out, 1, n - 1), out[n].slot, held[out[n].slot])
          IN x.pressure >= Pmin /\ x.pos = out[n].pos
    BY <1>1, <2>1, Zenon DEF Ends, PressAt
  <2>. HIDE DEF out, b, i
  <2>. QED  BY <1>2, <1>4, <2>2, Zenon DEF ReleasesEndPresses, Before
<1>. QED  BY <1>5, <1>6

\* NeverTooEarly of a read of first with the states q and now of debounce
\* before and after it, which is given b and passes out on
NotTooEarly(first, q, b, out, now) ==
  LET late == {i \in DOMAIN b : ~Early(q, b, i)}
      Quiet(slot) == Last(first).at - Up(q, b, slot, Len(b) + 1)
  IN
  /\ \A slot \in Slots : now[slot] = IF Quiet(slot) < Threshold THEN Quiet(slot) ELSE Threshold
  /\ \E pick \in [DOMAIN out -> late] :
       /\ \A k \in DOMAIN pick : out[k] = b[pick[k]]
       /\ \A k, n \in DOMAIN pick : k < n => pick[k] < pick[n]
       /\ \A i \in DOMAIN b : b[i].pressure = 0 => \E k \in DOMAIN pick : pick[k] = i
  /\ Len(b) = 1 /\ late # {} => out = b

\* Behind a read nothing has got through debounce too early.
LEMMA ReadEarly ==
  ASSUME TypeOK, NEW done, Chained(done), Reads(done)
  PROVE  NeverTooEarly'
<1>. SUFFICES ASSUME Has("debounce")
              PROVE  NeverTooEarly'
  <2>1. Has("debounce")' <=> Has("debounce")
    BY ChainStays
  <2>. QED  BY <2>1 DEF NeverTooEarly
<1> DEFINE i == Nth("debounce")
           b == done[i - 1].out
           out == done[i].out
           q == mods["debounce"]
           k == KindOf(i)
           w == WalkAt(i, b)
           F == Fingers
           L == Len(b)
           t == Last(queue).at
<1>1. Counts(conf) /\ F \in SUBSET Slots /\ ChainLen \in Nat /\ conf.mt \in BOOLEAN
      /\ i \in 1 .. ChainLen /\ conf.chain[i] = "debounce" /\ Legal("debounce", conf.mt)
  <2>1. i \in 1 .. ChainLen /\ conf.chain[i] = "debounce"
    BY NthIs DEF TypeOK
  <2>. QED  BY <2>1, ConfIs DEF TypeOK
<1>2. b \in Seq(Samples(F)) /\ out \in Seq(Samples(F)) /\ done[i] = Ended(k, w, b)
      /\ i \in 0 .. ChainLen /\ i - 1 \in 0 .. ChainLen
  <2>1. i \in 0 .. ChainLen /\ i - 1 \in 0 .. ChainLen
    BY ONLY <1>1
  <2>. QED  BY <1>1, <2>1, Zenon DEF Chained
<1>3. q \in [Slots -> Int]
  <2>1. mods[conf.chain[i]] \in StatesOf(conf.chain[i], conf, F)
    BY <1>1 DEF TypeOK, ModsOK
  <2>. QED  BY <1>1, <2>1 DEF StatesOf
<1>4. k \in {"debounce", "singly"} /\ Legal(k, conf.mt)
  BY <1>1 DEF KindOf, KindAt, Legal, Kind, Filters
<1>5. w = WalkAll(k, conf.mt, q, b)
  BY <1>1 DEF WalkAt
<1>6. t \in Int
  <2>1. Last(queue) \in Samples(Fingers)
    BY LastIs DEF TypeOK, Reads
  <2>. QED  BY <2>1, SampleFields
<1>7. read' # NoRead /\ read'.mods = mods /\ read'.outs[i] = out /\ read'.outs[i - 1] = b
      /\ read'.outs[0] = queue
  <2>1. 0 \in 0 .. ChainLen /\ done[0].out = queue
    BY <1>1 DEF Chained
  <2>. QED  BY <1>2, <2>1, ReadRemembers
<1>8. Out("debounce")' = out /\ In("debounce")' = b
  <2>1. NoRead' = NoRead
    BY DEF NoRead
  <2>2. Nth("debounce")' = i
    BY ChainStays
  <2>. HIDE DEF i, out, b
  <2>. QED  BY <1>7, <2>1, <2>2 DEF Out, In
<1>9. mods'["debounce"] = Waited(Closed(k, w[L].mod), t)
  <2>1. mods'["debounce"] = Aged("debounce", done[i].mod)
    BY <1>1, ReadModsOK
  <2>2. done[i].mod = Closed(k, w[L].mod)
    <3>. HIDE DEF k, w
    <3>. QED  BY <1>2 DEF Ended
  <2>. QED  BY <2>1, <2>2 DEF Aged
<1>. HIDE DEF i, b, out, q, k, w, F, t
<1>10. /\ \A slot \in Slots : Closed(k, w[L].mod)[slot] = -Up(q, b, slot, L + 1)
       /\ \E p : Picks(q, b, w[L].out, L, p)
       /\ L = 1 /\ ~Early(q, b, 1) => w[L].out = b
  BY ONLY <1>1, <1>2, <1>3, <1>4, <1>5, DebouncePicks
<1>11. out = w[L].out
  BY <1>2 DEF Ended, out
<1>12. NotTooEarly(queue, q, b, out, mods'["debounce"]) => NeverTooEarly'
  <2>1. NotTooEarly(read'.outs[0], read'.mods["debounce"], In("debounce")', Out("debounce")',
                    mods'["debounce"]) => NeverTooEarly'
    BY Zenon DEF NeverTooEarly, NotTooEarly, InWindow, LastUp, Early, Up, Ups
  <2>. QED  BY <1>7, <1>8, <2>1 DEF q
<1>14. ASSUME NEW slot \in Slots
       PROVE  mods'["debounce"][slot] =
                IF t - Up(q, b, slot, L + 1) < Threshold THEN t - Up(q, b, slot, L + 1)
                ELSE Threshold
  <2> DEFINE u == Up(q, b, slot, L + 1)
             x == Closed(k, w[L].mod)
  <2>1. u \in Int
    <3>1. L + 1 \in 1 .. L + 1
      BY <1>2
    <3>. QED  BY <1>2, <1>3, <3>1, UpIsInt
  <2>2. x[slot] = -u
    BY <1>10
  <2>3. mods'["debounce"][slot] = IF x[slot] + t < Threshold THEN x[slot] + t ELSE Threshold
    BY <1>9 DEF Waited
  <2>. HIDE DEF u, x
  <2>4. x[slot] + t = t - u
    BY ONLY <1>6, <2>1, <2>2
  <2>. QED  BY ONLY <2>3, <2>4 DEF u
<1> DEFINE D == DOMAIN b
           late == {n \in D : ~Early(q, b, n)}
<1>15. D = 1 .. L /\ DOMAIN out = 1 .. Len(out)
  BY <1>2
<1>16. \E pick \in [DOMAIN out -> late] :
         /\ \A n \in DOMAIN pick : out[n] = b[pick[n]]
         /\ \A n, l \in DOMAIN pick : n < l => pick[n] < pick[l]
         /\ \A n \in D : b[n].pressure = 0 => \E l \in DOMAIN pick : pick[l] = n
  <2>1. PICK p : Picks(q, b, out, L, p)
    BY <1>10, <1>11
  <2>2. p \in [DOMAIN out -> late]
    <3>1. p \in [1 .. Len(out) -> {n \in 1 .. L : ~Early(q, b, n)}]
      BY <2>1, Zenon DEF Picks
    <3>. HIDE DEF D
    <3>2. late = {n \in 1 .. L : ~Early(q, b, n)}
      BY ONLY <1>15, Zenon DEF late
    <3>. QED  BY ONLY <1>15, <3>1, <3>2
  <2>3. DOMAIN p = 1 .. Len(out)
    BY <1>15, <2>2
  <2>. HIDE DEF D, late
  <2>4. /\ \A n \in 1 .. Len(out) : out[n] = b[p[n]]
        /\ \A n, l \in 1 .. Len(out) : n < l => p[n] < p[l]
        /\ \A n \in 1 .. L : b[n].pressure = 0 => \E l \in 1 .. Len(out) : p[l] = n
    BY <2>1, Zenon DEF Picks
  <2>5. /\ \A n \in DOMAIN p : out[n] = b[p[n]]
        /\ \A n, l \in DOMAIN p : n < l => p[n] < p[l]
        /\ \A n \in D : b[n].pressure = 0 => \E l \in DOMAIN p : p[l] = n
    BY ONLY <1>15, <2>3, <2>4
  <2>. QED  BY ONLY <2>2, <2>5, Zenon
<1>17. L = 1 /\ late # {} => out = b
  BY <1>10, <1>11, <1>15
<1>18. t = Last(queue).at
  BY DEF t
<1>. HIDE DEF late
<1>19. NotTooEarly(queue, q, b, out, mods'["debounce"])
  BY ONLY <1>14, <1>16, <1>17, <1>18, Zenon DEF NotTooEarly, late
<1>. QED  BY <1>12, <1>19

\* A device that has just been opened has states of its filters.
LEMMA InitTyped ==
  ASSUME Init
  PROVE  TypeOK /\ Held
<1>1. conf \in Confs
  BY DEF Init
<1>2. ModsOK
  BY InitModsOK
<1>3. held \in [Slots -> Samples(Slots)]
  BY JunkAssumption DEF Init, Lifted, Samples
<1>4. Held
  <2>. SUFFICES ASSUME Has("pthres"), NEW slot \in Slots
                PROVE  ~mods["pthres"][slot].press
    BY DEF Held
  <2>1. PICK junk \in Junk :
          mods = [f \in {conf.chain[i] : i \in DOMAIN conf.chain} |-> Start(f, conf, junk)]
    BY DEF Init
  <2>2. mods["pthres"] = Start("pthres", conf, junk)
    BY <2>1 DEF Has
  <2>3. Start("pthres", conf, junk) = PthresStart
    BY DEF Start
  <2>. QED  BY <2>2, <2>3 DEF PthresStart
<1>5. queue = <<>> /\ seen \in [Slots -> BOOLEAN] /\ touch \in [Slots -> Seq(Unset)]
      /\ given \in [Slots -> Seq(Unset)]
  BY DEF Init
<1>. QED  BY <1>1, <1>2, <1>3, <1>4, <1>5 DEF TypeOK

\* Every step leaves states of the filters, and what pthres remembers in step
\* with what it passed on.
LEMMA NextTyped ==
  ASSUME TypeOK, Held, [Next]_vars
  PROVE  TypeOK' /\ Held'
<1>1. CASE Read
  BY <1>1, ReadIs, ReadTyped, ReadKeepsHeld
<1>2. CASE Arrives
  <2>1. conf' = conf /\ mods' = mods /\ held' = held
    BY <1>2 DEF Arrives, Arrive
  <2>2. Held'
    BY <2>1 DEF Held, Has
  <2>. QED  BY <1>2, <2>2, ArriveTyped
<1>3. CASE UNCHANGED vars
  <2>1. TypeOK'
    BY <1>3 DEF vars, TypeOK, ModsOK, Fingers, ChainLen
  <2>2. Held'
    BY <1>3 DEF vars, Held, Has
  <2>. QED  BY <2>1, <2>2
<1>. QED  BY <1>1, <1>2, <1>3 DEF Next, Arrives

(* The state of every filter is one that its code can work with, whatever  *)
(* the chain: ring positions are within the rings, what counts of skip's and*)
(* variance's memory has been set.                                         *)
THEOREM FilterChainTyped == Spec => []TypeOK
<1>1. Init => TypeOK /\ Held
  BY InitTyped
<1>2. TypeOK /\ Held /\ [Next]_vars => TypeOK' /\ Held'
  BY NextTyped
<1>. QED  BY <1>1, <1>2, PTL DEF Spec

\* Until something is read, and while nothing happens, nothing is violated.
LEMMA NextPthres ==
  ASSUME TypeOK, Held, [Next]_vars, ~conf.mt => ReleasesEndPresses /\ BatchesDoNotMatter
  PROVE  ~conf'.mt => ReleasesEndPresses' /\ BatchesDoNotMatter'
<1>1. CASE Read
  <2>1. Chained(Outs) /\ Reads(Outs)
    BY <1>1, ReadIs
  <2>2. conf' = conf
    BY <1>1 DEF Read
  <2>. QED  BY <2>1, <2>2, ReadPthres
<1>2. CASE Arrives
  <2>1. read' = NoRead
    BY <1>2 DEF Arrives, Arrive
  <2>2. Out("pthres")' = <<>> /\ ~(read # NoRead)'
    BY <2>1 DEF Out, NoRead
  <2>. QED  BY <2>2 DEF ReleasesEndPresses, BatchesDoNotMatter
<1>3. CASE UNCHANGED vars
  <2>1. conf' = conf /\ read' = read
    BY <1>3 DEF vars
  <2>2. (Has("pthres")' <=> Has("pthres")) /\ Nth("pthres")' = Nth("pthres")
    BY <2>1, Zenon DEF Has, Nth
  <2>3. In("pthres")' = In("pthres") /\ Out("pthres")' = Out("pthres")
    BY <2>1, <2>2 DEF In, Out, NoRead
  <2>4. ReleasesEndPresses => ReleasesEndPresses'
    BY <2>1, <2>2, <2>3, Zenon DEF ReleasesEndPresses, Before
  <2>5. BatchesDoNotMatter => BatchesDoNotMatter'
    BY <2>1, <2>2, <2>3, Zenon DEF BatchesDoNotMatter, NoRead
  <2>. QED  BY <2>1, <2>4, <2>5
<1>. QED  BY <1>1, <1>2, <1>3 DEF Next, Arrives

\* The same of debounce.
LEMMA NextEarly ==
  ASSUME TypeOK, Held, [Next]_vars, NeverTooEarly
  PROVE  NeverTooEarly'
<1>1. CASE Read
  BY <1>1, ReadIs, ReadEarly
<1>2. CASE Arrives
  <2>1. read' = NoRead
    BY <1>2 DEF Arrives, Arrive
  <2>2. ~(read # NoRead)'
    BY <2>1 DEF NoRead
  <2>. QED  BY <2>2 DEF NeverTooEarly
<1>3. CASE UNCHANGED vars
  <2>1. conf' = conf /\ read' = read /\ mods' = mods
    BY <1>3 DEF vars
  <2>2. (Has("debounce")' <=> Has("debounce")) /\ Nth("debounce")' = Nth("debounce")
    BY <2>1, Zenon DEF Has, Nth
  <2>3. In("debounce")' = In("debounce") /\ Out("debounce")' = Out("debounce")
        /\ ((read # NoRead)' <=> read # NoRead)
    BY <2>1, <2>2 DEF In, Out, NoRead
  <2>. SUFFICES ASSUME Has("debounce"), read # NoRead
                PROVE  NeverTooEarly'
    BY <2>2, <2>3 DEF NeverTooEarly
  <2>4. NotTooEarly(read.outs[0], read.mods["debounce"], In("debounce"), Out("debounce"),
                    mods["debounce"])
    BY Zenon DEF NeverTooEarly, NotTooEarly, InWindow, LastUp, Early, Up, Ups
  <2>5. NotTooEarly(read'.outs[0], read'.mods["debounce"], In("debounce")', Out("debounce")',
                    mods'["debounce"])
    BY ONLY <2>1, <2>3, <2>4
  <2>6. NotTooEarly(read'.outs[0], read'.mods["debounce"], In("debounce")', Out("debounce")',
                    mods'["debounce"]) => NeverTooEarly'
    BY Zenon DEF NeverTooEarly, NotTooEarly, InWindow, LastUp, Early, Up, Ups
  <2>. QED  BY <2>5, <2>6
<1>. QED  BY <1>1, <1>2, <1>3 DEF Next, Arrives

\* At first nothing has been read, and the three hold.
LEMMA InitHolds ==
  ASSUME Init
  PROVE  ReleasesEndPresses /\ BatchesDoNotMatter /\ NeverTooEarly
<1>1. read = NoRead /\ Out("pthres") = <<>>
  BY DEF Init, Out
<1>. QED  BY <1>1 DEF ReleasesEndPresses, BatchesDoNotMatter, NeverTooEarly

(* For a program that calls ts_read, whatever the chain and the samples:   *)
(* pthres passes a release on only behind a press of the same slot, at the *)
(* place of that press.                                                    *)
THEOREM ReleasesAlwaysEndPresses == Spec => [](~conf.mt => ReleasesEndPresses)
<1> DEFINE I == ~conf.mt => ReleasesEndPresses /\ BatchesDoNotMatter
<1>1. Init => TypeOK /\ Held /\ I
  BY InitTyped, InitHolds
<1>2. TypeOK /\ Held /\ I /\ [Next]_vars => TypeOK' /\ Held' /\ I'
  BY NextTyped, NextPthres
<1>3. I => (~conf.mt => ReleasesEndPresses)
  OBVIOUS
<1>. QED  BY <1>1, <1>2, <1>3, PTL DEF Spec

(* For such a program what pthres passes on is what the judgement of each  *)
(* sample by itself gives, though it closes gaps in the array it walks over.*)
THEOREM BatchesNeverMatter == Spec => [](~conf.mt => BatchesDoNotMatter)
<1> DEFINE I == ~conf.mt => ReleasesEndPresses /\ BatchesDoNotMatter
<1>1. Init => TypeOK /\ Held /\ I
  BY InitTyped, InitHolds
<1>2. TypeOK /\ Held /\ I /\ [Next]_vars => TypeOK' /\ Held' /\ I'
  BY NextTyped, NextPthres
<1>3. I => (~conf.mt => BatchesDoNotMatter)
  OBVIOUS
<1>. QED  BY <1>1, <1>2, <1>3, PTL DEF Spec

(* Whatever the chain and whichever call the program makes: debounce passes*)
(* on nothing of the quiet time, every release, and knows when the last one*)
(* was.                                                                    *)
THEOREM DebounceNeverTooEarly == Spec => []NeverTooEarly
<1>1. Init => TypeOK /\ Held /\ NeverTooEarly
  BY InitTyped, InitHolds
<1>2. TypeOK /\ Held /\ NeverTooEarly /\ [Next]_vars => TypeOK' /\ Held' /\ NeverTooEarly'
  BY NextTyped, NextEarly
<1>. QED  BY <1>1, <1>2, PTL DEF Spec

-----------------------------------------------------------------------------
(* The pen                                                                 *)

(* The chains behind which the pen cannot get stuck: what pthres takes for a*)
(* release must not have been averaged before, the median of ts_read_mt does*)
(* not clear its line, and linear must leave no pressure what it is.       *)
Releasing ==
  /\ \A i \in DOMAIN conf.chain : conf.chain[i] = "pthres" => i = 1
  /\ conf.mt => ~Has("median")
  /\ Has("linear") => CalibratedPressure(0) = 0

\* what the first filter takes for a press, the device's samples being given
First == IF Has("pthres") THEN "pthres" ELSE "skip"

\* the state of the i-th filter as a read begins
OpenAt(i) == Opened(KindOf(i), mods[conf.chain[i]])

\* d[i] is whether the last sample of the slot that the i-th filter passed on
\* is a press, d[0] whether the last one read was
Chain(d, slot) ==
  /\ d \in [0 .. ChainLen -> BOOLEAN] /\ d[ChainLen] = seen[slot]
  /\ \A i \in 1 .. ChainLen : Linked(KindOf(i), conf, OpenAt(i), slot, d[i - 1], d[i])
  /\ Given(First, queue, slot, d[0]) => ~Over(slot)

Unstuck ==
  /\ \A slot \in Fingers : \E d : Chain(d, slot)
  /\ \A slot \in Slots \ Fingers : ~seen[slot]

\* An untainted link hands the release on.
LEMMA LinkedGoes ==
  ASSUME NEW k, NEW c, NEW m, NEW slot, NEW i \in BOOLEAN, NEW o \in BOOLEAN,
         Linked(k, c, m, slot, i, o), k = "median" => ~Junky(m[slot])
  PROVE  o => i
BY LinkedIs

\* So nothing is stuck.
LEMMA ReleasedIsOver ==
  ASSUME TypeOK, Unstuck
  PROVE  PenIsNotStuck
<1>. SUFFICES ASSUME queue = <<>>, ~Tainted, NEW slot \in Slots, seen[slot]
              PROVE  ~Over(slot)
  BY DEF PenIsNotStuck
<1> DEFINE L == ChainLen
<1>1. L \in Nat /\ slot \in Fingers
  BY ConfIs DEF TypeOK, Unstuck
<1>2. PICK d : Chain(d, slot)
  BY <1>1 DEF Unstuck
<1>3. d \in [0 .. L -> BOOLEAN] /\ d[L] = TRUE
      /\ (Given(First, queue, slot, d[0]) => ~Over(slot))
      /\ \A i \in 1 .. L : Linked(KindOf(i), conf, OpenAt(i), slot, d[i - 1], d[i])
  BY <1>2, Zenon DEF Chain, TypeOK
<1>4. \A i \in 1 .. L : d[i] => d[i - 1]
  <2> TAKE i \in 1 .. L
  <2> DEFINE k == KindOf(i)
             m == OpenAt(i)
  <2>1. k = "median" => ~Junky(m[slot])
    <3>. SUFFICES ASSUME k = "median", Junky(m[slot])
                  PROVE  FALSE
      OBVIOUS
    <3>1. conf.chain[i] = "median"
      BY DEF KindOf, KindAt
    <3>2. m = mods["median"]
      BY <3>1 DEF OpenAt, Opened
    <3>3. Has("median")
      <4>1. i \in DOMAIN conf.chain
        BY ConfIs DEF TypeOK
      <4>. QED  BY <3>1, <4>1 DEF Has
    <3>. HIDE DEF m
    <3>. QED  BY <1>1, <3>2, <3>3 DEF Tainted, Junky, Depths, Fingers
  <2>2. Linked(k, conf, m, slot, d[i - 1], d[i])
    BY <1>3
  <2>3. d[i - 1] \in BOOLEAN /\ d[i] \in BOOLEAN
    <3>1. i - 1 \in 0 .. L /\ i \in 0 .. L
      BY <1>1
    <3>. QED  BY <1>3, <3>1
  <2>. HIDE DEF k, m
  <2>. QED  BY ONLY <2>1, <2>2, <2>3, LinkedGoes
<1>5. d[0] = TRUE
  <2> DEFINE P == {n \in 0 .. L : d[L - n] = TRUE}
  <2>1. 0 \in P
    <3>1. 0 \in 0 .. L /\ L - 0 = L
      BY <1>1
    <3>. QED  BY ONLY <1>3, <3>1
  <2>2. ASSUME NEW n \in 0 .. L - 1, n \in P
        PROVE  n + 1 \in P
    <3> DEFINE j == L - n
    <3>1. j \in 1 .. L /\ j - 1 = L - (n + 1) /\ n + 1 \in 0 .. L /\ j - 1 \in 0 .. L
      BY <1>1
    <3>2. d[j] = TRUE
      BY <2>2
    <3>. HIDE DEF j
    <3>3. d[j - 1] = TRUE
      BY <1>3, <1>4, <3>1, <3>2
    <3>. QED  BY <3>1, <3>3
  <2>. HIDE DEF P
  <2>3. \A n \in 0 .. L : n \in P
    BY <1>1, <2>1, <2>2, CountUp
  <2>4. L \in 0 .. L /\ L - L = 0
    BY <1>1
  <2>. QED  BY <2>3, <2>4 DEF P
<1>6. Given(First, queue, slot, d[0])
  <2>1. Given(First, <<>>, slot, d[0]) <=> d[0]
    BY <1>5, GivenNone
  <2>. QED  BY <1>5, <2>1
<1>. QED  BY <1>3, <1>6

\* a slot of which there are no samples shows nothing new
LEMMA ShowsNone ==
  ASSUME NEW F, NEW out \in Seq(Samples(F)), NEW slot, slot \notin F
  PROVE  ~Shows(out, slot, FALSE)
<1> DEFINE old == [pressure |-> IF FALSE THEN 1 ELSE 0]
<1>1. \A i \in 1 .. Len(out) : out[i].slot # slot
  <2>1. \A i \in 1 .. Len(out) : out[i] \in Samples(F)
    OBVIOUS
  <2>. QED  BY <2>1 DEF Samples
<1>2. old.pressure = 0
  OBVIOUS
<1>. HIDE DEF old
<1>3. LastOf(out, slot, old) = old
  BY <1>1, LastOfIs
<1>4. Shows(out, slot, FALSE) <=> LastOf(out, slot, old).pressure # 0
  BY DEF Shows, old
<1>. QED  BY <1>2, <1>3, <1>4

\* To what it knows of the slot the way through a read makes no difference.
LEMMA AgedLinks ==
  ASSUME NEW k, NEW f \in Filters, NEW mt, NEW singly, k = KindAt(f, mt, singly),
         NEW c, NEW m, NEW slot, NEW i, NEW o,
         Linked(k, c, m, slot, i, o)
  PROVE  Linked(k, c, Opened(k, Aged(f, Closed(k, m))), slot, i, o)
<1>1. CASE f = "debounce"
  <2>1. k \notin {"pthres", "skip", "median"}
    BY <1>1 DEF KindAt
  <2>. QED  BY <2>1, LinkedIs
<1>2. CASE f # "debounce"
  <2>1. k = f
    BY <1>2 DEF KindAt
  <2>2. Opened(k, Aged(f, Closed(k, m))) = m
    BY <1>2, <2>1 DEF Opened, Aged, Closed
  <2>. QED  BY <2>2
<1>. QED  BY <1>1, <1>2

\* the last samples before a read and behind it
Moved(d, e, done, slot) ==
  /\ e \in [0 .. ChainLen -> BOOLEAN]
  /\ e[0] = Given(First, queue, slot, d[0])
  /\ \A i \in 1 .. ChainLen : e[i] = Shows(done[i].out, slot, d[i])

\* What a filter is given is what the one before it passes on.
LEMMA MovedAlong ==
  ASSUME TypeOK, Releasing, NEW done, Chained(done), NEW slot \in Fingers, NEW d, NEW e,
         Chain(d, slot), Moved(d, e, done, slot), NEW i \in 1 .. ChainLen
  PROVE  e[i - 1] = Given(KindOf(i), done[i - 1].out, slot, d[i - 1])
<1> DEFINE k == KindOf(i)
           L == ChainLen
<1>1. L \in Nat /\ DOMAIN conf.chain = 1 .. L /\ done[0].out = queue
  BY ConfIs DEF TypeOK, Chained
<1>2. CASE i = 1
  <2>1. e[i - 1] = Given(First, queue, slot, d[0]) /\ i - 1 = 0
    BY <1>2 DEF Moved
  <2>2. Has("pthres") <=> conf.chain[1] = "pthres"
    BY <1>1, <1>2 DEF Has, Releasing
  <2>3. CASE Has("pthres")
    <3>1. First = k
      BY <1>2, <2>2, <2>3 DEF First, KindOf, KindAt
    <3>. QED  BY ONLY <1>1, <2>1, <3>1
  <2>4. CASE ~Has("pthres")
    <3>1. First # "pthres" /\ k # "pthres"
      BY <1>2, <2>2, <2>4 DEF First, KindOf, KindAt
    <3>2. Given(First, queue, slot, d[0]) = Shows(queue, slot, d[0])
          /\ Given(k, queue, slot, d[0]) = Shows(queue, slot, d[0])
      BY <3>1, GivenShows
    <3>. QED  BY ONLY <1>1, <2>1, <3>2
  <2>. QED  BY <2>3, <2>4
<1>3. CASE i # 1
  <2>1. i - 1 \in 1 .. L
    BY <1>1, <1>3
  <2>2. k # "pthres"
    <3>1. conf.chain[i] # "pthres"
      BY <1>1, <1>3 DEF Releasing
    <3>. QED  BY <3>1 DEF KindOf, KindAt
  <2>3. e[i - 1] = Shows(done[i - 1].out, slot, d[i - 1])
    BY <2>1 DEF Moved
  <2>4. Given(k, done[i - 1].out, slot, d[i - 1]) = Shows(done[i - 1].out, slot, d[i - 1])
    BY <2>2, GivenShows
  <2>. QED  BY <2>3, <2>4
<1>. QED  BY <1>2, <1>3

\* A read keeps what a filter knows of the slot,
LEMMA ReadLinks ==
  ASSUME TypeOK, Releasing, NEW done, Chained(done), Reads(done), NEW slot \in Fingers,
         NEW d, NEW e, Chain(d, slot), Moved(d, e, done, slot), NEW i \in 1 .. ChainLen
  PROVE  Linked(KindOf(i), conf, Opened(KindOf(i), mods'[conf.chain[i]]), slot, e[i - 1], e[i])
<1> DEFINE f == conf.chain[i]
           mt == conf.mt
           F == Fingers
           k == KindOf(i)
           b == done[i - 1].out
           m == OpenAt(i)
           w == WalkAt(i, b)
           x == w[Len(b)].mod
           y == w[Len(b)].out
           di == d[i - 1]
           do == d[i]
<1>1. /\ Counts(conf) /\ F \in SUBSET Slots /\ ChainLen \in Nat /\ mt \in BOOLEAN
      /\ f \in Filters /\ Legal(f, mt) /\ (~mt => \E finger \in Slots : F = {finger})
      /\ DOMAIN conf.chain = 1 .. ChainLen
  BY ConfIs DEF TypeOK
<1>2. i - 1 \in 0 .. ChainLen /\ i \in 0 .. ChainLen
  BY <1>1
<1>3. di \in BOOLEAN /\ do \in BOOLEAN /\ Linked(k, conf, m, slot, di, do)
  BY <1>2 DEF Chain
<1>4. b \in Seq(Samples(F)) /\ done[i] = Ended(k, w, b)
  BY <1>2 DEF Chained
<1>5. k = KindAt(f, mt, SinglyAt(i)) /\ Legal(k, mt)
  BY <1>1 DEF KindOf, KindAt, Legal, Kind, Filters
<1>6. /\ k = "median" => ~mt
      /\ k = "linear" => CalibratedPressure(0) = 0
      /\ k \in {"skip", "variance"} => F = {slot}
  <2>1. k = "median" => ~mt
    BY <1>1, <1>5 DEF Releasing, Has, KindAt
  <2>2. k = "linear" => CalibratedPressure(0) = 0
    BY <1>1, <1>5 DEF Releasing, Has, KindAt
  <2>3. k \in {"skip", "variance"} => ~mt
    BY <1>5 DEF Legal
  <2>. QED  BY <1>1, <2>1, <2>2, <2>3
<1>7. m \in During(k, conf, F) /\ w = Walk(k, mt, m, b)
  <2>1. mods[f] \in StatesOf(f, conf, F)
    BY DEF TypeOK, ModsOK
  <2>2. m = Opened(k, mods[f])
    BY DEF OpenAt
  <2>. HIDE DEF m, f, k, F
  <2>3. m \in During(k, conf, F)
    BY <1>1, <1>5, <2>1, <2>2, OpenClose
  <2>. QED  BY <2>2, <2>3 DEF WalkAt, WalkAll, f, k
<1>8. e[i - 1] = Given(k, b, slot, di)
  BY MovedAlong
<1>9. e[i] = Shows(y, slot, do)
  <2>1. done[i].out = y
    BY <1>4 DEF Ended
  <2>. QED  BY <2>1 DEF Moved
<1>10. mods'[f] = Aged(f, Closed(k, x))
  <2>1. mods'[f] = Aged(f, done[i].mod)
    BY ReadModsOK
  <2>. QED  BY <1>4, <2>1 DEF Ended
<1>11. slot \in F
  OBVIOUS
<1>. HIDE DEF f, mt, F, k, b, m, w, di, do
<1>12. Linked(k, conf, x, slot, Given(k, b, slot, di), Shows(y, slot, do))
  <2>1. b \in Seq(Samples(F))
    BY <1>4
  <2>. QED  BY ONLY <1>1, <1>3, <2>1, <1>5, <1>6, <1>7, <1>11, WalkLinks
<1>. HIDE DEF x, y
<1>13. Linked(k, conf, x, slot, e[i - 1], e[i])
  BY ONLY <1>8, <1>9, <1>12
<1>14. Linked(k, conf, Opened(k, Aged(f, Closed(k, x))), slot, e[i - 1], e[i])
  BY ONLY <1>1, <1>5, <1>13, AgedLinks
<1>. QED  BY <1>10, <1>14 DEF k, f

\* There is always such a way.
LEMMA MovedExists ==
  ASSUME TypeOK, NEW done, Chained(done), NEW slot \in Fingers, NEW d, Chain(d, slot)
  PROVE  \E e : Moved(d, e, done, slot)
<1> DEFINE L == ChainLen
           e == [i \in 0 .. L |-> IF i = 0 THEN Given(First, queue, slot, d[0])
                                  ELSE Shows(done[i].out, slot, d[i])]
<1>1. L \in Nat /\ 0 \in 0 .. L /\ \A i \in 1 .. L : i \in 0 .. L /\ i # 0
  <2>1. L \in Nat
    BY ConfIs DEF TypeOK
  <2>. HIDE DEF L
  <2>. QED  BY <2>1
<1>2. \A i \in 0 .. L : d[i] \in BOOLEAN /\ done[i].out \in Seq(Samples(Fingers))
  BY DEF Chain, Chained
<1>3. queue \in Seq(Samples(Fingers))
  BY DEF TypeOK
<1>4. Given(First, queue, slot, d[0]) \in BOOLEAN
  BY <1>1, <1>2, <1>3, GivenIsBool
<1>5. \A i \in 0 .. L : Shows(done[i].out, slot, d[i]) \in BOOLEAN
  BY <1>2, GivenIsBool
<1>6. e \in [0 .. L -> BOOLEAN]
  BY <1>4, <1>5
<1>7. e[0] = Given(First, queue, slot, d[0])
      /\ \A i \in 1 .. L : e[i] = Shows(done[i].out, slot, d[i])
  BY <1>1
<1>. HIDE DEF e
<1>. QED  BY <1>6, <1>7 DEF Moved

\* A read leaves nothing stuck.
LEMMA ReadUnstuck ==
  ASSUME TypeOK, Releasing, Unstuck, NEW done, Chained(done), Reads(done)
  PROVE  Unstuck'
<1>1. conf' = conf /\ touch' = touch /\ queue' = <<>>
      /\ seen' = [slot \in Slots |-> Shows(done[ChainLen].out, slot, seen[slot])]
  BY DEF Reads
<1>2. Fingers' = Fingers /\ ChainLen' = ChainLen /\ First' = First
      /\ \A i : KindOf(i)' = KindOf(i)
  BY <1>1, Zenon DEF Fingers, ChainLen, First, Has, KindOf, SinglyAt
<1>3. ChainLen \in Nat /\ Fingers \subseteq Slots
  BY ConfIs DEF TypeOK
<1>4. ASSUME NEW slot \in Fingers
      PROVE  \E e : Chain(e, slot)'
  <2>1. PICK d : Chain(d, slot)
    BY DEF Unstuck
  <2>2. PICK e : Moved(d, e, done, slot)
    BY <2>1, MovedExists
  <2>3. e \in [0 .. ChainLen -> BOOLEAN] /\ e[0] = Given(First, queue, slot, d[0])
    BY <2>2 DEF Moved
  <2>4. \A i \in 1 .. ChainLen :
          Linked(KindOf(i), conf, Opened(KindOf(i), mods'[conf.chain[i]]), slot, e[i - 1], e[i])
    BY <2>1, <2>2, ReadLinks
  <2>5. e[ChainLen] = seen'[slot]
    <3>1. seen'[slot] = Shows(done[ChainLen].out, slot, seen[slot])
      BY <1>1, <1>3
    <3>2. CASE ChainLen = 0
      <4>1. First = "skip"
        <5>1. DOMAIN conf.chain = 1 .. ChainLen
          BY ConfIs DEF TypeOK
        <5>. QED  BY <3>2, <5>1 DEF First, Has
      <4>2. e[0] = Shows(queue, slot, d[0])
        BY <2>3, <4>1, GivenShows
      <4>3. d[0] = seen[slot] /\ done[0].out = queue
        BY <2>1, <3>2 DEF Chain, Chained
      <4>. QED  BY ONLY <3>1, <3>2, <4>2, <4>3
    <3>3. CASE ChainLen # 0
      <4>1. ChainLen \in 1 .. ChainLen
        BY <1>3, <3>3
      <4>2. e[ChainLen] = Shows(done[ChainLen].out, slot, d[ChainLen])
        BY <2>2, <4>1 DEF Moved
      <4>3. d[ChainLen] = seen[slot]
        BY <2>1 DEF Chain
      <4>. QED  BY ONLY <3>1, <4>2, <4>3
    <3>. QED  BY <3>2, <3>3
  <2>6. Given(First, <<>>, slot, e[0]) => ~Over(slot)
    <3>1. 0 \in 0 .. ChainLen
      BY <1>3
    <3>2. e[0] \in BOOLEAN
      BY <2>3, <3>1
    <3>3. Given(First, <<>>, slot, e[0]) <=> e[0]
      BY <3>2, GivenNone
    <3>4. Given(First, queue, slot, d[0]) => ~Over(slot)
      BY <2>1 DEF Chain
    <3>. QED  BY ONLY <2>3, <3>3, <3>4
  <2>7. Over(slot)' <=> Over(slot)
    BY <1>1, Zenon DEF Over, Light, Has
  <2>8. \A i \in 1 .. ChainLen : Linked(KindOf(i), conf, OpenAt(i), slot, e[i - 1], e[i])'
    BY <1>1, <1>2, <2>4, Zenon DEF OpenAt
  <2>. QED  BY <1>1, <1>2, <2>3, <2>5, <2>6, <2>7, <2>8, Zenon DEF Chain
<1>5. ASSUME NEW slot \in Slots \ Fingers
      PROVE  ~seen'[slot]
  <2> DEFINE out == done[ChainLen].out
  <2>1. seen'[slot] = Shows(out, slot, seen[slot])
    BY <1>1
  <2>2. seen[slot] = FALSE
    BY DEF Unstuck, TypeOK
  <2>3. out \in Seq(Samples(Fingers))
    <3>1. ChainLen \in 0 .. ChainLen
      BY <1>3
    <3>. QED  BY <3>1 DEF Chained
  <2>4. ~Shows(out, slot, FALSE)
    BY <2>3, ShowsNone
  <2>. HIDE DEF out
  <2>. QED  BY ONLY <2>1, <2>2, <2>4, Zenon
<1>. QED  BY <1>2, <1>4, <1>5, Zenon DEF Unstuck

\* The last few of a sequence end as it ends.
LEMMA LastFewEnds ==
  ASSUME NEW S, NEW s \in Seq(S), NEW x \in S, NEW n \in Nat \ {0},
         NEW t, t = LastFew(Append(s, x), n)
  PROVE  t # <<>> /\ Last(t) = x
<1> DEFINE a == Append(s, x)
           L == Len(a)
           k == IF L > n THEN L - n + 1 ELSE 1
<1>1. a \in Seq(S) /\ L = Len(s) + 1 /\ L \in Nat \ {0} /\ a[L] = x
  <2>1. Len(s) \in Nat
    OBVIOUS
  <2>. QED  BY <2>1
<1>. HIDE DEF a
<1>2. k \in 1 .. L
  <2>1. L \in Nat \ {0} /\ n \in Nat \ {0} /\ k = IF L > n THEN L - n + 1 ELSE 1
    BY <1>1
  <2>. HIDE DEF L, k
  <2>. QED  BY ONLY <2>1
<1>3. t = SubSeq(a, k, L)
  BY DEF LastFew, a
<1>. HIDE DEF k, L
<1>4. k <= L /\ k \in 1 .. L + 1 /\ L = Len(a) /\ L \in 0 .. Len(a)
  BY <1>1, <1>2 DEF L
<1>5. t \in Seq(S) /\ Len(t) = L - k + 1 /\ \A i \in 1 .. L - k + 1 : t[i] = a[k + i - 1]
  <2>1. a \in Seq(S) /\ k \in Int /\ L \in Int /\ k \in 1 .. Len(a) + 1 /\ L \in 0 .. Len(a)
    BY <1>1, <1>4
  <2>2. Len(t) = (IF k <= L THEN L - k + 1 ELSE 0)
    BY ONLY <1>3, <2>1, SubSeqProperties, SMTT(60)
  <2>3. t \in Seq(S) /\ \A i \in 1 .. L - k + 1 : t[i] = a[k + i - 1]
    BY ONLY <1>3, <2>1, SubSeqProperties, SMTT(60)
  <2>. QED  BY ONLY <1>4, <2>2, <2>3
<1>6. L - k + 1 \in 1 .. L - k + 1 /\ k + (L - k + 1) - 1 = L /\ L - k + 1 \in Nat \ {0}
  BY <1>1, <1>2
<1>7. t[Len(t)] = x /\ Len(t) # 0
  BY ONLY <1>1, <1>5, <1>6
<1>8. t # <<>>
  BY <1>7
<1>. QED  BY <1>7, <1>8 DEF Last

\* A sample that arrives leaves nothing stuck.
LEMMA ArriveUnstuck ==
  ASSUME TypeOK, Unstuck, Arrives
  PROVE  Unstuck'
<1>0. PICK s \in Fingers :
        \E gap \in conf.gaps, pos \in conf.pos[s], pressure \in conf.pressures :
          Arrive(gap, s, pos, pressure)
  BY DEF Arrives, Fingers
<1>1. PICK gap \in conf.gaps, pos \in conf.pos[s], p \in conf.pressures :
        Arrive(gap, s, pos, p)
  BY <1>0
<1> DEFINE before == IF queue = <<>> THEN 0 ELSE Last(queue).at
           sample == [at |-> before + gap, slot |-> s, pos |-> pos, pressure |-> p]
           one == [pos |-> pos, pressure |-> p]
           old == IF Over(s) THEN <<>> ELSE touch[s]
<1>2. /\ queue' = Append(queue, sample)
      /\ touch' = [touch EXCEPT ![s] = LastFew(Append(old, one), conf.memory)]
      /\ conf' = conf /\ mods' = mods /\ seen' = seen
  BY <1>1, Zenon DEF Arrive
<1>3. /\ gap \in Nat /\ pos \in Int /\ p \in Nat /\ conf.memory \in Nat \ {0} /\ s \in Slots
      /\ queue \in Seq(Samples(Fingers)) /\ touch \in [Slots -> Seq(Unset)]
      /\ seen \in [Slots -> BOOLEAN] /\ ChainLen \in Nat /\ Fingers \subseteq Slots
  BY ConfIs DEF TypeOK
<1>4. Fingers' = Fingers /\ ChainLen' = ChainLen /\ First' = First
      /\ (\A i : KindOf(i)' = KindOf(i) /\ OpenAt(i)' = OpenAt(i)) /\ Light' = Light
  BY <1>2, Zenon DEF Fingers, ChainLen, First, Has, KindOf, SinglyAt, OpenAt, Light
<1>5. sample \in Samples(Fingers)
  <2>1. before \in Int
    <3>1. CASE queue = <<>>
      BY <3>1
    <3>2. CASE queue # <<>>
      <4>1. Last(queue) \in Samples(Fingers)
        BY <1>3, <3>2, LastIs
      <4>. QED  BY <3>2, <4>1, SampleFields
    <3>. QED  BY <3>1, <3>2
  <2>. HIDE DEF before
  <2>. QED  BY <1>3, <2>1 DEF Samples
<1>6. sample.slot = s /\ sample.pressure = p
  OBVIOUS
<1>. HIDE DEF sample
<1>7. queue' = queue \o <<sample>>
  BY <1>2, <1>3, <1>5, AppendIsConcat
<1>8. IsPress(First, p) => ~Over(s)'
  <2>1. touch'[s] # <<>> /\ Last(touch'[s]) = one
    <3>1. one \in Unset
      BY <1>3 DEF Unset
    <3>2. old \in Seq(Unset)
      BY <1>3
    <3>3. touch'[s] = LastFew(Append(old, one), conf.memory)
      BY <1>2, <1>3
    <3>. HIDE DEF one, old
    <3>. QED  BY <1>3, <3>1, <3>2, <3>3, LastFewEnds
  <2>2. one.pressure = p
    OBVIOUS
  <2>3. IsPress(First, p) => p >= Light
    BY <1>3 DEF IsPress, First, Light
  <2>4. Over(s)' <=> ~(touch'[s] # <<>> /\ Last(touch'[s]).pressure >= Light)
    BY <1>4 DEF Over
  <2>. HIDE DEF one
  <2>. QED  BY ONLY <2>1, <2>2, <2>3, <2>4
<1>9. ASSUME NEW slot \in Fingers
      PROVE  \E e : Chain(e, slot)'
  <2>1. PICK d : Chain(d, slot)
    BY DEF Unstuck
  <2>2. /\ d \in [0 .. ChainLen -> BOOLEAN] /\ d[ChainLen] = seen[slot]
        /\ \A i \in 1 .. ChainLen : Linked(KindOf(i), conf, OpenAt(i), slot, d[i - 1], d[i])
        /\ Given(First, queue, slot, d[0]) => ~Over(slot)
    BY <2>1 DEF Chain
  <2>3. d[0] \in BOOLEAN
    <3>1. 0 \in 0 .. ChainLen
      BY <1>3
    <3>. QED  BY <2>2, <3>1
  <2>4. Given(First, queue \o <<sample>>, slot, d[0]) =
          IF s = slot THEN IsPress(First, p) ELSE Given(First, queue, slot, d[0])
    <3>1. Given(First, queue \o <<sample>>, slot, d[0]) =
            IF sample.slot = slot THEN IsPress(First, sample.pressure)
            ELSE Given(First, queue, slot, d[0])
      BY <1>3, <1>5, <2>3, GivenMore
    <3>. QED  BY ONLY <1>6, <3>1
  <2>5. Given(First, queue', slot, d[0]) => ~Over(slot)'
    <3>1. CASE s = slot
      BY <1>7, <1>8, <2>4, <3>1
    <3>2. CASE s # slot
      <4>1. touch'[slot] = touch[slot]
        BY <1>2, <1>3, <3>2
      <4>2. Over(slot)' <=> Over(slot)
        BY <1>4, <4>1, Zenon DEF Over
      <4>. QED  BY <1>7, <2>2, <2>4, <3>2, <4>2
    <3>. QED  BY <3>1, <3>2
  <2>. QED  BY <1>2, <1>4, <2>2, <2>5, Zenon DEF Chain
<1>. QED  BY <1>2, <1>4, <1>9, Zenon DEF Unstuck

\* A filter that starts knows of no press.
LEMMA StartLinks ==
  ASSUME NEW c, Counts(c), NEW f \in Filters, NEW mt, NEW singly, NEW k, k = KindAt(f, mt, singly),
         c.mt = mt, mt \in BOOLEAN, k = "median" => ~mt, NEW junk \in Junk, NEW slot \in Slots,
         NEW m, m = Opened(k, Start(f, c, junk)), NEW no, no = FALSE
  PROVE  Linked(k, c, m, slot, no, no)
<1>1. CASE k = "pthres"
  <2>1. m = PthresStart
    BY <1>1 DEF KindAt, Start, Opened
  <2>2. ~m[slot].press
    BY <2>1 DEF PthresStart
  <2>. QED  BY <1>1, <2>2, LinkedIs
<1>2. CASE k = "skip"
  <2>1. m = SkipStart(c.nhead, c.ntail, [pos |-> junk, pressure |-> junk])
    BY <1>2 DEF KindAt, Start, Opened
  <2>2. m.sent = FALSE
    BY <2>1 DEF SkipStart
  <2>. QED  BY <1>2, <2>2, LinkedIs
<1>3. CASE k = "median"
  <2> DEFINE x == [pos |-> junk, p |-> junk]
             y == IF c.mt THEN None ELSE x
             d == [i \in 0 .. Depth - 1 |-> y]
             one == [with |-> FALSE, delay |-> d]
  <2>1. m = MedianStart(c.mt, x)
    BY <1>3 DEF KindAt, Start, Opened
  <2>2. m = [other \in Slots |-> one]
    BY <2>1, Zenon DEF MedianStart
  <2>5. y.pos \in Junk
    BY <1>3
  <2>. HIDE DEF y
  <2>6. \A i \in Depths : d[i].pos \in Junk
    BY <2>5 DEF Depths
  <2>. HIDE DEF d
  <2>7. m[slot].delay = d
    BY <2>2
  <2>3. \A i \in Depths : m[slot].delay[i].pos \in Junk
    BY ONLY <2>6, <2>7
  <2>4. Settled(m[slot])
    BY <2>3 DEF Settled
  <2>. QED  BY <1>3, <2>4, LinkedIs
<1>4. CASE k \notin {"pthres", "skip", "median"}
  BY <1>4, LinkedIs
<1>. QED  BY <1>1, <1>2, <1>3, <1>4

\* At the start nothing is stuck.
LEMMA InitUnstuck ==
  ASSUME Init, Releasing
  PROVE  Unstuck
<1> DEFINE no == FALSE
           d == [i \in 0 .. ChainLen |-> no]
<1>1. conf \in Confs /\ queue = <<>> /\ seen = [slot \in Slots |-> no]
  BY DEF Init
<1>2. Counts(conf) /\ Fingers \subseteq Slots /\ ChainLen \in Nat /\ conf.mt \in BOOLEAN
      /\ DOMAIN conf.chain = 1 .. ChainLen /\ \A i \in 1 .. ChainLen : conf.chain[i] \in Filters
  BY <1>1, ConfIs
<1>3. PICK junk \in Junk :
        mods = [f \in {conf.chain[i] : i \in DOMAIN conf.chain} |-> Start(f, conf, junk)]
  BY DEF Init
<1>4. d \in [0 .. ChainLen -> BOOLEAN] /\ d[0] = no /\ d[ChainLen] = no
  <2>1. 0 \in 0 .. ChainLen /\ ChainLen \in 0 .. ChainLen /\ no \in BOOLEAN
    BY <1>2
  <2>. HIDE DEF no
  <2>. QED  BY <2>1
<1>5. ASSUME NEW i \in 1 .. ChainLen, NEW slot \in Slots
      PROVE  Linked(KindOf(i), conf, OpenAt(i), slot, d[i - 1], d[i])
  <2> DEFINE f == conf.chain[i]
             mt == conf.mt
             s == SinglyAt(i)
             k == KindOf(i)
             m == OpenAt(i)
  <2>1. d[i - 1] = no /\ d[i] = no
    <3>1. i - 1 \in 0 .. ChainLen /\ i \in 0 .. ChainLen
      BY <1>2
    <3>. HIDE DEF no
    <3>. QED  BY <3>1
  <2>2. f \in Filters /\ k = KindAt(f, mt, s)
    BY <1>2 DEF KindOf
  <2>3. m = Opened(k, Start(f, conf, junk))
    <3>1. mods[f] = Start(f, conf, junk)
      BY <1>2, <1>3
    <3>. QED  BY <3>1 DEF OpenAt
  <2>4. k = "median" => ~mt
    <3>1. k = "median" => f = "median"
      BY DEF KindOf, KindAt
    <3>2. f = "median" => Has("median")
      BY <1>2 DEF Has
    <3>. QED  BY <3>1, <3>2 DEF Releasing
  <2>5. no = FALSE /\ conf.mt = mt
    OBVIOUS
  <2>. HIDE DEF f, mt, s, k, m, no, d
  <2>6. Linked(k, conf, m, slot, no, no)
    BY <1>2, <2>2, <2>3, <2>4, <2>5, StartLinks
  <2>. QED  BY ONLY <2>1, <2>6 DEF k, m
<1>6. ASSUME NEW slot \in Slots
      PROVE  Chain(d, slot)
  <2>1. ~Given(First, queue, slot, d[0])
    <3>1. Given(First, <<>>, slot, FALSE) <=> FALSE
      BY GivenNone
    <3>. QED  BY <1>1, <1>4, <3>1
  <2>2. d[ChainLen] = seen[slot]
    BY <1>1, <1>4
  <2>. HIDE DEF d
  <2>. QED  BY <1>4, <1>5, <2>1, <2>2 DEF Chain
<1>7. \A slot \in Slots \ Fingers : ~seen[slot]
  BY <1>1
<1>. HIDE DEF d
<1>. QED  BY <1>2, <1>6, <1>7, Zenon DEF Unstuck

\* Every step leaves nothing stuck.
LEMMA NextUnstuck ==
  ASSUME TypeOK, [Next]_vars, Releasing => Unstuck
  PROVE  Releasing' => Unstuck'
<1>0. conf' = conf
  BY DEF Next, Read, Arrive, vars
<1>1. Releasing' <=> Releasing
  BY <1>0, Zenon DEF Releasing, Has
<1>. SUFFICES ASSUME Releasing, Unstuck
              PROVE  Unstuck'
  BY <1>1
<1>2. CASE Read
  BY <1>2, ReadIs, ReadUnstuck
<1>3. CASE Arrives
  BY <1>3, ArriveUnstuck
<1>4. CASE UNCHANGED vars
  <2>1. conf' = conf /\ mods' = mods /\ queue' = queue /\ seen' = seen /\ touch' = touch
    BY <1>4 DEF vars
  <2>2. Fingers' = Fingers /\ ChainLen' = ChainLen /\ First' = First
        /\ (\A i : KindOf(i)' = KindOf(i) /\ OpenAt(i)' = OpenAt(i))
        /\ (\A slot : Over(slot)' <=> Over(slot))
    BY <2>1, Zenon DEF Fingers, ChainLen, First, Has, KindOf, SinglyAt, OpenAt, Over, Light
  <2>3. \A slot \in Fingers : \E d : Chain(d, slot)'
    <3> TAKE slot \in Fingers
    <3>1. PICK d : Chain(d, slot)
      BY DEF Unstuck
    <3>2. Chain(d, slot)'
      BY <2>1, <2>2, <3>1, Zenon DEF Chain
    <3>. QED  BY <3>2
  <2>. QED  BY <2>1, <2>2, <2>3, Zenon DEF Unstuck
<1>. QED  BY <1>2, <1>3, <1>4 DEF Next, Arrives

(* Behind every chain that is Releasing, whatever else it is made of, skip,*)
(* median, variance and dejitter included: when the device has reported    *)
(* that a finger is up and what it reported has been read, the last the    *)
(* program got of it is no press.                                          *)
THEOREM PenIsNeverStuck == Spec => [](Releasing => PenIsNotStuck)
<1> DEFINE I == Releasing => Unstuck
<1>1. Init => TypeOK /\ Held /\ I
  BY InitTyped, InitUnstuck
<1>2. TypeOK /\ Held /\ I /\ [Next]_vars => TypeOK' /\ Held' /\ I'
  BY NextTyped, NextUnstuck
<1>3. TypeOK /\ I => (Releasing => PenIsNotStuck)
  BY ReleasedIsOver
<1>. QED  BY <1>1, <1>2, <1>3, PTL DEF Spec

-----------------------------------------------------------------------------
(* A touch behind skip                                                     *)

Same(x, y) == x.pos = y.pos /\ x.pressure = y.pressure

\* a sample as touch and given remember it, and those passed on
Bare(s) == [pos |-> s.pos, pressure |-> s.pressure]
Bares(out) == [i \in DOMAIN out |-> Bare(out[i])]

\* the ring b holds the last ntail samples of u, the oldest of them at k
Ring(c, k, b, u) ==
  \A i \in 0 .. c.ntail - 1 :
    Same(b[i], u[IF i >= k THEN Len(u) - c.ntail + 1 + (i - k) ELSE Len(u) - k + 1 + i])

\* g is u without the first nhead and the last ntail
Middle(c, u, g) ==
  /\ Len(g) = IF Len(u) > c.nhead + c.ntail THEN Len(u) - c.nhead - c.ntail ELSE 0
  /\ \A i \in 1 .. Len(g) : g[i] = u[c.nhead + i]

\* where skip is in a touch of which the presses u have come and g was given
Going(c, m, u, g) ==
  /\ \A i \in 1 .. Len(u) : u[i].pressure > 0
  /\ m.N = IF Len(u) < c.nhead THEN Len(u) ELSE c.nhead
  /\ m.sent <=> Len(u) > c.nhead + c.ntail
  /\ ~m.sent => /\ m.M = IF Len(u) < c.nhead THEN 0 ELSE Len(u) - c.nhead
                /\ \A i \in 0 .. m.M - 1 : Same(m.buf[i], u[c.nhead + 1 + i])
  /\ m.sent /\ c.ntail # 0 => Ring(c, IF m.M >= c.ntail THEN 0 ELSE m.M, m.buf, u)
  /\ Middle(c, u, g)

\* what was given of the touch v, its release included
Left(c, v, g) ==
  IF Len(v) <= c.nhead + c.ntail + 1 THEN g = <<>>
  ELSE /\ Len(g) = Len(v) - c.nhead - c.ntail
       /\ \A i \in 1 .. Len(g) - 1 : g[i] = v[c.nhead + i]
       /\ g[Len(g)] = [pos |-> v[c.nhead + Len(g)].pos, pressure |-> 0]

\* The full ring is read from its oldest place, for the first time and later.
LEMMA RingIs ==
  ASSUME NEW c, Counts(c), c.ntail # 0, NEW m, m.sent \in BOOLEAN, NEW u \in Seq(Unset), NEW g,
         Going(c, m, u, g), m.M \in 0 .. c.ntail, m.sent \/ m.M >= c.ntail,
         NEW k, k = IF m.M >= c.ntail THEN 0 ELSE m.M
  PROVE  Ring(c, k, m.buf, u) /\ k \in 0 .. c.ntail - 1 /\ Len(u) >= c.nhead + c.ntail
<1> DEFINE n == Len(u)
           H == c.nhead
           T == c.ntail
<1>1. n \in Nat /\ H \in Nat /\ T \in Nat \ {0}
  BY DEF Counts
<1>2. k \in 0 .. T - 1
  BY <1>1
<1>3. CASE m.sent
  BY <1>1, <1>2, <1>3 DEF Going
<1>4. CASE ~m.sent
  <2>1. m.M = T /\ k = 0
    BY <1>1, <1>4
  <2>2. m.M = IF n < H THEN 0 ELSE n - H
    BY <1>4 DEF Going
  <2>3. n = H + T
    BY ONLY <1>1, <2>1, <2>2
  <2>4. \A i \in 0 .. T - 1 : Same(m.buf[i], u[H + 1 + i])
    BY <1>4, <2>1 DEF Going
  <2>5. \A i \in 0 .. T - 1 : i >= 0 /\ n - T + 1 + (i - 0) = H + 1 + i
    BY ONLY <1>1, <2>3
  <2>6. Ring(c, k, m.buf, u)
    BY ONLY <2>1, <2>4, <2>5 DEF Ring
  <2>. QED  BY ONLY <1>1, <1>2, <2>3, <2>6
<1>. QED  BY <1>3, <1>4

\* One more sample comes behind u.
LEMMA Longer ==
  ASSUME NEW u \in Seq(Unset), NEW x \in Unset, NEW v, v = Append(u, x)
  PROVE  /\ v \in Seq(Unset) /\ Len(v) = Len(u) + 1 /\ v[Len(u) + 1] = x
         /\ \A i \in 1 .. Len(u) : v[i] = u[i]
BY AppendProperties

\* Nothing is given.
LEMMA NothingGiven ==
  ASSUME NEW g \in Seq(Unset)
  PROVE  g \o Bares(<<>>) = g
<1>1. Bares(<<>>) = <<>>
  BY DEF Bares
<1>. QED  BY <1>1

\* One sample is given.
LEMMA OneGiven ==
  ASSUME NEW g \in Seq(Unset), NEW F, NEW z \in Samples(F), NEW r, r = g \o Bares(<<z>>)
  PROVE  /\ r \in Seq(Unset) /\ Len(r) = Len(g) + 1 /\ r[Len(g) + 1] = Bare(z)
         /\ \A i \in 1 .. Len(g) : r[i] = g[i]
<1> DEFINE x == Bare(z)
<1>1. x \in Unset
  BY DEF Bare, Samples, Unset
<1>2. Bares(<<z>>) = <<x>>
  BY DEF Bares
<1>. HIDE DEF x
<1>3. r = g \o <<x>>
  BY <1>2
<1>4. /\ g \o <<x>> \in Seq(Unset) /\ Len(g \o <<x>>) = Len(g) + 1
      /\ (g \o <<x>>)[Len(g) + 1] = x
      /\ \A i \in 1 .. Len(g) : (g \o <<x>>)[i] = g[i]
  BY <1>1, MoreAtEnd
<1>. QED  BY ONLY <1>3, <1>4 DEF x

\* The fields of a state of skip.
LEMMA SkHas ==
  \A c, n, k, y, b : LET m == Sk(c, n, k, y, b)
                     IN m.N = n /\ m.M = k /\ m.sent = y /\ m.buf = b
BY DEF Sk

\* A press goes in at the end and the ring gives its oldest one.
LEMMA RingTurns ==
  ASSUME NEW c, Counts(c), c.ntail # 0, NEW Q, NEW b \in [0 .. c.ntail - 1 -> Q],
         NEW u \in Seq(Unset), NEW x \in Unset, NEW v, v = Append(u, x), NEW s, Same(s, x),
         NEW k \in 0 .. c.ntail - 1, Len(u) >= c.nhead + c.ntail, Ring(c, k, b, u)
  PROVE  Ring(c, IF k + 1 >= c.ntail THEN 0 ELSE k + 1, [b EXCEPT ![k] = s], v)
<1> DEFINE n == Len(u)
           T == c.ntail
           e == IF k + 1 >= T THEN 0 ELSE k + 1
           b1 == [b EXCEPT ![k] = s]
           j(i) == IF i >= k THEN n - T + 1 + (i - k) ELSE n - k + 1 + i
           w == Len(v)
           l(i) == IF i >= e THEN w - T + 1 + (i - e) ELSE w - e + 1 + i
<1>1. n \in Nat /\ T \in Nat \ {0} /\ c.nhead \in Nat /\ n >= T
  BY DEF Counts
<1>2. Len(v) = n + 1 /\ v[n + 1] = x /\ \A i \in 1 .. n : v[i] = u[i]
  BY Longer
<1>3. \A i \in 0 .. T - 1 : Same(b[i], u[j(i)])
  BY DEF Ring
<1>4. ASSUME NEW i \in 0 .. T - 1
      PROVE  /\ i = k => l(i) = n + 1
             /\ i # k => l(i) = j(i) /\ j(i) \in 1 .. n
  <2>1. w = n + 1
    BY <1>2
  <2>2. k \in 0 .. T - 1 /\ i \in 0 .. T - 1
    OBVIOUS
  <2>. HIDE DEF n, T, w
  <2>3. CASE k + 1 >= T
    BY ONLY <1>1, <2>1, <2>2, <2>3
  <2>4. CASE ~(k + 1 >= T)
    BY ONLY <1>1, <2>1, <2>2, <2>4
  <2>. QED  BY ONLY <2>3, <2>4
<1>5. ASSUME NEW i \in 0 .. T - 1
      PROVE  Same(b1[i], v[l(i)])
  <2>1. CASE i = k
    <3>1. l(i) = n + 1
      BY <1>4, <2>1
    <3>2. b1[i] = s
      BY <2>1
    <3>. HIDE DEF l, b1
    <3>. QED  BY <1>2, <3>1, <3>2
  <2>2. CASE i # k
    <3>1. l(i) = j(i) /\ j(i) \in 1 .. n
      BY <1>4, <2>2
    <3>2. b1[i] = b[i]
      BY <2>2
    <3>. HIDE DEF l, j, b1
    <3>3. v[l(i)] = u[j(i)]
      BY ONLY <1>2, <3>1
    <3>4. Same(b[i], u[j(i)])
      BY <1>3
    <3>. QED  BY ONLY <3>2, <3>3, <3>4
  <2>. QED  BY <2>1, <2>2
<1>. QED  BY <1>5 DEF Ring

\* With a press skip goes on in the touch.
LEMMA SkipPresses ==
  ASSUME NEW c, Counts(c), NEW F, NEW m \in SkipStates(c, F), NEW s \in Samples(F),
         s.pressure > 0, NEW t, t = SkipTake(m, s),
         NEW u \in Seq(Unset), NEW g \in Seq(Unset), Going(c, m, u, g),
         NEW v, v = Append(u, Bare(s)), NEW r, r = g \o Bares(t.out)
  PROVE  Going(c, t.mod, v, r)
<1> DEFINE n == Len(u)
           H == c.nhead
           T == c.ntail
           N == m.N
           k == m.M
           y == m.sent
           b == m.buf
           x == Bare(s)
<1>1. n \in Nat /\ H \in Nat /\ T \in Nat
  BY DEF Counts
<1>2. x \in Unset /\ Same(s, x) /\ x.pressure > 0
  BY DEF Bare, Samples, Unset, Same
<1>3. v \in Seq(Unset) /\ Len(v) = n + 1 /\ v[n + 1] = x /\ \A i \in 1 .. n : v[i] = u[i]
  BY <1>2, Longer
<1>4. N \in 0 .. H /\ k \in 0 .. T /\ y \in BOOLEAN /\ b \in Cells(c, F) /\ Filled(c, F, k, y, b)
  BY <1>1, SkFields
<1>5. /\ \A i \in 1 .. n : u[i].pressure > 0
      /\ N = IF n < H THEN n ELSE H
      /\ y <=> n > H + T
      /\ ~y => k = (IF n < H THEN 0 ELSE n - H)
      /\ ~y => \A i \in 0 .. k - 1 : Same(b[i], u[H + 1 + i])
      /\ Len(g) = IF n > H + T THEN n - H - T ELSE 0
      /\ \A i \in 1 .. Len(g) : g[i] = u[H + i]
  BY DEF Going, Middle
<1>6. \A i \in 1 .. n + 1 : v[i].pressure > 0
  <2>1. \A i \in 1 .. n + 1 : i = n + 1 \/ i \in 1 .. n
    BY <1>1
  <2>. QED  BY <1>2, <1>3, <1>5, <2>1
<1>7. ASSUME NEW n1, NEW k1, NEW y1, NEW b1, t.mod = Sk(c, n1, k1, y1, b1),
             n1 = IF n + 1 < H THEN n + 1 ELSE H,
             y1 <=> n + 1 > H + T,
             ~y1 => k1 = IF n + 1 < H THEN 0 ELSE n + 1 - H,
             ~y1 => \A i \in 0 .. k1 - 1 : Same(b1[i], v[H + 1 + i]),
             y1 /\ T # 0 => Ring(c, IF k1 >= T THEN 0 ELSE k1, b1, v),
             Middle(c, v, r)
      PROVE  Going(c, t.mod, v, r)
  <2> DEFINE q == t.mod
             w == Len(v)
  <2>1. q.N = n1 /\ q.M = k1 /\ q.sent = y1 /\ q.buf = b1
    BY <1>7, SkHas
  <2>2. w = n + 1
    BY <1>3
  <2>. HIDE DEF q, w, n
  <2>3. \A i \in 1 .. w : v[i].pressure > 0
    BY ONLY <1>6, <2>2
  <2>4. q.N = IF w < H THEN w ELSE H
    BY ONLY <1>7, <2>1, <2>2
  <2>5. q.sent <=> w > H + T
    BY ONLY <1>7, <2>1, <2>2
  <2>6. ~q.sent => q.M = IF w < H THEN 0 ELSE w - H
    BY ONLY <1>1, <1>7, <2>1, <2>2
  <2>7. ~q.sent => \A i \in 0 .. q.M - 1 : Same(q.buf[i], v[H + 1 + i])
    BY ONLY <1>7, <2>1
  <2>8. q.sent /\ T # 0 => Ring(c, IF q.M >= T THEN 0 ELSE q.M, q.buf, v)
    BY ONLY <1>7, <2>1
  <2>9. Going(c, q, v, r)
    BY ONLY <1>7, <2>3, <2>4, <2>5, <2>6, <2>7, <2>8, Zenon DEF Going, w
  <2>. QED  BY ONLY <2>9 DEF q
<1>8. t.out = <<>> => r = g
  BY NothingGiven
<1>9. ASSUME NEW z \in Samples(F), t.out = <<z>>
      PROVE  r \in Seq(Unset) /\ Len(r) = Len(g) + 1 /\ r[Len(g) + 1] = Bare(z)
             /\ \A i \in 1 .. Len(g) : r[i] = g[i]
  <2>1. r = g \o Bares(<<z>>) /\ z \in Samples(F) /\ g \in Seq(Unset)
    BY <1>9, Zenon
  <2>. QED  BY ONLY <2>1, OneGiven, ZenonT(60)
\* nothing is given as the tail is not there yet
<1>10. ASSUME t.out = <<>>, n + 1 <= H + T
       PROVE  Middle(c, v, r)
  BY <1>1, <1>3, <1>5, <1>8, <1>10 DEF Middle
\* what is given is the sample before the last ntail
<1>11. ASSUME NEW z \in Samples(F), t.out = <<z>>, n + 1 > H + T, Bare(z) = v[n + 1 - T]
       PROVE  Middle(c, v, r)
  <2>1. Len(g) = n - H - T
    BY ONLY <1>1, <1>5, <1>11
  <2>2. Len(r) = n + 1 - H - T /\ r[n + 1 - H - T] = v[n + 1 - T]
    <3>1. Len(g) + 1 = n + 1 - H - T
      BY ONLY <1>1, <2>1
    <3>. QED  BY <1>9, <1>11, <3>1
  <2>3. \A i \in 1 .. Len(r) : r[i] = v[H + i]
    <3> TAKE i \in 1 .. Len(r)
    <3>1. CASE i = n + 1 - H - T
      <4>1. H + i = n + 1 - T
        BY ONLY <1>1, <3>1
      <4>. QED  BY ONLY <2>2, <3>1, <4>1
    <3>2. CASE i # n + 1 - H - T
      <4>1. i \in 1 .. Len(g) /\ H + i \in 1 .. n
        <5> DEFINE lg == Len(g)
                   lr == Len(r)
        <5>1. lg = n - H - T /\ lr = n + 1 - H - T /\ i \in 1 .. lr
          BY ONLY <2>1, <2>2, i \in 1 .. Len(r)
        <5>2. n \in Nat /\ H \in Nat /\ T \in Nat
          BY ONLY <1>1
        <5>. HIDE DEF n, H, T, lg, lr
        <5>3. i \in 1 .. lg /\ H + i \in 1 .. n
          BY ONLY <3>2, <5>1, <5>2
        <5>. QED  BY ONLY <5>3 DEF lg
      <4>2. r[i] = g[i] /\ g[i] = u[H + i] /\ v[H + i] = u[H + i]
        BY <1>3, <1>5, <1>9, <1>11, <4>1
      <4>. QED  BY <4>2
    <3>. QED  BY <3>1, <3>2
  <2>4. n + 1 - H - T = Len(v) - H - T /\ Len(v) > H + T
    <3> DEFINE lv == Len(v)
    <3>1. lv = n + 1 /\ n + 1 > H + T
      BY <1>3, <1>11
    <3>2. n \in Nat /\ H \in Nat /\ T \in Nat
      BY <1>1
    <3>. HIDE DEF n, H, T, lv
    <3>3. n + 1 - H - T = lv - H - T /\ lv > H + T
      BY ONLY <3>1, <3>2
    <3>. QED  BY ONLY <3>3 DEF lv
  <2>. QED  BY ONLY <2>2, <2>3, <2>4 DEF Middle
<1>12. SkipWays(c, N, k, y, b, s, t)
  BY <1>1, SkipGoes
<1>13. s.pressure # 0
  BY SampleFields
<1>14. CASE N < H /\ t = [mod |-> Sk(c, N + 1, k, y, b), out |-> <<>>]
  <2>1. n < H /\ N = n /\ n + 1 <= H + T /\ y = FALSE /\ k = 0
        /\ ~(n + 1 > H + T)
    BY ONLY <1>1, <1>4, <1>5, <1>14
  <2>2. N + 1 = (IF n + 1 < H THEN n + 1 ELSE H) /\ k = IF n + 1 < H THEN 0 ELSE n + 1 - H
    BY ONLY <1>1, <2>1
  <2>3. Middle(c, v, r)
    BY <1>10, <1>14, <2>1
  <2>4. t.mod = Sk(c, N + 1, k, y, b)
    BY <1>14
  <2>5. \A i \in 0 .. k - 1 : Same(b[i], v[H + 1 + i])
    BY <2>1
  <2>. HIDE DEF N, k, y, b
  <2>. QED  BY ONLY <1>7, <2>1, <2>2, <2>3, <2>4, <2>5
<1>15. CASE N >= H /\ T = 0 /\ t = [mod |-> Sk(c, N, k, TRUE, b), out |-> <<s>>]
  <2> DEFINE yes == TRUE
  <2>1. n >= H /\ N = H /\ n + 1 > H + T /\ N = (IF n + 1 < H THEN n + 1 ELSE H)
        /\ n + 1 - T = n + 1
    BY ONLY <1>1, <1>4, <1>5, <1>15
  <2>2. Middle(c, v, r)
    <3>1. t.out = <<s>>
      BY <1>15
    <3>2. Bare(s) = v[n + 1 - T]
      BY ONLY <1>3, <2>1
    <3>3. n + 1 > H + T /\ s \in Samples(F)
      BY <2>1
    <3>. QED  BY ONLY <1>11, <3>1, <3>2, <3>3
  <2>3. t.mod = Sk(c, N, k, yes, b) /\ yes = TRUE
    BY <1>15
  <2>. HIDE DEF N, k, y, b, yes
  <2>. QED  BY ONLY <1>7, <1>15, <2>1, <2>2, <2>3
<1>16. CASE /\ N >= H /\ ~y /\ k < T
            /\ t = [mod |-> Sk(c, N, k + 1, y, [b EXCEPT ![k] = s]), out |-> <<>>]
  <2> DEFINE b1 == [b EXCEPT ![k] = s]
             k1 == k + 1
  <2>1. n >= H /\ N = H /\ k = n - H /\ n + 1 <= H + T /\ ~(n + 1 > H + T)
        /\ N = (IF n + 1 < H THEN n + 1 ELSE H) /\ k1 = (IF n + 1 < H THEN 0 ELSE n + 1 - H)
    BY ONLY <1>1, <1>4, <1>5, <1>16
  <2>2. Middle(c, v, r)
    BY <1>10, <1>16, <2>1
  <2>3. t.mod = Sk(c, N, k1, y, b1)
    BY <1>16
  <2>4. ASSUME NEW i \in 0 .. k1 - 1
        PROVE  Same(b1[i], v[H + 1 + i])
    <3>1. CASE i = k
      <4>1. H + 1 + i = n + 1 /\ k \in 0 .. T - 1
        BY ONLY <1>1, <1>4, <1>16, <2>1, <3>1
      <4>2. b1[i] = s
        BY <1>4, <3>1, <4>1 DEF Cells
      <4>. HIDE DEF b1
      <4>. QED  BY ONLY <1>2, <1>3, <4>1, <4>2
    <3>2. CASE i # k
      <4>1. i \in 0 .. k - 1 /\ H + 1 + i \in 1 .. n
        <5>1. /\ n \in Nat /\ H \in Nat /\ k \in Int /\ k1 = k + 1
              /\ H + k <= n /\ i \in 0 .. k1 - 1
          BY <1>1, <1>4, <2>1
        <5>. HIDE DEF n, H, k, k1
        <5>. QED  BY ONLY <3>2, <5>1
      <4>2. b1[i] = b[i]
        BY <3>2
      <4>. HIDE DEF b1
      <4>3. Same(b[i], u[H + 1 + i]) /\ v[H + 1 + i] = u[H + 1 + i]
        BY <1>3, <1>5, <1>16, <4>1
      <4>. QED  BY ONLY <4>2, <4>3
    <3>. QED  BY <3>1, <3>2
  <2>5. (y <=> n + 1 > H + T) /\ ~y
    BY <1>16, <2>1
  <2>. HIDE DEF N, k, y, b, b1, k1
  <2>. QED  BY ONLY <1>7, <2>1, <2>2, <2>3, <2>4, <2>5
<1>17. ASSUME NEW i, i = IF k >= T THEN 0 ELSE k, N >= H, T # 0, y \/ k >= T,
              t = [mod |-> Sk(c, N, i + 1, TRUE, [b EXCEPT ![i] = s]), out |-> <<b[i]>>]
       PROVE  Going(c, t.mod, v, r)
  <2> DEFINE b1 == [b EXCEPT ![i] = s]
             yes == TRUE
             k1 == i + 1
  <2>1. Ring(c, i, b, u) /\ i \in 0 .. T - 1 /\ n >= H + T
    BY <1>4, <1>17, RingIs
  <2>2. b[i] \in Samples(F)
    BY <1>1, <1>4, <1>17, OldestHolds
  <2>3. n + 1 > H + T /\ n - T + 1 \in 1 .. n /\ n + 1 - T = n - T + 1 /\ N = H
        /\ N = (IF n + 1 < H THEN n + 1 ELSE H)
    <3>1. n \in Nat /\ H \in Nat /\ T \in Nat /\ N \in 0 .. H /\ N >= H /\ n >= H + T
          /\ T # 0
      BY <1>1, <1>4, <1>17, <2>1
    <3>. HIDE DEF n, H, T, N
    <3>. QED  BY ONLY <3>1
  <2>4. Bare(b[i]) = v[n + 1 - T]
    <3>1. Same(b[i], u[n - T + 1])
      <4>1. i >= i /\ n - T + 1 + (i - i) = n - T + 1
        BY ONLY <1>1, <2>1
      <4>. QED  BY ONLY <2>1, <4>1 DEF Ring
    <3>2. v[n + 1 - T] = u[n - T + 1] /\ u[n - T + 1] \in Unset
      BY <1>3, <2>3
    <3>. QED  BY ONLY <3>1, <3>2 DEF Same, Bare, Unset
  <2>5. t.mod = Sk(c, N, k1, yes, b1) /\ t.out = <<b[i]>> /\ yes = TRUE
    BY <1>17
  <2>6. Middle(c, v, r)
    <3> DEFINE z == b[i]
    <3>. HIDE DEF z
    <3>1. t.out = <<z>> /\ z \in Samples(F) /\ Bare(z) = v[n + 1 - T]
      BY <2>2, <2>4, <2>5 DEF z
    <3>. QED  BY ONLY <1>11, <2>3, <3>1
  <2>7. Ring(c, IF k1 >= T THEN 0 ELSE k1, b1, v)
    <3>1. b \in [0 .. T - 1 -> Samples(F) \cup Unset]
      BY <1>4 DEF Cells
    <3>. HIDE DEF b
    <3>. QED  BY <1>2, <1>17, <2>1, <3>1, RingTurns
  <2>. HIDE DEF N, k, y, b, yes, b1, k1
  <2>. QED  BY ONLY <1>7, <2>3, <2>5, <2>6, <2>7
<1>. HIDE DEF N, k, y, b
<1>. QED  BY ONLY <1>12, <1>13, <1>14, <1>15, <1>16, <1>17, Zenon DEF SkipWays

\* When skip is reset it is at the start of a touch.
LEMMA ResetGoes ==
  ASSUME NEW c, Counts(c), NEW b
  PROVE  Going(c, Sk(c, 0, 0, FALSE, b), <<>>, <<>>)
<1> DEFINE H == c.nhead
           T == c.ntail
           no == FALSE
           o == 0
           q == Sk(c, o, o, no, b)
           e == <<>>
           w == Len(e)
<1>1. H \in Nat /\ T \in Nat /\ o = 0 /\ w = 0 /\ ~no
  BY DEF Counts
<1>. HIDE DEF no, o
<1>2. q.N = o /\ q.M = o /\ q.sent = no /\ q.buf = b
  BY SkHas
<1>. HIDE DEF q, w, e
<1>3. \A i \in 1 .. w : e[i].pressure > 0
  BY ONLY <1>1
<1>4. q.N = IF w < H THEN w ELSE H
  BY ONLY <1>1, <1>2
<1>5. q.sent <=> w > H + T
  BY ONLY <1>1, <1>2
<1>6. ~q.sent => q.M = IF w < H THEN 0 ELSE w - H
  BY ONLY <1>1, <1>2
<1>7. ~q.sent => \A i \in 0 .. q.M - 1 : Same(q.buf[i], e[H + 1 + i])
  BY ONLY <1>1, <1>2
<1>8. q.sent /\ T # 0 => Ring(c, IF q.M >= T THEN 0 ELSE q.M, q.buf, e)
  BY ONLY <1>1, <1>2
<1>9. Middle(c, e, e)
  <2>1. w = IF w > H + T THEN w - H - T ELSE 0
    BY ONLY <1>1
  <2>2. \A i \in 1 .. w : e[i] = e[H + i]
    BY ONLY <1>1
  <2>. QED  BY ONLY <2>1, <2>2 DEF Middle, w
<1>10. Going(c, q, e, e)
  BY ONLY <1>3, <1>4, <1>5, <1>6, <1>7, <1>8, <1>9, Zenon DEF Going, w
<1>. QED  BY ONLY <1>10, Zenon DEF q, e, o, no

\* With a release skip ends the touch.
LEMMA SkipReleases ==
  ASSUME NEW c, Counts(c), NEW F, NEW m \in SkipStates(c, F), NEW s \in Samples(F),
         s.pressure = 0, NEW t, t = SkipTake(m, s),
         NEW u \in Seq(Unset), NEW g \in Seq(Unset), Going(c, m, u, g),
         NEW v, v = Append(u, Bare(s)), NEW r, r = g \o Bares(t.out)
  PROVE  Going(c, t.mod, <<>>, <<>>) /\ Left(c, v, r)
<1> DEFINE n == Len(u)
           H == c.nhead
           T == c.ntail
           N == m.N
           k == m.M
           y == m.sent
           b == m.buf
           x == Bare(s)
<1>1. n \in Nat /\ H \in Nat /\ T \in Nat
  BY DEF Counts
<1>2. x \in Unset /\ x.pressure = 0
  BY DEF Bare, Samples, Unset
<1>3. v \in Seq(Unset) /\ Len(v) = n + 1 /\ v[n + 1] = x /\ \A i \in 1 .. n : v[i] = u[i]
  BY <1>2, Longer
<1>4. N \in 0 .. H /\ k \in 0 .. T /\ y \in BOOLEAN /\ b \in Cells(c, F) /\ Filled(c, F, k, y, b)
  BY <1>1, SkFields
<1>5. /\ N = IF n < H THEN n ELSE H
      /\ y <=> n > H + T
      /\ Len(g) = IF n > H + T THEN n - H - T ELSE 0
      /\ \A i \in 1 .. Len(g) : g[i] = u[H + i]
  BY DEF Going, Middle
<1>6. ASSUME NEW b1, t.mod = Sk(c, 0, 0, FALSE, b1)
      PROVE  Going(c, t.mod, <<>>, <<>>)
  <2>1. Going(c, Sk(c, 0, 0, FALSE, b1), <<>>, <<>>)
    BY ResetGoes
  <2>. QED  BY ONLY <1>6, <2>1
\* nothing was given and nothing is
<1>7. ASSUME t.out = <<>>, ~y
      PROVE  Left(c, v, r)
  <2>1. r = g
    BY <1>7, NothingGiven
  <2>2. Len(g) = 0
    BY ONLY <1>1, <1>5, <1>7
  <2>3. g = <<>>
    BY <2>2
  <2>4. n + 1 <= H + T + 1
    BY ONLY <1>1, <1>5, <1>7
  <2>5. Len(v) <= H + T + 1
    BY ONLY <1>3, <2>4
  <2>. QED  BY <2>1, <2>3, <2>5 DEF Left
\* the sample before the last ntail becomes the release
<1>8. ASSUME NEW z \in Samples(F), t.out = <<z>>, y,
             Bare(z) = [pos |-> v[n + 1 - T].pos, pressure |-> 0]
      PROVE  Left(c, v, r)
  <2>1. r \in Seq(Unset) /\ Len(r) = Len(g) + 1 /\ r[Len(g) + 1] = Bare(z)
        /\ \A i \in 1 .. Len(g) : r[i] = g[i]
    <3>1. r = g \o Bares(<<z>>) /\ z \in Samples(F) /\ g \in Seq(Unset)
      BY <1>8
    <3>. QED  BY ONLY <3>1, OneGiven, ZenonT(60)
  <2>2. Len(g) = n - H - T /\ n > H + T
    BY ONLY <1>1, <1>5, <1>8
  <2>3. Len(v) = n + 1
    BY <1>3
  <2>4. ~(Len(v) <= H + T + 1) /\ Len(r) = Len(v) - H - T
    <3>1. Len(r) = Len(g) + 1
      BY <2>1
    <3>. QED  BY ONLY <1>1, <2>2, <2>3, <3>1
  <2>5. \A i \in 1 .. Len(r) - 1 : r[i] = v[H + i]
    <3> TAKE i \in 1 .. Len(r) - 1
    <3>1. Len(r) = Len(g) + 1
      BY <2>1
    <3>2. i \in 1 .. Len(g) /\ H + i \in 1 .. n
      <4> DEFINE lg == Len(g)
                 lr == Len(r)
      <4>1. /\ n \in Nat /\ H \in Nat /\ T \in Nat /\ lg = n - H - T /\ lr = lg + 1
            /\ i \in 1 .. lr - 1
        BY <1>1, <2>2, <3>1
      <4>. HIDE DEF n, H, T, lg, lr
      <4>2. i \in 1 .. lg /\ H + i \in 1 .. n
        BY ONLY <4>1
      <4>. QED  BY ONLY <4>2 DEF lg
    <3>3. r[i] = g[i] /\ g[i] = u[H + i] /\ v[H + i] = u[H + i]
      BY <1>3, <1>5, <2>1, <3>2
    <3>. QED  BY ONLY <3>3
  <2>6. r[Len(r)] = [pos |-> v[H + Len(r)].pos, pressure |-> 0]
    <3>1. Len(r) = Len(g) + 1 /\ r[Len(g) + 1] = Bare(z)
      BY <2>1
    <3>2. H + Len(r) = n + 1 - T
      BY ONLY <1>1, <2>2, <3>1
    <3>. QED  BY ONLY <1>8, <3>1, <3>2
  <2>. QED  BY ONLY <2>4, <2>5, <2>6 DEF Left
<1>9. SkipWays(c, N, k, y, b, s, t)
  BY <1>1, SkipGoes
<1>10. CASE N < H /\ t = [mod |-> Sk(c, 0, 0, FALSE, b), out |-> <<>>]
  <2>1. ~y
    BY ONLY <1>1, <1>4, <1>5, <1>10
  <2>2. t.mod = Sk(c, 0, 0, FALSE, b) /\ t.out = <<>>
    BY <1>10
  <2>. QED  BY ONLY <1>6, <1>7, <2>1, <2>2
<1>11. CASE ~y /\ t = [mod |-> Sk(c, 0, 0, FALSE, b), out |-> <<>>]
  <2>1. t.mod = Sk(c, 0, 0, FALSE, b) /\ t.out = <<>>
    BY <1>11
  <2>. QED  BY ONLY <1>6, <1>7, <1>11, <2>1
<1>12. CASE y /\ T = 0 /\ t = [mod |-> Sk(c, 0, 0, FALSE, b), out |-> <<s>>]
  <2>1. t.mod = Sk(c, 0, 0, FALSE, b) /\ t.out = <<s>>
    BY <1>12
  <2>2. n + 1 - T = n + 1
    BY ONLY <1>1, <1>12
  <2>3. x = [pos |-> x.pos, pressure |-> 0]
    BY <1>2 DEF Unset
  <2>4. Bare(s) = [pos |-> v[n + 1 - T].pos, pressure |-> 0]
    BY ONLY <1>3, <2>2, <2>3
  <2>5. s \in Samples(F)
    OBVIOUS
  <2>. QED  BY ONLY <1>6, <1>8, <1>12, <2>1, <2>4, <2>5
<1>13. ASSUME NEW i, i = IF k >= T THEN 0 ELSE k, NEW up, up = At(b[i], b[i].pos, 0), y, T # 0,
              t = [mod |-> Sk(c, 0, 0, FALSE, [b EXCEPT ![i] = up]), out |-> <<up>>]
       PROVE  Going(c, t.mod, <<>>, <<>>) /\ Left(c, v, r)
  <2>1. Ring(c, i, b, u) /\ i \in 0 .. T - 1
    <3>1. /\ Counts(c) /\ c.ntail # 0 /\ m.sent \in BOOLEAN /\ u \in Seq(Unset)
          /\ Going(c, m, u, g) /\ m.M \in 0 .. c.ntail /\ (m.sent \/ m.M >= c.ntail)
          /\ i = IF m.M >= c.ntail THEN 0 ELSE m.M
      BY <1>4, <1>13
    <3>. QED  BY ONLY <3>1, RingIs
  <2>2. b[i] \in Samples(F)
    <3>1. /\ T \in Nat \ {0} /\ k \in 0 .. T /\ y \in BOOLEAN /\ b \in Cells(c, F)
          /\ Filled(c, F, k, y, b) /\ (y \/ k >= T) /\ i = IF k >= T THEN 0 ELSE k
      BY ONLY <1>1, <1>4, <1>13
    <3>. HIDE DEF k, y, b
    <3>. QED  BY ONLY <3>1, OldestHolds
  <2>3. up \in Samples(F) /\ Bare(up) = [pos |-> b[i].pos, pressure |-> 0]
    <3> DEFINE z == b[i]
    <3>1. z \in Samples(F) /\ up = At(z, z.pos, 0)
      BY <1>13, <2>2
    <3>. HIDE DEF z
    <3>2. up \in Samples(F) /\ Bare(up) = [pos |-> z.pos, pressure |-> 0]
      BY ONLY <3>1 DEF Samples, At, Bare
    <3>. QED  BY <3>2 DEF z
  <2>4. n + 1 - T = n - T + 1 /\ n - T + 1 \in 1 .. n
    <3>1. n > H + T
      BY <1>5, <1>13
    <3>2. n \in Nat /\ H \in Nat /\ T \in Nat /\ T # 0
      BY <1>1, <1>13, Zenon
    <3>. HIDE DEF n, H, T
    <3>. QED  BY ONLY <3>1, <3>2
  <2>5. b[i].pos = v[n + 1 - T].pos
    <3>1. Same(b[i], u[n - T + 1])
      <4>1. i >= i /\ n - T + 1 + (i - i) = n - T + 1
        BY ONLY <1>1, <2>1
      <4>. QED  BY ONLY <2>1, <4>1 DEF Ring
    <3>2. v[n + 1 - T] = u[n - T + 1]
      BY <1>3, <2>4
    <3>. QED  BY ONLY <3>1, <3>2 DEF Same
  <2>6. Bare(up) = [pos |-> v[n + 1 - T].pos, pressure |-> 0]
    BY ONLY <2>3, <2>5
  <2>7. t.mod = Sk(c, 0, 0, FALSE, [b EXCEPT ![i] = up]) /\ t.out = <<up>>
    BY ONLY <1>13
  <2>8. Left(c, v, r)
    BY ONLY <1>8, <1>13, <2>3, <2>6, <2>7
  <2>. QED  BY ONLY <1>6, <2>7, <2>8
<1>. HIDE DEF N, k, y, b
<1>. QED  BY ONLY s.pressure = 0, <1>9, <1>10, <1>11, <1>12, <1>13, Zenon DEF SkipWays

\* the program asks skip, and it alone, for every sample as it comes
SkipAlone == conf.chain = <<"skip">> /\ conf.batch = 1

\* when the device has reported u, and skip has passed g on: the touch lasts, or is over
Between(c, m, u, g, over) ==
  IF over THEN Going(c, m, <<>>, <<>>) /\ Left(c, u, g)
  ELSE Going(c, m, u, g) /\ Len(u) < c.memory

\* when it has reported v, of which the last sample s has not been read
Waits(c, m, v, g, over, s) ==
  /\ \E u \in Seq(Unset) : v = Append(u, Bare(s)) /\ Going(c, m, u, g)
  /\ s.pressure >= 0 /\ (over <=> s.pressure = 0)
  /\ over \/ Len(v) < c.memory

\* Where skip is in every touch.
Middles ==
  SkipAlone =>
    /\ \A slot \in Slots \ Fingers : touch[slot] = <<>> /\ given[slot] = <<>>
    /\ queue = <<>> => \A slot \in Fingers :
         Between(conf, mods["skip"], touch[slot], given[slot], Over(slot))
    /\ queue # <<>> => /\ Len(queue) = 1
                       /\ \A slot \in Fingers :
                            Waits(conf, mods["skip"], touch[slot], given[slot], Over(slot), queue[1])

\* What skip has given of a touch that lasts is its middle.
LEMMA MiddleIs ==
  ASSUME NEW c, Counts(c), NEW u \in Seq(Unset), NEW g \in Seq(Unset), Middle(c, u, g)
  PROVE  g = SubSeq(u, c.nhead + 1, Len(u) - c.ntail)
<1> DEFINE n == Len(u)
           H == c.nhead
           T == c.ntail
           p == SubSeq(u, H + 1, n - T)
<1>1. n \in Nat /\ H \in Nat /\ T \in Nat /\ \A i \in 1 .. n : u[i] \in Unset
  BY DEF Counts
<1>2. \A i \in H + 1 .. n - T : u[i] \in Unset
  <2>1. \A i \in H + 1 .. n - T : i \in 1 .. n
    BY <1>1
  <2>. QED  BY <1>1, <2>1
<1>3. H + 1 \in Int /\ n - T \in Int
  BY <1>1
<1>4. /\ p \in Seq(Unset) /\ Len(p) = IF H + 1 <= n - T THEN n - T - (H + 1) + 1 ELSE 0
      /\ \A i \in 1 .. n - T - (H + 1) + 1 : p[i] = u[H + 1 + i - 1]
  BY <1>2, <1>3, SubSeqProperties
<1>. HIDE DEF p
<1>5. Len(g) = (IF n > H + T THEN n - H - T ELSE 0) /\ \A i \in 1 .. Len(g) : g[i] = u[H + i]
  BY DEF Middle
<1>6. Len(p) = Len(g)
  <2>1. Len(p) = (IF H + 1 <= n - T THEN n - T - (H + 1) + 1 ELSE 0)
        /\ Len(g) = IF n > H + T THEN n - H - T ELSE 0
    BY <1>4, <1>5
  <2>. HIDE DEF n, H, T
  <2>. QED  BY ONLY <1>1, <2>1
<1>7. \A i \in 1 .. Len(g) : g[i] = p[i]
  <2> TAKE i \in 1 .. Len(g)
  <2>1. Len(g) = IF n > H + T THEN n - H - T ELSE 0
    BY <1>5
  <2>2. i \in 1 .. n - T - (H + 1) + 1 /\ H + 1 + i - 1 = H + i
    <3>1. i \in 1 .. Len(g)
      OBVIOUS
    <3>. HIDE DEF n, H, T
    <3>. QED  BY ONLY <1>1, <2>1, <3>1
  <2>3. g[i] = u[H + i]
    BY <1>5
  <2>4. p[i] = u[H + 1 + i - 1]
    BY <1>4, <2>2
  <2>. QED  BY ONLY <2>2, <2>3, <2>4
<1>8. g = p
  BY ONLY g \in Seq(Unset), <1>4, <1>6, <1>7, SeqEqual
<1>. QED  BY <1>8 DEF p

\* What it has given of a touch that is over is its middle with the release at its end.
LEMMA LeftIs ==
  ASSUME NEW c, Counts(c), NEW v \in Seq(Unset), NEW g \in Seq(Unset), Left(c, v, g),
         ~(Len(v) <= c.nhead + c.ntail + 1),
         NEW q, q = SubSeq(v, c.nhead + 1, Len(v) - c.ntail)
  PROVE  g = [q EXCEPT ![Len(q)].pressure = 0]
<1> DEFINE n == Len(v)
           H == c.nhead
           T == c.ntail
           L == n - H - T
           x == q[L]
           r == [q EXCEPT ![L] = [x EXCEPT !.pressure = 0]]
<1>1. n \in Nat /\ H \in Nat /\ T \in Nat /\ n > H + T /\ \A i \in 1 .. n : v[i] \in Unset
  <2>1. n \in Nat /\ H \in Nat /\ T \in Nat /\ \A i \in 1 .. n : v[i] \in Unset
    BY DEF Counts
  <2>2. ~(n <= H + T + 1)
    OBVIOUS
  <2>3. n > H + T
    BY ONLY <2>1, <2>2
  <2>. QED  BY <2>1, <2>3
<1>2. \A i \in H + 1 .. n - T : v[i] \in Unset
  <2>1. \A i \in H + 1 .. n - T : i \in 1 .. n
    BY <1>1
  <2>. QED  BY <1>1, <2>1
<1>3. H + 1 \in Int /\ n - T \in Int
  BY <1>1
<1>4. /\ q \in Seq(Unset) /\ Len(q) = IF H + 1 <= n - T THEN n - T - (H + 1) + 1 ELSE 0
      /\ \A i \in 1 .. n - T - (H + 1) + 1 : q[i] = v[H + 1 + i - 1]
  BY <1>2, <1>3, SubSeqProperties
<1>5. Len(q) = L /\ L \in 1 .. L /\ L \in Nat
  <2>1. Len(q) = IF H + 1 <= n - T THEN n - T - (H + 1) + 1 ELSE 0
    BY <1>4
  <2>. HIDE DEF n, H, T
  <2>. QED  BY ONLY <1>1, <2>1
<1>6. \A i \in 1 .. L : q[i] = v[H + i]
  <2> TAKE i \in 1 .. L
  <2>1. i \in 1 .. n - T - (H + 1) + 1 /\ H + 1 + i - 1 = H + i
    <3>1. i \in 1 .. L
      OBVIOUS
    <3>. HIDE DEF n, H, T
    <3>. QED  BY ONLY <1>1, <3>1
  <2>. QED  BY <1>4, <2>1
<1>7. /\ Len(g) = L /\ \A i \in 1 .. L - 1 : g[i] = v[H + i]
      /\ g[L] = [pos |-> v[H + L].pos, pressure |-> 0]
  BY DEF Left
<1>8. x \in Unset /\ x = v[H + L]
  <2>1. DOMAIN q = 1 .. L
    BY <1>4, <1>5
  <2>. QED  BY <1>4, <1>5, <1>6, <2>1, SMTT(60)
<1>. HIDE DEF x
<1>9. [x EXCEPT !.pressure = 0] = g[L]
  <2>1. [x EXCEPT !.pressure = 0] = [pos |-> x.pos, pressure |-> 0]
    <3>1. x \in Unset
      BY <1>8
    <3>. QED  BY ONLY <3>1 DEF Unset
  <2>. QED  BY ONLY <1>7, <1>8, <2>1
<1>10. g[L] \in Unset
  BY <1>5, <1>7
<1>. HIDE DEF L
<1>11. r \in Seq(Unset) /\ Len(r) = L /\ r[L] = g[L] /\ \A i \in 1 .. L : i # L => r[i] = q[i]
  <2> DEFINE z == g[L]
  <2>1. r = [q EXCEPT ![L] = z] /\ z \in Unset
    BY ONLY <1>9, <1>10
  <2>. HIDE DEF z, r
  <2>2. [q EXCEPT ![L] = z] \in Seq(Unset) /\ Len([q EXCEPT ![L] = z]) = L
    BY <1>4, <1>5, <2>1, ExceptSeq
  <2>3. r[L] = z /\ \A i \in 1 .. L : i # L => r[i] = q[i]
    <3>1. DOMAIN q = 1 .. L
      BY <1>4, <1>5
    <3>. QED  BY ONLY <1>5, <2>1, <3>1
  <2>. QED  BY <2>1, <2>2, <2>3 DEF z
<1>12. \A i \in 1 .. L : g[i] = r[i]
  <2> TAKE i \in 1 .. L
  <2>1. CASE i = L
    BY <1>11, <2>1
  <2>2. CASE i # L
    <3>1. i \in 1 .. L - 1
      <4>1. i \in 1 .. L
        OBVIOUS
      <4>. QED  BY ONLY <1>5, <2>2, <4>1
    <3>2. g[i] = v[H + i] /\ q[i] = v[H + i] /\ r[i] = q[i]
      BY <1>6, <1>7, <1>11, <2>2, <3>1
    <3>. QED  BY ONLY <3>2
  <2>. QED  BY ONLY <2>1, <2>2
<1>13. g = r
  <2>1. g \in Seq(Unset) /\ Len(g) = Len(r)
    BY <1>7, <1>11
  <2>2. \A i \in 1 .. Len(g) : g[i] = r[i]
    BY <1>7, <1>12
  <2>. HIDE DEF r
  <2>. QED  BY ONLY <1>11, <2>1, <2>2, SeqEqual
<1>14. r = [q EXCEPT ![Len(q)].pressure = 0]
  BY <1>5 DEF x
<1>. QED  BY <1>13, <1>14

\* What skip alone configured means.
LEMMA AloneIs ==
  ASSUME conf \in Confs, ModsOK, SkipAlone
  PROVE  /\ Counts(conf) /\ ChainLen = 1 /\ conf.chain[1] = "skip" /\ conf.memory \in Nat
         /\ conf.memory > 1 /\ Has("skip") /\ ~Has("pthres") /\ ~conf.mt /\ Light = 1
         /\ mods["skip"] \in SkipStates(conf, Fingers) /\ KindOf(1) = "skip"
         /\ \E finger \in Slots : Fingers = {finger}
<1>1. ChainLen = 1 /\ conf.chain[1] = "skip" /\ DOMAIN conf.chain = {1}
  BY DEF SkipAlone, ChainLen
<1>2. Counts(conf) /\ conf.mt \in BOOLEAN /\ conf.memory \in Nat
      /\ (~conf.mt => \E finger \in Slots : Fingers = {finger})
      /\ Legal(conf.chain[1], conf.mt)
  BY <1>1, ConfIs
<1>3. Has("skip") /\ ~Has("pthres")
  BY <1>1 DEF Has
<1>4. conf.memory > 1
  <2>1. (\E i \in DOMAIN conf.chain : conf.chain[i] = "skip") => conf.memory > 1
    BY ConfAssumption, Zenon
  <2>. QED  BY <1>1, <2>1
<1>5. ~conf.mt
  BY <1>1, <1>2 DEF Legal, Single
<1>6. Light = 1
  BY <1>3 DEF Light
<1>7. mods["skip"] \in SkipStates(conf, Fingers)
  <2>1. mods[conf.chain[1]] \in StatesOf(conf.chain[1], conf, Fingers)
    BY <1>1 DEF ModsOK
  <2>. QED  BY <1>1, <2>1 DEF StatesOf
<1>8. KindOf(1) = "skip"
  BY <1>1 DEF KindOf, KindAt
<1>. QED  BY <1>1, <1>2, <1>3, <1>4, <1>5, <1>6, <1>7, <1>8

\* A single sample goes through skip.
LEMMA SkipPulls ==
  ASSUME TypeOK, SkipAlone, NEW done, Chained(done), Len(queue) = 1,
         NEW t, t = SkipTake(mods["skip"], queue[1])
  PROVE  done[1].mod = t.mod /\ done[1].out = t.out
<1> DEFINE m == mods["skip"]
           F == Fingers
           b == queue
           mt == conf.mt
           w == Walk("skip", mt, m, b)
<1>1. /\ conf \in Confs /\ ModsOK /\ Counts(conf) /\ ChainLen = 1 /\ conf.chain[1] = "skip"
      /\ m \in SkipStates(conf, F) /\ KindOf(1) = "skip" /\ b \in Seq(Samples(F))
      /\ F \in SUBSET Slots /\ Legal("skip", mt)
  <2>1. conf \in Confs /\ ModsOK /\ b \in Seq(Samples(F))
    BY DEF TypeOK
  <2>2. ChainLen = 1 /\ conf.chain[1] = "skip"
    BY <2>1, AloneIs
  <2>3. Legal(conf.chain[1], mt) /\ F \in SUBSET Slots
    BY <2>1, <2>2, ConfIs
  <2>. QED  BY <2>1, <2>2, <2>3, AloneIs
<1>2. done[1] = Ended("skip", WalkAt(1, b), b)
  BY <1>1 DEF Chained
<1>3. WalkAt(1, b) = w
  BY <1>1 DEF WalkAt, WalkAll, Opened
<1>4. Walked(w, "skip", mt, During("skip", conf, F), Samples(F), m, b)
  <2>1. m \in During("skip", conf, F)
    BY <1>1 DEF During, StatesOf
  <2>. HIDE DEF m, F, b, mt, w
  <2>. QED  BY ONLY <1>1, <2>1, WalkIs DEF w
<1>. HIDE DEF w
<1>5. w[0] = [mod |-> m, out |-> <<>>]
  BY <1>4 DEF Walked
<1>6. Take("skip", mt, m, b[1]) = t
  BY DEF Take
<1>7. t \in Turns(During("skip", conf, F), Samples(F))
      /\ w[1] = [mod |-> t.mod, out |-> w[0].out \o t.out]
  <2>1. \A n \in 1 .. Len(b) :
          /\ Take("skip", mt, w[n - 1].mod, b[n]) \in Turns(During("skip", conf, F), Samples(F))
          /\ w[n] = [mod |-> Take("skip", mt, w[n - 1].mod, b[n]).mod,
                     out |-> w[n - 1].out \o Take("skip", mt, w[n - 1].mod, b[n]).out]
    BY <1>4, Zenon DEF Walked
  <2>2. 1 \in 1 .. Len(b) /\ 1 - 1 = 0
    OBVIOUS
  <2>3. w[0].mod = m
    BY <1>5
  <2>4. /\ Take("skip", mt, w[0].mod, b[1]) \in Turns(During("skip", conf, F), Samples(F))
        /\ w[1] = [mod |-> Take("skip", mt, w[0].mod, b[1]).mod,
                   out |-> w[0].out \o Take("skip", mt, w[0].mod, b[1]).out]
    BY ONLY <2>1, <2>2
  <2>. QED  BY ONLY <1>6, <2>3, <2>4
<1>8. w[0].out \o t.out = t.out
  <2>1. t.out \in Seq(Samples(F))
    BY <1>7 DEF Turns
  <2>2. w[0].out = <<>>
    BY <1>5
  <2>. QED  BY ONLY <2>1, <2>2
<1>9. Len(b) = 1
  OBVIOUS
<1>10. done[1] = [mod |-> w[1].mod, out |-> w[1].out]
  <2>. HIDE DEF b, m
  <2>. QED  BY ONLY <1>2, <1>3, <1>9 DEF Ended, Closed
<1> DEFINE x == w[1]
           d == done[1]
<1>11. x = [mod |-> t.mod, out |-> w[0].out \o t.out] /\ d = [mod |-> x.mod, out |-> x.out]
  BY ONLY <1>7, <1>10
<1>12. x.mod = t.mod /\ x.out = w[0].out \o t.out
  <2>. HIDE DEF x
  <2>. QED  BY ONLY <1>11
<1>. HIDE DEF x, d
<1>13. d.mod = x.mod /\ d.out = x.out
  BY ONLY <1>11
<1>. QED  BY ONLY <1>8, <1>12, <1>13 DEF d

\* At the start no touch was given.
LEMMA InitMiddles ==
  ASSUME Init
  PROVE  Middles
<1>. SUFFICES ASSUME SkipAlone
              PROVE  Middles
  BY DEF Middles
<1>1. conf \in Confs /\ ModsOK
  BY InitTyped DEF TypeOK
<1>2. Counts(conf) /\ Fingers \subseteq Slots
  BY <1>1, ConfIs
<1>3. queue = <<>> /\ touch = [slot \in Slots |-> <<>>] /\ given = [slot \in Slots |-> <<>>]
  BY DEF Init
<1>4. PICK junk \in Junk :
        mods = [f \in {conf.chain[i] : i \in DOMAIN conf.chain} |-> Start(f, conf, junk)]
  BY DEF Init
<1> DEFINE g == [i \in 0 .. conf.ntail - 1 |-> [pos |-> junk, pressure |-> junk]]
<1>5. mods["skip"] = Sk(conf, 0, 0, FALSE, g)
  <2>1. mods["skip"] = Start("skip", conf, junk)
    <3>1. Has("skip")
      BY <1>1, AloneIs
    <3>. QED  BY <1>4, <3>1 DEF Has
  <2>2. Start("skip", conf, junk) = SkipStart(conf.nhead, conf.ntail, [pos |-> junk, pressure |-> junk])
    BY DEF Start
  <2>. QED  BY <2>1, <2>2 DEF SkipStart, Sk
<1>. HIDE DEF g
<1>6. Going(conf, mods["skip"], <<>>, <<>>)
  BY <1>2, <1>5, ResetGoes
<1>7. Left(conf, <<>>, <<>>)
  <2>1. Len(<<>>) <= conf.nhead + conf.ntail + 1
    BY <1>2 DEF Counts
  <2>. QED  BY <2>1 DEF Left
<1>8. \A slot \in Slots : touch[slot] = <<>> /\ given[slot] = <<>> /\ Over(slot)
  BY <1>3 DEF Over
<1>9. \A slot \in Fingers : Between(conf, mods["skip"], touch[slot], given[slot], Over(slot))
  BY <1>2, <1>6, <1>7, <1>8 DEF Between
<1>. QED  BY <1>3, <1>8, <1>9 DEF Middles

\* A read gives what skip lets through.
LEMMA ReadMiddles ==
  ASSUME TypeOK, SkipAlone, Middles, NEW done, Chained(done), Reads(done)
  PROVE  Middles'
<1> DEFINE m == mods["skip"]
           s == queue[1]
           t == SkipTake(m, s)
<1>1. /\ queue # <<>> /\ queue' = <<>> /\ conf' = conf /\ touch' = touch
      /\ given' = [slot \in Slots |->
                     IF ~Has("skip") \/ slot \notin Fingers THEN <<>>
                     ELSE given[slot] \o [i \in DOMAIN done[ChainLen].out |->
                            [pos |-> done[ChainLen].out[i].pos,
                             pressure |-> done[ChainLen].out[i].pressure]]]
  BY Zenon DEF Reads
<1>2. /\ Counts(conf) /\ ChainLen = 1 /\ conf.chain[1] = "skip" /\ Has("skip")
      /\ m \in SkipStates(conf, Fingers) /\ Light = 1
  BY AloneIs DEF TypeOK
<1>3. Len(queue) = 1 /\ s \in Samples(Fingers)
  <2>1. Len(queue) = 1
    BY <1>1 DEF Middles
  <2>2. queue \in Seq(Samples(Fingers)) /\ 1 \in 1 .. 1
    BY DEF TypeOK
  <2>. QED  BY ONLY <2>1, <2>2
<1>4. done[1].mod = t.mod /\ done[1].out = t.out
  BY <1>3, SkipPulls
<1>5. mods'["skip"] = t.mod
  <2>1. mods'[conf.chain[1]] = Aged(conf.chain[1], done[1].mod)
    <3>1. 1 \in 1 .. ChainLen
      BY <1>2
    <3>. QED  BY <3>1, ReadModsOK
  <2>. QED  BY <1>2, <1>4, <2>1 DEF Aged
<1>6. \A slot \in Fingers : given'[slot] = given[slot] \o Bares(t.out)
  <2> DEFINE out == done[1].out
  <2>1. Fingers \subseteq Slots
    BY ConfIs DEF TypeOK
  <2>2. given' = [slot \in Slots |->
                     IF ~Has("skip") \/ slot \notin Fingers THEN <<>>
                     ELSE given[slot] \o [i \in DOMAIN out |->
                            [pos |-> out[i].pos, pressure |-> out[i].pressure]]]
    BY ONLY <1>1, <1>2
  <2>3. \A slot \in Fingers : given'[slot] = given[slot] \o [i \in DOMAIN out |->
                                   [pos |-> out[i].pos, pressure |-> out[i].pressure]]
    <3> DEFINE x == [i \in DOMAIN out |-> [pos |-> out[i].pos, pressure |-> out[i].pressure]]
    <3>. HIDE DEF x
    <3>1. given' = [slot \in Slots |->
                     IF ~Has("skip") \/ slot \notin Fingers THEN <<>> ELSE given[slot] \o x]
      BY ONLY <2>2 DEF x
    <3>. QED  BY ONLY <1>2, <2>1, <3>1 DEF x
  <2>4. [i \in DOMAIN out |-> [pos |-> out[i].pos, pressure |-> out[i].pressure]] = Bares(out)
    BY Zenon DEF Bares, Bare
  <2>. QED  BY ONLY <1>4, <2>3, <2>4
<1>7. \A slot : Over(slot)' <=> Over(slot)
  BY <1>1, Zenon DEF Over, Light, Has
<1>8. \A slot \in Slots \ Fingers : given'[slot] = <<>>
  BY <1>1
<1>. HIDE DEF m, s, t
<1>9. ASSUME NEW slot \in Fingers
      PROVE  Between(conf, t.mod, touch[slot], given'[slot], Over(slot))
  <2> DEFINE v == touch[slot]
             g == given[slot]
             r == given'[slot]
  <2>1. Waits(conf, m, v, g, Over(slot), s)
    BY <1>1 DEF Middles, m, s
  <2>2. PICK u \in Seq(Unset) : v = Append(u, Bare(s)) /\ Going(conf, m, u, g)
    BY <2>1 DEF Waits
  <2>3. s.pressure >= 0 /\ (Over(slot) <=> s.pressure = 0) /\ (Over(slot) \/ Len(v) < conf.memory)
    BY <2>1 DEF Waits
  <2>4. r = g \o Bares(t.out)
    BY <1>6
  <2>5. g \in Seq(Unset) /\ s.pressure \in Int
    <3>1. Fingers \subseteq Slots /\ given \in [Slots -> Seq(Unset)]
      BY ConfIs DEF TypeOK
    <3>2. s.pressure \in Int
      BY <1>3, SampleFields
    <3>. QED  BY <3>1, <3>2
  <2>6. t = SkipTake(m, s)
    BY DEF t
  <2>. HIDE DEF v, g, r
  <2>7. CASE s.pressure = 0
    <3>1. Going(conf, t.mod, <<>>, <<>>) /\ Left(conf, v, r)
      BY ONLY <1>2, <1>3, <2>2, <2>4, <2>5, <2>6, <2>7, SkipReleases
    <3>. QED  BY ONLY <2>3, <2>7, <3>1 DEF Between, v, r
  <2>8. CASE s.pressure # 0
    <3>1. s.pressure > 0
      BY ONLY <2>3, <2>5, <2>8
    <3>2. Going(conf, t.mod, v, r)
      BY ONLY <1>2, <1>3, <2>2, <2>4, <2>5, <2>6, <3>1, SkipPresses
    <3>. QED  BY ONLY <2>3, <2>8, <3>2 DEF Between, v, r
  <2>. QED  BY ONLY <2>7, <2>8
<1>10. SkipAlone' /\ Fingers' = Fingers
  BY <1>1 DEF SkipAlone, Fingers
<1>11. \A slot \in Slots \ Fingers : touch[slot] = <<>>
  BY DEF Middles
<1>12. \A slot \in Fingers :
         Between(conf', mods'["skip"], touch'[slot], given'[slot], Over(slot)')
  BY ONLY <1>1, <1>5, <1>7, <1>9, Zenon
<1>. QED  BY ONLY <1>1, <1>8, <1>10, <1>11, <1>12, Zenon DEF Middles

\* A sequence that is short enough is kept.
LEMMA LastFewAll ==
  ASSUME NEW S, NEW s \in Seq(S), NEW n \in Nat, Len(s) <= n
  PROVE  LastFew(s, n) = s
<1>1. ~(Len(s) > n)
  BY DEF LastFew
<1>2. SubSeq(s, 1, Len(s)) = s
  <2> DEFINE p == SubSeq(s, 1, Len(s))
  <2>1. Len(s) \in Nat /\ \A i \in 1 .. Len(s) : s[i] \in S
    OBVIOUS
  <2>2. /\ p \in Seq(S) /\ Len(p) = IF 1 <= Len(s) THEN Len(s) - 1 + 1 ELSE 0
        /\ \A i \in 1 .. Len(s) - 1 + 1 : p[i] = s[1 + i - 1]
    <3>1. 1 \in Int /\ Len(s) \in Int
      BY <2>1
    <3>. QED  BY <2>1, <3>1, SubSeqProperties
  <2>. HIDE DEF p
  <2>3. Len(p) = Len(s)
    BY ONLY <2>1, <2>2
  <2>4. \A i \in 1 .. Len(p) : p[i] = s[i]
    <3> TAKE i \in 1 .. Len(p)
    <3>1. i \in 1 .. Len(s) - 1 + 1 /\ 1 + i - 1 = i
      <4>1. i \in 1 .. Len(p)
        OBVIOUS
      <4>. QED  BY ONLY <2>1, <2>3, <4>1
    <3>2. p[i] = s[1 + i - 1]
      BY <2>2, <3>1
    <3>. QED  BY ONLY <3>1, <3>2
  <2>5. s \in Seq(S)
    OBVIOUS
  <2>. QED  BY ONLY <2>2, <2>3, <2>4, <2>5, SeqEqual DEF p
<1>. QED  BY <1>1, <1>2 DEF LastFew

\* A sample that arrives waits.
LEMMA ArriveMiddles ==
  ASSUME TypeOK, SkipAlone, Middles, Arrives
  PROVE  Middles'
<1>0. PICK k \in Fingers :
        \E gap \in conf.gaps, pos \in conf.pos[k], pressure \in conf.pressures :
          Arrive(gap, k, pos, pressure)
  BY DEF Arrives, Fingers
<1>1. PICK gap \in conf.gaps, pos \in conf.pos[k], p \in conf.pressures :
        Arrive(gap, k, pos, p)
  BY <1>0
<1> DEFINE before == IF queue = <<>> THEN 0 ELSE Last(queue).at
           sample == [at |-> before + gap, slot |-> k, pos |-> pos, pressure |-> p]
           one == [pos |-> pos, pressure |-> p]
           old == IF Over(k) THEN <<>> ELSE touch[k]
           g == IF Over(k) THEN <<>> ELSE given[k]
           m == mods["skip"]
           v == Append(old, one)
<1>2. /\ queue' = Append(queue, sample)
      /\ touch' = [touch EXCEPT ![k] = LastFew(v, conf.memory)]
      /\ given' = [given EXCEPT ![k] = g]
      /\ conf' = conf /\ mods' = mods
      /\ Len(queue) < conf.batch
      /\ Has("skip") /\ ~Over(k) /\ Len(touch[k]) >= conf.memory - 1 => p = 0
  <2>1. given' = [given EXCEPT ![k] = IF Over(k) THEN <<>> ELSE @]
    BY <1>1, Zenon DEF Arrive
  <2>2. given' = [given EXCEPT ![k] = g]
    BY <2>1
  <2>. QED  BY <1>1, <2>2, Zenon DEF Arrive
<1>3. /\ gap \in Nat /\ pos \in Int /\ p \in Nat
      /\ queue \in Seq(Samples(Fingers)) /\ touch \in [Slots -> Seq(Unset)]
      /\ given \in [Slots -> Seq(Unset)] /\ Fingers \subseteq Slots /\ k \in Slots
  BY ConfIs DEF TypeOK
<1>4. /\ conf.memory \in Nat /\ conf.memory > 1 /\ Has("skip") /\ Light = 1
      /\ \E finger \in Slots : Fingers = {finger}
  BY AloneIs DEF TypeOK
<1>5. queue = <<>>
  <2>1. conf.batch = 1
    BY DEF SkipAlone
  <2>2. Len(queue) \in Nat /\ Len(queue) < 1
    BY <1>2, <1>3, <2>1
  <2>. QED  BY <1>3, <2>2
<1>6. Between(conf, m, touch[k], given[k], Over(k))
  BY <1>5 DEF Middles
<1>7. Len(queue') = 1 /\ queue'[1] = sample /\ queue' # <<>>
  <2>. HIDE DEF sample
  <2>1. queue' = <<sample>>
    BY ONLY <1>2, <1>5
  <2>. QED  BY <2>1
<1>8. one = Bare(sample) /\ sample.pressure = p /\ one.pressure = p
  BY DEF Bare
<1>9. one \in Unset /\ old \in Seq(Unset) /\ g \in Seq(Unset)
  BY <1>3 DEF Unset
<1>10. Going(conf, m, old, g) /\ (Over(k) => Len(old) = 0)
       /\ (~Over(k) => Len(old) = Len(touch[k]) /\ Len(old) < conf.memory)
  <2>1. CASE Over(k)
    BY <1>6, <2>1 DEF Between
  <2>2. CASE ~Over(k)
    BY <1>6, <2>2 DEF Between
  <2>. QED  BY <2>1, <2>2
<1>. HIDE DEF one, old, sample, g, v
<1>11. Len(v) = Len(old) + 1 /\ v \in Seq(Unset) /\ Len(old) \in Nat /\ v # <<>> /\ Last(v) = one
  <2>1. Len(old) \in Nat
    BY <1>9
  <2>2. v \in Seq(Unset) /\ Len(v) = Len(old) + 1 /\ v[Len(old) + 1] = one
    BY <1>9, Longer DEF v
  <2>3. v # <<>>
    BY <2>1, <2>2
  <2>. QED  BY ONLY <2>1, <2>2, <2>3 DEF Last
<1>12. Len(v) <= conf.memory /\ (p # 0 => Len(v) < conf.memory)
  <2>1. CASE Over(k)
    <3>1. Len(v) = 1
      BY ONLY <1>10, <1>11, <2>1
    <3>. QED  BY ONLY <1>4, <3>1
  <2>2. CASE ~Over(k)
    <3>1. Len(v) = Len(old) + 1 /\ Len(old) < conf.memory /\ Len(old) \in Nat
          /\ (Len(old) >= conf.memory - 1 => p = 0)
      BY <1>2, <1>4, <1>10, <1>11, <2>2
    <3>. QED  BY ONLY <1>4, <3>1
  <2>. QED  BY ONLY <2>1, <2>2
<1>13. touch'[k] = v /\ given'[k] = g
       /\ \A slot \in Slots : slot # k => touch'[slot] = touch[slot] /\ given'[slot] = given[slot]
  <2>1. LastFew(v, conf.memory) = v
    BY ONLY <1>4, <1>11, <1>12, LastFewAll
  <2>. QED  BY ONLY <1>2, <1>3, <2>1
<1>14. Fingers' = Fingers /\ (SkipAlone' <=> SkipAlone) /\ Light' = Light
  BY <1>2, Zenon DEF Fingers, SkipAlone, Light, Has
<1>15. Over(k)' <=> p = 0
  <2>1. Over(k)' <=> ~(touch'[k] # <<>> /\ Last(touch'[k]).pressure >= Light)
    BY <1>14 DEF Over
  <2>2. Over(k)' <=> ~(p >= 1)
    BY ONLY <1>4, <1>8, <1>11, <1>13, <2>1
  <2>. QED  BY ONLY <1>3, <2>2
<1>16. Waits(conf', mods'["skip"], touch'[k], given'[k], Over(k)', queue'[1])
  <2>1. \E u \in Seq(Unset) : v = Append(u, Bare(sample)) /\ Going(conf, m, u, g)
    BY <1>8, <1>9, <1>10 DEF v
  <2>2. sample.pressure >= 0 /\ (Over(k)' <=> sample.pressure = 0)
        /\ (Over(k)' \/ Len(v) < conf.memory)
    BY <1>3, <1>8, <1>12, <1>15
  <2>. QED  BY <1>2, <1>7, <1>13, <2>1, <2>2, Zenon DEF Waits
<1>17. \A slot \in Fingers : slot = k
  BY <1>4
<1>18. \A slot \in Fingers' :
         Waits(conf', mods'["skip"], touch'[slot], given'[slot], Over(slot)', queue'[1])
  BY ONLY <1>14, <1>16, <1>17, Zenon
<1>19. \A slot \in Slots \ Fingers' : touch'[slot] = <<>> /\ given'[slot] = <<>>
  <2>1. \A slot \in Slots \ Fingers : slot # k /\ touch[slot] = <<>> /\ given[slot] = <<>>
    BY DEF Middles
  <2>. QED  BY ONLY <1>13, <1>14, <2>1
<1>. QED  BY ONLY <1>7, <1>18, <1>19, Zenon DEF Middles

\* Every step leaves skip where it is in every touch.
LEMMA NextMiddles ==
  ASSUME TypeOK, [Next]_vars, Middles
  PROVE  Middles'
<1>0. conf' = conf
  BY DEF Next, Read, Arrive, vars
<1>. SUFFICES ASSUME SkipAlone
              PROVE  Middles'
  <2>1. SkipAlone' <=> SkipAlone
    BY <1>0 DEF SkipAlone
  <2>. QED  BY <2>1 DEF Middles
<1>1. CASE Read
  BY <1>1, ReadIs, ReadMiddles
<1>2. CASE Arrives
  BY <1>2, ArriveMiddles
<1>3. CASE UNCHANGED vars
  <2>1. conf' = conf /\ mods' = mods /\ queue' = queue /\ touch' = touch /\ given' = given
    BY <1>3 DEF vars
  <2>2. Fingers' = Fingers /\ (SkipAlone' <=> SkipAlone) /\ \A slot : Over(slot)' <=> Over(slot)
    BY <2>1, Zenon DEF Fingers, SkipAlone, Over, Light, Has
  <2>3. \A slot \in Slots \ Fingers' : touch'[slot] = <<>> /\ given'[slot] = <<>>
    BY <2>1, <2>2, Zenon DEF Middles
  <2>4. ASSUME queue' = <<>>
        PROVE  \A slot \in Fingers' :
                 Between(conf', mods'["skip"], touch'[slot], given'[slot], Over(slot)')
    <3>1. \A slot \in Fingers :
            Between(conf, mods["skip"], touch[slot], given[slot], Over(slot))
      BY <2>1, <2>4 DEF Middles
    <3>2. \A slot \in Fingers :
            Between(conf', mods'["skip"], touch'[slot], given'[slot], Over(slot)')
      BY ONLY <2>1, <2>2, <3>1 DEF Between
    <3>. QED  BY ONLY <2>2, <3>2
  <2>5. ASSUME queue' # <<>>
        PROVE  /\ Len(queue') = 1
               /\ \A slot \in Fingers' :
                    Waits(conf', mods'["skip"], touch'[slot], given'[slot], Over(slot)', queue'[1])
    <3>1. Len(queue) = 1 /\ \A slot \in Fingers :
            Waits(conf, mods["skip"], touch[slot], given[slot], Over(slot), queue[1])
      BY <2>1, <2>5 DEF Middles
    <3>2. Len(queue') = 1 /\ \A slot \in Fingers :
            Waits(conf', mods'["skip"], touch'[slot], given'[slot], Over(slot)', queue'[1])
      BY ONLY <2>1, <2>2, <3>1 DEF Waits
    <3>. QED  BY ONLY <2>2, <3>2
  <2>. QED  BY ONLY <2>3, <2>4, <2>5, Zenon DEF Middles
<1>. QED  BY <1>1, <1>2, <1>3 DEF Next, Arrives

\* What the program has got of every touch follows.
LEMMA MiddlesAreGiven ==
  ASSUME TypeOK, Middles
  PROVE  GivesTheMiddle
<1>. SUFFICES ASSUME SkipAlone, queue = <<>>, NEW slot \in Slots
              PROVE  LET all    == touch[slot]
                         middle == SubSeq(all, conf.nhead + 1, Len(all) - conf.ntail)
                     IN IF ~Over(slot) THEN given[slot] = middle
                        ELSE IF Len(all) <= conf.nhead + conf.ntail + 1 THEN given[slot] = <<>>
                        ELSE given[slot] = [middle EXCEPT ![Len(middle)].pressure = 0]
  BY Zenon DEF GivesTheMiddle, SkipAlone
<1> DEFINE u == touch[slot]
           g == given[slot]
           q == SubSeq(u, conf.nhead + 1, Len(u) - conf.ntail)
<1>1. Counts(conf) /\ u \in Seq(Unset) /\ g \in Seq(Unset)
  BY AloneIs DEF TypeOK
<1>2. CASE slot \notin Fingers
  <2>1. u = <<>> /\ g = <<>>
    BY <1>2 DEF Middles
  <2>2. Over(slot)
    BY <2>1 DEF Over
  <2>3. Len(u) <= conf.nhead + conf.ntail + 1
    BY <1>1, <2>1 DEF Counts
  <2>. QED  BY <2>1, <2>2, <2>3
<1>3. CASE slot \in Fingers
  <2>1. Between(conf, mods["skip"], u, g, Over(slot))
    BY <1>3 DEF Middles
  <2>. HIDE DEF u, g
  <2>2. CASE ~Over(slot)
    <3>1. Middle(conf, u, g)
      BY <2>1, <2>2 DEF Between, Going
    <3>2. g = q
      BY ONLY <1>1, <3>1, MiddleIs
    <3>. QED  BY <2>2, <3>2 DEF u, g
  <2>3. CASE Over(slot)
    <3>1. Left(conf, u, g)
      BY <2>1, <2>3 DEF Between
    <3>2. CASE Len(u) <= conf.nhead + conf.ntail + 1
      <4>1. g = <<>>
        BY <3>1, <3>2 DEF Left
      <4>. QED  BY <2>3, <3>2, <4>1 DEF u, g
    <3>3. CASE ~(Len(u) <= conf.nhead + conf.ntail + 1)
      <4>1. g = [q EXCEPT ![Len(q)].pressure = 0]
        BY ONLY <1>1, <3>1, <3>3, LeftIs
      <4>. QED  BY ONLY <2>3, <3>3, <4>1 DEF u, g, q
    <3>. QED  BY ONLY <3>2, <3>3
  <2>. QED  BY ONLY <2>2, <2>3
<1>. QED  BY ONLY <1>2, <1>3

(* Behind skip, for every nhead and ntail and touches of any length: the   *)
(* program gets a touch without its first nhead and its last ntail samples,*)
(* the last of what it gets as the release.                                *)
THEOREM SkipGivesTheMiddle == Spec => []GivesTheMiddle
<1>1. Init => TypeOK /\ Held /\ Middles
  BY InitTyped, InitMiddles
<1>2. TypeOK /\ Held /\ Middles /\ [Next]_vars => TypeOK' /\ Held' /\ Middles'
  BY NextTyped, NextMiddles
<1>3. TypeOK /\ Middles => GivesTheMiddle
  BY MiddlesAreGiven
<1>. QED  BY <1>1, <1>2, <1>3, PTL DEF Spec

=============================================================================

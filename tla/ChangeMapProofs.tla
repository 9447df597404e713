-------------------------- MODULE ChangeMapProofs --------------------------
(***************************************************************************)
(* The deal of change_map is a permutation for every number of blocks, and *)
(* its walk over taken blocks is bounded.                                  *)
(***************************************************************************)
EXTENDS ChangeMap, FiniteSetTheorems, TLAPS

DoneAtEnd == pc = "done" => i = N

(* The inductive invariant.                                                *)
Inductive == TypeOK /\ FlagsAgree /\ WalkPassedTaken /\ WalkIsShort /\ DoneAtEnd

USE NAssumption DEF Index, Dealt, StepCap

LEMMA InitInductive == Init => Inductive
BY DEF Init, Inductive, TypeOK, FlagsAgree, WalkPassedTaken, WalkIsShort, DoneAtEnd

(* The walk goes on to the next block, and from the last to the first.     *)
LEMMA AfterPassed ==
  ASSUME start \in Index, NEW d \in Nat, d + 1 < N
  PROVE  After(Passed(d)) = Passed(d + 1)
<1>1. ASSUME NEW k \in Index, k + 1 < N
      PROVE  After(k) = k + 1
  BY <1>1 DEF After
<1>2. After(N - 1) = 0
  BY DEF After
<1>3. CASE start + d + 1 < N
  BY <1>1, <1>3 DEF Passed
<1>4. CASE start + d + 1 = N
  <2>1. Passed(d) = N - 1 /\ Passed(d + 1) = 0
    BY <1>4 DEF Passed
  <2>. QED  BY <2>1, <1>2
<1>5. CASE start + d >= N
  <2>1. /\ Passed(d) = start + d - N /\ Passed(d + 1) = start + d - N + 1
        /\ start + d - N \in Index /\ start + d - N + 1 < N
    BY <1>5 DEF Passed
  <2>. QED  BY <2>1, <1>1
<1>. QED  BY <1>3, <1>4, <1>5

LEMMA DrawOK == Inductive /\ Draw => Inductive'
<1> SUFFICES ASSUME Inductive, Draw PROVE Inductive'
  OBVIOUS
<1>1. TypeOK' /\ FlagsAgree' /\ DoneAtEnd' /\ WalkIsShort'
  BY DEF Inductive, Draw, TypeOK, FlagsAgree, DoneAtEnd, WalkIsShort
<1>2. /\ random' = start' /\ start' \in Index /\ steps' = 0 /\ i' < N
  BY DEF Draw
<1>3. random' = Passed(steps)'
  <2>1. ASSUME NEW s \in Index
        PROVE  s = IF s + 0 < N THEN s + 0 ELSE s + 0 - N
    BY s \in Int, s + 0 = s
  <2>. QED  BY <1>2, <2>1 DEF Passed
<1>4. WalkPassedTaken'
  BY <1>2, <1>3 DEF WalkPassedTaken
<1>. QED  BY <1>1, <1>4 DEF Inductive

(* A walk cannot be longer than the number of blocks that are taken: what  *)
(* it has passed are different taken blocks.                               *)
LEMMA PassedBound ==
  ASSUME TypeOK, FlagsAgree, NEW n \in 0 .. N,
         \A d \in 0 .. (n - 1) : ~reset_flag[Passed(d)]
  PROVE  n <= i
<1> DEFINE S == 0 .. (n - 1)
           T == 0 .. (i - 1)
           f == [d \in S |-> CHOOSE j \in T : block[j] = Passed(d)]
<1>1. ASSUME NEW d \in S
      PROVE  Passed(d) \in Index
  BY DEF Passed, TypeOK
<1>2. ASSUME NEW d \in S
      PROVE  f[d] \in T /\ block[f[d]] = Passed(d)
  <2>1. \E j \in T : block[j] = Passed(d)
    BY <1>1 DEF FlagsAgree
  <2>. QED  BY <2>1
<1>3. ASSUME NEW d \in S, NEW e \in S, f[d] = f[e]
      PROVE  d = e
  <2>1. Passed(d) = Passed(e)
    BY <1>2, <1>3
  <2>2. start \in Index /\ d \in 0 .. (N - 1) /\ e \in 0 .. (N - 1)
    BY DEF TypeOK
  <2>. QED  BY ONLY <2>1, <2>2, NAssumption DEF Passed, Index
<1>4. f \in [S -> T]
  BY <1>2
<1>5. f \in Injection(S, T)
  BY <1>3, <1>4 DEF Injection, IsInjective
<1>6. i \in Nat /\ n \in Nat
  BY DEF TypeOK
<1>7. IsFiniteSet(T) /\ Cardinality(T) = i /\ IsFiniteSet(S) /\ Cardinality(S) = n
  <2>1. IsFiniteSet(T) /\ Cardinality(T) = IF 0 > i - 1 THEN 0 ELSE (i - 1) - 0 + 1
    BY <1>6, FS_Interval
  <2>2. IsFiniteSet(S) /\ Cardinality(S) = IF 0 > n - 1 THEN 0 ELSE (n - 1) - 0 + 1
    BY <1>6, FS_Interval
  <2>. QED  BY <2>1, <2>2, <1>6
<1>8. Cardinality(S) <= Cardinality(T)
  BY <1>5, <1>7, FS_Injection
<1>. QED  BY <1>7, <1>8

LEMMA WalkOK == Inductive /\ Walk => Inductive'
<1> SUFFICES ASSUME Inductive, Walk PROVE Inductive'
  OBVIOUS
<1>0. pc = "probe" /\ ~reset_flag[random] /\ random' = After(random)
  BY DEF Walk
<1>1. /\ steps \in Nat /\ steps < N /\ i \in 0 .. (N - 1) /\ steps <= i
      /\ start \in Index /\ random = Passed(steps)
  BY DEF Inductive, Walk, TypeOK, WalkPassedTaken, WalkIsShort
<1>2. steps' = steps + 1
  BY <1>1 DEF Walk
<1>3. \A d \in 0 .. steps : ~reset_flag[Passed(d)]
  BY <1>1 DEF Inductive, Walk, WalkPassedTaken
<1>4. steps + 1 <= i
  BY <1>1, <1>3, PassedBound DEF Inductive
<1>5. random' = Passed(steps + 1)
  <2>1. random' = After(Passed(steps))
    BY <1>0, <1>1
  <2>2. steps + 1 < N
    BY <1>1, <1>4
  <2>. QED  BY <2>1, <2>2, <1>1, AfterPassed
<1>6. Passed(steps + 1) \in Index
  BY <1>1, <1>4 DEF Passed
<1>7. TypeOK' /\ FlagsAgree' /\ DoneAtEnd'
  <2>1. random' \in Index /\ steps' \in 0 .. StepCap
    BY <1>1, <1>2, <1>5, <1>6
  <2>2. TypeOK'
    BY <2>1 DEF Inductive, Walk, TypeOK
  <2>. QED  BY <2>2 DEF Inductive, Walk, FlagsAgree, DoneAtEnd
<1>8. WalkPassedTaken' /\ WalkIsShort'
  BY <1>1, <1>2, <1>3, <1>4, <1>5
     DEF Inductive, Walk, WalkPassedTaken, WalkIsShort, Passed
<1>. QED  BY <1>7, <1>8 DEF Inductive

LEMMA PlaceOK == Inductive /\ Place => Inductive'
<1> SUFFICES ASSUME Inductive, Place PROVE Inductive'
  OBVIOUS
<1>1. i \in 0 .. (N - 1) /\ random \in Index /\ steps <= i /\ steps \in Nat
  BY DEF Inductive, Place, TypeOK, WalkPassedTaken, WalkIsShort
<1>2. TypeOK' /\ DoneAtEnd' /\ WalkIsShort' /\ WalkPassedTaken'
  <2>1. TypeOK'
    BY <1>1 DEF Inductive, Place, TypeOK
  <2>. QED  BY <1>1, <2>1 DEF Place, DoneAtEnd, WalkIsShort, WalkPassedTaken
<1>3. /\ \A j \in 0 .. (i - 1) : block'[j] = block[j] /\ block[j] # random
      /\ block'[i] = random
  BY <1>1 DEF Inductive, Place, TypeOK, FlagsAgree
<1>4. \A j, k \in 0 .. i : block'[j] = block'[k] => j = k
  BY <1>1, <1>3 DEF Inductive, FlagsAgree
<1>5. \A k \in Index : ~reset_flag'[k] <=> k = random \/ ~reset_flag[k]
  BY <1>1 DEF Inductive, Place, TypeOK
<1>6. \A k \in Index : ~reset_flag'[k] <=> \E j \in 0 .. i : block'[j] = k
  BY <1>1, <1>3, <1>5 DEF Inductive, FlagsAgree
<1>7. i' = i + 1 /\ i' - 1 = i
  BY <1>1 DEF Place
<1>8. FlagsAgree'
  BY <1>4, <1>6, <1>7 DEF FlagsAgree
<1>. QED  BY <1>2, <1>8 DEF Inductive

LEMMA LeaveOK == Inductive /\ Leave => Inductive'
BY DEF Inductive, Leave, TypeOK, FlagsAgree, DoneAtEnd, WalkIsShort, WalkPassedTaken

LEMMA NextInductive == Inductive /\ [Next]_vars => Inductive'
<1>1. Inductive /\ UNCHANGED vars => Inductive'
  BY DEF Inductive, vars, TypeOK, FlagsAgree, DoneAtEnd, WalkIsShort,
         WalkPassedTaken, Passed
<1>. QED  BY <1>1, DrawOK, WalkOK, PlaceOK, LeaveOK DEF Next

LEMMA AlwaysInductive == Spec => []Inductive
BY InitInductive, NextInductive, PTL DEF Spec

(* A full deal of different blocks leaves none out.                        *)
LEMMA DoneIsShuffle == Inductive => EndsInShuffle
<1> SUFFICES ASSUME Inductive, pc = "done" PROVE EndsInShuffle
  BY DEF EndsInShuffle
<1>1. block \in [Index -> Index]
  BY DEF Inductive, TypeOK
<1>2. \A j, k \in Index : block[j] = block[k] => j = k
  BY DEF Inductive, DoneAtEnd, FlagsAgree
<1>3. block \in Injection(Index, Index)
  BY <1>1, <1>2 DEF Injection, IsInjective
<1>4. IsFiniteSet(Index)
  BY FS_Interval
<1>5. block \in Surjection(Index, Index)
  BY <1>3, <1>4, FS_Injection
<1>. QED  BY <1>2, <1>5 DEF EndsInShuffle, Surjection

(* The locals and arrays of change_map keep their ranges: no access is out *)
(* of bounds.                                                              *)
THEOREM TypeCorrect == Spec => []TypeOK
<1>. QED  BY AlwaysInductive, PTL DEF Inductive

(* However the random numbers fall, the deal is a permutation: change_map  *)
(* loses no block and doubles none.                                        *)
THEOREM DealIsShuffle == Spec => []EndsInShuffle
<1>. QED  BY AlwaysInductive, DoneIsShuffle, PTL

(* No walk is longer than the number of blocks dealt before it, so the     *)
(* loop of change_map that has no bound of its own always ends.            *)
THEOREM WalksAreShort == Spec => []WalkIsShort
<1>. QED  BY AlwaysInductive, PTL DEF Inductive
=============================================================================

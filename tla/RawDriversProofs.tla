-------------------------- MODULE RawDriversProofs --------------------------
(***************************************************************************)
(* Proofs about tslib's drivers of other devices: the four properties of   *)
(* RawDrivers for all devices, places, frames and bounds.                  *)
(*                                                                         *)
(* Each driver has an invariant of its own, since only one driver is       *)
(* configured and an action of another leaves it alone.  That of the       *)
(* Palm Pre relates the chip's settings to those the driver remembers; the *)
(* others say that what is on its way, from the driver's buffer to the     *)
(* line, brings a listener from what the program has got to where the pen  *)
(* is: as packets for touchkit, as the last record for the drivers that    *)
(* read records, as commands for dmc and as events for galax.              *)
(***************************************************************************)
EXTENDS RawDrivers, TLAPS, WellFoundedInduction, SequenceTheorems, FiniteSetTheorems

-----------------------------------------------------------------------------
(* Facts about numbers and about functions that are defined step by step   *)

-----------------------------------------------------------------------------
(* Induction over the numbers up to L, and what is computed along them      *)

\* What holds of 0, and of n + 1 if of n, holds of every number up to L.
LEMMA CountUp ==
  ASSUME NEW L \in Nat, NEW T, 0 \in T, \A n \in 0 .. L - 1 : n \in T => n + 1 \in T
  PROVE  \A n \in 0 .. L : n \in T
<1> DEFINE B == (0 .. L) \ T
<1> SUFFICES ASSUME B # {}
             PROVE  FALSE
  OBVIOUS
<1>1. PICK x \in B : \A y \in B : <<y, x>> \notin OpToRel(<, Nat)
  <2>1. B \subseteq Nat
    OBVIOUS
  <2>. HIDE DEF B
  <2>. QED  BY <2>1, NatLessThanWellFounded, WFMin
<1>2. x \in 1 .. L /\ x - 1 \in 0 .. L - 1
  OBVIOUS
<1>3. x - 1 \in B
  BY <1>2
<1>4. <<x - 1, x>> \in OpToRel(<, Nat)
  BY <1>2, <1>3 DEF OpToRel
<1>. QED  BY <1>1, <1>3, <1>4

\* the values of a function on 0 .. L in D, each but a following from the one before
Runs(f, L, D, a, G) ==
  f \in [0 .. L -> D] /\ f[0] = a /\ \A k \in 1 .. L : f[k] = G[k][f[k - 1]]

\* There is such a function.
LEMMA StepsExist ==
  ASSUME NEW L \in Nat, NEW D, NEW a \in D, NEW G \in [1 .. L -> [D -> D]]
  PROVE  \E f : Runs(f, L, D, a, G)
<1> DEFINE UpTo(f, n) == Runs(f, n, D, a, G)
           T == {n \in Nat : \E f : UpTo(f, n)}
<1>1. 0 \in T
  <2>1. UpTo([k \in 0 .. 0 |-> a], 0)
    BY DEF Runs
  <2>. QED  BY <2>1
<1>2. ASSUME NEW n \in 0 .. L - 1, n \in T
      PROVE  n + 1 \in T
  <2>0. n \in Nat /\ n + 1 \in 1 .. L
    BY <1>2
  <2>1. PICK f : UpTo(f, n)
    BY <1>2
  <2>. USE DEF Runs
  <2>2. f[n] \in D /\ G[n + 1][f[n]] \in D
    BY <2>0, <2>1
  <2> DEFINE g == [k \in 0 .. n + 1 |-> IF k = n + 1 THEN G[n + 1][f[n]] ELSE f[k]]
  <2>3. g \in [0 .. n + 1 -> D]
    <3>1. \A k \in 0 .. n + 1 : k # n + 1 => k \in 0 .. n
      BY <2>0
    <3>. QED  BY <2>1, <2>2, <3>1
  <2>4. g[0] = a
    BY <2>0, <2>1
  <2>5. ASSUME NEW k \in 1 .. n + 1
        PROVE  g[k] = G[k][g[k - 1]]
    <3>1. k - 1 \in 0 .. n /\ k - 1 # n + 1
      BY <2>0
    <3>2. g[k - 1] = f[k - 1]
      BY <2>0, <3>1
    <3>3. CASE k = n + 1
      <4>1. k - 1 = n /\ g[k] = G[k][f[n]]
        BY <2>0, <3>3
      <4>. QED  BY <3>2, <4>1
    <3>4. CASE k # n + 1
      <4>1. k \in 1 .. n /\ g[k] = f[k]
        BY <2>0, <3>4
      <4>. QED  BY <2>1, <3>2, <4>1
    <3>. QED  BY <3>3, <3>4
  <2>6. \E h : UpTo(h, n + 1)
    <3>. HIDE DEF g
    <3>. QED  BY <2>3, <2>4, <2>5
  <2>. HIDE DEF Runs
  <2>7. n + 1 \in Nat
    BY <2>0
  <2>. QED  BY <2>6, <2>7
<1>3. L \in T
  <2>. HIDE DEF T
  <2>1. \A n \in 0 .. L - 1 : n \in T => n + 1 \in T
    BY <1>2
  <2>2. \A n \in 0 .. L : n \in T
    BY <1>1, <2>1, CountUp
  <2>. QED  BY <2>2
<1>. QED  BY <1>3

\* Of a set of numbers that is not empty, one is the least.
LEMMA LeastExists ==
  ASSUME NEW S \in SUBSET Nat, S # {}
  PROVE  \E n \in S : \A k \in S : n <= k
<1>1. PICK n \in S : \A k \in S : <<k, n>> \notin OpToRel(<, Nat)
  BY NatLessThanWellFounded, WFMin
<1>2. \A k \in S : ~(k < n)
  BY <1>1 DEF OpToRel
<1>. QED  BY <1>2

-----------------------------------------------------------------------------
(* The Palm Pre: the settings of the chip and those the driver remembers   *)

-----------------------------------------------------------------------------
(* The Palm Pre                                                            *)

Samples == [x : Int, y : Int, pressure : Int]
Settings == OfChip \cup OfModule
SettingValues == [Settings -> Int]
ChipValues == [OfChip -> Int]
References == [Field -> Capacity]
PalmStates ==
  [set : SettingValues, chip : ChipValues, references : References,
   last_valid : Seq(Samples), discard_frames : 0 .. DISCARD_FRAMES, old_scanrate : Int]
\* as the parameters of the configuration leave the module
Settled(m) == /\ m \in PalmStates
              /\ m.set["noise"] \in Nat /\ m.last_valid = <<>> /\ m.discard_frames = 0

\* The state of the driver with other settings
With(m, s, c) == [m EXCEPT !.set = s, !.chip = c]

\* Other settings leave the rest of the driver of the Palm Pre as it is.
LEMMA OtherSettings ==
  ASSUME NEW m \in PalmStates, NEW s \in [Settings -> Int], NEW c \in [OfChip -> Int]
  PROVE  LET t == With(m, s, c)
         IN /\ t \in PalmStates /\ t.last_valid = m.last_valid
            /\ t.discard_frames = m.discard_frames /\ t.old_scanrate = m.old_scanrate
            /\ t.references = m.references /\ t.set = s /\ t.chip = c
<1> DEFINE t == With(m, s, c)
<1> DEFINE u == [m EXCEPT !.set = s]
<1>6. u = [set |-> s, chip |-> m.chip, references |-> m.references, last_valid |-> m.last_valid,
           discard_frames |-> m.discard_frames, old_scanrate |-> m.old_scanrate]
  <2>1. s \in SettingValues
    BY DEF SettingValues
  <2>. QED  BY <2>1 DEF PalmStates
<1>5. t = [u EXCEPT !.chip = c]
  BY DEF With
<1>. HIDE DEF u
<1>7. t = [set |-> s, chip |-> c, references |-> m.references, last_valid |-> m.last_valid,
           discard_frames |-> m.discard_frames, old_scanrate |-> m.old_scanrate]
  BY <1>5, <1>6
<1>. HIDE DEF t
<1>8. t \in PalmStates
  BY <1>7 DEF PalmStates, SettingValues, ChipValues, References
<1>9. /\ t.last_valid = m.last_valid /\ t.discard_frames = m.discard_frames
      /\ t.old_scanrate = m.old_scanrate /\ t.references = m.references
      /\ t.set = s /\ t.chip = c
  BY <1>7
<1>. QED  BY <1>8, <1>9 DEF t

\* A value that is set in the chip is remembered, and nothing else changes.
LEMMA ChipSetting ==
  ASSUME NEW m \in PalmStates, NEW name \in OfChip, NEW v \in Int
  PROVE  LET t == SetInChip(m, name, v, TRUE)
         IN /\ t \in PalmStates /\ t.last_valid = m.last_valid
            /\ t.discard_frames = m.discard_frames /\ t.old_scanrate = m.old_scanrate
            /\ t.references = m.references /\ t.set["noise"] = m.set["noise"]
            /\ \E u \in Int : /\ t.set = [m.set EXCEPT ![name] = u]
                             /\ t.chip = [m.chip EXCEPT ![name] = u]
<1> DEFINE u == IF name = "timestamp_mode" /\ v # 0 THEN 1 ELSE v
           s == [m.set EXCEPT ![name] = u]
           c == [m.chip EXCEPT ![name] = u]
           t == SetInChip(m, name, v, TRUE)
<1>1. u \in Int
  OBVIOUS
<1>2. t = With(m, s, c)
  BY DEF SetInChip, PalmStates, SettingValues, ChipValues, References, With
<1>3. name # "noise" /\ "noise" \in Settings /\ name \in Settings
  BY DEF OfChip, Settings, OfModule
<1>. HIDE DEF u
<1>4. s \in [Settings -> Int] /\ c \in [OfChip -> Int]
  BY <1>1 DEF PalmStates, SettingValues, ChipValues, References
<1>5. s["noise"] = m.set["noise"]
  BY <1>3 DEF PalmStates, SettingValues, ChipValues, References
<1>6. \E w \in Int : s = [m.set EXCEPT ![name] = w] /\ c = [m.chip EXCEPT ![name] = w]
  BY <1>1
<1>. HIDE DEF s, c, t
<1>7. /\ t \in PalmStates /\ t.last_valid = m.last_valid
      /\ t.discard_frames = m.discard_frames /\ t.old_scanrate = m.old_scanrate
      /\ t.references = m.references /\ t.set = s /\ t.chip = c
  BY <1>2, <1>4, OtherSettings
<1>. QED  BY <1>5, <1>6, <1>7 DEF t

\* A scan rate that is set in the chip is remembered, and nothing else changes.
LEMMA RateSetting ==
  ASSUME NEW m \in PalmStates, NEW v \in Int
  PROVE  LET t == SetInChip(m, "scanrate", v, TRUE)
         IN /\ t \in PalmStates /\ t.last_valid = m.last_valid
            /\ t.discard_frames = m.discard_frames /\ t.old_scanrate = m.old_scanrate
            /\ t.references = m.references /\ t.set["noise"] = m.set["noise"]
            /\ t.set["scanrate"] = v /\ t.chip["scanrate"] = v
<1> DEFINE s == [m.set EXCEPT !["scanrate"] = v]
           c == [m.chip EXCEPT !["scanrate"] = v]
           t == SetInChip(m, "scanrate", v, TRUE)
<1>1. t = With(m, s, c)
  BY DEF SetInChip, PalmStates, SettingValues, ChipValues, References, With
<1>2. /\ "scanrate" \in OfChip /\ "scanrate" \in Settings /\ "noise" \in Settings
      /\ "scanrate" # "noise"
  BY DEF OfChip, Settings, OfModule
<1>3. s \in [Settings -> Int] /\ c \in [OfChip -> Int]
  BY DEF PalmStates, SettingValues, ChipValues, References
<1>4. s["noise"] = m.set["noise"] /\ s["scanrate"] = v /\ c["scanrate"] = v
  BY <1>2 DEF PalmStates, SettingValues, ChipValues, References
<1>. HIDE DEF s, c, t
<1>5. /\ t \in PalmStates /\ t.last_valid = m.last_valid
      /\ t.discard_frames = m.discard_frames /\ t.old_scanrate = m.old_scanrate
      /\ t.references = m.references /\ t.set = s /\ t.chip = c
  BY <1>1, <1>3, OtherSettings
<1>. QED  BY <1>4, <1>5 DEF t

\* A setting that the chip refuses is not remembered, and nothing changes.
LEMMA ChipRefusing ==
  ASSUME NEW m, NEW name, NEW v, NEW works \in BOOLEAN
  PROVE  SetInChip(m, name, v, works) = IF works THEN SetInChip(m, name, v, TRUE) ELSE m
BY DEF SetInChip

\* One frame less to discard changes nothing else.
LEMMA Discarding ==
  ASSUME NEW m \in PalmStates, NEW n \in Int
  PROVE  [m EXCEPT !.discard_frames = n] =
           [set |-> m.set, chip |-> m.chip, references |-> m.references,
            last_valid |-> m.last_valid, discard_frames |-> n, old_scanrate |-> m.old_scanrate]
BY DEF PalmStates

\* A parameter of the configuration leaves the module settled.
LEMMA SettingStaysSettled ==
  ASSUME NEW m, Settled(m), NEW name \in Settings, NEW v \in Nat
  PROVE  Settled(set_setting(m, ParameterSets(name), v, TRUE))
<1> DEFINE n == ParameterSets(name)
<1>1. n \in Settings
  BY DEF ParameterSets, Settings, OfChip, OfModule
<1>. HIDE DEF n
<1>2. CASE n \in OfChip
  <2>1. set_setting(m, n, v, TRUE) = SetInChip(m, n, v, TRUE)
    BY <1>2 DEF set_setting
  <2>2. "scanrate" \in OfChip /\ "scanrate" \in Settings
    BY DEF OfChip, Settings
  <2>3. PICK u \in Int : /\ SetInChip(m, n, v, TRUE).set = [m.set EXCEPT ![n] = u]
                         /\ SetInChip(m, n, v, TRUE).chip = [m.chip EXCEPT ![n] = u]
    <3>1. m \in PalmStates /\ v \in Int
      BY DEF Settled
    <3>. QED  BY <1>2, <3>1, ChipSetting
  <2>5. m \in PalmStates /\ v \in Int
    BY DEF Settled
  <2>6. /\ SetInChip(m, n, v, TRUE) \in PalmStates
        /\ SetInChip(m, n, v, TRUE).last_valid = m.last_valid
        /\ SetInChip(m, n, v, TRUE).discard_frames = m.discard_frames
        /\ SetInChip(m, n, v, TRUE).set["noise"] = m.set["noise"]
    BY <1>2, <2>5, ChipSetting
  <2>. QED  BY <2>1, <2>6 DEF Settled, n
<1>3. CASE n \notin OfChip
  <2>1. set_setting(m, n, v, TRUE) = [m EXCEPT !.set = [m.set EXCEPT ![n] = v]]
    BY <1>3 DEF set_setting, SetInModule, Settled, PalmStates, SettingValues, ChipValues, References
  <2> DEFINE s == [m.set EXCEPT ![n] = v]
  <2>2. s \in [Settings -> Int] /\ s["noise"] \in Nat
    <3>1. "scanrate" # n /\ "scanrate" \in Settings /\ "noise" \in Settings
      BY <1>3 DEF OfChip, OfModule, Settings
    <3>. QED  BY <1>1, <3>1 DEF Settled, PalmStates, SettingValues, ChipValues, References
  <2>. HIDE DEF s
  <2>3. Settled([m EXCEPT !.set = s])
    BY <2>2 DEF Settled, PalmStates, SettingValues, ChipValues, References
  <2>. QED  BY <2>1, <2>3 DEF s, n
<1>. QED  BY <1>2, <1>3

\* All the parameters of the configuration leave it settled.
LEMMA ParametersSettle ==
  ASSUME NEW m, Settled(m), NEW q \in Seq(Settings \X Nat)
  PROVE  Settled(parse_parameters(m, q))
<1> DEFINE L == Len(q)
           D == {s \in PalmStates : Settled(s)}
           F(s, i) == set_setting(s, ParameterSets(q[i][1]), q[i][2], TRUE)
           G == [i \in 1 .. L |-> [s \in D |-> F(s, i)]]
           f == CHOOSE g : g = [i \in 0 .. L |-> IF i = 0 THEN m ELSE F(g[i - 1], i)]
<1>1. L \in Nat /\ m \in D
  BY DEF Settled
<1>2. \A s \in D, i \in 1 .. L : F(s, i) \in D
  <2> SUFFICES ASSUME NEW s \in D, NEW i \in 1 .. L
               PROVE  F(s, i) \in D
    OBVIOUS
  <2>1. q[i] \in Settings \X Nat
    OBVIOUS
  <2>2. Settled(F(s, i))
    BY <2>1, SettingStaysSettled
  <2>. QED  BY <2>2 DEF Settled
<1>3. G \in [1 .. L -> [D -> D]]
  BY <1>2
<1>4. PICK g : Runs(g, L, D, m, G)
  <2>. HIDE DEF D, G, L
  <2>. QED  BY <1>1, <1>3, StepsExist
<1>5. \A i \in 0 .. L : i # 0 => i - 1 \in 0 .. L /\ i \in 1 .. L
  BY <1>1
<1>6. g = [i \in 0 .. L |-> IF i = 0 THEN m ELSE F(g[i - 1], i)]
  <2>. HIDE DEF F, L, D
  <2>. USE DEF Runs
  <2>1. \A i \in 1 .. L : G[i][g[i - 1]] = F(g[i - 1], i)
    BY <1>4, <1>5
  <2>2. \A i \in 0 .. L : g[i] = IF i = 0 THEN m ELSE F(g[i - 1], i)
    BY <1>4, <1>5, <2>1
  <2>3. g = [i \in 0 .. L |-> g[i]]
    BY <1>4
  <2>. QED  BY <2>2, <2>3
<1>7. f = [i \in 0 .. L |-> IF i = 0 THEN m ELSE F(f[i - 1], i)]
  <2>. HIDE DEF F, L
  <2>. QED  BY <1>6
<1>. HIDE DEF F, f, D, L
<1>10. ASSUME NEW k \in 0 .. L
       PROVE  f[k] = IF k = 0 THEN m ELSE F(f[k - 1], k)
  BY ONLY <1>7
<1>8. \A i \in 0 .. L : f[i] \in D
  <2> DEFINE T == {i \in 0 .. L : f[i] \in D}
  <2>1. 0 \in T
    BY <1>1, <1>10
  <2>2. \A i \in 0 .. L - 1 : i \in T => i + 1 \in T
    <3> SUFFICES ASSUME NEW i \in 0 .. L - 1, f[i] \in D
                 PROVE  f[i + 1] \in D /\ i + 1 \in 0 .. L
      OBVIOUS
    <3>1. i + 1 \in 1 .. L /\ i + 1 \in 0 .. L /\ i + 1 # 0 /\ i + 1 - 1 = i
      BY <1>1
    <3>2. f[i + 1] = F(f[i + 1 - 1], i + 1)
      BY <1>10, <3>1
    <3>. QED  BY <1>2, <3>1, <3>2
  <2>. HIDE DEF T
  <2>3. \A i \in 0 .. L : i \in T
    BY <1>1, <2>1, <2>2, CountUp
  <2>. QED  BY <2>3 DEF T
<1>9. parse_parameters(m, q) = f[L]
  BY DEF parse_parameters, f, F, L
<1>. QED  BY <1>1, <1>8, <1>9 DEF D

\* A capacity is a number of 16 bits, and so is what one is less than another.
LEMMA CapacityIsNat == \A v \in Capacity : v \in Nat /\ v <= 65535
BY DEF Capacity

\* What a measure exceeds its reference by is a capacity again.
LEMMA CapacityLeft == \A a, b \in Capacity : (IF a > b THEN 0 ELSE b - a) \in Capacity
BY DEF Capacity

\* Each column and row is a field of its own, and there is a strongest one.
LEMMA FieldsAreFields ==
  /\ \A x \in Columns, y \in Rows : field_nr(x, y) \in Field
  /\ Columns \X Rows # {}
<1> DEFINE N(y) == y * H_FIELDS
<1>1. H_FIELDS \in Nat /\ V_FIELDS \in Nat /\ H_FIELDS > 0 /\ V_FIELDS > 0
  BY PalmpreAssumption
<1>2. ASSUME NEW x \in Columns, NEW y \in Rows
      PROVE  field_nr(x, y) \in Field
  <2>1. x \in Nat /\ x < H_FIELDS /\ y \in Nat /\ y <= V_FIELDS - 1
    BY <1>1, <1>2 DEF Columns, Rows
  <2>2. y * H_FIELDS \in Nat /\ (y + 1) * H_FIELDS = y * H_FIELDS + H_FIELDS
    BY <1>1, <2>1
  <2>3. (V_FIELDS - (y + 1)) * H_FIELDS \in Nat
    BY <1>1, <2>1
  <2>4. (V_FIELDS - (y + 1)) * H_FIELDS = V_FIELDS * H_FIELDS - (y + 1) * H_FIELDS
    BY <1>1, <2>1
  <2>5. V_FIELDS * H_FIELDS = H_FIELDS * V_FIELDS /\ H_FIELDS * V_FIELDS \in Nat
    BY <1>1
  <2> DEFINE A == y * H_FIELDS
             B == H_FIELDS * V_FIELDS
             D == (V_FIELDS - (y + 1)) * H_FIELDS
  <2>6. A \in Nat /\ B \in Nat /\ D \in Nat /\ D = B - (A + H_FIELDS)
    BY <2>2, <2>3, <2>4, <2>5
  <2>7. field_nr(x, y) = A + (H_FIELDS - x) - 1 /\ Field = 0 .. B - 1
    BY DEF field_nr, Field
  <2>. HIDE DEF A, B, D
  <2>. QED  BY <1>1, <2>1, <2>6, <2>7
<1>3. <<0, 0>> \in Columns \X Rows
  BY <1>1 DEF Columns, Rows
<1>. QED  BY <1>2, <1>3

\* The strongest field that the driver finds is one of the chip's.
LEMMA StrongestIsAField ==
  ASSUME NEW field \in [Field -> Capacity]
  PROVE  LET c == Strongest(field)
         IN c \in Columns \X Rows /\ field_nr(c[1], c[2]) \in Field
<1> DEFINE P == Columns \X Rows
           V(c) == field[field_nr(c[1], c[2])]
           Above(c, d) == \/ V(c) > V(d)
                          \/ V(c) = V(d) /\ (c[2] < d[2] \/ (c[2] = d[2] /\ c[1] <= d[1]))
<1>1. \A c \in P : c[1] \in Nat /\ c[2] \in Nat /\ V(c) \in Nat /\ V(c) <= 65535
  <2> SUFFICES ASSUME NEW c \in P
               PROVE  c[1] \in Nat /\ c[2] \in Nat /\ V(c) \in Nat /\ V(c) <= 65535
    OBVIOUS
  <2>1. c[1] \in Columns /\ c[2] \in Rows
    OBVIOUS
  <2>2. field_nr(c[1], c[2]) \in Field
    BY <2>1, FieldsAreFields
  <2>3. V(c) \in Capacity
    BY <2>2
  <2>4. c[1] \in Nat /\ c[2] \in Nat
    BY <2>1, PalmpreAssumption DEF Columns, Rows
  <2>5. V(c) \in Nat /\ V(c) <= 65535
    <3>. HIDE DEF V
    <3>. QED  BY <2>3, CapacityIsNat
  <2>. QED  BY <2>4, <2>5
<1>2. P # {}
  BY FieldsAreFields
<1>. HIDE DEF V, P
<1> DEFINE W == {65535 - V(c) : c \in P}
<1>3. PICK a \in P : \A d \in P : V(d) <= V(a)
  <2>1. W \subseteq Nat /\ W # {}
    BY <1>1, <1>2, SMT
  <2>2. PICK n \in W : \A k \in W : n <= k
    <3>. HIDE DEF W
    <3>. QED  BY <2>1, LeastExists
  <2>3. PICK c \in P : n = 65535 - V(c)
    BY <2>2, SMT
  <2>4. \A d \in P : 65535 - V(d) \in W
    BY SMT
  <2>5. \A d \in P : n <= 65535 - V(d)
    <3>. HIDE DEF W
    <3>. QED  BY <2>2, <2>4, SMT
  <2>. QED  BY <1>1, <2>3, <2>5, SMT
<1> DEFINE Q == {c \in P : V(c) = V(a)}
           Y == {c[2] : c \in Q}
<1>4. PICK y \in Y : \A k \in Y : y <= k
  <2>1. Y \subseteq Nat /\ Y # {}
    BY <1>1
  <2>. HIDE DEF Y
  <2>. QED  BY <2>1, LeastExists
<1> DEFINE X == {c[1] : c \in {d \in Q : d[2] = y}}
<1>5. PICK x \in X : \A k \in X : x <= k
  <2>1. X \subseteq Nat /\ X # {}
    BY <1>1, <1>4
  <2>. HIDE DEF X
  <2>. QED  BY <2>1, LeastExists
<1>6. PICK c \in P : V(c) = V(a) /\ c[2] = y /\ c[1] = x
  BY <1>5
<1>7. \A d \in P : Above(c, d)
  <2> SUFFICES ASSUME NEW d \in P
               PROVE  Above(c, d)
    OBVIOUS
  <2>1. CASE V(d) # V(a)
    BY <1>1, <1>3, <1>6, <2>1
  <2>2. CASE V(d) = V(a) /\ d[2] # y
    <3>1. d[2] \in Y
      BY <2>2
    <3>. HIDE DEF Y
    <3>. QED  BY <1>1, <1>4, <1>6, <2>2, <3>1
  <2>3. CASE V(d) = V(a) /\ d[2] = y
    <3>1. d[1] \in X
      BY <2>3
    <3>. HIDE DEF X
    <3>. QED  BY <1>1, <1>5, <1>6, <2>3, <3>1
  <2>. QED  BY <2>1, <2>2, <2>3
<1>8. Strongest(field) = CHOOSE e \in P : \A d \in P : Above(e, d)
  BY DEF Strongest, P, V
<1>. HIDE DEF Above
<1>9. Strongest(field) \in P
  BY <1>7, <1>8
<1>. QED  BY <1>9, FieldsAreFields DEF P

\* The state of the driver with other references
Referring(m, frame) == [m EXCEPT !.references = update_references(m.references, frame).references]
FieldSeen(m, frame) == update_references(m.references, frame).field

\* update_references changes the references and nothing else of the driver.
LEMMA ReferencesKeep ==
  ASSUME NEW m \in PalmStates, NEW frame \in Frames
  PROVE  /\ Referring(m, frame) \in PalmStates
         /\ Referring(m, frame).set = m.set /\ Referring(m, frame).chip = m.chip
         /\ Referring(m, frame).last_valid = m.last_valid
         /\ Referring(m, frame).discard_frames = m.discard_frames
         /\ Referring(m, frame).old_scanrate = m.old_scanrate
         /\ FieldSeen(m, frame) \in [Field -> Capacity]
<1> DEFINE r == update_references(m.references, frame).references
<1>1. frame \in [Field -> Capacity] /\ m.references \in [Field -> Capacity]
  BY FramesAssumption DEF PalmStates, SettingValues, ChipValues, References
<1>2. r \in [Field -> Capacity]
  <2>1. r = [f \in Field |-> IF f \in InRange(frame) /\ frame[f] > m.references[f]
                             THEN frame[f] ELSE m.references[f]]
    BY DEF update_references
  <2>. QED  BY <1>1, <2>1
<1>3. FieldSeen(m, frame) \in [Field -> Capacity]
  <2>1. FieldSeen(m, frame) =
          [f \in Field |-> IF frame[f] > m.references[f] THEN 0 ELSE m.references[f] - frame[f]]
    BY DEF FieldSeen, update_references
  <2>3. \A f \in Field : frame[f] \in Capacity /\ m.references[f] \in Capacity
    BY <1>1
  <2>. QED  BY <2>1, <2>3, CapacityLeft
<1>5. Referring(m, frame) = [m EXCEPT !.references = r]
  BY DEF Referring
<1>. HIDE DEF r
<1>4. Referring(m, frame) =
        [set |-> m.set, chip |-> m.chip, references |-> r, last_valid |-> m.last_valid,
         discard_frames |-> m.discard_frames, old_scanrate |-> m.old_scanrate]
  BY <1>5 DEF PalmStates, SettingValues, ChipValues, References
<1>. QED  BY <1>2, <1>3, <1>4 DEF PalmStates, SettingValues, ChipValues, References

\* The chip is slowed down unless it is asleep already.
LEMMA Slept ==
  ASSUME NEW m \in PalmStates, NEW works \in BOOLEAN
  PROVE  LET t == Sleep(m, works)
         IN /\ t \in PalmStates /\ t.set["noise"] = m.set["noise"] /\ t.last_valid = m.last_valid
            /\ m.discard_frames # 0 => t = m
            /\ m.discard_frames = 0 => /\ t.discard_frames = DISCARD_FRAMES
                                       /\ t.old_scanrate = m.set["scanrate"]
<1>1. CASE m.discard_frames # 0
  BY <1>1 DEF Sleep
<1>2. CASE m.discard_frames = 0
  <2> DEFINE u == SetInChip(m, "scanrate", ASLEEP_SCANRATE, works)
  <2>1. "scanrate" \in OfChip /\ ASLEEP_SCANRATE \in Int
    BY PalmpreAssumption DEF OfChip
  <2>6. u = IF works THEN SetInChip(m, "scanrate", ASLEEP_SCANRATE, TRUE) ELSE m
    BY ChipRefusing
  <2>. HIDE DEF u
  <2>2. u \in PalmStates /\ u.set["noise"] = m.set["noise"] /\ u.last_valid = m.last_valid
    BY <2>1, <2>6, RateSetting
  <2>3. Sleep(m, works) =
          [set |-> u.set, chip |-> u.chip, references |-> u.references,
           last_valid |-> u.last_valid, discard_frames |-> DISCARD_FRAMES,
           old_scanrate |-> m.set["scanrate"]]
    BY <1>2, <2>2 DEF Sleep, PalmStates, SettingValues, ChipValues, References, u
  <2>4. DISCARD_FRAMES \in 0 .. DISCARD_FRAMES
    BY PalmpreAssumption
  <2>5. m.set["scanrate"] \in Int
    BY DEF PalmStates, SettingValues, ChipValues, References, Settings, OfChip
  <2>. QED  BY <1>2, <2>2, <2>3, <2>4, <2>5 DEF PalmStates, SettingValues, ChipValues, References
<1>. QED  BY <1>1, <1>2

\* Its rate is restored, if the ioctl works, with the first good frame.
LEMMA Woken ==
  ASSUME NEW m \in PalmStates, NEW works \in BOOLEAN, m.discard_frames > 0
  PROVE  LET t == [Wake(m, works) EXCEPT !.discard_frames = @ - 1]
         IN /\ t \in PalmStates /\ t.set["noise"] = m.set["noise"] /\ t.last_valid = m.last_valid
            /\ t.discard_frames = m.discard_frames - 1 /\ t.old_scanrate = m.old_scanrate
            /\ m.discard_frames = DISCARD_FRAMES /\ works =>
                 t.set["scanrate"] = m.old_scanrate /\ t.chip["scanrate"] = m.old_scanrate
            /\ m.discard_frames # DISCARD_FRAMES =>
                 t.set["scanrate"] = m.set["scanrate"] /\ t.chip["scanrate"] = m.chip["scanrate"]
<1> DEFINE w == Wake(m, works)
           n == m.discard_frames - 1
<1>1. "scanrate" \in OfChip /\ "scanrate" \in Settings /\ m.old_scanrate \in Int
  BY DEF OfChip, Settings, PalmStates, SettingValues, ChipValues, References
<1>2. /\ w \in PalmStates /\ w.set["noise"] = m.set["noise"] /\ w.last_valid = m.last_valid
      /\ w.discard_frames = m.discard_frames /\ w.old_scanrate = m.old_scanrate
  <2>1. CASE m.discard_frames = DISCARD_FRAMES
    <3>1. w = SetInChip(m, "scanrate", m.old_scanrate, works)
      BY <2>1 DEF Wake
    <3>2. w = IF works THEN SetInChip(m, "scanrate", m.old_scanrate, TRUE) ELSE m
      BY <3>1, ChipRefusing
    <3>. HIDE DEF w
    <3>. QED  BY <1>1, <3>2, RateSetting
  <2>2. CASE m.discard_frames # DISCARD_FRAMES
    BY <2>2 DEF Wake
  <2>. QED  BY <2>1, <2>2
<1>3. ASSUME m.discard_frames = DISCARD_FRAMES, works
      PROVE  w.set["scanrate"] = m.old_scanrate /\ w.chip["scanrate"] = m.old_scanrate
  <2>1. w = SetInChip(m, "scanrate", m.old_scanrate, TRUE)
    BY <1>3, ChipRefusing DEF Wake
  <2>. HIDE DEF w
  <2>. QED  BY <1>1, <1>3, <2>1, RateSetting
<1>4. m.discard_frames # DISCARD_FRAMES => w = m
  BY DEF Wake
<1>5. n \in 0 .. DISCARD_FRAMES
  BY PalmpreAssumption DEF PalmStates, SettingValues, ChipValues, References
<1>6. [w EXCEPT !.discard_frames = @ - 1] =
        [set |-> w.set, chip |-> w.chip, references |-> w.references,
         last_valid |-> w.last_valid, discard_frames |-> n, old_scanrate |-> w.old_scanrate]
  <2>1. n = w.discard_frames - 1 /\ n \in Int
    BY <1>2, <1>5
  <2>. HIDE DEF w, n
  <2>2. [w EXCEPT !.discard_frames = @ - 1] = [w EXCEPT !.discard_frames = n]
    BY <2>1
  <2>3. [w EXCEPT !.discard_frames = n] =
          [set |-> w.set, chip |-> w.chip, references |-> w.references,
           last_valid |-> w.last_valid, discard_frames |-> n, old_scanrate |-> w.old_scanrate]
    BY <1>2, <2>1, Discarding
  <2>. QED  BY <2>2, <2>3
<1>. HIDE DEF w
<1>. QED  BY <1>2, <1>3, <1>4, <1>5, <1>6 DEF PalmStates, SettingValues, ChipValues, References, w

Good(frame) == InRange(frame) = Field

\* A frame that is out of range gives nothing, and slows the chip down unless it sleeps already.
LEMMA BadRead ==
  ASSUME NEW m \in PalmStates, NEW frame \in Frames, NEW works \in BOOLEAN, ~Good(frame)
  PROVE  LET v == palmpre_read(m, frame, works)
             t == v.mod
         IN /\ v.wrote = <<>>
            /\ t \in PalmStates /\ t.set["noise"] = m.set["noise"] /\ t.last_valid = m.last_valid
            /\ m.discard_frames # 0 => /\ t.set = m.set /\ t.chip = m.chip
                                       /\ t.discard_frames = m.discard_frames
                                       /\ t.old_scanrate = m.old_scanrate
            /\ m.discard_frames = 0 => /\ t.discard_frames = DISCARD_FRAMES
                                       /\ t.old_scanrate = m.set["scanrate"]
<1> DEFINE new == Referring(m, frame)
           v == palmpre_read(m, frame, works)
<1>1. v = [mod |-> Sleep(new, works), wrote |-> <<>>]
  BY DEF palmpre_read, Referring, Good, update_references
<1>2. /\ new \in PalmStates /\ new.set = m.set /\ new.chip = m.chip
      /\ new.last_valid = m.last_valid /\ new.discard_frames = m.discard_frames
      /\ new.old_scanrate = m.old_scanrate
  BY ReferencesKeep
<1>. HIDE DEF new, v
<1>3. LET t == Sleep(new, works)
      IN /\ t \in PalmStates /\ t.set["noise"] = new.set["noise"] /\ t.last_valid = new.last_valid
         /\ new.discard_frames # 0 => t = new
         /\ new.discard_frames = 0 => /\ t.discard_frames = DISCARD_FRAMES
                                      /\ t.old_scanrate = new.set["scanrate"]
  BY <1>2, Slept
<1> DEFINE t == Sleep(new, works)
<1>4. v.mod = t /\ v.wrote = <<>>
  BY <1>1
<1>. HIDE DEF t
<1>5. /\ t \in PalmStates /\ t.set["noise"] = m.set["noise"] /\ t.last_valid = m.last_valid
      /\ m.discard_frames # 0 => t = new
      /\ m.discard_frames = 0 => t.discard_frames = DISCARD_FRAMES /\ t.old_scanrate = m.set["scanrate"]
  BY <1>2, <1>3 DEF t
<1>. QED  BY <1>2, <1>4, <1>5 DEF v

\* A good frame while frames are discarded gives nothing, and the first one restores the rate.
LEMMA DiscardedRead ==
  ASSUME NEW m \in PalmStates, NEW frame \in Frames, NEW works \in BOOLEAN, Good(frame),
         m.discard_frames > 0
  PROVE  LET v == palmpre_read(m, frame, works)
             t == v.mod
         IN /\ v.wrote = <<>>
            /\ t \in PalmStates /\ t.set["noise"] = m.set["noise"] /\ t.last_valid = m.last_valid
            /\ t.discard_frames = m.discard_frames - 1 /\ t.old_scanrate = m.old_scanrate
            /\ m.discard_frames = DISCARD_FRAMES /\ works =>
                 t.set["scanrate"] = m.old_scanrate /\ t.chip["scanrate"] = m.old_scanrate
            /\ m.discard_frames # DISCARD_FRAMES =>
                 t.set["scanrate"] = m.set["scanrate"] /\ t.chip["scanrate"] = m.chip["scanrate"]
<1> DEFINE new == Referring(m, frame)
           v == palmpre_read(m, frame, works)
           t == [Wake(new, works) EXCEPT !.discard_frames = @ - 1]
<1>1. v.mod = t /\ v.wrote = <<>>
  BY DEF palmpre_read, Referring, Good, update_references
<1>2. /\ new \in PalmStates /\ new.set = m.set /\ new.chip = m.chip
      /\ new.last_valid = m.last_valid /\ new.discard_frames = m.discard_frames
      /\ new.old_scanrate = m.old_scanrate
  BY ReferencesKeep
<1>. HIDE DEF new, v
<1>3. /\ t \in PalmStates /\ t.set["noise"] = new.set["noise"] /\ t.last_valid = new.last_valid
      /\ t.discard_frames = new.discard_frames - 1 /\ t.old_scanrate = new.old_scanrate
      /\ new.discard_frames = DISCARD_FRAMES /\ works =>
           t.set["scanrate"] = new.old_scanrate /\ t.chip["scanrate"] = new.old_scanrate
      /\ new.discard_frames # DISCARD_FRAMES =>
           t.set["scanrate"] = new.set["scanrate"] /\ t.chip["scanrate"] = new.chip["scanrate"]
  BY <1>2, Woken
<1>. HIDE DEF t
<1>. QED  BY <1>1, <1>2, <1>3 DEF v

\* Where a touch is, between the strongest field and its neighbours, are numbers.
LEMMA PlacesAreNumbers ==
  ASSUME NEW set \in SettingValues, NEW field \in [Field -> Capacity],
         NEW x \in Columns, NEW y \in Rows, field[field_nr(x, y)] > 0
  PROVE  interpolate(set, field, x, y).x \in Int /\ interpolate(set, field, x, y).y \in Int
<1> DEFINE xy     == field[field_nr(x, y)]
           border == set["pressure"] - xy
           At(c, r) == IF c \in Columns /\ r \in Rows THEN field[field_nr(c, r)] ELSE border
           Moved(middle, before, after, delta) ==
             Truncated(3 * xy * middle + 2 * (after - before) * delta, 3 * xy)
<1>1. x \in Int /\ y \in Int
  BY PalmpreAssumption DEF Columns, Rows
<1>2. /\ set["pressure"] \in Int /\ set["sensor_delta_x"] \in Int /\ set["sensor_offset_x"] \in Int
      /\ set["sensor_delta_y"] \in Int /\ set["sensor_offset_y"] \in Int
  BY DEF SettingValues, Settings, OfModule
<1>3. \A c \in Columns, r \in Rows : field[field_nr(c, r)] \in Capacity
  BY FieldsAreFields
<1>4. \A c \in Columns, r \in Rows : field[field_nr(c, r)] \in Int
  BY <1>3, CapacityIsNat
<1>5. xy \in Int /\ xy > 0 /\ border \in Int
  BY <1>2, <1>4
<1>6. \A c, r : At(c, r) \in Int
  BY <1>4, <1>5
<1>. HIDE DEF xy, border, At
<1>7. ASSUME NEW a \in Int, NEW b \in Int, b > 0
      PROVE  Truncated(a, b) \in Int
  BY <1>7 DEF Truncated
<1>8. ASSUME NEW a \in Int, NEW b \in Int, NEW c \in Int, NEW d \in Int
      PROVE  Moved(a, b, c, d) \in Int
  <2>1. 3 * xy * a + 2 * (c - b) * d \in Int /\ 3 * xy \in Int /\ 3 * xy > 0
    BY <1>5
  <2>. QED  BY <1>7, <2>1
<1>9. /\ interpolate(set, field, x, y).x =
           Moved(set["sensor_delta_x"] * x + set["sensor_offset_x"],
                 At(x - 1, y), At(x + 1, y), set["sensor_delta_x"])
      /\ interpolate(set, field, x, y).y =
           Moved(set["sensor_delta_y"] * y + set["sensor_offset_y"],
                 At(x, y - 1), At(x, y + 1), set["sensor_delta_y"])
  BY DEF interpolate, At, border, xy
<1>10. /\ set["sensor_delta_x"] * x + set["sensor_offset_x"] \in Int
       /\ set["sensor_delta_y"] * y + set["sensor_offset_y"] \in Int
  BY <1>1, <1>2
<1>11. /\ At(x - 1, y) \in Int /\ At(x + 1, y) \in Int
       /\ At(x, y - 1) \in Int /\ At(x, y + 1) \in Int
  BY <1>6, Zenon
<1>. HIDE DEF Moved
<1>12. Moved(set["sensor_delta_x"] * x + set["sensor_offset_x"],
             At(x - 1, y), At(x + 1, y), set["sensor_delta_x"]) \in Int
  BY <1>2, <1>8, <1>10, <1>11, Zenon
<1>13. Moved(set["sensor_delta_y"] * y + set["sensor_offset_y"],
             At(x, y - 1), At(x, y + 1), set["sensor_delta_y"]) \in Int
  BY <1>2, <1>8, <1>10, <1>11, Zenon
<1>. QED  BY <1>9, <1>12, <1>13, Zenon

Press(s) == s \in Samples /\ s.pressure > 0

\* A good frame that is not discarded gives a touch, which is kept, or the end of the one kept.
LEMMA TouchRead ==
  ASSUME NEW m \in PalmStates, m.set["noise"] \in Nat, NEW frame \in Frames,
         NEW works \in BOOLEAN, Good(frame), m.discard_frames = 0
  PROVE  LET v == palmpre_read(m, frame, works)
             t == v.mod
         IN /\ t \in PalmStates /\ t.set = m.set /\ t.chip = m.chip
            /\ t.discard_frames = 0 /\ t.old_scanrate = m.old_scanrate
            /\ \/ \E s \in Samples : Press(s) /\ v.wrote = <<s>> /\ t.last_valid = <<s>>
               \/ /\ t.last_valid = <<>>
                  /\ v.wrote = [i \in DOMAIN m.last_valid |-> [m.last_valid[i] EXCEPT !.pressure = 0]]
<1> DEFINE new == Referring(m, frame)
           v == palmpre_read(m, frame, works)
           field == FieldSeen(m, frame)
           c == Strongest(field)
           value == field[field_nr(c[1], c[2])]
           at == interpolate(new.set, field, c[1], c[2])
           sample == [x |-> at.x, y |-> at.y, pressure |-> value]
<1>1. v = Touch(new, field)
  <2>1. update_references(m.references, frame).good
    BY DEF Good, update_references
  <2>2. ~(m.discard_frames > 0)
    OBVIOUS
  <2>. QED  BY <2>1, <2>2, Zenon DEF palmpre_read, Referring, FieldSeen
<1>2. /\ new \in PalmStates /\ new.set = m.set /\ new.chip = m.chip
      /\ new.last_valid = m.last_valid /\ new.discard_frames = m.discard_frames
      /\ new.old_scanrate = m.old_scanrate /\ field \in [Field -> Capacity]
  BY ReferencesKeep
<1>3. v = IF value > new.set["noise"]
          THEN [mod |-> [new EXCEPT !.last_valid = <<sample>>], wrote |-> <<sample>>]
          ELSE [mod |-> [new EXCEPT !.last_valid = <<>>],
                wrote |-> [i \in DOMAIN new.last_valid |->
                             [new.last_valid[i] EXCEPT !.pressure = 0]]]
  <2>. HIDE DEF new, v, field, at
  <2>. QED  BY <1>1, Zenon DEF Touch, at
<1>. HIDE DEF new, v, field
<1>4. c[1] \in Columns /\ c[2] \in Rows /\ value \in Nat
  <2>1. c \in Columns \X Rows /\ field_nr(c[1], c[2]) \in Field
    BY <1>2, StrongestIsAField
  <2>. HIDE DEF c
  <2>2. value \in Capacity
    BY <1>2, <2>1
  <2>. QED  BY <2>1, <2>2, CapacityIsNat
<1>5. ASSUME NEW q \in Seq(Samples)
      PROVE  LET t == [new EXCEPT !.last_valid = q]
             IN /\ t \in PalmStates /\ t.set = m.set /\ t.chip = m.chip /\ t.last_valid = q
                /\ t.discard_frames = m.discard_frames /\ t.old_scanrate = m.old_scanrate
  <2> DEFINE t == [new EXCEPT !.last_valid = q]
  <2>1. t = [set |-> m.set, chip |-> m.chip, references |-> new.references, last_valid |-> q,
             discard_frames |-> m.discard_frames, old_scanrate |-> m.old_scanrate]
    BY <1>2 DEF PalmStates
  <2>. HIDE DEF t
  <2>2. t \in PalmStates
    BY <1>2, <2>1 DEF PalmStates
  <2>3. /\ t.set = m.set /\ t.chip = m.chip /\ t.last_valid = q
        /\ t.discard_frames = m.discard_frames /\ t.old_scanrate = m.old_scanrate
    BY <2>1
  <2>. QED  BY <2>2, <2>3 DEF t
<1>6. CASE value > new.set["noise"]
  <2>1. value > 0
    BY <1>2, <1>4, <1>6
  <2>2. new.set \in SettingValues
    BY <1>2 DEF PalmStates
  <2>3. at.x \in Int /\ at.y \in Int
    BY <1>2, <1>4, <2>1, <2>2, PlacesAreNumbers
  <2>. HIDE DEF at, value, c
  <2>4. sample \in Samples /\ sample.pressure > 0
    BY <1>4, <2>1, <2>3 DEF Samples
  <2>5. v.mod = [new EXCEPT !.last_valid = <<sample>>] /\ v.wrote = <<sample>>
    BY <1>3, <1>6
  <2>. HIDE DEF sample
  <2>6. <<sample>> \in Seq(Samples)
    BY <2>4
  <2> DEFINE q == <<sample>>
             t == [new EXCEPT !.last_valid = q]
  <2>7. /\ t \in PalmStates /\ t.set = m.set /\ t.chip = m.chip /\ t.last_valid = q
        /\ t.discard_frames = m.discard_frames /\ t.old_scanrate = m.old_scanrate
    BY <1>5, <2>6
  <2>8. Press(sample) /\ v.wrote = <<sample>> /\ v.mod = t
    BY <2>4, <2>5 DEF Press
  <2>. HIDE DEF t
  <2>. QED  BY <2>4, <2>7, <2>8 DEF v
<1>7. CASE ~(value > new.set["noise"])
  <2>. HIDE DEF value, c
  <2> DEFINE q == <<>>
             t == [new EXCEPT !.last_valid = q]
  <2>1. q \in Seq(Samples)
    OBVIOUS
  <2>2. /\ v.mod = t
        /\ v.wrote = [i \in DOMAIN m.last_valid |-> [m.last_valid[i] EXCEPT !.pressure = 0]]
    BY <1>2, <1>3, <1>7
  <2>3. /\ t \in PalmStates /\ t.set = m.set /\ t.chip = m.chip /\ t.last_valid = q
        /\ t.discard_frames = m.discard_frames /\ t.old_scanrate = m.old_scanrate
    BY <1>5, <2>1
  <2>. HIDE DEF t
  <2>. QED  BY <2>2, <2>3 DEF v
<1>. QED  BY <1>6, <1>7

IsPast(p) == p = [cur |-> p.cur, torn |-> p.torn, fresh |-> p.fresh, rate |-> p.rate,
                  unknown |-> p.unknown, stuck |-> p.stuck, good |-> p.good]

\* What was written is a touch or the end of the touch before.
PressOrRelease(wrote, before) ==
  \/ wrote = <<>>
  \/ \E s : Press(s) /\ wrote = <<s>>
  \/ Press(before) /\ wrote = <<[before EXCEPT !.pressure = 0]>>

PalmInv ==
  conf.driver = "palmpre" =>
    /\ mod \in PalmStates /\ mod.set["noise"] \in Nat
    /\ IsPast(past) /\ past.good \in Nat /\ past.stuck \in BOOLEAN
    /\ past.good + mod.discard_frames >= DISCARD_FRAMES
    /\ read.wrote # <<>> => past.good > DISCARD_FRAMES
    /\ ~past.stuck /\ ~past.unknown =>
         IF mod.discard_frames = DISCARD_FRAMES THEN mod.old_scanrate = past.rate
         ELSE mod.chip["scanrate"] = past.rate /\ mod.set["scanrate"] = past.rate
    /\ mod.last_valid # <<>> => Press(seen) /\ mod.last_valid = <<seen>>
    /\ PressOrRelease(read.wrote, read.before)

\* The driver starts settled.
LEMMA PalmStartsSettled ==
  ASSUME NEW q \in Seq(Settings \X Nat), NEW refused \in SUBSET {"scanrate"}, NEW junk \in Int,
         NEW own \in Int, NEW first \in Frames
  PROVE  Settled(PalmpreStart(q, refused, junk, own, first))
<1> DEFINE set == [name \in OfChip \cup OfModule |-> IF name \in refused THEN junk ELSE Defaults[name]]
           chip == [name \in OfChip |-> IF name \in refused THEN own ELSE Defaults[name]]
           m == [set |-> set, chip |-> chip, references |-> first, last_valid |-> <<>>,
                 discard_frames |-> 0, old_scanrate |-> junk]
<1>1. \A name \in Settings : Defaults[name] \in Nat
  BY DEF Settings, OfChip, OfModule, Defaults
<1>2. Defaults["noise"] \in Nat /\ "noise" \in Settings
      /\ "noise" \notin refused
  BY <1>1 DEF Settings, OfChip, OfModule
<1>3. set \in SettingValues /\ chip \in ChipValues
  <2>. HIDE DEF set, chip
  <2>1. \A name \in Settings : /\ (IF name \in refused THEN junk ELSE Defaults[name]) \in Int
                               /\ (IF name \in refused THEN own ELSE Defaults[name]) \in Int
    BY <1>1
  <2>2. OfChip \subseteq Settings
    BY DEF Settings
  <2>. QED  BY <2>1, <2>2 DEF set, chip, SettingValues, ChipValues, Settings
<1>4. set["noise"] \in Nat
  BY <1>2 DEF Settings
<1>5. first \in References
  BY FramesAssumption DEF References
<1>6. 0 \in 0 .. DISCARD_FRAMES
  BY PalmpreAssumption
<1>7. PalmpreStart(q, refused, junk, own, first) = parse_parameters(m, q)
  BY DEF PalmpreStart
<1>. HIDE DEF set, chip
<1>8. Settled(m)
  BY <1>3, <1>4, <1>5, <1>6 DEF Settled, PalmStates
<1>. HIDE DEF m
<1>9. Settled(parse_parameters(m, q))
  BY <1>8, ParametersSettle
<1>. QED  BY <1>7, <1>9

\* The invariant of the Palm Pre's driver holds at first.
LEMMA PalmStarts == ASSUME Init PROVE PalmInv
<1> SUFFICES ASSUME conf.driver = "palmpre"
             PROVE  PalmInv
  BY DEF PalmInv
<1>1. PICK refused \in SUBSET {"scanrate"}, junk \in Junk, own \in Own, first \in Frames :
        mod = PalmpreStart(conf.parameters, refused, junk, own, first)
  BY DEF Init, Start
<1>2. conf.parameters \in Seq(Settings \X Nat) /\ junk \in Int /\ own \in Int
  BY ConfAssumption, FramesAssumption DEF Init, Settings
<1>3. Settled(mod)
  BY <1>1, <1>2, PalmStartsSettled
<1>4. /\ past = [cur |-> <<>>, torn |-> FALSE, fresh |-> {}, rate |-> mod.chip["scanrate"],
                 unknown |-> mod.set["scanrate"] # mod.chip["scanrate"], stuck |-> FALSE, good |-> DISCARD_FRAMES + 1]
      /\ read.wrote = <<>>
  BY DEF Init, Past, NoRead
<1>5. DISCARD_FRAMES \in Nat /\ DISCARD_FRAMES > 0
  BY PalmpreAssumption
<1>6. past.good = DISCARD_FRAMES + 1 /\ IsPast(past) /\ past.stuck = FALSE
      /\ past.rate = mod.chip["scanrate"]
      /\ past.unknown = (mod.set["scanrate"] # mod.chip["scanrate"])
  BY <1>4 DEF IsPast
<1>7. ~past.unknown => mod.chip["scanrate"] = past.rate /\ mod.set["scanrate"] = past.rate
  BY <1>6
<1>8. mod.discard_frames # DISCARD_FRAMES
  BY <1>3, <1>5 DEF Settled
<1>. QED  BY <1>3, <1>4, <1>5, <1>6, <1>7, <1>8 DEF PalmInv, Settled, PressOrRelease

\* The invariant of the Palm Pre's driver is kept by a read, of a frame that is in range, out of
\* range or discarded, whether or not the ioctl works,
LEMMA PalmReads ==
  ASSUME PalmInv, NEW frame \in Frames, NEW works \in BOOLEAN, ReadPalmpre(frame, works)
  PROVE  PalmInv'
<1> DEFINE v == palmpre_read(mod, frame, works)
           refused == ~works /\ Good(frame) /\ mod.discard_frames = DISCARD_FRAMES
           D == DISCARD_FRAMES
<1>1. /\ conf.driver = "palmpre" /\ conf' = conf
      /\ mod \in PalmStates /\ mod.set["noise"] \in Nat
      /\ IsPast(past) /\ past.good \in Nat /\ past.stuck \in BOOLEAN
      /\ past.good + mod.discard_frames >= D
      /\ ~past.stuck /\ ~past.unknown =>
                        IF mod.discard_frames = D THEN mod.old_scanrate = past.rate
                        ELSE mod.chip["scanrate"] = past.rate /\ mod.set["scanrate"] = past.rate
      /\ mod.last_valid # <<>> => Press(seen) /\ mod.last_valid = <<seen>>
  BY DEF PalmInv, ReadPalmpre
<1>2. D \in Nat /\ D > 0 /\ mod.discard_frames \in Nat
  BY <1>1, PalmpreAssumption DEF PalmStates
<1>3. /\ mod' = v.mod /\ read'.wrote = v.wrote /\ read'.before = seen
      /\ seen' = IF Len(v.wrote) \in DOMAIN v.wrote THEN v.wrote[Len(v.wrote)] ELSE seen
  BY DEF ReadPalmpre, Gets
<1>4. /\ IsPast(past') /\ past'.rate = past.rate /\ past'.unknown = past.unknown
      /\ past'.stuck = (past.stuck \/ refused)
      /\ past'.good = IF v.mod.discard_frames > mod.discard_frames THEN 0
                      ELSE IF Good(frame) /\ past.good <= D THEN past.good + 1 ELSE past.good
  <2>. HIDE DEF v
  <2>1. past' = [past EXCEPT !.stuck = past.stuck \/ refused,
                             !.good = IF v.mod.discard_frames > mod.discard_frames THEN 0
                                      ELSE IF Good(frame) /\ past.good <= D THEN past.good + 1
                                      ELSE past.good]
    BY DEF ReadPalmpre, Good, v
  <2> DEFINE g == IF v.mod.discard_frames > mod.discard_frames THEN 0
                  ELSE IF Good(frame) /\ past.good <= D THEN past.good + 1 ELSE past.good
             k == past.stuck \/ refused
  <2>. HIDE DEF g, k
  <2>2. past' = [past EXCEPT !.stuck = k, !.good = g]
    BY <2>1 DEF g, k
  <2>3. past' = [cur |-> past.cur, torn |-> past.torn, fresh |-> past.fresh, rate |-> past.rate,
                 unknown |-> past.unknown, stuck |-> k, good |-> g]
    BY <1>1, <2>2 DEF IsPast
  <2>. QED  BY <2>3 DEF IsPast, g, k
<1>. HIDE DEF v
<1>5. CASE ~Good(frame)
  <2>1. /\ v.wrote = <<>>
        /\ v.mod \in PalmStates /\ v.mod.set["noise"] = mod.set["noise"]
        /\ v.mod.last_valid = mod.last_valid
        /\ mod.discard_frames # 0 => /\ v.mod.set = mod.set /\ v.mod.chip = mod.chip
                                     /\ v.mod.discard_frames = mod.discard_frames
                                     /\ v.mod.old_scanrate = mod.old_scanrate
        /\ mod.discard_frames = 0 => /\ v.mod.discard_frames = DISCARD_FRAMES
                                     /\ v.mod.old_scanrate = mod.set["scanrate"]
    BY <1>1, <1>5, BadRead DEF v
  <2>2. seen' = seen /\ PressOrRelease(read'.wrote, read'.before)
    BY <1>3, <2>1 DEF PressOrRelease
  <2>3. past'.stuck = past.stuck
    BY <1>1, <1>4, <1>5
  <2>4. CASE mod.discard_frames = 0
    BY <1>1, <1>2, <1>3, <1>4, <2>1, <2>2, <2>3, <2>4 DEF PalmInv
  <2>5. CASE mod.discard_frames # 0
    <3>1. past'.good = past.good
      BY <1>2, <1>4, <1>5, <2>1, <2>5
    <3>. QED  BY <1>1, <1>2, <1>3, <1>4, <2>1, <2>2, <2>3, <2>5, <3>1 DEF PalmInv
  <2>. QED  BY <2>4, <2>5
<1>6. CASE Good(frame) /\ mod.discard_frames > 0
  <2>1. /\ v.wrote = <<>>
        /\ v.mod \in PalmStates /\ v.mod.set["noise"] = mod.set["noise"]
        /\ v.mod.last_valid = mod.last_valid
        /\ v.mod.discard_frames = mod.discard_frames - 1 /\ v.mod.old_scanrate = mod.old_scanrate
        /\ mod.discard_frames = D /\ works =>
             v.mod.set["scanrate"] = mod.old_scanrate /\ v.mod.chip["scanrate"] = mod.old_scanrate
        /\ mod.discard_frames # D => /\ v.mod.set["scanrate"] = mod.set["scanrate"]
                                     /\ v.mod.chip["scanrate"] = mod.chip["scanrate"]
    BY <1>1, <1>6, DiscardedRead DEF v
  <2>2. seen' = seen /\ PressOrRelease(read'.wrote, read'.before)
    BY <1>3, <2>1 DEF PressOrRelease
  <2>3. past'.good = IF past.good <= D THEN past.good + 1 ELSE past.good
    BY <1>2, <1>4, <1>6, <2>1
  <2>4. past'.good \in Nat /\ past'.good + mod'.discard_frames >= D
    BY <1>1, <1>2, <1>3, <2>1, <2>3
  <2>5. past'.stuck \in BOOLEAN
    BY <1>1, <1>4
  <2>6. mod'.discard_frames # D
    BY <1>1, <1>2, <1>3, <2>1 DEF PalmStates
  <2>7. ASSUME ~past'.stuck, ~past'.unknown
        PROVE  mod'.chip["scanrate"] = past'.rate /\ mod'.set["scanrate"] = past'.rate
    <3>1. ~past.stuck /\ ~past.unknown /\ ~refused
      BY <1>1, <1>4, <2>7
    <3>2. CASE mod.discard_frames = D
      <4>1. works
        BY <1>6, <3>1, <3>2
      <4>. QED  BY <1>1, <1>3, <1>4, <2>1, <3>1, <3>2, <4>1
    <3>3. CASE mod.discard_frames # D
      BY <1>1, <1>3, <1>4, <2>1, <3>1, <3>3
    <3>. QED  BY <3>2, <3>3
  <2>. QED  BY <1>1, <1>3, <1>4, <2>1, <2>2, <2>4, <2>5, <2>6, <2>7 DEF PalmInv
<1>7. CASE Good(frame) /\ mod.discard_frames = 0
  <2>1. /\ v.mod \in PalmStates /\ v.mod.set = mod.set /\ v.mod.chip = mod.chip
        /\ v.mod.discard_frames = 0 /\ v.mod.old_scanrate = mod.old_scanrate
    BY <1>1, <1>7, TouchRead DEF v
  <2>2. \/ \E s \in Samples : Press(s) /\ v.wrote = <<s>> /\ v.mod.last_valid = <<s>>
        \/ /\ v.mod.last_valid = <<>>
           /\ v.wrote = [i \in DOMAIN mod.last_valid |-> [mod.last_valid[i] EXCEPT !.pressure = 0]]
    BY <1>1, <1>7, TouchRead DEF v
  <2>3. past'.good = IF past.good <= D THEN past.good + 1 ELSE past.good
    BY <1>2, <1>4, <1>7, <2>1
  <2>4. past'.good \in Nat /\ past'.good + mod'.discard_frames >= D /\ past'.good > D
    BY <1>1, <1>2, <1>3, <1>7, <2>1, <2>3
  <2>5. past'.stuck = past.stuck
    BY <1>1, <1>2, <1>4, <1>7
  <2>6. /\ PressOrRelease(read'.wrote, read'.before)
        /\ mod'.last_valid # <<>> => Press(seen') /\ mod'.last_valid = <<seen'>>
    <3>1. CASE \E s \in Samples : Press(s) /\ v.wrote = <<s>> /\ v.mod.last_valid = <<s>>
      <4>1. PICK s \in Samples : Press(s) /\ v.wrote = <<s>> /\ v.mod.last_valid = <<s>>
        BY <3>1
      <4>2. Len(v.wrote) = 1 /\ 1 \in DOMAIN v.wrote /\ v.wrote[1] = s
        BY <4>1
      <4>. QED  BY <1>3, <4>1, <4>2 DEF PressOrRelease
    <3>2. CASE /\ v.mod.last_valid = <<>>
               /\ v.wrote = [i \in DOMAIN mod.last_valid |->
                               [mod.last_valid[i] EXCEPT !.pressure = 0]]
      <4>1. CASE mod.last_valid = <<>>
        <5>1. v.wrote = <<>>
          BY <3>2, <4>1
        <5>. QED  BY <1>3, <3>2, <5>1 DEF PressOrRelease
      <4>2. CASE mod.last_valid = <<seen>> /\ Press(seen)
        <5>1. v.wrote = <<[seen EXCEPT !.pressure = 0]>>
          BY <3>2, <4>2
        <5>. QED  BY <1>3, <3>2, <4>2, <5>1 DEF PressOrRelease
      <4>. QED  BY <1>1, <4>1, <4>2
    <3>. QED  BY <2>2, <3>1, <3>2
  <2>. QED  BY <1>1, <1>2, <1>3, <1>4, <1>7, <2>1, <2>4, <2>5, <2>6 DEF PalmInv
<1>. QED  BY <1>2, <1>5, <1>6, <1>7

\* and no other action is one of that driver.
LEMMA PalmKeeps == ASSUME PalmInv, [Next]_vars PROVE PalmInv'
<1> SUFFICES ASSUME conf'.driver = "palmpre"
             PROVE  PalmInv'
  BY DEF PalmInv
<1>1. ASSUME NEW n, Arrive(n)
      PROVE  PalmInv'
  BY <1>1 DEF Arrive, PalmInv, NoRead, PressOrRelease
<1>2. ASSUME vars' = vars
      PROVE  PalmInv'
  BY <1>2 DEF vars, PalmInv
<1>3. \A p : ~Report(p)
  BY DEF Report
<1>4. \A n : ~ReportCut(n) /\ ~ReadRecords(n) /\ ~ReadDmc(n) /\ ~ReadGalax(n)
  BY DEF ReportCut, ReadRecords, ReadDmc, ReadGalax, Records
<1>5. ~ReadTouchKit
  BY DEF ReadTouchKit
<1>. QED  BY <1>1, <1>2, <1>3, <1>4, <1>5, PalmReads DEF Next

(***************************************************************************)
(* The Palm Pre's chip is back at the rate it had when the driver was      *)
(* loaded as soon as it has woken up, unless the ioctl that restores it was*)
(* refused, or the driver never learnt the rate because the chip refused   *)
(* the default and the configuration names none; and no sample is given    *)
(* before as many good frames were discarded as the chip needs (the read   *)
(* function of cy8mrln-palmpre.c), for all parameters, frames and orders   *)
(* in which the ioctl fails.                                               *)
(***************************************************************************)
THEOREM ScanRateRestored == Spec => []RateComesBack
<1>1. PalmInv => RateComesBack
  BY PalmpreAssumption DEF PalmInv, RateComesBack
<1>. QED  BY <1>1, PalmStarts, PalmKeeps, PTL DEF Spec

-----------------------------------------------------------------------------
(* TouchKit: packets in a sequence of bytes, and what a read makes of them *)

\* where the whole packets are in a sequence of bytes
Whole5(s) == {p \in DOMAIN s : /\ IsStart(s[p]) /\ p + 4 <= Len(s)
                               /\ \A q \in 1 .. 4 : ~IsStart(s[p + q])}
Decoded(s, p) == DecodePacket(SubSeq(s, p, p + PACKET_SIZE - 1))
\* no five bytes in a row are without a start byte
Dense(s) == \A k \in 1 .. Len(s) - 4 : \E i \in k .. k + 4 : IsStart(s[i])
\* another packet starts in that at p
Broken(s, p) == \E q \in 1 .. 4 : p + q <= Len(s) /\ IsStart(s[p + q])

\* Of a set of numbers up to L that is not empty, one is the greatest.
LEMMA GreatestExists ==
  ASSUME NEW L \in Nat, NEW S \in SUBSET (0 .. L), S # {}
  PROVE  \E n \in S : \A k \in S : k <= n
<1> DEFINE T == {L - k : k \in S}
<1>1. T \subseteq Nat /\ T # {}
  <2>1. \A k \in S : L - k \in Nat
    OBVIOUS
  <2>. QED  BY <2>1, Zenon
<1>2. PICK t \in T : \A k \in T : t <= k
  <2>. HIDE DEF T
  <2>. QED  BY <1>1, LeastExists
<1>3. PICK n \in S : t = L - n
  BY <1>2
<1>4. \A k \in S : t <= L - k
  <2> SUFFICES ASSUME NEW k \in S
               PROVE  t <= L - k
    OBVIOUS
  <2>1. L - k \in T
    OBVIOUS
  <2>. HIDE DEF T
  <2>. QED  BY <1>2, <2>1
<1>. QED  BY <1>3, <1>4

\* Bytes without a gap have a start where the loop stops.
LEMMA StartsFound ==
  ASSUME NEW h \in Seq(Int), Dense(h), Len(h) >= 5
  PROVE  Starts(h) # {}
<1> DEFINE S == {i \in 1 .. Len(h) : IsStart(h[i])}
<1>1. Len(h) \in Nat /\ S \subseteq 0 .. Len(h)
  OBVIOUS
<1>2. S # {}
  <2>1. 1 \in 1 .. Len(h) - 4
    BY <1>1
  <2>2. PICK i \in 1 .. 1 + 4 : IsStart(h[i])
    BY <2>1 DEF Dense
  <2>3. i \in 1 .. Len(h)
    BY <1>1
  <2>. QED  BY <2>2, <2>3
<1>3. PICK n \in S : \A k \in S : k <= n
  <2>. HIDE DEF S
  <2>. QED  BY <1>1, <1>2, GreatestExists
<1>4. ASSUME NEW q \in 1 .. 4, n + 4 <= Len(h)
      PROVE  ~IsStart(h[n + q])
  <2> DEFINE m == n + q
  <2>1. m \in 1 .. Len(h) /\ m > n /\ n \in Nat /\ m \in Nat
    BY <1>1, <1>3, <1>4
  <2>2. m \notin S
    BY <1>3, <2>1
  <2>. QED  BY <2>1, <2>2
<1>5. n \in Starts(h)
  BY <1>1, <1>3, <1>4 DEF Starts, PACKET_SIZE
<1>. QED  BY <1>5

\* Two packets do not overlap.
LEMMA PacketsApart ==
  ASSUME NEW s \in Seq(Int), NEW p \in Whole5(s), NEW q \in Whole5(s), p < q
  PROVE  q >= p + 5
<1>1. p \in Nat /\ q \in Nat
  <2>1. DOMAIN s = 1 .. Len(s) /\ Len(s) \in Nat
    OBVIOUS
  <2>2. p \in DOMAIN s /\ q \in DOMAIN s
    BY DEF Whole5
  <2>. QED  BY <2>1, <2>2
<1>3. IsStart(s[q]) /\ \A i \in 1 .. 4 : ~IsStart(s[p + i])
  BY Zenon DEF Whole5
<1> SUFFICES ASSUME q < p + 5
             PROVE  FALSE
  BY <1>1
<1> DEFINE i == q - p
<1>2. i \in 1 .. 4 /\ p + i = q
  BY <1>1
<1>. HIDE DEF i
<1>. QED  BY <1>2, <1>3

\* What the driver makes of its buffer: k bytes are dropped, and with them a packet
\* that is whole or else no packet.
Reading(v, h, k) ==
  /\ v.buffer = SubSeq(h, k + 1, Len(h)) /\ Len(h) - k <= 4
  /\ \/ /\ \A q \in 1 .. k : IsStart(h[q]) => Broken(h, q)
        /\ Whole5(h) = {} /\ v.told = 0 /\ v.wrote = <<>>
     \/ \E p \in Whole5(h) :
          /\ Whole5(h) = {p} /\ k = p + 4 /\ v.told = 1 /\ v.wrote = <<Decoded(h, p)>>

\* touchkit_read gives the whole packet among its bytes, of which there is one at most, and drops
\* the bytes up to its end; without one it drops bytes that no packet begins with.
LEMMA TouchKitReads ==
  ASSUME NEW b \in Seq(Int), NEW c \in Seq(Int), Len(b) <= 4, Len(c) <= 5, Dense(b \o c)
  PROVE  \E k \in 0 .. Len(b \o c) : Reading(touchkit_read(b, c), b \o c, k)
<1> DEFINE h == b \o c
           v == touchkit_read(b, c)
           p == CHOOSE s \in Starts(h) : \A t \in Starts(h) : s <= t
<1>1. h \in Seq(Int) /\ Len(h) = Len(b) + Len(c) /\ Len(h) \in Nat /\ Len(h) <= 9
  OBVIOUS
<1>2. v = IF Len(h) < 5 \/ Starts(h) = {} THEN [buffer |-> h, told |-> 0, wrote |-> <<>>]
          ELSE IF p + 4 > Len(h)
            THEN [buffer |-> SubSeq(h, p, Len(h)), told |-> 0, wrote |-> <<>>]
          ELSE [buffer |-> SubSeq(h, p + 5, Len(h)), told |-> 1, wrote |-> <<Decoded(h, p)>>]
  BY DEF touchkit_read, PACKET_SIZE, Decoded
<1>. HIDE DEF h, v
<1>3. Starts(h) \subseteq Nat /\ Starts(h) \subseteq 1 .. Len(h) /\ Whole5(h) \subseteq Starts(h)
  BY <1>1 DEF Starts, Whole5, PACKET_SIZE
<1>4. CASE Len(h) < 5
  <2>1. v = [buffer |-> h, told |-> 0, wrote |-> <<>>]
    BY <1>2, <1>4
  <2>2. Whole5(h) = {}
    BY <1>1, <1>4 DEF Whole5
  <2>3. SubSeq(h, 0 + 1, Len(h)) = h
    BY <1>1
  <2>4. Reading(v, h, 0)
    BY <1>1, <1>4, <2>1, <2>2, <2>3 DEF Reading
  <2>. QED  BY <1>1, <2>4 DEF h, v
<1>5. CASE Len(h) >= 5
  <2>1. Starts(h) # {}
    BY <1>1, <1>5, StartsFound DEF h
  <2>2. p \in Starts(h) /\ \A t \in Starts(h) : p <= t
    <3>1. \E s \in Starts(h) : \A t \in Starts(h) : s <= t
      BY <1>3, <2>1, LeastExists
    <3>. QED  BY <3>1
  <2>. HIDE DEF p
  <2>3. p \in 1 .. Len(h) /\ p \in Nat
    BY <1>3, <2>2
  <2>4. CASE p + 4 > Len(h)
    <3>1. v = [buffer |-> SubSeq(h, p, Len(h)), told |-> 0, wrote |-> <<>>]
      BY <1>1, <1>2, <1>5, <2>1, <2>4
    <3>2. Whole5(h) = {}
      <4> SUFFICES ASSUME NEW q \in Whole5(h)
                   PROVE  FALSE
        OBVIOUS
      <4>1. q \in Nat /\ q + 4 <= Len(h)
        BY <1>3 DEF Whole5
      <4>2. p <= q
        BY <1>3, <2>2
      <4>. QED  BY <1>1, <2>3, <2>4, <4>1, <4>2
    <3>3. ASSUME NEW q \in 1 .. p - 1, IsStart(h[q])
          PROVE  Broken(h, q)
      <4>1. q \notin Starts(h) /\ q \in DOMAIN h /\ q \in Nat
        BY <1>1, <2>2, <2>3
      <4>2. q + 4 <= Len(h) /\ \E i \in 1 .. 4 : IsStart(h[q + i])
        BY <1>1, <3>3, <4>1 DEF Starts, PACKET_SIZE
      <4>3. PICK i \in 1 .. 4 : IsStart(h[q + i])
        BY <4>2
      <4>4. q + i <= Len(h)
        <5>. HIDE DEF h
        <5>1. i <= 4 /\ i \in Nat
          BY <4>3
        <5>. QED  BY <1>1, <4>1, <4>2, <5>1
      <4>. QED  BY <4>3, <4>4 DEF Broken
    <3>4. (p - 1) + 1 = p /\ p - 1 \in 0 .. Len(h) /\ Len(h) - (p - 1) <= 4
      BY <1>1, <2>3, <2>4
    <3>5. Reading(v, h, p - 1)
      BY <3>1, <3>2, <3>3, <3>4 DEF Reading
    <3>. QED  BY <3>4, <3>5 DEF h, v
  <2>5. CASE p + 4 <= Len(h)
    <3>1. v = [buffer |-> SubSeq(h, p + 5, Len(h)), told |-> 1, wrote |-> <<Decoded(h, p)>>]
      <4>1. ~(Len(h) < 5) /\ ~(p + 4 > Len(h))
        BY <1>1, <1>5, <2>3, <2>5
      <4>. QED  BY <1>2, <2>1, <4>1, Zenon
    <3>2. p \in Whole5(h)
      BY <1>1, <2>2, <2>5 DEF Starts, Whole5, PACKET_SIZE
    <3>3. \A q \in Whole5(h) : q = p
      <4> SUFFICES ASSUME NEW q \in Whole5(h), q # p
                   PROVE  FALSE
        OBVIOUS
      <4>1. p < q /\ q \in Nat
        BY <1>3, <2>2, <2>3
      <4>2. q >= p + 5 /\ q + 4 <= Len(h)
        BY <1>1, <3>2, <4>1, PacketsApart DEF Whole5
      <4>. QED  BY <1>1, <2>3, <4>1, <4>2
    <3>4. Whole5(h) = {p}
      BY <3>2, <3>3
    <3>5. (p + 4) + 1 = p + 5 /\ p + 4 \in 0 .. Len(h) /\ Len(h) - (p + 4) <= 4
      BY <1>1, <2>3, <2>5
    <3>6. Reading(v, h, p + 4)
      BY <3>1, <3>2, <3>4, <3>5 DEF Reading
    <3>. QED  BY <3>5, <3>6 DEF h, v
  <2>. QED  BY <1>1, <2>3, <2>4, <2>5
<1>. QED  BY <1>1, <1>4, <1>5

\* t is s without its first k bytes
Shifted(t, s, k) == Len(t) = Len(s) - k /\ \A i \in 1 .. Len(t) : t[i] = s[i + k]
\* both have the same byte at each place up to L
Agree(s, t, L) == \A i \in 1 .. L : s[i] = t[i]

\* A sequence without its first k bytes.
LEMMA SuffixShifts ==
  ASSUME NEW s \in Seq(Int), NEW k \in 0 .. Len(s)
  PROVE  SubSeq(s, k + 1, Len(s)) \in Seq(Int) /\ Shifted(SubSeq(s, k + 1, Len(s)), s, k)
<1> DEFINE t == SubSeq(s, k + 1, Len(s))
<1>1. t \in Seq(Int) /\ Len(t) = Len(s) - k /\ Len(s) \in Nat /\ k \in Nat
  BY SubSeqProperties
<1>2. ASSUME NEW i \in 1 .. Len(t)
      PROVE  t[i] = s[i + k]
  BY <1>1
<1>. QED  BY <1>1, <1>2 DEF Shifted

\* What a packet says is that of its bytes, wherever they are.
LEMMA DecodedAt ==
  ASSUME NEW s \in Seq(Int), NEW p \in Nat, p > 0, p + 4 <= Len(s)
  PROVE  Decoded(s, p) = DecodePacket(<<s[p], s[p + 1], s[p + 2], s[p + 3], s[p + 4]>>)
<1> DEFINE d == SubSeq(s, p, p + 4)
<1>1. d[1] = s[p] /\ d[2] = s[p + 1] /\ d[3] = s[p + 2] /\ d[4] = s[p + 3] /\ d[5] = s[p + 4]
  OBVIOUS
<1>2. Decoded(s, p) = DecodePacket(d)
  BY DEF Decoded, PACKET_SIZE
<1>. HIDE DEF d
<1>. QED  BY <1>1, <1>2 DEF DecodePacket

\* Without its first bytes, a sequence holds the packets behind them, and they say the same.
LEMMA ShiftedBytes ==
  ASSUME NEW s \in Seq(Int), NEW t \in Seq(Int), NEW k \in Nat, Shifted(t, s, k)
  PROVE  /\ Dense(s) => Dense(t)
         /\ \A p \in 1 .. Len(t) : p \in Whole5(t) <=> p + k \in Whole5(s)
         /\ \A p \in Whole5(t) : Decoded(t, p) = Decoded(s, p + k)
<1>1. Len(t) = Len(s) - k /\ Len(t) \in Nat /\ Len(s) \in Nat
  BY DEF Shifted
<1>2. \A i \in 1 .. Len(t) : t[i] = s[i + k]
  BY DEF Shifted
<1>3. ASSUME Dense(s)
      PROVE  Dense(t)
  <2> SUFFICES ASSUME NEW j \in 1 .. Len(t) - 4
               PROVE  \E i \in j .. j + 4 : IsStart(t[i])
    BY DEF Dense
  <2>1. j + k \in 1 .. Len(s) - 4
    BY <1>1
  <2>2. PICK m \in j + k .. (j + k) + 4 : IsStart(s[m])
    BY <1>3, <2>1 DEF Dense
  <2> DEFINE i == m - k
  <2>3. i \in j .. j + 4 /\ i \in 1 .. Len(t) /\ i + k = m
    BY <1>1
  <2>. HIDE DEF i
  <2>. QED  BY <1>2, <2>2, <2>3
<1>4. ASSUME NEW p \in 1 .. Len(t)
      PROVE  p \in Whole5(t) <=> p + k \in Whole5(s)
  <2>1. p \in Nat /\ p + k \in 1 .. Len(s) /\ t[p] = s[p + k]
    BY <1>1, <1>2
  <2>2. p + 4 <= Len(t) <=> (p + k) + 4 <= Len(s)
    BY <1>1, <2>1
  <2>3. ASSUME NEW q \in 1 .. 4, p + 4 <= Len(t)
        PROVE  t[p + q] = s[(p + k) + q]
    <3>1. q \in Nat /\ p + q \in 1 .. Len(t) /\ (p + q) + k = (p + k) + q
      BY <1>1, <2>1, <2>3
    <3>. QED  BY <1>2, <3>1
  <2>4. DOMAIN t = 1 .. Len(t) /\ DOMAIN s = 1 .. Len(s)
    OBVIOUS
  <2>. QED  BY <2>1, <2>2, <2>3, <2>4, Zenon DEF Whole5
<1>5. ASSUME NEW p \in Whole5(t)
      PROVE  Decoded(t, p) = Decoded(s, p + k)
  <2>4. DOMAIN t = 1 .. Len(t)
    OBVIOUS
  <2>1. p \in 1 .. Len(t) /\ p + 4 <= Len(t)
    BY <2>4, Zenon DEF Whole5
  <2>2. p \in Nat /\ p > 0 /\ p + k \in Nat /\ p + k > 0 /\ (p + k) + 4 <= Len(s)
    BY <1>1, <2>1
  <2>8. /\ p + 1 \in 1 .. Len(t) /\ p + 2 \in 1 .. Len(t) /\ p + 3 \in 1 .. Len(t)
        /\ p + 4 \in 1 .. Len(t)
        /\ (p + 1) + k = (p + k) + 1 /\ (p + 2) + k = (p + k) + 2 /\ (p + 3) + k = (p + k) + 3
        /\ (p + 4) + k = (p + k) + 4
    BY <1>1, <2>1, <2>2
  <2>3. /\ t[p] = s[p + k] /\ t[p + 1] = s[(p + k) + 1] /\ t[p + 2] = s[(p + k) + 2]
        /\ t[p + 3] = s[(p + k) + 3] /\ t[p + 4] = s[(p + k) + 4]
    <3>1. /\ t[p] = s[p + k] /\ t[p + 1] = s[(p + 1) + k] /\ t[p + 2] = s[(p + 2) + k]
          /\ t[p + 3] = s[(p + 3) + k] /\ t[p + 4] = s[(p + 4) + k]
      BY <1>2, <2>1, <2>8, Zenon
    <3>. QED  BY <2>8, <3>1
  <2>5. Decoded(t, p) = DecodePacket(<<t[p], t[p + 1], t[p + 2], t[p + 3], t[p + 4]>>)
    BY <2>1, <2>2, DecodedAt
  <2> DEFINE j == p + k
  <2>6. j \in Nat /\ j > 0 /\ j + 4 <= Len(s)
    BY <2>2
  <2>. HIDE DEF j
  <2>7. Decoded(s, j) = DecodePacket(<<s[j], s[j + 1], s[j + 2], s[j + 3], s[j + 4]>>)
    BY <2>6, DecodedAt
  <2>. QED  BY <2>3, <2>5, <2>7, Zenon DEF j
<1>. QED  BY <1>3, <1>4, <1>5

\* The start of a packet, or the whole of one, behind other bytes
IsPiece(c) == /\ c \in Seq(Int) /\ Len(c) >= 1 /\ Len(c) <= 5 /\ IsStart(c[1])
              /\ \A i \in 2 .. Len(c) : ~IsStart(c[i])

\* A whole packet, or the start of one, behind other bytes is the only packet it adds.
LEMMA PieceBehind ==
  ASSUME NEW s \in Seq(Int), NEW c, IsPiece(c)
  PROVE  /\ Dense(s) => Dense(s \o c)
         /\ Whole5(s \o c) = Whole5(s) \cup (IF Len(c) = 5 THEN {Len(s) + 1} ELSE {})
         /\ \A p \in Whole5(s) : Decoded(s \o c, p) = Decoded(s, p)
         /\ Len(c) = 5 => Decoded(s \o c, Len(s) + 1) = DecodePacket(c)
<1> DEFINE t == s \o c
           L == Len(s)
           n == Len(c)
<1>1. /\ c \in Seq(Int) /\ n \in Nat /\ n >= 1 /\ n <= 5 /\ L \in Nat /\ t \in Seq(Int)
      /\ Len(t) = L + n /\ IsStart(c[1]) /\ \A i \in 2 .. n : ~IsStart(c[i])
  <2>1. /\ c \in Seq(Int) /\ Len(c) >= 1 /\ Len(c) <= 5 /\ IsStart(c[1])
        /\ \A i \in 2 .. Len(c) : ~IsStart(c[i])
    BY Zenon DEF IsPiece
  <2>2. t \in Seq(Int) /\ Len(t) = L + n /\ L \in Nat
    BY <2>1
  <2>. HIDE DEF t, L
  <2>4. c \in Seq(Int) /\ Len(c) >= 1 /\ Len(c) <= 5
    BY <2>1
  <2>3. n \in Nat /\ n >= 1 /\ n <= 5
    BY ONLY <2>4
  <2>. QED  BY <2>1, <2>2, <2>3, Zenon DEF n
<1>2. \A i \in 1 .. L : t[i] = s[i]
  BY <1>1
<1>3. \A i \in 1 .. n : t[L + i] = c[i]
  BY <1>1
<1>4. DOMAIN t = 1 .. L + n /\ DOMAIN s = 1 .. L
  BY <1>1
<1>. HIDE DEF t, L, n
<1>5. IsStart(t[L + 1])
  BY <1>1, <1>3
<1>6. ASSUME Dense(s)
      PROVE  Dense(t)
  <2> SUFFICES ASSUME NEW j \in 1 .. (L + n) - 4
               PROVE  \E i \in j .. j + 4 : IsStart(t[i])
    BY <1>1 DEF Dense
  <2>1. CASE j <= L - 4
    <3>1. j \in 1 .. L - 4
      BY <1>1, <2>1
    <3>2. PICK i \in j .. j + 4 : IsStart(s[i])
      BY <1>6, <3>1 DEF Dense, L
    <3>3. i \in 1 .. L
      BY <1>1, <2>1
    <3>. QED  BY <1>2, <3>2, <3>3
  <2>2. CASE ~(j <= L - 4)
    <3>1. L + 1 \in j .. j + 4
      BY <1>1, <2>2
    <3>. QED  BY <1>5, <3>1
  <2>. QED  BY <2>1, <2>2
<1>7. ASSUME NEW p \in 1 .. L
      PROVE  p \in Whole5(t) <=> p \in Whole5(s)
  <2>1. p \in Nat /\ p >= 1 /\ t[p] = s[p] /\ p \in 1 .. L + n
    BY <1>1, <1>2
  <2>2. CASE p + 4 <= L
    <3>1. \A q \in 1 .. 4 : t[p + q] = s[p + q]
      <4> SUFFICES ASSUME NEW q \in 1 .. 4
                   PROVE  t[p + q] = s[p + q]
        OBVIOUS
      <4>1. p + q \in 1 .. L
        BY <1>1, <2>1, <2>2
      <4>. QED  BY <1>2, <4>1
    <3>2. p + 4 <= L + n
      BY <1>1, <2>1, <2>2
    <3>. QED  BY <1>1, <1>4, <2>1, <2>2, <3>1, <3>2, Zenon DEF Whole5, L
  <2>3. CASE ~(p + 4 <= L)
    <3>1. p \notin Whole5(s)
      BY <2>3 DEF Whole5, L
    <3> DEFINE q == (L + 1) - p
    <3>2. q \in 1 .. 4 /\ p + q = L + 1
      BY <1>1, <2>1, <2>3
    <3>. HIDE DEF q
    <3>3. p \notin Whole5(t)
      BY <1>5, <3>2, Zenon DEF Whole5
    <3>. QED  BY <3>1, <3>3
  <2>. QED  BY <2>2, <2>3
<1>8. ASSUME NEW p \in L + 2 .. L + n
      PROVE  p \notin Whole5(t)
  <2> DEFINE i == p - L
  <2>1. i \in 2 .. n /\ i \in 1 .. n /\ L + i = p
    BY <1>1
  <2>. HIDE DEF i
  <2>2. ~IsStart(t[p])
    BY <1>1, <1>3, <2>1
  <2>. QED  BY <2>2 DEF Whole5
<1>9. L + 1 \in Whole5(t) <=> n = 5
  <2>1. L + 1 \in 1 .. L + n /\ ((L + 1) + 4 <= L + n <=> n = 5)
    BY <1>1
  <2>2. ASSUME NEW q \in 1 .. 4, n = 5
        PROVE  ~IsStart(t[(L + 1) + q])
    <3> DEFINE i == 1 + q
    <3>1. i \in 2 .. n /\ i \in 1 .. n /\ (L + 1) + q = L + i
      BY <1>1, <2>2
    <3>. HIDE DEF i
    <3>. QED  BY <1>1, <1>3, <3>1
  <2>. QED  BY <1>1, <1>4, <1>5, <2>1, <2>2, Zenon DEF Whole5
<1>10. Whole5(t) = Whole5(s) \cup (IF n = 5 THEN {L + 1} ELSE {})
  <2>1. Whole5(t) \subseteq 1 .. L + n /\ Whole5(s) \subseteq 1 .. L
    BY <1>4 DEF Whole5
  <2>2. \A p \in 1 .. L + n : p \in 1 .. L \/ p = L + 1 \/ p \in L + 2 .. L + n
    BY <1>1
  <2>3. L + 1 \notin 1 .. L
    BY <1>1
  <2>. QED  BY <1>7, <1>8, <1>9, <2>1, <2>2, <2>3, Zenon
<1>11. ASSUME NEW p \in Whole5(s)
       PROVE  Decoded(t, p) = Decoded(s, p)
  <2>1. p \in 1 .. L /\ p + 4 <= L
    BY <1>4 DEF Whole5, L
  <2>2. p \in Nat /\ p > 0 /\ p + 4 <= Len(t)
    BY <1>1, <2>1
  <2>6. p + 1 \in 1 .. L /\ p + 2 \in 1 .. L /\ p + 3 \in 1 .. L /\ p + 4 \in 1 .. L
    BY <1>1, <2>1, <2>2
  <2>3. t[p] = s[p] /\ t[p + 1] = s[p + 1] /\ t[p + 2] = s[p + 2] /\ t[p + 3] = s[p + 3]
        /\ t[p + 4] = s[p + 4]
    BY <1>2, <2>1, <2>6, Zenon
  <2>4. Decoded(t, p) = DecodePacket(<<t[p], t[p + 1], t[p + 2], t[p + 3], t[p + 4]>>)
    BY <1>1, <2>2, DecodedAt
  <2>5. Decoded(s, p) = DecodePacket(<<s[p], s[p + 1], s[p + 2], s[p + 3], s[p + 4]>>)
    BY <2>1, <2>2, DecodedAt DEF L
  <2>. QED  BY <2>3, <2>4, <2>5, Zenon
<1>12. ASSUME n = 5
       PROVE  Decoded(t, L + 1) = DecodePacket(c)
  <2>1. /\ t[L + 1] = c[1] /\ t[(L + 1) + 1] = c[2] /\ t[(L + 1) + 2] = c[3]
        /\ t[(L + 1) + 3] = c[4] /\ t[(L + 1) + 4] = c[5]
    BY <1>1, <1>3, <1>12
  <2>2. (L + 1) + 4 <= Len(t) /\ L + 1 \in Nat /\ L + 1 > 0
    BY <1>1, <1>12
  <2>3. Decoded(t, L + 1) = DecodePacket(<<c[1], c[2], c[3], c[4], c[5]>>)
    BY <1>1, <2>1, <2>2, DecodedAt
  <2>. QED  BY <2>3 DEF DecodePacket
<1>. QED  BY <1>6, <1>10, <1>11, <1>12 DEF t, L, n

\* What is behind s of a sequence with one more byte.
LEMMA TailLonger ==
  ASSUME NEW b \in Seq(Int), NEW e \in Int, NEW s \in 1 .. Len(b)
  PROVE  Append(SubSeq(b, s, Len(b)), e) = SubSeq(Append(b, e), s, Len(b) + 1)
<1> DEFINE L == Len(b)
           u == SubSeq(b, s, L)
           t == Append(b, e)
           v == SubSeq(t, s, L + 1)
<1>1. L \in Nat /\ s \in 1 .. L
  OBVIOUS
<1>2. t \in Seq(Int) /\ Len(t) = L + 1 /\ t[L + 1] = e /\ \A i \in 1 .. L : t[i] = b[i]
  OBVIOUS
<1>. HIDE DEF L, t
<1>3. u \in Seq(Int) /\ Len(u) = (L - s) + 1 /\ \A i \in 1 .. (L - s) + 1 : u[i] = b[(s + i) - 1]
  BY <1>1 DEF L
<1>4. v \in Seq(Int) /\ Len(v) = (L - s) + 2 /\ \A i \in 1 .. (L - s) + 2 : v[i] = t[(s + i) - 1]
  BY <1>1, <1>2
<1>. HIDE DEF u, v
<1> DEFINE w == Append(u, e)
<1>5. /\ w \in Seq(Int) /\ Len(w) = Len(u) + 1 /\ w[Len(u) + 1] = e
      /\ \A i \in 1 .. Len(u) : w[i] = u[i]
  BY <1>3
<1>. HIDE DEF w
<1>6. Len(w) = Len(v) /\ Len(w) = (L - s) + 2 /\ (L - s) + 2 \in Nat
  BY <1>1, <1>3, <1>4, <1>5
<1>7. ASSUME NEW i \in 1 .. (L - s) + 2 PROVE w[i] = v[i]
  <2>1. CASE i = (L - s) + 2
    <3>1. (s + i) - 1 = L + 1 /\ i = Len(u) + 1
      BY <1>1, <1>3, <2>1
    <3>. QED  BY <1>2, <1>4, <1>5, <3>1
  <2>2. CASE i # (L - s) + 2
    <3>1. i \in 1 .. (L - s) + 1 /\ (s + i) - 1 \in 1 .. L /\ i \in 1 .. Len(u)
      BY <1>1, <1>3, <2>2
    <3>. QED  BY <1>2, <1>3, <1>4, <1>5, <3>1
  <2>. QED  BY <2>1, <2>2
<1>8. w = v
  BY <1>4, <1>5, <1>6, <1>7, SeqEqual
<1>. QED  BY <1>8 DEF w, u, v, t, L

\* the last start byte of b is that at s
LastStart(b, s) == s \in 1 .. Len(b) /\ IsStart(b[s]) /\ \A i \in s + 1 .. Len(b) : ~IsStart(b[i])

\* cur is what the bytes of b leave of a packet that they may have begun
CurOf(cur, b) ==
  \/ (\A i \in 1 .. Len(b) : ~IsStart(b[i])) /\ (cur = <<>> \/ (Len(cur) = 5 /\ b = <<>>))
  \/ \E s \in 1 .. Len(b) :
       /\ LastStart(b, s)
       /\ Len(b) - s < 5 => cur = SubSeq(b, s, Len(b))
       /\ ~(Len(b) - s < 5) => cur = <<>>

\* One more byte leaves what the protocol has it leave of a packet.
LEMMA ParsedNext ==
  ASSUME NEW b \in Seq(Int), NEW cur \in Seq(Int), NEW e \in Int, CurOf(cur, b)
  PROVE  Parsed(cur, e) \in Seq(Int) /\ CurOf(Parsed(cur, e), Append(b, e))
<1> DEFINE t == Append(b, e)
           L == Len(b)
           new == Parsed(cur, e)
<1>1. L \in Nat /\ t \in Seq(Int) /\ Len(t) = L + 1 /\ t[L + 1] = e /\ \A i \in 1 .. L : t[i] = b[i]
  OBVIOUS
<1>2. new \in Seq(Int)
  BY DEF Parsed
<1>3. CASE IsStart(e)
  <2>1. new = <<e>>
    BY <1>3 DEF Parsed
  <2>2. SubSeq(t, L + 1, L + 1) = <<e>>
    <3> DEFINE u == SubSeq(t, L + 1, L + 1)
    <3>1. u \in Seq(Int) /\ Len(u) = 1 /\ u[1] = t[L + 1]
      <4>. HIDE DEF t, L
      <4>1. L + 1 \in 1 .. Len(t) /\ L + 1 \in 1 .. Len(t) + 1
        BY <1>1
      <4>. QED  BY <1>1, <4>1, SubSeqProperties
    <3>. HIDE DEF u
    <3>2. u[1] = e
      BY <1>1, <3>1
    <3> DEFINE w == <<e>>
    <3>3. w \in Seq(Int) /\ Len(w) = 1 /\ w[1] = e
      OBVIOUS
    <3>. HIDE DEF w
    <3>4. \A i \in 1 .. Len(u) : u[i] = w[i]
      BY <3>1, <3>2, <3>3
    <3>5. u = w
      BY <3>1, <3>3, <3>4, SeqEqual
    <3>. QED  BY <3>5 DEF u, w
  <2>. HIDE DEF t, new, L
  <2>5. L + 1 \in 1 .. Len(t) /\ Len(t) - (L + 1) < 5 /\ (L + 1) + 1 .. Len(t) = {}
    BY <1>1
  <2>6. IsStart(t[L + 1])
    BY <1>1, <1>3
  <2>3. LastStart(t, L + 1) /\ L + 1 \in 1 .. Len(t) /\ Len(t) - (L + 1) < 5
    BY <2>5, <2>6, Zenon DEF LastStart
  <2>4. CurOf(new, t)
    <3>1. new = SubSeq(t, L + 1, Len(t))
      BY <1>1, <2>1, <2>2
    <3>. QED  BY <2>3, <3>1, Zenon DEF CurOf
  <2>. QED  BY <1>2, <2>4 DEF new, t
<1>4. CASE ~IsStart(e)
  <2>1. new = IF cur = <<>> \/ Len(cur) = 5 THEN <<>> ELSE Append(cur, e)
    BY <1>4 DEF Parsed, PACKET_SIZE
  <2>2. CASE \A i \in 1 .. L : ~IsStart(b[i])
    <3>1. cur = <<>> \/ Len(cur) = 5
      BY <2>2 DEF CurOf, LastStart
    <3>2. new = <<>>
      BY <2>1, <3>1
    <3>. HIDE DEF t, new, L
    <3>3. \A i \in 1 .. Len(t) : ~IsStart(t[i])
      <4>1. \A i \in 1 .. Len(t) : i \in 1 .. L \/ i = L + 1
        BY <1>1
      <4>. QED  BY <1>1, <1>4, <2>2, <4>1
    <3>4. CurOf(new, t)
      BY <3>2, <3>3 DEF CurOf
    <3>. QED  BY <1>2, <3>4 DEF new, t
  <2>3. CASE \E i \in 1 .. L : IsStart(b[i])
    <3>1. PICK s \in 1 .. L : /\ LastStart(b, s)
                              /\ L - s < 5 => cur = SubSeq(b, s, L)
                              /\ ~(L - s < 5) => cur = <<>>
      BY <2>3, Zenon DEF CurOf
    <3>2. LastStart(t, s) /\ s \in 1 .. Len(t) /\ s \in Nat
      <4>. HIDE DEF t, L
      <4>1. \A i \in s + 1 .. Len(t) : i \in s + 1 .. L \/ i = L + 1
        BY <1>1
      <4>2. s \in 1 .. Len(t) /\ s \in Nat
        BY <1>1
      <4>3. IsStart(t[s])
        BY <1>1, <3>1 DEF LastStart
      <4>4. \A i \in s + 1 .. Len(t) : ~IsStart(t[i])
        <5>1. \A i \in s + 1 .. L : i \in 1 .. L
          BY <1>1
        <5>. QED  BY <1>1, <1>4, <3>1, <4>1, <5>1, Zenon DEF LastStart, L
      <4>. QED  BY <4>2, <4>3, <4>4, Zenon DEF LastStart
    <3>3. CASE L - s < 4
      <4>1. cur = SubSeq(b, s, L)
        BY <1>1, <3>1, <3>3
      <4>2. Len(cur) = (L - s) + 1
        BY <1>1, <4>1
      <4>3. cur # <<>> /\ Len(cur) # 5
        BY <1>1, <3>2, <3>3, <4>2
      <4>4. new = Append(cur, e)
        BY <2>1, <4>3
      <4>5. Append(SubSeq(b, s, L), e) = SubSeq(t, s, L + 1)
        BY <1>1, TailLonger
      <4>6. new = SubSeq(t, s, Len(t)) /\ Len(t) - s < 5
        BY <1>1, <3>2, <3>3, <4>1, <4>4, <4>5
      <4>. HIDE DEF t, new
      <4>7. CurOf(new, t)
        BY <3>2, <4>6, Zenon DEF CurOf
      <4>. QED  BY <1>2, <4>7 DEF new, t
    <3>4. CASE ~(L - s < 4)
      <4>1. cur = <<>> \/ Len(cur) = 5
        <5>1. CASE L - s < 5
          <6>1. cur = SubSeq(b, s, L) /\ L - s = 4
            BY <1>1, <3>1, <3>2, <3>4, <5>1
          <6>. QED  BY <1>1, <6>1
        <5>2. CASE ~(L - s < 5)
          BY <3>1, <5>2
        <5>. QED  BY <5>1, <5>2
      <4>2. new = <<>>
        BY <2>1, <4>1
      <4>3. ~(Len(t) - s < 5)
        BY <1>1, <3>2, <3>4
      <4>. HIDE DEF t, new
      <4>4. CurOf(new, t)
        BY <3>2, <4>2, <4>3, Zenon DEF CurOf
      <4>. QED  BY <1>2, <4>4 DEF new, t
    <3>. QED  BY <3>3, <3>4
  <2>. QED  BY <2>2, <2>3
<1>. QED  BY <1>3, <1>4

\* A packet ends with the last byte just if one is whole there.
LEMMA EndsWhole ==
  ASSUME NEW b \in Seq(Int), b # <<>>, NEW cur \in Seq(Int), CurOf(cur, b)
  PROVE  /\ Len(cur) = 5 <=> Len(b) - 4 \in Whole5(b)
         /\ Len(cur) = 5 => DecodePacket(cur) = Decoded(b, Len(b) - 4)
<1> DEFINE L == Len(b)
           p == L - 4
<1>1. L \in Nat /\ L >= 1 /\ DOMAIN b = 1 .. L
  OBVIOUS
<1>2. CASE \A i \in 1 .. L : ~IsStart(b[i])
  <2>1. cur = <<>>
    BY <1>2 DEF CurOf, LastStart
  <2>2. p \notin Whole5(b)
    BY <1>1, <1>2 DEF Whole5
  <2>. QED  BY <2>1, <2>2
<1>3. CASE \E i \in 1 .. L : IsStart(b[i])
  <2>1. PICK s \in 1 .. L : /\ LastStart(b, s)
                            /\ L - s < 5 => cur = SubSeq(b, s, L)
                            /\ ~(L - s < 5) => cur = <<>>
    BY <1>3, Zenon DEF CurOf
  <2>2. s \in Nat /\ s >= 1 /\ s <= L
    BY <1>1
  <2>3. CASE s = p
    <3>1. cur = SubSeq(b, s, L) /\ L = s + 4
      BY <1>1, <2>1, <2>2, <2>3
    <3>2. Len(cur) = 5
      BY <1>1, <2>2, <3>1
    <3>3. ASSUME NEW q \in 1 .. 4
          PROVE  ~IsStart(b[s + q])
      <4>1. s + q \in s + 1 .. L
        BY <1>1, <2>2, <3>1
      <4>. QED  BY <2>1, <4>1, Zenon DEF LastStart
    <3>4. s \in Whole5(b)
      <4>1. s + 4 <= Len(b)
        BY <1>1, <2>2, <3>1
      <4>2. IsStart(b[s])
        BY <2>1 DEF LastStart
      <4>. QED  BY <1>1, <3>3, <4>1, <4>2, Zenon DEF Whole5
    <3>5. DecodePacket(cur) = Decoded(b, s)
      BY <2>2, <3>1 DEF Decoded, PACKET_SIZE
    <3>. QED  BY <2>3, <3>2, <3>4, <3>5, Zenon
  <2>4. CASE s # p
    <3>1. Len(cur) # 5
      <4>1. CASE L - s < 5
        <5>1. Len(cur) = (L - s) + 1
          BY <1>1, <2>1, <2>2, <4>1
        <5>. HIDE DEF L
        <5>2. L \in Int /\ s \in Int /\ s # L - 4 /\ Len(cur) = (L - s) + 1
          BY <1>1, <2>2, <2>4, <5>1
        <5>. QED  BY ONLY <5>2
      <4>2. CASE ~(L - s < 5)
        BY <2>1, <4>2
      <4>. QED  BY <4>1, <4>2
    <3>2. p \notin Whole5(b)
      <4> SUFFICES ASSUME p \in Whole5(b)
                   PROVE  FALSE
        OBVIOUS
      <4>1. p \in 1 .. L /\ IsStart(b[p]) /\ \A q \in 1 .. 4 : ~IsStart(b[p + q])
        BY <1>1, Zenon DEF Whole5
      <4>2. ~(p \in s + 1 .. L)
        BY <2>1, <4>1, Zenon DEF LastStart
      <4>3. p < s
        <5>1. p \in Int /\ p <= L
          BY <1>1
        <5>. HIDE DEF p, L
        <5>2. p \in Int /\ L \in Int /\ s \in Int /\ p <= L /\ s # p /\ ~(p \in s + 1 .. L)
          BY <1>1, <2>2, <2>4, <4>2, <5>1
        <5>. QED  BY ONLY <5>2
      <4> DEFINE q == s - p
      <4>4. q \in 1 .. 4 /\ p + q = s
        BY <1>1, <2>2, <4>3
      <4>. HIDE DEF q, p
      <4>5. IsStart(b[s])
        BY <2>1 DEF LastStart
      <4>. QED  BY <4>1, <4>4, <4>5
    <3>. QED  BY <3>1, <3>2
  <2>. QED  BY <2>3, <2>4
<1>. QED  BY <1>2, <1>3

\* What is dropped does not belong to the packet that has begun.
LEMMA CurKept ==
  ASSUME NEW h \in Seq(Int), NEW cur \in Seq(Int), CurOf(cur, h), NEW k \in 0 .. Len(h),
         NEW v, Reading(v, h, k)
  PROVE  CurOf(cur, SubSeq(h, k + 1, Len(h)))
<1> DEFINE t == SubSeq(h, k + 1, Len(h))
           L == Len(h)
<1>1. /\ t \in Seq(Int) /\ L \in Nat /\ k \in Nat /\ k <= L /\ Len(t) = L - k
      /\ \A i \in 1 .. Len(t) : t[i] = h[i + k]
  <2>1. t \in Seq(Int) /\ Shifted(t, h, k)
    BY SuffixShifts
  <2>. HIDE DEF t
  <2>. QED  BY <2>1 DEF Shifted
<1>. HIDE DEF t
<1>2. ASSUME \A i \in 1 .. Len(t) : ~IsStart(t[i]), cur = <<>> \/ (Len(cur) = 5 /\ t = <<>>)
      PROVE  CurOf(cur, t)
  BY <1>2, Zenon DEF CurOf
<1>3. CASE \A i \in 1 .. L : ~IsStart(h[i])
  <2>1. cur = <<>> \/ (Len(cur) = 5 /\ h = <<>>)
    BY <1>3 DEF CurOf, LastStart
  <2>2. \A i \in 1 .. Len(t) : ~IsStart(t[i])
    <3>1. \A i \in 1 .. Len(t) : i + k \in 1 .. L
      BY <1>1
    <3>. QED  BY <1>1, <1>3, <3>1
  <2>3. h = <<>> => t = <<>>
    <3>1. h = <<>> => Len(t) = 0
      BY <1>1
    <3>. QED  BY <1>1, <3>1
  <2>. QED  BY <1>2, <2>1, <2>2, <2>3 DEF t
<1>4. CASE \E i \in 1 .. L : IsStart(h[i])
  <2>1. PICK s \in 1 .. L : /\ LastStart(h, s)
                            /\ L - s < 5 => cur = SubSeq(h, s, L)
                            /\ ~(L - s < 5) => cur = <<>>
    BY <1>4, Zenon DEF CurOf
  <2>2. s \in Nat /\ s >= 1 /\ s <= L
    BY <1>1
  <2>3. CASE s > k
    <3> DEFINE u == s - k
    <3>1. u \in 1 .. Len(t) /\ u \in Nat /\ u + k = s /\ Len(t) - u = L - s
      BY <1>1, <2>2, <2>3
    <3>. HIDE DEF u
    <3>2. LastStart(t, u)
      <4>1. IsStart(t[u])
        BY <1>1, <2>1, <3>1 DEF LastStart
      <4>2. ASSUME NEW i \in u + 1 .. Len(t)
            PROVE  ~IsStart(t[i])
        <5>1. i \in 1 .. Len(t) /\ i + k \in s + 1 .. L
          BY <1>1, <3>1
        <5>2. ~IsStart(h[i + k])
          BY <2>1, <5>1, Zenon DEF LastStart, L
        <5>. QED  BY <1>1, <5>1, <5>2
      <4>. QED  BY <3>1, <4>1, <4>2, Zenon DEF LastStart
    <3>3. SubSeq(t, u, Len(t)) = SubSeq(h, s, L)
      <4>1. SubSeq(SubSeq(h, k + 1, L), u, L - k) = SubSeq(h, s, L)
        <5> DEFINE a == k + 1
                   b == L - k
        <5>1. /\ a \in 1 .. Len(h) /\ L \in 1 .. Len(h) /\ u \in 1 .. (L - a) + 1
              /\ b \in 1 .. (L - a) + 1 /\ (a + u) - 1 = s /\ (a + b) - 1 = L
          BY <1>1, <2>2, <2>3, <3>1
        <5>. HIDE DEF a, b
        <5>2. SubSeq(SubSeq(h, a, L), u, b) = SubSeq(h, (a + u) - 1, (a + b) - 1)
          BY <5>1, SubSeqOfSubSeq
        <5>. QED  BY <5>1, <5>2, Zenon DEF a, b
      <4>. QED  BY <1>1, <4>1 DEF t
    <3>4. CurOf(cur, t)
      BY <2>1, <3>1, <3>2, <3>3, Zenon DEF CurOf
    <3>. QED  BY <3>4 DEF t
  <2>4. CASE ~(s > k)
    <3>1. PICK p \in Whole5(h) : k = p + 4
      <4>1. ~Broken(h, s)
        <5> SUFFICES ASSUME NEW q \in 1 .. 4, s + q <= L, IsStart(h[s + q])
                     PROVE  FALSE
          BY Zenon DEF Broken, L
        <5>1. s + q \in s + 1 .. L
          BY <1>1, <2>2
        <5>. QED  BY <2>1, <5>1, Zenon DEF LastStart, L
      <4>2. s \in 1 .. k /\ IsStart(h[s])
        <5>1. s \in 1 .. k
          BY <1>1, <2>2, <2>4
        <5>. QED  BY <2>1, <5>1, Zenon DEF LastStart
      <4>. QED  BY <4>1, <4>2, Zenon DEF Reading
    <3>2. p \in 1 .. L /\ IsStart(h[p]) /\ \A q \in 1 .. 4 : ~IsStart(h[p + q])
      <4>1. DOMAIN h = 1 .. L
        OBVIOUS
      <4>. QED  BY <4>1, Zenon DEF Whole5
    <3>3. ~(p \in s + 1 .. L) /\ IsStart(h[s])
      BY <2>1, <3>2, Zenon DEF LastStart, L
    <3>4. p \in Nat /\ p <= L /\ p <= s
      BY <1>1, <2>2, <3>2, <3>3
    <3>5. s = p
      <4> SUFFICES ASSUME s > p
                   PROVE  FALSE
        BY <2>2, <3>4
      <4> DEFINE q == s - p
      <4>1. q \in 1 .. 4 /\ p + q = s
        BY <1>1, <2>2, <2>4, <3>1, <3>4
      <4>. HIDE DEF q
      <4>. QED  BY <3>2, <3>3, <4>1
    <3>6. ASSUME NEW i \in 1 .. Len(t)
          PROVE  ~IsStart(t[i])
      <4>1. i + k \in s + 1 .. L
        BY <1>1, <2>2, <3>1, <3>4, <3>5
      <4>2. ~IsStart(h[i + k])
        BY <2>1, <4>1, Zenon DEF LastStart, L
      <4>. QED  BY <1>1, <4>2
    <3>7. CASE L - s < 5
      <4>1. cur = SubSeq(h, s, L) /\ L = s + 4
        BY <1>1, <2>1, <2>2, <3>1, <3>5, <3>7
      <4>2. Len(cur) = 5
        BY <1>1, <2>2, <4>1
      <4>3. Len(t) = 0
        BY <1>1, <2>2, <3>1, <3>5, <4>1
      <4>4. t = <<>>
        BY <1>1, <4>3
      <4>. QED  BY <1>2, <3>6, <4>2, <4>4 DEF t
    <3>8. CASE ~(L - s < 5)
      BY <1>2, <2>1, <3>6, <3>8 DEF t
    <3>. QED  BY <3>7, <3>8
  <2>. QED  BY <2>3, <2>4
<1>. QED  BY <1>3, <1>4

\* A byte is appended to the second of two sequences.
LEMMA AppendBehind ==
  ASSUME NEW b \in Seq(Int), NEW q \in Seq(Int), NEW e \in Int
  PROVE  Append(b \o q, e) = b \o Append(q, e)
<1> DEFINE x == Append(b \o q, e)
           y == b \o Append(q, e)
<1>1. /\ x \in Seq(Int) /\ y \in Seq(Int) /\ Len(x) = Len(b) + Len(q) + 1
      /\ Len(y) = Len(b) + Len(q) + 1 /\ Len(b) \in Nat /\ Len(q) \in Nat
  OBVIOUS
<1>2. ASSUME NEW i \in 1 .. Len(x)
      PROVE  x[i] = y[i]
  <2>1. CASE i <= Len(b)
    BY <1>1, <2>1
  <2>2. CASE i > Len(b) /\ i <= Len(b) + Len(q)
    BY <1>1, <2>2
  <2>3. CASE i = Len(b) + Len(q) + 1
    BY <1>1, <2>3
  <2>. QED  BY <1>1, <2>1, <2>2, <2>3
<1>. HIDE DEF x, y
<1>3. x = y
  BY <1>1, <1>2, SeqEqual
<1>. QED  BY <1>3 DEF x, y

\* The bytes of one read are taken one by one.
Taking(f, n, c, w) == f = [i \in 0 .. n |-> IF i = 0 THEN c ELSE Parsed(f[i - 1], w[i])]

\* What the bytes of a read leave, one by one, is well defined,
LEMMA TakingIs ==
  ASSUME NEW w \in Seq(Int), NEW n \in 0 .. Len(w), NEW c \in Seq(Int)
  PROVE  Taking(CHOOSE f : Taking(f, n, c, w), n, c, w)
<1> DEFINE D == Seq(Int)
           G == [i \in 1 .. n |-> [s \in D |-> Parsed(s, w[i])]]
<1>1. n \in Nat /\ n <= Len(w)
  OBVIOUS
<1>2. ASSUME NEW s \in D, NEW i \in 1 .. n
      PROVE  Parsed(s, w[i]) \in D
  <2>1. w[i] \in Int
    BY <1>1
  <2>. QED  BY <2>1 DEF Parsed
<1>. HIDE DEF D
<1>3. G \in [1 .. n -> [D -> D]]
  BY <1>2
<1>4. PICK g : Runs(g, n, D, c, G)
  <2>1. c \in D
    BY DEF D
  <2>. HIDE DEF G
  <2>. QED  BY <1>1, <1>3, <2>1, StepsExist
<1>5. \A i \in 0 .. n : i # 0 => i - 1 \in 0 .. n /\ i \in 1 .. n
  BY <1>1
<1>6. Taking(g, n, c, w)
  <2>. USE DEF Runs
  <2>1. \A i \in 1 .. n : G[i][g[i - 1]] = Parsed(g[i - 1], w[i])
    BY <1>4, <1>5
  <2>2. \A i \in 0 .. n : g[i] = IF i = 0 THEN c ELSE Parsed(g[i - 1], w[i])
    BY <1>4, <1>5, <2>1
  <2>3. g = [i \in 0 .. n |-> g[i]]
    BY <1>4
  <2>. QED  BY <2>2, <2>3 DEF Taking
<1>. QED  BY <1>6, Zenon

\* and after each of them it is what the bytes of the stream up to there leave.
LEMMA TakingFollows ==
  ASSUME NEW b \in Seq(Int), NEW w \in Seq(Int), NEW n \in 0 .. Len(w), NEW c \in Seq(Int),
         CurOf(c, b), NEW f, Taking(f, n, c, w)
  PROVE  \A i \in 0 .. n : f[i] \in Seq(Int) /\ CurOf(f[i], b \o SubSeq(w, 1, i))
<1> DEFINE T == {i \in 0 .. n : f[i] \in Seq(Int) /\ CurOf(f[i], b \o SubSeq(w, 1, i))}
<1>1. n \in Nat /\ n <= Len(w)
  OBVIOUS
<1>2. ASSUME NEW k \in 0 .. n
      PROVE  f[k] = IF k = 0 THEN c ELSE Parsed(f[k - 1], w[k])
  <2>1. f = [i \in 0 .. n |-> IF i = 0 THEN c ELSE Parsed(f[i - 1], w[i])]
    BY DEF Taking
  <2>. QED  BY ONLY <2>1
<1>3. 0 \in T
  <2>1. f[0] = c /\ 0 \in 0 .. n
    BY <1>1, <1>2
  <2>2. SubSeq(w, 1, 0) = <<>> /\ b \o <<>> = b
    OBVIOUS
  <2>. QED  BY <2>1, <2>2
<1>4. ASSUME NEW i \in 0 .. n - 1, i \in T
      PROVE  i + 1 \in T
  <2>1. i + 1 \in 0 .. n /\ i + 1 # 0 /\ (i + 1) - 1 = i /\ i \in Nat /\ i + 1 \in 1 .. Len(w)
    BY <1>1
  <2>2. f[i + 1] = Parsed(f[i], w[i + 1])
    BY <1>2, <2>1
  <2>3. w[i + 1] \in Int
    BY <2>1
  <2> DEFINE t == b \o SubSeq(w, 1, i)
  <2>4. t \in Seq(Int)
    BY <1>1, <2>1
  <2>5. Append(t, w[i + 1]) = b \o SubSeq(w, 1, i + 1)
    <3>1. SubSeq(w, 1, i + 1) = Append(SubSeq(w, 1, i), w[i + 1])
      BY <1>1, <2>1
    <3>2. SubSeq(w, 1, i) \in Seq(Int)
      BY <1>1, <2>1
    <3> DEFINE q == SubSeq(w, 1, i)
               e == w[i + 1]
    <3>. HIDE DEF q, e
    <3>3. q \in Seq(Int) /\ e \in Int
      BY <2>3, <3>2 DEF q, e
    <3>7. SubSeq(w, 1, i + 1) = Append(q, e)
      BY <3>1, Zenon DEF q, e
    <3>8. Append(b \o q, e) = b \o Append(q, e)
      BY <3>3, AppendBehind
    <3>9. Append(b \o q, e) = b \o SubSeq(w, 1, i + 1)
      BY <3>7, <3>8
    <3>. QED  BY <3>9, Zenon DEF q, e
  <2>6. f[i] \in Seq(Int) /\ CurOf(f[i], t)
    BY <1>4
  <2>. HIDE DEF t
  <2>7. Parsed(f[i], w[i + 1]) \in Seq(Int) /\ CurOf(Parsed(f[i], w[i + 1]), Append(t, w[i + 1]))
    BY <2>3, <2>4, <2>6, ParsedNext
  <2>. QED  BY <2>1, <2>2, <2>5, <2>7
<1>. HIDE DEF T
<1>5. \A i \in 0 .. n : i \in T
  BY <1>1, <1>3, <1>4, CountUp
<1>. QED  BY <1>5 DEF T

\* The packets in the first bytes of a sequence are those of the sequence that end there.
LEMMA PrefixBytes ==
  ASSUME NEW h \in Seq(Int), NEW s \in Seq(Int), Len(h) <= Len(s), Agree(h, s, Len(h))
  PROVE  /\ Dense(s) => Dense(h)
         /\ \A p : p \in Whole5(h) <=> p \in Whole5(s) /\ p + 4 <= Len(h)
         /\ \A p \in Whole5(h) : Decoded(h, p) = Decoded(s, p)
<1> DEFINE n == Len(h)
           L == Len(s)
<1>1. n \in Nat /\ L \in Nat /\ n <= L /\ DOMAIN h = 1 .. n /\ DOMAIN s = 1 .. L
  OBVIOUS
<1>2. \A i \in 1 .. n : h[i] = s[i]
  BY Zenon DEF Agree
<1>3. ASSUME Dense(s), NEW k \in 1 .. n - 4
      PROVE  \E i \in k .. k + 4 : IsStart(h[i])
  <2>1. k \in 1 .. L - 4
    BY <1>1
  <2>2. PICK i \in k .. k + 4 : IsStart(s[i])
    BY <1>3, <2>1, Zenon DEF Dense, L
  <2>3. i \in 1 .. n
    BY <1>1
  <2>. QED  BY <1>2, <2>2, <2>3, Zenon
<1>4. ASSUME NEW p \in 1 .. n, p + 4 <= n
      PROVE  /\ h[p] = s[p] /\ h[p + 1] = s[p + 1] /\ h[p + 2] = s[p + 2]
             /\ h[p + 3] = s[p + 3] /\ h[p + 4] = s[p + 4]
             /\ \A q \in 1 .. 4 : h[p + q] = s[p + q]
  <2>1. p + 1 \in 1 .. n /\ p + 2 \in 1 .. n /\ p + 3 \in 1 .. n /\ p + 4 \in 1 .. n
    BY <1>1, <1>4
  <2>2. \A q \in 1 .. 4 : p + q \in 1 .. n
    BY <1>1, <1>4
  <2>. QED  BY <1>2, <2>1, <2>2, Zenon
<1>5. ASSUME NEW p
      PROVE  p \in Whole5(h) <=> p \in Whole5(s) /\ p + 4 <= n
  <2>1. CASE p \in 1 .. n /\ p + 4 <= n
    <3>1. p + 4 <= L /\ p \in 1 .. L
      BY <1>1, <2>1
    <3>. QED  BY <1>1, <1>4, <2>1, <3>1, Zenon DEF Whole5, n, L
  <2>2. CASE ~(p + 4 <= n)
    BY <2>2, Zenon DEF Whole5, n
  <2>3. CASE p \notin 1 .. n
    <3>1. p \notin Whole5(h)
      BY <1>1, <2>3, Zenon DEF Whole5
    <3>2. ASSUME p \in Whole5(s), p + 4 <= n
          PROVE  FALSE
      <4>1. p \in 1 .. L
        BY <1>1, <3>2, Zenon DEF Whole5
      <4>. QED  BY <1>1, <2>3, <3>2, <4>1
    <3>. QED  BY <3>1, <3>2
  <2>. QED  BY <2>1, <2>2, <2>3
<1>6. ASSUME NEW p \in Whole5(h)
      PROVE  Decoded(h, p) = Decoded(s, p)
  <2>1. p \in 1 .. n /\ p + 4 <= n
    BY <1>1, Zenon DEF Whole5, n
  <2>2. p \in Nat /\ p > 0 /\ p + 4 <= Len(h) /\ p + 4 <= Len(s)
    BY <1>1, <2>1
  <2>3. Decoded(h, p) = DecodePacket(<<h[p], h[p + 1], h[p + 2], h[p + 3], h[p + 4]>>)
    BY <2>2, DecodedAt
  <2>4. Decoded(s, p) = DecodePacket(<<s[p], s[p + 1], s[p + 2], s[p + 3], s[p + 4]>>)
    BY <2>2, DecodedAt
  <2>. QED  BY <1>4, <2>1, <2>3, <2>4, Zenon
<1>. QED  BY <1>3, <1>5, <1>6, Zenon DEF Dense, n

\* d says of the pen what e does.
Match(d, e) == (d.pressure > 0 <=> e.pressure > 0) /\ d.x = e.x /\ d.y = e.y

\* The last whole packet among the bytes tells of e, or else what was got before does.
LastTells(s, got, e) ==
  \/ Whole5(s) = {} /\ Match(got, e)
  \/ \E p \in Whole5(s) : (\A q \in Whole5(s) : q <= p) /\ Match(Decoded(s, p), e)

\* A read tells of the last packet or leaves it in the buffer.
LEMMA ReadingKeepsLast ==
  ASSUME NEW h \in Seq(Int), NEW s \in Seq(Int), Len(h) <= Len(s), Agree(h, s, Len(h)),
         NEW k \in 0 .. Len(h), NEW v, Reading(v, h, k),
         NEW t \in Seq(Int), Shifted(t, s, k), NEW got, NEW e, LastTells(s, got, e)
  PROVE  LastTells(t, IF v.told \in DOMAIN v.wrote THEN v.wrote[v.told] ELSE got, e)
<1> DEFINE new == IF v.told \in DOMAIN v.wrote THEN v.wrote[v.told] ELSE got
<1>1. k \in Nat /\ k <= Len(h) /\ Len(h) \in Nat /\ Len(s) \in Nat /\ Len(t) = Len(s) - k
  BY DEF Shifted
<1>2. /\ \A p \in 1 .. Len(t) : p \in Whole5(t) <=> p + k \in Whole5(s)
      /\ \A p \in Whole5(t) : Decoded(t, p) = Decoded(s, p + k)
  BY <1>1, ShiftedBytes
<1>3. /\ \A p : p \in Whole5(h) <=> p \in Whole5(s) /\ p + 4 <= Len(h)
      /\ \A p \in Whole5(h) : Decoded(h, p) = Decoded(s, p)
  BY PrefixBytes
<1>4. DOMAIN t = 1 .. Len(t) /\ DOMAIN s = 1 .. Len(s)
  OBVIOUS
<1>5. \A p \in Whole5(t) : p \in 1 .. Len(t) /\ p \in Nat
  <2>1. \A p \in Whole5(t) : p \in 1 .. Len(t)
    BY <1>4, Zenon DEF Whole5
  <2>. QED  BY <1>1, <2>1
<1>6. \A p \in Whole5(s) : p \in 1 .. Len(s) /\ p \in Nat
  <2>1. \A p \in Whole5(s) : p \in 1 .. Len(s)
    BY <1>4, Zenon DEF Whole5
  <2>. QED  BY <1>1, <2>1
<1>. HIDE DEF new
\* a last packet that is not dropped is the last one still
<1>7. ASSUME NEW p \in Whole5(s), p > k, \A q \in Whole5(s) : q <= p, Match(Decoded(s, p), e)
      PROVE  LastTells(t, new, e)
  <2> DEFINE r == p - k
  <2>1. r \in 1 .. Len(t) /\ r + k = p /\ r \in Nat
    BY <1>1, <1>6, <1>7
  <2>. HIDE DEF r
  <2>2. r \in Whole5(t) /\ Decoded(t, r) = Decoded(s, p)
    BY <1>2, <2>1
  <2>3. ASSUME NEW q \in Whole5(t)
        PROVE  q <= r
    <3>1. q + k \in Whole5(s) /\ q \in Nat
      BY <1>2, <1>5
    <3>2. q + k <= p
      BY <1>7, <3>1
    <3>. QED  BY <1>1, <2>1, <3>1, <3>2
  <2>. QED  BY <1>7, <2>2, <2>3 DEF LastTells
<1>8. CASE /\ \A q \in 1 .. k : IsStart(h[q]) => Broken(h, q)
           /\ v.told = 0 /\ v.wrote = <<>>
  <2>1. new = got
    BY <1>8 DEF new
  <2>2. ASSUME NEW q \in Whole5(s)
        PROVE  q > k
    <3> SUFFICES ASSUME q <= k
                 PROVE  FALSE
      BY <1>1, <1>6
    <3>1. q \in 1 .. k /\ q \in 1 .. Len(h) /\ q \in Nat
      BY <1>1, <1>6
    <3>2. IsStart(s[q]) /\ \A i \in 1 .. 4 : ~IsStart(s[q + i])
      BY Zenon DEF Whole5
    <3>3. PICK i \in 1 .. 4 : q + i <= Len(h) /\ IsStart(h[q + i])
      BY <1>8, <3>1, <3>2, Zenon DEF Agree, Broken
    <3>4. q + i \in 1 .. Len(h)
      BY <1>1, <3>1, <3>3
    <3>. QED  BY <3>2, <3>3, <3>4, Zenon DEF Agree
  <2>3. CASE Whole5(s) = {}
    <3>1. Whole5(t) = {}
      BY <1>2, <1>5, <2>3
    <3>. QED  BY <2>1, <2>3, <3>1 DEF LastTells, new
  <2>4. CASE \E p \in Whole5(s) : (\A q \in Whole5(s) : q <= p) /\ Match(Decoded(s, p), e)
    BY <1>7, <2>2, <2>4 DEF new
  <2>. QED  BY <2>3, <2>4 DEF LastTells
<1>9. ASSUME NEW p0 \in Whole5(h), k = p0 + 4, v.told = 1, v.wrote = <<Decoded(h, p0)>>
      PROVE  LastTells(t, new, e)
  <2>1. new = Decoded(s, p0) /\ p0 \in Whole5(s) /\ p0 \in Nat
    BY <1>3, <1>6, <1>9 DEF new
  <2>2. PICK p \in Whole5(s) : (\A q \in Whole5(s) : q <= p) /\ Match(Decoded(s, p), e)
    BY <2>1 DEF LastTells
  <2>3. CASE p = p0
    <3>1. Whole5(t) = {}
      <4> SUFFICES ASSUME NEW q \in Whole5(t)
                   PROVE  FALSE
        OBVIOUS
      <4>1. q + k \in Whole5(s) /\ q \in Nat /\ q >= 1
        BY <1>1, <1>2, <1>5
      <4>2. q + k <= p0
        BY <2>2, <2>3, <4>1
      <4>. QED  BY <1>1, <1>9, <2>1, <4>1, <4>2
    <3>. QED  BY <2>1, <2>2, <2>3, <3>1 DEF LastTells
  <2>4. CASE p # p0
    <3>1. p0 < p /\ p \in Nat
      BY <1>6, <2>1, <2>2, <2>4
    <3>2. p >= p0 + 5
      BY <2>1, <3>1, PacketsApart
    <3>3. p > k
      BY <1>1, <1>9, <2>1, <3>1, <3>2
    <3>. QED  BY <1>7, <2>2, <3>3
  <2>. QED  BY <2>3, <2>4
<1>10. LastTells(t, new, e)
  <2>1. \/ (\A q \in 1 .. k : IsStart(h[q]) => Broken(h, q)) /\ v.told = 0 /\ v.wrote = <<>>
        \/ \E p0 \in Whole5(h) : k = p0 + 4 /\ v.told = 1 /\ v.wrote = <<Decoded(h, p0)>>
    BY Zenon DEF Reading
  <2>2. CASE \E p0 \in Whole5(h) : k = p0 + 4 /\ v.told = 1 /\ v.wrote = <<Decoded(h, p0)>>
    <3>1. PICK p0 \in Whole5(h) : k = p0 + 4 /\ v.told = 1 /\ v.wrote = <<Decoded(h, p0)>>
      BY <2>2, Zenon
    <3>. QED  BY <1>9, <3>1, Zenon
  <2>3. CASE (\A q \in 1 .. k : IsStart(h[q]) => Broken(h, q)) /\ v.told = 0 /\ v.wrote = <<>>
    BY <1>8, <2>3, Zenon DEF new
  <2>. QED  BY <2>1, <2>2, <2>3
<1>. QED  BY <1>10 DEF new

\* A sample is written just when a packet ends with one of the bytes that came.
InStep(due, wrote) ==
  \/ DOMAIN due = {} /\ wrote = <<>>
  \/ \E i \in DOMAIN due : DOMAIN due = {i} /\ wrote = <<due[i]>>

\* The bytes of a read behind those in the buffer.
LEMMA Joined ==
  ASSUME NEW b \in Seq(Int), NEW w \in Seq(Int), NEW n \in 0 .. Len(w)
  PROVE  LET h == b \o SubSeq(w, 1, n)
         IN /\ h \in Seq(Int) /\ Len(h) = Len(b) + n
            /\ \A i \in 1 .. Len(b) : h[i] = b[i]
            /\ \A i \in 1 .. n : h[Len(b) + i] = w[i]
<1> DEFINE q == SubSeq(w, 1, n)
<1>1. n \in Nat /\ n <= Len(w)
  OBVIOUS
<1>2. q \in Seq(Int) /\ Len(q) = n /\ \A i \in 1 .. n : q[i] = w[i]
  BY <1>1
<1>. HIDE DEF q
<1> DEFINE h == b \o q
<1>3. h \in Seq(Int) /\ Len(h) = Len(b) + n
  <2>1. q \in Seq(Int)
    BY <1>2
  <2>2. h \in Seq(Int) /\ Len(h) = Len(b) + Len(q)
    BY ONLY <2>1, b \in Seq(Int)
  <2>. HIDE DEF h
  <2>. QED  BY <1>2, <2>2
<1>4. \A i \in 1 .. Len(b) : h[i] = b[i]
  BY <1>1, <1>2
<1>5. \A i \in 1 .. n : h[Len(b) + i] = q[i]
  <2> SUFFICES ASSUME NEW i \in 1 .. n
               PROVE  h[Len(b) + i] = q[i]
    OBVIOUS
  <2> DEFINE j == Len(b) + i
  <2>1. j \in 1 .. Len(b) + Len(q) /\ j > Len(b) /\ j - Len(b) = i
    BY <1>1, <1>2
  <2>. HIDE DEF j
  <2>2. h[j] = q[j - Len(b)]
    BY <1>2, <2>1
  <2>. QED  BY <2>1, <2>2 DEF j
<1>. QED  BY <1>2, <1>3, <1>4, <1>5 DEF q

Due(f, n) == [i \in {j \in 1 .. n : Len(f[j]) = PACKET_SIZE} |-> DecodePacket(f[i])]

\* A read gives a sample just if a packet ends with one of its bytes, and it gives that packet.
LEMMA WroteWhatIsDue ==
  ASSUME NEW b \in Seq(Int), Len(b) <= 4, NEW w \in Seq(Int), NEW n \in 0 .. Len(w),
         NEW c \in Seq(Int), CurOf(c, b), NEW f, Taking(f, n, c, w),
         NEW k, NEW v, Reading(v, b \o SubSeq(w, 1, n), k)
  PROVE  InStep(Due(f, n), v.wrote)
<1> DEFINE h == b \o SubSeq(w, 1, n)
           ends == {j \in 1 .. n : Len(f[j]) = PACKET_SIZE}
           due == [i \in ends |-> DecodePacket(f[i])]
           L == Len(b)
<1> SUFFICES InStep(due, v.wrote)
  BY DEF Due
<1>1. /\ n \in Nat /\ n <= Len(w) /\ L \in Nat /\ L <= 4 /\ h \in Seq(Int) /\ Len(h) = L + n
      /\ DOMAIN h = 1 .. L + n
  <2>1. h \in Seq(Int) /\ Len(h) = L + n
    BY Joined
  <2>2. n \in Nat /\ n <= Len(w) /\ L \in Nat /\ L <= 4
    OBVIOUS
  <2>. HIDE DEF h
  <2>. QED  BY <2>1, <2>2
<1>2. ASSUME NEW i \in 1 .. n
      PROVE  /\ i \in ends <=> (L + i) - 4 \in Whole5(h)
             /\ i \in ends => DecodePacket(f[i]) = Decoded(h, (L + i) - 4)
  <2> DEFINE t == b \o SubSeq(w, 1, i)
  <2>1. f[i] \in Seq(Int) /\ CurOf(f[i], t)
    <3>1. i \in 0 .. n
      BY <1>1
    <3>. QED  BY <3>1, TakingFollows
  <2>2. t \in Seq(Int) /\ Len(t) = L + i /\ t # <<>> /\ Len(t) <= Len(h)
    <3>1. i \in 0 .. Len(w) /\ i >= 1 /\ i <= n
      BY <1>1
    <3>2. t \in Seq(Int) /\ Len(t) = L + i
      BY <3>1, Joined
    <3>. HIDE DEF t, h
    <3>. QED  BY <1>1, <3>1, <3>2
  <2>3. Agree(t, h, Len(t))
    <3>1. i \in 0 .. Len(w) /\ i \in Nat /\ i <= n
      BY <1>1
    <3>3. /\ \A j \in 1 .. L : t[j] = b[j] /\ h[j] = b[j]
          /\ \A j \in 1 .. i : t[L + j] = w[j]
          /\ \A j \in 1 .. n : h[L + j] = w[j]
      BY <3>1, Joined
    <3>. HIDE DEF t, h, L
    <3>2. ASSUME NEW j \in 1 .. Len(t)
          PROVE  t[j] = h[j]
      <4>1. CASE j \in 1 .. L
        BY <3>3, <4>1
      <4>2. CASE j \notin 1 .. L
        <5> DEFINE m == j - L
        <5>1. m \in 1 .. i /\ m \in 1 .. n /\ L + m = j
          BY <1>1, <2>2, <3>1, <4>2
        <5>. HIDE DEF m
        <5>. QED  BY <3>3, <5>1
      <4>. QED  BY <4>1, <4>2
    <3>. QED  BY <3>2, Zenon DEF Agree
  <2>. HIDE DEF t, h
  <2>4. /\ Len(f[i]) = 5 <=> Len(t) - 4 \in Whole5(t)
        /\ Len(f[i]) = 5 => DecodePacket(f[i]) = Decoded(t, Len(t) - 4)
    BY <2>1, <2>2, EndsWhole
  <2>5. /\ \A p : p \in Whole5(t) <=> p \in Whole5(h) /\ p + 4 <= Len(t)
        /\ \A p \in Whole5(t) : Decoded(t, p) = Decoded(h, p)
    BY <1>1, <2>2, <2>3, PrefixBytes
  <2>6. ((L + i) - 4) + 4 <= L + i
    BY <1>1
  <2>7. i \in ends <=> Len(f[i]) = 5
    BY DEF PACKET_SIZE
  <2>. HIDE DEF ends
  <2>8. Len(f[i]) = 5 <=> (L + i) - 4 \in Whole5(h)
    BY <2>2, <2>4, <2>5, <2>6, Zenon
  <2>9. Len(f[i]) = 5 => DecodePacket(f[i]) = Decoded(h, (L + i) - 4)
    BY <2>2, <2>4, <2>5, Zenon
  <2>. QED  BY <2>7, <2>8, <2>9, Zenon
<1>. HIDE DEF h, L
<1>3. ends \subseteq 1 .. n /\ DOMAIN due = ends /\ \A i \in ends : due[i] = DecodePacket(f[i])
  OBVIOUS
<1>. HIDE DEF ends, due
<1>4. CASE Whole5(h) = {} /\ v.wrote = <<>>
  <2>1. ends = {}
    BY <1>2, <1>3, <1>4
  <2>. QED  BY <1>3, <1>4, <2>1 DEF InStep, due, ends
<1>5. ASSUME NEW p \in Whole5(h), Whole5(h) = {p}, v.wrote = <<Decoded(h, p)>>
      PROVE  InStep(due, v.wrote)
  <2>1. p \in 1 .. L + n /\ p + 4 <= L + n
    BY <1>1, Zenon DEF Whole5
  <2> DEFINE i == (p + 4) - L
  <2>2. i \in 1 .. n /\ (L + i) - 4 = p
    BY <1>1, <2>1
  <2>. HIDE DEF i
  <2>3. i \in ends /\ DecodePacket(f[i]) = Decoded(h, p)
    BY <1>2, <2>2
  <2>4. ASSUME NEW j \in ends
        PROVE  j = i
    <3>1. j \in 1 .. n
      BY <1>3
    <3>2. (L + j) - 4 = p
      BY <1>2, <1>5, <3>1
    <3>. QED  BY <1>1, <2>2, <3>1, <3>2
  <2>5. ends = {i}
    BY <2>3, <2>4
  <2>6. DOMAIN due = {i} /\ due[i] = Decoded(h, p)
    BY <1>3, <2>3, <2>5
  <2>7. v.wrote = <<due[i]>>
    BY <1>5, <2>6
  <2>. QED  BY <2>6, <2>7, Zenon DEF InStep
<1>6. CASE \E p \in Whole5(h) : Whole5(h) = {p} /\ v.wrote = <<Decoded(h, p)>>
  <2>1. PICK p \in Whole5(h) : Whole5(h) = {p} /\ v.wrote = <<Decoded(h, p)>>
    BY <1>6, Zenon
  <2>2. InStep(due, v.wrote)
    BY <1>5, <2>1
  <2>. QED  BY <2>2 DEF due, ends
<1>7. \/ Whole5(h) = {} /\ v.wrote = <<>>
      \/ \E p \in Whole5(h) : Whole5(h) = {p} /\ v.wrote = <<Decoded(h, p)>>
  BY Zenon DEF Reading, h
<1>. QED  BY <1>4, <1>6, <1>7

\* what is in the buffer, in the device file and on the line
Stream(b, w, l) == (b \o w) \o l

\* Where the bytes of two sequences are when they are joined,
LEMMA TwoAt ==
  ASSUME NEW b \in Seq(Int), NEW w \in Seq(Int)
  PROVE  /\ b \o w \in Seq(Int) /\ Len(b \o w) = Len(b) + Len(w)
         /\ \A i \in 1 .. Len(b) : (b \o w)[i] = b[i]
         /\ \A i \in 1 .. Len(w) : (b \o w)[Len(b) + i] = w[i]
<1>1. b \o w \in Seq(Int) /\ Len(b \o w) = Len(b) + Len(w) /\ Len(b) \in Nat /\ Len(w) \in Nat
  OBVIOUS
<1>2. \A i \in 1 .. Len(b) : (b \o w)[i] = b[i]
  BY <1>1
<1>3. ASSUME NEW i \in 1 .. Len(w)
      PROVE  (b \o w)[Len(b) + i] = w[i]
  <2> DEFINE j == Len(b) + i
  <2>1. j \in 1 .. Len(b) + Len(w) /\ j > Len(b) /\ j - Len(b) = i
    BY <1>1
  <2>. HIDE DEF j
  <2>2. (b \o w)[j] = w[j - Len(b)]
    BY <2>1
  <2>. QED  BY <2>1, <2>2 DEF j
<1>. QED  BY <1>1, <1>2, <1>3

\* and those of the buffer, the device file and the line.
LEMMA StreamAt ==
  ASSUME NEW b \in Seq(Int), NEW w \in Seq(Int), NEW l \in Seq(Int)
  PROVE  LET s == Stream(b, w, l)
         IN /\ s \in Seq(Int) /\ Len(s) = (Len(b) + Len(w)) + Len(l)
            /\ \A i \in 1 .. Len(b) : s[i] = b[i]
            /\ \A i \in 1 .. Len(w) : s[Len(b) + i] = w[i]
            /\ \A i \in 1 .. Len(l) : s[(Len(b) + Len(w)) + i] = l[i]
<1> DEFINE u == b \o w
           s == u \o l
<1>1. /\ u \in Seq(Int) /\ Len(u) = Len(b) + Len(w) /\ Len(b) \in Nat /\ Len(w) \in Nat
      /\ \A i \in 1 .. Len(b) : u[i] = b[i]
      /\ \A i \in 1 .. Len(w) : u[Len(b) + i] = w[i]
  BY TwoAt
<1>. HIDE DEF u
<1>2. /\ s \in Seq(Int) /\ Len(s) = Len(u) + Len(l)
      /\ \A i \in 1 .. Len(u) : s[i] = u[i]
      /\ \A i \in 1 .. Len(l) : s[Len(u) + i] = l[i]
  BY <1>1, TwoAt
<1>. HIDE DEF s
<1>3. ASSUME NEW i \in 1 .. Len(b)
      PROVE  s[i] = b[i]
  <2>1. i \in 1 .. Len(u)
    BY <1>1
  <2>. QED  BY <1>1, <1>2, <2>1, Zenon
<1>4. ASSUME NEW i \in 1 .. Len(w)
      PROVE  s[Len(b) + i] = w[i]
  <2>1. Len(b) + i \in 1 .. Len(u)
    BY <1>1
  <2>. QED  BY <1>1, <1>2, <2>1, Zenon
<1>5. s = Stream(b, w, l)
  BY DEF s, u, Stream
<1>. QED  BY <1>1, <1>2, <1>3, <1>4, <1>5

StreamIs(b, w, l) ==
  LET s == Stream(b, w, l)
  IN /\ s \in Seq(Int) /\ Len(s) = (Len(b) + Len(w)) + Len(l)
     /\ \A i \in 1 .. Len(b) : s[i] = b[i]
     /\ \A i \in 1 .. Len(w) : s[Len(b) + i] = w[i]
     /\ \A i \in 1 .. Len(l) : s[(Len(b) + Len(w)) + i] = l[i]

\* The same of all of them.
LEMMA StreamParts == \A b, w, l \in Seq(Int) : StreamIs(b, w, l)
BY StreamAt DEF StreamIs

\* In which part of a sequence a place is
LEMMA PlaceOf ==
  ASSUME NEW a \in Nat, NEW b \in Nat, NEW c \in Nat, NEW d \in Nat,
         NEW i \in 1 .. ((a + b) + c) + d
  PROVE  \/ i \in 1 .. a \/ i - a \in 1 .. b \/ i - (a + b) \in 1 .. c
         \/ i - ((a + b) + c) \in 1 .. d
OBVIOUS

\* Bytes that arrive stay where they are in the stream.
LEMMA ArrivingKeepsStream ==
  ASSUME NEW b \in Seq(Int), NEW w \in Seq(Int), NEW l \in Seq(Int), NEW n \in 1 .. Len(l)
  PROVE  /\ w \o SubSeq(l, 1, n) \in Seq(Int) /\ SubSeq(l, n + 1, Len(l)) \in Seq(Int)
         /\ Stream(b, w \o SubSeq(l, 1, n), SubSeq(l, n + 1, Len(l))) = Stream(b, w, l)
<1> DEFINE w2 == w \o SubSeq(l, 1, n)
           l2 == SubSeq(l, n + 1, Len(l))
           x == Stream(b, w2, l2)
           y == Stream(b, w, l)
<1>1. n \in 0 .. Len(l) /\ n \in Nat /\ n <= Len(l) /\ Len(l) \in Nat /\ Len(w) \in Nat /\ Len(b) \in Nat
  OBVIOUS
<1>2. /\ w2 \in Seq(Int) /\ Len(w2) = Len(w) + n
      /\ \A i \in 1 .. Len(w) : w2[i] = w[i]
      /\ \A i \in 1 .. n : w2[Len(w) + i] = l[i]
  BY <1>1, Joined
<1>3. l2 \in Seq(Int) /\ Shifted(l2, l, n)
  BY <1>1, SuffixShifts
<1>. HIDE DEF w2, l2
<1>4. Len(l2) = Len(l) - n /\ \A i \in 1 .. Len(l2) : l2[i] = l[i + n]
  BY <1>3, Zenon DEF Shifted
<1>5. /\ x \in Seq(Int) /\ Len(x) = (Len(b) + Len(w2)) + Len(l2)
      /\ \A i \in 1 .. Len(b) : x[i] = b[i]
      /\ \A i \in 1 .. Len(w2) : x[Len(b) + i] = w2[i]
      /\ \A i \in 1 .. Len(l2) : x[(Len(b) + Len(w2)) + i] = l2[i]
  BY <1>2, <1>3, StreamAt
<1>6. /\ y \in Seq(Int) /\ Len(y) = (Len(b) + Len(w)) + Len(l)
      /\ \A i \in 1 .. Len(b) : y[i] = b[i]
      /\ \A i \in 1 .. Len(w) : y[Len(b) + i] = w[i]
      /\ \A i \in 1 .. Len(l) : y[(Len(b) + Len(w)) + i] = l[i]
  BY StreamAt
<1>. HIDE DEF x, y
<1>7. Len(x) = Len(y)
  BY <1>1, <1>2, <1>4, <1>5, <1>6
<1>8. ASSUME NEW i \in 1 .. Len(x)
      PROVE  x[i] = y[i]
  <2>1. CASE i \in 1 .. Len(b)
    BY <1>5, <1>6, <2>1
  <2>2. CASE i - Len(b) \in 1 .. Len(w)
    <3> DEFINE j == i - Len(b)
    <3>1. j \in 1 .. Len(w) /\ j \in 1 .. Len(w2) /\ Len(b) + j = i
      BY <1>1, <1>2, <2>2
    <3>. HIDE DEF j
    <3>. QED  BY <1>2, <1>5, <1>6, <3>1
  <2>3. CASE i - (Len(b) + Len(w)) \in 1 .. n
    <3> DEFINE j == i - (Len(b) + Len(w))
               m == Len(w) + j
    <3>1. j \in 1 .. n /\ j \in 1 .. Len(l) /\ m \in 1 .. Len(w2)
          /\ Len(b) + m = i /\ (Len(b) + Len(w)) + j = i
      BY <1>1, <1>2, <2>3
    <3>2. w2[m] = l[j]
      <4>. HIDE DEF j
      <4>. QED  BY <1>2, <3>1
    <3>. HIDE DEF j, m
    <3>. QED  BY <1>5, <1>6, <3>1, <3>2
  <2>4. CASE i - ((Len(b) + Len(w)) + n) \in 1 .. Len(l2)
    <3> DEFINE j == i - ((Len(b) + Len(w)) + n)
               m == j + n
    <3>1. j \in 1 .. Len(l2) /\ m \in 1 .. Len(l)
          /\ (Len(b) + Len(w2)) + j = i /\ (Len(b) + Len(w)) + m = i
      BY <1>1, <1>2, <1>4, <2>4
    <3>2. l2[j] = l[m]
      <4>. HIDE DEF j
      <4>. QED  BY <1>4, <3>1
    <3>. HIDE DEF j, m
    <3>. QED  BY <1>5, <1>6, <3>1, <3>2
  <2>5. i \in 1 .. ((Len(b) + Len(w)) + n) + Len(l2) /\ Len(l2) \in Nat
    BY <1>1, <1>2, <1>4, <1>5
  <2>6. \/ i \in 1 .. Len(b) \/ i - Len(b) \in 1 .. Len(w) \/ i - (Len(b) + Len(w)) \in 1 .. n
        \/ i - ((Len(b) + Len(w)) + n) \in 1 .. Len(l2)
    BY <1>1, <2>5, PlaceOf
  <2>. QED  BY <2>1, <2>2, <2>3, <2>4, <2>6, Zenon
<1>9. x = y
  BY <1>5, <1>6, <1>7, <1>8, SeqEqual
<1>. QED  BY <1>2, <1>3, <1>9 DEF w2, l2, x, y

\* What is read is the first part of the stream, and what is dropped leaves the rest of it.
LEMMA ReadingShiftsStream ==
  ASSUME NEW b \in Seq(Int), NEW w \in Seq(Int), NEW l \in Seq(Int), NEW n \in 0 .. Len(w),
         NEW k \in 0 .. Len(b) + n
  PROVE  LET h == b \o SubSeq(w, 1, n)
             b2 == SubSeq(h, k + 1, Len(h))
             w2 == SubSeq(w, n + 1, Len(w))
         IN /\ h \in Seq(Int) /\ Len(h) = Len(b) + n /\ b2 \in Seq(Int) /\ w2 \in Seq(Int)
            /\ Len(h) <= Len(Stream(b, w, l)) /\ Agree(h, Stream(b, w, l), Len(h))
            /\ Shifted(Stream(b2, w2, l), Stream(b, w, l), k)
<1> DEFINE h == b \o SubSeq(w, 1, n)
           b2 == SubSeq(h, k + 1, Len(h))
           w2 == SubSeq(w, n + 1, Len(w))
           x == Stream(b2, w2, l)
           y == Stream(b, w, l)
<1>1. /\ n \in Nat /\ n <= Len(w) /\ Len(l) \in Nat /\ Len(w) \in Nat /\ Len(b) \in Nat
      /\ k \in Nat /\ k <= Len(b) + n
  OBVIOUS
<1>2. /\ h \in Seq(Int) /\ Len(h) = Len(b) + n
      /\ \A i \in 1 .. Len(b) : h[i] = b[i]
      /\ \A i \in 1 .. n : h[Len(b) + i] = w[i]
  BY Joined
<1>. HIDE DEF h
<1>3. b2 \in Seq(Int) /\ Shifted(b2, h, k) /\ w2 \in Seq(Int) /\ Shifted(w2, w, n)
  <2>1. k \in 0 .. Len(h)
    BY <1>1, <1>2
  <2>2. b2 \in Seq(Int) /\ Shifted(b2, h, k)
    BY <1>2, <2>1, SuffixShifts
  <2>3. w2 \in Seq(Int) /\ Shifted(w2, w, n)
    BY SuffixShifts
  <2>. QED  BY <2>2, <2>3
<1>. HIDE DEF b2, w2
<1>4. /\ Len(b2) = (Len(b) + n) - k /\ \A i \in 1 .. Len(b2) : b2[i] = h[i + k]
      /\ Len(w2) = Len(w) - n /\ \A i \in 1 .. Len(w2) : w2[i] = w[i + n]
  BY <1>2, <1>3, Zenon DEF Shifted
<1>5. /\ x \in Seq(Int) /\ Len(x) = (Len(b2) + Len(w2)) + Len(l)
      /\ \A i \in 1 .. Len(b2) : x[i] = b2[i]
      /\ \A i \in 1 .. Len(w2) : x[Len(b2) + i] = w2[i]
      /\ \A i \in 1 .. Len(l) : x[(Len(b2) + Len(w2)) + i] = l[i]
  <2>1. b2 \in Seq(Int) /\ w2 \in Seq(Int)
    BY <1>3
  <2>2. StreamIs(b2, w2, l)
    BY <2>1, StreamParts
  <2>. QED  BY <2>2, Zenon DEF StreamIs
<1>6. /\ y \in Seq(Int) /\ Len(y) = (Len(b) + Len(w)) + Len(l)
      /\ \A i \in 1 .. Len(b) : y[i] = b[i]
      /\ \A i \in 1 .. Len(w) : y[Len(b) + i] = w[i]
      /\ \A i \in 1 .. Len(l) : y[(Len(b) + Len(w)) + i] = l[i]
  BY StreamAt
<1>. HIDE DEF x, y
<1>7. Len(x) = Len(y) - k /\ Len(h) <= Len(y)
  <2>1. /\ Len(h) = Len(b) + n /\ Len(b2) = (Len(b) + n) - k /\ Len(w2) = Len(w) - n
        /\ Len(x) = (Len(b2) + Len(w2)) + Len(l) /\ Len(y) = (Len(b) + Len(w)) + Len(l)
    BY <1>2, <1>4, <1>5, <1>6, Zenon
  <2>. QED  BY <1>1, <2>1
<1>8. ASSUME NEW i \in 1 .. Len(h)
      PROVE  h[i] = y[i]
  <2>1. CASE i \in 1 .. Len(b)
    BY <1>2, <1>6, <2>1
  <2>2. CASE i \notin 1 .. Len(b)
    <3> DEFINE j == i - Len(b)
    <3>1. j \in 1 .. n /\ j \in 1 .. Len(w) /\ Len(b) + j = i
      BY <1>1, <1>2, <2>2
    <3>. HIDE DEF j
    <3>. QED  BY <1>2, <1>6, <3>1
  <2>. QED  BY <2>1, <2>2
<1>9. ASSUME NEW i \in 1 .. Len(x)
      PROVE  x[i] = y[i + k]
  <2>1. CASE i \in 1 .. Len(b2)
    <3> DEFINE m == i + k
    <3>1. m \in 1 .. Len(h)
      BY <1>1, <1>2, <1>4, <2>1
    <3>2. x[i] = h[m]
      BY <1>4, <1>5, <2>1
    <3>. HIDE DEF m
    <3>3. h[m] = y[m]
      BY <1>8, <3>1
    <3>. QED  BY <3>2, <3>3 DEF m
  <2>2. CASE i - Len(b2) \in 1 .. Len(w2)
    <3> DEFINE j == i - Len(b2)
               m == j + n
    <3>1. j \in 1 .. Len(w2) /\ Len(b2) + j = i /\ m \in 1 .. Len(w) /\ Len(b) + m = i + k
      BY <1>1, <1>4, <2>2
    <3>2. w2[j] = w[m]
      <4>. HIDE DEF j
      <4>. QED  BY <1>4, <3>1
    <3>. HIDE DEF j, m
    <3>. QED  BY <1>5, <1>6, <3>1, <3>2
  <2>3. CASE i - (Len(b2) + Len(w2)) \in 1 .. Len(l)
    <3> DEFINE j == i - (Len(b2) + Len(w2))
    <3>1. j \in 1 .. Len(l) /\ (Len(b2) + Len(w2)) + j = i /\ (Len(b) + Len(w)) + j = i + k
      BY <1>1, <1>4, <2>3
    <3>. HIDE DEF j
    <3>. QED  BY <1>5, <1>6, <3>1
  <2>4. i \in 1 .. ((Len(b2) + Len(w2)) + Len(l)) + 0
    BY <1>1, <1>4, <1>5
  <2>5. Len(b2) \in Nat /\ Len(w2) \in Nat
    BY <1>1, <1>4
  <2>6. i \in 1 .. Len(b2) \/ i - Len(b2) \in 1 .. Len(w2) \/ i - (Len(b2) + Len(w2)) \in 1 .. Len(l)
    BY <1>1, <2>4, <2>5, PlaceOf
  <2>. QED  BY <2>1, <2>2, <2>3, <2>6, Zenon
<1>10. Agree(h, y, Len(h)) /\ Shifted(x, y, k)
  BY <1>7, <1>8, <1>9, Zenon DEF Agree, Shifted
<1>. QED  BY <1>2, <1>3, <1>7, <1>10 DEF h, b2, w2, x, y

ReadingParts(b, w, l, n, k) ==
  LET h == b \o SubSeq(w, 1, n)
      b2 == SubSeq(h, k + 1, Len(h))
      w2 == SubSeq(w, n + 1, Len(w))
  IN /\ h \in Seq(Int) /\ Len(h) = Len(b) + n /\ b2 \in Seq(Int) /\ w2 \in Seq(Int)
     /\ Len(h) <= Len(Stream(b, w, l)) /\ Agree(h, Stream(b, w, l), Len(h))
     /\ Shifted(Stream(b2, w2, l), Stream(b, w, l), k)

\* The same of all sequences.
LEMMA ReadingHasParts ==
  \A b, w, l \in Seq(Int) : \A n \in 0 .. Len(w) : \A k \in 0 .. Len(b) + n :
    ReadingParts(b, w, l, n, k)
BY ReadingShiftsStream DEF ReadingParts

-----------------------------------------------------------------------------
(* TouchKit: the stream of bytes and its invariant                         *)

Pens == [x : Nat, y : Nat, pressure : {0, 1}]

TouchKitInv ==
  conf.driver = "touchkit" =>
    /\ conf \in Confs /\ pen \in Pens /\ pen.x < 2048 /\ pen.y < 2048
    /\ mod \in Seq(Int) /\ Len(mod) <= 4 /\ wire \in Seq(Int) /\ line \in Seq(Int)
    /\ Dense(Stream(mod, wire, line)) /\ LastTells(Stream(mod, wire, line), seen, pen)
    /\ IsPast(past) /\ past.cur \in Seq(Int) /\ CurOf(past.cur, mod)
    /\ InStep(read.due, read.wrote)

\* The bytes of a report are a packet that tells of it.
LEMMA PacketTells ==
  ASSUME NEW p \in Pens, p.x < 2048, p.y < 2048, conf.driver = "touchkit"
  PROVE  /\ Packet(p) \in Seq(Int) /\ Len(Packet(p)) = 5 /\ IsPiece(Packet(p))
         /\ Match(DecodePacket(Packet(p)), p)
<1> DEFINE b == IF p.pressure > 0 THEN 129 ELSE 128
           q == <<b, p.x \div 128, p.x % 128, p.y \div 128, p.y % 128>>
<1>1. Packet(p) = q
  BY DEF Packet
<1>2. p.x \in Nat /\ p.y \in Nat /\ p.pressure \in {0, 1}
  BY DEF Pens
<1>3. ASSUME NEW n \in Nat, n < 2048
      PROVE  /\ n \div 128 \in 0 .. 15 /\ n % 128 \in 0 .. 127
             /\ ((n \div 128) % 16) * 128 + ((n % 128) % 128) = n
  <2> DEFINE d == n \div 128
             r == n % 128
  <2>1. d \in 0 .. 15 /\ r \in 0 .. 127
    BY ONLY n \in Nat, n < 2048
  <2>2. n = 128 * d + r
    <3>1. d \in Int /\ r \in Int /\ d = n \div 128 /\ r = n % 128 /\ n \in Nat
      BY <2>1
    <3>. HIDE DEF d, r
    <3>. QED  BY ONLY <3>1
  <2>. HIDE DEF d, r
  <2>3. d % 16 = d /\ r % 128 = r
    BY ONLY <2>1
  <2>4. (d % 16) * 128 + (r % 128) = n
    BY <2>1, <2>2, <2>3
  <2>. QED  BY <2>1, <2>4 DEF d, r
<1> DEFINE x1 == p.x \div 128
           x2 == p.x % 128
           y1 == p.y \div 128
           y2 == p.y % 128
<1>4. x1 \in 0 .. 15 /\ x2 \in 0 .. 127 /\ (x1 % 16) * 128 + (x2 % 128) = p.x
  BY <1>2, <1>3
<1>5. y1 \in 0 .. 15 /\ y2 \in 0 .. 127 /\ (y1 % 16) * 128 + (y2 % 128) = p.y
  BY <1>2, <1>3
<1>6. b \in Int /\ IsStart(b) /\ (b = 129 <=> p.pressure > 0)
  BY <1>2 DEF IsStart
<1>7. q = <<b, x1, x2, y1, y2>>
  OBVIOUS
<1>. HIDE DEF b, x1, x2, y1, y2, q
<1>8. /\ q \in Seq(Int) /\ Len(q) = 5
      /\ q[1] = b /\ q[2] = x1 /\ q[3] = x2 /\ q[4] = y1 /\ q[5] = y2
  BY <1>4, <1>5, <1>6, <1>7
<1>9. ~IsStart(x1) /\ ~IsStart(x2) /\ ~IsStart(y1) /\ ~IsStart(y2)
  BY <1>4, <1>5 DEF IsStart
<1>10. \A i \in 2 .. Len(q) : ~IsStart(q[i])
  <2>1. \A i \in 2 .. 5 : i = 2 \/ i = 3 \/ i = 4 \/ i = 5
    OBVIOUS
  <2>. QED  BY <1>8, <1>9, <2>1
<1>11. IsPiece(q)
  BY <1>6, <1>8, <1>10 DEF IsPiece
<1>12. Match(DecodePacket(q), p)
  <2>1. /\ DecodePacket(q).x = p.x /\ DecodePacket(q).y = p.y
        /\ DecodePacket(q).pressure = IF b = 129 THEN 200 ELSE 0
    BY <1>4, <1>5, <1>8 DEF DecodePacket
  <2>. QED  BY <1>2, <1>6, <2>1 DEF Match
<1>. QED  BY <1>1, <1>8, <1>11, <1>12

\* The start of a report is the start of a packet, which may or may not be whole.
LEMMA CutPiece ==
  ASSUME NEW c, IsPiece(c), NEW n \in 1 .. 4, Len(c) = 5
  PROVE  IsPiece(SubSeq(c, 1, n)) /\ Len(SubSeq(c, 1, n)) = n
<1> DEFINE t == SubSeq(c, 1, n)
<1>1. c \in Seq(Int) /\ IsStart(c[1]) /\ \A i \in 2 .. 5 : ~IsStart(c[i])
  BY DEF IsPiece
<1>2. n \in Nat /\ n >= 1 /\ n <= 4
  OBVIOUS
<1>3. t \in Seq(Int) /\ Len(t) = n /\ \A i \in 1 .. n : t[i] = c[i]
  <2>1. c \in Seq(Int) /\ n \in Nat /\ n >= 1 /\ n <= Len(c) /\ \A i \in 1 .. n : i \in Nat
    BY <1>1, <1>2
  <2>2. t \in Seq(Int) /\ Len(t) = n
    BY ONLY <2>1
  <2>3. \A i \in 1 .. n : t[i] = c[i]
    BY ONLY <2>1
  <2>. QED  BY <2>2, <2>3
<1>. HIDE DEF t
<1>4. IsStart(t[1])
  BY <1>1, <1>2, <1>3
<1>5. \A i \in 2 .. n : i \in 2 .. 5 /\ i \in 1 .. n
  BY <1>2
<1>6. IsPiece(t)
  BY <1>1, <1>2, <1>3, <1>4, <1>5 DEF IsPiece
<1>. QED  BY <1>3, <1>6 DEF t

\* Behind an empty line such a piece lies behind the stream.
LEMMA PieceInStream ==
  ASSUME NEW b \in Seq(Int), NEW w \in Seq(Int), NEW c, IsPiece(c), NEW got, NEW e, NEW e2,
         Dense(Stream(b, w, <<>>)), LastTells(Stream(b, w, <<>>), got, e),
         IF Len(c) = 5 THEN Match(DecodePacket(c), e2) ELSE e2 = e
  PROVE  Dense(Stream(b, w, c)) /\ LastTells(Stream(b, w, c), got, e2)
<1> DEFINE s == b \o w
           t == s \o c
           L == Len(s)
<1>1. s \in Seq(Int) /\ L \in Nat
  OBVIOUS
<1>2. Stream(b, w, <<>>) = s /\ Stream(b, w, c) = t
  <2>1. s \o <<>> = s
    BY <1>1
  <2>. QED  BY <2>1 DEF Stream
<1>. HIDE DEF s
<1>3. /\ Dense(s) => Dense(s \o c)
      /\ Whole5(s \o c) = Whole5(s) \cup (IF Len(c) = 5 THEN {Len(s) + 1} ELSE {})
      /\ \A p \in Whole5(s) : Decoded(s \o c, p) = Decoded(s, p)
      /\ Len(c) = 5 => Decoded(s \o c, Len(s) + 1) = DecodePacket(c)
  BY <1>1, PieceBehind
<1>4. \A p \in Whole5(s) : p \in 1 .. L /\ p <= L + 1
  <2>1. DOMAIN s = 1 .. L
    BY <1>1
  <2>2. \A p \in Whole5(s) : p \in 1 .. L
    BY <2>1, Zenon DEF Whole5
  <2>. QED  BY <1>1, <2>2
<1>5. Dense(t)
  BY <1>2, <1>3
<1>. HIDE DEF t, L
<1>6. CASE Len(c) = 5
  <2> DEFINE p == L + 1
  <2>1. p \in Whole5(t) /\ Decoded(t, p) = DecodePacket(c) /\ p <= p
    BY <1>1, <1>3, <1>6 DEF t, L
  <2>2. \A q \in Whole5(t) : q <= p
    <3>1. \A q \in Whole5(t) : q \in Whole5(s) \/ q = p
      BY <1>3, <1>6 DEF t, L
    <3>. QED  BY <1>4, <2>1, <3>1
  <2>3. Match(Decoded(t, p), e2)
    BY <1>6, <2>1
  <2>. HIDE DEF p
  <2>4. LastTells(t, got, e2)
    BY <2>1, <2>2, <2>3, Zenon DEF LastTells
  <2>. QED  BY <1>2, <1>5, <2>4
<1>7. CASE Len(c) # 5
  <2>1. Whole5(t) = Whole5(s) /\ \A p \in Whole5(s) : Decoded(t, p) = Decoded(s, p)
    BY <1>3, <1>7 DEF t
  <2>2. LastTells(s, got, e) /\ e2 = e
    BY <1>2, <1>7
  <2>3. LastTells(t, got, e2)
    BY <2>1, <2>2 DEF LastTells
  <2>. QED  BY <1>2, <1>5, <2>3
<1>. QED  BY <1>6, <1>7

\* A line that begins in the middle of a packet has no packet whole.
LEMMA TouchKitStarts == ASSUME Init PROVE TouchKitInv
<1> SUFFICES ASSUME conf.driver = "touchkit"
             PROVE  TouchKitInv
  BY DEF TouchKitInv
<1>1. /\ conf \in Confs /\ mod = <<>> /\ wire = <<>> /\ pen = Lifted /\ seen = Lifted
      /\ read = NoRead
  BY DEF Init, Start
<1>2. PICK n \in 0 .. 4 : line = [i \in 1 .. n |-> 1]
  BY DEF Init
<1>3. line \in Seq(Int) /\ Len(line) = n /\ n <= 4 /\ n \in Nat
  BY <1>2
<1>4. Stream(mod, wire, line) = line
  BY <1>1, <1>3 DEF Stream
<1>5. Dense(line) /\ Whole5(line) = {}
  <2>1. 1 .. Len(line) - 4 = {}
    BY <1>3
  <2>2. DOMAIN line = 1 .. Len(line)
    BY <1>3
  <2>3. \A p \in 1 .. Len(line) : ~(p + 4 <= Len(line))
    BY <1>3
  <2>. QED  BY <2>1, <2>2, <2>3, Zenon DEF Dense, Whole5
<1>6. pen \in Pens /\ pen.x < 2048 /\ pen.y < 2048 /\ Match(seen, pen)
  BY <1>1 DEF Lifted, Pens, Match
<1>7. IsPast(past) /\ past.cur = <<>> /\ past.cur \in Seq(Int)
  <2>1. past = [cur |-> <<>>, torn |-> FALSE, fresh |-> {}, rate |-> 0, unknown |-> FALSE,
                stuck |-> FALSE, good |-> DISCARD_FRAMES + 1]
    BY DEF Init, Past
  <2>. QED  BY <2>1 DEF IsPast
<1>8. CurOf(past.cur, mod)
  <2>1. \A i \in 1 .. Len(mod) : ~IsStart(mod[i])
    BY <1>1
  <2>. QED  BY <1>7, <2>1, Zenon DEF CurOf
<1>9. InStep(read.due, read.wrote)
  BY <1>1 DEF NoRead, InStep
<1>10. mod \in Seq(Int) /\ Len(mod) <= 4 /\ wire \in Seq(Int)
  BY <1>1
<1>. QED  BY <1>1, <1>3, <1>4, <1>5, <1>6, <1>7, <1>8, <1>9, <1>10 DEF TouchKitInv, LastTells

\* The invariant of touchkit is kept when the device sends a report on the line,
LEMMA TouchKitReports ==
  ASSUME TouchKitInv, NEW p \in Reports, Report(p)
  PROVE  TouchKitInv'
<1> SUFFICES ASSUME conf'.driver = "touchkit"
             PROVE  TouchKitInv'
  BY DEF TouchKitInv
<1>1. conf' = conf /\ conf.driver = "touchkit" /\ "touchkit" \notin Records
  BY DEF Report, Records
<1>2. /\ conf \in Confs /\ pen \in Pens /\ pen.x < 2048 /\ pen.y < 2048
      /\ mod \in Seq(Int) /\ Len(mod) <= 4 /\ wire \in Seq(Int) /\ line \in Seq(Int)
      /\ Dense(Stream(mod, wire, line)) /\ LastTells(Stream(mod, wire, line), seen, pen)
      /\ IsPast(past) /\ past.cur \in Seq(Int) /\ CurOf(past.cur, mod)
  BY <1>1 DEF TouchKitInv
<1>3. /\ line = <<>> /\ line' = Packet(p) /\ wire' = wire /\ mod' = mod /\ past' = past
      /\ pen' = p /\ seen' = seen /\ read' = NoRead
  BY <1>1 DEF Report
<1>4. p \in Pens /\ p.x < 2048 /\ p.y < 2048
  <2>1. CASE \E s \in Spots : p = [x |-> s[1], y |-> s[2], pressure |-> 1]
    <3>1. PICK s \in Spots : p = [x |-> s[1], y |-> s[2], pressure |-> 1]
      BY <2>1
    <3>2. s \in Nat \X Nat /\ s[1] < 2048 /\ s[2] < 2048
      BY <1>1, <1>2, SpotsAssumption
    <3>. QED  BY <3>1, <3>2 DEF Pens
  <2>2. CASE p = [pen EXCEPT !.pressure = 0]
    BY <1>2, <2>2 DEF Pens
  <2>. QED  BY <2>1, <2>2 DEF Reports
<1>5. /\ Packet(p) \in Seq(Int) /\ Len(Packet(p)) = 5 /\ IsPiece(Packet(p))
      /\ Match(DecodePacket(Packet(p)), p)
  BY <1>1, <1>4, PacketTells
<1> DEFINE c == Packet(p)
<1>. HIDE DEF c
<1>6. Dense(Stream(mod, wire, c)) /\ LastTells(Stream(mod, wire, c), seen, p)
  <2>1. IsPiece(c) /\ Len(c) = 5 /\ Match(DecodePacket(c), p)
    BY <1>5 DEF c
  <2>2. Dense(Stream(mod, wire, <<>>)) /\ LastTells(Stream(mod, wire, <<>>), seen, pen)
    BY <1>2, <1>3
  <2>3. IF Len(c) = 5 THEN Match(DecodePacket(c), p) ELSE p = pen
    BY <2>1
  <2>4. mod \in Seq(Int) /\ wire \in Seq(Int)
    BY <1>2
  <2>. QED  BY ONLY <2>1, <2>2, <2>3, <2>4, PieceInStream
<1>7. InStep(read'.due, read'.wrote)
  BY <1>3 DEF NoRead, InStep
<1>. QED  BY <1>1, <1>2, <1>3, <1>4, <1>5, <1>6, <1>7 DEF TouchKitInv, c

\* when it sends one that the next will cut short,
LEMMA TouchKitCuts ==
  ASSUME TouchKitInv, NEW n \in 1 .. 4, ReportCut(n)
  PROVE  TouchKitInv'
<1>1. /\ conf' = conf /\ conf.driver = "touchkit" /\ line = <<>>
      /\ line' = SubSeq(Packet(pen), 1, n) /\ wire' = wire /\ mod' = mod /\ past' = past
      /\ pen' = pen /\ seen' = seen /\ read' = NoRead
  BY DEF ReportCut
<1>2. /\ conf \in Confs /\ pen \in Pens /\ pen.x < 2048 /\ pen.y < 2048
      /\ mod \in Seq(Int) /\ Len(mod) <= 4 /\ wire \in Seq(Int) /\ line \in Seq(Int)
      /\ Dense(Stream(mod, wire, line)) /\ LastTells(Stream(mod, wire, line), seen, pen)
      /\ IsPast(past) /\ past.cur \in Seq(Int) /\ CurOf(past.cur, mod)
  BY <1>1 DEF TouchKitInv
<1> DEFINE c == SubSeq(Packet(pen), 1, n)
<1>3. IsPiece(c) /\ Len(c) = n /\ Len(c) # 5
  <2>1. IsPiece(Packet(pen)) /\ Len(Packet(pen)) = 5
    BY <1>1, <1>2, PacketTells
  <2>2. IsPiece(c) /\ Len(c) = n
    BY <2>1, CutPiece
  <2>. HIDE DEF c
  <2>. QED  BY <2>2
<1>. HIDE DEF c
<1>4. Dense(Stream(mod, wire, c)) /\ LastTells(Stream(mod, wire, c), seen, pen)
  <2>2. Dense(Stream(mod, wire, <<>>)) /\ LastTells(Stream(mod, wire, <<>>), seen, pen)
    BY <1>1, <1>2
  <2>4. mod \in Seq(Int) /\ wire \in Seq(Int)
    BY <1>2
  <2>. QED  BY ONLY <1>3, <2>2, <2>4, PieceInStream
<1>5. c \in Seq(Int)
  BY <1>3 DEF IsPiece
<1>6. InStep(read'.due, read'.wrote)
  BY <1>1 DEF NoRead, InStep
<1>. QED  BY <1>1, <1>2, <1>4, <1>5, <1>6 DEF TouchKitInv, c

\* when a piece of it, of any size, arrives in the device file,
LEMMA TouchKitArrives ==
  ASSUME TouchKitInv, NEW n \in 1 .. 5, Arrive(n)
  PROVE  TouchKitInv'
<1> SUFFICES ASSUME conf'.driver = "touchkit"
             PROVE  TouchKitInv'
  BY DEF TouchKitInv
<1>1. /\ conf' = conf /\ conf.driver = "touchkit" /\ n \in DOMAIN line
      /\ wire' = wire \o SubSeq(line, 1, n) /\ line' = SubSeq(line, n + 1, Len(line))
      /\ mod' = mod /\ past' = past /\ pen' = pen /\ seen' = seen /\ read' = NoRead
  BY DEF Arrive
<1>2. /\ conf \in Confs /\ pen \in Pens /\ pen.x < 2048 /\ pen.y < 2048
      /\ mod \in Seq(Int) /\ Len(mod) <= 4 /\ wire \in Seq(Int) /\ line \in Seq(Int)
      /\ Dense(Stream(mod, wire, line)) /\ LastTells(Stream(mod, wire, line), seen, pen)
      /\ IsPast(past) /\ past.cur \in Seq(Int) /\ CurOf(past.cur, mod)
  BY <1>1 DEF TouchKitInv
<1>3. n \in 1 .. Len(line)
  BY <1>1, <1>2
<1>4. /\ wire' \in Seq(Int) /\ line' \in Seq(Int)
      /\ Stream(mod, wire', line') = Stream(mod, wire, line)
  BY <1>1, <1>2, <1>3, ArrivingKeepsStream
<1>5. InStep(read'.due, read'.wrote)
  BY <1>1 DEF NoRead, InStep
<1>. QED  BY <1>1, <1>2, <1>4, <1>5 DEF TouchKitInv

\* and when touchkit_read takes what is there.
LEMMA TouchKitIsRead == ASSUME TouchKitInv, ReadTouchKit PROVE TouchKitInv'
<1> DEFINE n == IF Len(wire) < PACKET_SIZE THEN Len(wire) ELSE PACKET_SIZE
           q == SubSeq(wire, 1, n)
           h == mod \o q
           v == touchkit_read(mod, q)
           f == CHOOSE g : Taking(g, n, past.cur, wire)
           w2 == SubSeq(wire, n + 1, Len(wire))
           s == Stream(mod, wire, line)
<1>1. /\ conf' = conf /\ conf.driver = "touchkit" /\ pen' = pen /\ line' = line
      /\ mod' = v.buffer /\ wire' = w2
      /\ seen' = (IF v.told \in DOMAIN v.wrote THEN v.wrote[v.told] ELSE seen)
      /\ read'.wrote = v.wrote
  BY DEF ReadTouchKit, Gets
<1>2. /\ read'.due = [i \in {j \in 1 .. n : Len(f[j]) = PACKET_SIZE} |-> DecodePacket(f[i])]
      /\ past' = [past EXCEPT !.cur = f[n]]
  <2>. HIDE DEF v, n
  <2>. QED  BY DEF ReadTouchKit, Gets, Taking, n
<1>3. /\ conf \in Confs /\ pen \in Pens /\ pen.x < 2048 /\ pen.y < 2048
      /\ mod \in Seq(Int) /\ Len(mod) <= 4 /\ wire \in Seq(Int) /\ line \in Seq(Int)
      /\ Dense(s) /\ LastTells(s, seen, pen)
      /\ IsPast(past) /\ past.cur \in Seq(Int) /\ CurOf(past.cur, mod)
  BY <1>1 DEF TouchKitInv
<1>4. n \in 0 .. Len(wire) /\ n <= 5 /\ n \in Nat
  BY <1>3 DEF PACKET_SIZE
<1>5. q \in Seq(Int) /\ Len(q) <= 5
  <2>. HIDE DEF n
  <2>1. wire \in Seq(Int) /\ n \in Nat /\ n <= Len(wire) /\ n <= 5
    BY <1>3, <1>4
  <2>. QED  BY ONLY <2>1
<1>. HIDE DEF n
<1>6. /\ h \in Seq(Int) /\ Len(h) = Len(mod) + n /\ Len(h) <= Len(s) /\ Agree(h, s, Len(h))
  <2>1. 0 \in 0 .. Len(mod) + n
    BY <1>3, <1>4
  <2>2. ReadingParts(mod, wire, line, n, 0)
    <3>1. mod \in Seq(Int) /\ wire \in Seq(Int) /\ line \in Seq(Int) /\ n \in 0 .. Len(wire)
      BY <1>3, <1>4
    <3>. QED  BY ONLY <2>1, <3>1, ReadingHasParts
  <2>. QED  BY <2>2, Zenon DEF ReadingParts
<1>7. s \in Seq(Int)
  <2>1. StreamIs(mod, wire, line)
    BY <1>3, StreamParts
  <2>. QED  BY <2>1, Zenon DEF StreamIs
<1>. HIDE DEF q, s, w2, h
<1>8. Dense(h)
  BY <1>3, <1>6, <1>7, PrefixBytes
<1>9. PICK k \in 0 .. Len(h) : Reading(v, h, k)
  <2>1. \E k \in 0 .. Len(h) : Reading(v, h, k)
    BY <1>3, <1>5, <1>8, TouchKitReads DEF h
  <2>. QED  BY <2>1
<1> DEFINE b2 == SubSeq(h, k + 1, Len(h))
           t == Stream(b2, w2, line)
<1>10. b2 \in Seq(Int) /\ w2 \in Seq(Int) /\ Shifted(t, s, k)
  <2>1. k \in 0 .. Len(mod) + n
    BY <1>6, <1>9
  <2>2. ReadingParts(mod, wire, line, n, k)
    <3>1. mod \in Seq(Int) /\ wire \in Seq(Int) /\ line \in Seq(Int) /\ n \in 0 .. Len(wire)
      BY <1>3, <1>4
    <3>. QED  BY ONLY <2>1, <3>1, ReadingHasParts
  <2>. QED  BY <2>2, Zenon DEF ReadingParts, h, q, w2, s
<1>11. v.buffer = b2 /\ Len(h) - k <= 4
  BY <1>9, Zenon DEF Reading
<1>12. Len(b2) <= 4 /\ k \in Nat
  <2>1. Shifted(b2, h, k)
    BY <1>6, <1>9, SuffixShifts
  <2>2. Len(b2) = Len(h) - k
    BY <2>1, Zenon DEF Shifted
  <2>. HIDE DEF b2, h
  <2>. QED  BY <1>9, <1>11, <2>2
<1>13. t \in Seq(Int)
  <2>. HIDE DEF b2
  <2>1. StreamIs(b2, w2, line)
    BY <1>3, <1>10, StreamParts
  <2>. QED  BY <2>1, Zenon DEF StreamIs
<1>. HIDE DEF t
<1>14. Dense(t)
  BY <1>3, <1>7, <1>10, <1>12, <1>13, ShiftedBytes
<1>. HIDE DEF v
<1>15. LastTells(t, seen', pen)
  <2>1. LastTells(t, IF v.told \in DOMAIN v.wrote THEN v.wrote[v.told] ELSE seen, pen)
    <3>1. /\ h \in Seq(Int) /\ s \in Seq(Int) /\ Len(h) <= Len(s) /\ Agree(h, s, Len(h))
          /\ k \in 0 .. Len(h) /\ Reading(v, h, k) /\ t \in Seq(Int) /\ Shifted(t, s, k)
          /\ LastTells(s, seen, pen)
      BY <1>3, <1>6, <1>7, <1>9, <1>10, <1>13
    <3>. QED  BY ONLY <3>1, ReadingKeepsLast
  <2>. QED  BY <1>1, <2>1, Zenon
<1>16. Taking(f, n, past.cur, wire)
  BY <1>3, <1>4, TakingIs
<1>. HIDE DEF f
<1>17. f[n] \in Seq(Int) /\ CurOf(f[n], h)
  <2>1. n \in 0 .. n
    BY <1>4
  <2>. QED  BY <1>3, <1>4, <1>16, <2>1, TakingFollows DEF q, h
<1>18. CurOf(f[n], b2)
  BY <1>6, <1>9, <1>17, CurKept
<1>19. InStep(read'.due, read'.wrote)
  <2>1. InStep(Due(f, n), v.wrote)
    <3>1. Reading(v, mod \o SubSeq(wire, 1, n), k)
      BY <1>9 DEF q, h
    <3>2. /\ mod \in Seq(Int) /\ Len(mod) <= 4 /\ wire \in Seq(Int) /\ n \in 0 .. Len(wire)
          /\ past.cur \in Seq(Int) /\ CurOf(past.cur, mod)
      BY <1>3, <1>4
    <3>. QED  BY ONLY <1>16, <3>1, <3>2, WroteWhatIsDue
  <2>2. read'.due = Due(f, n)
    BY <1>2, Zenon DEF Due
  <2>. QED  BY <1>1, <2>1, <2>2
<1>20. IsPast(past') /\ past'.cur = f[n]
  <2> DEFINE c == f[n]
  <2>1. past' = [past EXCEPT !.cur = c]
    BY <1>2
  <2>. HIDE DEF c
  <2>2. past' = [cur |-> c, torn |-> past.torn, fresh |-> past.fresh, rate |-> past.rate,
                 unknown |-> past.unknown, stuck |-> past.stuck, good |-> past.good]
    <3>1. IsPast(past)
      BY <1>3
    <3>. QED  BY ONLY <2>1, <3>1 DEF IsPast
  <2>. QED  BY <2>2 DEF IsPast, c
<1>. HIDE DEF b2
<1>21. mod' = b2 /\ wire' = w2 /\ Stream(mod', wire', line') = t
  BY <1>1, <1>11 DEF t
<1>. QED  BY <1>1, <1>3, <1>10, <1>12, <1>14, <1>15, <1>17, <1>18, <1>19, <1>20, <1>21
          DEF TouchKitInv

\* The next-state relation keeps the invariant of touchkit.
LEMMA TouchKitKeeps == ASSUME TouchKitInv, [Next]_vars PROVE TouchKitInv'
<1>1. CASE \E p \in Reports : Report(p)
  BY <1>1, TouchKitReports
<1>2. CASE \E n \in 1 .. 4 : ReportCut(n)
  BY <1>2, TouchKitCuts
<1>3. CASE \E n \in 1 .. 5 : Arrive(n)
  BY <1>3, TouchKitArrives
<1>4. CASE ReadTouchKit
  BY <1>4, TouchKitIsRead
<1>5. CASE UNCHANGED vars
  BY <1>5 DEF vars, TouchKitInv
<1>6. ASSUME conf' = conf, conf.driver # "touchkit"
      PROVE  TouchKitInv'
  BY <1>6 DEF TouchKitInv
<1>7. CASE \E nr \in 1 .. 2 : ReadRecords(nr)
  BY <1>6, <1>7 DEF ReadRecords, Records
<1>8. CASE \E nr \in 1 .. 2 : ReadDmc(nr)
  BY <1>6, <1>8 DEF ReadDmc
<1>9. CASE \E nr \in 1 .. 2 : ReadGalax(nr)
  BY <1>6, <1>9 DEF ReadGalax
<1>10. CASE \E frame \in Frames, works \in BOOLEAN : ReadPalmpre(frame, works)
  BY <1>6, <1>10 DEF ReadPalmpre
<1>. QED  BY <1>1, <1>2, <1>3, <1>4, <1>5, <1>7, <1>8, <1>9, <1>10 DEF Next

\* So the bytes on their way to a touchkit driver are a stream of packets in every state.
LEMMA TouchKitHolds == Spec => []TouchKitInv
<1>. QED  BY TouchKitStarts, TouchKitKeeps, PTL DEF Spec

(***************************************************************************)
(* touchkit_read gives a sample in exactly those calls in which the last   *)
(* byte of a packet arrives, and it gives that packet, however the bytes   *)
(* are cut into pieces, packets are cut short and the line is joined; two  *)
(* packets fit in the buffer, as its comment says.                         *)
(***************************************************************************)
THEOREM TouchKitKeepsInStep == Spec => []KeepsInStep
<1>1. TouchKitInv => KeepsInStep
  <2> SUFFICES ASSUME TouchKitInv, conf.driver = "touchkit"
               PROVE  KeepsInStep
    BY DEF KeepsInStep
  <2>1. InStep(read.due, read.wrote) /\ mod \in Seq(Int) /\ Len(mod) <= 4
    BY DEF TouchKitInv
  <2>2. Len(mod) <= 2 * PACKET_SIZE
    BY <2>1 DEF PACKET_SIZE
  <2>. QED  BY <2>1, <2>2, Zenon DEF KeepsInStep, InStep
<1>. QED  BY <1>1, TouchKitHolds, PTL

\* When no byte is left but those in the buffer, the program has got the last packet.
LEMMA TouchKitFollows ==
  ASSUME TouchKitInv, conf.driver = "touchkit", wire = <<>>, line = <<>>
  PROVE  Match(seen, pen)
<1>1. mod \in Seq(Int) /\ Len(mod) <= 4 /\ LastTells(Stream(mod, wire, line), seen, pen)
  BY DEF TouchKitInv
<1>2. Stream(mod, wire, line) = mod
  BY <1>1 DEF Stream
<1>3. Whole5(mod) = {}
  BY <1>1 DEF Whole5
<1>. QED  BY <1>1, <1>2, <1>3 DEF LastTells

-----------------------------------------------------------------------------
(* The drivers that read records                                           *)

-----------------------------------------------------------------------------
(* The devices that give records, but for tatung                            *)
PlainRecords == Records \ {"tatung"}
RecordValues == Pens \cup [header : {0, 1}, x : Nat, y : Nat] \cup [status : {0, 1}, x : Nat, y : Nat]

\* The last record that waits is the last report; when none waits it has been told.
RecordsInv ==
  conf.driver \in PlainRecords =>
    /\ conf \in Confs /\ pen \in Pens /\ wire \in Seq(RecordValues) /\ line = <<>>
    /\ conf.driver \in {"arctic2", "mk712"} => pen.x < 32768 /\ pen.y < 32768
    /\ IsPast(past) /\ past.torn \in BOOLEAN
    /\ ~past.torn => IF wire = <<>> THEN Match(seen, pen) ELSE wire[Len(wire)] = Record(pen)

\* what becomes of one record
Told(r, s) ==
  IF conf.driver = "waveshare" THEN s = [x |-> r.x, y |-> r.y, pressure |-> r.status]
  ELSE IF conf.driver = "mk712"
    THEN s = [x |-> Short(r.x), y |-> Short(r.y), pressure |-> IF r.header = 0 THEN 1 ELSE 0]
  ELSE IF conf.driver = "arctic2"
    THEN s = [x |-> Short(r.x), y |-> Short(r.y), pressure |-> r.pressure]
  ELSE s = [x |-> r.x, y |-> r.y, pressure |-> r.pressure]

\* What fits in a field of 16 bits is not changed by it.
LEMMA FieldFits == \A i \in Nat : i < 32768 => Short(i) = i
BY DEF Short

\* The sample that a driver makes of a record tells of the pen that the device reported.
LEMMA RecordTells ==
  ASSUME conf.driver \in PlainRecords, pen \in Pens,
         conf.driver \in {"arctic2", "mk712"} => pen.x < 32768 /\ pen.y < 32768,
         NEW s, Told(Record(pen), s)
  PROVE  Match(s, pen)
<1>1. pen.x \in Nat /\ pen.y \in Nat /\ pen.pressure \in {0, 1}
  BY DEF Pens
<1>2. conf.driver \in {"arctic2", "mk712"} => Short(pen.x) = pen.x /\ Short(pen.y) = pen.y
  BY <1>1, FieldFits
<1>3. CASE conf.driver = "waveshare"
  BY <1>1, <1>3 DEF Told, Record, Match
<1>4. CASE conf.driver = "mk712"
  BY <1>1, <1>2, <1>4 DEF Told, Record, Match
<1>5. CASE conf.driver = "arctic2"
  BY <1>1, <1>2, <1>5 DEF Told, Record, Match
<1>6. CASE conf.driver \notin {"waveshare", "mk712", "arctic2"}
  BY <1>1, <1>6 DEF Told, Record, Match, PlainRecords, Records
<1>. QED  BY <1>3, <1>4, <1>5, <1>6

\* Every record becomes a sample, and is told unless the driver is waveshare's.
LEMMA RecordsTold ==
  ASSUME conf.driver \in PlainRecords, NEW recs \in Seq(RecordValues), recs # <<>>, NEW nr
  PROVE  LET v == RecordRead(recs, nr)
         IN /\ DOMAIN v.wrote = 1 .. Len(recs) /\ v.told \in {Len(recs), nr}
            /\ \A i \in 1 .. Len(recs) : Told(recs[i], v.wrote[i])
<1> DEFINE v == RecordRead(recs, nr)
<1>1. DOMAIN recs = 1 .. Len(recs)
  OBVIOUS
<1>2. CASE conf.driver = "waveshare"
  <2>1. v = [told |-> nr, wrote |-> [i \in DOMAIN recs |->
                 [x |-> recs[i].x, y |-> recs[i].y, pressure |-> recs[i].status]]]
    BY <1>2 DEF RecordRead, waveshare_read
  <2>. HIDE DEF v
  <2>. QED  BY <1>1, <1>2, <2>1 DEF Told, v
<1>3. CASE conf.driver = "mk712"
  <2>1. v = [told |-> Len(recs), wrote |-> [i \in DOMAIN recs |->
                 [x |-> Short(recs[i].x), y |-> Short(recs[i].y),
                  pressure |-> IF recs[i].header = 0 THEN 1 ELSE 0]]]
    BY <1>3 DEF RecordRead, mk712_read, Whole
  <2>. HIDE DEF v
  <2>. QED  BY <1>1, <1>3, <2>1 DEF Told, v
<1>4. CASE conf.driver = "arctic2"
  <2>1. v = [told |-> Len(recs), wrote |-> [i \in DOMAIN recs |->
                 [x |-> Short(recs[i].x), y |-> Short(recs[i].y), pressure |-> recs[i].pressure]]]
    BY <1>4 DEF RecordRead, arctic2_read, Whole
  <2>. HIDE DEF v
  <2>. QED  BY <1>1, <1>4, <2>1 DEF Told, v
<1>5. CASE conf.driver \in {"collie", "h3600", "corgi", "ucb1x00"}
  <2>1. v = [told |-> Len(recs), wrote |-> [i \in DOMAIN recs |->
                 [x |-> recs[i].x, y |-> recs[i].y, pressure |-> recs[i].pressure]]]
    BY <1>5 DEF RecordRead, collie_read, h3600_read, corgi_read, ucb1x00_read, Whole, AsItIs
  <2>. HIDE DEF v
  <2>. QED  BY <1>1, <1>5, <2>1 DEF Told, v
<1>. QED  BY <1>2, <1>3, <1>4, <1>5 DEF PlainRecords, Records

\* A record depends on the driver and the pen alone.
LEMMA RecordSame ==
  ASSUME conf' = conf, pen' = pen, conf.driver \in PlainRecords
  PROVE  Record(pen)' = Record(pen)
<1>1. CASE conf.driver = "mk712"
  BY <1>1 DEF Record
<1>2. CASE conf.driver = "waveshare"
  BY <1>2 DEF Record
<1>3. CASE conf.driver \notin {"mk712", "waveshare", "tatung"}
  BY <1>3 DEF Record
<1>. QED  BY <1>1, <1>2, <1>3 DEF PlainRecords

\* The invariant of the drivers that read records holds at first.
LEMMA RecordsStart == ASSUME Init PROVE RecordsInv
<1> SUFFICES ASSUME conf.driver \in PlainRecords
             PROVE  RecordsInv
  BY DEF RecordsInv
<1>1. conf \in Confs /\ wire = <<>> /\ pen = Lifted /\ seen = Lifted /\ line = <<>>
  BY DEF Init, PlainRecords, Records
<1>2. conf.driver # "palmpre"
  BY DEF PlainRecords, Records
<1>3. past = [cur |-> <<>>, torn |-> FALSE, fresh |-> {}, rate |-> 0, unknown |-> FALSE,
              stuck |-> FALSE, good |-> DISCARD_FRAMES + 1]
  <2>1. past = Past
    BY <1>2 DEF Init
  <2>. QED  BY <2>1 DEF Past
<1>4. IsPast(past) /\ past.torn = FALSE /\ past.torn \in BOOLEAN
  BY <1>3 DEF IsPast
<1>5. pen \in Pens /\ pen.x < 32768 /\ pen.y < 32768 /\ Match(seen, pen)
  BY <1>1 DEF Lifted, Pens, Match
<1>6. wire \in Seq(RecordValues)
  BY <1>1
<1>. QED  BY <1>1, <1>4, <1>5, <1>6 DEF RecordsInv

\* It is kept when the device reports, and the report becomes the last record,
LEMMA RecordsReported ==
  ASSUME RecordsInv, NEW p \in Reports, Report(p)
  PROVE  RecordsInv'
<1> SUFFICES ASSUME conf'.driver \in PlainRecords
             PROVE  RecordsInv'
  BY DEF RecordsInv
<1>1. conf' = conf /\ conf.driver \in PlainRecords /\ conf.driver \in Records
      /\ conf.driver \notin {"galax", "touchkit", "dmc"}
  BY DEF Report, PlainRecords, Records
<1>2. /\ conf \in Confs /\ pen \in Pens /\ wire \in Seq(RecordValues)
      /\ conf.driver \in {"arctic2", "mk712"} => pen.x < 32768 /\ pen.y < 32768
      /\ IsPast(past) /\ past.torn \in BOOLEAN /\ line = <<>>
  BY <1>1 DEF RecordsInv
<1>3. pen' = p /\ past' = past /\ line' = line /\ wire' = Append(wire, Record(p))
  BY <1>1 DEF Report
<1>4. p \in Pens /\ (conf.driver \in {"arctic2", "mk712"} => p.x < 32768 /\ p.y < 32768)
  <2>1. CASE \E s \in Spots : p = [x |-> s[1], y |-> s[2], pressure |-> 1]
    <3>1. PICK s \in Spots : p = [x |-> s[1], y |-> s[2], pressure |-> 1]
      BY <2>1
    <3>2. s \in Nat \X Nat /\ (conf.driver \in {"arctic2", "mk712"} => s[1] < 32768 /\ s[2] < 32768)
      BY <1>1, <1>2, SpotsAssumption
    <3>. QED  BY <3>1, <3>2 DEF Pens
  <2>2. CASE p = [pen EXCEPT !.pressure = 0]
    BY <1>2, <2>2 DEF Pens
  <2>. QED  BY <2>1, <2>2 DEF Reports
<1>5. Record(p) \in RecordValues
  <2>1. p.x \in Nat /\ p.y \in Nat /\ p.pressure \in {0, 1}
    BY <1>4 DEF Pens
  <2>2. CASE conf.driver = "mk712"
    BY <2>1, <2>2 DEF Record, RecordValues
  <2>3. CASE conf.driver = "waveshare"
    BY <2>1, <2>3 DEF Record, RecordValues
  <2>4. CASE conf.driver \notin {"mk712", "waveshare", "tatung"}
    BY <1>4, <2>4 DEF Record, RecordValues
  <2>. QED  BY <1>1, <2>2, <2>3, <2>4 DEF PlainRecords
<1> DEFINE r == Record(p)
<1>7. Record(pen)' = r
  <2>1. CASE conf.driver = "mk712"
    BY <1>1, <1>3, <2>1 DEF Record
  <2>2. CASE conf.driver = "waveshare"
    BY <1>1, <1>3, <2>2 DEF Record
  <2>3. CASE conf.driver \notin {"mk712", "waveshare", "tatung"}
    BY <1>1, <1>3, <2>3 DEF Record
  <2>. QED  BY <1>1, <2>1, <2>2, <2>3 DEF PlainRecords
<1>. HIDE DEF r
<1>8. wire' \in Seq(RecordValues) /\ wire' # <<>> /\ wire'[Len(wire')] = r
  <2>1. wire' = Append(wire, r)
    BY <1>3 DEF r
  <2>. QED  BY <1>2, <1>5, <2>1 DEF r
<1>. QED  BY <1>1, <1>2, <1>3, <1>4, <1>7, <1>8 DEF RecordsInv

\* and when records are read, which leaves the last of them or tells of it.
LEMMA RecordsRead ==
  ASSUME RecordsInv, NEW nr \in 1 .. 2, ReadRecords(nr)
  PROVE  RecordsInv'
<1> DEFINE L == Len(wire)
           n == IF L < nr THEN L ELSE nr
           recs == SubSeq(wire, 1, n)
           v == RecordRead(recs, nr)
           searches == conf.driver = "waveshare" /\ Searches(mod) /\ Found(conf.nodes) = {}
<1> SUFFICES ASSUME conf'.driver \in PlainRecords
             PROVE  RecordsInv'
  BY DEF RecordsInv
<1>1. conf' = conf /\ pen' = pen /\ line' = line /\ conf.driver \in PlainRecords
  BY DEF ReadRecords
<1>2. /\ conf \in Confs /\ pen \in Pens /\ wire \in Seq(RecordValues)
      /\ conf.driver \in {"arctic2", "mk712"} => pen.x < 32768 /\ pen.y < 32768
      /\ IsPast(past) /\ past.torn \in BOOLEAN /\ line = <<>>
      /\ ~past.torn => IF wire = <<>> THEN Match(seen, pen) ELSE wire[Len(wire)] = Record(pen)
  BY <1>1 DEF RecordsInv
<1>3. Record(pen)' = Record(pen)
  BY <1>1, RecordSame
<1>4. L \in Nat /\ n \in 0 .. L /\ n <= nr /\ (n = 0 => L = 0)
  BY <1>2
<1>5. CASE searches
  <2>1. wire' = wire /\ past' = past /\ seen' = seen
    <3>1. -1 \notin DOMAIN <<>>
      OBVIOUS
    <3>. QED  BY <1>5, <3>1, Zenon DEF ReadRecords, Gets, Failed
  <2>. QED  BY <1>1, <1>2, <1>3, <2>1 DEF RecordsInv
<1>6. CASE ~searches
  <2>. HIDE DEF v, recs, n, L
  <2>1. /\ wire' = SubSeq(wire, n + 1, L)
        /\ past' = [past EXCEPT !.torn = past.torn \/ Torn(v, n)]
        /\ seen' = IF v.told \in DOMAIN v.wrote THEN v.wrote[v.told] ELSE seen
    BY <1>6 DEF ReadRecords, Gets, v, recs, n, L
  <2>2. IsPast(past') /\ past'.torn = (past.torn \/ Torn(v, n)) /\ past'.torn \in BOOLEAN
    <3> DEFINE k == past.torn \/ Torn(v, n)
    <3>1. past' = [past EXCEPT !.torn = k]
      BY <2>1
    <3>2. k \in BOOLEAN
      OBVIOUS
    <3>. HIDE DEF k
    <3>3. past' = [cur |-> past.cur, torn |-> k, fresh |-> past.fresh, rate |-> past.rate,
                   unknown |-> past.unknown, stuck |-> past.stuck, good |-> past.good]
      <4>1. IsPast(past)
        BY <1>2
      <4>. QED  BY ONLY <3>1, <4>1 DEF IsPast
    <3>. QED  BY <3>2, <3>3 DEF IsPast, k
  <2>3. wire' \in Seq(RecordValues) /\ Len(wire') = L - n
        /\ \A i \in 1 .. L - n : wire'[i] = wire[n + i]
    <3>1. L = Len(wire) /\ n \in Nat /\ n <= L /\ L \in Nat
      BY <1>4 DEF L
    <3>. QED  BY ONLY <1>2, <2>1, <3>1
  <2>4. CASE n = 0
    <3>1. L = 0 /\ wire = <<>> /\ wire' = <<>>
      <4>1. L = 0 /\ Len(wire) = 0 /\ Len(wire') = 0
        BY <1>4, <2>3, <2>4 DEF L
      <4>. QED  BY ONLY <1>2, <2>3, <4>1
    <3>2. v = Failed
      <4>1. recs = <<>>
        BY <1>2, <2>4 DEF recs
      <4>. QED  BY <1>1, <4>1 DEF v, RecordRead, collie_read, h3600_read, corgi_read, ucb1x00_read,
                   arctic2_read, mk712_read, waveshare_read, Whole, PlainRecords, Records
    <3>3. seen' = seen
      <4>1. -1 \notin DOMAIN <<>>
        OBVIOUS
      <4>. QED  BY <2>1, <3>2, <4>1, Zenon DEF Failed
    <3>. QED  BY <1>1, <1>2, <2>2, <2>3, <3>1, <3>3 DEF RecordsInv
  <2>5. CASE n # 0
    <3>1. recs \in Seq(RecordValues) /\ Len(recs) = n /\ \A i \in 1 .. n : recs[i] = wire[i]
      <4>1. n \in Nat /\ n <= Len(wire)
        BY <1>4 DEF L
      <4>. QED  BY ONLY <1>2, <4>1 DEF recs
    <3>2. /\ DOMAIN v.wrote = 1 .. n /\ v.told \in {n, nr}
          /\ \A i \in 1 .. n : Told(recs[i], v.wrote[i])
      <4>1. recs # <<>>
        BY <1>4, <2>5, <3>1
      <4>. QED  BY <1>1, <3>1, <4>1, RecordsTold DEF v
    <3>3. Len(v.wrote) = n
      BY <1>4, <3>2
    <3> SUFFICES ASSUME ~past'.torn
                 PROVE  IF wire' = <<>> THEN Match(seen', pen) ELSE wire'[Len(wire')] = Record(pen)
      BY <1>1, <1>2, <1>3, <2>2, <2>3 DEF RecordsInv
    <3>4. ~past.torn /\ v.told = n
      <4>1. ~past.torn /\ ~Torn(v, n) /\ n > 0
        <5>1. ~past.torn /\ ~Torn(v, n)
          BY <2>2, Zenon
        <5>. QED  BY <1>4, <2>5, <5>1
      <4>. QED  BY <3>3, <4>1 DEF Torn
    <3>5. L > 0 /\ wire # <<>> /\ wire[L] = Record(pen)
      <4>1. L > 0
        BY <1>4, <2>5
      <4>2. wire # <<>>
        BY <4>1 DEF L
      <4>. QED  BY <1>2, <3>4, <4>1, <4>2 DEF L
    <3>6. CASE n = L
      <4>1. wire' = <<>>
        BY <1>4, <2>3, <3>6
      <4>2. n \in 1 .. n /\ seen' = v.wrote[n]
        BY <1>4, <2>1, <2>5, <3>2, <3>4
      <4>3. Told(Record(pen), seen')
        BY <3>1, <3>2, <3>5, <3>6, <4>2
      <4>4. Match(seen', pen)
        BY <1>1, <1>2, <4>3, RecordTells
      <4>. QED  BY <4>1, <4>4
    <3>7. CASE n # L
      <4>1. L - n \in 1 .. L - n /\ n + (L - n) = L /\ L - n > 0
        BY <1>4, <3>7
      <4>2. wire'[Len(wire')] = wire[L] /\ wire' # <<>>
        BY <2>3, <4>1
      <4>. QED  BY <3>5, <4>2
    <3>. QED  BY <3>6, <3>7
  <2>. QED  BY <2>4, <2>5
<1>. QED  BY <1>5, <1>6

\* The next-state relation keeps the invariant of the drivers that read records.
LEMMA RecordsKeep == ASSUME RecordsInv, [Next]_vars PROVE RecordsInv'
<1>1. CASE \E p \in Reports : Report(p)
  BY <1>1, RecordsReported
<1>2. CASE \E nr \in 1 .. 2 : ReadRecords(nr)
  BY <1>2, RecordsRead
<1>3. ASSUME conf' = conf, conf.driver \notin PlainRecords
      PROVE  RecordsInv'
  BY <1>3 DEF RecordsInv
<1>. USE DEF PlainRecords, Records
<1>4. CASE \E n \in 1 .. 4 : ReportCut(n)
  BY <1>3, <1>4 DEF ReportCut
<1>5. CASE \E n \in 1 .. 5 : Arrive(n)
  <2>1. conf' = conf /\ line # <<>>
    BY <1>5 DEF Arrive
  <2>. QED  BY <1>3, <2>1 DEF RecordsInv
<1>6. CASE ReadTouchKit
  BY <1>3, <1>6 DEF ReadTouchKit
<1>7. CASE UNCHANGED vars
  <2>1. conf' = conf /\ pen' = pen /\ line' = line /\ wire' = wire /\ seen' = seen /\ past' = past
    BY <1>7 DEF vars
  <2>2. conf.driver \in PlainRecords => Record(pen)' = Record(pen)
    BY <2>1, RecordSame
  <2>. QED  BY <2>1, <2>2 DEF RecordsInv
<1>8. CASE \E nr \in 1 .. 2 : ReadDmc(nr)
  BY <1>3, <1>8 DEF ReadDmc
<1>9. CASE \E nr \in 1 .. 2 : ReadGalax(nr)
  BY <1>3, <1>9 DEF ReadGalax
<1>10. CASE \E frame \in Frames, works \in BOOLEAN : ReadPalmpre(frame, works)
  BY <1>3, <1>10 DEF ReadPalmpre
<1>. QED  BY <1>1, <1>2, <1>4, <1>5, <1>6, <1>7, <1>8, <1>9, <1>10 DEF Next

-----------------------------------------------------------------------------
(* DMC: commands in a sequence of bytes                                    *)

-----------------------------------------------------------------------------
(* dmc                                                                      *)

\* what the command at d of s does to the pen, D being where commands begin
Command(s, P, D, d) ==
  \/ /\ s[d + 1] = 16 /\ d + 1 \in D /\ Touched(P[d])
     /\ P[d + 1] = [x |-> P[d].x, y |-> P[d].y, pressure |-> 0]
  \/ /\ s[d + 1] = 17 /\ d + 5 \in D
     /\ P[d + 5] = [x |-> s[d + 2] * 256 + s[d + 3], y |-> s[d + 4] * 256 + s[d + 5],
                    pressure |-> 1]

Commands(s, P, D, e) ==
  /\ P \in [0 .. Len(s) -> Pens] /\ D \subseteq 0 .. Len(s)
  /\ Len(s) \in D /\ P[Len(s)] = e
  /\ \A d \in D : d < Len(s) => Command(s, P, D, d)

\* the sample that was given last is at the place that the driver remembers
SampleAt(m, got) == got = [x |-> m.current_x, y |-> m.current_y, pressure |-> got.pressure]

\* The bytes are commands that bring the pen from where the program has got it to e.
DmcStream(s, m, got, e) ==
  SampleAt(m, got) /\ \E P, D : Commands(s, P, D, e) /\ 0 \in D /\ Match(got, P[0])

\* What a report of the pen is.
LEMMA PensAre ==
  ASSUME NEW p \in Pens
  PROVE  /\ p = [x |-> p.x, y |-> p.y, pressure |-> p.pressure]
         /\ p.x \in Nat /\ p.y \in Nat /\ p.pressure \in {0, 1}
BY DEF Pens

\* What is left behind the first command.
LEMMA CommandsLeft ==
  ASSUME NEW s \in Seq(Int), NEW t \in Seq(Int), NEW k \in Nat, Shifted(t, s, k),
         NEW P, NEW D, NEW e, Commands(s, P, D, e), k \in D,
         NEW m, NEW got, SampleAt(m, got), Match(got, P[k])
  PROVE  DmcStream(t, m, got, e)
<1> DEFINE L == Len(s)
           M == Len(t)
           Q == [i \in 0 .. M |-> P[i + k]]
           E == {i \in 0 .. M : i + k \in D}
<1>1. /\ L \in Nat /\ M = L - k /\ M \in Nat /\ k <= L
      /\ \A i \in 1 .. M : t[i] = s[i + k]
  BY DEF Shifted
<1>2. /\ P \in [0 .. L -> Pens] /\ D \subseteq 0 .. L /\ L \in D /\ P[L] = e
      /\ \A d \in D : d < L => Command(s, P, D, d)
  BY Zenon DEF Commands
<1>. HIDE DEF L, M
<1>3. \A i \in 0 .. M : i + k \in 0 .. L /\ Q[i] = P[i + k]
  BY <1>1
<1>4. Q \in [0 .. M -> Pens]
  BY <1>2, <1>3
<1>5. \A i \in 0 .. M : i \in E <=> i + k \in D
  OBVIOUS
<1>6. M \in E /\ Q[M] = e
  <2>1. M + k = L /\ M \in 0 .. M
    BY <1>1
  <2>. QED  BY <1>2, <1>3, <1>5, <2>1
<1>7. 0 \in E /\ Match(got, Q[0])
  <2>1. 0 + k = k /\ 0 \in 0 .. M
    BY <1>1
  <2>. QED  BY <1>3, <1>5, <2>1
<1>8. E \subseteq 0 .. M
  OBVIOUS
<1>. HIDE DEF Q, E
<1>9. ASSUME NEW d \in E, d < M
      PROVE  Command(t, Q, E, d)
  <2> DEFINE j == d + k
  <2>1. d \in 0 .. M /\ d \in Nat /\ j \in D /\ j < L /\ j \in Nat
    BY <1>1, <1>5, <1>8, <1>9
  <2>2. Command(s, P, D, j)
    BY <1>2, <2>1
  <2>3. t[d + 1] = s[j + 1] /\ Q[d] = P[j]
    <3>1. d + 1 \in 1 .. M /\ (d + 1) + k = j + 1
      BY <1>1, <1>9, <2>1
    <3>. QED  BY <1>1, <1>3, <2>1, <3>1
  <2>4. CASE /\ s[j + 1] = 16 /\ j + 1 \in D /\ Touched(P[j])
             /\ P[j + 1] = [x |-> P[j].x, y |-> P[j].y, pressure |-> 0]
    <3>1. d + 1 \in 0 .. M /\ (d + 1) + k = j + 1
      BY <1>1, <1>9, <2>1
    <3>2. d + 1 \in E /\ Q[d + 1] = P[j + 1]
      BY <1>3, <1>5, <2>4, <3>1
    <3>. QED  BY <2>3, <2>4, <3>2, Zenon DEF Command
  <2>5. CASE /\ s[j + 1] = 17 /\ j + 5 \in D
             /\ P[j + 5] = [x |-> s[j + 2] * 256 + s[j + 3], y |-> s[j + 4] * 256 + s[j + 5],
                            pressure |-> 1]
    <3>1. j + 5 <= L
      BY <1>1, <1>2, <2>1, <2>5
    <3>2. /\ d + 5 \in 0 .. M /\ (d + 5) + k = j + 5
          /\ d + 2 \in 1 .. M /\ (d + 2) + k = j + 2 /\ d + 3 \in 1 .. M /\ (d + 3) + k = j + 3
          /\ d + 4 \in 1 .. M /\ (d + 4) + k = j + 4 /\ d + 5 \in 1 .. M
      BY <1>1, <2>1, <3>1
    <3>3. /\ t[d + 2] = s[j + 2] /\ t[d + 3] = s[j + 3] /\ t[d + 4] = s[j + 4]
          /\ t[d + 5] = s[j + 5]
      <4>. HIDE DEF j
      <4>1. /\ t[d + 2] = s[(d + 2) + k] /\ t[d + 3] = s[(d + 3) + k] /\ t[d + 4] = s[(d + 4) + k]
            /\ t[d + 5] = s[(d + 5) + k]
        BY <1>1, <3>2, Zenon
      <4>. QED  BY <3>2, <4>1
    <3>4. d + 5 \in E /\ Q[d + 5] = P[j + 5]
      <4>. HIDE DEF j
      <4>1. Q[d + 5] = P[(d + 5) + k] /\ (d + 5 \in E <=> (d + 5) + k \in D)
        BY <1>3, <1>5, <3>2, Zenon
      <4>. QED  BY <2>5, <3>2, <4>1
    <3>. QED  BY <2>3, <2>5, <3>3, <3>4, Zenon DEF Command
  <2>. HIDE DEF j
  <2>. QED  BY <2>2, <2>4, <2>5, Zenon DEF Command
<1>10. Commands(t, Q, E, e)
  BY <1>4, <1>6, <1>8, <1>9, Zenon DEF Commands, M
<1>. QED  BY <1>7, <1>10, Zenon DEF DmcStream

\* A number is made of two bytes.
LEMMA TwoBytes ==
  ASSUME NEW n \in Nat
  PROVE  n \div 256 \in Int /\ n % 256 \in Int /\ (n \div 256) * 256 + (n % 256) = n
<1> DEFINE d == n \div 256
           r == n % 256
<1>1. d \in Int /\ r \in Int
  OBVIOUS
<1>2. d = n \div 256 /\ r = n % 256
  OBVIOUS
<1>. HIDE DEF d, r
<1>3. n = 256 * d + r
  BY <1>1, <1>2
<1>4. d * 256 + r = n
  BY <1>1, <1>3
<1>. QED  BY <1>1, <1>4, Zenon DEF d, r

\* A command more makes the stream longer.
LEMMA LongerBy ==
  ASSUME NEW L \in Nat, NEW k \in {1, 5}, NEW M, M = L + k
  PROVE  M \in Nat /\ L < M
OBVIOUS

\* A report is a command behind the others.
LEMMA CommandBehind ==
  ASSUME NEW s \in Seq(Int), NEW m, NEW got, NEW e \in Pens, DmcStream(s, m, got, e),
         NEW p \in Pens, p.pressure = 1 \/ (Touched(e) /\ p = [e EXCEPT !.pressure = 0]),
         conf.driver = "dmc"
  PROVE  Packet(p) \in Seq(Int) /\ DmcStream(s \o Packet(p), m, got, p)
<1> DEFINE c == Packet(p)
           t == s \o c
           L == Len(s)
           M == Len(t)
<1>1. PICK P, D : Commands(s, P, D, e) /\ 0 \in D /\ Match(got, P[0])
  BY DEF DmcStream
<1>2. /\ P \in [0 .. L -> Pens] /\ D \subseteq 0 .. L /\ L \in D /\ P[L] = e
      /\ \A d \in D : d < L => Command(s, P, D, d)
  BY <1>1, Zenon DEF Commands
<1>3. p.x \in Nat /\ p.y \in Nat /\ p.pressure \in {0, 1} /\ L \in Nat
  BY PensAre
<1> DEFINE b2 == p.x \div 256
           b3 == p.x % 256
           b4 == p.y \div 256
           b5 == p.y % 256
<1>4. /\ b2 \in Int /\ b3 \in Int /\ b4 \in Int /\ b5 \in Int
      /\ b2 * 256 + b3 = p.x /\ b4 * 256 + b5 = p.y
  <2>1. /\ b2 \in Int /\ b3 \in Int /\ b2 * 256 + b3 = p.x
    BY <1>3, TwoBytes
  <2>2. /\ b4 \in Int /\ b5 \in Int /\ b4 * 256 + b5 = p.y
    BY <1>3, TwoBytes
  <2>. QED  BY <2>1, <2>2
<1>5. \/ c = <<16>> /\ p.pressure = 0
      \/ c = <<17, b2, b3, b4, b5>> /\ p.pressure = 1
  <2>1. c = IF p.pressure > 0 THEN <<17, b2, b3, b4, b5>> ELSE <<16>>
    BY DEF Packet
  <2>. HIDE DEF c, b2, b3, b4, b5
  <2>2. (p.pressure = 0 /\ ~(p.pressure > 0)) \/ (p.pressure = 1 /\ p.pressure > 0)
    BY <1>3
  <2>. QED  BY <2>1, <2>2, Zenon
<1>. HIDE DEF b2, b3, b4, b5
<1>6. c \in Seq(Int) /\ Len(c) \in {1, 5} /\ (Len(c) = 1 <=> p.pressure = 0)
  <2>. HIDE DEF c
  <2>1. b2 \in Int /\ b3 \in Int /\ b4 \in Int /\ b5 \in Int
    BY <1>4
  <2>2. CASE c = <<16>> /\ p.pressure = 0
    BY ONLY <2>2
  <2>3. CASE c = <<17, b2, b3, b4, b5>> /\ p.pressure = 1
    <3>1. c \in Seq(Int) /\ Len(c) = 5
      BY ONLY <2>1, <2>3
    <3>. QED  BY <2>3, <3>1
  <2>. QED  BY <1>5, <2>2, <2>3
<1>. HIDE DEF c
<1>7. /\ t \in Seq(Int) /\ M = L + Len(c) /\ M \in Nat /\ L < M
      /\ \A i \in 1 .. L : t[i] = s[i]
      /\ \A i \in 1 .. Len(c) : t[L + i] = c[i]
  <2>1. /\ t \in Seq(Int) /\ M = L + Len(c)
        /\ \A i \in 1 .. L : t[i] = s[i]
        /\ \A i \in 1 .. Len(c) : t[L + i] = c[i]
    BY <1>6, TwoAt
  <2>. HIDE DEF t, L, M
  <2>2. M \in Nat /\ L < M
    <3>1. M = L + Len(c) /\ L \in Nat /\ Len(c) \in {1, 5}
      BY <1>3, <1>6, <2>1
    <3>. QED  BY <3>1, LongerBy
  <2>. QED  BY <2>1, <2>2
<1>. HIDE DEF t, L, M
<1> DEFINE Q == [i \in 0 .. M |-> IF i \in 0 .. L THEN P[i] ELSE p]
           E == D \cup {M}
<1>8. /\ Q \in [0 .. M -> Pens] /\ E \subseteq 0 .. M /\ M \in E /\ Q[M] = p
      /\ \A i \in 0 .. L : Q[i] = P[i] /\ i \in 0 .. M
  <2>1. M \in 0 .. M /\ M \notin 0 .. L /\ \A i \in 0 .. L : i \in 0 .. M
    BY <1>3, <1>7
  <2>. QED  BY <1>2, <2>1
<1>9. 0 \in E /\ Match(got, Q[0])
  <2>1. 0 \in 0 .. L
    BY <1>3
  <2>. QED  BY <1>1, <1>8, <2>1
<1>. HIDE DEF Q
<1>10. ASSUME NEW d \in E, d < M
       PROVE  Command(t, Q, E, d)
  <2>1. d \in D /\ d \in 0 .. L /\ d \in Nat
    BY <1>2, <1>3, <1>7, <1>10
  <2>2. CASE d < L
    <3>1. Command(s, P, D, d)
      BY <1>2, <2>1, <2>2
    <3>2. Q[d] = P[d] /\ t[d + 1] = s[d + 1]
      <4>1. d + 1 \in 1 .. L
        BY <1>3, <2>1, <2>2
      <4>. QED  BY <1>7, <1>8, <2>1, <4>1
    <3>3. CASE /\ s[d + 1] = 16 /\ d + 1 \in D /\ Touched(P[d])
               /\ P[d + 1] = [x |-> P[d].x, y |-> P[d].y, pressure |-> 0]
      <4>1. Q[d + 1] = P[d + 1] /\ d + 1 \in E
        BY <1>2, <1>8, <3>3
      <4>. QED  BY <3>2, <3>3, <4>1, Zenon DEF Command
    <3>4. CASE /\ s[d + 1] = 17 /\ d + 5 \in D
               /\ P[d + 5] = [x |-> s[d + 2] * 256 + s[d + 3], y |-> s[d + 4] * 256 + s[d + 5],
                              pressure |-> 1]
      <4>1. Q[d + 5] = P[d + 5] /\ d + 5 \in E /\ d + 5 \in 0 .. L
        BY <1>2, <1>8, <3>4
      <4>2. d + 2 \in 1 .. L /\ d + 3 \in 1 .. L /\ d + 4 \in 1 .. L /\ d + 5 \in 1 .. L
        BY <1>3, <2>1, <4>1
      <4>3. t[d + 2] = s[d + 2] /\ t[d + 3] = s[d + 3] /\ t[d + 4] = s[d + 4] /\ t[d + 5] = s[d + 5]
        BY <1>7, <4>2, Zenon
      <4>. QED  BY <3>2, <3>4, <4>1, <4>3, Zenon DEF Command
    <3>. QED  BY <3>1, <3>3, <3>4, Zenon DEF Command
  <2>3. CASE d = L
    <3>1. Q[d] = e
      BY <1>2, <1>8, <2>1, <2>3
    <3>2. CASE p.pressure = 0
      <4>1. c = <<16>> /\ Len(c) = 1
        BY <1>5, <1>6, <3>2 DEF c
      <4>2. t[d + 1] = 16 /\ d + 1 = M
        BY <1>7, <2>3, <4>1
      <4>3. Touched(e) /\ p = [x |-> e.x, y |-> e.y, pressure |-> 0]
        BY <3>2, PensAre
      <4>. QED  BY <1>8, <3>1, <4>2, <4>3 DEF Command
    <3>3. CASE p.pressure # 0
      <4>1. c = <<17, b2, b3, b4, b5>> /\ Len(c) = 5 /\ p.pressure = 1
        BY <1>3, <1>5, <1>6, <3>3 DEF c
      <4>2. c[1] = 17 /\ c[2] = b2 /\ c[3] = b3 /\ c[4] = b4 /\ c[5] = b5
        BY <4>1
      <4>3. \A i \in 1 .. 5 : t[d + i] = c[i]
        BY <1>7, <2>3, <4>1
      <4>4. t[d + 1] = 17 /\ t[d + 2] = b2 /\ t[d + 3] = b3 /\ t[d + 4] = b4 /\ t[d + 5] = b5
        <5>1. 1 \in 1 .. 5 /\ 2 \in 1 .. 5 /\ 3 \in 1 .. 5 /\ 4 \in 1 .. 5 /\ 5 \in 1 .. 5
          OBVIOUS
        <5>. QED  BY <4>2, <4>3, <5>1, Zenon
      <4>5. d + 5 = M
        BY <1>7, <2>3, <4>1
      <4>6. p = [x |-> b2 * 256 + b3, y |-> b4 * 256 + b5, pressure |-> 1]
        BY <1>4, <4>1, PensAre
      <4>. QED  BY <1>8, <4>4, <4>5, <4>6, Zenon DEF Command
    <3>. QED  BY <3>2, <3>3
  <2>. QED  BY <1>3, <2>1, <2>2, <2>3
<1>. HIDE DEF E
<1>11. Commands(t, Q, E, p)
  BY <1>8, <1>10, Zenon DEF Commands, M
<1>12. DmcStream(t, m, got, p)
  BY <1>9, <1>11, Zenon DEF DmcStream
<1>. QED  BY <1>6, <1>12 DEF c, t

\* What is taken from the device file leaves the rest of the stream.
LEMMA TakenShifts ==
  ASSUME NEW w \in Seq(Int), NEW l \in Seq(Int), NEW k \in Nat, k <= Len(w)
  PROVE  LET w2 == SubSeq(w, k + 1, Len(w))
         IN /\ w2 \in Seq(Int) /\ Stream(<<>>, w2, l) \in Seq(Int)
            /\ Shifted(Stream(<<>>, w2, l), Stream(<<>>, w, l), k)
<1> DEFINE e == <<>>
           h == e \o SubSeq(w, 1, k)
           b2 == SubSeq(h, k + 1, Len(h))
           w2 == SubSeq(w, k + 1, Len(w))
<1>1. e \in Seq(Int) /\ Len(e) = 0
  OBVIOUS
<1>. HIDE DEF e
<1>2. k \in 0 .. Len(w) /\ k \in 0 .. Len(e) + k
  BY <1>1
<1>3. ReadingParts(e, w, l, k, k)
  BY <1>1, <1>2, ReadingHasParts
<1>4. /\ h \in Seq(Int) /\ Len(h) = Len(e) + k /\ b2 \in Seq(Int) /\ w2 \in Seq(Int)
      /\ Shifted(Stream(b2, w2, l), Stream(e, w, l), k)
  BY <1>3, Zenon DEF ReadingParts
<1>5. b2 = e
  <2>1. Len(h) = k
    BY <1>1, <1>4
  <2>. HIDE DEF h
  <2>2. b2 = <<>>
    BY <1>4, <2>1
  <2>. QED  BY <2>2 DEF e
<1>. HIDE DEF h, b2, w2
<1>6. Stream(e, w2, l) \in Seq(Int)
  <2>1. StreamIs(e, w2, l)
    BY <1>1, <1>4, StreamParts
  <2>. QED  BY <2>1, Zenon DEF StreamIs
<1>. QED  BY <1>4, <1>5, <1>6 DEF w2, e

DmcState(m, w, i, wrote) ==
  [mod |-> m, bytes |-> w, i |-> i, failed |-> FALSE, wrote |-> wrote]

\* A release is given for a press, at its place.
Released(new, before) == ~Touched(new) => Touched(before) /\ new = [before EXCEPT !.pressure = 0]

\* A turn fails or takes the first command.
DmcTurned(t, w, l, m, got, e, i, wrote) ==
  \/ /\ t.failed /\ t.i = i /\ t.wrote = wrote
     /\ w = <<>> => t.mod = m /\ t.bytes = <<>>
  \/ \E m2, w2, new :
       /\ t = DmcState(m2, w2, i + 1, Append(wrote, new)) /\ w2 \in Seq(Int) /\ Released(new, got)
       /\ DmcStream(Stream(<<>>, w2, l), m2, new, e)

\* One turn of the loop of dmc_read fails, or gives the sample of the first command that waits.
LEMMA DmcTurns ==
  ASSUME NEW w \in Seq(Int), NEW l \in Seq(Int), NEW m, NEW got, NEW e,
         DmcStream(Stream(<<>>, w, l), m, got, e), NEW i, NEW wrote
  PROVE  DmcTurned(dmc_turn(DmcState(m, w, i, wrote)), w, l, m, got, e, i, wrote)
<1> DEFINE st == DmcState(m, w, i, wrote)
           t == dmc_turn(st)
           s == Stream(<<>>, w, l)
<1>1. st.failed = FALSE /\ st.bytes = w /\ st.mod = m /\ st.i = i /\ st.wrote = wrote
  BY DEF DmcState
<1>2. /\ s \in Seq(Int) /\ Len(s) >= Len(w) /\ Len(w) \in Nat /\ Len(s) \in Nat
      /\ \A j \in 1 .. Len(w) : s[j] = w[j]
  <2> DEFINE b == <<>>
  <2>1. b \in Seq(Int) /\ Len(b) = 0
    OBVIOUS
  <2>. HIDE DEF b
  <2>2. StreamIs(b, w, l)
    BY <2>1, StreamParts
  <2> DEFINE u == Stream(b, w, l)
  <2>3. /\ u \in Seq(Int) /\ Len(u) = (Len(b) + Len(w)) + Len(l)
        /\ \A j \in 1 .. Len(w) : u[Len(b) + j] = w[j]
    BY <2>2, Zenon DEF StreamIs
  <2>. HIDE DEF u
  <2>4. /\ u \in Seq(Int) /\ Len(u) >= Len(w) /\ Len(w) \in Nat /\ Len(u) \in Nat
    BY <2>1, <2>3
  <2>5. ASSUME NEW j \in 1 .. Len(w)
        PROVE  u[j] = w[j]
    <3>1. 0 + j = j
      OBVIOUS
    <3>. QED  BY <2>1, <2>3, <3>1
  <2>. QED  BY <2>4, <2>5 DEF u, b
<1>3. PICK P, D : Commands(s, P, D, e) /\ 0 \in D /\ Match(got, P[0])
  BY DEF DmcStream
<1>4. /\ SampleAt(m, got) /\ P \in [0 .. Len(s) -> Pens] /\ D \subseteq 0 .. Len(s)
      /\ \A d \in D : d < Len(s) => Command(s, P, D, d)
  BY <1>3, Zenon DEF Commands, DmcStream
<1>. HIDE DEF s
<1>5. CASE w = <<>>
  <2>1. t = [st EXCEPT !.bytes = <<>>, !.failed = TRUE]
    BY <1>1, <1>5 DEF dmc_turn
  <2>2. t = [mod |-> m, bytes |-> <<>>, i |-> i, failed |-> TRUE, wrote |-> wrote]
    BY <2>1 DEF DmcState
  <2>. HIDE DEF t
  <2>3. DmcTurned(t, w, l, m, got, e, i, wrote)
    BY <2>2 DEF DmcTurned
  <2>. QED  BY <2>3 DEF t
<1>6. CASE w # <<>>
  <2> DEFINE rest == Tail(w)
  <2>1. Len(w) >= 1 /\ 1 \in 1 .. Len(w) /\ rest \in Seq(Int) /\ Len(rest) = Len(w) - 1
    BY <1>6
  <2>2. rest = SubSeq(w, 2, Len(w))
    BY <2>1
  <2>3. s[1] = w[1] /\ Command(s, P, D, 0) /\ 0 + 1 = 1 /\ 0 + 5 = 5 /\ 0 + 2 = 2 /\ 0 + 3 = 3 /\ 0 + 4 = 4
    BY <1>2, <1>3, <1>4, <2>1
  <2>4. P[0] \in Pens
    BY <1>2, <1>4
  <2>5. CASE /\ s[0 + 1] = 16 /\ 0 + 1 \in D /\ Touched(P[0])
             /\ P[0 + 1] = [x |-> P[0].x, y |-> P[0].y, pressure |-> 0]
    <3> DEFINE new == DmcRelease(m)
    <3>1. t = [st EXCEPT !.bytes = rest, !.i = i + 1, !.wrote = Append(wrote, new)]
      <4>1. w[1] = 16
        BY <2>3, <2>5
      <4>. QED  BY <1>1, <1>6, <4>1 DEF dmc_turn
    <3>2. t = DmcState(m, rest, i + 1, Append(wrote, new))
      <4>. HIDE DEF rest, new
      <4>. QED  BY <3>1 DEF DmcState
    <3>3. new = [x |-> m.current_x, y |-> m.current_y, pressure |-> 0]
      BY DEF DmcRelease
    <3>. HIDE DEF new
    <3>4. SampleAt(m, new) /\ new.x = m.current_x /\ new.y = m.current_y /\ new.pressure = 0
      BY <3>3 DEF SampleAt
    <3>5. got.x = m.current_x /\ got.y = m.current_y
      BY <1>4 DEF SampleAt
    <3>6. Match(new, P[1])
      <4>1. P[1].x = P[0].x /\ P[1].y = P[0].y /\ P[1].pressure = 0
        BY <2>3, <2>5
      <4>. QED  BY <1>3, <3>4, <3>5, <4>1 DEF Match
    <3>7. Released(new, got)
      <4>1. Touched(got)
        BY <1>3, <2>5 DEF Match, Touched
      <4>2. new = [got EXCEPT !.pressure = 0]
        <5>1. PICK q : got = [x |-> m.current_x, y |-> m.current_y, pressure |-> q]
          BY <1>4 DEF SampleAt
        <5>. QED  BY ONLY <3>3, <5>1
      <4>. QED  BY <4>1, <4>2 DEF Released
    <3> DEFINE s2 == Stream(<<>>, rest, l)
    <3>8. s2 \in Seq(Int) /\ Shifted(s2, s, 1)
      <4>1. 1 \in Nat /\ 1 <= Len(w) /\ 1 + 1 = 2
        BY <2>1
      <4>2. LET w2 == SubSeq(w, 1 + 1, Len(w))
            IN /\ w2 \in Seq(Int) /\ Stream(<<>>, w2, l) \in Seq(Int)
               /\ Shifted(Stream(<<>>, w2, l), Stream(<<>>, w, l), 1)
        BY <4>1, TakenShifts
      <4>. QED  BY <2>2, <4>1, <4>2 DEF s
    <3>. HIDE DEF s2, rest
    <3>9. DmcStream(s2, m, new, e)
      <4>1. 1 \in D /\ 1 \in Nat
        BY <2>3, <2>5
      <4>. QED  BY <1>2, <1>3, <3>4, <3>6, <3>8, <4>1, CommandsLeft
    <3>. HIDE DEF t
    <3>10. DmcTurned(t, w, l, m, got, e, i, wrote)
      BY <2>1, <3>2, <3>7, <3>9, Zenon DEF DmcTurned, s2
    <3>. QED  BY <3>10 DEF t
  <2>6. CASE /\ s[0 + 1] = 17 /\ 0 + 5 \in D
             /\ P[0 + 5] = [x |-> s[0 + 2] * 256 + s[0 + 3], y |-> s[0 + 4] * 256 + s[0 + 5],
                            pressure |-> 1]
    <3>1. w[1] = 17 /\ w[1] # 16
      BY <2>3, <2>6
    <3>2. CASE Len(rest) < 4
      <4>1. t = [st EXCEPT !.bytes = <<>>, !.failed = TRUE]
        BY <1>1, <1>6, <3>1, <3>2 DEF dmc_turn
      <4>2. t = [mod |-> m, bytes |-> <<>>, i |-> i, failed |-> TRUE, wrote |-> wrote]
        BY <4>1 DEF DmcState
      <4>. HIDE DEF t
      <4>3. DmcTurned(t, w, l, m, got, e, i, wrote)
        BY <1>6, <4>2 DEF DmcTurned
      <4>. QED  BY <4>3 DEF t
    <3>3. CASE ~(Len(rest) < 4)
      <4> DEFINE b == SubSeq(rest, 1, 4)
                 m2 == DmcPlace(m, b)
                 w2 == SubSeq(rest, 5, Len(rest))
                 new == [DmcRelease(m2) EXCEPT !.pressure = 100]
      <4>1. t = [st EXCEPT !.bytes = w2, !.i = i + 1, !.mod = m2, !.wrote = Append(wrote, new)]
        BY <1>1, <1>6, <3>1, <3>3 DEF dmc_turn
      <4>2. t = DmcState(m2, w2, i + 1, Append(wrote, new))
        <5>. HIDE DEF m2, w2, new
        <5>. QED  BY <4>1 DEF DmcState
      <4>3. new = [x |-> m2.current_x, y |-> m2.current_y, pressure |-> 100]
        <5>. HIDE DEF m2
        <5>. QED  BY DEF DmcRelease
      <4>4. /\ 2 \in 1 .. Len(w) /\ 3 \in 1 .. Len(w) /\ 4 \in 1 .. Len(w) /\ 5 \in 1 .. Len(w)
            /\ Len(w) >= 5
        BY <1>2, <2>1, <3>3
      <4>5. b[1] = s[2] /\ b[2] = s[3] /\ b[3] = s[4] /\ b[4] = s[5]
        <5>1. /\ Len(rest) >= 4 /\ rest \in Seq(Int)
              /\ rest[1] = w[2] /\ rest[2] = w[3] /\ rest[3] = w[4] /\ rest[4] = w[5]
          BY <2>1, <4>4
        <5>2. s[2] = w[2] /\ s[3] = w[3] /\ s[4] = w[4] /\ s[5] = w[5]
          BY <1>2, <4>4, Zenon
        <5>. HIDE DEF rest
        <5>3. b[1] = rest[1] /\ b[2] = rest[2] /\ b[3] = rest[3] /\ b[4] = rest[4]
          BY ONLY <5>1
        <5>. QED  BY <5>1, <5>2, <5>3
      <4>6. w2 = SubSeq(w, 6, Len(w))
        <5> DEFINE r == SubSeq(w, 2, Len(w))
                   x == SubSeq(r, 5, Len(w) - 1)
                   y == SubSeq(w, 6, Len(w))
        <5>1. r \in Seq(Int) /\ Len(r) = Len(w) - 1 /\ \A j \in 1 .. Len(w) - 1 : r[j] = w[j + 1]
          <6>1. 1 \in 0 .. Len(w) /\ 1 + 1 = 2
            BY <4>4
          <6>2. r \in Seq(Int) /\ Shifted(r, w, 1)
            BY <6>1, SuffixShifts
          <6>. QED  BY <6>2 DEF Shifted
        <5>2. y \in Seq(Int) /\ Len(y) = Len(w) - 5 /\ \A j \in 1 .. Len(w) - 5 : y[j] = w[j + 5]
          <6>1. 5 \in 0 .. Len(w) /\ 5 + 1 = 6
            BY <4>4
          <6>2. y \in Seq(Int) /\ Shifted(y, w, 5)
            BY <6>1, SuffixShifts
          <6>. QED  BY <6>2 DEF Shifted
        <5>. HIDE DEF r, y
        <5>3. x \in Seq(Int) /\ Len(x) = Len(w) - 5 /\ \A j \in 1 .. Len(w) - 5 : x[j] = r[j + 4]
          <6>1. 4 \in 0 .. Len(r) /\ 4 + 1 = 5
            BY <1>2, <4>4, <5>1
          <6>2. x \in Seq(Int) /\ Shifted(x, r, 4)
            BY <5>1, <6>1, SuffixShifts
          <6>3. Len(x) = Len(r) - 4 /\ \A j \in 1 .. Len(x) : x[j] = r[j + 4]
            BY <6>2, Zenon DEF Shifted
          <6>. HIDE DEF x
          <6>4. Len(x) = Len(w) - 5
            BY <1>2, <5>1, <6>3
          <6>. QED  BY <6>2, <6>3, <6>4
        <5>. HIDE DEF x
        <5>4. ASSUME NEW j \in 1 .. Len(x)
              PROVE  x[j] = y[j]
          <6>1. j \in 1 .. Len(w) - 5 /\ j + 4 \in 1 .. Len(w) - 1 /\ (j + 4) + 1 = j + 5
            BY <1>2, <4>4, <5>3
          <6>. QED  BY <5>1, <5>2, <5>3, <6>1
        <5>5. x = y
          BY <5>2, <5>3, <5>4, SeqEqual
        <5>. QED  BY <2>1, <2>2, <5>5 DEF x, y, r
      <4>7. m2 = [current_x |-> s[2] * 256 + s[3], current_y |-> s[4] * 256 + s[5]]
        <5>. HIDE DEF b
        <5>. QED  BY <4>5 DEF DmcPlace
      <4>. HIDE DEF m2, new, b
      <4>8. SampleAt(m2, new) /\ new.x = m2.current_x /\ new.y = m2.current_y /\ new.pressure = 100
        BY <4>3 DEF SampleAt
      <4>9. Match(new, P[5])
        <5>1. /\ P[5].x = s[2] * 256 + s[3] /\ P[5].y = s[4] * 256 + s[5]
              /\ P[5].pressure = 1
          BY <2>3, <2>6
        <5>. QED  BY <4>7, <4>8, <5>1 DEF Match
      <4>10. Released(new, got)
        BY <4>8 DEF Released, Touched
      <4> DEFINE s2 == Stream(<<>>, w2, l)
      <4>11. w2 \in Seq(Int) /\ s2 \in Seq(Int) /\ Shifted(s2, s, 5)
        <5>1. 5 \in Nat /\ 5 <= Len(w) /\ 5 + 1 = 6
          BY <4>4
        <5>2. LET v == SubSeq(w, 5 + 1, Len(w))
              IN /\ v \in Seq(Int) /\ Stream(<<>>, v, l) \in Seq(Int)
                 /\ Shifted(Stream(<<>>, v, l), Stream(<<>>, w, l), 5)
          BY <5>1, TakenShifts
        <5>. QED  BY <4>6, <5>1, <5>2 DEF s
      <4>. HIDE DEF s2, w2
      <4>12. DmcStream(s2, m2, new, e)
        <5>1. 5 \in D /\ 5 \in Nat
          BY <2>3, <2>6
        <5>2. s \in Seq(Int) /\ Commands(s, P, D, e)
          BY <1>2, <1>3
        <5>3. SampleAt(m2, new)
          BY <4>8
        <5>. QED  BY ONLY <4>9, <4>11, <5>1, <5>2, <5>3, CommandsLeft
      <4>. HIDE DEF t
      <4>13. DmcTurned(t, w, l, m, got, e, i, wrote)
        BY <4>2, <4>10, <4>11, <4>12, Zenon DEF DmcTurned, s2
      <4>. QED  BY <4>13 DEF t
    <3>. QED  BY <3>2, <3>3
  <2>. QED  BY <2>3, <2>5, <2>6, Zenon DEF Command
<1>. QED  BY <1>5, <1>6

\* What is appended leaves the first member where it is.
LEMMA FirstStays ==
  ASSUME NEW S, NEW s \in Seq(S), 1 \in 1 .. Len(s), NEW e \in S
  PROVE  Append(s, e)[1] = s[1]
BY AppendIsConcat, ConcatProperties

\* what the turns of the loop make of s
Turns(f, nr, s) == f = [k \in 0 .. nr |-> IF k = 0 THEN s ELSE dmc_turn(f[k - 1])]

\* The loop of dmc_read makes as many turns as samples are asked for.
LEMMA TurnsAre ==
  ASSUME NEW nr \in 1 .. 2, NEW s
  PROVE  LET f == CHOOSE g : Turns(g, nr, s)
         IN f[1] = dmc_turn(s) /\ (nr = 2 => f[2] = dmc_turn(f[1]))
<1> DEFINE f == CHOOSE g : Turns(g, nr, s)
           a == dmc_turn(s)
           b == dmc_turn(a)
           h == [k \in 0 .. nr |-> IF k = 0 THEN s ELSE IF k = 1 THEN a ELSE b]
<1>1. /\ h[0] = s /\ h[1] = a /\ (nr = 2 => h[2] = b)
      /\ \A k \in 0 .. nr : k = 0 \/ k = 1 \/ (k = 2 /\ nr = 2)
  OBVIOUS
<1>2. \A k \in 0 .. nr : h[k] = IF k = 0 THEN s ELSE dmc_turn(h[k - 1])
  <2>1. 1 - 1 = 0 /\ 2 - 1 = 1 /\ 1 # 0 /\ 2 # 0
    OBVIOUS
  <2>. HIDE DEF h
  <2>2. h[1] = dmc_turn(h[1 - 1]) /\ (nr = 2 => h[2] = dmc_turn(h[2 - 1]))
    BY <1>1, <2>1
  <2>. HIDE DEF a, b
  <2>. QED  BY <1>1, <2>1, <2>2
<1>3. Turns(h, nr, s)
  <2> DEFINE g == h
  <2>1. g = [k \in 0 .. nr |-> g[k]]
    OBVIOUS
  <2>2. \A k \in 0 .. nr : g[k] = IF k = 0 THEN s ELSE dmc_turn(g[k - 1])
    BY <1>2
  <2>. HIDE DEF g
  <2>3. Turns(g, nr, s)
    BY <2>1, <2>2 DEF Turns
  <2>. QED  BY <2>3 DEF g
<1>. HIDE DEF h
<1>4. Turns(f, nr, s)
  BY <1>3, Zenon
<1>. HIDE DEF f
<1>5. ASSUME NEW k \in 0 .. nr
      PROVE  f[k] = IF k = 0 THEN s ELSE dmc_turn(f[k - 1])
  <2>1. f = [i \in 0 .. nr |-> IF i = 0 THEN s ELSE dmc_turn(f[i - 1])]
    BY <1>4 DEF Turns
  <2>. QED  BY ONLY <2>1
<1>6. f[0] = s /\ f[1] = dmc_turn(f[1 - 1]) /\ (nr = 2 => f[2] = dmc_turn(f[2 - 1]))
  <2>1. 0 \in 0 .. nr /\ 1 \in 0 .. nr /\ (nr = 2 => 2 \in 0 .. nr) /\ 1 # 0 /\ 2 # 0
    OBVIOUS
  <2>. QED  BY <1>5, <2>1, Zenon
<1>7. 1 - 1 = 0 /\ 2 - 1 = 1
  OBVIOUS
<1>. QED  BY <1>6, <1>7 DEF f

\* A read has lost or invented a sample, or it leaves the rest of the commands.
LEMMA DmcReads ==
  ASSUME NEW w \in Seq(Int), NEW l \in Seq(Int), NEW m, NEW got, NEW e,
         DmcStream(Stream(<<>>, w, l), m, got, e), NEW nr \in 1 .. 2
  PROVE  LET v == dmc_read(m, w, nr)
         IN \/ w # <<>> /\ v.told # Len(v.wrote)
            \/ /\ v.bytes \in Seq(Int)
               /\ DmcStream(Stream(<<>>, v.bytes, l), v.mod,
                            IF v.told \in DOMAIN v.wrote THEN v.wrote[v.told] ELSE got, e)
               /\ \A i \in DOMAIN v.wrote :
                    Released(v.wrote[i], IF i = 1 THEN got ELSE v.wrote[i - 1])
<1> DEFINE v == dmc_read(m, w, nr)
           s0 == DmcState(m, w, 0, <<>>)
           f == CHOOSE g : Turns(g, nr, s0)
           end == f[nr]
           G == \/ w # <<>> /\ v.told # Len(v.wrote)
                \/ /\ v.bytes \in Seq(Int)
                   /\ DmcStream(Stream(<<>>, v.bytes, l), v.mod,
                                IF v.told \in DOMAIN v.wrote THEN v.wrote[v.told] ELSE got, e)
                   /\ \A i \in DOMAIN v.wrote :
                        Released(v.wrote[i], IF i = 1 THEN got ELSE v.wrote[i - 1])
<1> SUFFICES G
  OBVIOUS
<1>1. v = [mod |-> end.mod, bytes |-> end.bytes, wrote |-> end.wrote,
           told |-> IF end.failed THEN end.i - 1 ELSE end.i]
  BY DEF dmc_read, Turns, DmcState
<1>2. f[1] = dmc_turn(s0) /\ (nr = 2 => f[2] = dmc_turn(f[1])) /\ (nr = 1 \/ nr = 2)
  BY TurnsAre
<1>3. DmcTurned(f[1], w, l, m, got, e, 0, <<>>)
  BY <1>2, DmcTurns
<1>. HIDE DEF f, v
<1>4. /\ v.mod = end.mod /\ v.bytes = end.bytes /\ v.wrote = end.wrote
      /\ v.told = IF end.failed THEN end.i - 1 ELSE end.i
  BY <1>1
\* a turn behind one that failed does nothing
<1>5. ASSUME f[1].failed
      PROVE  end = f[1]
  <2>1. dmc_turn(f[1]) = f[1]
    BY <1>5 DEF dmc_turn
  <2>. QED  BY <1>2, <2>1
<1>6. CASE /\ f[1].failed /\ f[1].i = 0 /\ f[1].wrote = <<>>
           /\ w = <<>> => f[1].mod = m /\ f[1].bytes = <<>>
  <2>1. v.wrote = <<>> /\ v.told = -1
    BY <1>4, <1>5, <1>6
  <2>2. Len(v.wrote) = 0 /\ DOMAIN v.wrote = {}
    BY <2>1
  <2>3. CASE w = <<>>
    <3>1. v.mod = m /\ v.bytes = w
      BY <1>4, <1>5, <1>6, <2>3
    <3>. QED  BY <2>2, <3>1
  <2>. QED  BY <2>1, <2>2, <2>3
<1>7. ASSUME NEW m1, NEW w1, NEW new, f[1] = DmcState(m1, w1, 1, <<new>>), w1 \in Seq(Int),
             Released(new, got), DmcStream(Stream(<<>>, w1, l), m1, new, e), w # <<>>
      PROVE  G
  <2>1. CASE nr = 1
    <3>1. v.mod = m1 /\ v.bytes = w1 /\ v.wrote = <<new>> /\ v.told = 1
      BY <1>4, <1>7, <2>1 DEF DmcState
    <3>2. 1 \in DOMAIN v.wrote /\ v.wrote[1] = new /\ \A i \in DOMAIN v.wrote : i = 1
      BY <3>1
    <3>. QED  BY <1>7, <3>1, <3>2
  <2>2. CASE nr = 2
    <3>1. DmcTurned(end, w1, l, m1, new, e, 1, <<new>>)
      BY <1>2, <1>7, <2>2, DmcTurns
    <3>2. CASE end.failed /\ end.i = 1 /\ end.wrote = <<new>>
      <4>1. 1 - 1 = 0 /\ Len(<<new>>) = 1 /\ 0 # 1
        OBVIOUS
      <4>2. v.told = 0 /\ Len(v.wrote) = 1
        BY <1>4, <3>2, <4>1
      <4>. QED  BY <1>7, <4>1, <4>2
    <3>3. CASE \E m2, w2, newer :
                 /\ end = DmcState(m2, w2, 1 + 1, Append(<<new>>, newer)) /\ w2 \in Seq(Int)
                 /\ Released(newer, new) /\ DmcStream(Stream(<<>>, w2, l), m2, newer, e)
      <4>1. PICK m2, w2, newer :
                 /\ end = DmcState(m2, w2, 1 + 1, Append(<<new>>, newer)) /\ w2 \in Seq(Int)
                 /\ Released(newer, new) /\ DmcStream(Stream(<<>>, w2, l), m2, newer, e)
        BY <3>3, Zenon
      <4>2. Append(<<new>>, newer) = <<new, newer>> /\ 1 + 1 = 2
        <5> DEFINE S == {new, newer}
                   one == <<new>>
        <5>1. new \in S /\ newer \in S
          OBVIOUS
        <5>. HIDE DEF S
        <5>2. one \in Seq(S) /\ Len(one) = 1 /\ one[1] = new
          BY <5>1
        <5>. HIDE DEF one
        <5> DEFINE both == Append(one, newer)
        <5>3. both \in Seq(S) /\ Len(both) = 2 /\ both[1] = new /\ both[2] = newer
          <6>1. both \in Seq(S) /\ Len(both) = Len(one) + 1 /\ both[Len(one) + 1] = newer
            BY <5>1, <5>2, AppendProperties
          <6>2. 1 \in 1 .. Len(one) /\ Len(one) + 1 = 2
            BY <5>2
          <6>3. both[1] = one[1]
            BY ONLY <5>1, <5>2, <6>2, FirstStays
          <6>. HIDE DEF both
          <6>. QED  BY <5>2, <6>1, <6>2, <6>3
        <5>. HIDE DEF both
        <5> DEFINE t == <<new, newer>>
        <5>4. t \in Seq(S) /\ Len(t) = 2 /\ t[1] = new /\ t[2] = newer
          BY <5>1
        <5>. HIDE DEF t
        <5>5. \A j \in 1 .. Len(both) : both[j] = t[j]
          <6>1. \A j \in 1 .. Len(both) : j = 1 \/ j = 2
            BY <5>3
          <6>. QED  BY <5>3, <5>4, <6>1
        <5>6. both = t
          BY <5>3, <5>4, <5>5, SeqEqual
        <5>7. both = <<new, newer>> /\ 1 + 1 = 2
          BY <5>6 DEF t
        <5>. QED  BY <5>7 DEF one, both
      <4>3. end = [mod |-> m2, bytes |-> w2, i |-> 2, failed |-> FALSE, wrote |-> <<new, newer>>]
        BY <4>1, <4>2 DEF DmcState
      <4>4. v.mod = m2 /\ v.bytes = w2 /\ v.wrote = <<new, newer>> /\ v.told = 2
        BY <1>4, <4>3
      <4>5. /\ 2 \in DOMAIN v.wrote /\ v.wrote[1] = new /\ v.wrote[2] = newer
            /\ \A i \in DOMAIN v.wrote : i = 1 \/ i = 2
        BY <4>4
      <4>6. \A i \in DOMAIN v.wrote : Released(v.wrote[i], IF i = 1 THEN got ELSE v.wrote[i - 1])
        <5>1. 2 - 1 = 1 /\ 2 # 1
          OBVIOUS
        <5>. QED  BY <1>7, <4>1, <4>5, <5>1
      <4>. QED  BY <4>1, <4>4, <4>5, <4>6
    <3>. QED  BY <3>1, <3>2, <3>3, Zenon DEF DmcTurned
  <2>. QED  BY <1>2, <2>1, <2>2
<1>8. CASE \E m1, w1, new :
             /\ f[1] = DmcState(m1, w1, 0 + 1, Append(<<>>, new)) /\ w1 \in Seq(Int)
             /\ Released(new, got) /\ DmcStream(Stream(<<>>, w1, l), m1, new, e)
  <2>1. PICK m1, w1, new :
             /\ f[1] = DmcState(m1, w1, 0 + 1, Append(<<>>, new)) /\ w1 \in Seq(Int)
             /\ Released(new, got) /\ DmcStream(Stream(<<>>, w1, l), m1, new, e)
    BY <1>8, Zenon
  <2>2. Append(<<>>, new) = <<new>> /\ 0 + 1 = 1
    OBVIOUS
  <2>3. w # <<>>
    <3> SUFFICES ASSUME w = <<>>
                 PROVE  FALSE
      OBVIOUS
    <3>1. f[1].failed
      BY <1>2 DEF DmcState, dmc_turn
    <3>. QED  BY <2>1, <3>1 DEF DmcState
  <2>. QED  BY <1>7, <2>1, <2>2, <2>3
<1>. QED  BY <1>3, <1>6, <1>8, Zenon DEF DmcTurned

\* What waits are commands that bring the pen to where the device has reported it, and the
\* last read gave a release only for a press, unless a read has lost a sample.
DmcInv ==
  conf.driver = "dmc" =>
    /\ pen \in Pens /\ IsPast(past) /\ past.torn \in BOOLEAN
    /\ ~past.torn =>
         /\ wire \in Seq(Int) /\ line \in Seq(Int)
         /\ DmcStream(Stream(<<>>, wire, line), mod, seen, pen)
         /\ \A i \in DOMAIN read.wrote :
              Released(read.wrote[i], IF i = 1 THEN read.before ELSE read.wrote[i - 1])

\* The invariant of dmc holds at first, with nothing on the line.
LEMMA DmcStarts == ASSUME Init PROVE DmcInv
<1> SUFFICES ASSUME conf.driver = "dmc"
             PROVE  DmcInv
  BY DEF DmcInv
<1>1. /\ mod = DmcStart /\ pen = Lifted /\ seen = Lifted /\ wire = <<>> /\ line = <<>>
      /\ read = NoRead
  BY DEF Init, Start
<1>2. past = [cur |-> <<>>, torn |-> FALSE, fresh |-> {}, rate |-> 0, unknown |-> FALSE,
              stuck |-> FALSE, good |-> DISCARD_FRAMES + 1]
  <2>1. past = Past
    BY DEF Init
  <2>. QED  BY <2>1 DEF Past
<1>3. IsPast(past) /\ past.torn \in BOOLEAN
  BY <1>2 DEF IsPast
<1>4. pen \in Pens /\ Match(seen, pen) /\ SampleAt(mod, seen)
  BY <1>1 DEF Lifted, Pens, Match, SampleAt, DmcStart
<1> DEFINE s == Stream(<<>>, wire, line)
<1>5. s = <<>> /\ Len(s) = 0 /\ wire \in Seq(Int) /\ line \in Seq(Int)
  BY <1>1 DEF Stream
<1>. HIDE DEF s
<1> DEFINE P == [i \in 0 .. 0 |-> pen]
           D == {0}
<1>6. P \in [0 .. Len(s) -> Pens] /\ P[0] = pen /\ D \subseteq 0 .. Len(s)
      /\ \A d \in D : ~(d < Len(s))
  BY <1>4, <1>5
<1>7. Commands(s, P, D, pen) /\ 0 \in D
  BY <1>5, <1>6 DEF Commands
<1>. HIDE DEF P, D
<1>8. DmcStream(s, mod, seen, pen)
  BY <1>4, <1>6, <1>7, Zenon DEF DmcStream
<1>9. DOMAIN read.wrote = {}
  BY <1>1 DEF NoRead
<1>. QED  BY <1>3, <1>4, <1>5, <1>8, <1>9 DEF DmcInv, s

\* It is kept when the device sends a command on the line,
LEMMA DmcReports ==
  ASSUME DmcInv, NEW p \in Reports, Report(p)
  PROVE  DmcInv'
<1> SUFFICES ASSUME conf'.driver = "dmc"
             PROVE  DmcInv'
  BY DEF DmcInv
<1>1. conf' = conf /\ conf.driver = "dmc" /\ "dmc" \notin Records
  BY DEF Report, Records
<1>2. pen \in Pens /\ IsPast(past) /\ past.torn \in BOOLEAN
  BY <1>1 DEF DmcInv
<1>3. /\ line = <<>> /\ line' = Packet(p) /\ wire' = wire /\ mod' = mod /\ past' = past
      /\ pen' = p /\ seen' = seen /\ read' = NoRead
  BY <1>1 DEF Report
<1>5. p \in Pens /\ (p.pressure = 1 \/ (Touched(pen) /\ p = [pen EXCEPT !.pressure = 0]))
  <2>1. CASE \E s \in Spots : p = [x |-> s[1], y |-> s[2], pressure |-> 1]
    <3>1. PICK s \in Spots : p = [x |-> s[1], y |-> s[2], pressure |-> 1]
      BY <2>1
    <3>2. s \in Nat \X Nat
      BY SpotsAssumption
    <3>. QED  BY <3>1, <3>2 DEF Pens
  <2>2. CASE Touched(pen) /\ p = [pen EXCEPT !.pressure = 0]
    BY <1>2, <2>2 DEF Pens
  <2>. QED  BY <2>1, <2>2 DEF Reports
<1>6. DOMAIN read'.wrote = {}
  BY <1>3 DEF NoRead
<1>7. ASSUME ~past'.torn
      PROVE  /\ wire' \in Seq(Int) /\ line' \in Seq(Int)
             /\ DmcStream(Stream(<<>>, wire', line'), mod', seen', pen')
  <2>1. wire \in Seq(Int) /\ DmcStream(Stream(<<>>, wire, line), mod, seen, pen)
    BY <1>1, <1>3, <1>7 DEF DmcInv
  <2>2. Stream(<<>>, wire, line) = wire
    BY <1>3, <2>1 DEF Stream
  <2> DEFINE c == Packet(p)
  <2>3. c \in Seq(Int) /\ DmcStream(wire \o c, mod, seen, p)
    BY <1>1, <1>2, <1>5, <2>1, <2>2, CommandBehind
  <2>. HIDE DEF c
  <2>4. Stream(<<>>, wire, c) = wire \o c
    <3>1. <<>> \o wire = wire
      BY <2>1
    <3>. QED  BY <3>1 DEF Stream
  <2>. QED  BY <1>3, <2>1, <2>3, <2>4 DEF c
<1>. QED  BY <1>1, <1>2, <1>3, <1>5, <1>6, <1>7 DEF DmcInv

\* when a piece of it arrives in the device file,
LEMMA DmcArrives ==
  ASSUME DmcInv, NEW n \in 1 .. 5, Arrive(n)
  PROVE  DmcInv'
<1> SUFFICES ASSUME conf'.driver = "dmc"
             PROVE  DmcInv'
  BY DEF DmcInv
<1>1. /\ conf' = conf /\ conf.driver = "dmc" /\ n \in DOMAIN line
      /\ wire' = wire \o SubSeq(line, 1, n) /\ line' = SubSeq(line, n + 1, Len(line))
      /\ mod' = mod /\ past' = past /\ pen' = pen /\ seen' = seen /\ read' = NoRead
  BY DEF Arrive
<1>2. DOMAIN read'.wrote = {}
  BY <1>1 DEF NoRead
<1>3. pen \in Pens /\ IsPast(past) /\ past.torn \in BOOLEAN
  BY <1>1 DEF DmcInv
<1>4. ASSUME ~past.torn
      PROVE  /\ wire' \in Seq(Int) /\ line' \in Seq(Int)
             /\ DmcStream(Stream(<<>>, wire', line'), mod, seen, pen)
  <2>1. /\ wire \in Seq(Int) /\ line \in Seq(Int)
        /\ DmcStream(Stream(<<>>, wire, line), mod, seen, pen)
    BY <1>1, <1>4 DEF DmcInv
  <2> DEFINE b == <<>>
  <2>2. b \in Seq(Int) /\ n \in 1 .. Len(line)
    BY <1>1, <2>1
  <2>. HIDE DEF b
  <2>3. /\ wire' \in Seq(Int) /\ line' \in Seq(Int)
        /\ Stream(b, wire', line') = Stream(b, wire, line)
    BY <1>1, <2>1, <2>2, ArrivingKeepsStream
  <2>. QED  BY <2>1, <2>3 DEF b
<1>. QED  BY <1>1, <1>2, <1>3, <1>4 DEF DmcInv

\* and when dmc_read takes the commands that are there, or a part of one.
LEMMA DmcIsRead ==
  ASSUME DmcInv, NEW nr \in 1 .. 2, ReadDmc(nr)
  PROVE  DmcInv'
<1> DEFINE v == dmc_read(mod, wire, nr)
<1> SUFFICES ASSUME conf'.driver = "dmc"
             PROVE  DmcInv'
  BY DEF DmcInv
<1>1. /\ conf' = conf /\ conf.driver = "dmc" /\ pen' = pen /\ line' = line
      /\ mod' = v.mod /\ wire' = v.bytes
      /\ read' = [told |-> v.told, wrote |-> v.wrote, asked |-> nr, came |-> Len(wire),
                  due |-> <<>>, before |-> seen]
      /\ seen' = IF v.told \in DOMAIN v.wrote THEN v.wrote[v.told] ELSE seen
      /\ past' = [past EXCEPT !.torn = past.torn \/ Torn(v, Len(wire))]
  BY DEF ReadDmc, Gets
<1>2. pen \in Pens /\ IsPast(past) /\ past.torn \in BOOLEAN
  BY <1>1 DEF DmcInv
<1>. HIDE DEF v
<1>3. IsPast(past') /\ past'.torn = (past.torn \/ Torn(v, Len(wire))) /\ past'.torn \in BOOLEAN
  <2> DEFINE k == past.torn \/ Torn(v, Len(wire))
  <2>1. past' = [past EXCEPT !.torn = k]
    BY <1>1
  <2>2. k \in BOOLEAN
    OBVIOUS
  <2>. HIDE DEF k
  <2>3. past' = [cur |-> past.cur, torn |-> k, fresh |-> past.fresh, rate |-> past.rate,
                 unknown |-> past.unknown, stuck |-> past.stuck, good |-> past.good]
    <3>1. IsPast(past)
      BY <1>2
    <3>. QED  BY ONLY <2>1, <3>1 DEF IsPast
  <2>. QED  BY <2>2, <2>3 DEF IsPast, k
<1>4. ASSUME ~past'.torn
      PROVE  /\ wire' \in Seq(Int) /\ line' \in Seq(Int)
             /\ DmcStream(Stream(<<>>, wire', line'), mod', seen', pen')
             /\ \A i \in DOMAIN read'.wrote :
                  Released(read'.wrote[i], IF i = 1 THEN read'.before ELSE read'.wrote[i - 1])
  <2>1. ~past.torn /\ ~Torn(v, Len(wire))
    BY <1>3, <1>4, Zenon
  <2>2. /\ wire \in Seq(Int) /\ line \in Seq(Int)
        /\ DmcStream(Stream(<<>>, wire, line), mod, seen, pen)
    BY <1>1, <2>1 DEF DmcInv
  <2>3. \/ wire # <<>> /\ v.told # Len(v.wrote)
        \/ /\ v.bytes \in Seq(Int)
           /\ DmcStream(Stream(<<>>, v.bytes, line), v.mod,
                        IF v.told \in DOMAIN v.wrote THEN v.wrote[v.told] ELSE seen, pen)
           /\ \A i \in DOMAIN v.wrote :
                Released(v.wrote[i], IF i = 1 THEN seen ELSE v.wrote[i - 1])
    BY <2>2, DmcReads DEF v
  <2>4. ~(wire # <<>> /\ v.told # Len(v.wrote))
    <3>1. wire # <<>> => Len(wire) > 0
      BY <2>2
    <3>. QED  BY <2>1, <3>1 DEF Torn
  <2>5. read'.wrote = v.wrote /\ read'.before = seen
    BY <1>1
  <2>. QED  BY <1>1, <2>2, <2>3, <2>4, <2>5, Zenon
<1>. QED  BY <1>1, <1>2, <1>3, <1>4 DEF DmcInv

\* The next-state relation keeps the invariant of dmc.
LEMMA DmcKeeps == ASSUME DmcInv, [Next]_vars PROVE DmcInv'
<1>1. CASE \E p \in Reports : Report(p)
  BY <1>1, DmcReports
<1>2. CASE \E n \in 1 .. 5 : Arrive(n)
  BY <1>2, DmcArrives
<1>3. CASE \E nr \in 1 .. 2 : ReadDmc(nr)
  BY <1>3, DmcIsRead
<1>4. CASE UNCHANGED vars
  BY <1>4 DEF vars, DmcInv
<1>5. ASSUME conf' = conf, conf.driver # "dmc"
      PROVE  DmcInv'
  BY <1>5 DEF DmcInv
<1>6. CASE \E n \in 1 .. 4 : ReportCut(n)
  BY <1>5, <1>6 DEF ReportCut
<1>7. CASE \E nr \in 1 .. 2 : ReadRecords(nr)
  BY <1>5, <1>7 DEF ReadRecords, Records
<1>8. CASE ReadTouchKit
  BY <1>5, <1>8 DEF ReadTouchKit
<1>9. CASE \E nr \in 1 .. 2 : ReadGalax(nr)
  BY <1>5, <1>9 DEF ReadGalax
<1>10. CASE \E frame \in Frames, works \in BOOLEAN : ReadPalmpre(frame, works)
  BY <1>5, <1>10 DEF ReadPalmpre
<1>. QED  BY <1>1, <1>2, <1>3, <1>4, <1>6, <1>7, <1>8, <1>9, <1>10 DEF Next

\* When nothing waits, the program has got where the pen is.
LEMMA DmcFollows ==
  ASSUME DmcInv, conf.driver = "dmc", ~past.torn, wire = <<>>, line = <<>>
  PROVE  Match(seen, pen)
<1> DEFINE s == Stream(<<>>, wire, line)
<1>1. s = <<>> /\ Len(s) = 0
  BY DEF Stream
<1>. HIDE DEF s
<1>2. DmcStream(s, mod, seen, pen)
  BY DEF DmcInv, s
<1>3. PICK P, D : Commands(s, P, D, pen) /\ 0 \in D /\ Match(seen, P[0])
  BY <1>2 DEF DmcStream
<1>4. P[Len(s)] = pen
  BY <1>3 DEF Commands
<1>. QED  BY <1>1, <1>3, <1>4

(***************************************************************************)
(* A sample with the pen lifted follows one with the pen down, at the same *)
(* place, whether it comes from cy8mrln-palmpre.c, which makes it of the   *)
(* touch it keeps, or from dmc-raw.c, whose device sends no place with it. *)
(***************************************************************************)
THEOREM ReleasesArePlaced == Spec => []ReleaseWherePressed
<1>1. Init => PalmInv /\ DmcInv
  BY PalmStarts, DmcStarts
<1>2. PalmInv /\ DmcInv /\ [Next]_vars => PalmInv' /\ DmcInv'
  BY PalmKeeps, DmcKeeps
<1>3. PalmInv /\ DmcInv => ReleaseWherePressed
  <2> SUFFICES ASSUME PalmInv, DmcInv, conf.driver \in {"palmpre", "dmc"}, ~past.torn,
                      NEW i \in DOMAIN read.wrote, ~Touched(read.wrote[i])
               PROVE  LET before == IF i = 1 THEN read.before ELSE read.wrote[i - 1]
                      IN Touched(before) /\ read.wrote[i] = [before EXCEPT !.pressure = 0]
    BY DEF ReleaseWherePressed
  <2>1. CASE conf.driver = "dmc"
    BY <2>1 DEF DmcInv, Released
  <2>2. CASE conf.driver = "palmpre"
    <3>1. PressOrRelease(read.wrote, read.before)
      BY <2>2 DEF PalmInv
    <3>2. CASE read.wrote = <<>>
      BY <3>2
    <3>3. CASE \E s : Press(s) /\ read.wrote = <<s>>
      <4>1. PICK s : Press(s) /\ read.wrote = <<s>>
        BY <3>3
      <4>2. i = 1 /\ read.wrote[i] = s
        BY <4>1
      <4>. QED  BY <4>1, <4>2 DEF Press, Touched
    <3>4. CASE Press(read.before) /\ read.wrote = <<[read.before EXCEPT !.pressure = 0]>>
      <4>1. i = 1 /\ read.wrote[i] = [read.before EXCEPT !.pressure = 0]
        BY <3>4
      <4>. QED  BY <3>4, <4>1 DEF Press, Touched
    <3>. QED  BY <3>1, <3>2, <3>3, <3>4 DEF PressOrRelease
  <2>. QED  BY <2>1, <2>2
<1>. QED  BY <1>1, <1>2, <1>3, PTL DEF Spec

-----------------------------------------------------------------------------
(* Galax: what events tell of the pen                                      *)

-----------------------------------------------------------------------------
(* galax                                                                    *)
Codes == {"BTN_TOUCH", "ABS_X", "ABS_Y", "ABS_X+2", "ABS_Y+2", "ABS_PRESSURE", "SYN"}

EventValues == Codes \X Int

\* What a listener knows of the pen: whether it touches, the axes that were sent since it does,
\* and whether it was lifted since the last SYN.
Ideals == [touched : BOOLEAN, sunk : BOOLEAN, fresh : SUBSET {"x", "y"}, x : Int, y : Int]

\* what the event e makes of q
Tells(q, e, r) ==
  \/ /\ e = <<"BTN_TOUCH", 1>>
     /\ r.touched /\ ~r.sunk /\ r.fresh = q.fresh /\ r.x = q.x /\ r.y = q.y
  \/ e = <<"BTN_TOUCH", 0>> /\ ~r.touched /\ r.sunk /\ r.fresh = {}
  \/ /\ \E v \in Int : e = <<XCode(conf.version), v>> /\ r.x = v
     /\ (r.touched <=> q.touched) /\ (r.sunk <=> q.sunk)
     /\ r.fresh = q.fresh \cup {"x"} /\ r.y = q.y
  \/ /\ \E v \in Int : e = <<YCode(conf.version), v>> /\ r.y = v
     /\ (r.touched <=> q.touched) /\ (r.sunk <=> q.sunk)
     /\ r.fresh = q.fresh \cup {"y"} /\ r.x = q.x
  \/ /\ \E v \in {0, 1} : e = <<"ABS_PRESSURE", v>>
                        /\ IF v = 1 THEN q.touched /\ ~q.sunk ELSE q.sunk
     /\ r = q
  \/ /\ e = <<"SYN", 0>> /\ (q.touched \/ q.sunk)
     /\ (r.touched <=> q.touched) /\ ~r.sunk /\ r.fresh = q.fresh /\ r.x = q.x /\ r.y = q.y

\* the driver remembers what it needs
Knows(m, q) ==
  /\ q.sunk => m.current_p = 0 /\ ~q.touched
  /\ q.touched => m.current_p > 0
  /\ "x" \in q.fresh => m.current_x = q.x
  /\ "y" \in q.fresh => m.current_y = q.y

\* a sample tells of q
Shows(s, q) ==
  /\ s.pressure > 0 <=> q.touched
  /\ "x" \in q.fresh => s.x = q.x
  /\ "y" \in q.fresh => s.y = q.y

Hears(w, Q) ==
  Q \in [0 .. Len(w) -> Ideals] /\ \A k \in 1 .. Len(w) : Tells(Q[k - 1], w[k], Q[k])

\* The events bring the pen from where the program has got it to q.
GalaxStream(w, m, got, q) ==
  \E Q : Hears(w, Q) /\ Knows(m, Q[0]) /\ Shows(got, Q[0]) /\ ~Q[0].sunk /\ Q[Len(w)] = q

GalaxStates == [current_x : Int, current_y : Int, current_p : Int, sane_fd : {0},
                grab_events : {"no", "wanted", "active"}]

\* They are the same if their fields are.
LEMMA IdealsEqual ==
  ASSUME NEW q \in Ideals, NEW r \in Ideals, q.touched <=> r.touched, q.sunk <=> r.sunk,
         q.fresh = r.fresh, q.x = r.x, q.y = r.y
  PROVE  q = r
BY DEF Ideals

\* An event behind the others.
LEMMA EventBehind ==
  ASSUME NEW w \in Seq(EventValues), NEW m, NEW got, NEW q, GalaxStream(w, m, got, q),
         NEW e \in EventValues, NEW r \in Ideals, Tells(q, e, r)
  PROVE  Append(w, e) \in Seq(EventValues) /\ GalaxStream(Append(w, e), m, got, r)
<1> DEFINE L == Len(w)
           u == Append(w, e)
           M == L + 1
<1>1. PICK Q : Hears(w, Q) /\ Knows(m, Q[0]) /\ Shows(got, Q[0]) /\ ~Q[0].sunk /\ Q[L] = q
  BY DEF GalaxStream
<1>2. Q \in [0 .. L -> Ideals] /\ \A k \in 1 .. L : Tells(Q[k - 1], w[k], Q[k])
  BY <1>1 DEF Hears
<1>3. /\ u \in Seq(EventValues) /\ Len(u) = M /\ L \in Nat /\ u[M] = e
      /\ \A k \in 1 .. L : u[k] = w[k]
  BY AppendProperties
<1>. HIDE DEF u
<1> DEFINE R == [k \in 0 .. M |-> IF k = M THEN r ELSE Q[k]]
<1>4. /\ R \in [0 .. M -> Ideals] /\ R[0] = Q[0] /\ R[M] = r /\ R[L] = q
      /\ \A k \in 0 .. L : R[k] = Q[k]
  <2>1. \A k \in 0 .. M : k # M => k \in 0 .. L
    BY <1>3
  <2>2. \A k \in 0 .. L : k \in 0 .. M /\ k # M
    BY <1>3
  <2>3. 0 \in 0 .. L /\ L \in 0 .. L /\ M \in 0 .. M
    BY <1>3
  <2>4. R \in [0 .. M -> Ideals]
    BY <1>2, <2>1
  <2>5. \A k \in 0 .. L : R[k] = Q[k]
    BY <2>2
  <2>6. R[M] = r
    BY <2>3
  <2>. HIDE DEF R
  <2>. QED  BY <1>1, <2>3, <2>4, <2>5, <2>6
<1>. HIDE DEF R
<1>5. ASSUME NEW k \in 1 .. M
      PROVE  Tells(R[k - 1], u[k], R[k])
  <2>1. CASE k = M
    <3>1. k - 1 = L
      BY <1>3, <2>1
    <3>2. Tells(R[L], u[M], R[M])
      BY <1>3, <1>4
    <3>. QED  BY <2>1, <3>1, <3>2
  <2>2. CASE k # M
    <3>1. k \in 1 .. L /\ k \in 0 .. L /\ k - 1 \in 0 .. L
      BY <1>3, <2>2
    <3>2. R[k] = Q[k] /\ R[k - 1] = Q[k - 1] /\ u[k] = w[k]
      BY <1>3, <1>4, <3>1
    <3>3. Tells(Q[k - 1], w[k], Q[k])
      BY <1>2, <3>1
    <3>. QED  BY <3>2, <3>3
  <2>. QED  BY <2>1, <2>2
<1>. HIDE DEF M
<1>6. Hears(u, R)
  BY <1>3, <1>4, <1>5, Zenon DEF Hears
<1>7. GalaxStream(u, m, got, r)
  BY <1>1, <1>3, <1>4, <1>6, Zenon DEF GalaxStream
<1>. QED  BY <1>3, <1>7 DEF u

\* What is left behind the n-th event.
LEMMA EventsLeft ==
  ASSUME NEW w \in Seq(EventValues), NEW Q, Hears(w, Q), NEW n \in 0 .. Len(w),
         NEW m, NEW got, Knows(m, Q[n]), Shows(got, Q[n]), ~Q[n].sunk
  PROVE  LET u == SubSeq(w, n + 1, Len(w))
         IN u \in Seq(EventValues) /\ GalaxStream(u, m, got, Q[Len(w)])
<1> DEFINE L == Len(w)
           M == L - n
           u == SubSeq(w, n + 1, L)
           R == [k \in 0 .. M |-> Q[k + n]]
<1>1. L \in Nat /\ n \in Nat /\ M \in Nat /\ n <= L
  OBVIOUS
<1>2. u \in Seq(EventValues) /\ Len(u) = M /\ \A k \in 1 .. M : u[k] = w[k + n]
  <2>1. u \in Seq(EventValues) /\ Len(u) = M
    OBVIOUS
  <2>2. ASSUME NEW k \in 1 .. M
        PROVE  u[k] = w[k + n]
    <3>1. u[k] = w[(n + 1) + k - 1] /\ (n + 1) + k - 1 = k + n
      OBVIOUS
    <3>. QED  BY <3>1
  <2>. QED  BY <2>1, <2>2
<1>. HIDE DEF u
<1>3. Q \in [0 .. L -> Ideals] /\ \A k \in 1 .. L : Tells(Q[k - 1], w[k], Q[k])
  BY DEF Hears
<1>. HIDE DEF L
<1>4. R \in [0 .. M -> Ideals] /\ \A k \in 0 .. M : R[k] = Q[k + n]
  <2>1. \A k \in 0 .. M : k + n \in 0 .. L
    BY <1>1
  <2>. QED  BY <1>3, <2>1
<1>. HIDE DEF R
<1>5. R[0] = Q[n] /\ R[M] = Q[L]
  <2>1. 0 \in 0 .. M /\ M \in 0 .. M /\ 0 + n = n /\ M + n = L
    BY <1>1
  <2>. QED  BY <1>4, <2>1
<1>6. ASSUME NEW k \in 1 .. M
      PROVE  Tells(R[k - 1], u[k], R[k])
  <2>1. k \in 0 .. M /\ k - 1 \in 0 .. M /\ k + n \in 1 .. L /\ (k - 1) + n = (k + n) - 1
    BY <1>1
  <2>2. R[k] = Q[k + n] /\ R[k - 1] = Q[(k + n) - 1] /\ u[k] = w[k + n]
    BY <1>2, <1>4, <2>1
  <2>3. Tells(Q[(k + n) - 1], w[k + n], Q[k + n])
    BY <1>3, <2>1
  <2>. QED  BY <2>2, <2>3
<1>. HIDE DEF M
<1>7. Hears(u, R)
  BY <1>2, <1>4, <1>6, Zenon DEF Hears
<1>8. GalaxStream(u, m, got, Q[L])
  BY <1>2, <1>5, <1>7, Zenon DEF GalaxStream
<1>. QED  BY <1>2, <1>8 DEF u, L

\* One event, if it is sent, behind the others.
LEMMA EventSent ==
  ASSUME NEW w \in Seq(EventValues), NEW m, NEW got, NEW q, GalaxStream(w, m, got, q),
         NEW c \in BOOLEAN, NEW code \in Codes, NEW v \in Int,
         NEW r \in Ideals, IF c THEN Tells(q, <<code, v>>, r) ELSE r = q
  PROVE  /\ Event(c, code, v) \in Seq(EventValues) /\ w \o Event(c, code, v) \in Seq(EventValues)
         /\ GalaxStream(w \o Event(c, code, v), m, got, r)
<1> DEFINE e == <<code, v>>
           x == Event(c, code, v)
<1>1. e \in EventValues
  BY DEF EventValues
<1>. HIDE DEF e
<1>2. CASE c
  <2>1. x = <<e>>
    BY <1>2 DEF Event, e
  <2>2. Append(w, e) \in Seq(EventValues) /\ GalaxStream(Append(w, e), m, got, r)
    <3>1. Tells(q, e, r)
      BY <1>2 DEF e
    <3>. QED  BY <1>1, <3>1, EventBehind
  <2>3. <<e>> \in Seq(EventValues) /\ Append(w, e) = w \o <<e>>
    BY <1>1, AppendIsConcat
  <2>. QED  BY <2>1, <2>2, <2>3
<1>3. CASE ~c
  <2>1. x = <<>> /\ r = q
    BY <1>3 DEF Event
  <2>2. w \o <<>> = w /\ <<>> \in Seq(EventValues)
    OBVIOUS
  <2>. QED  BY <2>1, <2>2
<1>. QED  BY <1>2, <1>3

Joint(s, t) == s \o t

\* Sequences may be joined in any order.
LEMMA Joined2 == \A S : \A s, t \in Seq(S) : Joint(s, t) \in Seq(S)
BY DEF Joint

\* and grouped in any way.
LEMMA Regroup ==
  \A S : \A s, t, u \in Seq(S) : Joint(s, Joint(t, u)) = Joint(Joint(s, t), u)
BY ConcatAssociative DEF Joint

Regrouped(w, a, b, c, d, e) ==
  w \o ((((a \o b) \o c) \o d) \o e) = ((((w \o a) \o b) \o c) \o d) \o e

\* Five parts are put behind w one by one.
LEMMA PartByPart ==
  ASSUME NEW S, NEW w \in Seq(S), NEW a \in Seq(S), NEW b \in Seq(S), NEW c \in Seq(S),
         NEW d \in Seq(S), NEW e \in Seq(S)
  PROVE  Regrouped(w, a, b, c, d, e)
<1> DEFINE K == Seq(S)
<1>1. w \in K /\ a \in K /\ b \in K /\ c \in K /\ d \in K /\ e \in K
  OBVIOUS
<1>2. \A s, t \in K : Joint(s, t) \in K
  BY Joined2
<1>20. \A s, t, u \in K : Joint(s, Joint(t, u)) = Joint(Joint(s, t), u)
  BY Regroup
<1>. HIDE DEF K
<1> DEFINE ab == Joint(a, b)
           abc == Joint(ab, c)
           abcd == Joint(abc, d)
<1>3. ab \in K /\ Joint(w, ab) = Joint(Joint(w, a), b)
  BY <1>1, <1>2, <1>20
<1>. HIDE DEF ab
<1>4. abc \in K /\ Joint(w, abc) = Joint(Joint(w, ab), c)
  BY <1>1, <1>2, <1>20, <1>3
<1>. HIDE DEF abc
<1>5. abcd \in K /\ Joint(w, abcd) = Joint(Joint(w, abc), d)
  BY <1>1, <1>2, <1>20, <1>4
<1>. HIDE DEF abcd
<1>6. Joint(w, Joint(abcd, e)) = Joint(Joint(w, abcd), e)
  BY <1>1, <1>2, <1>20, <1>5
<1>7. Joint(w, Joint(abcd, e)) = Joint(Joint(Joint(Joint(Joint(w, a), b), c), d), e)
  BY <1>3, <1>4, <1>5, <1>6
<1>. QED  BY <1>7 DEF abcd, abc, ab, Joint, Regrouped

\* what the reports tell of the pen
Ideal(p, fresh) == [touched |-> Touched(p), sunk |-> FALSE, fresh |-> fresh, x |-> p.x, y |-> p.y]

Fresh(p) == IF Touched(p) THEN past.fresh \cup {a \in {"x", "y"} : p[a] # pen[a]} ELSE {}

\* A report is events behind the others.
LEMMA EventsReported ==
  ASSUME NEW w \in Seq(EventValues), NEW m, NEW got, pen \in Pens, past.fresh \in SUBSET {"x", "y"},
         GalaxStream(w, m, got, Ideal(pen, past.fresh)), conf.version \in Versions,
         conf.pressured \in BOOLEAN,
         NEW p \in Pens, p.pressure = 1 \/ (Touched(pen) /\ p = [pen EXCEPT !.pressure = 0])
  PROVE  w \o Events(p) \in Seq(EventValues) /\ GalaxStream(w \o Events(p), m, got, Ideal(p, Fresh(p)))
<1> DEFINE c1 == Touched(p) # Touched(pen)
           v1 == IF Touched(p) THEN 1 ELSE 0
           c2 == p.x # pen.x
           c3 == p.y # pen.y
           c4 == conf.pressured /\ p.pressure # pen.pressure
           a1 == Event(c1, "BTN_TOUCH", v1)
           a2 == Event(c2, XCode(conf.version), p.x)
           a3 == Event(c3, YCode(conf.version), p.y)
           a4 == Event(c4, "ABS_PRESSURE", p.pressure)
           a5 == Event(TRUE, "SYN", 0)
           f2 == IF c2 THEN {"x"} ELSE {}
           f3 == IF c3 THEN {"y"} ELSE {}
           f0 == IF Touched(p) THEN past.fresh ELSE {}
           q0 == Ideal(pen, past.fresh)
           q1 == [touched |-> Touched(p), sunk |-> ~Touched(p), fresh |-> f0,
                  x |-> pen.x, y |-> pen.y]
           q2 == [touched |-> Touched(p), sunk |-> ~Touched(p), fresh |-> f0 \cup f2,
                  x |-> p.x, y |-> pen.y]
           q3 == [touched |-> Touched(p), sunk |-> ~Touched(p), fresh |-> (f0 \cup f2) \cup f3,
                  x |-> p.x, y |-> p.y]
           q5 == [touched |-> Touched(p), sunk |-> FALSE, fresh |-> (f0 \cup f2) \cup f3,
                  x |-> p.x, y |-> p.y]
<1>1. /\ p.x \in Nat /\ p.y \in Nat /\ p.pressure \in {0, 1}
      /\ pen.x \in Nat /\ pen.y \in Nat /\ pen.pressure \in {0, 1}
  BY PensAre
<1>2. Touched(p) \in BOOLEAN /\ Touched(pen) \in BOOLEAN /\ (Touched(p) <=> p.pressure = 1)
      /\ (Touched(pen) <=> pen.pressure = 1)
  BY <1>1 DEF Touched
<1>3. ~Touched(p) => Touched(pen) /\ p.x = pen.x /\ p.y = pen.y /\ p.pressure = 0
  BY <1>1, <1>2, PensAre
<1>4. /\ c1 \in BOOLEAN /\ c2 \in BOOLEAN /\ c3 \in BOOLEAN /\ c4 \in BOOLEAN
      /\ v1 \in Int /\ XCode(conf.version) \in Codes /\ YCode(conf.version) \in Codes
      /\ "BTN_TOUCH" \in Codes /\ "ABS_PRESSURE" \in Codes /\ "SYN" \in Codes
  <2>1. c1 \in BOOLEAN /\ c2 \in BOOLEAN /\ c3 \in BOOLEAN /\ c4 \in BOOLEAN /\ v1 \in Int
    BY <1>1, <1>2
  <2>2. XCode(conf.version) \in Codes /\ YCode(conf.version) \in Codes
    <3>1. CASE conf.version = "0112"
      BY <3>1 DEF XCode, YCode, Codes
    <3>2. CASE conf.version # "0112"
      BY <3>2 DEF XCode, YCode, Codes
    <3>. QED  BY <3>1, <3>2
  <2>3. "BTN_TOUCH" \in Codes /\ "ABS_PRESSURE" \in Codes /\ "SYN" \in Codes
    BY DEF Codes
  <2>. QED  BY <2>1, <2>2, <2>3
<1>40. q0 = [touched |-> Touched(pen), sunk |-> FALSE, fresh |-> past.fresh, x |-> pen.x, y |-> pen.y]
  BY DEF Ideal
<1>5. f0 \in SUBSET {"x", "y"} /\ f2 \in SUBSET {"x", "y"} /\ f3 \in SUBSET {"x", "y"}
  OBVIOUS
<1>. HIDE DEF f0, f2, f3
<1>6. q0 \in Ideals /\ q1 \in Ideals /\ q2 \in Ideals /\ q3 \in Ideals /\ q5 \in Ideals
  <2>1. q0 \in Ideals
    BY <1>1, <1>2, <1>40 DEF Ideals
  <2>. HIDE DEF q0
  <2>2. q1 \in Ideals /\ q2 \in Ideals
    BY <1>1, <1>2, <1>5 DEF Ideals
  <2>3. q3 \in Ideals /\ q5 \in Ideals
    BY <1>1, <1>2, <1>5 DEF Ideals
  <2>. QED  BY <2>1, <2>2, <2>3
<1>60. /\ (q0.touched <=> Touched(pen)) /\ ~q0.sunk /\ q0.fresh = past.fresh
       /\ q0.x = pen.x /\ q0.y = pen.y
       /\ (q1.touched <=> Touched(p)) /\ (q1.sunk <=> ~Touched(p)) /\ q1.fresh = f0
       /\ q1.x = pen.x /\ q1.y = pen.y
       /\ (q2.touched <=> Touched(p)) /\ (q2.sunk <=> ~Touched(p)) /\ q2.fresh = f0 \cup f2
       /\ q2.x = p.x /\ q2.y = pen.y
       /\ (q3.touched <=> Touched(p)) /\ (q3.sunk <=> ~Touched(p))
       /\ q3.fresh = (f0 \cup f2) \cup f3 /\ q3.x = p.x /\ q3.y = p.y
       /\ (q5.touched <=> Touched(p)) /\ ~q5.sunk /\ q5.fresh = (f0 \cup f2) \cup f3
       /\ q5.x = p.x /\ q5.y = p.y
  <2>1. /\ (q0.touched <=> Touched(pen)) /\ ~q0.sunk /\ q0.fresh = past.fresh
        /\ q0.x = pen.x /\ q0.y = pen.y
    BY <1>40
  <2>2. /\ (q1.touched <=> Touched(p)) /\ (q1.sunk <=> ~Touched(p)) /\ q1.fresh = f0
        /\ q1.x = pen.x /\ q1.y = pen.y
    OBVIOUS
  <2>3. /\ (q2.touched <=> Touched(p)) /\ (q2.sunk <=> ~Touched(p)) /\ q2.fresh = f0 \cup f2
        /\ q2.x = p.x /\ q2.y = pen.y
    OBVIOUS
  <2>4. /\ (q3.touched <=> Touched(p)) /\ (q3.sunk <=> ~Touched(p))
        /\ q3.fresh = (f0 \cup f2) \cup f3 /\ q3.x = p.x /\ q3.y = p.y
    OBVIOUS
  <2>5. /\ (q5.touched <=> Touched(p)) /\ ~q5.sunk /\ q5.fresh = (f0 \cup f2) \cup f3
        /\ q5.x = p.x /\ q5.y = p.y
    OBVIOUS
  <2>. HIDE DEF q0, q1, q2, q3, q5
  <2>. QED  BY <2>1, <2>2, <2>3, <2>4, <2>5
<1>120. q5 = Ideal(p, (f0 \cup f2) \cup f3)
  BY DEF Ideal
<1>. HIDE DEF q0, q1, q2, q3, q5
<1>7. IF c1 THEN Tells(q0, <<"BTN_TOUCH", v1>>, q1) ELSE q1 = q0
  <2>1. CASE Touched(p) /\ ~Touched(pen)
    <3>1. c1 /\ v1 = 1 /\ f0 = past.fresh
      BY <1>2, <2>1 DEF f0
    <3>2. Tells(q0, <<"BTN_TOUCH", 1>>, q1)
      BY <1>60, <2>1, <3>1 DEF Tells
    <3>. QED  BY <3>1, <3>2
  <2>2. CASE Touched(p) /\ Touched(pen)
    <3>1. f0 = past.fresh /\ ~c1
      BY <1>2, <2>2 DEF f0
    <3>2. q1 = q0
      BY <1>6, <1>60, <2>2, <3>1, IdealsEqual
    <3>. QED  BY <3>1, <3>2
  <2>3. CASE ~Touched(p)
    <3>1. c1 /\ v1 = 0 /\ f0 = {}
      BY <1>2, <1>3, <2>3 DEF f0
    <3>2. Tells(q0, <<"BTN_TOUCH", 0>>, q1)
      BY <1>60, <2>3, <3>1 DEF Tells
    <3>. QED  BY <3>1, <3>2
  <2>. QED  BY <2>1, <2>2, <2>3
<1>8. IF c2 THEN Tells(q1, <<XCode(conf.version), p.x>>, q2) ELSE q2 = q1
  <2>1. CASE c2
    <3>1. f2 = {"x"}
      BY <2>1 DEF f2
    <3>2. \E v \in Int : <<XCode(conf.version), p.x>> = <<XCode(conf.version), v>> /\ q2.x = v
      BY <1>1, <1>60
    <3>3. /\ (q2.touched <=> q1.touched) /\ (q2.sunk <=> q1.sunk)
          /\ q2.fresh = q1.fresh \cup {"x"} /\ q2.y = q1.y
      BY <1>60, <3>1
    <3>4. Tells(q1, <<XCode(conf.version), p.x>>, q2)
      BY <3>2, <3>3, Zenon DEF Tells
    <3>. QED  BY <2>1, <3>4
  <2>2. CASE ~c2
    <3>1. f2 = {} /\ p.x = pen.x
      BY <2>2 DEF f2
    <3>2. q2 = q1
      BY <1>6, <1>60, <3>1, IdealsEqual
    <3>. QED  BY <2>2, <3>2
  <2>. QED  BY <2>1, <2>2
<1>9. IF c3 THEN Tells(q2, <<YCode(conf.version), p.y>>, q3) ELSE q3 = q2
  <2>1. CASE c3
    <3>1. f3 = {"y"}
      BY <2>1 DEF f3
    <3>2. \E v \in Int : <<YCode(conf.version), p.y>> = <<YCode(conf.version), v>> /\ q3.y = v
      BY <1>1, <1>60
    <3>3. /\ (q3.touched <=> q2.touched) /\ (q3.sunk <=> q2.sunk)
          /\ q3.fresh = q2.fresh \cup {"y"} /\ q3.x = q2.x
      BY <1>60, <3>1
    <3>4. Tells(q2, <<YCode(conf.version), p.y>>, q3)
      BY <3>2, <3>3, Zenon DEF Tells
    <3>. QED  BY <2>1, <3>4
  <2>2. CASE ~c3
    <3>1. f3 = {} /\ p.y = pen.y
      BY <2>2 DEF f3
    <3>3. q3.fresh = q2.fresh
      <4>1. (f0 \cup f2) \cup f3 = f0 \cup f2
        BY <3>1
      <4>. QED  BY <1>60, <4>1, Zenon
    <3>2. q3 = q2
      <4>1. /\ (q3.touched <=> q2.touched) /\ (q3.sunk <=> q2.sunk) /\ q3.x = q2.x
            /\ q3.y = q2.y /\ q3 \in Ideals /\ q2 \in Ideals
        BY <1>6, <1>60, <3>1
      <4>. QED  BY ONLY <3>3, <4>1, IdealsEqual
    <3>. QED  BY <2>2, <3>2
  <2>. QED  BY <2>1, <2>2
<1>10. IF c4 THEN Tells(q3, <<"ABS_PRESSURE", p.pressure>>, q3) ELSE q3 = q3
  <2>1. IF p.pressure = 1 THEN q3.touched /\ ~q3.sunk ELSE q3.sunk
    BY <1>1, <1>2, <1>60
  <2>2. Tells(q3, <<"ABS_PRESSURE", p.pressure>>, q3)
    BY <1>1, <2>1, Zenon DEF Tells
  <2>. QED  BY <2>2
<1>11. IF TRUE THEN Tells(q3, <<"SYN", 0>>, q5) ELSE q5 = q3
  BY <1>60 DEF Tells
<1>12. q5 = Ideal(p, Fresh(p))
  <2>1. (f0 \cup f2) \cup f3 = Fresh(p)
    <3>1. CASE Touched(p)
      BY <3>1 DEF f0, f2, f3, Fresh
    <3>2. CASE ~Touched(p)
      <4>1. f2 = {} /\ f3 = {} /\ f0 = {}
        BY <1>3, <3>2 DEF f0, f2, f3
      <4>. QED  BY <3>2, <4>1 DEF Fresh
    <3>. QED  BY <3>1, <3>2
  <2>. QED  BY <1>120, <2>1
<1> DEFINE w1 == w \o a1
           w2 == w1 \o a2
           w3 == w2 \o a3
           w4 == w3 \o a4
           w5 == w4 \o a5
<1>13. GalaxStream(w, m, got, q0)
  BY DEF q0
<1>. HIDE DEF c1, c2, c3, c4, v1
<1>14. a1 \in Seq(EventValues) /\ w1 \in Seq(EventValues) /\ GalaxStream(w1, m, got, q1)
  <2>1. w \in Seq(EventValues)
    OBVIOUS
  <2>. QED  BY ONLY <1>4, <1>6, <1>7, <1>13, <2>1, EventSent
<1>. HIDE DEF w1
<1>15. a2 \in Seq(EventValues) /\ w2 \in Seq(EventValues) /\ GalaxStream(w2, m, got, q2)
  <2>1. p.x \in Int
    BY <1>1
  <2>. QED  BY ONLY <1>4, <1>6, <1>8, <1>14, <2>1, EventSent
<1>. HIDE DEF w2
<1>16. a3 \in Seq(EventValues) /\ w3 \in Seq(EventValues) /\ GalaxStream(w3, m, got, q3)
  <2>1. p.y \in Int
    BY <1>1
  <2>. QED  BY ONLY <1>4, <1>6, <1>9, <1>15, <2>1, EventSent
<1>. HIDE DEF w3
<1>17. a4 \in Seq(EventValues) /\ w4 \in Seq(EventValues) /\ GalaxStream(w4, m, got, q3)
  <2>1. p.pressure \in Int
    BY <1>1
  <2>. QED  BY ONLY <1>4, <1>6, <1>10, <1>16, <2>1, EventSent
<1>. HIDE DEF w4
<1>18. a5 \in Seq(EventValues) /\ w5 \in Seq(EventValues) /\ GalaxStream(w5, m, got, q5)
  <2>1. 0 \in Int /\ TRUE \in BOOLEAN
    OBVIOUS
  <2>. QED  BY ONLY <1>4, <1>6, <1>11, <1>17, <2>1, EventSent
<1>. HIDE DEF w5
<1>19. a5 = <<<<"SYN", 0>>>>
  BY DEF Event
<1>20. Events(p) = (((a1 \o a2) \o a3) \o a4) \o a5
  BY <1>19, Zenon DEF Events, c1, c2, c3, c4, v1
<1>. HIDE DEF a1, a2, a3, a4, a5
<1>21. w \o Events(p) = w5
  <2>1. /\ a1 \in Seq(EventValues) /\ a2 \in Seq(EventValues) /\ a3 \in Seq(EventValues)
        /\ a4 \in Seq(EventValues) /\ a5 \in Seq(EventValues) /\ w \in Seq(EventValues)
    BY <1>14, <1>15, <1>16, <1>17, <1>18
  <2>2. Regrouped(w, a1, a2, a3, a4, a5)
    BY ONLY <2>1, PartByPart
  <2>. QED  BY <1>20, <2>2, Zenon DEF Regrouped, w1, w2, w3, w4, w5
<1>. QED  BY <1>12, <1>18, <1>21

GotValues == [x : Int, y : Int, pressure : Int]
ReadStates == [mod : GalaxStates, wrote : Seq(GotValues), used : Nat]

SampleOf(m) == [x |-> m.current_x, y |-> m.current_y, pressure |-> m.current_p]

\* what an event other than SYN makes of the driver
Heard(m, e) ==
  IF e[1] = "BTN_TOUCH" THEN GalaxButton(m, e[2]) ELSE GalaxAxis(m, conf.version, e[1], e[2])

\* what the k-th event makes of a read
Listen(s, e, k, nr) ==
  IF Len(s.wrote) = nr THEN s
  ELSE IF e[1] = "SYN"
    THEN [s EXCEPT !.wrote = Append(s.wrote, SampleOf(s.mod)), !.used = k]
  ELSE [s EXCEPT !.used = k, !.mod = Heard(s.mod, e)]

Listens(f, w, nr, s) ==
  f = [k \in 0 .. Len(w) |-> IF k = 0 THEN s ELSE Listen(f[k - 1], w[k], k, nr)]

\* The driver still knows what it needs.
LEMMA HeardKnows ==
  ASSUME NEW m \in GalaxStates, NEW q \in Ideals, NEW r \in Ideals, Knows(m, q),
         NEW e \in EventValues, Tells(q, e, r), e[1] # "SYN", conf.version \in Versions
  PROVE  Knows(Heard(m, e), r)
<1> DEFINE n == Heard(m, e)
<1>0. /\ XCode(conf.version) # YCode(conf.version)
      /\ XCode(conf.version) \notin {"BTN_TOUCH", "ABS_PRESSURE", "SYN"}
      /\ YCode(conf.version) \notin {"BTN_TOUCH", "ABS_PRESSURE", "SYN"}
  <2>1. CASE conf.version = "0112"
    BY <2>1 DEF XCode, YCode
  <2>2. CASE conf.version # "0112"
    BY <2>2 DEF XCode, YCode
  <2>. QED  BY <2>1, <2>2
<1>1. CASE /\ e = <<"BTN_TOUCH", 1>>
           /\ r.touched /\ ~r.sunk /\ r.fresh = q.fresh /\ r.x = q.x /\ r.y = q.y
  <2>1. n = [m EXCEPT !.current_p = 255]
    BY <1>1 DEF Heard, GalaxButton
  <2>2. n.current_p = 255 /\ n.current_x = m.current_x /\ n.current_y = m.current_y
    BY <2>1 DEF GalaxStates
  <2>. HIDE DEF n
  <2>. QED  BY <1>1, <2>2 DEF Knows, n
<1>2. CASE e = <<"BTN_TOUCH", 0>> /\ ~r.touched /\ r.sunk /\ r.fresh = {}
  <2>1. n = [m EXCEPT !.current_x = 0, !.current_y = 0, !.current_p = 0]
    BY <1>2 DEF Heard, GalaxButton
  <2>2. n.current_p = 0
    BY <2>1 DEF GalaxStates
  <2>. HIDE DEF n
  <2>. QED  BY <1>2, <2>2 DEF Knows, n
<1>3. CASE /\ \E v \in Int : e = <<XCode(conf.version), v>> /\ r.x = v
           /\ (r.touched <=> q.touched) /\ (r.sunk <=> q.sunk)
           /\ r.fresh = q.fresh \cup {"x"} /\ r.y = q.y
  <2>1. PICK v \in Int : e = <<XCode(conf.version), v>> /\ r.x = v
    BY <1>3
  <2>2. n = [m EXCEPT !.current_x = v]
    BY <1>0, <2>1 DEF Heard, GalaxAxis
  <2>3. n.current_p = m.current_p /\ n.current_x = r.x /\ n.current_y = m.current_y
    BY <2>1, <2>2 DEF GalaxStates
  <2>4. "y" \in r.fresh => "y" \in q.fresh
    BY <1>3
  <2>. HIDE DEF n
  <2>. QED  BY <1>3, <2>3, <2>4 DEF Knows, n
<1>4. CASE /\ \E v \in Int : e = <<YCode(conf.version), v>> /\ r.y = v
           /\ (r.touched <=> q.touched) /\ (r.sunk <=> q.sunk)
           /\ r.fresh = q.fresh \cup {"y"} /\ r.x = q.x
  <2>1. PICK v \in Int : e = <<YCode(conf.version), v>> /\ r.y = v
    BY <1>4
  <2>2. n = [m EXCEPT !.current_y = v]
    BY <1>0, <2>1 DEF Heard, GalaxAxis
  <2>3. n.current_p = m.current_p /\ n.current_y = r.y /\ n.current_x = m.current_x
    BY <2>1, <2>2 DEF GalaxStates
  <2>4. "x" \in r.fresh => "x" \in q.fresh
    BY <1>4
  <2>. HIDE DEF n
  <2>. QED  BY <1>4, <2>3, <2>4 DEF Knows, n
<1>5. CASE /\ \E v \in {0, 1} : e = <<"ABS_PRESSURE", v>>
                                /\ IF v = 1 THEN q.touched /\ ~q.sunk ELSE q.sunk
           /\ r = q
  <2>1. PICK v \in {0, 1} : e = <<"ABS_PRESSURE", v>>
                            /\ IF v = 1 THEN q.touched /\ ~q.sunk ELSE q.sunk
    BY <1>5
  <2>2. n = [m EXCEPT !.current_p = v]
    BY <1>0, <2>1 DEF Heard, GalaxAxis
  <2>3. n.current_p = v /\ n.current_x = m.current_x /\ n.current_y = m.current_y
    BY <2>2 DEF GalaxStates
  <2>. HIDE DEF n
  <2>. QED  BY <1>5, <2>1, <2>3 DEF Knows, n
<1>6. ~(e = <<"SYN", 0>>)
  OBVIOUS
<1>. QED  BY <1>1, <1>2, <1>3, <1>4, <1>5, <1>6, Zenon DEF Tells

\* At a SYN the driver gives a sample that tells of the pen.
LEMMA SynShows ==
  ASSUME NEW m \in GalaxStates, NEW q \in Ideals, NEW r \in Ideals, Knows(m, q),
         NEW e \in EventValues, Tells(q, e, r), e[1] = "SYN", conf.version \in Versions
  PROVE  e = <<"SYN", 0>> /\ Shows(SampleOf(m), r) /\ Knows(m, r) /\ ~r.sunk
<1>0. XCode(conf.version) # "SYN" /\ YCode(conf.version) # "SYN"
  <2>1. CASE conf.version = "0112"
    BY <2>1 DEF XCode, YCode
  <2>2. CASE conf.version # "0112"
    BY <2>2 DEF XCode, YCode
  <2>. QED  BY <2>1, <2>2
<1>1. /\ e = <<"SYN", 0>> /\ (q.touched \/ q.sunk)
      /\ (r.touched <=> q.touched) /\ ~r.sunk /\ r.fresh = q.fresh /\ r.x = q.x /\ r.y = q.y
  BY <1>0 DEF Tells
<1>2. Knows(m, r)
  BY <1>1 DEF Knows
<1>3. /\ SampleOf(m).x = m.current_x /\ SampleOf(m).y = m.current_y
      /\ SampleOf(m).pressure = m.current_p
  BY DEF SampleOf
<1>4. m.current_p > 0 <=> r.touched
  BY <1>1 DEF Knows
<1>5. Shows(SampleOf(m), r)
  BY <1>2, <1>3, <1>4 DEF Knows, Shows
<1>. QED  BY <1>1, <1>2, <1>5

\* The driver keeps its form.
LEMMA HeardIsState ==
  ASSUME NEW m \in GalaxStates, NEW e \in EventValues
  PROVE  Heard(m, e) \in GalaxStates
<1>1. e[2] \in Int
  BY DEF EventValues
<1>2. GalaxButton(m, e[2]) \in GalaxStates
  <2>1. CASE e[2] = 0
    <3> DEFINE a == [m EXCEPT !.current_x = 0]
               b == [a EXCEPT !.current_y = 0]
               c == [b EXCEPT !.current_p = 0]
    <3>1. a \in GalaxStates
      BY DEF GalaxStates
    <3>. HIDE DEF a
    <3>2. b \in GalaxStates
      BY <3>1 DEF GalaxStates
    <3>. HIDE DEF b
    <3>3. c \in GalaxStates
      BY <3>2 DEF GalaxStates
    <3>. QED  BY <2>1, <3>3 DEF GalaxButton, a, b
  <2>2. CASE e[2] # 0
    BY <2>2 DEF GalaxButton, GalaxStates
  <2>. QED  BY <2>1, <2>2
<1>3. GalaxAxis(m, conf.version, e[1], e[2]) \in GalaxStates
  <2> DEFINE c == e[1]
             v == e[2]
  <2>0. v \in Int
    BY <1>1
  <2>. HIDE DEF c, v
  <2>1. /\ [m EXCEPT !.current_x = v] \in GalaxStates /\ [m EXCEPT !.current_y = v] \in GalaxStates
        /\ [m EXCEPT !.current_p = v] \in GalaxStates
    <3>1. [m EXCEPT !.current_x = v] \in GalaxStates
      BY <2>0 DEF GalaxStates
    <3>2. [m EXCEPT !.current_y = v] \in GalaxStates
      BY <2>0 DEF GalaxStates
    <3>3. [m EXCEPT !.current_p = v] \in GalaxStates
      BY <2>0 DEF GalaxStates
    <3>. QED  BY <3>1, <3>2, <3>3
  <2>2. CASE c = XCode(conf.version)
    <3>1. GalaxAxis(m, conf.version, c, v) = [m EXCEPT !.current_x = v]
          \/ GalaxAxis(m, conf.version, c, v) = [m EXCEPT !.current_y = v]
          \/ GalaxAxis(m, conf.version, c, v) = [m EXCEPT !.current_p = v]
      BY <2>2 DEF GalaxAxis
    <3>. QED  BY <2>1, <3>1 DEF c, v
  <2>3. CASE c # XCode(conf.version)
    <3>1. GalaxAxis(m, conf.version, c, v) = m
          \/ GalaxAxis(m, conf.version, c, v) = [m EXCEPT !.current_y = v]
          \/ GalaxAxis(m, conf.version, c, v) = [m EXCEPT !.current_p = v]
      BY <2>3 DEF GalaxAxis
    <3>. QED  BY <2>1, <3>1 DEF c, v
  <2>. QED  BY <2>2, <2>3
<1>. QED  BY <1>2, <1>3 DEF Heard

\* A read that has its samples stays as it is; else a SYN gives one more.
Listened(t, s, e, k, nr) ==
  /\ t \in ReadStates
  /\ Len(s.wrote) = nr => t = s
  /\ Len(s.wrote) # nr => t.used = k
  /\ Len(s.wrote) # nr /\ e[1] = "SYN" =>
       /\ t.mod = s.mod /\ Len(t.wrote) = Len(s.wrote) + 1
       /\ t.wrote[Len(s.wrote) + 1] = SampleOf(s.mod)
  /\ Len(s.wrote) # nr /\ e[1] # "SYN" =>
       t.mod = Heard(s.mod, e) /\ t.wrote = s.wrote

\* What listening to one more event makes of a read.
LEMMA ListenIs ==
  ASSUME NEW s \in ReadStates, NEW e \in EventValues, NEW k \in Nat, NEW nr
  PROVE  Listened(Listen(s, e, k, nr), s, e, k, nr)
<1> DEFINE t == Listen(s, e, k, nr)
<1>1. /\ s = [mod |-> s.mod, wrote |-> s.wrote, used |-> s.used] /\ s.mod \in GalaxStates
      /\ s.wrote \in Seq(GotValues) /\ s.used \in Nat
  BY DEF ReadStates
<1>2. CASE Len(s.wrote) = nr
  BY <1>2 DEF Listen, Listened
<1>3. CASE Len(s.wrote) # nr /\ e[1] = "SYN"
  <2> DEFINE a == Append(s.wrote, SampleOf(s.mod))
  <2>1. t = [s EXCEPT !.wrote = a, !.used = k]
    BY <1>3 DEF Listen
  <2>2. SampleOf(s.mod) \in GotValues
    BY <1>1 DEF SampleOf, GotValues, GalaxStates
  <2>3. a \in Seq(GotValues) /\ Len(a) = Len(s.wrote) + 1 /\ a[Len(s.wrote) + 1] = SampleOf(s.mod)
    BY <1>1, <2>2, AppendProperties
  <2>. HIDE DEF t, a
  <2>4. t \in ReadStates /\ t.mod = s.mod /\ t.wrote = a /\ t.used = k
    BY <2>1, <2>3 DEF ReadStates
  <2>. QED  BY <1>3, <2>3, <2>4 DEF Listened, t
<1>4. CASE Len(s.wrote) # nr /\ e[1] # "SYN"
  <2> DEFINE n == Heard(s.mod, e)
  <2>1. t = [s EXCEPT !.used = k, !.mod = n]
    BY <1>4 DEF Listen
  <2>2. n \in GalaxStates
    BY <1>1, HeardIsState
  <2>. HIDE DEF t, n
  <2>3. t \in ReadStates /\ t.mod = n /\ t.wrote = s.wrote /\ t.used = k
    BY <2>1, <2>2 DEF ReadStates
  <2>. QED  BY <1>4, <2>3 DEF Listened, t, n
<1>. QED  BY <1>2, <1>3, <1>4

\* The loop is well defined.
LEMMA ListensAre ==
  ASSUME NEW w \in Seq(EventValues), NEW nr, NEW s \in ReadStates
  PROVE  Listens(CHOOSE f : Listens(f, w, nr, s), w, nr, s)
<1> DEFINE D == ReadStates
           n == Len(w)
           G == [k \in 1 .. n |-> [t \in D |-> Listen(t, w[k], k, nr)]]
<1>1. n \in Nat /\ \A k \in 1 .. n : w[k] \in EventValues /\ k \in Nat
  OBVIOUS
<1>2. ASSUME NEW t \in D, NEW k \in 1 .. n
      PROVE  Listen(t, w[k], k, nr) \in D
  BY <1>1, ListenIs DEF Listened
<1>. HIDE DEF D
<1>3. G \in [1 .. n -> [D -> D]]
  BY <1>2
<1>4. PICK g : Runs(g, n, D, s, G)
  <2>1. s \in D
    BY DEF D
  <2>. HIDE DEF G, n
  <2>. QED  BY <1>1, <1>3, <2>1, StepsExist
<1>5. \A k \in 0 .. n : k # 0 => k - 1 \in 0 .. n /\ k \in 1 .. n
  BY <1>1
<1>6. Listens(g, w, nr, s)
  <2>. USE DEF Runs
  <2>1. \A k \in 1 .. n : G[k][g[k - 1]] = Listen(g[k - 1], w[k], k, nr)
    BY <1>4, <1>5
  <2>2. \A k \in 0 .. n : g[k] = IF k = 0 THEN s ELSE Listen(g[k - 1], w[k], k, nr)
    BY <1>4, <1>5, <2>1
  <2>3. g = [k \in 0 .. n |-> g[k]]
    BY <1>4
  <2>. QED  BY <2>2, <2>3 DEF Listens
<1>. QED  BY <1>6, Zenon

SynsTo(w, k) == {i \in 1 .. k : w[i] = <<"SYN", 0>>}

\* One more event is a SYN or not.
LEMMA SynsCount ==
  ASSUME NEW w, NEW k \in Nat
  PROVE  /\ IsFiniteSet(SynsTo(w, k)) /\ Cardinality(SynsTo(w, k)) \in Nat
         /\ Cardinality(SynsTo(w, 0)) = 0
         /\ Cardinality(SynsTo(w, k + 1)) =
              IF w[k + 1] = <<"SYN", 0>> THEN Cardinality(SynsTo(w, k)) + 1
              ELSE Cardinality(SynsTo(w, k))
<1> DEFINE S == SynsTo(w, k)
<1>1. IsFiniteSet(S)
  <2>1. IsFiniteSet(1 .. k) /\ S \in SUBSET (1 .. k)
    BY FS_Interval DEF SynsTo
  <2>. QED  BY <2>1, FS_Subset
<1>2. Cardinality(S) \in Nat
  BY <1>1, FS_CardinalityType
<1>3. SynsTo(w, 0) = {}
  BY DEF SynsTo
<1>4. CASE w[k + 1] = <<"SYN", 0>>
  <2>1. SynsTo(w, k + 1) = S \cup {k + 1} /\ k + 1 \notin S
    BY <1>4 DEF SynsTo
  <2>. HIDE DEF S
  <2>2. Cardinality(S \cup {k + 1}) = Cardinality(S) + 1
    BY <1>1, <2>1, FS_AddElement
  <2>. QED  BY <1>1, <1>2, <1>3, <1>4, <2>1, <2>2, FS_EmptySet DEF S
<1>5. CASE w[k + 1] # <<"SYN", 0>>
  <2>1. SynsTo(w, k + 1) = S
    BY <1>5 DEF SynsTo
  <2>. HIDE DEF S
  <2>. QED  BY <1>1, <1>2, <1>3, <1>5, <2>1, FS_EmptySet DEF S
<1>. QED  BY <1>4, <1>5

\* what holds after k events of a read that is to give nr samples
Listening(s, w, Q, k, nr) ==
  /\ s \in ReadStates /\ s.used \in 0 .. k /\ Len(s.wrote) <= nr
  /\ Len(s.wrote) < nr =>
       /\ s.used = k /\ Knows(s.mod, Q[k]) /\ Cardinality(SynsTo(w, k)) = Len(s.wrote)
  /\ Len(s.wrote) = nr =>
       Knows(s.mod, Q[s.used]) /\ ~Q[s.used].sunk /\ Shows(s.wrote[nr], Q[s.used])

\* An event of a galax device leaves a read knowing what the event tells of the pen.
LEMMA ListeningGoesOn ==
  ASSUME NEW w \in Seq(EventValues), NEW Q, Hears(w, Q), NEW nr \in 1 .. 2,
         NEW k \in 0 .. Len(w) - 1, NEW s, Listening(s, w, Q, k, nr), conf.version \in Versions
  PROVE  Listening(Listen(s, w[k + 1], k + 1, nr), w, Q, k + 1, nr)
<1> DEFINE e == w[k + 1]
           t == Listen(s, e, k + 1, nr)
           q == Q[k]
           r == Q[k + 1]
           l == Len(s.wrote)
<1>1. /\ k \in Nat /\ k + 1 \in Nat /\ k + 1 \in 1 .. Len(w) /\ (k + 1) - 1 = k
      /\ k \in 0 .. Len(w) /\ k + 1 \in 0 .. Len(w) /\ k \in 0 .. k + 1 /\ k + 1 \in 0 .. k + 1
      /\ 0 .. k \subseteq 0 .. k + 1
  OBVIOUS
<1>2. /\ s \in ReadStates /\ s.used \in 0 .. k /\ l <= nr
      /\ l < nr => s.used = k /\ Knows(s.mod, q) /\ Cardinality(SynsTo(w, k)) = l
      /\ l = nr => Knows(s.mod, Q[s.used]) /\ ~Q[s.used].sunk /\ Shows(s.wrote[nr], Q[s.used])
  BY DEF Listening
<1>3. s.mod \in GalaxStates /\ s.wrote \in Seq(GotValues) /\ l \in Nat
  BY <1>2 DEF ReadStates
<1>4. e \in EventValues /\ q \in Ideals /\ r \in Ideals /\ Tells(q, e, r)
  <2>1. Q \in [0 .. Len(w) -> Ideals] /\ \A i \in 1 .. Len(w) : Tells(Q[i - 1], w[i], Q[i])
    BY DEF Hears
  <2>2. Tells(Q[(k + 1) - 1], w[k + 1], Q[k + 1])
    BY <1>1, <2>1, Zenon
  <2>3. w[k + 1] \in EventValues
    BY <1>1
  <2>. QED  BY <1>1, <2>1, <2>2, <2>3
<1>. HIDE DEF e, q, r
<1>5. /\ t \in ReadStates
      /\ l = nr => t = s
      /\ l # nr => t.used = k + 1
      /\ l # nr /\ e[1] = "SYN" =>
           t.mod = s.mod /\ Len(t.wrote) = l + 1 /\ t.wrote[l + 1] = SampleOf(s.mod)
      /\ l # nr /\ e[1] # "SYN" => t.mod = Heard(s.mod, e) /\ t.wrote = s.wrote
  <2>1. Listened(t, s, e, k + 1, nr)
    BY <1>1, <1>2, <1>4, ListenIs
  <2>. HIDE DEF t
  <2>. QED  BY <2>1 DEF Listened
<1>. HIDE DEF t
<1>6. /\ Cardinality(SynsTo(w, k + 1)) =
           IF e = <<"SYN", 0>> THEN Cardinality(SynsTo(w, k)) + 1 ELSE Cardinality(SynsTo(w, k))
  BY <1>1, SynsCount DEF e
<1>. HIDE DEF l
<1>7. CASE l = nr
  <2>1. t = s /\ Len(t.wrote) = nr
    BY <1>5, <1>7 DEF l
  <2>2. s.used \in 0 .. k + 1
    BY <1>1, <1>2
  <2>3. ~(nr < nr) /\ nr <= nr
    OBVIOUS
  <2>. QED  BY <1>2, <1>7, <2>1, <2>2, <2>3 DEF Listening, t, e
<1>8. CASE l # nr /\ e[1] = "SYN"
  <2>1. e = <<"SYN", 0>> /\ Shows(SampleOf(s.mod), r) /\ Knows(s.mod, r) /\ ~r.sunk
    <3>1. l < nr
      BY <1>2, <1>3, <1>8
    <3>. QED  BY <1>2, <1>3, <1>4, <1>8, <3>1, SynShows
  <2>2. /\ t.used = k + 1 /\ t.mod = s.mod /\ Len(t.wrote) = l + 1
        /\ t.wrote[l + 1] = SampleOf(s.mod)
    BY <1>5, <1>8
  <2>3. l + 1 <= nr /\ l < nr /\ (l + 1 = nr => t.wrote[nr] = SampleOf(s.mod))
    BY <1>2, <1>3, <1>8, <2>2
  <2>4. Cardinality(SynsTo(w, k + 1)) = l + 1
    BY <1>2, <1>6, <2>1, <2>3
  <2>. QED  BY <1>1, <1>5, <2>1, <2>2, <2>3, <2>4 DEF Listening, t, e, r
<1>9. CASE l # nr /\ e[1] # "SYN"
  <2>1. l < nr /\ ~(e = <<"SYN", 0>>)
    BY <1>2, <1>3, <1>9
  <2>2. Knows(Heard(s.mod, e), r)
    BY <1>2, <1>3, <1>4, <1>9, <2>1, HeardKnows
  <2>3. t.used = k + 1 /\ t.mod = Heard(s.mod, e) /\ t.wrote = s.wrote
    BY <1>5, <1>9
  <2>4. Cardinality(SynsTo(w, k + 1)) = l
    BY <1>2, <1>6, <2>1
  <2>5. Len(t.wrote) = l /\ ~(l = nr) /\ l <= nr
    BY <1>2, <1>9, <2>3 DEF l
  <2>. QED  BY <1>1, <1>5, <2>1, <2>2, <2>3, <2>4, <2>5 DEF Listening, t, e, r
<1>. QED  BY <1>7, <1>8, <1>9

\* A read takes the events up to its last SYN, and the sample for it tells of the pen.
LEMMA GalaxReads ==
  ASSUME NEW w \in Seq(EventValues), NEW m \in GalaxStates, NEW got, NEW p,
         GalaxStream(w, m, got, p), NEW nr \in 1 .. 2, nr <= Cardinality(Syns(w)),
         conf.version \in Versions
  PROVE  LET v == ts_galax_read(m, conf, w, nr)
         IN /\ v.mod \in GalaxStates /\ v.told = nr /\ nr \in DOMAIN v.wrote
            /\ v.events \in Seq(EventValues) /\ GalaxStream(v.events, v.mod, v.wrote[nr], p)
<1> DEFINE L == Len(w)
           m2 == ts_galax_check_fd(m, conf)
           s0 == [mod |-> m2, wrote |-> <<>>, used |-> 0]
           f == CHOOSE g : Listens(g, w, nr, s0)
           end == f[L]
           v == ts_galax_read(m, conf, w, nr)
<1>1. PICK Q : Hears(w, Q) /\ Knows(m, Q[0]) /\ Shows(got, Q[0]) /\ ~Q[0].sunk /\ Q[L] = p
  BY DEF GalaxStream
<1>2. m2 \in GalaxStates /\ Knows(m2, Q[0])
  <2>1. m2.current_p \in {m.current_p, 255} /\ m2.current_x = m.current_x /\ m2.current_y = m.current_y
    BY DEF ts_galax_check_fd, GalaxStates
  <2>2. m2 \in GalaxStates
    <3> DEFINE p2 == IF conf.pressured THEN m.current_p ELSE 255
               g2 == IF m.grab_events = "wanted" THEN "active" ELSE m.grab_events
               m1 == [m EXCEPT !.current_p = p2]
    <3>1. p2 \in Int /\ g2 \in {"no", "wanted", "active"}
      BY DEF GalaxStates
    <3>2. m2 = [m EXCEPT !.current_p = p2, !.grab_events = g2]
      BY DEF ts_galax_check_fd
    <3>. HIDE DEF p2, g2, m2
    <3>3. m1 \in GalaxStates
      BY <3>1 DEF GalaxStates
    <3>4. m2 = [m1 EXCEPT !.grab_events = g2]
      BY <3>2
    <3>. HIDE DEF m1
    <3>. QED  BY <3>1, <3>3, <3>4 DEF GalaxStates
  <2>. HIDE DEF m2
  <2>. QED  BY <1>1, <2>1, <2>2 DEF Knows
<1>. HIDE DEF m2
<1>3. s0 \in ReadStates /\ Len(s0.wrote) = 0 /\ s0.used = 0 /\ s0.mod = m2
  BY <1>2 DEF ReadStates
<1>. HIDE DEF s0
<1>4. v = [mod |-> end.mod, events |-> SubSeq(w, end.used + 1, Len(w)), told |-> nr,
           wrote |-> end.wrote]
  BY DEF ts_galax_read, Listens, Listen, Heard, SampleOf, s0, m2
<1>5. Listens(f, w, nr, s0)
  BY <1>3, ListensAre
<1>. HIDE DEF f, v
<1>6. L \in Nat
  OBVIOUS
<1>7. f[0] = s0 /\ \A k \in 0 .. L - 1 : f[k + 1] = Listen(f[k], w[k + 1], k + 1, nr)
  <2>1. f = [k \in 0 .. L |-> IF k = 0 THEN s0 ELSE Listen(f[k - 1], w[k], k, nr)]
    BY <1>5 DEF Listens
  <2>2. 0 \in 0 .. L /\ \A k \in 0 .. L - 1 : k + 1 \in 0 .. L /\ k + 1 # 0 /\ (k + 1) - 1 = k
    BY <1>6
  <2>. HIDE DEF L
  <2>. QED  BY ONLY <2>1, <2>2
<1> DEFINE T == {k \in 0 .. L : Listening(f[k], w, Q, k, nr)}
<1>8. 0 \in T
  <2>1. Cardinality(SynsTo(w, 0)) = 0
    BY SynsCount
  <2>2. 0 \in 0 .. 0 /\ 0 \in 0 .. L /\ 0 < nr /\ 0 <= nr /\ 0 # nr
    BY <1>6
  <2>3. Listening(s0, w, Q, 0, nr)
    BY <1>2, <1>3, <2>1, <2>2 DEF Listening
  <2>. QED  BY <1>7, <2>2, <2>3
<1>9. \A k \in 0 .. L - 1 : k \in T => k + 1 \in T
  <2> SUFFICES ASSUME NEW k \in 0 .. L - 1, k \in T
               PROVE  k + 1 \in T
    OBVIOUS
  <2>1. k + 1 \in 0 .. L
    BY <1>6
  <2>2. Listening(Listen(f[k], w[k + 1], k + 1, nr), w, Q, k + 1, nr)
    BY <1>1, ListeningGoesOn
  <2>. QED  BY <1>7, <2>1, <2>2
<1>. HIDE DEF T
<1>10. L \in T
  <2>1. \A k \in 0 .. L : k \in T
    BY <1>6, <1>8, <1>9, CountUp
  <2>. QED  BY <1>6, <2>1
<1>11. Listening(end, w, Q, L, nr)
  BY <1>10 DEF T
<1>12. Syns(w) = SynsTo(w, L)
  BY DEF Syns, SynsTo
<1>13. Len(end.wrote) = nr
  <2>1. /\ end.wrote \in Seq(GotValues) /\ Len(end.wrote) <= nr
        /\ Len(end.wrote) < nr => Cardinality(SynsTo(w, L)) = Len(end.wrote)
    BY <1>11 DEF Listening, ReadStates
  <2>2. nr <= Cardinality(SynsTo(w, L))
    BY <1>12
  <2>3. Len(end.wrote) \in Nat
    BY <2>1
  <2>. QED  BY <2>1, <2>2, <2>3
<1>14. /\ end.mod \in GalaxStates /\ end.used \in 0 .. L /\ Knows(end.mod, Q[end.used])
       /\ ~Q[end.used].sunk /\ Shows(end.wrote[nr], Q[end.used]) /\ end.wrote \in Seq(GotValues)
  BY <1>11, <1>13 DEF Listening, ReadStates
<1>15. nr \in DOMAIN end.wrote
  <2>1. DOMAIN end.wrote = 1 .. Len(end.wrote)
    BY <1>14
  <2>. QED  BY <1>13, <2>1
<1> DEFINE u == SubSeq(w, end.used + 1, L)
<1>16. u \in Seq(EventValues) /\ GalaxStream(u, end.mod, end.wrote[nr], p)
  BY <1>1, <1>14, EventsLeft
<1>. HIDE DEF u
<1>17. v.mod = end.mod /\ v.events = u /\ v.told = nr /\ v.wrote = end.wrote
  BY <1>4 DEF u
<1>. QED  BY <1>14, <1>15, <1>16, <1>17 DEF v

-----------------------------------------------------------------------------
(* Galax: the invariant, and all the drivers together                      *)

\* What waits are events that bring the pen to where the device has reported it.
GalaxInv ==
  conf.driver = "galax" =>
    /\ conf \in Confs /\ pen \in Pens /\ line = <<>> /\ IsPast(past)
    /\ past.fresh \in SUBSET {"x", "y"} /\ mod \in GalaxStates /\ wire \in Seq(EventValues)
    /\ GalaxStream(wire, mod, seen, Ideal(pen, past.fresh))

\* What an event tells depends on the version of the device alone, which never changes.
LEMMA StreamStays ==
  ASSUME conf' = conf, GalaxStream(wire', mod', seen', Ideal(pen', past'.fresh))
  PROVE  GalaxStream(wire, mod, seen, Ideal(pen, past.fresh))'
<1>1. PICK Q : /\ Hears(wire', Q) /\ Knows(mod', Q[0]) /\ Shows(seen', Q[0]) /\ ~Q[0].sunk
               /\ Q[Len(wire')] = Ideal(pen', past'.fresh)
  BY Zenon DEF GalaxStream
<1>2. \A q, e, r : Tells(q, e, r)' <=> Tells(q, e, r)
  <2>1. XCode(conf.version)' = XCode(conf.version) /\ YCode(conf.version)' = YCode(conf.version)
    BY conf' = conf DEF XCode, YCode
  <2>. QED  BY ONLY <2>1 DEF Tells
<1>3. Q \in [0 .. Len(wire') -> Ideals] /\ \A k \in 1 .. Len(wire') : Tells(Q[k - 1], wire'[k], Q[k])
  BY <1>1, Zenon DEF Hears
<1>4. Hears(wire, Q)'
  BY ONLY <1>2, <1>3, Zenon DEF Hears
<1>. QED  BY <1>1, <1>4, Zenon DEF GalaxStream

\* The invariant of galax holds at first: the pen is lifted, and no event waits.
LEMMA GalaxStarts == ASSUME Init PROVE GalaxInv
<1> SUFFICES ASSUME conf.driver = "galax"
             PROVE  GalaxInv
  BY DEF GalaxInv
<1>1. /\ conf \in Confs /\ mod = parse_raw_grab(GalaxStart, 1) /\ pen = Lifted /\ seen = Lifted
      /\ wire = <<>> /\ line = <<>>
  BY DEF Init, Start
<1>2. past = [cur |-> <<>>, torn |-> FALSE, fresh |-> {}, rate |-> 0, unknown |-> FALSE,
              stuck |-> FALSE, good |-> DISCARD_FRAMES + 1]
  <2>1. past = Past
    BY DEF Init
  <2>. QED  BY <2>1 DEF Past
<1>3. IsPast(past) /\ past.fresh = {} /\ past.fresh \in SUBSET {"x", "y"}
  BY <1>2 DEF IsPast
<1>4. pen \in Pens /\ pen.pressure = 0 /\ seen.pressure = 0
  BY <1>1 DEF Lifted, Pens
<1>5. mod = [current_x |-> 0, current_y |-> 0, current_p |-> 0, sane_fd |-> 0,
             grab_events |-> "wanted"]
  BY <1>1 DEF parse_raw_grab, GalaxStart
<1>6. mod \in GalaxStates
  BY <1>5 DEF GalaxStates
<1> DEFINE q == Ideal(pen, past.fresh)
           Q == [k \in 0 .. 0 |-> q]
<1>7. q \in Ideals /\ ~q.touched /\ ~q.sunk /\ q.fresh = {}
  <2>1. ~Touched(pen) /\ Touched(pen) \in BOOLEAN /\ pen.x \in Int /\ pen.y \in Int
    BY <1>4 DEF Touched, Pens
  <2>. QED  BY <1>3, <2>1 DEF Ideal, Ideals
<1>. HIDE DEF q
<1>8. wire \in Seq(EventValues) /\ Len(wire) = 0 /\ 1 .. Len(wire) = {} /\ 0 \in 0 .. 0
  BY <1>1
<1>9. Q \in [0 .. Len(wire) -> Ideals] /\ Q[0] = q
  BY <1>7, <1>8
<1>. HIDE DEF Q
<1>10. Hears(wire, Q)
  BY <1>8, <1>9 DEF Hears
<1>11. Knows(mod, q) /\ Shows(seen, q)
  BY <1>4, <1>7 DEF Knows, Shows
<1>12. GalaxStream(wire, mod, seen, q)
  BY <1>7, <1>8, <1>9, <1>10, <1>11 DEF GalaxStream
<1>. QED  BY <1>1, <1>3, <1>4, <1>6, <1>8, <1>12 DEF GalaxInv, q

\* It is kept when the device reports, and sends an event for each thing that has changed,
LEMMA GalaxReports ==
  ASSUME GalaxInv, NEW p \in Reports, Report(p)
  PROVE  GalaxInv'
<1> SUFFICES ASSUME conf'.driver = "galax"
             PROVE  GalaxInv'
  BY DEF GalaxInv
<1>1. conf' = conf /\ conf.driver = "galax" /\ "galax" \notin Records
  BY DEF Report, Records
<1>2. /\ conf \in Confs /\ pen \in Pens /\ line = <<>> /\ IsPast(past)
      /\ past.fresh \in SUBSET {"x", "y"} /\ mod \in GalaxStates /\ wire \in Seq(EventValues)
      /\ GalaxStream(wire, mod, seen, Ideal(pen, past.fresh))
  BY <1>1 DEF GalaxInv
<1>3. /\ wire' = wire \o Events(p) /\ line' = line /\ pen' = p /\ mod' = mod /\ seen' = seen
      /\ past' = [past EXCEPT !.fresh =
                    IF Touched(p) THEN past.fresh \cup {a \in {"x", "y"} : p[a] # pen[a]} ELSE {}]
  BY <1>1 DEF Report
<1>4. p \in Pens /\ (p.pressure = 1 \/ (Touched(pen) /\ p = [pen EXCEPT !.pressure = 0]))
  <2>1. CASE \E s \in Spots : p = [x |-> s[1], y |-> s[2], pressure |-> 1]
    <3>1. PICK s \in Spots : p = [x |-> s[1], y |-> s[2], pressure |-> 1]
      BY <2>1
    <3>2. s \in Nat \X Nat
      BY SpotsAssumption
    <3>. QED  BY <3>1, <3>2 DEF Pens
  <2>2. CASE Touched(pen) /\ p = [pen EXCEPT !.pressure = 0]
    BY <1>2, <2>2 DEF Pens
  <2>. QED  BY <2>1, <2>2 DEF Reports
<1>5. conf.version \in Versions /\ conf.pressured \in BOOLEAN
  BY <1>2, ConfAssumption
<1>6. /\ wire \o Events(p) \in Seq(EventValues)
      /\ GalaxStream(wire \o Events(p), mod, seen, Ideal(p, Fresh(p)))
  BY <1>2, <1>4, <1>5, EventsReported
<1>7. IsPast(past') /\ past'.fresh = Fresh(p)
  <2> DEFINE k == Fresh(p)
  <2>1. past' = [past EXCEPT !.fresh = k]
    BY <1>3, Zenon DEF Fresh
  <2>. HIDE DEF k
  <2>2. past' = [cur |-> past.cur, torn |-> past.torn, fresh |-> k, rate |-> past.rate,
                 unknown |-> past.unknown, stuck |-> past.stuck, good |-> past.good]
    <3>1. IsPast(past)
      BY <1>2
    <3>. QED  BY ONLY <2>1, <3>1 DEF IsPast
  <2>. QED  BY <2>2 DEF IsPast, k
<1>8. Fresh(p) \in SUBSET {"x", "y"}
  BY <1>2 DEF Fresh
<1>9. Ideal(pen, past.fresh)' = Ideal(p, Fresh(p))
  BY <1>3, <1>7 DEF Ideal, Touched
<1>10. GalaxStream(wire', mod', seen', Ideal(pen', past'.fresh))
  BY <1>3, <1>6, <1>7
<1>11. /\ conf' \in Confs /\ pen' \in Pens /\ line' = <<>> /\ IsPast(past')
       /\ past'.fresh \in SUBSET {"x", "y"} /\ mod' \in GalaxStates /\ wire' \in Seq(EventValues)
  BY <1>1, <1>2, <1>3, <1>4, <1>6, <1>7, <1>8
<1>12. GalaxStream(wire, mod, seen, Ideal(pen, past.fresh))'
  BY <1>1, <1>10, StreamStays
<1>. QED  BY ONLY <1>11, <1>12, Zenon DEF GalaxInv

\* and when a read takes the events up to the last SYN it was asked for.
LEMMA GalaxIsRead ==
  ASSUME GalaxInv, NEW nr \in 1 .. 2, ReadGalax(nr)
  PROVE  GalaxInv'
<1> DEFINE v == ts_galax_read(mod, conf, wire, nr)
<1> SUFFICES ASSUME conf'.driver = "galax"
             PROVE  GalaxInv'
  BY DEF GalaxInv
<1>1. /\ conf' = conf /\ conf.driver = "galax" /\ nr <= Cardinality(Syns(wire))
      /\ pen' = pen /\ line' = line /\ past' = past /\ mod' = v.mod /\ wire' = v.events
      /\ seen' = IF v.told \in DOMAIN v.wrote THEN v.wrote[v.told] ELSE seen
  BY DEF ReadGalax, Gets
<1>2. /\ conf \in Confs /\ pen \in Pens /\ line = <<>> /\ IsPast(past)
      /\ past.fresh \in SUBSET {"x", "y"} /\ mod \in GalaxStates /\ wire \in Seq(EventValues)
      /\ GalaxStream(wire, mod, seen, Ideal(pen, past.fresh))
  BY <1>1 DEF GalaxInv
<1>3. conf.version \in Versions
  BY <1>2, ConfAssumption
<1> DEFINE q == Ideal(pen, past.fresh)
<1>4. Ideal(pen', past'.fresh) = q
  BY <1>1
<1>5. GalaxStream(wire, mod, seen, q)
  BY <1>2
<1>. HIDE DEF q
<1>6. /\ v.mod \in GalaxStates /\ v.told = nr /\ nr \in DOMAIN v.wrote
      /\ v.events \in Seq(EventValues) /\ GalaxStream(v.events, v.mod, v.wrote[nr], q)
  BY <1>1, <1>2, <1>3, <1>5, GalaxReads
<1>. HIDE DEF v
<1>7. GalaxStream(wire', mod', seen', q)
  BY <1>1, <1>6
<1>8. GalaxStream(wire', mod', seen', Ideal(pen', past'.fresh))
  BY <1>4, <1>7
<1>9. /\ conf' \in Confs /\ pen' \in Pens /\ line' = <<>> /\ IsPast(past')
      /\ past'.fresh \in SUBSET {"x", "y"} /\ mod' \in GalaxStates /\ wire' \in Seq(EventValues)
  BY <1>1, <1>2, <1>6
<1>10. GalaxStream(wire, mod, seen, Ideal(pen, past.fresh))'
  BY <1>1, <1>8, StreamStays
<1>. QED  BY ONLY <1>9, <1>10, Zenon DEF GalaxInv

\* The next-state relation keeps the invariant of galax.
LEMMA GalaxKeeps == ASSUME GalaxInv, [Next]_vars PROVE GalaxInv'
<1>1. CASE \E p \in Reports : Report(p)
  BY <1>1, GalaxReports
<1>2. CASE \E nr \in 1 .. 2 : ReadGalax(nr)
  BY <1>2, GalaxIsRead
<1>3. CASE UNCHANGED vars
  <2>1. conf' = conf /\ pen' = pen /\ line' = line /\ past' = past /\ mod' = mod /\ wire' = wire
        /\ seen' = seen
    BY <1>3 DEF vars
  <2> SUFFICES ASSUME conf.driver = "galax"
               PROVE  GalaxInv'
    BY <2>1 DEF GalaxInv
  <2>2. GalaxStream(wire', mod', seen', Ideal(pen', past'.fresh))
    BY <2>1 DEF GalaxInv
  <2>3. GalaxStream(wire, mod, seen, Ideal(pen, past.fresh))'
    BY <2>1, <2>2, StreamStays
  <2>4. /\ conf' \in Confs /\ pen' \in Pens /\ line' = <<>> /\ IsPast(past')
        /\ past'.fresh \in SUBSET {"x", "y"} /\ mod' \in GalaxStates /\ wire' \in Seq(EventValues)
    BY <2>1 DEF GalaxInv
  <2>. QED  BY ONLY <2>3, <2>4, Zenon DEF GalaxInv
<1>4. ASSUME conf' = conf, conf.driver # "galax"
      PROVE  GalaxInv'
  BY <1>4 DEF GalaxInv
<1>5. CASE \E n \in 1 .. 4 : ReportCut(n)
  BY <1>4, <1>5 DEF ReportCut
<1>6. CASE \E n \in 1 .. 5 : Arrive(n)
  <2>1. conf' = conf /\ line # <<>>
    BY <1>6 DEF Arrive
  <2>. QED  BY <1>4, <2>1 DEF GalaxInv
<1>7. CASE \E nr \in 1 .. 2 : ReadRecords(nr)
  BY <1>4, <1>7 DEF ReadRecords, Records
<1>8. CASE ReadTouchKit
  BY <1>4, <1>8 DEF ReadTouchKit
<1>9. CASE \E nr \in 1 .. 2 : ReadDmc(nr)
  BY <1>4, <1>9 DEF ReadDmc
<1>10. CASE \E frame \in Frames, works \in BOOLEAN : ReadPalmpre(frame, works)
  BY <1>4, <1>10 DEF ReadPalmpre
<1>. QED  BY <1>1, <1>2, <1>3, <1>5, <1>6, <1>7, <1>8, <1>9, <1>10 DEF Next

\* When no event waits, the program has got where the pen is, along the axes it was told of.
LEMMA GalaxFollows ==
  ASSUME GalaxInv, conf.driver = "galax", wire = <<>>
  PROVE  /\ Touched(seen) = Touched(pen)
         /\ \A a \in {"x", "y"} : a \in past.fresh => seen[a] = pen[a]
<1> DEFINE q == Ideal(pen, past.fresh)
<1>1. PICK Q : Knows(mod, Q[0]) /\ Shows(seen, Q[0]) /\ Q[Len(wire)] = q
  BY DEF GalaxInv, GalaxStream
<1>2. Shows(seen, q)
  <2>1. Len(wire) = 0
    OBVIOUS
  <2>. QED  BY <1>1, <2>1
<1>3. (q.touched <=> Touched(pen)) /\ q.fresh = past.fresh /\ q.x = pen.x /\ q.y = pen.y
  BY DEF Ideal
<1>. HIDE DEF q
<1>. QED  BY <1>2, <1>3 DEF Shows, Touched

(***************************************************************************)
(* When nothing waits any more, the program has last got what the device   *)
(* has last reported, through every driver the property speaks of: the     *)
(* records of collie, h3600, corgi, ucb1x00, arctic2, mk712 and waveshare, *)
(* the packets of touchkit, the commands of dmc and the events of galax.   *)
(***************************************************************************)
THEOREM ProgramFollowsPen == Spec => []ReadsFollowPen
<1>1. Init => RecordsInv /\ DmcInv /\ GalaxInv
  BY RecordsStart, DmcStarts, GalaxStarts
<1>2. RecordsInv /\ DmcInv /\ GalaxInv /\ [Next]_vars => RecordsInv' /\ DmcInv' /\ GalaxInv'
  BY RecordsKeep, DmcKeeps, GalaxKeeps
<1>3. TouchKitInv /\ RecordsInv /\ DmcInv /\ GalaxInv /\ conf \in Confs => ReadsFollowPen
  <2> SUFFICES ASSUME TouchKitInv, RecordsInv, DmcInv, GalaxInv, conf \in Confs, wire = <<>>,
                      line = <<>>, conf.driver \notin {"tatung", "palmpre"}, ~past.torn
               PROVE  /\ Touched(seen) = Touched(pen)
                      /\ \A a \in {"x", "y"} :
                           conf.driver # "galax" \/ (Touched(pen) /\ a \in past.fresh) =>
                             seen[a] = pen[a]
    BY DEF ReadsFollowPen
  <2>1. CASE conf.driver = "galax"
    BY <2>1, GalaxFollows
  <2>2. CASE conf.driver # "galax"
    <3>1. conf.driver \in PlainRecords \/ conf.driver = "touchkit" \/ conf.driver = "dmc"
      <4>1. conf.driver \in Drivers
        BY ConfAssumption
      <4>. QED  BY <2>2, <4>1 DEF Drivers, PlainRecords
    <3>2. Match(seen, pen)
      <4>1. CASE conf.driver \in PlainRecords
        BY <4>1 DEF RecordsInv
      <4>2. CASE conf.driver = "touchkit"
        BY <4>2, TouchKitFollows
      <4>3. CASE conf.driver = "dmc"
        BY <4>3, DmcFollows
      <4>. QED  BY <3>1, <4>1, <4>2, <4>3
    <3>. QED  BY <3>2 DEF Match, Touched
  <2>. QED  BY <2>1, <2>2
<1>4. Init => conf \in Confs
  BY DEF Init
<1>5. conf \in Confs /\ [Next]_vars => (conf \in Confs)'
  <2> SUFFICES ASSUME conf \in Confs, [Next]_vars
               PROVE  conf' = conf
    OBVIOUS
  <2>. QED  BY DEF Next, vars, Report, ReportCut, Arrive, ReadRecords, ReadTouchKit, ReadDmc,
                   ReadGalax, ReadPalmpre
<1>. QED  BY <1>1, <1>2, <1>3, <1>4, <1>5, TouchKitHolds, PTL DEF Spec

=============================================================================

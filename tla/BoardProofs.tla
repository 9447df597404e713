----------------------------- MODULE BoardProofs -----------------------------
(***************************************************************************)
(* Proofs about the two parts of driver/ that work the board's LEDs:       *)
(*                                                                         *)
(*  - what the LED driver guarantees for any number of processes and LEDs: *)
(*    the reference count and the pattern left when all calls have         *)
(*    returned (XLed);                                                     *)
(*  - keyscan of the key and LED demo reports what was held, and the LEDs  *)
(*    follow, for every choice of chords and of the garbage a failed       *)
(*    read() leaves (KeyPanel).                                            *)
(***************************************************************************)
EXTENDS XLed, KeyPanel, FiniteSetTheorems, TLAPS

-----------------------------------------------------------------------------
(* The LED driver                                                          *)

(* What merging the requests of some calls, or of none, can make.          *)
Mix(S) == {UNION T : T \in SUBSET S}

Writing == {"write", "clear", "load", "merge", "set", "setdata"}
Blanking == {"blank", "blankload", "blankmerge"}
States == Storing \cup {Closed, "opening", "mapped", Idle, "release"}

Types == /\ loaded \in BOOLEAN /\ refs \in Int
         /\ con \in SUBSET Leds /\ dat \in SUBSET Leds
         /\ pc \in [Proc -> States]
         /\ arg \in [Proc -> SUBSET Leds] /\ tmp \in [Proc -> SUBSET Leds]
         /\ asked \subseteq SUBSET Leds

(* What the call of p relies on while the others run.                      *)
CallOK(p) ==
  /\ pc[p] \in Writing => arg[p] \in asked
  /\ pc[p] \in Blanking => Leds \in asked
  /\ pc[p] = "merge" => tmp[p] \in Mix(asked)
  /\ pc[p] \in {"load", "merge"} => dat \in Mix(asked)

Pattern == (\A p \in Proc : CallOK(p)) /\ RestPattern

Inductive == Types /\ RefsHeld /\ Pattern

LEMMA StateNames ==
  /\ Storing = Writing \cup Blanking
  /\ Closed \notin Storing /\ Idle \notin Storing
  /\ {"opening", "mapped", "release"} \cap Storing = {}
  /\ Idle # Closed /\ Idle \notin {"opening", "mapped", "release"}
  /\ Closed \notin {"opening", "mapped", "release"}
BY DEF Storing, Writing, Blanking, Closed, Idle

-----------------------------------------------------------------------------
(* The reference count                                                     *)

LEMMA CountFacts ==
  ASSUME Types
  PROVE  /\ IsFiniteSet(Unreferenced) /\ Cardinality(Unreferenced) \in Nat
         /\ IsFiniteSet(Half) /\ Cardinality(Half) \in Nat
         /\ Cardinality(Proc) \in Nat
         /\ Cardinality(Unreferenced) + Cardinality(Half) <= Cardinality(Proc)
<1>1. IsFiniteSet(Proc) /\ Cardinality(Proc) \in Nat
  BY XLedAssumption, FS_CardinalityType
<1>2. Unreferenced \subseteq Proc /\ Half \subseteq Proc
  BY DEF Unreferenced, Half
<1>3. /\ IsFiniteSet(Unreferenced) /\ Cardinality(Unreferenced) \in Nat
      /\ IsFiniteSet(Half) /\ Cardinality(Half) \in Nat
  BY <1>1, <1>2, FS_Subset, FS_CardinalityType
<1>4. Unreferenced \cap Half = {}
  BY StateNames DEF Unreferenced, Half
<1>5. Cardinality(Unreferenced \cup Half) = Cardinality(Unreferenced) + Cardinality(Half)
  <2>1. Cardinality(Unreferenced \cap Half) = 0
    BY <1>4, FS_EmptySet
  <2>2. Cardinality(Unreferenced \cup Half)
          = Cardinality(Unreferenced) + Cardinality(Half) - Cardinality(Unreferenced \cap Half)
    BY <1>3, FS_Union
  <2>. QED  BY <1>3, <2>1, <2>2
<1>6. Cardinality(Unreferenced \cup Half) <= Cardinality(Proc)
  BY <1>1, <1>2, FS_Subset
<1>. QED  BY <1>1, <1>3, <1>5, <1>6

(* The reference count lies between zero and two for every process.        *)
LEMMA RefsBounded ==
  ASSUME Types, RefsHeld
  PROVE  refs \in 0 .. 2 * Cardinality(Proc)
<1>1. refs = 2 * (Cardinality(Proc) - Cardinality(Unreferenced)) - Cardinality(Half)
  BY DEF RefsHeld
<1>2. /\ Cardinality(Unreferenced) \in Nat /\ Cardinality(Half) \in Nat
      /\ Cardinality(Proc) \in Nat
      /\ Cardinality(Unreferenced) + Cardinality(Half) <= Cardinality(Proc)
  BY CountFacts
<1> HIDE DEF Unreferenced, Half
<1>. QED  BY ONLY <1>1, <1>2, SMT

(* A file is open as long as the count is not zero.                        *)
LEMMA NoRefsAllClosed ==
  ASSUME Types, RefsHeld, refs = 0
  PROVE  \A p \in Proc : pc[p] = Closed
<1>1. Cardinality(Unreferenced) = Cardinality(Proc)
  <2>1. 0 = 2 * (Cardinality(Proc) - Cardinality(Unreferenced)) - Cardinality(Half)
    BY DEF RefsHeld
  <2>. QED  BY <2>1, CountFacts
<1>2. Unreferenced \subseteq Proc /\ IsFiniteSet(Proc)
  BY XLedAssumption DEF Unreferenced
<1>3. Unreferenced = Proc
  BY <1>1, <1>2, FS_Subset
<1>. QED  BY <1>3 DEF Unreferenced

(* The counts of processes outside the driver and on their way move with   *)
(* the process that moves.                                                 *)
LEMMA CountMove ==
  ASSUME Types, NEW p \in Proc, NEW s \in States, pc' = [pc EXCEPT ![p] = s]
  PROVE  /\ Cardinality(Unreferenced)' =
              Cardinality(Unreferenced) + (IF s = Closed THEN 1 ELSE 0)
                                        - (IF pc[p] = Closed THEN 1 ELSE 0)
         /\ Cardinality(Half)' =
              Cardinality(Half) + (IF s \in {"opening", "mapped", "release"} THEN 1 ELSE 0)
                                - (IF pc[p] \in {"opening", "mapped", "release"} THEN 1 ELSE 0)
<1> DEFINE Count(S) == Cardinality({q \in Proc : pc[q] \in S})
           NewCount(S) == Cardinality({q \in Proc : pc'[q] \in S})
<1>1. ASSUME NEW S
      PROVE  NewCount(S) = Count(S) + (IF s \in S THEN 1 ELSE 0)
                                    - (IF pc[p] \in S THEN 1 ELSE 0)
  <2> DEFINE A == {q \in Proc : pc[q] \in S}
             B == {q \in Proc : pc'[q] \in S}
  <2>1. IsFiniteSet(A) /\ Cardinality(A) \in Nat
    BY XLedAssumption, FS_Subset, FS_CardinalityType, A \subseteq Proc
  <2>2. \A q \in Proc : pc'[q] = IF q = p THEN s ELSE pc[q]
    BY DEF Types
  <2>3. CASE s \in S /\ pc[p] \in S
    <3>1. B = A
      BY <2>2, <2>3
    <3>2. Cardinality(B) = Cardinality(A) + 1 - 1
      BY <2>1, <3>1
    <3>. QED  BY ONLY <2>3, <3>2
  <2>4. CASE s \notin S /\ pc[p] \notin S
    <3>1. B = A
      BY <2>2, <2>4
    <3>2. Cardinality(B) = Cardinality(A) + 0 - 0
      BY <2>1, <3>1
    <3>. QED  BY ONLY <2>4, <3>2
  <2>5. CASE s \in S /\ pc[p] \notin S
    <3>1. B = A \cup {p} /\ p \notin A
      BY <2>2, <2>5
    <3>2. Cardinality(B) = Cardinality(A) + 1 - 0
      BY <2>1, <3>1, FS_AddElement
    <3>. QED  BY ONLY <2>5, <3>2
  <2>6. CASE s \notin S /\ pc[p] \in S
    <3>1. A = B \cup {p} /\ p \notin B
      BY <2>2, <2>6
    <3>2. IsFiniteSet(B) /\ Cardinality(B) \in Nat
      BY XLedAssumption, FS_Subset, FS_CardinalityType, B \subseteq Proc
    <3>3. Cardinality(A) = Cardinality(B) + 1
      BY <3>1, <3>2, FS_AddElement
    <3>4. Cardinality(B) = Cardinality(A) + 0 - 1
      BY <3>2, <3>3
    <3>. QED  BY ONLY <2>6, <3>4
  <2>. QED  BY <2>3, <2>4, <2>5, <2>6
<1>2. /\ Unreferenced = {q \in Proc : pc[q] \in {Closed}}
      /\ Unreferenced' = {q \in Proc : pc'[q] \in {Closed}}
  BY DEF Unreferenced
<1>3. NewCount({Closed}) = Count({Closed}) + (IF s \in {Closed} THEN 1 ELSE 0)
                                           - (IF pc[p] \in {Closed} THEN 1 ELSE 0)
  BY <1>1
<1>4. NewCount({"opening", "mapped", "release"}) =
        Count({"opening", "mapped", "release"})
          + (IF s \in {"opening", "mapped", "release"} THEN 1 ELSE 0)
          - (IF pc[p] \in {"opening", "mapped", "release"} THEN 1 ELSE 0)
  BY <1>1
<1>. QED  BY <1>2, <1>3, <1>4 DEF Half

LEMMA RefsMove ==
  ASSUME Types, RefsHeld, NEW p \in Proc, NEW s \in States,
         pc' = [pc EXCEPT ![p] = s], s # Closed => loaded', loaded \in BOOLEAN,
         (\E q \in Proc : q # p /\ pc[q] # Closed) => loaded' = loaded,
         refs' = refs + 2 * ((IF pc[p] = Closed THEN 1 ELSE 0) - (IF s = Closed THEN 1 ELSE 0))
                      + (IF pc[p] \in {"opening", "mapped", "release"} THEN 1 ELSE 0)
                      - (IF s \in {"opening", "mapped", "release"} THEN 1 ELSE 0)
  PROVE  RefsHeld'
<1>1. /\ Cardinality(Unreferenced) \in Nat /\ Cardinality(Half) \in Nat
      /\ Cardinality(Proc) \in Nat
  BY CountFacts
<1>2. refs = 2 * (Cardinality(Proc) - Cardinality(Unreferenced)) - Cardinality(Half)
  BY DEF RefsHeld
<1>3. /\ Cardinality(Unreferenced)' =
              Cardinality(Unreferenced) + (IF s = Closed THEN 1 ELSE 0)
                                        - (IF pc[p] = Closed THEN 1 ELSE 0)
      /\ Cardinality(Half)' =
              Cardinality(Half) + (IF s \in {"opening", "mapped", "release"} THEN 1 ELSE 0)
                                - (IF pc[p] \in {"opening", "mapped", "release"} THEN 1 ELSE 0)
  BY CountMove
<1>4. refs' = 2 * (Cardinality(Proc) - Cardinality(Unreferenced)') - Cardinality(Half)'
  <2> DEFINE U == Cardinality(Unreferenced)
             V == Cardinality(Unreferenced)'
             H == Cardinality(Half)
             K == Cardinality(Half)'
             C == Cardinality(Proc)
             a == IF s = Closed THEN 1 ELSE 0
             b == IF pc[p] = Closed THEN 1 ELSE 0
             c == IF s \in {"opening", "mapped", "release"} THEN 1 ELSE 0
             d == IF pc[p] \in {"opening", "mapped", "release"} THEN 1 ELSE 0
  <2>1. a \in Int /\ b \in Int /\ c \in Int /\ d \in Int
    OBVIOUS
  <2>2. U \in Nat /\ H \in Nat /\ C \in Nat
    BY <1>1
  <2>3. V = U + a - b /\ K = H + c - d /\ refs = 2 * (C - U) - H
        /\ refs' = refs + 2 * (b - a) + d - c
    BY <1>2, <1>3
  <2> HIDE DEF U, V, H, K, C, a, b, c, d
  <2>4. refs' = 2 * (C - V) - K
    BY ONLY <2>1, <2>2, <2>3
  <2>. QED  BY <2>4 DEF V, K, C
<1>5. (\E q \in Proc : pc'[q] # Closed) => loaded'
  <2> SUFFICES ASSUME NEW q \in Proc, pc'[q] # Closed PROVE loaded'
    OBVIOUS
  <2>1. CASE q = p
    BY <2>1 DEF Types
  <2>2. CASE q # p
    BY <2>2 DEF Types, RefsHeld
  <2>. QED  BY <2>1, <2>2
<1>. QED  BY <1>4, <1>5 DEF RefsHeld
-----------------------------------------------------------------------------
(* The patterns                                                            *)

LEMMA MixFacts ==
  ASSUME NEW S
  PROVE  /\ {} \in Mix(S)
         /\ \A A \in S : A \in Merges(S)
         /\ Merges(S) \subseteq Mix(S)
         /\ \A A \in Mix(S), B \in S : A \cup B \in Merges(S)
         /\ \A A : Mix(S) \subseteq Mix(S \cup {A})
<1>1. {} \in Mix(S)
  <2>1. {} = UNION {}
    OBVIOUS
  <2>. QED  BY <2>1 DEF Mix
<1>2. ASSUME NEW A \in S
      PROVE  A \in Merges(S)
  <2>1. A = UNION {A} /\ {A} \in (SUBSET S) \ {{}}
    OBVIOUS
  <2>. QED  BY <2>1 DEF Merges
<1>3. Merges(S) \subseteq Mix(S)
  BY DEF Merges, Mix
<1>4. ASSUME NEW A \in Mix(S), NEW B \in S
      PROVE  A \cup B \in Merges(S)
  <2>1. PICK T \in SUBSET S : A = UNION T
    BY DEF Mix
  <2>2. A \cup B = UNION (T \cup {B}) /\ T \cup {B} \in (SUBSET S) \ {{}}
    BY <2>1
  <2>. QED  BY <2>2 DEF Merges
<1>5. ASSUME NEW A
      PROVE  Mix(S) \subseteq Mix(S \cup {A})
  BY DEF Mix
<1>. QED  BY <1>1, <1>2, <1>3, <1>4, <1>5

(* A step of p that stores nothing, or a mixture, leaves the others as they*)
(* were.                                                                   *)
LEMMA PatternStep ==
  ASSUME Types, Pattern, NEW p \in Proc, NEW s \in States,
         pc' = [pc EXCEPT ![p] = s], asked' = asked, arg' = arg,
         \A q \in Proc \ {p} : tmp'[q] = tmp[q],
         dat' = dat \/ dat' \in Mix(asked),
         CallOK(p)', RestPattern'
  PROVE  Pattern'
<1>1. ASSUME NEW q \in Proc, q # p
      PROVE  CallOK(q)'
  <2>1. pc'[q] = pc[q] /\ tmp'[q] = tmp[q]
    BY <1>1 DEF Types
  <2>2. CallOK(q)
    BY DEF Pattern
  <2>. QED  BY <2>1, <2>2 DEF CallOK
<1>. QED  BY <1>1 DEF Pattern

(* Where a process that moves to s leaves AtRest.                          *)
LEMMA Moved ==
  ASSUME Types, NEW p \in Proc, NEW s \in States, pc' = [pc EXCEPT ![p] = s]
  PROVE  /\ pc'[p] = s
         /\ s \in Storing => ~AtRest'
         /\ s \notin Storing /\ pc[p] \notin Storing => AtRest' = AtRest
<1>1. pc'[p] = s /\ \A q \in Proc : q # p => pc'[q] = pc[q]
  BY DEF Types
<1>. QED  BY <1>1 DEF AtRest

(* Opening and closing the file store nothing.                             *)
LEMMA OutsideKeeps ==
  ASSUME Types, Pattern, NEW p \in Proc, NEW s \in States,
         pc' = [pc EXCEPT ![p] = s], s \notin Storing, pc[p] \notin Storing,
         UNCHANGED <<dat, arg, tmp, asked>>
  PROVE  Pattern'
<1>1. RestPattern'
  BY Moved DEF Pattern, RestPattern, Merges
<1>2. CallOK(p)'
  BY Moved, StateNames DEF CallOK, Writing, Blanking, Storing
<1>. QED  BY <1>1, <1>2, PatternStep

(* A call that enters the driver joins the calls that run, or starts anew. *)
LEMMA EnterKeeps ==
  ASSUME Types, Pattern, NEW p \in Proc, NEW s \in {"write", "set", "blank"},
         NEW dark \in SUBSET Leds, Ask(dark), pc' = [pc EXCEPT ![p] = s],
         pc[p] = Idle, UNCHANGED <<dat, tmp>>,
         \A q \in Proc \ {p} : arg'[q] = arg[q],
         s = "blank" => dark = Leds,
         s # "blank" => arg'[p] = dark
  PROVE  Pattern' /\ asked' \in SUBSET (SUBSET Leds)
<1>1. s \in Storing /\ s \in States
  BY DEF States, Storing
<1>2. pc'[p] = s /\ ~AtRest'
  BY <1>1, Moved
<1>3. dark \in asked'
  BY DEF Ask
<1>4. CallOK(p)'
  BY <1>2, <1>3 DEF CallOK, Writing, Blanking
<1>5. ASSUME NEW q \in Proc, q # p
      PROVE  CallOK(q)'
  <2>1. pc'[q] = pc[q] /\ tmp'[q] = tmp[q] /\ arg'[q] = arg[q]
    BY <1>5 DEF Types
  <2>2. CASE AtRest
    <3>1. pc'[q] \notin Storing
      BY <2>1, <2>2 DEF AtRest
    <3>. QED  BY <3>1 DEF CallOK, Storing, Writing, Blanking
  <2>3. CASE ~AtRest
    <3>1. asked' = asked \cup {dark}
      BY <2>3 DEF Ask
    <3>2. asked \subseteq asked' /\ Mix(asked) \subseteq Mix(asked')
      BY <3>1, MixFacts
    <3>3. CallOK(q)
      BY DEF Pattern
    <3>. QED  BY <2>1, <3>2, <3>3 DEF CallOK
  <2>. QED  BY <2>2, <2>3
<1>6. RestPattern'
  BY <1>2 DEF RestPattern
<1>7. asked' \in SUBSET (SUBSET Leds)
  BY DEF Ask, Types
<1>. QED  BY <1>4, <1>5, <1>6, <1>7 DEF Pattern

(* A call that goes on within the driver.                                  *)
LEMMA GoOnKeeps ==
  ASSUME Types, Pattern, NEW p \in Proc, NEW s \in Storing,
         pc' = [pc EXCEPT ![p] = s], asked' = asked, arg' = arg,
         \A q \in Proc \ {p} : tmp'[q] = tmp[q],
         dat' = dat \/ dat' \in Mix(asked),
         CallOK(p)'
  PROVE  Pattern'
<1>1. s \in States
  BY DEF States
<1>2. RestPattern'
  BY <1>1, Moved DEF RestPattern
<1>. QED  BY <1>1, <1>2, PatternStep

(* A call that returns has stored a mixture of what was asked for.         *)
LEMMA FinishKeeps ==
  ASSUME Types, Pattern, NEW p \in Proc, pc' = [pc EXCEPT ![p] = Idle],
         UNCHANGED <<asked, arg, tmp>>, dat' \in Merges(asked)
  PROVE  Pattern'
<1>1. Idle \in States /\ dat' \in Mix(asked)
  BY MixFacts DEF States
<1>2. pc'[p] = Idle
  BY <1>1, Moved
<1>3. CallOK(p)'
  BY <1>2 DEF CallOK, Writing, Blanking, Idle
<1>4. RestPattern'
  BY DEF RestPattern, Merges
<1>. QED  BY <1>1, <1>3, <1>4, PatternStep
-----------------------------------------------------------------------------
(* The actions                                                             *)

(* The part of the state that belongs to the reference count does not move *)
(* while a process calls into the driver.                                  *)
LEMMA InsideRefs ==
  ASSUME Types, RefsHeld, NEW p \in Proc, pc[p] \in Storing \cup {Idle},
         NEW s \in Storing \cup {Idle}, pc' = [pc EXCEPT ![p] = s],
         loaded' = loaded, refs' = refs
  PROVE  RefsHeld'
<1>1. s \in States /\ s # Closed /\ pc[p] # Closed
  BY StateNames DEF States
<1>2. /\ s \notin {"opening", "mapped", "release"}
      /\ pc[p] \notin {"opening", "mapped", "release"}
  BY StateNames
<1>3. loaded /\ loaded' /\ loaded \in BOOLEAN /\ refs \in Int
  BY <1>1 DEF RefsHeld, Types
<1>4. refs' = refs + 2 * ((IF pc[p] = Closed THEN 1 ELSE 0) - (IF s = Closed THEN 1 ELSE 0))
                 + (IF pc[p] \in {"opening", "mapped", "release"} THEN 1 ELSE 0)
                 - (IF s \in {"opening", "mapped", "release"} THEN 1 ELSE 0)
  BY <1>1, <1>2, <1>3
<1>. QED  BY <1>1, <1>3, <1>4, RefsMove

LEMMA InitInductive == Init => Inductive
<1> SUFFICES ASSUME Init PROVE Inductive
  OBVIOUS
<1>1. Types
  BY DEF Init, Types, States
<1>2. Unreferenced = Proc /\ Half = {}
  BY StateNames DEF Init, Unreferenced, Half
<1>3. Cardinality(Proc) \in Nat /\ Cardinality(Half) = 0
  BY <1>2, XLedAssumption, FS_CardinalityType, FS_EmptySet
<1>4. RefsHeld
  BY <1>2, <1>3 DEF Init, RefsHeld
<1>5. Pattern
  BY StateNames DEF Init, Pattern, CallOK, RestPattern, Closed, Writing, Blanking
<1>. QED  BY <1>1, <1>4, <1>5 DEF Inductive

LEMMA ModuleOK ==
  ASSUME Inductive, Rmmod \/ Insmod
  PROVE  Inductive'
<1>1. Types'
  BY DEF Inductive, Types, Rmmod, Insmod
<1>2. Pattern'
  BY DEF Inductive, Pattern, Rmmod, Insmod, CallOK, RestPattern, AtRest
<1>3. Unreferenced' = Unreferenced /\ Half' = Half /\ refs' = refs
  BY DEF Rmmod, Insmod, Unreferenced, Half
<1>4. (\E p \in Proc : pc'[p] # Closed) => loaded'
  BY NoRefsAllClosed DEF Inductive, Rmmod, Insmod
<1>. QED  BY <1>1, <1>2, <1>3, <1>4 DEF Inductive, RefsHeld

LEMMA OpenCloseOK ==
  ASSUME Inductive, NEW p \in Proc, Open(p) \/ Close(p)
  PROVE  Inductive'
<1>1. Types /\ RefsHeld /\ Pattern /\ loaded \in BOOLEAN /\ refs \in Int
  BY DEF Inductive, Types
<1> DEFINE Gain(from, to) ==
             2 * ((IF from = Closed THEN 1 ELSE 0) - (IF to = Closed THEN 1 ELSE 0))
                 + (IF from \in {"opening", "mapped", "release"} THEN 1 ELSE 0)
                 - (IF to \in {"opening", "mapped", "release"} THEN 1 ELSE 0)
           Step(from, to, n) ==
             /\ pc[p] = from /\ pc' = [pc EXCEPT ![p] = to]
             /\ refs' = refs + n /\ loaded' = loaded /\ con' \in SUBSET Leds
             /\ UNCHANGED <<dat, arg, tmp, asked>>
<1>2. ASSUME NEW from, NEW to \in States, NEW n, Step(from, to, n),
             from \notin Storing, to \notin Storing, from # Closed \/ loaded,
             n = Gain(from, to)
      PROVE  Inductive'
  <2>1. Types'
    BY <1>1, <1>2 DEF Types
  <2>2. loaded /\ loaded'
    BY <1>1, <1>2 DEF RefsHeld
  <2>3. refs' = refs + 2 * ((IF pc[p] = Closed THEN 1 ELSE 0) - (IF to = Closed THEN 1 ELSE 0))
                     + (IF pc[p] \in {"opening", "mapped", "release"} THEN 1 ELSE 0)
                     - (IF to \in {"opening", "mapped", "release"} THEN 1 ELSE 0)
    BY <1>1, <1>2
  <2>4. RefsHeld'
    BY <1>1, <1>2, <2>2, <2>3, RefsMove
  <2>5. Pattern'
    BY <1>1, <1>2, OutsideKeeps
  <2>. QED  BY <2>1, <2>4, <2>5 DEF Inductive
<1>3. /\ "opening" \in States /\ "mapped" \in States /\ "release" \in States
      /\ Idle \in States /\ Closed \in States
  BY DEF States
<1>4. con \in SUBSET Leds
  BY DEF Inductive, Types
<1>10. /\ Gain(Closed, "opening") = 1 /\ Gain("opening", "mapped") = 0
       /\ Gain("mapped", Idle) = 1 /\ Gain(Idle, "release") = 0 - 1
       /\ Gain("release", Closed) = 0 - 1
  BY StateNames
<1>11. /\ "opening" \notin Storing /\ "mapped" \notin Storing /\ "release" \notin Storing
       /\ Idle \notin Storing /\ Closed \notin Storing
       /\ Closed \notin {"opening", "mapped", "release", Idle}
  BY StateNames
<1> HIDE DEF Gain, Step
<1>5. CASE OpenCall(p)
  <2>1. Step(Closed, "opening", 1) /\ loaded
    BY <1>4, <1>5 DEF OpenCall, Goto, Step
  <2>. QED  BY <2>1, <1>2, <1>3, <1>10, <1>11
<1>6. CASE OpenConfigure(p)
  <2>1. Step("opening", "mapped", 0)
    BY <1>1, <1>6 DEF OpenConfigure, Goto, Step
  <2>. QED  BY <2>1, <1>2, <1>3, <1>10, <1>11
<1>7. CASE OpenReturn(p)
  <2>1. Step("mapped", Idle, 1)
    BY <1>4, <1>7 DEF OpenReturn, Goto, Step
  <2>. QED  BY <2>1, <1>2, <1>3, <1>10, <1>11
<1>8. CASE ReleaseCall(p)
  <2>1. Step(Idle, "release", 0 - 1)
    BY <1>1, <1>4, <1>8 DEF ReleaseCall, Goto, Step
  <2>. QED  BY <2>1, <1>2, <1>3, <1>10, <1>11
<1>9. CASE ReleaseReturn(p)
  <2>1. Step("release", Closed, 0 - 1)
    BY <1>1, <1>4, <1>9 DEF ReleaseReturn, Goto, Step
  <2>. QED  BY <2>1, <1>2, <1>3, <1>10, <1>11
<1>. QED  BY <1>5, <1>6, <1>7, <1>8, <1>9 DEF Open, Close

LEMMA PatternOf ==
  ASSUME Inductive, NEW p \in Proc
  PROVE  Types /\ RefsHeld /\ Pattern /\ CallOK(p)
BY DEF Inductive, Pattern

LEMMA EntersOK ==
  ASSUME Inductive, NEW p \in Proc,
         (\E pat \in Patterns : WriteCall(p, pat) \/ SetCall(p, pat)) \/ BlankCall(p)
  PROVE  Inductive'
<1>1. Types /\ RefsHeld /\ Pattern
  BY PatternOf
<1>2. ASSUME NEW s \in {"write", "set", "blank"}, NEW dark \in SUBSET Leds,
             Ask(dark), Goto(p, Idle, s), arg' \in [Proc -> SUBSET Leds],
             \A q \in Proc \ {p} : arg'[q] = arg[q],
             s = "blank" => dark = Leds, s # "blank" => arg'[p] = dark,
             UNCHANGED <<loaded, refs, con, dat, tmp>>
      PROVE  Inductive'
  <2>1. s \in Storing
    BY DEF Storing
  <2>2. RefsHeld'
    BY <1>1, <1>2, <2>1, InsideRefs DEF Goto
  <2>3. Pattern' /\ asked' \in SUBSET (SUBSET Leds)
    BY <1>1, <1>2, EnterKeeps DEF Goto
  <2>4. Types'
    BY <1>1, <1>2, <2>1, <2>3 DEF Types, Goto, States
  <2>. QED  BY <2>2, <2>3, <2>4 DEF Inductive
<1>3. ASSUME NEW pat \in Patterns, WriteCall(p, pat)
      PROVE  Inductive'
  <2>1. /\ arg' \in [Proc -> SUBSET Leds] /\ arg'[p] = Leds \ pat
        /\ \A q \in Proc \ {p} : arg'[q] = arg[q]
        /\ Leds \ pat \in SUBSET Leds
    BY <1>1, <1>3 DEF WriteCall, Types
  <2>2. Ask(Leds \ pat) /\ Goto(p, Idle, "write") /\ UNCHANGED <<loaded, refs, con, dat, tmp>>
    BY <1>3 DEF WriteCall
  <2>. QED  BY <1>2, <2>1, <2>2
<1>4. ASSUME NEW pat \in Patterns, SetCall(p, pat)
      PROVE  Inductive'
  <2>1. /\ arg' \in [Proc -> SUBSET Leds] /\ arg'[p] = Leds \ pat
        /\ \A q \in Proc \ {p} : arg'[q] = arg[q]
        /\ Leds \ pat \in SUBSET Leds
    BY <1>1, <1>4 DEF SetCall, Types
  <2>2. Ask(Leds \ pat) /\ Goto(p, Idle, "set") /\ UNCHANGED <<loaded, refs, con, dat, tmp>>
    BY <1>4 DEF SetCall
  <2>. QED  BY <1>2, <2>1, <2>2
<1>5. CASE BlankCall(p)
  <2>1. arg' \in [Proc -> SUBSET Leds] /\ arg' = arg
    BY <1>1, <1>5 DEF BlankCall, Types
  <2>2. Ask(Leds) /\ Goto(p, Idle, "blank") /\ UNCHANGED <<loaded, refs, con, dat, tmp>>
    BY <1>5 DEF BlankCall
  <2>. QED  BY <1>2, <2>1, <2>2
<1>. QED  BY <1>3, <1>4, <1>5

LEMMA GoesOnOK ==
  ASSUME Inductive, NEW p \in Proc,
         \/ WriteLoad(p) \/ WriteClear(p) \/ WriteReload(p)
         \/ BlankConfigure(p) \/ BlankLoad(p) \/ SetConfigure(p)
  PROVE  Inductive'
<1>1. Types /\ RefsHeld /\ Pattern /\ CallOK(p)
  BY PatternOf
<1>2. /\ dat \in SUBSET Leds /\ tmp \in [Proc -> SUBSET Leds]
      /\ tmp[p] \in SUBSET Leds /\ con \in SUBSET Leds
      /\ arg \in [Proc -> SUBSET Leds] /\ pc \in [Proc -> States]
  BY <1>1 DEF Types
<1>3. ASSUME NEW s \in Storing, pc[p] \in Storing, pc' = [pc EXCEPT ![p] = s],
             UNCHANGED <<loaded, refs, arg, asked>>, con' \in SUBSET Leds,
             \/ tmp' = tmp \/ tmp' = [tmp EXCEPT ![p] = dat],
             \/ dat' = dat \/ dat' = {},
             CallOK(p)'
      PROVE  Inductive'
  <2>1. RefsHeld'
    BY <1>1, <1>3, InsideRefs
  <2>2. dat' = dat \/ dat' \in Mix(asked)
    BY <1>3, MixFacts
  <2>3. \A q \in Proc \ {p} : tmp'[q] = tmp[q]
    BY <1>2, <1>3
  <2>4. Pattern'
    BY <1>1, <1>3, <2>2, <2>3, GoOnKeeps
  <2>5. Types'
    BY <1>1, <1>2, <1>3 DEF Types, States
  <2>. QED  BY <2>1, <2>4, <2>5 DEF Inductive
<1>4. CASE WriteLoad(p)
  <2>1. pc[p] = "write" /\ pc'[p] = "clear"
    BY <1>2, <1>4 DEF WriteLoad, Goto
  <2>2. CallOK(p)'
    BY <1>1, <1>4, <2>1 DEF WriteLoad, CallOK, Writing, Blanking
  <2>. QED  BY <1>2, <1>3, <1>4, <2>1, <2>2 DEF WriteLoad, Goto, Storing
<1>5. CASE WriteClear(p)
  <2>1. pc[p] = "clear" /\ pc'[p] = "load" /\ dat' = {}
    BY <1>2, <1>5 DEF WriteClear, Goto
  <2>2. CallOK(p)'
    BY <1>1, <1>5, <2>1, MixFacts DEF WriteClear, CallOK, Writing, Blanking
  <2>. QED  BY <1>2, <1>3, <1>5, <2>1, <2>2 DEF WriteClear, Goto, Storing
<1>6. CASE WriteReload(p)
  <2>1. pc[p] = "load" /\ pc'[p] = "merge" /\ tmp'[p] = dat
    BY <1>2, <1>6 DEF WriteReload, Goto
  <2>2. CallOK(p)'
    BY <1>1, <1>6, <2>1 DEF WriteReload, CallOK, Writing, Blanking
  <2>. QED  BY <1>2, <1>3, <1>6, <2>1, <2>2 DEF WriteReload, Goto, Storing
<1>7. CASE BlankConfigure(p)
  <2>1. pc[p] = "blank" /\ pc'[p] = "blankload"
    BY <1>2, <1>7 DEF BlankConfigure, Goto
  <2>2. CallOK(p)'
    BY <1>1, <1>7, <2>1 DEF BlankConfigure, CallOK, Writing, Blanking
  <2>. QED  BY <1>2, <1>3, <1>7, <2>1, <2>2 DEF BlankConfigure, Goto, Storing
<1>8. CASE BlankLoad(p)
  <2>1. pc[p] = "blankload" /\ pc'[p] = "blankmerge"
    BY <1>2, <1>8 DEF BlankLoad, Goto
  <2>2. CallOK(p)'
    BY <1>1, <1>8, <2>1 DEF BlankLoad, CallOK, Writing, Blanking
  <2>. QED  BY <1>2, <1>3, <1>8, <2>1, <2>2 DEF BlankLoad, Goto, Storing
<1>9. CASE SetConfigure(p)
  <2>1. pc[p] = "set" /\ pc'[p] = "setdata"
    BY <1>2, <1>9 DEF SetConfigure, Goto
  <2>2. CallOK(p)'
    BY <1>1, <1>9, <2>1 DEF SetConfigure, CallOK, Writing, Blanking
  <2>. QED  BY <1>2, <1>3, <1>9, <2>1, <2>2 DEF SetConfigure, Goto, Storing
<1>. QED  BY <1>4, <1>5, <1>6, <1>7, <1>8, <1>9

LEMMA FinishesOK ==
  ASSUME Inductive, NEW p \in Proc, WriteMerge(p) \/ BlankMerge(p) \/ SetData(p)
  PROVE  Inductive'
<1>1. Types /\ RefsHeld /\ Pattern /\ CallOK(p)
  BY PatternOf
<1>2. /\ asked \subseteq SUBSET Leds /\ tmp[p] \in SUBSET Leds
      /\ arg[p] \in SUBSET Leds /\ Idle \in States
  BY <1>1 DEF Types, States
<1>3. ASSUME pc[p] \in Storing, pc' = [pc EXCEPT ![p] = Idle],
             UNCHANGED <<loaded, refs, con, arg, tmp, asked>>, dat' \in Merges(asked)
      PROVE  Inductive'
  <2>1. RefsHeld'
    BY <1>1, <1>3, InsideRefs
  <2>2. Pattern'
    BY <1>1, <1>3, FinishKeeps
  <2>3. dat' \in SUBSET Leds
    BY <1>2, <1>3 DEF Merges
  <2>4. Types'
    BY <1>1, <1>2, <1>3, <2>3 DEF Types
  <2>. QED  BY <2>1, <2>2, <2>4 DEF Inductive
<1>4. CASE WriteMerge(p)
  <2>1. tmp[p] \in Mix(asked) /\ arg[p] \in asked
    BY <1>1, <1>4 DEF WriteMerge, Goto, CallOK, Writing
  <2>2. dat' \in Merges(asked)
    BY <1>4, <2>1, MixFacts DEF WriteMerge
  <2>. QED  BY <1>3, <1>4, <2>2 DEF WriteMerge, Goto, Storing
<1>5. CASE BlankMerge(p)
  <2>1. Leds \in asked
    BY <1>1, <1>5 DEF BlankMerge, Goto, CallOK, Blanking
  <2>2. dat' = Leds
    BY <1>2, <1>5 DEF BlankMerge
  <2>3. dat' \in Merges(asked)
    BY <2>1, <2>2, MixFacts
  <2>. QED  BY <1>3, <1>5, <2>3 DEF BlankMerge, Goto, Storing
<1>6. CASE SetData(p)
  <2>1. arg[p] \in asked
    BY <1>1, <1>6 DEF SetData, Goto, CallOK, Writing
  <2>2. dat' \in Merges(asked)
    BY <1>6, <2>1, MixFacts DEF SetData
  <2>. QED  BY <1>3, <1>6, <2>2 DEF SetData, Goto, Storing
<1>. QED  BY <1>4, <1>5, <1>6

LEMMA NextInductive == Inductive /\ [Next]_vars => Inductive'
<1> SUFFICES ASSUME Inductive, [Next]_vars PROVE Inductive'
  OBVIOUS
<1>1. CASE UNCHANGED vars
  BY <1>1 DEF vars, Inductive, Types, RefsHeld, Unreferenced, Half, Pattern, CallOK,
              RestPattern, AtRest
<1>2. ASSUME NEW p \in Proc, Open(p) \/ Close(p) \/ Write(p) \/ Blank(p) \/ Set(p)
      PROVE  Inductive'
  BY <1>2, OpenCloseOK, EntersOK, GoesOnOK, FinishesOK DEF Write, Blank, Set
<1>. QED  BY <1>1, <1>2, ModuleOK DEF Next

LEMMA AlwaysInductive == Spec => []Inductive
BY InitInductive, NextInductive, PTL DEF Spec

(* The registers hold LED pins and the count is between 0 and two per user.*)
THEOREM TypeCorrect == Spec => []TypeOK
<1>1. Inductive => TypeOK
  BY RefsBounded DEF Inductive, Types, TypeOK, States
<1>. QED  BY <1>1, AlwaysInductive, PTL

(* No call ever runs in a module that was removed, and the references of   *)
(* all files add up.                                                       *)
THEOREM RefsSound == Spec => []RefsHeld
<1>. QED  BY AlwaysInductive, PTL DEF Inductive

(* Whatever calls raced, what they leave on the LEDs is a merge of what    *)
(* they asked for.                                                         *)
THEOREM RestSound == Spec => []RestPattern
<1>. QED  BY AlwaysInductive, PTL DEF Inductive, Pattern

-----------------------------------------------------------------------------
(* The key and LED demo                                                    *)

(* The inductive invariant of the scanner, and of the scanner and the LEDs.*)
ScannerOK == /\ key \in Buttons \cup {NoKey} /\ key_state \in 0 .. 2
             /\ hold \in [seen : SUBSET Buttons, alone : SUBSET Buttons, long : BOOLEAN]
             /\ HoldsTracked
             /\ LatchedFromThisHold

PanelInductive == PanelTypeOK /\ HoldsTracked /\ LatchedFromThisHold /\ LampsFollowState

(* The names of the buttons are different strings.                         *)
LEMMA Names ==
  /\ NoKey \notin Buttons
  /\ \A b \in Buttons : {b} # {}
  /\ \A b, c \in Buttons : {b} = {c} => b = c
BY DEF NoKey, Buttons, UP, LEFT, DOWN, RIGHT, BACK, MENU

LEMMA TheKeyIs ==
  ASSUME NEW s, Single(s)
  PROVE  TheKey(s) \in Buttons /\ s = {TheKey(s)}
BY DEF Single, TheKey

-----------------------------------------------------------------------------
(* keyscan                                                                 *)

(* A zero sample ends the hold and leaves the scanner as it started.       *)
LEMMA ZeroSample ==
  ASSUME ScannerOK
  PROVE  /\ KeyAfter({}) = NoKey
         /\ StateAfter({}) = 0
         /\ HoldAfter({}) = NoHold
         /\ Report({}) = key
<1>1. ~Pressed({}) /\ ~Single({})
  BY Names DEF Pressed, Single
<1>2. key_state = 0 => key = NoKey
  BY DEF ScannerOK, LatchedFromThisHold
<1>3. KeyAfter({}) = NoKey /\ Report({}) = key
  BY <1>1, <1>2 DEF KeyAfter, Report
<1>4. StateAfter({}) = 0
  BY <1>1 DEF StateAfter, ScannerOK
<1>5. HoldAfter({}) = NoHold
  BY <1>1 DEF HoldAfter
<1>. QED  BY <1>3, <1>4, <1>5

(* A non-zero sample reports nothing.                                      *)
LEMMA HeldSample ==
  ASSUME NEW s, s # {}
  PROVE  Pressed(s) /\ Report(s) = NoKey
BY DEF Pressed, Report

(* The scanner's invariant survives any sample.                            *)
LEMMA ScanKeeps ==
  ASSUME ScannerOK, NEW s \in SUBSET Buttons,
         key' = KeyAfter(s), key_state' = StateAfter(s), hold' = HoldAfter(s)
  PROVE  ScannerOK'
<1>1. CASE s = {}
  <2>1. key' = NoKey /\ key_state' = 0 /\ hold' = NoHold
    BY <1>1, ZeroSample
  <2>. QED  BY <2>1, Names DEF ScannerOK, HoldsTracked, LatchedFromThisHold, NoHold
<1>2. CASE s # {}
  <2>1. hold' = [seen  |-> hold.seen \cup s,
                 alone |-> IF Single(s) THEN hold.alone \cup s ELSE hold.alone,
                 long  |-> hold.seen # {}]
    BY <1>2, HeldSample DEF HoldAfter
  <2>2. /\ hold'.seen = hold.seen \cup s /\ hold'.long = (hold.seen # {})
        /\ hold'.alone = IF Single(s) THEN hold.alone \cup s ELSE hold.alone
    BY <2>1
  <2>3. hold' \in [seen : SUBSET Buttons, alone : SUBSET Buttons, long : BOOLEAN]
    BY <2>1 DEF ScannerOK
  <2>4. hold'.seen # {}
    BY <1>2, <2>2
  <2>5. /\ hold.seen \subseteq Buttons /\ hold.alone \subseteq hold.seen
        /\ hold.seen = {} => ~hold.long
    BY DEF ScannerOK, HoldsTracked, NoHold
  <2>6. \A b : hold'.seen = {b} => s = {b} /\ (hold.seen = {} \/ hold.seen = {b})
    BY <1>2, <2>2
  <2>7. CASE key_state = 0
    <3>1. key_state' = 1 /\ key' = NoKey
      BY <1>2, <2>7, HeldSample
         DEF StateAfter, KeyAfter, ScannerOK, LatchedFromThisHold
    <3>2. \A b \in Buttons : hold.long => hold.seen # {b}
      BY <2>7 DEF ScannerOK, HoldsTracked
    <3>3. hold.seen # {} => hold.long
      BY <2>7 DEF ScannerOK, HoldsTracked
    <3>4. \A b \in Buttons : ~(hold'.long /\ hold'.seen = {b})
      BY <2>2, <2>6, <3>2, <3>3
    <3>5. hold'.alone \subseteq hold'.seen
      BY <2>2, <2>5
    <3>6. HoldsTracked'
      BY <2>4, <3>1, <3>4, <3>5 DEF HoldsTracked
    <3>7. LatchedFromThisHold'
      BY <3>1 DEF LatchedFromThisHold
    <3>. QED  BY <2>3, <3>1, <3>6, <3>7 DEF ScannerOK
  <2>8. CASE key_state = 1
    <3>1. hold.seen # {} /\ hold'.long /\ key = NoKey
      <4>1. hold.seen # {}
        BY <2>8 DEF ScannerOK, HoldsTracked
      <4>2. key = NoKey
        BY <2>8 DEF ScannerOK, LatchedFromThisHold
      <4>. QED  BY <2>2, <4>1, <4>2
    <3>2. CASE Single(s)
      <4>1. key_state' = 2 /\ key' = TheKey(s)
        BY <2>8, <3>2 DEF StateAfter, KeyAfter
      <4>2. TheKey(s) \in Buttons /\ s = {TheKey(s)} /\ TheKey(s) # NoKey
        BY <3>2, TheKeyIs, Names
      <4>3. \A b \in Buttons : hold'.seen = {b} => key' = b
        BY <2>6, <4>1, <4>2, Names
      <4>4. key' \in hold'.alone /\ hold'.alone \subseteq hold'.seen
        BY <2>2, <2>5, <3>2, <4>1, <4>2
      <4>5. HoldsTracked'
        BY <2>4, <3>1, <4>1, <4>3, <4>4 DEF HoldsTracked
      <4>6. LatchedFromThisHold'
        BY <4>1, <4>2, <4>4 DEF LatchedFromThisHold
      <4>. QED  BY <2>3, <4>1, <4>2, <4>5, <4>6 DEF ScannerOK
    <3>3. CASE ~Single(s)
      <4>1. key_state' = 0 /\ key' = NoKey
        BY <1>2, <2>8, <3>1, <3>3, HeldSample DEF StateAfter, KeyAfter
      <4>2. \A b \in Buttons : hold'.seen # {b}
        BY <2>6, <3>3 DEF Single
      <4>3. hold'.alone \subseteq hold'.seen
        BY <2>2, <2>5
      <4>4. HoldsTracked'
        BY <2>4, <3>1, <4>1, <4>2, <4>3 DEF HoldsTracked
      <4>5. LatchedFromThisHold'
        BY <4>1 DEF LatchedFromThisHold
      <4>. QED  BY <2>3, <4>1, <4>4, <4>5 DEF ScannerOK
    <3>. QED  BY <3>2, <3>3
  <2>9. CASE key_state = 2
    <3>1. /\ hold.seen # {} /\ hold.long /\ key # NoKey /\ key \in hold.alone
          /\ hold'.long
      BY <2>2, <2>9 DEF ScannerOK, HoldsTracked, LatchedFromThisHold
    <3>2. key_state' = 2 /\ key' = key
      BY <1>2, <2>9, HeldSample DEF StateAfter, KeyAfter
    <3>3. \A b \in Buttons : hold'.seen = {b} => key' = b
      BY <2>6, <3>1, <3>2 DEF ScannerOK, HoldsTracked
    <3>4. key' \in hold'.alone /\ hold'.alone \subseteq hold'.seen
      BY <2>2, <2>5, <3>1, <3>2
    <3>5. HoldsTracked'
      BY <2>4, <3>1, <3>2, <3>3, <3>4 DEF HoldsTracked
    <3>6. LatchedFromThisHold'
      BY <3>1, <3>2, <3>4 DEF LatchedFromThisHold
    <3>. QED  BY <2>3, <3>2, <3>5, <3>6 DEF ScannerOK
  <2>. QED  BY <2>7, <2>8, <2>9 DEF ScannerOK
<1>. QED  BY <1>1, <1>2

-----------------------------------------------------------------------------
(* main                                                                    *)

LEMMA LedNumbers ==
  ASSUME NEW n \in 0 .. LED_NUM
  PROVE  LeftOf(n) \in 1 .. LED_NUM /\ RightOf(n) \in 1 .. LED_NUM
BY DEF LeftOf, RightOf, LED_NUM

(* main's switch keeps the LEDs in step with its variables.                *)
LEMMA HandleKeeps ==
  ASSUME PanelInductive, running = TRUE, NEW k \in Buttons \cup {NoKey}, Handle(k),
         last' = IF k = NoKey THEN last ELSE k, fdled' = fdled
  PROVE  /\ led_state' \in 0 .. LED_NUM /\ light_sign' \in {0, LED_NUM}
         /\ lit' \in SUBSET Lamps /\ running' \in BOOLEAN
         /\ last' \in Buttons \cup {NoKey}
         /\ LampsFollowState'
<1>1. /\ led_state \in 0 .. LED_NUM /\ light_sign \in {0, LED_NUM}
      /\ lit \in SUBSET Lamps /\ LampsFollowState /\ last \in Buttons \cup {NoKey}
  BY DEF PanelInductive, PanelTypeOK
<1>2. last' \in Buttons \cup {NoKey}
  BY <1>1
<1>3. CASE k = NoKey
  BY <1>1, <1>3 DEF Handle, LampsFollowState, NoKey, UP, LEFT, DOWN, RIGHT, BACK, MENU
<1>4. CASE k = MENU
  BY <1>1, <1>2, <1>4
     DEF Handle, LampsFollowState, NoKey, UP, LEFT, DOWN, RIGHT, BACK, MENU
<1>5. CASE k = UP
  BY <1>1, <1>2, <1>5
     DEF Handle, LampsFollowState, Lightled, Lamps, LED_NUM,
         NoKey, UP, LEFT, DOWN, RIGHT, BACK, MENU
<1>6. CASE k = DOWN
  BY <1>1, <1>2, <1>6
     DEF Handle, LampsFollowState, Lightled, Lamps, LED_NUM,
         NoKey, UP, LEFT, DOWN, RIGHT, BACK, MENU
<1>7. CASE k = BACK
  BY <1>1, <1>2, <1>7
     DEF Handle, LampsFollowState, Lightled, Lamps, LED_NUM,
         NoKey, UP, LEFT, DOWN, RIGHT, BACK, MENU
<1>8. ASSUME NEW n \in 1 .. LED_NUM, k \in {LEFT, RIGHT}, Move(n)
      PROVE  led_state' \in 0 .. LED_NUM /\ lit' \in SUBSET Lamps /\ LampsFollowState'
  BY <1>1, <1>8
     DEF Move, Masked, LampsFollowState, Lightled, Lamps, LED_NUM,
         NoKey, UP, LEFT, DOWN, RIGHT, BACK, MENU
<1>9. CASE k \in {LEFT, RIGHT}
  <2>1. \E n \in 1 .. LED_NUM : Move(n)
    BY <1>1, <1>9, LedNumbers DEF Handle, NoKey, UP, LEFT, DOWN, RIGHT, BACK, MENU
  <2>2. light_sign' = light_sign /\ running' = running
    BY <2>1 DEF Move
  <2>. QED  BY <1>1, <1>2, <1>8, <1>9, <2>1, <2>2
<1>. QED  BY <1>3, <1>4, <1>5, <1>6, <1>7, <1>9 DEF Buttons

-----------------------------------------------------------------------------
(* The specification                                                       *)

LEMMA SampleType ==
  ASSUME PanelInductive, h0 # <<>>
  PROVE  Samples \subseteq SUBSET Buttons
<1>1. h0[1] \in SUBSET H0 /\ down \in SUBSET Buttons
  BY DEF PanelInductive, PanelTypeOK
<1>2. h0[1] \cup (down \cap H2) \in SUBSET Buttons
  BY <1>1 DEF H0, Buttons
<1>3. Garbage \subseteq SUBSET Buttons
  BY PanelAssumption
<1>. QED  BY <1>2, <1>3 DEF Samples

LEMMA ReportType ==
  ASSUME PanelInductive, NEW s
  PROVE  Report(s) \in Buttons \cup {NoKey}
BY DEF PanelInductive, PanelTypeOK, Report

LEMMA InitPanel == PanelInit => PanelInductive
<1> SUFFICES ASSUME PanelInit PROVE PanelInductive
  OBVIOUS
<1>1. NoHold \in [seen : SUBSET Buttons, alone : SUBSET Buttons, long : BOOLEAN]
  BY DEF NoHold
<1>2. PanelTypeOK
  BY <1>1, PanelAssumption DEF PanelInit, PanelTypeOK, LED_NUM
<1>3. hold.seen = {} /\ hold.alone = {} /\ ~hold.long
  BY DEF PanelInit, NoHold
<1>4. HoldsTracked /\ LatchedFromThisHold
  BY <1>3 DEF PanelInit, HoldsTracked, LatchedFromThisHold
<1>5. LampsFollowState
  <2>1. fdled => lit = {}
    BY DEF PanelInit
  <2>2. last = NoKey
    BY DEF PanelInit
  <2>3. (CASE ~running \/ last = NoKey -> {}
           [] last = BACK -> Lamps
           [] OTHER -> IF light_sign = 0 THEN {} ELSE Lamps \cap {led_state}) = {}
    BY <2>2 DEF NoKey, BACK
  <2>. QED  BY <2>1, <2>3 DEF LampsFollowState
<1>. QED  BY <1>2, <1>4, <1>5 DEF PanelInductive

LEMMA ScanOK ==
  ASSUME PanelInductive, Scan
  PROVE  PanelInductive'
<1>1. PICK s \in SUBSET Buttons : ScanOf(s)
  BY SampleType DEF Scan
<1>2. ScannerOK
  BY DEF PanelInductive, PanelTypeOK, ScannerOK
<1>3. ScannerOK'
  BY <1>1, <1>2, ScanKeeps DEF ScanOf
<1>4. Report(s) \in Buttons \cup {NoKey}
  BY ReportType
<1>5. Handle(Report(s)) /\ fdled' = fdled
      /\ last' = (IF Report(s) = NoKey THEN last ELSE Report(s))
  BY <1>1 DEF ScanOf
<1>6. running = TRUE
  BY DEF Scan, PanelInductive, PanelTypeOK
<1>7. /\ led_state' \in 0 .. LED_NUM /\ light_sign' \in {0, LED_NUM}
      /\ lit' \in SUBSET Lamps /\ running' \in BOOLEAN
      /\ last' \in Buttons \cup {NoKey}
      /\ LampsFollowState'
  BY <1>4, <1>5, <1>6, HandleKeeps
<1>8. PanelTypeOK'
  BY <1>1, <1>3, <1>4, <1>7 DEF ScanOf, PanelInductive, PanelTypeOK, ScannerOK
<1>. QED  BY <1>3, <1>7, <1>8 DEF ScannerOK, PanelInductive

LEMMA NextPanel == PanelInductive /\ [PanelNext]_panelvars => PanelInductive'
<1> SUFFICES ASSUME PanelInductive, [PanelNext]_panelvars PROVE PanelInductive'
  OBVIOUS
<1>1. CASE ReadH0
  <2>1. h0' \in {<<t>> : t \in SUBSET H0}
    BY <1>1 DEF ReadH0
  <2>2. PanelTypeOK'
    BY <1>1, <2>1 DEF ReadH0, PanelInductive, PanelTypeOK
  <2>. QED  BY <1>1, <2>2
            DEF ReadH0, PanelInductive, HoldsTracked, LatchedFromThisHold, LampsFollowState
<1>2. CASE Finger
  <2>1. down' \in SUBSET Buttons
    BY <1>2, PanelAssumption DEF Finger
  <2>2. PanelTypeOK'
    BY <1>2, <2>1 DEF Finger, PanelInductive, PanelTypeOK
  <2>. QED  BY <1>2, <2>2
            DEF Finger, PanelInductive, HoldsTracked, LatchedFromThisHold, LampsFollowState
<1>3. CASE UNCHANGED panelvars
  BY <1>3 DEF panelvars, PanelInductive, PanelTypeOK, HoldsTracked,
              LatchedFromThisHold, LampsFollowState
<1>. QED  BY <1>1, <1>2, <1>3, ScanOK DEF PanelNext

LEMMA AlwaysPanel == PanelSpec => []PanelInductive
BY InitPanel, NextPanel, PTL DEF PanelSpec

(* The variables of the scanner and of main keep their ranges.             *)
THEOREM PanelTyped == PanelSpec => []PanelTypeOK
<1>. QED  BY AlwaysPanel, PTL DEF PanelInductive

(* The key keyscan is about to report was alone in the present hold.       *)
THEOREM LatchSound == PanelSpec => []LatchedFromThisHold
<1>. QED  BY AlwaysPanel, PTL DEF PanelInductive

(* The LEDs agree with the menu after any keys in any order.               *)
THEOREM LampsSound == PanelSpec => []LampsFollowState
<1>. QED  BY AlwaysPanel, PTL DEF PanelInductive

(* What a scan does when it ends a hold.                                   *)
LEMMA ScanEnds ==
  ASSUME PanelInductive, Scan, hold' = NoHold
  PROVE  ret' = key
<1>1. PICK s \in SUBSET Buttons : ScanOf(s)
  BY SampleType DEF Scan
<1>2. ScannerOK
  BY DEF PanelInductive, PanelTypeOK, ScannerOK
<1>3. s = {}
  <2> SUFFICES ASSUME s # {} PROVE FALSE
    OBVIOUS
  <2>1. HoldAfter(s).seen = hold.seen \cup s
    BY HeldSample DEF HoldAfter
  <2>. QED  BY <1>1, <2>1 DEF ScanOf, NoHold
<1>. QED  BY <1>1, <1>2, <1>3, ZeroSample DEF ScanOf

(* A key is reported only when a hold of at least two samples ends in which*)
(* it was alone: bounces and chords cannot act.                            *)
THEOREM ReportsSound == PanelSpec => ReportsAreDebounced
<1>1. ASSUME PanelInductive, [PanelNext]_panelvars, h0 # h0', h0' = <<>>, ret' # NoKey
      PROVE  hold.long /\ hold' = NoHold /\ ret' \in hold.alone
  <2>1. Scan
    BY <1>1 DEF PanelNext, ReadH0, Finger, panelvars
  <2>2. PICK s \in SUBSET Buttons : ScanOf(s)
    BY <1>1, <2>1, SampleType DEF Scan
  <2>3. ScannerOK
    BY <1>1 DEF PanelInductive, PanelTypeOK, ScannerOK
  <2>4. s = {}
    BY <1>1, <2>2, HeldSample DEF ScanOf
  <2>5. hold' = NoHold /\ ret' = key
    BY <2>2, <2>3, <2>4, ZeroSample DEF ScanOf
  <2>. QED  BY <1>1, <2>3, <2>5 DEF ScannerOK, HoldsTracked, LatchedFromThisHold
<1>. QED  BY <1>1, AlwaysPanel, PTL DEF PanelSpec, ReportsAreDebounced

(* A hold of one button for at least two samples is reported when it ends. *)
THEOREM HoldsSound == PanelSpec => HoldsAreReported
<1>1. ASSUME PanelInductive, [PanelNext]_panelvars, hold.long, hold' = NoHold
      PROVE  \A b \in Buttons : hold.seen = {b} => ret' = b
  <2>1. hold' # hold
    BY <1>1 DEF NoHold
  <2>2. Scan
    BY <1>1, <2>1 DEF PanelNext, ReadH0, Finger, panelvars
  <2>3. ret' = key
    BY <1>1, <2>2, ScanEnds
  <2>. QED  BY <1>1, <2>3 DEF PanelInductive, HoldsTracked
<1>. QED  BY <1>1, AlwaysPanel, PTL DEF PanelSpec, HoldsAreReported
=============================================================================

----------------------------- MODULE ChangeMap -----------------------------
(***************************************************************************)
(* The second loop of change_map() in touchscreen/pop.c, which deals the N *)
(* blocks in a random order: it draws a number, walks on from there to a   *)
(* block that has not been taken (its reset_flag is still set) and puts    *)
(* that block at index i.  The walk has no bound of its own: it ends only  *)
(* because some flag is set.                                               *)
(***************************************************************************)
EXTENDS Integers, FiniteSets

CONSTANT N      \* BLOCK_NUMBER

ASSUME NAssumption == N \in Nat \ {0}

Index == 0 .. (N - 1)

StepCap == N + 1   \* bound of the history variable steps

VARIABLES
  i, random,    \* the loop's locals
  reset_flag,   \* the flags of the blocks that have not been taken
  block,        \* map->Block: the old index of the block at each new one
  pc,           \* "draw", "probe" or "done"
  start,        \* history: where this walk started
  steps         \* history: the steps this walk has made, up to StepCap

vars == <<i, random, reset_flag, block, pc, start, steps>>

(* The first loop has copied every block and set every flag; the blocks are*)
(* still where they were.                                                  *)
Init == /\ i = 0
        /\ random = 0
        /\ reset_flag = [k \in Index |-> TRUE]
        /\ block = [k \in Index |-> k]
        /\ pc = "draw"
        /\ start = 0
        /\ steps = 0

(* random = rand() % BLOCK_NUMBER                                          *)
Draw == /\ pc = "draw" /\ i < N
        /\ random' \in Index
        /\ pc' = "probe"
        /\ start' = random'
        /\ steps' = 0
        /\ UNCHANGED <<i, reset_flag, block>>

(* Mutant: the walk steps by two blocks.                                  *)
AfterTwo(k) == (k + 2) % N

After(k) == (k + 1) % N

Walk == /\ pc = "probe" /\ ~reset_flag[random]
        /\ random' = After(random)
        /\ steps' = IF steps < StepCap THEN steps + 1 ELSE steps
        /\ UNCHANGED <<i, reset_flag, block, pc, start>>

(* Mutant: the flag of the block that is taken stays set.                  *)
PlaceKeepFlag ==
         /\ pc = "probe" /\ reset_flag[random]
         /\ block' = [block EXCEPT ![i] = random]
         /\ i' = i + 1
         /\ pc' = "draw"
         /\ UNCHANGED <<random, reset_flag, start, steps>>

Place == /\ pc = "probe" /\ reset_flag[random]
         /\ block' = [block EXCEPT ![i] = random]
         /\ reset_flag' = [reset_flag EXCEPT ![random] = FALSE]
         /\ i' = i + 1
         /\ pc' = "draw"
         /\ UNCHANGED <<random, start, steps>>

Leave == /\ pc = "draw" /\ i = N
         /\ pc' = "done"
         /\ UNCHANGED <<i, random, reset_flag, block, start, steps>>

Next == Draw \/ Walk \/ Place \/ Leave

Spec == Init /\ [][Next]_vars

(* A sequential function: it runs as long as it can take a step.           *)
FairSpec == Spec /\ WF_vars(Next)

-----------------------------------------------------------------------------
(* Properties                                                              *)

(* The loop's locals and the two arrays keep their ranges.                 *)
TypeOK == /\ i \in 0 .. N
          /\ random \in Index
          /\ reset_flag \in [Index -> BOOLEAN]
          /\ block \in [Index -> Index]
          /\ pc \in {"draw", "probe", "done"}
          /\ start \in Index
          /\ steps \in 0 .. StepCap

Dealt == 0 .. (i - 1)

(* The flags that are clear are those of the blocks placed so far, and no  *)
(* block is placed at two indices.                                         *)
FlagsAgree ==
  /\ \A k \in Index : ~reset_flag[k] <=> \E j \in Dealt : block[j] = k
  /\ \A j, k \in Dealt : block[j] = block[k] => j = k

(* The block that a walk from start has reached after d steps.             *)
Passed(d) == IF start + d < N THEN start + d ELSE start + d - N

(* The blocks a walk has passed were taken already, and it has not come    *)
(* back to where it started.                                               *)
WalkPassedTaken ==
  pc = "probe" => /\ i < N /\ steps < N /\ random = Passed(steps)
                  /\ \A d \in 0 .. (steps - 1) : ~reset_flag[Passed(d)]

(* What is dealt in the end is one of PopGame's Shuffles: every block is at*)
(* some index and none is lost.                                            *)
EndsInShuffle ==
  pc = "done" => /\ \A j, k \in Index : block[j] = block[k] => j = k
                 /\ \A k \in Index : \E j \in Index : block[j] = k

(* A walk passes only blocks that are taken, each at most once, so it is   *)
(* never longer than the number of blocks dealt.                           *)
WalkIsShort == steps <= i

(* change_map returns, although the walk is a loop without a bound.        *)
Terminates == <>(pc = "done")
=============================================================================

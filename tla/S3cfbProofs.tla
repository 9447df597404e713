---------------------------- MODULE S3cfbProofs ----------------------------
(***************************************************************************)
(* What the frame buffer driver guarantees for any number of windows,      *)
(* processes, calls and overtaken calls, and for every geometry: the       *)
(* registers follow the driver's structures, memory that was given back is *)
(* not scanned, and in_use counts the files, but for the windows that the  *)
(* three properties except (touched, missed, lost); and what a probe that  *)
(* fails gives back.                                                       *)
(*                                                                         *)
(* A call is a sequence of steps, and the states in which it is after each *)
(* step are its trace.  A call on one window spares all others (Beside),   *)
(* and does the same to its window whatever the others look like           *)
(* (RunAlike), so what is left of an overtaken call still ends as the      *)
(* whole would have (Owned).  Each function is shown once to be Sound: it  *)
(* leaves its window as it should be.                                      *)
(***************************************************************************)
EXTENDS S3cfbProbe, TLAPS, WellFoundedInduction, SequenceTheorems, FiniteSetTheorems

-----------------------------------------------------------------------------
(* Calls are sequences of steps: what holds along them                     *)

(* What holds of 0, and of n + 1 if of n, holds of every number up to L:   *)
(* induction over the numbers, from the least that is not in T.            *)
LEMMA CountUp ==
  ASSUME NEW L \in Nat, NEW T, 0 \in T, \A n \in 0 .. L - 1 : n \in T => n + 1 \in T
  PROVE  \A n \in 0 .. L : n \in T
<1> DEFINE B == (0 .. L) \ T
<1> SUFFICES ASSUME B # {}
             PROVE  FALSE
  OBVIOUS
<1>1. PICK x \in B : \A y \in B : <<y, x>> \notin OpToRel(<, Nat)
  <2>1. B \subseteq Nat
    OBVIOUS
  <2>. HIDE DEF B
  <2>. QED  BY <2>1, NatLessThanWellFounded, WFMin
<1>2. x \in 1 .. L /\ x - 1 \in 0 .. L - 1
  OBVIOUS
<1>3. x - 1 \in B
  BY <1>2
<1>4. <<x - 1, x>> \in OpToRel(<, Nat)
  BY <1>2, <1>3 DEF OpToRel
<1>. QED  BY <1>1, <1>3, <1>4

(* One step of a call, as RunAll takes it                                  *)
Step(a, s, o) == IF o.do = "restore" THEN Restore(a, s, o) ELSE Exec(a, s, o)

(* f holds the states in which the agent is after each step of a call      *)
Trace(f, a, s, steps) ==
  f = [n \in 0 .. Len(steps) |-> IF n = 0 THEN s ELSE Step(a, f[n - 1], steps[n])]

(* Every call has a trace.                                                 *)
LEMMA TraceExists ==
  ASSUME NEW a, NEW s, NEW steps, Len(steps) \in Nat
  PROVE  \E f : Trace(f, a, s, steps)
<1> DEFINE L == Len(steps)
           IsUpTo(f, n) == f = [m \in 0 .. n |-> IF m = 0 THEN s ELSE Step(a, f[m - 1], steps[m])]
           T == {n \in Nat : \E f : IsUpTo(f, n)}
<1>1. 0 \in T
  <2>1. IsUpTo([m \in 0 .. 0 |-> s], 0)
    OBVIOUS
  <2>. QED  BY <2>1
<1>2. ASSUME NEW n \in 0 .. L - 1, n \in T
      PROVE  n + 1 \in T
  <2>1. PICK f : IsUpTo(f, n)
    BY <1>2
  <2> DEFINE g == [m \in 0 .. n + 1 |-> IF m = n + 1 THEN Step(a, f[n], steps[m]) ELSE f[m]]
  <2>2. ASSUME NEW m \in 0 .. n + 1
        PROVE  g[m] = IF m = 0 THEN s ELSE Step(a, g[m - 1], steps[m])
    <3>0. n \in Nat
      BY <1>2
    <3>1. CASE m = n + 1
      <4>1. m # 0 /\ m - 1 = n /\ n \in 0 .. n + 1 /\ n # n + 1
        BY <3>0, <3>1
      <4>2. g[n] = f[n] /\ g[m] = Step(a, f[n], steps[m])
        BY <4>1, <3>1, <2>2
      <4>. QED  BY <4>1, <4>2
    <3>2. CASE m # n + 1
      <4>1. m \in 0 .. n /\ g[m] = f[m]
        BY <3>0, <3>2, <2>2
      <4>2. f[m] = IF m = 0 THEN s ELSE Step(a, f[m - 1], steps[m])
        BY ONLY <2>1, <4>1
      <4>3. m # 0 => m - 1 \in 0 .. n + 1 /\ m - 1 # n + 1
        BY <3>0, <4>1
      <4>4. m # 0 => g[m - 1] = f[m - 1]
        BY <4>3
      <4>. QED  BY <4>1, <4>2, <4>4
    <3>. QED  BY <3>1, <3>2
  <2>3. IsUpTo(g, n + 1)
    <3> HIDE DEF g
    <3>1. g = [m \in 0 .. n + 1 |-> g[m]]
      BY DEF g
    <3>. QED  BY <3>1, <2>2
  <2>4. \E gg : IsUpTo(gg, n + 1)
    <3> HIDE DEF g, IsUpTo
    <3>. QED  BY <2>3
  <2>5. n + 1 \in Nat
    OBVIOUS
  <2>. QED  BY ONLY <2>4, <2>5
<1>3. \A n \in 0 .. L : n \in T
  <2> HIDE DEF T
  <2>. QED  BY <1>1, <1>2, CountUp
<1>. QED  BY <1>3 DEF Trace

(* RunAll ends in the last state of one.                                   *)
LEMMA RunIsTrace ==
  ASSUME NEW a, NEW s, NEW steps, Len(steps) \in Nat
  PROVE  \E f : Trace(f, a, s, steps) /\ RunAll(a, s, steps) = f[Len(steps)]
<1> DEFINE h == CHOOSE f : f = [n \in 0 .. Len(steps) |->
                   IF n = 0 THEN s ELSE IF steps[n].do = "restore" THEN Restore(a, f[n - 1], steps[n]) ELSE Exec(a, f[n - 1], steps[n])]
<1>1. RunAll(a, s, steps) = h[Len(steps)]
  BY DEF RunAll, Each
<1>2. Trace(h, a, s, steps)
  BY TraceExists DEF Trace, Step
<1>. QED  BY <1>1, <1>2

-----------------------------------------------------------------------------
(* What each step does                                                     *)

(* The registers, the fields of a window, and the states of an agent: the  *)
(* system's variables with the agent's own                                 *)
Regs == FieldRegs \cup ValueRegs
Window == [enabled : BOOLEAN, mem : BOOLEAN, in_use : Nat, x : Int, xres : Int,
           rows : Int, yoffset : Int, format : Formats, alpha : Blends,
           chroma : Keys \cup {0}]

IsState(s) ==
  /\ s = [reg |-> s.reg, win |-> s.win, power |-> s.power, lock |-> s.lock, file |-> s.file,
          cfg |-> s.cfg, start |-> s.start, lost |-> s.lost, missed |-> s.missed]
  /\ s.reg = [r \in Regs |-> s.reg[r]]
  /\ s.win \in [Win -> Window]
  /\ s.power \in BOOLEAN
  /\ s.file \in [Proc -> Win \cup {NULL}]
  /\ s.lost \subseteq Win /\ s.missed \subseteq Win

(* A store reaches the register if there is power.                         *)
Stored(s, r, v) == IF s.power THEN [s.reg EXCEPT ![r] = v] ELSE s.reg

(* t differs from s at most in its registers, windows, lock and local      *)
(* variables                                                               *)
Local(t, s) ==
  /\ IsState(t) /\ t.power = s.power /\ t.file = s.file
  /\ t.lost = s.lost /\ t.missed = s.missed

(* t differs from s in what a store to a register does, and in cfg         *)
Wrote(t, s, r, v) ==
  Local(t, s) /\ t.reg = Stored(s, r, v) /\ t.win = s.win /\ t.start = s.start

(* What each kind of step does to the state: a load                        *)
LEMMA StepLoad ==
  ASSUME NEW a, NEW s, IsState(s), NEW o, o.do = "load",
         NEW t, t = Step(a, s, o)
  PROVE  Local(t, s) /\ t.reg = s.reg /\ t.win = s.win /\ t.start = s.start /\ t.cfg = s.reg[o.reg]
BY DEF Step, Exec, IsState, Local

(* a store to the controller                                               *)
LEMMA WriteIs ==
  ASSUME NEW s, IsState(s), NEW r \in Regs, NEW v, NEW t, t = Write(s, r, v)
  PROVE  Wrote(t, s, r, v) /\ t.cfg = s.cfg
BY DEF Write, IsState, Local, Stored, Wrote

(* a store of fields                                                       *)
LEMMA StepStore ==
  ASSUME NEW a, NEW s, IsState(s), NEW o, o.do = "store", o.reg \in Regs,
         NEW t, t = Step(a, s, o)
  PROVE  Wrote(t, s, o.reg, (s.cfg \ o.clear) \cup o.set) /\ t.cfg = (s.cfg \ o.clear) \cup o.set
<1> DEFINE v == (s.cfg \ o.clear) \cup o.set
           u == Write(s, o.reg, v)
<1>1. t = [u EXCEPT !.cfg = v]
  BY DEF Step, Exec, Fields
<1>2. Wrote(u, s, o.reg, v)
  <2>. HIDE DEF v
  <2>. QED  BY WriteIs
<1>3. Wrote(t, s, o.reg, v) /\ t.cfg = v
  <2>. HIDE DEF u, v
  <2>. QED  BY <1>1, <1>2 DEF Local, IsState, Wrote
<1>. QED  BY <1>3

(* a store of fields with one of the window's settings                     *)
LEMMA StepMerge ==
  ASSUME NEW a, NEW s, IsState(s), NEW o, o.do = "merge", o.reg \in Regs,
         NEW t, t = Step(a, s, o)
  PROVE  /\ Wrote(t, s, o.reg, (s.cfg \ o.clear) \cup ({s.win[o.w][o.f]} \cap o.clear))
         /\ t.cfg = (s.cfg \ o.clear) \cup ({s.win[o.w][o.f]} \cap o.clear)
<1> DEFINE v == (s.cfg \ o.clear) \cup ({s.win[o.w][o.f]} \cap o.clear)
           u == Write(s, o.reg, v)
<1>1. t = [u EXCEPT !.cfg = v]
  BY DEF Step, Exec, Fields
<1>2. Wrote(u, s, o.reg, v)
  <2>. HIDE DEF v
  <2>. QED  BY WriteIs
<1>3. Wrote(t, s, o.reg, v) /\ t.cfg = v
  <2>. HIDE DEF u, v
  <2>. QED  BY <1>1, <1>2 DEF Local, IsState, Wrote
<1>. QED  BY <1>3

(* a store of a value                                                      *)
LEMMA StepPut ==
  ASSUME NEW a, NEW s, IsState(s), NEW o, o.do = "put", o.reg \in Regs,
         NEW t, t = Step(a, s, o)
  PROVE  Wrote(t, s, o.reg, o.v)
<1>1. t = Write(s, o.reg, o.v)
  BY DEF Step, Exec
<1>. QED  BY <1>1, WriteIs

(* a store of a field of the window                                        *)
LEMMA StepCopy ==
  ASSUME NEW a, NEW s, IsState(s), NEW o, o.do = "copy", o.reg \in Regs,
         NEW t, t = Step(a, s, o)
  PROVE  Wrote(t, s, o.reg, s.win[o.w][o.f])
<1>1. t = Write(s, o.reg, s.win[o.w][o.f])
  BY DEF Step, Exec
<1>. QED  BY <1>1, WriteIs

(* a store of the address computed before                                  *)
LEMMA StepStart ==
  ASSUME NEW a, NEW s, IsState(s), NEW o, o.do = "start", o.reg \in Regs,
         NEW t, t = Step(a, s, o)
  PROVE  Wrote(t, s, o.reg, s.start)
<1>1. t = Write(s, o.reg, s.start)
  BY DEF Step, Exec
<1>. QED  BY <1>1, WriteIs

(* the computation of that address                                         *)
LEMMA StepAddress ==
  ASSUME NEW a, NEW s, IsState(s), NEW o, o.do = "address",
         NEW t, t = Step(a, s, o)
  PROVE  Local(t, s) /\ t.reg = s.reg /\ t.win = s.win /\ t.start = Address(s.win[o.w])
BY DEF Step, Exec, IsState, Local

(* t differs from s in a field of window w                                 *)
Changed(t, s, w, f, v) ==
  /\ Local(t, s) /\ t.reg = s.reg /\ t.start = s.start
  /\ t.win = [s.win EXCEPT ![w] = [s.win[w] EXCEPT ![f] = v]]

(* an assignment to a field of the window                                  *)
LEMMA StepAssign ==
  ASSUME NEW a, NEW s, IsState(s), NEW o, o.do = "assign", o.w \in Win,
         [s.win[o.w] EXCEPT ![o.f] = o.v] \in Window,
         NEW t, t = Step(a, s, o)
  PROVE  Changed(t, s, o.w, o.f, o.v)
BY DEF Step, Exec, IsState, Local, Changed

(* an allocation, that may fail                                            *)
LEMMA StepMap ==
  ASSUME NEW a, NEW s, IsState(s), NEW o, o.do = "map", o.w \in Win, o.ok \in BOOLEAN,
         NEW t, t = Step(a, s, o)
  PROVE  Changed(t, s, o.w, "mem", s.win[o.w].mem \/ o.ok)
<1>1. t = [s EXCEPT !.win = [s.win EXCEPT ![o.w] = [s.win[o.w] EXCEPT !.mem = s.win[o.w].mem \/ o.ok]]]
  BY DEF Step, Exec
<1>2. PICK b \in BOOLEAN : b = (s.win[o.w].mem \/ o.ok)
  OBVIOUS
<1>3. t = [s EXCEPT !.win = [s.win EXCEPT ![o.w] = [s.win[o.w] EXCEPT !.mem = b]]]
  BY <1>1, <1>2, ZenonT(60)
<1>4. [s.win[o.w] EXCEPT !.mem = b] \in Window
  BY DEF IsState, Window
<1>5. Changed(t, s, o.w, "mem", b)
  BY <1>3, <1>4 DEF IsState, Local, Changed
<1>. QED  BY <1>2, <1>5, ZenonT(60)

(* giving memory back                                                      *)
LEMMA StepUnmap ==
  ASSUME NEW a, NEW s, IsState(s), NEW o, o.do = "unmap", o.w \in Win,
         NEW t, t = Step(a, s, o)
  PROVE  Changed(t, s, o.w, "mem", FALSE)
<1>1. t = [s EXCEPT !.win = [s.win EXCEPT ![o.w] = [s.win[o.w] EXCEPT !.mem = FALSE]]]
  BY DEF Step, Exec
<1>2. PICK b \in BOOLEAN : b = FALSE
  OBVIOUS
<1>3. t = [s EXCEPT !.win = [s.win EXCEPT ![o.w] = [s.win[o.w] EXCEPT !.mem = b]]]
  BY <1>1, <1>2, ZenonT(60)
<1>4. [s.win[o.w] EXCEPT !.mem = b] \in Window
  BY DEF IsState, Window
<1>5. Changed(t, s, o.w, "mem", b)
  BY <1>3, <1>4 DEF IsState, Local, Changed
<1>. QED  BY <1>2, <1>5, ZenonT(60)

(* the lock                                                                *)
LEMMA StepLock ==
  ASSUME NEW a, NEW s, IsState(s), NEW o, o.do \in {"lock", "mutex_init"},
         NEW t, t = Step(a, s, o)
  PROVE  /\ Local(t, s) /\ t.reg = s.reg /\ t.win = s.win /\ t.start = s.start /\ t.cfg = s.cfg
BY DEF Step, Exec, IsState, Local

(* the power, with the registers kept or reset                             *)
LEMMA StepPower ==
  ASSUME NEW a, NEW s, IsState(s), NEW o, o.do = "power", o.on \in BOOLEAN,
         NEW t, t = Step(a, s, o)
  PROVE  /\ IsState(t) /\ t.power = o.on /\ t.file = s.file /\ t.win = s.win
         /\ t.start = s.start /\ t.cfg = s.cfg
         /\ o.keep => t.reg = s.reg /\ t.lost = s.lost /\ t.missed = s.missed
         /\ ~o.keep => t.reg = Reset /\ t.lost = Win /\ t.missed = {}
<1>1. CASE o.keep
  BY <1>1 DEF Step, Exec, Power, IsState
<1>2. CASE ~o.keep
  BY <1>2 DEF Step, Exec, Power, IsState, Reset, Regs
<1>. QED  BY <1>1, <1>2

-----------------------------------------------------------------------------
(* Runs of sequences and of their parts                                    *)

(* A trace starts in the state in which the call does,                     *)
LEMMA TraceStarts ==
  ASSUME NEW a, NEW s, NEW q, Len(q) \in Nat, NEW f, Trace(f, a, s, q)
  PROVE  f[0] = s
BY DEF Trace

(* and each of its states comes from the one before.                       *)
LEMMA TraceSteps ==
  ASSUME NEW a, NEW s, NEW q, Len(q) \in Nat, NEW f, Trace(f, a, s, q)
  PROVE  f[0] = s /\ \A n \in 1 .. Len(q) : f[n] = Step(a, f[n - 1], q[n])
BY DEF Trace

(* The steps r are those of q that follow the first i0 of them             *)
Within(r, q, i0) == i0 + Len(r) <= Len(q) /\ \A k \in 1 .. Len(r) : r[k] = q[i0 + k]

(* Two traces whose states agree at a time agree as long as their steps do.*)
LEMMA TracesMeet ==
  ASSUME NEW a, NEW s, NEW q, Len(q) \in Nat, NEW f, Trace(f, a, s, q),
         NEW t, NEW r, Len(r) \in Nat, NEW g, Trace(g, a, t, r),
         NEW i0 \in Nat, f[i0] = t, Within(r, q, i0)
  PROVE  \A n \in 0 .. Len(r) : g[n] = f[i0 + n]
<1> DEFINE T == {n \in Nat : g[n] = f[i0 + n]}
<1>0. /\ i0 \in Nat /\ Len(q) \in Nat /\ Len(r) \in Nat
      /\ i0 + Len(r) <= Len(q) /\ \A k \in 1 .. Len(r) : r[k] = q[i0 + k]
  BY DEF Within
<1>1. 0 \in T
  <2>1. g[0] = t
    BY TraceStarts
  <2>2. i0 + 0 = i0
    BY <1>0
  <2>. QED  BY <2>1, <2>2
<1>2. ASSUME NEW n \in 0 .. Len(r) - 1, n \in T
      PROVE  n + 1 \in T
  <2>1. g[n + 1] = Step(a, g[n], r[n + 1])
    <3>1. n + 1 \in 1 .. Len(r) /\ n + 1 - 1 = n
      BY <1>0
    <3>. QED  BY <3>1, TraceSteps
  <2>2. f[i0 + n + 1] = Step(a, f[i0 + n], q[i0 + n + 1])
    <3>1. i0 + n + 1 \in 1 .. Len(q) /\ (i0 + n + 1) - 1 = i0 + n
      BY <1>0
    <3>. QED  BY <3>1, TraceSteps
  <2>3. r[n + 1] = q[i0 + n + 1]
    <3>1. n + 1 \in 1 .. Len(r) /\ i0 + (n + 1) = i0 + n + 1
      BY <1>0
    <3>2. r[n + 1] = q[i0 + (n + 1)]
      BY <1>0, <3>1
    <3>. QED  BY <3>1, <3>2
  <2>4. i0 + (n + 1) = i0 + n + 1 /\ n + 1 \in Nat
    BY <1>0
  <2>5. g[n] = f[i0 + n]
    BY <1>2
  <2>6. g[n + 1] = f[i0 + (n + 1)]
    BY <2>1, <2>2, <2>3, <2>4, <2>5
  <2>. QED  BY <2>4, <2>6
<1>3. \A n \in 0 .. Len(r) : n \in T
  <2>. HIDE DEF T
  <2>. QED  BY <1>0, <1>1, <1>2, CountUp
<1>. QED  BY <1>3

(* In particular if they start together.                                   *)
LEMMA TracesMeetFirst ==
  ASSUME NEW a, NEW s, NEW q, Len(q) \in Nat, NEW f, Trace(f, a, s, q),
         NEW r, Len(r) \in Nat, NEW g, Trace(g, a, s, r), Within(r, q, 0)
  PROVE  \A n \in 0 .. Len(r) : g[n] = f[n]
<1>0. PICK z \in Nat : z = 0
  OBVIOUS
<1>1. f[z] = s
  BY <1>0, TraceStarts
<1>2. Within(r, q, z)
  BY <1>0
<1>3. \A n \in 0 .. Len(r) : g[n] = f[z + n]
  BY <1>1, <1>2, TracesMeet
<1>. QED  BY <1>0, <1>3

(* Whichever trace: the call ends in its last state.                       *)
LEMMA RunIs ==
  ASSUME NEW a, NEW s, NEW q, Len(q) \in Nat, NEW f, Trace(f, a, s, q)
  PROVE  RunAll(a, s, q) = f[Len(q)]
<1>1. PICK g : Trace(g, a, s, q) /\ RunAll(a, s, q) = g[Len(q)]
  BY RunIsTrace
<1>2. \A n \in 0 .. Len(q) : g[n] = f[n]
  <2>1. Within(q, q, 0)
    BY DEF Within
  <2>. QED  BY <1>1, <2>1, TracesMeetFirst
<1>. QED  BY <1>1, <1>2

(* What a call does up to a step, and what it does from there              *)
LEMMA RunParts ==
  ASSUME NEW a, NEW s, NEW S, NEW q \in Seq(S), NEW f, Trace(f, a, s, q), NEW n \in 0 .. Len(q)
  PROVE  /\ RunAll(a, s, SubSeq(q, 1, n)) = f[n]
         /\ RunAll(a, f[n], SubSeq(q, n + 1, Len(q))) = f[Len(q)]
<1>0. Len(q) \in Nat /\ n \in Nat /\ 0 \in 0 .. Len(q) /\ \A k \in 1 .. Len(q) : q[k] \in S
  BY LenProperties, ElementOfSeq
<1>1. RunAll(a, s, SubSeq(q, 1, n)) = f[n]
  <2> DEFINE r == SubSeq(q, 1, n)
  <2>1. Len(r) = n /\ \A k \in 1 .. n : r[k] = q[k]
    <3>1. \A k \in 1 .. n : q[k] \in S
      BY <1>0
    <3>2. /\ Len(r) = IF 1 <= n THEN n - 1 + 1 ELSE 0
          /\ \A k \in 1 .. n - 1 + 1 : r[k] = q[1 + k - 1]
      BY <1>0, <3>1, SubSeqProperties
    <3>3. \A k \in 1 .. n : 1 + k - 1 = k /\ k \in 1 .. n - 1 + 1
      BY <1>0
    <3>. HIDE DEF r
    <3>. QED  BY <1>0, <3>2, <3>3
  <2>. HIDE DEF r
  <2>2. PICK g : Trace(g, a, s, r)
    BY <1>0, <2>1, TraceExists
  <2>3. \A k \in 0 .. n : g[k] = f[k]
    <3>1. Within(r, q, 0)
      BY <1>0, <2>1 DEF Within
    <3>2. Len(q) \in Nat /\ Len(r) \in Nat
      BY <1>0, <2>1
    <3>3. \A k \in 0 .. Len(r) : g[k] = f[k]
      BY <2>2, <3>1, <3>2, TracesMeetFirst
    <3>. QED  BY <3>3, <2>1
  <2>4. RunAll(a, s, r) = g[n]
    BY <1>0, <2>1, <2>2, RunIs
  <2>. QED  BY <1>0, <2>3, <2>4 DEF r
<1>2. RunAll(a, f[n], SubSeq(q, n + 1, Len(q))) = f[Len(q)]
  <2> DEFINE r == SubSeq(q, n + 1, Len(q))
  <2>1. Len(r) = Len(q) - n /\ \A k \in 1 .. Len(q) - n : r[k] = q[n + k]
    <3>1. /\ Len(r) = IF n + 1 <= Len(q) THEN Len(q) - (n + 1) + 1 ELSE 0
          /\ \A k \in 1 .. Len(q) - (n + 1) + 1 : r[k] = q[n + 1 + k - 1]
      <4>1. \A k \in n + 1 .. Len(q) : q[k] \in S
        BY <1>0
      <4>2. n + 1 \in Int /\ Len(q) \in Int
        BY <1>0
      <4>. QED  BY <4>1, <4>2, SubSeqProperties
    <3>2. \A k \in 1 .. Len(q) - n : (n + 1) + k - 1 = n + k /\ k \in 1 .. Len(q) - (n + 1) + 1
      BY <1>0
    <3>. HIDE DEF r
    <3>. QED  BY <1>0, <3>1, <3>2
  <2>. HIDE DEF r
  <2>0. Len(r) \in Nat
    BY <1>0, <2>1
  <2>2. PICK g : Trace(g, a, f[n], r)
    BY <2>0, TraceExists
  <2>3. \A k \in 0 .. Len(r) : g[k] = f[n + k]
    <3>1. Within(r, q, n)
      BY <1>0, <2>1 DEF Within
    <3>. QED  BY <1>0, <2>0, <2>2, <3>1, TracesMeet
  <2>4. RunAll(a, f[n], r) = g[Len(r)]
    BY <2>0, <2>2, RunIs
  <2>5. n + Len(r) = Len(q) /\ Len(r) \in 0 .. Len(r)
    BY <1>0, <2>1
  <2>. QED  BY <2>3, <2>4, <2>5 DEF r
<1>. QED  BY <1>1, <1>2

(* The trace f of x and then y is one of x followed by one of y.           *)
Begins(f, a, s, x) == \E g : Trace(g, a, s, x) /\ \A n \in 0 .. Len(x) : g[n] = f[n]
Goes(f, a, m, y) == \E h : Trace(h, a, f[m], y) /\ \A n \in 0 .. Len(y) : h[n] = f[m + n]

(* A call made of two is one after the other,                              *)
LEMMA TraceConcat ==
  ASSUME NEW a, NEW s, NEW S, NEW x \in Seq(S), NEW y \in Seq(S), NEW f, Trace(f, a, s, x \o y)
  PROVE  /\ Len(x) \in Nat /\ Len(y) \in Nat /\ Len(x \o y) = Len(x) + Len(y)
         /\ Begins(f, a, s, x) /\ Goes(f, a, Len(x), y)
<1> DEFINE q == x \o y
<1>0. /\ Len(q) = Len(x) + Len(y) /\ Len(x) \in Nat /\ Len(y) \in Nat
      /\ \A k \in 1 .. Len(x) : q[k] = x[k]
      /\ \A k \in 1 .. Len(y) : q[Len(x) + k] = y[k]
  <2>1. /\ Len(q) = Len(x) + Len(y) /\ Len(x) \in Nat /\ Len(y) \in Nat
        /\ \A k \in 1 .. Len(x) + Len(y) : q[k] = IF k <= Len(x) THEN x[k] ELSE y[k - Len(x)]
    BY ConcatProperties, LenProperties
  <2>. HIDE DEF q
  <2>2. \A k \in 1 .. Len(x) : k \in 1 .. Len(x) + Len(y) /\ k <= Len(x)
    BY <2>1
  <2>3. \A k \in 1 .. Len(y) : Len(x) + k \in 1 .. Len(x) + Len(y) /\ ~(Len(x) + k <= Len(x))
                               /\ (Len(x) + k) - Len(x) = k
    BY <2>1
  <2>. QED  BY <2>1, <2>2, <2>3
<1>1. Trace(f, a, s, q)
  OBVIOUS
<1>. HIDE DEF q
<1>a. Len(q) \in Nat
  BY <1>0
<1>2. PICK g : Trace(g, a, s, x)
  BY <1>0, TraceExists
<1>3. \A n \in 0 .. Len(x) : g[n] = f[n]
  <2>1. Len(x) \in Nat /\ Within(x, q, 0)
    BY <1>0, <1>a DEF Within
  <2>. QED  BY <1>a, <1>1, <1>2, <2>1, TracesMeetFirst
<1>5. PICK h : Trace(h, a, f[Len(x)], y)
  BY <1>0, TraceExists
<1>6. \A n \in 0 .. Len(y) : h[n] = f[Len(x) + n]
  <2>1. Len(x) \in Nat /\ Len(y) \in Nat /\ Within(y, q, Len(x))
    BY <1>0 DEF Within
  <2>. QED  BY <1>a, <1>1, <1>5, <2>1, TracesMeet
<1>7. Begins(f, a, s, x) /\ Goes(f, a, Len(x), y)
  BY <1>2, <1>3, <1>5, <1>6 DEF Begins, Goes
<1>. QED  BY <1>0, <1>7 DEF q

(* and so is its run.                                                      *)
LEMMA RunConcat ==
  ASSUME NEW a, NEW s, NEW S, NEW x \in Seq(S), NEW y \in Seq(S)
  PROVE  RunAll(a, s, x \o y) = RunAll(a, RunAll(a, s, x), y)
<1> DEFINE q == x \o y
<1>0. Len(q) \in Nat
  BY ConcatProperties, LenProperties
<1>1. PICK f : Trace(f, a, s, q)
  <2>. HIDE DEF q
  <2>. QED  BY <1>0, TraceExists
<1>2. Len(x) \in Nat /\ Len(y) \in Nat /\ Len(q) = Len(x) + Len(y)
      /\ Begins(f, a, s, x) /\ Goes(f, a, Len(x), y)
  BY <1>1, TraceConcat
<1>3. PICK g : Trace(g, a, s, x) /\ \A n \in 0 .. Len(x) : g[n] = f[n]
  BY <1>2 DEF Begins
<1>4. PICK h : Trace(h, a, f[Len(x)], y) /\ \A n \in 0 .. Len(y) : h[n] = f[Len(x) + n]
  BY <1>2 DEF Goes
<1>. HIDE DEF q
<1>5. RunAll(a, s, x) = f[Len(x)]
  <2>1. RunAll(a, s, x) = g[Len(x)]
    BY <1>2, <1>3, RunIs
  <2>. QED  BY <1>2, <1>3, <2>1
<1>6. RunAll(a, f[Len(x)], y) = f[Len(q)]
  <2>1. RunAll(a, f[Len(x)], y) = h[Len(y)]
    BY <1>2, <1>4, RunIs
  <2>. QED  BY <1>2, <1>4, <2>1
<1>7. RunAll(a, s, q) = f[Len(q)]
  BY <1>0, <1>1, RunIs
<1>. QED  BY <1>5, <1>6, <1>7 DEF q

(* The runs of one step,                                                   *)
LEMMA RunOne ==
  ASSUME NEW a, NEW s, NEW o
  PROVE  RunAll(a, s, <<o>>) = Step(a, s, o)
<1> DEFINE q == <<o>>
<1>1. Len(q) = 1 /\ q[1] = o
  OBVIOUS
<1>. HIDE DEF q
<1>0. Len(q) \in Nat
  BY <1>1
<1>2. PICK f : Trace(f, a, s, q)
  BY <1>0, TraceExists
<1>3. f[0] = s /\ \A n \in 1 .. Len(q) : f[n] = Step(a, f[n - 1], q[n])
  BY <1>0, <1>2, TraceSteps
<1>4. f[1] = Step(a, f[0], o)
  <2>1. 1 \in 1 .. Len(q) /\ 1 - 1 = 0
    BY <1>1
  <2>. QED  BY <1>1, <1>3, <2>1
<1>5. RunAll(a, s, q) = f[1]
  <2>1. RunAll(a, s, q) = f[Len(q)]
    BY <1>0, <1>2, RunIs
  <2>. QED  BY <1>1, <2>1
<1>6. RunAll(a, s, q) = Step(a, s, o)
  BY <1>3, <1>4, <1>5
<1>. QED  BY <1>6 DEF q

(* of none,                                                                *)
LEMMA RunNone ==
  ASSUME NEW a, NEW s
  PROVE  RunAll(a, s, <<>>) = s
<1> DEFINE q == <<>>
<1>1. Len(q) = 0
  OBVIOUS
<1>. HIDE DEF q
<1>0. Len(q) \in Nat
  BY <1>1
<1>2. PICK f : Trace(f, a, s, q)
  BY <1>0, TraceExists
<1>3. f[0] = s
  BY <1>0, <1>2, TraceSteps
<1>4. RunAll(a, s, q) = f[0]
  <2>1. RunAll(a, s, q) = f[Len(q)]
    BY <1>0, <1>2, RunIs
  <2>. QED  BY <1>1, <2>1
<1>5. RunAll(a, s, q) = s
  BY <1>3, <1>4
<1>. QED  BY <1>5 DEF q

(* and of two                                                              *)
LEMMA RunTwo ==
  ASSUME NEW a, NEW s, NEW o, NEW p
  PROVE  RunAll(a, s, <<o, p>>) = Step(a, Step(a, s, o), p)
<1> DEFINE q == <<o, p>>
<1>1. Len(q) = 2 /\ q[1] = o /\ q[2] = p
  OBVIOUS
<1>. HIDE DEF q
<1>0. Len(q) \in Nat
  BY <1>1
<1>2. PICK f : Trace(f, a, s, q)
  BY <1>0, TraceExists
<1>3. f[0] = s /\ \A n \in 1 .. Len(q) : f[n] = Step(a, f[n - 1], q[n])
  BY <1>0, <1>2, TraceSteps
<1>4. f[1] = Step(a, f[0], o) /\ f[2] = Step(a, f[1], p)
  <2>1. 1 \in 1 .. Len(q) /\ 1 - 1 = 0 /\ 2 \in 1 .. Len(q) /\ 2 - 1 = 1
    BY <1>1
  <2>. QED  BY <1>1, <1>3, <2>1
<1>5. RunAll(a, s, q) = f[2]
  <2>1. RunAll(a, s, q) = f[Len(q)]
    BY <1>0, <1>2, RunIs
  <2>. QED  BY <1>1, <2>1
<1>6. RunAll(a, s, q) = Step(a, Step(a, s, o), p)
  BY <1>3, <1>4, <1>5
<1>. QED  BY <1>6 DEF q

-----------------------------------------------------------------------------
(* The steps of a call on one window                                       *)

(* The registers of one window, and those of the whole display             *)
RegsOf(w) == {"WINCON", "VIDADDR", "VIDADDR_SIZE", "VIDOSD_A", "VIDOSD_B", "VIDOSD_C",
              "VIDOSD_SIZE", "KEYCON"} \X {w}
DisplayRegs == {VIDCON0, VIDINTCON0, <<"VIDCON1">>, <<"VIDTCON0">>, <<"VIDTCON1">>, <<"VIDTCON2">>}

(* The registers of two windows, of a window and of the whole display are  *)
(* different ones.                                                         *)
LEMMA RegsAre ==
  /\ \A w \in Win : RegsOf(w) \subseteq Regs /\ WINCON(w) \in RegsOf(w)
  /\ \A w, v \in Win : w # v => RegsOf(w) \cap RegsOf(v) = {}
  /\ \A w \in Win : WINSHMAP \notin RegsOf(w) /\ DisplayRegs \cap RegsOf(w) = {}
  /\ WINSHMAP \in Regs /\ DisplayRegs \subseteq Regs /\ WINSHMAP \notin DisplayRegs
<1>1. \A w \in Win : RegsOf(w) \subseteq Regs /\ WINCON(w) \in RegsOf(w)
  BY DEF RegsOf, Regs, FieldRegs, ValueRegs, WINCON
<1>2. \A w, v \in Win : w # v => RegsOf(w) \cap RegsOf(v) = {}
  BY DEF RegsOf
<1>3. \A w : \A r \in RegsOf(w) : r = <<r[1], w>> /\ r[1] \in {"WINCON", "VIDADDR", "VIDADDR_SIZE", "VIDOSD_A", "VIDOSD_B", "VIDOSD_C",
              "VIDOSD_SIZE", "KEYCON"}
  BY DEF RegsOf
<1>4. \A r \in DisplayRegs \cup {WINSHMAP} : r = <<r[1]>> /\ r[1] \in {"VIDCON0", "VIDINTCON0", "VIDCON1", "VIDTCON0", "VIDTCON1", "VIDTCON2", "WINSHMAP"}
  BY DEF DisplayRegs, WINSHMAP, VIDCON0, VIDINTCON0
<1>5. \A w \in Win : WINSHMAP \notin RegsOf(w) /\ DisplayRegs \cap RegsOf(w) = {}
  BY <1>3, <1>4
<1>6. WINSHMAP \in Regs /\ DisplayRegs \subseteq Regs /\ WINSHMAP \notin DisplayRegs
  BY DEF Regs, FieldRegs, ValueRegs, DisplayRegs, WINSHMAP, VIDCON0, VIDINTCON0
<1>. QED  BY <1>1, <1>2, <1>5, <1>6

-----------------------------------------------------------------------------
(* The steps that a call on window w is made of, but the count of its users*)
AssignStep(w, f, v) == [do |-> "assign", w |-> w, f |-> f, v |-> v]

Settings ==
  {<<"enabled", b>> : b \in BOOLEAN}
  \cup {"x", "xres", "rows", "yoffset"} \X Int
  \cup {"format"} \X Formats \cup {"alpha"} \X Blends \cup {"chroma"} \X (Keys \cup {0})

Loads(w) == {Load(WINCON(w)), Load(WINSHMAP)}

StoresOf(w) == {Store(WINCON(w), x, y) : x \in {{}, {"ENWIN"}}, y \in {{}, {"ENWIN"}}}

MapStores(w) ==
  {Store(WINSHMAP, x, y) : x \in {{}, {Ch(w)}, {Protect(w)}}, y \in {{}, {Ch(w)}, {Protect(w)}}}

Merges(w) == {Merge(WINCON(w), w, "format", BppMode), Merge(WINCON(w), w, "alpha", Blends)}

CopyStep(r, w, f) == [do |-> "copy", reg |-> r, w |-> w, f |-> f]

Copies(w) ==
  {CopyStep(r, w, f) :
     r \in RegsOf(w) \ {WINCON(w), <<"VIDADDR", w>>}, f \in {"x", "xres", "alpha", "chroma"}}

Starts(w) == {[do |-> "start", reg |-> <<"VIDADDR", w>>, w |-> w]}

Addresses(w) == {[do |-> "address", w |-> w]}

Assigns(w) == {AssignStep(w, p[1], p[2]) : p \in Settings}

MapSteps(w) == {[do |-> "map", w |-> w, ok |-> b] : b \in BOOLEAN}

Unmaps(w) == {[do |-> "unmap", w |-> w]}

Locks == {[do |-> "lock"]}

StepsOn(w) ==
  Loads(w) \cup StoresOf(w) \cup MapStores(w) \cup Merges(w) \cup Copies(w) \cup Starts(w)
  \cup Addresses(w) \cup Assigns(w) \cup MapSteps(w) \cup Unmaps(w) \cup Locks

(* What the steps of each kind are                                         *)
LEMMA StepsAre ==
  ASSUME NEW w \in Win, NEW o
  PROVE  /\ o \in Loads(w) => o.do = "load" /\ o.reg \in {WINCON(w), WINSHMAP}
         /\ o \in StoresOf(w) => o.do = "store" /\ o.reg = WINCON(w)
                                 /\ o.set \subseteq {"ENWIN"} /\ o.clear \subseteq {"ENWIN"}
         /\ o \in MapStores(w) => o.do = "store" /\ o.reg = WINSHMAP
         /\ o \in Merges(w) => o.do = "merge" /\ o.reg = WINCON(w) /\ o.w = w
                               /\ o.f \in {"format", "alpha"}
                               /\ "ENWIN" \notin o.clear
         /\ o \in Copies(w) => o.do = "copy" /\ o.w = w
                               /\ o.reg \in RegsOf(w) \ {WINCON(w), <<"VIDADDR", w>>}
         /\ o \in Starts(w) => o.do = "start" /\ o.reg = <<"VIDADDR", w>>
         /\ o \in Addresses(w) => o.do = "address" /\ o.w = w
         /\ o \in Assigns(w) => o.do = "assign" /\ o.w = w /\ <<o.f, o.v>> \in Settings
         /\ o \in MapSteps(w) => o.do = "map" /\ o.w = w /\ o.ok \in BOOLEAN
         /\ o \in Unmaps(w) => o.do = "unmap" /\ o.w = w
         /\ o \in Locks => o.do = "lock"
<1>1. o \in Loads(w) => o.do = "load" /\ o.reg \in {WINCON(w), WINSHMAP}
  BY DEF Loads, Load
<1>2. o \in StoresOf(w) => o.do = "store" /\ o.reg = WINCON(w)
                                 /\ o.set \subseteq {"ENWIN"} /\ o.clear \subseteq {"ENWIN"}
  BY DEF StoresOf, Store
<1>3. o \in MapStores(w) => o.do = "store" /\ o.reg = WINSHMAP
  BY DEF MapStores, Store
<1>4. o \in Merges(w) => o.do = "merge" /\ o.reg = WINCON(w) /\ o.w = w /\ o.f \in {"format", "alpha"}
                         /\ "ENWIN" \notin o.clear
  BY DEF Merges, Merge, BppMode, Formats, Blends
<1>5. o \in Copies(w) => o.do = "copy" /\ o.w = w /\ o.reg \in RegsOf(w) \ {WINCON(w), <<"VIDADDR", w>>}
  BY DEF Copies, CopyStep
<1>6. o \in Starts(w) => o.do = "start" /\ o.reg = <<"VIDADDR", w>>
  BY DEF Starts
<1>7. o \in Addresses(w) => o.do = "address" /\ o.w = w
  BY DEF Addresses
<1>8. o \in Assigns(w) => o.do = "assign" /\ o.w = w /\ <<o.f, o.v>> \in Settings
  <2>1. \A p \in Settings : p = <<p[1], p[2]>>
    BY DEF Settings
  <2>. QED  BY <2>1 DEF Assigns, AssignStep
<1>9. o \in MapSteps(w) => o.do = "map" /\ o.w = w /\ o.ok \in BOOLEAN
  BY DEF MapSteps
<1>10. o \in Unmaps(w) => o.do = "unmap" /\ o.w = w
  BY DEF Unmaps
<1>11. o \in Locks => o.do = "lock"
  BY DEF Locks
<1>. QED  BY <1>1, <1>2, <1>3, <1>4, <1>5, <1>6, <1>7, <1>8, <1>9, <1>10, <1>11

(* A setting keeps a window one, and is neither its memory nor its users.  *)
LEMMA SettingsFit ==
  ASSUME NEW u \in Window, NEW f, NEW v, <<f, v>> \in Settings
  PROVE  [u EXCEPT ![f] = v] \in Window /\ f # "in_use" /\ f # "mem"
         /\ f \in {"enabled", "x", "xres", "rows", "yoffset", "format", "alpha", "chroma"}
<1>1. \/ f = "enabled" /\ v \in BOOLEAN
      \/ f \in {"x", "xres", "rows", "yoffset"} /\ v \in Int
      \/ f = "format" /\ v \in Formats
      \/ f = "alpha" /\ v \in Blends
      \/ f = "chroma" /\ v \in Keys \cup {0}
  BY DEF Settings
<1>2. CASE f = "enabled" /\ v \in BOOLEAN
  BY <1>2 DEF Window
<1>3. CASE f \in {"x", "xres", "rows", "yoffset"} /\ v \in Int
  BY <1>3 DEF Window
<1>4. CASE f = "format" /\ v \in Formats
  BY <1>4 DEF Window
<1>5. CASE f = "alpha" /\ v \in Blends
  BY <1>5 DEF Window
<1>6. CASE f = "chroma" /\ v \in Keys \cup {0}
  BY <1>6 DEF Window
<1>. QED  BY <1>1, <1>2, <1>3, <1>4, <1>5, <1>6

-----------------------------------------------------------------------------
(* A call on one window spares the others                                  *)

(* Window w looks the same in both states.                                 *)
SameView(w, s, t) ==
  /\ t.win[w] = s.win[w] /\ t.power = s.power
  /\ (w \in t.lost <=> w \in s.lost) /\ (w \in t.missed <=> w \in s.missed)
  /\ \A r \in RegsOf(w) : t.reg[r] = s.reg[r]

(* t differs from s at most in the window w, its registers and WINSHMAP    *)
OnlyIn(w, s, t) ==
  /\ Local(t, s) /\ \A v \in Win \ {w} : SameView(v, s, t)
  /\ t.win[w].in_use = s.win[w].in_use

(* A store to a register of w or to WINSHMAP spares the other windows,     *)
LEMMA WroteSpares ==
  ASSUME NEW w \in Win, NEW s, IsState(s), NEW t, NEW r \in RegsOf(w) \cup {WINSHMAP}, NEW x,
         Wrote(t, s, r, x)
  PROVE  OnlyIn(w, s, t)
<1>1. Local(t, s) /\ t.reg = Stored(s, r, x) /\ t.win = s.win
  BY DEF Wrote
<1>2. \A v \in Win \ {w} : \A q \in RegsOf(v) : q # r /\ q \in Regs
  BY RegsAre
<1>3. \A q \in Regs : q # r => t.reg[q] = s.reg[q]
  BY <1>1 DEF Stored, IsState
<1>. QED  BY <1>1, <1>2, <1>3 DEF OnlyIn, SameView, Local

(* an assignment to one of the fields of w does,                           *)
LEMMA ChangedSpares ==
  ASSUME NEW w \in Win, NEW s, IsState(s), NEW t, NEW f, f # "in_use", NEW x, Changed(t, s, w, f, x)
  PROVE  OnlyIn(w, s, t)
<1>1. Local(t, s) /\ t.reg = s.reg /\ t.win = [s.win EXCEPT ![w] = [s.win[w] EXCEPT ![f] = x]]
  BY DEF Changed
<1>2. \A v \in Win \ {w} : t.win[v] = s.win[v]
  BY <1>1 DEF IsState
<1>3. t.win[w].in_use = s.win[w].in_use
  <2>1. s.win \in [Win -> Window]
    BY DEF IsState
  <2>2. t.win[w] = [s.win[w] EXCEPT ![f] = x]
    BY <1>1, <2>1
  <2>. QED  BY <2>1, <2>2 DEF Window
<1>. QED  BY <1>1, <1>2, <1>3 DEF OnlyIn, SameView, Local

(* and so do steps that change the agent's local variables only:           *)
LEMMA QuietSpares ==
  ASSUME NEW w \in Win, NEW s, IsState(s), NEW t, Local(t, s), t.reg = s.reg, t.win = s.win
  PROVE  OnlyIn(w, s, t)
BY DEF OnlyIn, SameView, Local

(* every step of a call on w spares the other windows.                     *)
LEMMA StepSpares ==
  ASSUME NEW a, NEW w \in Win, NEW s, IsState(s), NEW o \in StepsOn(w), NEW t, t = Step(a, s, o)
  PROVE  OnlyIn(w, s, t)
<1>0. WINCON(w) \in RegsOf(w) /\ <<"VIDADDR", w>> \in RegsOf(w) /\ RegsOf(w) \subseteq Regs /\ WINSHMAP \in Regs
  BY RegsAre DEF RegsOf
<1>1. CASE o \in Loads(w)
  <2>1. o.do = "load"
    BY <1>1, StepsAre
  <2>2. Local(t, s) /\ t.reg = s.reg /\ t.win = s.win
    BY <2>1, StepLoad
  <2>. QED  BY <2>2, QuietSpares
<1>2. CASE o \in StoresOf(w) \cup MapStores(w)
  <2>1. o.do = "store" /\ o.reg \in RegsOf(w) \cup {WINSHMAP}
    BY <1>0, <1>2, StepsAre
  <2>2. o.reg \in Regs
    BY <1>0, <2>1
  <2>3. PICK x : Wrote(t, s, o.reg, x)
    BY <2>1, <2>2, StepStore
  <2>. QED  BY <2>1, <2>3, WroteSpares
<1>3. CASE o \in Merges(w)
  <2>1. o.do = "merge" /\ o.reg \in RegsOf(w) \cup {WINSHMAP}
    BY <1>0, <1>3, StepsAre
  <2>2. o.reg \in Regs
    BY <1>0, <2>1
  <2>3. PICK x : Wrote(t, s, o.reg, x)
    BY <2>1, <2>2, StepMerge
  <2>. QED  BY <2>1, <2>3, WroteSpares
<1>4. CASE o \in Copies(w)
  <2>1. o.do = "copy" /\ o.reg \in RegsOf(w) \cup {WINSHMAP}
    BY <1>4, StepsAre
  <2>2. o.reg \in Regs
    BY <1>0, <2>1
  <2>3. PICK x : Wrote(t, s, o.reg, x)
    BY <2>1, <2>2, StepCopy
  <2>. QED  BY <2>1, <2>3, WroteSpares
<1>5. CASE o \in Starts(w)
  <2>1. o.do = "start" /\ o.reg \in RegsOf(w) \cup {WINSHMAP}
    BY <1>0, <1>5, StepsAre
  <2>2. o.reg \in Regs
    BY <1>0, <2>1
  <2>3. PICK x : Wrote(t, s, o.reg, x)
    BY <2>1, <2>2, StepStart
  <2>. QED  BY <2>1, <2>3, WroteSpares
<1>6. CASE o \in Addresses(w)
  <2>1. o.do = "address"
    BY <1>6, StepsAre
  <2>2. Local(t, s) /\ t.reg = s.reg /\ t.win = s.win
    BY <2>1, StepAddress
  <2>. QED  BY <2>2, QuietSpares
<1>7. CASE o \in Assigns(w)
  <2>1. o.do = "assign" /\ o.w = w /\ <<o.f, o.v>> \in Settings
    BY <1>7, StepsAre
  <2>2. s.win[w] \in Window
    BY DEF IsState
  <2>3. [s.win[w] EXCEPT ![o.f] = o.v] \in Window /\ o.f # "in_use"
    BY <2>1, <2>2, SettingsFit
  <2>4. Changed(t, s, w, o.f, o.v)
    BY <2>1, <2>3, StepAssign
  <2>. QED  BY <2>3, <2>4, ChangedSpares
<1>8. CASE o \in MapSteps(w)
  <2>1. o.do = "map" /\ o.w = w /\ o.ok \in BOOLEAN
    BY <1>8, StepsAre
  <2>2. PICK x : Changed(t, s, w, "mem", x)
    BY <2>1, StepMap
  <2>. QED  BY <2>2, ChangedSpares
<1>9. CASE o \in Unmaps(w)
  <2>1. o.do = "unmap" /\ o.w = w
    BY <1>9, StepsAre
  <2>2. PICK x : Changed(t, s, w, "mem", x)
    BY <2>1, StepUnmap
  <2>. QED  BY <2>2, ChangedSpares
<1>10. CASE o \in Locks
  <2>1. o.do \in {"lock", "mutex_init"}
    BY <1>10, StepsAre
  <2>2. Local(t, s) /\ t.reg = s.reg /\ t.win = s.win
    BY <2>1, StepLock
  <2>. QED  BY <2>2, QuietSpares
<1>. QED  BY <1>1, <1>2, <1>3, <1>4, <1>5, <1>6, <1>7, <1>8, <1>9, <1>10 DEF StepsOn

-----------------------------------------------------------------------------
(* From two states in which w looks the same, the same store,              *)
LEMMA WroteAlike ==
  ASSUME NEW w \in Win, NEW s, IsState(s), NEW t, IsState(t), SameView(w, s, t),
         NEW r \in RegsOf(w), NEW x, NEW s1, Wrote(s1, s, r, x), NEW t1, Wrote(t1, t, r, x)
  PROVE  SameView(w, s1, t1)
<1>1. /\ Local(s1, s) /\ s1.reg = Stored(s, r, x) /\ s1.win = s.win /\ s1.start = s.start
      /\ Local(t1, t) /\ t1.reg = Stored(t, r, x) /\ t1.win = t.win /\ t1.start = t.start
  BY DEF Wrote
<1>2. RegsOf(w) \subseteq Regs
  BY RegsAre
<1>3. t.power = s.power
  BY DEF SameView
<1>4. \A q \in RegsOf(w) : t1.reg[q] = s1.reg[q]
  <2>. SUFFICES ASSUME NEW q \in RegsOf(w)
                PROVE  t1.reg[q] = s1.reg[q]
    OBVIOUS
  <2>1. t.reg[q] = s.reg[q]
    BY DEF SameView
  <2>2. s1.reg[q] = IF s.power /\ q = r THEN x ELSE s.reg[q]
    BY <1>1, <1>2 DEF Stored, IsState
  <2>3. t1.reg[q] = IF t.power /\ q = r THEN x ELSE t.reg[q]
    BY <1>1, <1>2 DEF Stored, IsState
  <2>. QED  BY <2>1, <2>2, <2>3, <1>3
<1>. QED  BY <1>1, <1>4 DEF SameView, Local

(* any stores to WINSHMAP,                                                 *)
LEMMA WroteMapAlike ==
  ASSUME NEW w \in Win, NEW s, IsState(s), NEW t, IsState(t), SameView(w, s, t),
         NEW x, NEW s1, Wrote(s1, s, WINSHMAP, x), NEW y, NEW t1, Wrote(t1, t, WINSHMAP, y)
  PROVE  SameView(w, s1, t1)
<1>1. /\ Local(s1, s) /\ s1.reg = Stored(s, WINSHMAP, x) /\ s1.win = s.win /\ s1.start = s.start
      /\ Local(t1, t) /\ t1.reg = Stored(t, WINSHMAP, y) /\ t1.win = t.win /\ t1.start = t.start
  BY DEF Wrote
<1>2. \A q \in RegsOf(w) : q \in Regs /\ q # WINSHMAP
  BY RegsAre
<1>3. \A q \in RegsOf(w) : s1.reg[q] = s.reg[q] /\ t1.reg[q] = t.reg[q]
  BY <1>1, <1>2 DEF Stored, IsState
<1>. QED  BY <1>1, <1>3 DEF SameView, Local

(* and the same assignment leave w looking the same.                       *)
LEMMA ChangedAlike ==
  ASSUME NEW w \in Win, NEW s, IsState(s), NEW t, IsState(t), SameView(w, s, t),
         NEW f, NEW x, NEW s1, Changed(s1, s, w, f, x), NEW t1, Changed(t1, t, w, f, x)
  PROVE  SameView(w, s1, t1)
<1>1. /\ Local(s1, s) /\ s1.reg = s.reg /\ s1.start = s.start
      /\ Local(t1, t) /\ t1.reg = t.reg /\ t1.start = t.start
  BY DEF Changed
<1>2. s.win \in [Win -> Window] /\ t.win \in [Win -> Window]
  BY DEF IsState
<1>3. s1.win[w] = [s.win[w] EXCEPT ![f] = x] /\ t1.win[w] = [t.win[w] EXCEPT ![f] = x]
  BY <1>2 DEF Changed
<1>. QED  BY <1>1, <1>3 DEF SameView, Local

(* A step of a call on w does so, if what it stores was computed alike.    *)
LEMMA StepAlike ==
  ASSUME NEW a, NEW w \in Win, NEW s, IsState(s), NEW t, IsState(t), SameView(w, s, t),
         NEW o \in StepsOn(w),
         o \in StoresOf(w) \cup Merges(w) => t.cfg = s.cfg,
         o \in Starts(w) => t.start = s.start,
         NEW s1, s1 = Step(a, s, o), NEW t1, t1 = Step(a, t, o)
  PROVE  /\ SameView(w, s1, t1)
         /\ o = Load(WINCON(w)) => t1.cfg = s1.cfg
         /\ t.start = s.start \/ o \in Addresses(w) => t1.start = s1.start
<1>0. WINCON(w) \in RegsOf(w) /\ <<"VIDADDR", w>> \in RegsOf(w) /\ RegsOf(w) \subseteq Regs /\ WINSHMAP \in Regs
  BY RegsAre DEF RegsOf
<1>a. t.win[w] = s.win[w]
  BY DEF SameView
<1>b. o = Load(WINCON(w)) => t1.cfg = s1.cfg
  <2>. SUFFICES ASSUME o = Load(WINCON(w)) PROVE t1.cfg = s1.cfg
    OBVIOUS
  <2>1. o.do = "load" /\ o.reg = WINCON(w)
    BY DEF Load
  <2>2. s1.cfg = s.reg[o.reg] /\ t1.cfg = t.reg[o.reg]
    BY <2>1, StepLoad
  <2>. QED  BY <1>0, <2>1, <2>2 DEF SameView
<1>c. o.do # "address" => o \notin Addresses(w)
  BY StepsAre
<1>d. ASSUME o.do # "address", s1.start = s.start, t1.start = t.start
      PROVE  t.start = s.start \/ o \in Addresses(w) => t1.start = s1.start
  BY <1>c, <1>d
<1>1. CASE o \in Loads(w)
  <2>1. o.do = "load"
    BY <1>1, StepsAre
  <2>2. Local(s1, s) /\ s1.reg = s.reg /\ s1.win = s.win /\ s1.start = s.start
    BY <2>1, StepLoad
  <2>3. Local(t1, t) /\ t1.reg = t.reg /\ t1.win = t.win /\ t1.start = t.start
    BY <2>1, StepLoad
  <2>4. SameView(w, s1, t1)
    BY <2>2, <2>3 DEF SameView, Local
  <2>. QED  BY <1>b, <1>d, <2>1, <2>2, <2>3, <2>4
<1>2. CASE o \in StoresOf(w)
  <2>1. o.do = "store" /\ o.reg = WINCON(w) /\ o.reg \in Regs
    BY <1>0, <1>2, StepsAre
  <2>2. Wrote(s1, s, o.reg, (s.cfg \ o.clear) \cup o.set)
    BY <2>1, StepStore
  <2>3. Wrote(t1, t, o.reg, (t.cfg \ o.clear) \cup o.set)
    BY <2>1, StepStore
  <2>4. t.cfg = s.cfg
    BY <1>2
  <2> DEFINE x == (s.cfg \ o.clear) \cup o.set
  <2>5. Wrote(s1, s, WINCON(w), x) /\ Wrote(t1, t, WINCON(w), x)
    BY <2>1, <2>2, <2>3, <2>4
  <2>. HIDE DEF x
  <2>6. SameView(w, s1, t1)
    BY <1>0, <2>5, WroteAlike
  <2>7. s1.start = s.start /\ t1.start = t.start
    BY <2>5 DEF Wrote
  <2>. QED  BY <1>b, <1>d, <2>1, <2>6, <2>7
<1>3. CASE o \in MapStores(w)
  <2>1. o.do = "store" /\ o.reg = WINSHMAP /\ o.reg \in Regs
    BY <1>0, <1>3, StepsAre
  <2>2. PICK x : Wrote(s1, s, WINSHMAP, x)
    BY <2>1, StepStore
  <2>3. PICK y : Wrote(t1, t, WINSHMAP, y)
    BY <2>1, StepStore
  <2>6. SameView(w, s1, t1)
    BY <2>2, <2>3, WroteMapAlike
  <2>7. s1.start = s.start /\ t1.start = t.start
    BY <2>2, <2>3 DEF Wrote
  <2>. QED  BY <1>b, <1>d, <2>1, <2>6, <2>7
<1>4. CASE o \in Merges(w)
  <2>1. o.do = "merge" /\ o.reg = WINCON(w) /\ o.reg \in Regs /\ o.w = w
    BY <1>0, <1>4, StepsAre
  <2>2. Wrote(s1, s, o.reg, (s.cfg \ o.clear) \cup ({s.win[o.w][o.f]} \cap o.clear))
    BY <2>1, StepMerge
  <2>3. Wrote(t1, t, o.reg, (t.cfg \ o.clear) \cup ({t.win[o.w][o.f]} \cap o.clear))
    BY <2>1, StepMerge
  <2>4. t.cfg = s.cfg
    BY <1>4
  <2> DEFINE x == (s.cfg \ o.clear) \cup ({s.win[w][o.f]} \cap o.clear)
  <2>5. Wrote(s1, s, WINCON(w), x) /\ Wrote(t1, t, WINCON(w), x)
    BY <1>a, <2>1, <2>2, <2>3, <2>4
  <2>. HIDE DEF x
  <2>6. SameView(w, s1, t1)
    BY <1>0, <2>5, WroteAlike
  <2>7. s1.start = s.start /\ t1.start = t.start
    BY <2>5 DEF Wrote
  <2>. QED  BY <1>b, <1>d, <2>1, <2>6, <2>7
<1>5. CASE o \in Copies(w)
  <2>1. o.do = "copy" /\ o.w = w /\ o.reg \in RegsOf(w) /\ o.reg \in Regs
    BY <1>0, <1>5, StepsAre
  <2>2. Wrote(s1, s, o.reg, s.win[o.w][o.f])
    BY <2>1, StepCopy
  <2>3. Wrote(t1, t, o.reg, t.win[o.w][o.f])
    BY <2>1, StepCopy
  <2>4. Wrote(s1, s, o.reg, s.win[w][o.f]) /\ Wrote(t1, t, o.reg, s.win[w][o.f])
    BY <1>a, <2>1, <2>2, <2>3
  <2>6. SameView(w, s1, t1)
    BY <2>1, <2>4, WroteAlike
  <2>7. s1.start = s.start /\ t1.start = t.start
    BY <2>4 DEF Wrote
  <2>. QED  BY <1>b, <1>d, <2>1, <2>6, <2>7
<1>6. CASE o \in Starts(w)
  <2>1. o.do = "start" /\ o.reg \in RegsOf(w) /\ o.reg \in Regs
    BY <1>0, <1>6, StepsAre
  <2>2. Wrote(s1, s, o.reg, s.start)
    BY <2>1, StepStart
  <2>3. Wrote(t1, t, o.reg, t.start)
    BY <2>1, StepStart
  <2>4. Wrote(t1, t, o.reg, s.start)
    BY <1>6, <2>3
  <2>6. SameView(w, s1, t1)
    BY <2>1, <2>2, <2>4, WroteAlike
  <2>7. s1.start = s.start /\ t1.start = t.start
    BY <2>2, <2>4 DEF Wrote
  <2>. QED  BY <1>b, <1>d, <2>1, <2>6, <2>7
<1>7. CASE o \in Addresses(w)
  <2>1. o.do = "address" /\ o.w = w
    BY <1>7, StepsAre
  <2>2. Local(s1, s) /\ s1.reg = s.reg /\ s1.win = s.win /\ s1.start = Address(s.win[o.w])
    BY <2>1, StepAddress
  <2>3. Local(t1, t) /\ t1.reg = t.reg /\ t1.win = t.win /\ t1.start = Address(t.win[o.w])
    BY <2>1, StepAddress
  <2>4. t1.start = s1.start
    BY <1>a, <2>1, <2>2, <2>3
  <2>5. SameView(w, s1, t1)
    BY <2>2, <2>3 DEF SameView, Local
  <2>. QED  BY <1>b, <2>4, <2>5
<1>8. CASE o \in Assigns(w)
  <2>1. o.do = "assign" /\ o.w = w /\ <<o.f, o.v>> \in Settings
    BY <1>8, StepsAre
  <2>2. s.win[w] \in Window
    BY DEF IsState
  <2>3. [s.win[w] EXCEPT ![o.f] = o.v] \in Window
    BY <2>1, <2>2, SettingsFit
  <2>4. Changed(s1, s, w, o.f, o.v)
    BY <2>1, <2>3, StepAssign
  <2>5. Changed(t1, t, w, o.f, o.v)
    BY <1>a, <2>1, <2>3, StepAssign
  <2>6. SameView(w, s1, t1)
    BY <2>4, <2>5, ChangedAlike
  <2>7. s1.start = s.start /\ t1.start = t.start
    BY <2>4, <2>5 DEF Changed
  <2>. QED  BY <1>b, <1>d, <2>1, <2>6, <2>7
<1>9. CASE o \in MapSteps(w)
  <2>1. o.do = "map" /\ o.w = w /\ o.ok \in BOOLEAN
    BY <1>9, StepsAre
  <2>2. Changed(s1, s, w, "mem", s.win[w].mem \/ o.ok)
    BY <2>1, StepMap
  <2>3. Changed(t1, t, w, "mem", t.win[w].mem \/ o.ok)
    BY <2>1, StepMap
  <2>4. Changed(t1, t, w, "mem", s.win[w].mem \/ o.ok)
    BY <1>a, <2>3
  <2> DEFINE x == s.win[w].mem \/ o.ok
  <2>5. Changed(s1, s, w, "mem", x) /\ Changed(t1, t, w, "mem", x)
    BY <2>2, <2>4
  <2>. HIDE DEF x
  <2>6. SameView(w, s1, t1)
    BY <2>5, ChangedAlike
  <2>7. s1.start = s.start /\ t1.start = t.start
    BY <2>5 DEF Changed
  <2>. QED  BY <1>b, <1>d, <2>1, <2>6, <2>7
<1>10. CASE o \in Unmaps(w)
  <2>1. o.do = "unmap" /\ o.w = w
    BY <1>10, StepsAre
  <2>2. Changed(s1, s, w, "mem", FALSE) /\ Changed(t1, t, w, "mem", FALSE)
    BY <2>1, StepUnmap
  <2> DEFINE x == FALSE
  <2>5. Changed(s1, s, w, "mem", x) /\ Changed(t1, t, w, "mem", x)
    BY <2>2
  <2>. HIDE DEF x
  <2>6. SameView(w, s1, t1)
    BY <2>5, ChangedAlike
  <2>7. s1.start = s.start /\ t1.start = t.start
    BY <2>5 DEF Changed
  <2>. QED  BY <1>b, <1>d, <2>1, <2>6, <2>7
<1>11. CASE o \in Locks
  <2>1. o.do = "lock" /\ o.do # "address"
    BY <1>11, StepsAre
  <2>2. Local(s1, s) /\ s1.reg = s.reg /\ s1.win = s.win /\ s1.start = s.start
    BY <2>1, StepLock
  <2>3. Local(t1, t) /\ t1.reg = t.reg /\ t1.win = t.win /\ t1.start = t.start
    BY <2>1, StepLock
  <2>4. SameView(w, s1, t1)
    BY <2>2, <2>3 DEF SameView, Local
  <2>. QED  BY <1>b, <1>d, <2>1, <2>2, <2>3, <2>4
<1>. QED  BY <1>1, <1>2, <1>3, <1>4, <1>5, <1>6, <1>7, <1>8, <1>9, <1>10, <1>11 DEF StepsOn

-----------------------------------------------------------------------------
(* The calls with the count of users                                       *)

(* The last steps of open and of release                                   *)
CountStep(w) == [do |-> "count", w |-> w]
DiscountStep(w) == [do |-> "discount", w |-> w]
LastSteps(w) == {CountStep(w), DiscountStep(w)}

(* The steps of calls on window w: the users are counted last.             *)
CallSteps(w) == StepsOn(w) \cup LastSteps(w)

(* t differs from s at most in the window w, its registers, WINSHMAP, the  *)
(* files and the lock                                                      *)
Beside(w, s, t) ==
  /\ IsState(t) /\ t.power = s.power /\ t.lost = s.lost /\ t.missed = s.missed
  /\ \A v \in Win \ {w} : SameView(v, s, t)

(* What those steps do to the files and to the window                      *)
Opened(f, a, w) == [f EXCEPT ![a] = w]
Closed(f, a) == [f EXCEPT ![a] = NULL]
OneMore(u) == [u EXCEPT !.in_use = u.in_use + 1]
OneLess(u) == [u EXCEPT !.in_use = IF u.in_use > 0 THEN u.in_use - 1 ELSE u.in_use]

(* An overlay window with a user is refused.                               *)
Refused(t, s, w, a) ==
  s.win[w].in_use > 0 /\ w # Default /\ t.file = Closed(s.file, a) /\ t.win = s.win
Admitted(t, s, w, a) ==
  /\ ~(s.win[w].in_use > 0 /\ w # Default)
  /\ t.file = Opened(s.file, a, w) /\ t.win[w] = OneMore(s.win[w])
  /\ \A v \in Win \ {w} : t.win[v] = s.win[v]

(* s3cfb_open does that and nothing else,                                  *)
LEMMA StepCount ==
  ASSUME NEW a, NEW w \in Win, NEW s, IsState(s), NEW t, t = Step(a, s, CountStep(w))
  PROVE  /\ IsState(t) /\ t.power = s.power /\ t.lost = s.lost /\ t.missed = s.missed
         /\ t.reg = s.reg /\ t.cfg = s.cfg /\ t.start = s.start
         /\ Refused(t, s, w, a) \/ Admitted(t, s, w, a)
<1>1. t = Count(s, a, w)
  BY DEF Step, Exec, CountStep
<1>2. s.win \in [Win -> Window] /\ s.win[w] \in Window /\ s.file \in [Proc -> Win \cup {NULL}]
  BY DEF IsState
<1>3. CASE s.win[w].in_use > 0 /\ w # Default
  <2>1. t = [s EXCEPT !.file = Closed(s.file, a), !.lock = NULL]
    BY <1>1, <1>3 DEF Count, Closed
  <2>2. Closed(s.file, a) \in [Proc -> Win \cup {NULL}]
    BY <1>2 DEF Closed
  <2>3. /\ t.reg = s.reg /\ t.win = s.win /\ t.power = s.power /\ t.lost = s.lost
        /\ t.missed = s.missed /\ t.cfg = s.cfg /\ t.start = s.start
        /\ t.file = Closed(s.file, a)
    BY <2>1 DEF IsState
  <2>4. IsState(t)
    BY <2>1, <2>2 DEF IsState
  <2>. QED  BY <1>3, <2>3, <2>4 DEF Refused
<1>4. CASE ~(s.win[w].in_use > 0 /\ w # Default)
  <2>1. t = [s EXCEPT !.win = [s.win EXCEPT ![w] = OneMore(s.win[w])],
                      !.file = Opened(s.file, a, w), !.lock = NULL]
    BY <1>1, <1>4 DEF Count, OneMore, Opened
  <2>2. Opened(s.file, a, w) \in [Proc -> Win \cup {NULL}]
    BY <1>2 DEF Opened
  <2>3. OneMore(s.win[w]) \in Window
    BY <1>2 DEF OneMore, Window
  <2>4. [s.win EXCEPT ![w] = OneMore(s.win[w])] \in [Win -> Window]
    BY <1>2, <2>3
  <2>5. /\ t.reg = s.reg /\ t.power = s.power /\ t.lost = s.lost
        /\ t.missed = s.missed /\ t.cfg = s.cfg /\ t.start = s.start
        /\ t.file = Opened(s.file, a, w) /\ t.win = [s.win EXCEPT ![w] = OneMore(s.win[w])]
    BY <2>1 DEF IsState
  <2>6. IsState(t)
    BY <2>1, <2>2, <2>4 DEF IsState
  <2>7. t.win[w] = OneMore(s.win[w]) /\ \A v \in Win \ {w} : t.win[v] = s.win[v]
    BY <1>2, <2>5
  <2>. QED  BY <1>4, <2>5, <2>6, <2>7 DEF Admitted
<1>. QED  BY <1>3, <1>4

(* and so does s3cfb_release.                                              *)
LEMMA StepDiscount ==
  ASSUME NEW a, NEW w \in Win, NEW s, IsState(s), NEW t, t = Step(a, s, DiscountStep(w))
  PROVE  /\ IsState(t) /\ t.power = s.power /\ t.lost = s.lost /\ t.missed = s.missed
         /\ t.reg = s.reg
         /\ t.cfg = s.cfg /\ t.start = s.start
         /\ t.file = Closed(s.file, a)
         /\ \A v \in Win \ {w} : t.win[v] = s.win[v]
         /\ t.win[w] = OneLess(s.win[w])
<1> DEFINE n == IF s.win[w].in_use > 0 THEN s.win[w].in_use - 1 ELSE s.win[w].in_use
<1>1. t = [s EXCEPT !.win = [s.win EXCEPT ![w] = [s.win[w] EXCEPT !.in_use = n]],
                    !.file = [s.file EXCEPT ![a] = NULL], !.lock = NULL]
  BY DEF Step, Exec, Discount, DiscountStep
<1>2. s.win[w] \in Window
  BY DEF IsState
<1>3. n \in Nat
  BY <1>2 DEF Window
<1>. HIDE DEF n
<1>4. [s.win[w] EXCEPT !.in_use = n] \in Window
  BY <1>2, <1>3 DEF Window
<1>5. t.win = [s.win EXCEPT ![w] = [s.win[w] EXCEPT !.in_use = n]]
      /\ t.file = [s.file EXCEPT ![a] = NULL]
      /\ t.power = s.power /\ t.lost = s.lost /\ t.reg = s.reg /\ t.cfg = s.cfg /\ t.start = s.start
      /\ t.missed = s.missed
      /\ t = [reg |-> t.reg, win |-> t.win, power |-> t.power, lock |-> t.lock, file |-> t.file,
              cfg |-> t.cfg, start |-> t.start, lost |-> t.lost, missed |-> t.missed]
  BY <1>1 DEF IsState
<1>6. t.win \in [Win -> Window] /\ t.file \in [Proc -> Win \cup {NULL}]
  BY <1>4, <1>5 DEF IsState
<1>7. IsState(t)
  BY <1>5, <1>6 DEF IsState
<1>8. (\A v \in Win \ {w} : t.win[v] = s.win[v]) /\ t.win[w] = [s.win[w] EXCEPT !.in_use = n]
  BY <1>5 DEF IsState
<1>9. t.win[w] = OneLess(s.win[w])
  BY <1>8 DEF n, OneLess
<1>10. t.file = Closed(s.file, a)
  BY <1>5 DEF Closed
<1>. QED  BY <1>5, <1>7, <1>8, <1>9, <1>10

(* Every step of a call on w, the last one too, spares the other windows.  *)
LEMMA StepBeside ==
  ASSUME NEW a, NEW w \in Win, NEW s, IsState(s), NEW o \in CallSteps(w), NEW t, t = Step(a, s, o)
  PROVE  Beside(w, s, t)
<1>1. CASE o \in StepsOn(w)
  <2>1. OnlyIn(w, s, t)
    BY <1>1, StepSpares
  <2>. QED  BY <2>1 DEF Beside, OnlyIn, Local
<1>2. CASE o = DiscountStep(w)
  <2>1. /\ IsState(t) /\ t.power = s.power /\ t.lost = s.lost /\ t.missed = s.missed
        /\ t.reg = s.reg /\ \A v \in Win \ {w} : t.win[v] = s.win[v]
    <3>1. t = Step(a, s, DiscountStep(w))
      BY <1>2
    <3>. QED  BY <3>1, StepDiscount
  <2>. QED  BY <2>1 DEF Beside, SameView
<1>3. CASE o = CountStep(w)
  <2>1. /\ IsState(t) /\ t.power = s.power /\ t.lost = s.lost /\ t.missed = s.missed
        /\ t.reg = s.reg /\ \A v \in Win \ {w} : t.win[v] = s.win[v]
    <3>1. t = Step(a, s, CountStep(w))
      BY <1>3
    <3>. QED  BY <3>1, StepCount DEF Refused, Admitted
  <2>. QED  BY <2>1 DEF Beside, SameView
<1>. QED  BY <1>1, <1>2, <1>3 DEF CallSteps, LastSteps

(* And so does the whole of the call, up to any of its steps.              *)
LEMMA RunBeside ==
  ASSUME NEW a, NEW w \in Win, NEW s, IsState(s), NEW q \in Seq(CallSteps(w)),
         NEW f, Trace(f, a, s, q)
  PROVE  \A n \in 0 .. Len(q) : Beside(w, s, f[n])
<1>0. Len(q) \in Nat /\ \A k \in 1 .. Len(q) : q[k] \in CallSteps(w)
  BY LenProperties, ElementOfSeq
<1> DEFINE T == {n \in Nat : Beside(w, s, f[n])}
<1>1. f[0] = s /\ \A n \in 1 .. Len(q) : f[n] = Step(a, f[n - 1], q[n])
  BY <1>0, TraceSteps
<1>2. 0 \in T
  BY <1>1 DEF Beside, SameView
<1>3. ASSUME NEW n \in 0 .. Len(q) - 1, n \in T
      PROVE  n + 1 \in T
  <2>0. n + 1 \in 1 .. Len(q) /\ n + 1 - 1 = n /\ n + 1 \in Nat
    BY <1>0
  <2>1. f[n + 1] = Step(a, f[n], q[n + 1]) /\ q[n + 1] \in CallSteps(w)
    BY <1>0, <1>1, <2>0
  <2>2. Beside(w, s, f[n])
    BY <1>3
  <2>a. IsState(f[n])
    BY <2>2 DEF Beside
  <2>3. Beside(w, f[n], f[n + 1])
    BY <2>1, <2>a, StepBeside
  <2>4. Beside(w, s, f[n + 1])
    BY <2>2, <2>3 DEF Beside, SameView
  <2>. QED  BY <2>0, <2>4
<1>4. \A n \in 0 .. Len(q) : n \in T
  <2>. HIDE DEF T
  <2>. QED  BY <1>0, <1>2, <1>3, CountUp
<1>. QED  BY <1>4

(* Before the users are counted the files and their count stay.         *)
LEMMA RunOn ==
  ASSUME NEW a, NEW w \in Win, NEW s, IsState(s), NEW q \in Seq(CallSteps(w)),
         NEW f, Trace(f, a, s, q), NEW m \in 0 .. Len(q),
         \A k \in 1 .. m : q[k] \in StepsOn(w)
  PROVE  \A n \in 0 .. m : OnlyIn(w, s, f[n])
<1>0. Len(q) \in Nat /\ m \in Nat
  BY LenProperties
<1> DEFINE T == {n \in Nat : OnlyIn(w, s, f[n])}
<1>1. f[0] = s /\ \A n \in 1 .. Len(q) : f[n] = Step(a, f[n - 1], q[n])
  BY <1>0, TraceSteps
<1>2. 0 \in T
  BY <1>1 DEF OnlyIn, SameView, Local
<1>3. ASSUME NEW n \in 0 .. m - 1, n \in T
      PROVE  n + 1 \in T
  <2>0. n + 1 \in 1 .. Len(q) /\ n + 1 - 1 = n /\ n + 1 \in Nat /\ n + 1 \in 1 .. m
    BY <1>0
  <2>1. f[n + 1] = Step(a, f[n], q[n + 1]) /\ q[n + 1] \in StepsOn(w)
    BY <1>0, <1>1, <2>0
  <2>2. OnlyIn(w, s, f[n])
    BY <1>3
  <2>a. IsState(f[n])
    BY <2>2 DEF OnlyIn, Local
  <2>3. OnlyIn(w, f[n], f[n + 1])
    BY <2>1, <2>a, StepSpares
  <2>4. OnlyIn(w, s, f[n + 1])
    BY <2>2, <2>3 DEF OnlyIn, SameView, Local
  <2>. QED  BY <2>0, <2>4
<1>4. \A n \in 0 .. m : n \in T
  <2>. HIDE DEF T
  <2>. QED  BY <1>0, <1>2, <1>3, CountUp
<1>. QED  BY <1>4

-----------------------------------------------------------------------------
(* What is stored to WINCON has been loaded just before.                   *)
Paired(q, w) ==
  \A k \in 2 .. Len(q) : q[k] \in StoresOf(w) \cup Merges(w) => q[k - 1] = Load(WINCON(w))

(* Counting its users leaves w looking the same in two states in which it  *)
(* did.                                                                    *)
LEMMA LastAlike ==
  ASSUME NEW a, NEW w \in Win, NEW s, IsState(s), NEW t, IsState(t), SameView(w, s, t),
         NEW o \in LastSteps(w), NEW s1, s1 = Step(a, s, o), NEW t1, t1 = Step(a, t, o)
  PROVE  SameView(w, s1, t1) /\ t1.start = t.start /\ s1.start = s.start
<1>0. t.win[w] = s.win[w]
  BY DEF SameView
<1>1. CASE o = DiscountStep(w)
  <2>1. /\ s1.power = s.power /\ s1.lost = s.lost /\ s1.missed = s.missed
        /\ s1.reg = s.reg /\ s1.start = s.start /\ s1.win[w] = OneLess(s.win[w])
    BY <1>1, StepDiscount
  <2>2. /\ t1.power = t.power /\ t1.lost = t.lost /\ t1.missed = t.missed
        /\ t1.reg = t.reg /\ t1.start = t.start /\ t1.win[w] = OneLess(t.win[w])
    BY <1>1, StepDiscount
  <2>. QED  BY <1>0, <2>1, <2>2 DEF SameView
<1>2. CASE o = CountStep(w)
  <2>1. /\ s1.power = s.power /\ s1.lost = s.lost /\ s1.missed = s.missed
        /\ s1.reg = s.reg /\ s1.start = s.start
        /\ s1.win[w] = IF s.win[w].in_use > 0 /\ w # Default THEN s.win[w] ELSE OneMore(s.win[w])
    BY <1>2, StepCount DEF Refused, Admitted
  <2>2. /\ t1.power = t.power /\ t1.lost = t.lost /\ t1.missed = t.missed
        /\ t1.reg = t.reg /\ t1.start = t.start
        /\ t1.win[w] = IF t.win[w].in_use > 0 /\ w # Default THEN t.win[w] ELSE OneMore(t.win[w])
    BY <1>2, StepCount DEF Refused, Admitted
  <2>. QED  BY <1>0, <2>1, <2>2 DEF SameView
<1>. QED  BY <1>1, <1>2 DEF LastSteps

(* A call on w does the same to w from states in which w looks the same.   *)
LEMMA RunAlike ==
  ASSUME NEW a, NEW w \in Win, NEW s, IsState(s), NEW t, IsState(t), SameView(w, s, t),
         t.cfg = s.cfg, t.start = s.start,
         NEW q \in Seq(CallSteps(w)), Paired(q, w)
  PROVE  SameView(w, RunAll(a, s, q), RunAll(a, t, q))
<1>0. Len(q) \in Nat /\ \A k \in 1 .. Len(q) : q[k] \in CallSteps(w)
  BY LenProperties, ElementOfSeq
<1>f. PICK f : Trace(f, a, s, q)
  BY <1>0, TraceExists
<1>g. PICK g : Trace(g, a, t, q)
  BY <1>0, TraceExists
<1> DEFINE T == {n \in Nat : /\ SameView(w, f[n], g[n]) /\ g[n].start = f[n].start
                             /\ (n = 0 \/ q[n] = Load(WINCON(w))) => g[n].cfg = f[n].cfg}
<1>1. f[0] = s /\ \A n \in 1 .. Len(q) : f[n] = Step(a, f[n - 1], q[n])
  BY <1>0, <1>f, TraceSteps
<1>2. g[0] = t /\ \A n \in 1 .. Len(q) : g[n] = Step(a, g[n - 1], q[n])
  BY <1>0, <1>g, TraceSteps
<1>3. 0 \in T
  BY <1>1, <1>2
<1>s. \A n \in 0 .. Len(q) : IsState(f[n]) /\ IsState(g[n])
  BY <1>f, <1>g, RunBeside DEF Beside
<1>4. ASSUME NEW n \in 0 .. Len(q) - 1, n \in T
      PROVE  n + 1 \in T
  <2>0. n + 1 \in 1 .. Len(q) /\ n + 1 - 1 = n /\ n + 1 \in Nat /\ n + 1 # 0 /\ n \in 0 .. Len(q)
    BY <1>0
  <2>1. f[n + 1] = Step(a, f[n], q[n + 1]) /\ g[n + 1] = Step(a, g[n], q[n + 1])
    BY <1>1, <1>2, <2>0
  <2>2. SameView(w, f[n], g[n]) /\ g[n].start = f[n].start /\ IsState(f[n]) /\ IsState(g[n])
    BY <1>4, <1>s, <2>0
  <2> DEFINE x == f[n]
             y == g[n]
             x1 == f[n + 1]
             y1 == g[n + 1]
             o == q[n + 1]
  <2>b. /\ IsState(x) /\ IsState(y) /\ SameView(w, x, y) /\ y.start = x.start
        /\ x1 = Step(a, x, o) /\ y1 = Step(a, y, o)
    BY <2>1, <2>2
  <2>3. CASE q[n + 1] \in StepsOn(w)
    <3>1. q[n + 1] \in StoresOf(w) \cup Merges(w) => g[n].cfg = f[n].cfg
      <4>. SUFFICES ASSUME q[n + 1] \in StoresOf(w) \cup Merges(w)
                    PROVE  g[n].cfg = f[n].cfg
        OBVIOUS
      <4>1. n # 0 => n + 1 \in 2 .. Len(q)
        BY <1>0, <2>0
      <4>2. n # 0 => q[n] = Load(WINCON(w))
        BY <4>1, <2>0 DEF Paired
      <4>. QED  BY <1>4, <4>2
    <3>2. /\ SameView(w, f[n + 1], g[n + 1])
          /\ q[n + 1] = Load(WINCON(w)) => g[n + 1].cfg = f[n + 1].cfg
          /\ g[n + 1].start = f[n + 1].start
      <4>1. o \in StepsOn(w) /\ (o \in StoresOf(w) \cup Merges(w) => y.cfg = x.cfg)
            /\ (o \in Starts(w) => y.start = x.start)
        BY <2>b, <2>3, <3>1
      <4>2. /\ SameView(w, x1, y1)
            /\ o = Load(WINCON(w)) => y1.cfg = x1.cfg
            /\ y1.start = x1.start
        <5>. HIDE DEF x, y, x1, y1, o
        <5>. QED  BY <2>b, <4>1, StepAlike
      <4>. QED  BY <4>2
    <3>. QED  BY <2>0, <3>2
  <2>4. CASE q[n + 1] \in LastSteps(w)
    <3>1. SameView(w, f[n + 1], g[n + 1]) /\ g[n + 1].start = f[n + 1].start
      <4>1. o \in LastSteps(w)
        BY <2>4
      <4>2. SameView(w, x1, y1) /\ y1.start = x1.start
        <5>. HIDE DEF x, y, x1, y1, o
        <5>. QED  BY <2>b, <4>1, LastAlike
      <4>. QED  BY <4>2
    <3>2. q[n + 1] # Load(WINCON(w))
      BY <2>4 DEF LastSteps, CountStep, DiscountStep, Load
    <3>. QED  BY <2>0, <3>1, <3>2
  <2>. QED  BY <1>0, <2>0, <2>3, <2>4 DEF CallSteps
<1>5. \A n \in 0 .. Len(q) : n \in T
  <2>. HIDE DEF T
  <2>. QED  BY <1>0, <1>3, <1>4, CountUp
<1>6. SameView(w, f[Len(q)], g[Len(q)])
  BY <1>0, <1>5
<1>7. RunAll(a, s, q) = f[Len(q)] /\ RunAll(a, t, q) = g[Len(q)]
  BY <1>0, <1>f, <1>g, RunIs
<1>. QED  BY <1>6, <1>7

-----------------------------------------------------------------------------
(* Parts of calls                                                          *)

(* A part of a call, and a call that may end by counting its user          *)
Part(q, w) ==
  /\ q \in Seq(StepsOn(w))
  /\ \A k \in 1 .. Len(q) :
       q[k] \in StoresOf(w) \cup Merges(w) => k > 1 /\ q[k - 1] = Load(WINCON(w))

IsCall(q, w) ==
  /\ q \in Seq(CallSteps(w)) /\ Paired(q, w)
  /\ \A k \in 1 .. Len(q) - 1 : q[k] \in StepsOn(w)

(* Parts in turn are a part,                                               *)
LEMMA PartConcat ==
  ASSUME NEW w, NEW x, NEW y, Part(x, w), Part(y, w)
  PROVE  Part(x \o y, w)
<1> DEFINE q == x \o y
<1>1. x \in Seq(StepsOn(w)) /\ y \in Seq(StepsOn(w))
  BY DEF Part
<1>2. /\ q \in Seq(StepsOn(w))
      /\ Len(q) = Len(x) + Len(y) /\ Len(x) \in Nat /\ Len(y) \in Nat
      /\ \A k \in 1 .. Len(x) + Len(y) : q[k] = IF k <= Len(x) THEN x[k] ELSE y[k - Len(x)]
  BY <1>1, ConcatProperties, LenProperties
<1>. HIDE DEF q
<1>3. ASSUME NEW k \in 1 .. Len(q), q[k] \in StoresOf(w) \cup Merges(w)
      PROVE  k > 1 /\ q[k - 1] = Load(WINCON(w))
  <2>1. CASE k <= Len(x)
    <3>1. k \in 1 .. Len(x) /\ q[k] = x[k]
      BY <1>2, <2>1
    <3>2. k > 1 /\ x[k - 1] = Load(WINCON(w))
      BY <1>3, <3>1 DEF Part
    <3>3. q[k - 1] = x[k - 1]
      BY <1>2, <3>1, <3>2
    <3>. QED  BY <3>2, <3>3
  <2>2. CASE k > Len(x)
    <3>1. k - Len(x) \in 1 .. Len(y) /\ q[k] = y[k - Len(x)]
      BY <1>2, <2>2
    <3>2. k - Len(x) > 1 /\ y[k - Len(x) - 1] = Load(WINCON(w))
      BY <1>3, <3>1 DEF Part
    <3>3. k - 1 \in 1 .. Len(x) + Len(y) /\ ~(k - 1 <= Len(x)) /\ k - 1 - Len(x) = k - Len(x) - 1
      BY <1>2, <3>1, <3>2
    <3>4. q[k - 1] = y[k - 1 - Len(x)]
      BY <1>2, <3>3
    <3>. QED  BY <1>2, <3>1, <3>2, <3>3, <3>4
  <2>. QED  BY <1>2, <2>1, <2>2
<1>4. Part(q, w)
  BY <1>2, <1>3 DEF Part
<1>. QED  BY <1>4 DEF q

(* nothing is one,                                                         *)
LEMMA PartNone ==
  ASSUME NEW w
  PROVE  Part(<<>>, w)
BY DEF Part

(* so is a single step that does not store what was loaded,                *)
LEMMA PartOne ==
  ASSUME NEW w, NEW o \in StepsOn(w), o \notin StoresOf(w) \cup Merges(w)
  PROVE  Part(<<o>>, w)
<1> DEFINE q == <<o>>
<1>1. q \in Seq(StepsOn(w)) /\ Len(q) = 1 /\ q[1] = o
  OBVIOUS
<1>2. Part(q, w)
  <2>. HIDE DEF q
  <2>1. \A k \in 1 .. Len(q) : q[k] = o
    BY <1>1
  <2>. QED  BY <1>1, <2>1 DEF Part
<1>. QED  BY <1>2

(* and so are two steps, if the second stores what the first has loaded.   *)
LEMMA PartTwo ==
  ASSUME NEW w, NEW o \in StepsOn(w), o \notin StoresOf(w) \cup Merges(w), NEW p \in StepsOn(w),
         p \in StoresOf(w) \cup Merges(w) => o = Load(WINCON(w))
  PROVE  Part(<<o, p>>, w)
<1> DEFINE q == <<o, p>>
<1>1. q \in Seq(StepsOn(w)) /\ Len(q) = 2 /\ q[1] = o /\ q[2] = p
  OBVIOUS
<1>2. Part(q, w)
  <2>. HIDE DEF q
  <2>1. ASSUME NEW k \in 1 .. Len(q), q[k] \in StoresOf(w) \cup Merges(w)
        PROVE  k > 1 /\ q[k - 1] = Load(WINCON(w))
    <3>1. k = 1 \/ k = 2
      BY <1>1
    <3>2. k # 1
      BY <1>1, <2>1
    <3>3. k = 2 /\ q[k] = p /\ k - 1 = 1 /\ q[k - 1] = o /\ k > 1
      BY <1>1, <3>1, <3>2
    <3>. QED  BY <2>1, <3>3
  <2>. QED  BY <1>1, <2>1 DEF Part
<1>. QED  BY <1>2

(* A part is a call.                                                       *)
LEMMA PartIsCall ==
  ASSUME NEW w, NEW q, Part(q, w)
  PROVE  IsCall(q, w)
<1>1. q \in Seq(StepsOn(w)) /\ Len(q) \in Nat /\ \A k \in 1 .. Len(q) : q[k] \in StepsOn(w)
  BY LenProperties, ElementOfSeq DEF Part
<1>2. q \in Seq(CallSteps(w))
  BY <1>1 DEF CallSteps
<1>3. \A k \in 2 .. Len(q) : k \in 1 .. Len(q)
  BY <1>1
<1>4. Paired(q, w)
  BY <1>3 DEF Part, Paired
<1>5. \A k \in 1 .. Len(q) - 1 : q[k] \in StepsOn(w)
  BY <1>1
<1>. QED  BY <1>2, <1>4, <1>5 DEF IsCall

(* The count of users is none of the steps of a part.                      *)
LEMMA NotStored ==
  ASSUME NEW w \in Win
  PROVE  LastSteps(w) \cap (StoresOf(w) \cup Merges(w)) = {} /\ LastSteps(w) \cap StepsOn(w) = {}
<1>1. \A o \in LastSteps(w) : o.do \in {"count", "discount"}
  BY DEF LastSteps, CountStep, DiscountStep
<1>. QED  BY <1>1, StepsAre DEF StepsOn

(* A part that ends with it is a call.                                     *)
LEMMA CountEnds ==
  ASSUME NEW w \in Win, NEW x, Part(x, w), NEW d \in LastSteps(w)
  PROVE  IsCall(x \o <<d>>, w)
<1> DEFINE y == <<d>>
           q == x \o y
<1>0. d \notin StoresOf(w) \cup Merges(w) /\ d \in CallSteps(w)
  BY NotStored DEF CallSteps
<1>1. x \in Seq(StepsOn(w)) /\ Len(x) \in Nat /\ \A k \in 1 .. Len(x) : x[k] \in StepsOn(w)
  BY LenProperties, ElementOfSeq DEF Part
<1>2. x \in Seq(CallSteps(w))
  BY <1>1 DEF CallSteps
<1>3. y \in Seq(CallSteps(w)) /\ Len(y) = 1 /\ y[1] = d
  BY <1>0
<1>. HIDE DEF y
<1>4. /\ q \in Seq(CallSteps(w)) /\ Len(q) = Len(x) + Len(y)
      /\ \A k \in 1 .. Len(x) + Len(y) : q[k] = IF k <= Len(x) THEN x[k] ELSE y[k - Len(x)]
  BY <1>2, <1>3, ConcatProperties
<1>. HIDE DEF q
<1>5. ASSUME NEW k \in 1 .. Len(q)
      PROVE  (k \in 1 .. Len(x) /\ q[k] = x[k]) \/ (k = Len(x) + 1 /\ q[k] = d)
  <2>1. q[k] = IF k <= Len(x) THEN x[k] ELSE y[k - Len(x)]
    BY <1>4
  <2>2. k \in Int /\ 1 <= k /\ k <= Len(x) + 1
    BY <1>1, <1>3, <1>4
  <2>3. CASE k <= Len(x)
    <3>1. q[k] = x[k]
      BY <2>1, <2>3
    <3>2. k \in 1 .. Len(x)
      BY <1>1, <2>2, <2>3
    <3>. QED  BY <3>1, <3>2
  <2>4. CASE k = Len(x) + 1
    <3>1. ~(k <= Len(x)) /\ k - Len(x) = 1
      BY <1>1, <2>4
    <3>. QED  BY <1>3, <2>1, <2>4, <3>1
  <2>. QED  BY <1>1, <2>2, <2>3, <2>4
<1>6. Paired(q, w)
  <2>. SUFFICES ASSUME NEW k \in 2 .. Len(q), q[k] \in StoresOf(w) \cup Merges(w)
                PROVE  q[k - 1] = Load(WINCON(w))
    BY DEF Paired
  <2>1. k \in 1 .. Len(q) /\ k - 1 \in 1 .. Len(q)
    BY <1>1, <1>3, <1>4
  <2>2. k \in 1 .. Len(x) /\ q[k] = x[k]
    BY <1>0, <1>5, <2>1
  <2>3. x[k - 1] = Load(WINCON(w))
    BY <2>2 DEF Part
  <2>4. k - 1 \in 1 .. Len(x) /\ k - 1 # Len(x) + 1
    BY <1>1, <2>1, <2>2
  <2>. QED  BY <1>5, <2>1, <2>3, <2>4
<1>7. \A k \in 1 .. Len(q) - 1 : q[k] \in StepsOn(w)
  BY <1>1, <1>3, <1>4, <1>5
<1>8. IsCall(q, w)
  BY <1>4, <1>6, <1>7 DEF IsCall
<1>. QED  BY <1>8 DEF q, y

(* What is left of a call is one.                                          *)
LEMMA CallRest ==
  ASSUME NEW w, NEW q, IsCall(q, w), NEW k \in 2 .. Len(q)
  PROVE  IsCall(SubSeq(q, k, Len(q)), w)
<1> DEFINE r == SubSeq(q, k, Len(q))
<1>0. Len(q) \in Nat /\ \A m \in 1 .. Len(q) : q[m] \in CallSteps(w)
  BY LenProperties, ElementOfSeq DEF IsCall
<1>1. /\ r \in Seq(CallSteps(w)) /\ Len(r) = Len(q) - k + 1
      /\ \A m \in 1 .. Len(q) - k + 1 : r[m] = q[k + m - 1]
  <2>1. /\ k \in Int /\ Len(q) \in Int /\ \A m \in k .. Len(q) : q[m] \in CallSteps(w)
    BY <1>0
  <2>2. /\ r \in Seq(CallSteps(w)) /\ Len(r) = IF k <= Len(q) THEN Len(q) - k + 1 ELSE 0
        /\ \A m \in 1 .. Len(q) - k + 1 : r[m] = q[k + m - 1]
    BY <2>1, SubSeqProperties
  <2>. HIDE DEF r
  <2>. QED  BY <2>2
<1>. HIDE DEF r
<1>2. Paired(r, w)
  <2>. SUFFICES ASSUME NEW m \in 2 .. Len(r), r[m] \in StoresOf(w) \cup Merges(w)
                PROVE  r[m - 1] = Load(WINCON(w))
    BY DEF Paired
  <2>1. /\ m \in 1 .. Len(q) - k + 1 /\ m - 1 \in 1 .. Len(q) - k + 1
        /\ k + m - 1 \in 2 .. Len(q) /\ k + (m - 1) - 1 = k + m - 1 - 1
    BY <1>0, <1>1
  <2>2. r[m] = q[k + m - 1] /\ r[m - 1] = q[k + (m - 1) - 1]
    BY <1>1, <2>1
  <2>3. q[k + m - 1 - 1] = Load(WINCON(w))
    BY <2>1, <2>2 DEF IsCall, Paired
  <2>. QED  BY <2>1, <2>2, <2>3
<1>3. ASSUME NEW m \in 1 .. Len(r) - 1
      PROVE  r[m] \in StepsOn(w)
  <2>1. m \in 1 .. Len(q) - k + 1 /\ k + m - 1 \in 1 .. Len(q) - 1
    BY <1>0, <1>1
  <2>. QED  BY <1>1, <2>1 DEF IsCall
<1>4. IsCall(r, w)
  BY <1>1, <1>2, <1>3 DEF IsCall
<1>. QED  BY <1>4 DEF r

-----------------------------------------------------------------------------
(* What runs leave in the registers                                        *)

(* A part spares the other windows and the files.                          *)
LEMMA PartRun ==
  ASSUME NEW a, NEW w \in Win, NEW s, IsState(s), NEW q, Part(q, w)
  PROVE  OnlyIn(w, s, RunAll(a, s, q))
<1>0. /\ q \in Seq(CallSteps(w)) /\ Len(q) \in Nat
      /\ \A k \in 1 .. Len(q) : q[k] \in StepsOn(w)
  <2>1. q \in Seq(StepsOn(w))
    BY DEF Part
  <2>. QED  BY <2>1, PartIsCall, LenProperties, ElementOfSeq DEF IsCall
<1>1. PICK f : Trace(f, a, s, q)
  BY <1>0, TraceExists
<1>2. Len(q) \in 0 .. Len(q)
  BY <1>0
<1>3. \A n \in 0 .. Len(q) : OnlyIn(w, s, f[n])
  BY <1>0, <1>1, <1>2, RunOn
<1>4. RunAll(a, s, q) = f[Len(q)]
  BY <1>0, <1>1, RunIs
<1>. QED  BY <1>2, <1>3, <1>4

(* Two parts run one after the other.                                      *)
LEMMA PartThen ==
  ASSUME NEW a, NEW w, NEW s, NEW x, Part(x, w), NEW y, Part(y, w)
  PROVE  RunAll(a, s, x \o y) = RunAll(a, RunAll(a, s, x), y)
<1>1. x \in Seq(StepsOn(w)) /\ y \in Seq(StepsOn(w))
  BY DEF Part
<1>. QED  BY <1>1, RunConcat

-----------------------------------------------------------------------------
(* With power, t differs from s at most in the registers R and in the      *)
(* local variables.                                                        *)
Keeps(t, s, R) ==
  Local(t, s) /\ t.win = s.win /\ \A r \in Regs \ R : t.reg[r] = s.reg[r]

(* Two runs change what each of them does.                                 *)
LEMMA KeepsTwice ==
  ASSUME NEW s, NEW t, NEW u, NEW P, NEW R, Keeps(t, s, P), Keeps(u, t, R)
  PROVE  Keeps(u, s, P \cup R)
BY DEF Keeps, Local

(* A store with power changes one register.                                *)
LEMMA WroteKeeps ==
  ASSUME NEW s, IsState(s), s.power, NEW t, NEW r \in Regs, NEW v, Wrote(t, s, r, v)
  PROVE  Keeps(t, s, {r}) /\ t.reg[r] = v /\ t.start = s.start
<1>1. Local(t, s) /\ t.reg = [s.reg EXCEPT ![r] = v] /\ t.win = s.win /\ t.start = s.start
  BY DEF Wrote, Stored
<1>2. s.reg = [q \in Regs |-> s.reg[q]]
  BY DEF IsState
<1>. QED  BY <1>1, <1>2 DEF Keeps

(* The fields of a register after s3cfb changed some of them               *)
Mixed(old, x, y) == (old \ y) \cup x

(* What each pair of steps does to the registers: load, change and store,  *)
LEMMA RunModify ==
  ASSUME NEW a, NEW s, IsState(s), s.power, NEW r \in Regs, NEW x, NEW y,
         NEW tt, tt = RunAll(a, s, Modify(r, x, y))
  PROVE  Keeps(tt, s, {r}) /\ tt.reg[r] = Mixed(s.reg[r], x, y) /\ tt.start = s.start
<1> DEFINE o == Load(r)
           p == Store(r, x, y)
           u == Step(a, s, o)
           t == Step(a, u, p)
           v == (s.reg[r] \ y) \cup x
<1>1. RunAll(a, s, Modify(r, x, y)) = t
  BY RunTwo DEF Modify
<1>2. o.do = "load" /\ o.reg = r /\ p.do = "store" /\ p.reg = r /\ p.set = x /\ p.clear = y
  BY DEF Load, Store
<1>3. Local(u, s) /\ u.reg = s.reg /\ u.win = s.win /\ u.start = s.start /\ u.cfg = s.reg[r]
  <2>. HIDE DEF o
  <2>. QED  BY <1>2, StepLoad
<1>4. IsState(u) /\ u.power
  BY <1>3 DEF Local
<1>5. Wrote(t, u, r, v)
  <2>1. v = (u.cfg \ p.clear) \cup p.set
    BY <1>2, <1>3
  <2>2. Wrote(t, u, p.reg, (u.cfg \ p.clear) \cup p.set)
    <3>. HIDE DEF u, p
    <3>. QED  BY <1>2, <1>4, StepStore
  <2>. HIDE DEF v, t, u
  <2>. QED  BY <1>2, <2>1, <2>2
<1>. HIDE DEF t, u, v
<1>6. Keeps(t, u, {r}) /\ t.reg[r] = v /\ t.start = u.start
  BY <1>4, <1>5, WroteKeeps
<1>7. Keeps(t, s, {r}) /\ t.start = s.start
  BY <1>3, <1>6 DEF Keeps, Local
<1>. QED  BY <1>1, <1>6, <1>7 DEF v, Mixed

(* The fields of a register after a setting of the window has replaced     *)
(* others                                                                  *)
Merged(old, y, v) == (old \ y) \cup ({v} \cap y)

(* load, and store with a setting of the window,                           *)
LEMMA RunMerge ==
  ASSUME NEW a, NEW s, IsState(s), s.power, NEW r \in Regs, NEW w, NEW h, NEW y,
         NEW tt, tt = RunAll(a, s, <<Load(r), Merge(r, w, h, y)>>)
  PROVE  Keeps(tt, s, {r}) /\ tt.reg[r] = Merged(s.reg[r], y, s.win[w][h]) /\ tt.start = s.start
<1> DEFINE o == Load(r)
           p == Merge(r, w, h, y)
           u == Step(a, s, o)
           t == Step(a, u, p)
           v == (s.reg[r] \ y) \cup ({s.win[w][h]} \cap y)
<1>1. RunAll(a, s, <<Load(r), Merge(r, w, h, y)>>) = t
  BY RunTwo
<1>2. o.do = "load" /\ o.reg = r /\ p.do = "merge" /\ p.reg = r /\ p.clear = y /\ p.w = w /\ p.f = h
  BY DEF Load, Merge
<1>3. Local(u, s) /\ u.reg = s.reg /\ u.win = s.win /\ u.start = s.start /\ u.cfg = s.reg[r]
  <2>. HIDE DEF o
  <2>. QED  BY <1>2, StepLoad
<1>4. IsState(u) /\ u.power
  BY <1>3 DEF Local
<1>5. Wrote(t, u, r, v)
  <2>1. v = (u.cfg \ p.clear) \cup ({u.win[p.w][p.f]} \cap p.clear)
    BY <1>2, <1>3
  <2>2. Wrote(t, u, p.reg, (u.cfg \ p.clear) \cup ({u.win[p.w][p.f]} \cap p.clear))
    <3>. HIDE DEF u, p
    <3>. QED  BY <1>2, <1>4, StepMerge
  <2>. HIDE DEF v, t, u
  <2>. QED  BY <1>2, <2>1, <2>2
<1>. HIDE DEF t, u, v
<1>6. Keeps(t, u, {r}) /\ t.reg[r] = v /\ t.start = u.start
  BY <1>4, <1>5, WroteKeeps
<1>7. Keeps(t, s, {r}) /\ t.start = s.start
  BY <1>3, <1>6 DEF Keeps, Local
<1>. QED  BY <1>1, <1>6, <1>7 DEF v, Merged

(* store a setting of the window,                                          *)
LEMMA RunCopy ==
  ASSUME NEW a, NEW s, IsState(s), s.power, NEW r \in Regs, NEW w, NEW h,
         NEW tt, tt = RunAll(a, s, Copy(r, w, h))
  PROVE  Keeps(tt, s, {r}) /\ tt.reg[r] = s.win[w][h] /\ tt.start = s.start
<1> DEFINE o == [do |-> "copy", reg |-> r, w |-> w, f |-> h]
           t == Step(a, s, o)
           v == s.win[w][h]
<1>1. RunAll(a, s, Copy(r, w, h)) = t
  BY RunOne DEF Copy
<1>2. o.do = "copy" /\ o.reg = r /\ o.w = w /\ o.f = h
  OBVIOUS
<1>3. Wrote(t, s, r, v)
  <2>1. Wrote(t, s, o.reg, s.win[o.w][o.f])
    <3>. HIDE DEF o
    <3>. QED  BY <1>2, StepCopy
  <2>. HIDE DEF t
  <2>. QED  BY <1>2, <2>1
<1>. HIDE DEF t, v
<1>4. Keeps(t, s, {r}) /\ t.reg[r] = v /\ t.start = s.start
  BY <1>3, WroteKeeps
<1>. QED  BY <1>1, <1>4 DEF v

(* store the address,                                                      *)
LEMMA RunStart ==
  ASSUME NEW a, NEW s, IsState(s), s.power, NEW r \in Regs, NEW w,
         NEW tt, tt = RunAll(a, s, <<[do |-> "start", reg |-> r, w |-> w]>>)
  PROVE  Keeps(tt, s, {r}) /\ tt.reg[r] = s.start
<1> DEFINE o == [do |-> "start", reg |-> r, w |-> w]
           t == Step(a, s, o)
           v == s.start
<1>1. RunAll(a, s, <<o>>) = t
  BY RunOne
<1>2. o.do = "start" /\ o.reg = r
  OBVIOUS
<1>3. Wrote(t, s, r, v)
  <2>1. Wrote(t, s, o.reg, s.start)
    <3>. HIDE DEF o
    <3>. QED  BY <1>2, StepStart
  <2>. HIDE DEF t
  <2>. QED  BY <1>2, <2>1
<1>. HIDE DEF t, v
<1>4. Keeps(t, s, {r}) /\ t.reg[r] = v
  BY <1>3, WroteKeeps
<1>. QED  BY <1>1, <1>4 DEF v

(* compute it,                                                             *)
LEMMA RunAddress ==
  ASSUME NEW a, NEW s, IsState(s), NEW w,
         NEW tt, tt = RunAll(a, s, <<[do |-> "address", w |-> w]>>)
  PROVE  Keeps(tt, s, {}) /\ tt.start = Address(s.win[w])
<1> DEFINE o == [do |-> "address", w |-> w]
           t == Step(a, s, o)
<1>1. RunAll(a, s, <<o>>) = t
  BY RunOne
<1>2. o.do = "address" /\ o.w = w
  OBVIOUS
<1>3. Local(t, s) /\ t.reg = s.reg /\ t.win = s.win /\ t.start = Address(s.win[w])
  <2>1. Local(t, s) /\ t.reg = s.reg /\ t.win = s.win /\ t.start = Address(s.win[o.w])
    <3>. HIDE DEF o
    <3>. QED  BY <1>2, StepAddress
  <2>. HIDE DEF t
  <2>. QED  BY <1>2, <2>1
<1>. HIDE DEF t
<1>4. Keeps(t, s, {}) /\ t.start = Address(s.win[w])
  BY <1>3 DEF Keeps
<1>. QED  BY <1>1, <1>4

(* and assign to a field of the window.                                    *)
LEMMA RunAssign ==
  ASSUME NEW a, NEW s, IsState(s), NEW w \in Win, NEW h, NEW v, <<h, v>> \in Settings
  PROVE  Changed(RunAll(a, s, Assign(w, h, v)), s, w, h, v)
<1> DEFINE o == AssignStep(w, h, v)
           t == Step(a, s, o)
<1>1. RunAll(a, s, Assign(w, h, v)) = t
  BY RunOne DEF Assign, AssignStep
<1>2. o.do = "assign" /\ o.w = w /\ o.f = h /\ o.v = v
  BY DEF AssignStep
<1>3. s.win[w] \in Window
  BY DEF IsState
<1>4. [s.win[w] EXCEPT ![h] = v] \in Window
  BY <1>3, SettingsFit
<1>5. Changed(t, s, o.w, o.f, o.v)
  <2>1. [s.win[o.w] EXCEPT ![o.f] = o.v] \in Window
    BY <1>2, <1>4
  <2>. HIDE DEF o
  <2>. QED  BY <1>2, <2>1, StepAssign
<1>. HIDE DEF t
<1>. QED  BY <1>1, <1>2, <1>5

-----------------------------------------------------------------------------
(* What the screen shows of a window                                       *)

(* The registers that a call on w stores to are those of w and WINSHMAP.   *)
LEMMA RegsDiffer ==
  ASSUME NEW w \in Win
  PROVE  /\ WINCON(w) = <<"WINCON", w>>
         /\ {WINCON(w), <<"VIDADDR", w>>, <<"VIDADDR_SIZE", w>>, <<"VIDOSD_A", w>>, <<"VIDOSD_B", w>>,
             <<"VIDOSD_C", w>>, <<"VIDOSD_SIZE", w>>, <<"KEYCON", w>>} \subseteq RegsOf(w)
         /\ RegsOf(w) \subseteq Regs
         /\ WINSHMAP \in Regs /\ WINSHMAP \notin RegsOf(w)
BY RegsAre DEF WINCON, RegsOf

(* Each piece of what the screen shows of a window that has memory         *)
Addressed(w, s) == s.reg[<<"VIDADDR", w>>] = Address(s.win[w])
Placed(w, s) ==
  /\ w # Default => s.reg[<<"VIDOSD_A", w>>] = s.win[w].x
  /\ s.reg[<<"VIDOSD_B", w>>] = s.win[w].xres
Formatted(w, s) == s.reg[WINCON(w)] \cap BppMode = {s.win[w].format} \cap BppMode
Blended(w, s) == w > 0 => s.win[w].alpha \in s.reg[WINCON(w)]
Keyed(w, s) == w > 0 => s.reg[<<"KEYCON", w>>] = s.win[w].chroma

Shows(w, s) == Addressed(w, s) /\ Placed(w, s) /\ Formatted(w, s) /\ Blended(w, s) /\ Keyed(w, s)

(* The window is on as a whole or off as a whole                           *)
Lit(w, s) == s.win[w].enabled <=> "ENWIN" \in s.reg[WINCON(w)]

(* t differs from s in the window w, its registers and what WINSHMAP       *)
(* protects of it, but not in whether it is on.                            *)
Steady(t, s, w) ==
  /\ OnlyIn(w, s, t) /\ t.win[w].enabled = s.win[w].enabled
  /\ "ENWIN" \in t.reg[WINCON(w)] <=> "ENWIN" \in s.reg[WINCON(w)]
  /\ t.reg[WINSHMAP] = s.reg[WINSHMAP] \/ t.reg[WINSHMAP] = s.reg[WINSHMAP] \ {Protect(w)}

(* Two runs that keep a window steady do so together.                      *)
LEMMA SteadyTwice ==
  ASSUME NEW w \in Win, NEW s, NEW t, NEW u, Steady(t, s, w), Steady(u, t, w)
  PROVE  Steady(u, s, w)
<1>1. OnlyIn(w, s, u)
  BY DEF Steady, OnlyIn, SameView, Local
<1>2. u.reg[WINSHMAP] = s.reg[WINSHMAP] \/ u.reg[WINSHMAP] = s.reg[WINSHMAP] \ {Protect(w)}
  BY DEF Steady
<1>. QED  BY <1>1, <1>2 DEF Steady

-----------------------------------------------------------------------------
(* Every function is a part of a call.                                     *)
LEMMA StepsIn ==
  ASSUME NEW w \in Win
  PROVE  /\ \A o \in Loads(w) \cup MapStores(w) \cup Copies(w) \cup Starts(w) \cup Addresses(w)
                     \cup Assigns(w) \cup MapSteps(w) \cup Unmaps(w) \cup Locks :
              o \in StepsOn(w) /\ o \notin StoresOf(w) \cup Merges(w)
         /\ StoresOf(w) \cup Merges(w) \subseteq StepsOn(w)
         /\ Load(WINCON(w)) \in Loads(w) /\ Load(WINSHMAP) \in Loads(w)
<1>1. \A o : o \in StoresOf(w) => o.do = "store" /\ o.reg = WINCON(w)
  BY StepsAre
<1>2. \A o : o \in Merges(w) => o.do = "merge"
  BY StepsAre
<1>3. WINCON(w) # WINSHMAP
  BY RegsDiffer
<1>4. \A o \in Loads(w) : o.do = "load"
  BY StepsAre
<1>5. \A o \in MapStores(w) : o.do = "store" /\ o.reg = WINSHMAP
  BY StepsAre
<1>6. \A o \in Copies(w) : o.do = "copy"
  BY StepsAre
<1>7. \A o \in Starts(w) : o.do = "start"
  BY StepsAre
<1>8. \A o \in Addresses(w) : o.do = "address"
  BY StepsAre
<1>9. \A o \in Assigns(w) : o.do = "assign"
  BY StepsAre
<1>10. \A o \in MapSteps(w) : o.do = "map"
  BY StepsAre
<1>11. \A o \in Unmaps(w) : o.do = "unmap"
  BY StepsAre
<1>14. \A o \in Locks : o.do = "lock"
  BY StepsAre
<1>12. \A o \in Loads(w) \cup MapStores(w) \cup Copies(w) \cup Starts(w) \cup Addresses(w)
                     \cup Assigns(w) \cup MapSteps(w) \cup Unmaps(w) \cup Locks :
              o \notin StoresOf(w) \cup Merges(w)
  BY <1>1, <1>2, <1>3, <1>4, <1>5, <1>6, <1>7, <1>8, <1>9, <1>10, <1>11, <1>14
<1>13. Load(WINCON(w)) \in Loads(w) /\ Load(WINSHMAP) \in Loads(w)
  BY DEF Loads
<1>. QED  BY <1>12, <1>13 DEF StepsOn

(* The changes of WINSHMAP for window w are parts of a call on it,         *)
LEMMA ProtectParts ==
  ASSUME NEW w \in Win
  PROVE  /\ Part(Modify(WINSHMAP, {Protect(w)}, {}), w)
         /\ Part(Modify(WINSHMAP, {}, {Protect(w)}), w)
         /\ Part(Modify(WINSHMAP, {Ch(w)}, {}), w)
         /\ Part(Modify(WINSHMAP, {}, {Ch(w)}), w)
<1>1. \A x, y \in {{}, {Ch(w)}, {Protect(w)}} : Store(WINSHMAP, x, y) \in MapStores(w)
  BY DEF MapStores
<1>2. \A x, y \in {{}, {Ch(w)}, {Protect(w)}} : Part(Modify(WINSHMAP, x, y), w)
  <2>. SUFFICES ASSUME NEW x \in {{}, {Ch(w)}, {Protect(w)}}, NEW y \in {{}, {Ch(w)}, {Protect(w)}}
                PROVE  Part(Modify(WINSHMAP, x, y), w)
    OBVIOUS
  <2> DEFINE o == Load(WINSHMAP)
             p == Store(WINSHMAP, x, y)
  <2>1. /\ o \in StepsOn(w) /\ o \notin StoresOf(w) \cup Merges(w)
        /\ p \in StepsOn(w) /\ p \notin StoresOf(w) \cup Merges(w)
    BY <1>1, StepsIn
  <2>2. Part(<<o, p>>, w)
    <3>. HIDE DEF o, p
    <3>. QED  BY <2>1, PartTwo
  <2>. QED  BY <2>2 DEF Modify
<1>. QED  BY <1>2

(* so are those of its control register,                                   *)
LEMMA OnParts ==
  ASSUME NEW w \in Win
  PROVE  /\ Part(Modify(WINCON(w), {"ENWIN"}, {}), w)
         /\ Part(Modify(WINCON(w), {}, {"ENWIN"}), w)
         /\ Part(<<Load(WINCON(w)), Merge(WINCON(w), w, "format", BppMode)>>, w)
         /\ Part(<<Load(WINCON(w)), Merge(WINCON(w), w, "alpha", Blends)>>, w)
<1> DEFINE o == Load(WINCON(w))
<1>1. o \in StepsOn(w) /\ o \notin StoresOf(w) \cup Merges(w)
  BY StepsIn
<1>2. \A p \in StoresOf(w) \cup Merges(w) : Part(<<o, p>>, w)
  <2>. SUFFICES ASSUME NEW p \in StoresOf(w) \cup Merges(w)
                PROVE  Part(<<o, p>>, w)
    OBVIOUS
  <2>1. p \in StepsOn(w)
    BY StepsIn
  <2>2. p \in StoresOf(w) \cup Merges(w) => o = Load(WINCON(w))
    OBVIOUS
  <2>. HIDE DEF o
  <2>. QED  BY <1>1, <2>1, <2>2, PartTwo
<1>3. /\ Store(WINCON(w), {"ENWIN"}, {}) \in StoresOf(w) /\ Store(WINCON(w), {}, {"ENWIN"}) \in StoresOf(w)
  BY DEF StoresOf
<1>4. /\ Merge(WINCON(w), w, "format", BppMode) \in Merges(w)
      /\ Merge(WINCON(w), w, "alpha", Blends) \in Merges(w)
  BY DEF Merges
<1>. QED  BY <1>2, <1>3, <1>4 DEF Modify

(* the stores of its settings,                                             *)
LEMMA CopyPart ==
  ASSUME NEW w \in Win, NEW r \in RegsOf(w) \ {WINCON(w), <<"VIDADDR", w>>},
         NEW h \in {"x", "xres", "alpha", "chroma"}
  PROVE  Part(Copy(r, w, h), w)
<1> DEFINE o == CopyStep(r, w, h)
<1>1. o \in Copies(w)
  BY DEF Copies
<1>2. o \in StepsOn(w) /\ o \notin StoresOf(w) \cup Merges(w)
  <2>. HIDE DEF o
  <2>. QED  BY <1>1, StepsIn
<1>3. Part(<<o>>, w)
  <2>. HIDE DEF o
  <2>. QED  BY <1>2, PartOne
<1>. QED  BY <1>3 DEF Copy, CopyStep

(* its address and its memory,                                             *)
LEMMA SinglePart ==
  ASSUME NEW w \in Win
  PROVE  /\ Part(<<[do |-> "address", w |-> w]>>, w)
         /\ Part(<<[do |-> "start", reg |-> <<"VIDADDR", w>>, w |-> w]>>, w)
         /\ Part(s3cfb_unmap_video_memory(w), w)
         /\ \A ok \in BOOLEAN : Part(s3cfb_map_video_memory(w, ok), w)
         /\ \A h, v : <<h, v>> \in Settings => Part(Assign(w, h, v), w)
         /\ Part(<<[do |-> "lock"]>>, w)
<1>1. \A o \in Starts(w) \cup Addresses(w) \cup Assigns(w) \cup MapSteps(w) \cup Unmaps(w)
                \cup Locks : Part(<<o>>, w)
  BY StepsIn, PartOne
<1>2. [do |-> "address", w |-> w] \in Addresses(w)
  BY DEF Addresses
<1>3. [do |-> "start", reg |-> <<"VIDADDR", w>>, w |-> w] \in Starts(w)
  BY DEF Starts
<1>4. [do |-> "unmap", w |-> w] \in Unmaps(w)
  BY DEF Unmaps
<1>5. \A ok \in BOOLEAN : [do |-> "map", w |-> w, ok |-> ok] \in MapSteps(w)
  BY DEF MapSteps
<1>6. ASSUME NEW h, NEW v, <<h, v>> \in Settings
      PROVE  Part(Assign(w, h, v), w)
  <2> DEFINE o == AssignStep(w, h, v)
  <2>1. o \in Assigns(w)
    <3> DEFINE p == <<h, v>>
    <3>1. p \in Settings /\ o = AssignStep(w, p[1], p[2])
      BY <1>6
    <3>. HIDE DEF p, o
    <3>. QED  BY <3>1 DEF Assigns
  <2>2. Part(<<o>>, w)
    <3>. HIDE DEF o
    <3>. QED  BY <1>1, <2>1
  <2>. QED  BY <2>2 DEF Assign, AssignStep
<1>7. Part(<<[do |-> "address", w |-> w]>>, w)
  BY <1>1, <1>2
<1>8. Part(<<[do |-> "start", reg |-> <<"VIDADDR", w>>, w |-> w]>>, w)
  BY <1>1, <1>3
<1>9. Part(s3cfb_unmap_video_memory(w), w)
  BY <1>1, <1>4 DEF s3cfb_unmap_video_memory
<1>10. \A ok \in BOOLEAN : Part(s3cfb_map_video_memory(w, ok), w)
  BY <1>1, <1>5 DEF s3cfb_map_video_memory
<1>11. Part(<<[do |-> "lock"]>>, w)
  BY <1>1 DEF Locks
<1>. QED  BY <1>6, <1>7, <1>8, <1>9, <1>10, <1>11

(* and the functions of s3cfb_fimd6x.c made of them.                       *)
LEMMA FunctionParts ==
  ASSUME NEW w \in Win
  PROVE  /\ Part(s3cfb_window_on(w), w) /\ Part(s3cfb_window_off(w), w)
         /\ Part(s3cfb_set_window_control(w), w) /\ Part(s3cfb_set_window_position(w), w)
         /\ Part(s3cfb_set_window_size(w), w) /\ Part(s3cfb_set_buffer_address(w), w)
         /\ Part(s3cfb_set_buffer_size(w), w) /\ Part(s3cfb_set_alpha_blending(w), w)
         /\ Part(s3cfb_set_chroma_key(w), w)
<1>0. /\ \A r \in {<<"VIDADDR_SIZE", w>>, <<"VIDOSD_A", w>>, <<"VIDOSD_B", w>>,
             <<"VIDOSD_C", w>>, <<"VIDOSD_SIZE", w>>, <<"KEYCON", w>>} :
           r \in RegsOf(w) \ {WINCON(w), <<"VIDADDR", w>>}
  <2>1. \A r \in {<<"VIDADDR_SIZE", w>>, <<"VIDOSD_A", w>>, <<"VIDOSD_B", w>>,
             <<"VIDOSD_C", w>>, <<"VIDOSD_SIZE", w>>, <<"KEYCON", w>>} :
           r \in RegsOf(w) /\ r[1] # "WINCON" /\ r[1] # "VIDADDR"
    BY DEF RegsOf
  <2>2. WINCON(w)[1] = "WINCON" /\ <<"VIDADDR", w>>[1] = "VIDADDR"
    BY DEF WINCON
  <2>. QED  BY <2>1, <2>2
<1>1. Part(s3cfb_window_on(w), w) /\ Part(s3cfb_window_off(w), w)
  BY OnParts, ProtectParts, PartConcat DEF s3cfb_window_on, s3cfb_window_off
<1>2. Part(s3cfb_set_window_control(w), w)
  BY OnParts DEF s3cfb_set_window_control
<1>3. Part(s3cfb_set_window_position(w), w)
  <2>1. Part(Copy(<<"VIDOSD_A", w>>, w, "x"), w) /\ Part(Copy(<<"VIDOSD_B", w>>, w, "xres"), w)
    BY <1>0, CopyPart
  <2>. QED  BY <2>1, ProtectParts, PartConcat DEF s3cfb_set_window_position
<1>4. Part(s3cfb_set_window_size(w), w) /\ Part(s3cfb_set_buffer_size(w), w)
  <2>1. Part(Copy(<<"VIDOSD_SIZE", w>>, w, "xres"), w) /\ Part(Copy(<<"VIDADDR_SIZE", w>>, w, "xres"), w)
    BY <1>0, CopyPart
  <2>2. Part(<<>>, w)
    BY PartNone
  <2>. QED  BY <2>1, <2>2 DEF s3cfb_set_window_size, s3cfb_set_buffer_size
<1>5. Part(s3cfb_set_buffer_address(w), w)
  BY SinglePart, ProtectParts, PartConcat DEF s3cfb_set_buffer_address
<1>6. Part(s3cfb_set_alpha_blending(w), w)
  <2>1. Part(Copy(<<"VIDOSD_C", w>>, w, "alpha"), w)
    BY <1>0, CopyPart
  <2>2. Part(<<>>, w)
    BY PartNone
  <2>. QED  BY <2>1, <2>2, OnParts, PartConcat DEF s3cfb_set_alpha_blending
<1>7. Part(s3cfb_set_chroma_key(w), w)
  <2>1. Part(Copy(<<"KEYCON", w>>, w, "chroma"), w)
    BY <1>0, CopyPart
  <2>2. Part(<<>>, w)
    BY PartNone
  <2>. QED  BY <2>1, <2>2 DEF s3cfb_set_chroma_key
<1>. QED  BY <1>1, <1>2, <1>3, <1>4, <1>5, <1>6, <1>7

(* Three parts run in turn,                                                *)
LEMMA PartThen3 ==
  ASSUME NEW a, NEW w, NEW s, NEW x, Part(x, w), NEW y, Part(y, w), NEW z, Part(z, w)
  PROVE  RunAll(a, s, x \o y \o z) = RunAll(a, RunAll(a, RunAll(a, s, x), y), z)
<1>1. Part(x \o y, w)
  BY PartConcat
<1>2. RunAll(a, s, x \o y \o z) = RunAll(a, RunAll(a, s, x \o y), z)
  BY <1>1, PartThen
<1>. QED  BY <1>2, PartThen

(* and so do four.                                                         *)
LEMMA PartThen4 ==
  ASSUME NEW a, NEW w, NEW s, NEW x, Part(x, w), NEW y, Part(y, w), NEW z, Part(z, w),
         NEW r, Part(r, w)
  PROVE  RunAll(a, s, x \o y \o z \o r) = RunAll(a, RunAll(a, RunAll(a, RunAll(a, s, x), y), z), r)
<1>1. Part(x \o y \o z, w)
  BY PartConcat
<1>2. RunAll(a, s, x \o y \o z \o r) = RunAll(a, RunAll(a, s, x \o y \o z), r)
  BY <1>1, PartThen
<1>. QED  BY <1>2, PartThen3

(* A run that keeps all but some registers keeps the driver's structures.  *)
LEMMA KeepsState ==
  ASSUME NEW s, IsState(s), NEW t, NEW R, Keeps(t, s, R)
  PROVE  IsState(t) /\ t.power = s.power /\ t.win = s.win
BY DEF Keeps, Local

(* The registers that position and address are stored to, with WINSHMAP    *)
PlaceRegs(w) == {WINSHMAP, <<"VIDOSD_A", w>>, <<"VIDOSD_B", w>>}
AddressRegs(w) == {WINSHMAP, <<"VIDADDR", w>>}
(* The window is no longer protected.                                      *)
Unprotected(old, w) == old \ {Protect(w)}

(* s3cfb_set_window_position stores the window's place and leaves it       *)
(* unprotected.                                                            *)
LEMMA RunPosition ==
  ASSUME NEW a, NEW w \in Win, NEW s, IsState(s), s.power,
         NEW t, t = RunAll(a, s, s3cfb_set_window_position(w))
  PROVE  /\ Keeps(t, s, PlaceRegs(w))
         /\ t.reg[<<"VIDOSD_A", w>>] = s.win[w].x /\ t.reg[<<"VIDOSD_B", w>>] = s.win[w].xres
         /\ t.reg[WINSHMAP] = Unprotected(s.reg[WINSHMAP], w)
<1> DEFINE A == <<"VIDOSD_A", w>>
           B == <<"VIDOSD_B", w>>
           P == {Protect(w)}
           E == {}
           x1 == Modify(WINSHMAP, P, E)
           x2 == Copy(A, w, "x")
           x3 == Copy(B, w, "xres")
           x4 == Modify(WINSHMAP, E, P)
           u1 == RunAll(a, s, x1)
           u2 == RunAll(a, u1, x2)
           u3 == RunAll(a, u2, x3)
           u4 == RunAll(a, u3, x4)
<1>0. A \in Regs /\ B \in Regs /\ A # B /\ WINSHMAP \in Regs /\ A # WINSHMAP /\ B # WINSHMAP
  <2>1. A \in RegsOf(w) /\ B \in RegsOf(w) /\ A # B
    BY DEF RegsOf
  <2>. QED  BY <2>1, RegsDiffer
<1>1. t = u4
  <2>1. Part(x1, w) /\ Part(x4, w)
    BY ProtectParts
  <2>2. Part(x2, w) /\ Part(x3, w)
    <3>1. A \in RegsOf(w) /\ B \in RegsOf(w) /\ A[1] = "VIDOSD_A" /\ B[1] = "VIDOSD_B"
      BY DEF RegsOf
    <3>2. WINCON(w)[1] = "WINCON" /\ <<"VIDADDR", w>>[1] = "VIDADDR"
      BY DEF WINCON
    <3>3. A \in RegsOf(w) \ {WINCON(w), <<"VIDADDR", w>>} /\ B \in RegsOf(w) \ {WINCON(w), <<"VIDADDR", w>>}
      BY <3>1, <3>2
    <3>. HIDE DEF A, B
    <3>. QED  BY <3>3, CopyPart
  <2>3. s3cfb_set_window_position(w) = x1 \o x2 \o x3 \o x4
    BY DEF s3cfb_set_window_position
  <2>. HIDE DEF x1, x2, x3, x4
  <2>. QED  BY <2>1, <2>2, <2>3, PartThen4
<1>2. Keeps(u1, s, {WINSHMAP}) /\ u1.reg[WINSHMAP] = s.reg[WINSHMAP] \cup {Protect(w)}
  <2>1. /\ Keeps(u1, s, {WINSHMAP}) /\ u1.reg[WINSHMAP] = Mixed(s.reg[WINSHMAP], P, E)
        /\ u1.start = s.start
    <3>. HIDE DEF P, E
    <3>. QED  BY <1>0, RunModify
  <2>. QED  BY <2>1 DEF Mixed
<1>3. Keeps(u2, u1, {A}) /\ u2.reg[A] = u1.win[w].x
  <2>1. IsState(u1) /\ u1.power
    BY <1>2, KeepsState
  <2>. HIDE DEF u1, A
  <2>. QED  BY <1>0, <2>1, RunCopy
<1>4. Keeps(u3, u2, {B}) /\ u3.reg[B] = u2.win[w].xres
  <2>1. IsState(u2) /\ u2.power
    BY <1>2, <1>3, KeepsState
  <2>. HIDE DEF u2, B
  <2>. QED  BY <1>0, <2>1, RunCopy
<1>5. Keeps(u4, u3, {WINSHMAP}) /\ u4.reg[WINSHMAP] = (u3.reg[WINSHMAP] \ {Protect(w)})
  <2>1. IsState(u3) /\ u3.power
    BY <1>2, <1>3, <1>4, KeepsState
  <2>2. /\ Keeps(u4, u3, {WINSHMAP}) /\ u4.reg[WINSHMAP] = Mixed(u3.reg[WINSHMAP], E, P)
        /\ u4.start = u3.start
    <3>. HIDE DEF u3, P, E
    <3>. QED  BY <1>0, <2>1, RunModify
  <2>. QED  BY <2>2 DEF Mixed
<1>. HIDE DEF u1, u2, u3, u4, A, B
<1>6. Keeps(u4, s, {WINSHMAP, A, B})
  BY <1>2, <1>3, <1>4, <1>5 DEF Keeps, Local
<1>7. u1.win = s.win /\ u2.win = s.win
  BY <1>2, <1>3 DEF Keeps
<1>8. u4.reg[A] = s.win[w].x /\ u4.reg[B] = s.win[w].xres
  BY <1>0, <1>3, <1>4, <1>5, <1>7 DEF Keeps
<1>9. u4.reg[WINSHMAP] = s.reg[WINSHMAP] \ {Protect(w)}
  <2>1. u3.reg[WINSHMAP] = s.reg[WINSHMAP] \cup {Protect(w)}
    BY <1>0, <1>2, <1>3, <1>4 DEF Keeps
  <2>. QED  BY <1>5, <2>1
<1>. QED  BY <1>1, <1>6, <1>8, <1>9 DEF A, B, PlaceRegs, Unprotected

(* s3cfb_set_buffer_address stores the address of the window's memory, and *)
(* leaves it unprotected.                                                  *)
LEMMA RunBufferAddress ==
  ASSUME NEW a, NEW w \in Win, NEW s, IsState(s), s.power,
         NEW t, t = RunAll(a, s, s3cfb_set_buffer_address(w))
  PROVE  /\ Keeps(t, s, AddressRegs(w))
         /\ t.reg[<<"VIDADDR", w>>] = Address(s.win[w])
         /\ t.reg[WINSHMAP] = Unprotected(s.reg[WINSHMAP], w)
<1> DEFINE A == <<"VIDADDR", w>>
           x1 == <<[do |-> "address", w |-> w]>>
           P == {Protect(w)}
           E == {}
           x2 == Modify(WINSHMAP, P, E)
           x3 == <<[do |-> "start", reg |-> A, w |-> w]>>
           x4 == Modify(WINSHMAP, E, P)
           u1 == RunAll(a, s, x1)
           u2 == RunAll(a, u1, x2)
           u3 == RunAll(a, u2, x3)
           u4 == RunAll(a, u3, x4)
<1>0. A \in Regs /\ WINSHMAP \in Regs /\ A # WINSHMAP
  <2>1. A \in RegsOf(w)
    BY DEF RegsOf
  <2>. QED  BY <2>1, RegsDiffer
<1>1. t = u4
  <2>1. Part(x2, w) /\ Part(x4, w)
    BY ProtectParts
  <2>2. Part(x1, w) /\ Part(x3, w)
    BY SinglePart
  <2>3. s3cfb_set_buffer_address(w) = x1 \o x2 \o x3 \o x4
    BY DEF s3cfb_set_buffer_address
  <2>. HIDE DEF x1, x2, x3, x4
  <2>. QED  BY <2>1, <2>2, <2>3, PartThen4
<1>2. Keeps(u1, s, {}) /\ u1.start = Address(s.win[w])
  BY RunAddress
<1>3. Keeps(u2, u1, {WINSHMAP}) /\ u2.reg[WINSHMAP] = u1.reg[WINSHMAP] \cup {Protect(w)} /\ u2.start = u1.start
  <2>1. IsState(u1) /\ u1.power
    BY <1>2, KeepsState
  <2>2. /\ Keeps(u2, u1, {WINSHMAP}) /\ u2.reg[WINSHMAP] = Mixed(u1.reg[WINSHMAP], P, E)
        /\ u2.start = u1.start
    <3>. HIDE DEF u1, P, E
    <3>. QED  BY <1>0, <2>1, RunModify
  <2>. QED  BY <2>2 DEF Mixed
<1>4. Keeps(u3, u2, {A}) /\ u3.reg[A] = u2.start
  <2>1. IsState(u2) /\ u2.power
    BY <1>2, <1>3, KeepsState
  <2>. HIDE DEF u2, A
  <2>. QED  BY <1>0, <2>1, RunStart
<1>5. Keeps(u4, u3, {WINSHMAP}) /\ u4.reg[WINSHMAP] = (u3.reg[WINSHMAP] \ {Protect(w)})
  <2>1. IsState(u3) /\ u3.power
    BY <1>2, <1>3, <1>4, KeepsState
  <2>2. /\ Keeps(u4, u3, {WINSHMAP}) /\ u4.reg[WINSHMAP] = Mixed(u3.reg[WINSHMAP], E, P)
        /\ u4.start = u3.start
    <3>. HIDE DEF u3, P, E
    <3>. QED  BY <1>0, <2>1, RunModify
  <2>. QED  BY <2>2 DEF Mixed
<1>. HIDE DEF u1, u2, u3, u4, A
<1>6. Keeps(u4, s, {WINSHMAP, A})
  BY <1>2, <1>3, <1>4, <1>5 DEF Keeps, Local
<1>7. u4.reg[A] = Address(s.win[w])
  BY <1>0, <1>2, <1>3, <1>4, <1>5 DEF Keeps
<1>8. u4.reg[WINSHMAP] = s.reg[WINSHMAP] \ {Protect(w)}
  <2>1. u3.reg[WINSHMAP] = s.reg[WINSHMAP] \cup {Protect(w)}
    BY <1>0, <1>2, <1>3, <1>4 DEF Keeps
  <2>. QED  BY <1>5, <2>1
<1>. QED  BY <1>1, <1>6, <1>7, <1>8 DEF A, AddressRegs, Unprotected

(* s3cfb_set_window_control stores the format.                             *)
LEMMA RunControl ==
  ASSUME NEW a, NEW w \in Win, NEW s, IsState(s), s.power,
         NEW t, t = RunAll(a, s, s3cfb_set_window_control(w))
  PROVE  /\ Keeps(t, s, {WINCON(w)})
         /\ t.reg[WINCON(w)] = Merged(s.reg[WINCON(w)], BppMode, s.win[w].format)
<1>1. WINCON(w) \in Regs
  BY RegsDiffer
<1>2. s3cfb_set_window_control(w) = <<Load(WINCON(w)), Merge(WINCON(w), w, "format", BppMode)>>
  BY DEF s3cfb_set_window_control
<1>. QED  BY <1>1, <1>2, RunMerge

(* The sizes go to registers of their own.                                 *)
LEMMA RunSizes ==
  ASSUME NEW a, NEW w \in Win, NEW s, IsState(s), s.power
  PROVE  /\ Keeps(RunAll(a, s, s3cfb_set_window_size(w)), s, {<<"VIDOSD_SIZE", w>>})
         /\ Keeps(RunAll(a, s, s3cfb_set_buffer_size(w)), s, {<<"VIDADDR_SIZE", w>>})
<1>1. <<"VIDOSD_SIZE", w>> \in Regs /\ <<"VIDADDR_SIZE", w>> \in Regs
  <2>1. <<"VIDOSD_SIZE", w>> \in RegsOf(w) /\ <<"VIDADDR_SIZE", w>> \in RegsOf(w)
    BY DEF RegsOf
  <2>. QED  BY <2>1, RegsDiffer
<1>2. Keeps(s, s, {<<"VIDOSD_SIZE", w>>})
  BY DEF Keeps, Local
<1>3. CASE w > 2
  BY <1>1, <1>2, <1>3, RunNone, RunCopy DEF s3cfb_set_window_size, s3cfb_set_buffer_size
<1>4. CASE ~(w > 2)
  BY <1>1, <1>4, RunCopy DEF s3cfb_set_window_size, s3cfb_set_buffer_size
<1>. QED  BY <1>3, <1>4

(* s3cfb_set_alpha_blending stores the blending, and s3cfb_set_chroma_key  *)
(* the key.                                                                *)
LEMMA RunAlpha ==
  ASSUME NEW a, NEW w \in Win, w # 0, NEW s, IsState(s), s.power,
         NEW t, t = RunAll(a, s, s3cfb_set_alpha_blending(w))
  PROVE  /\ Keeps(t, s, {WINCON(w), <<"VIDOSD_C", w>>})
         /\ t.reg[WINCON(w)] = Merged(s.reg[WINCON(w)], Blends, s.win[w].alpha)
<1> DEFINE C == <<"VIDOSD_C", w>>
           x1 == <<Load(WINCON(w)), Merge(WINCON(w), w, "alpha", Blends)>>
           x2 == Copy(C, w, "alpha")
           u1 == RunAll(a, s, x1)
           u2 == RunAll(a, u1, x2)
<1>0. C \in Regs /\ WINCON(w) \in Regs /\ C # WINCON(w)
  <2>1. C \in RegsOf(w) /\ C[1] = "VIDOSD_C" /\ WINCON(w)[1] = "WINCON"
    BY DEF RegsOf, WINCON
  <2>. QED  BY <2>1, RegsDiffer
<1>1. t = u2
  <2>1. Part(x1, w)
    BY OnParts
  <2>2. Part(x2, w)
    <3>1. C \in RegsOf(w) /\ C[1] = "VIDOSD_C" /\ WINCON(w)[1] = "WINCON" /\ <<"VIDADDR", w>>[1] = "VIDADDR"
      BY DEF RegsOf, WINCON
    <3>2. C \in RegsOf(w) \ {WINCON(w), <<"VIDADDR", w>>}
      BY <3>1
    <3>. HIDE DEF C
    <3>. QED  BY <3>2, CopyPart
  <2>3. s3cfb_set_alpha_blending(w) = x1 \o x2
    BY DEF s3cfb_set_alpha_blending
  <2>. HIDE DEF x1, x2
  <2>. QED  BY <2>1, <2>2, <2>3, PartThen
<1>2. Keeps(u1, s, {WINCON(w)}) /\ u1.reg[WINCON(w)] = Merged(s.reg[WINCON(w)], Blends, s.win[w].alpha)
  BY <1>0, RunMerge
<1>3. Keeps(u2, u1, {C})
  <2>1. IsState(u1) /\ u1.power
    BY <1>2, KeepsState
  <2>. HIDE DEF u1, C
  <2>. QED  BY <1>0, <2>1, RunCopy
<1>. HIDE DEF u1, u2, C
<1>4. Keeps(u2, s, {WINCON(w), C})
  BY <1>2, <1>3 DEF Keeps, Local
<1>5. u2.reg[WINCON(w)] = u1.reg[WINCON(w)]
  BY <1>0, <1>3 DEF Keeps
<1>. QED  BY <1>1, <1>2, <1>4, <1>5 DEF C

(* The key goes to a register of its own.                                  *)
LEMMA RunChroma ==
  ASSUME NEW a, NEW w \in Win, w # 0, NEW s, IsState(s), s.power,
         NEW t, t = RunAll(a, s, s3cfb_set_chroma_key(w))
  PROVE  Keeps(t, s, {<<"KEYCON", w>>}) /\ t.reg[<<"KEYCON", w>>] = s.win[w].chroma
<1>1. <<"KEYCON", w>> \in RegsOf(w)
  BY DEF RegsOf
<1>2. <<"KEYCON", w>> \in Regs
  BY <1>1, RegsDiffer
<1> DEFINE K == <<"KEYCON", w>>
<1>3. s3cfb_set_chroma_key(w) = Copy(K, w, "chroma") /\ K \in Regs
  BY <1>2 DEF s3cfb_set_chroma_key
<1>4. Keeps(t, s, {K}) /\ t.reg[K] = s.win[w].chroma
  <2>. HIDE DEF K
  <2>. QED  BY <1>3, RunCopy
<1>. QED  BY <1>4

(* No two of the registers that s3cfb_set_win_params stores to are the     *)
(* same.                                                                   *)
LEMMA RegsDistinct ==
  ASSUME NEW w \in Win
  PROVE  /\ WINCON(w) \notin {<<"VIDADDR", w>>, <<"VIDADDR_SIZE", w>>, <<"VIDOSD_A", w>>, <<"VIDOSD_B", w>>,
                              <<"VIDOSD_C", w>>, <<"VIDOSD_SIZE", w>>, <<"KEYCON", w>>, WINSHMAP}
         /\ <<"VIDADDR", w>> \notin {<<"VIDADDR_SIZE", w>>, <<"VIDOSD_A", w>>, <<"VIDOSD_B", w>>,
                              <<"VIDOSD_C", w>>, <<"VIDOSD_SIZE", w>>, <<"KEYCON", w>>, WINSHMAP}
         /\ <<"VIDOSD_A", w>> \notin {<<"VIDADDR_SIZE", w>>, <<"VIDOSD_B", w>>, <<"VIDOSD_C", w>>,
                              <<"VIDOSD_SIZE", w>>, <<"KEYCON", w>>, WINSHMAP}
         /\ <<"VIDOSD_B", w>> \notin {<<"VIDADDR_SIZE", w>>, <<"VIDOSD_C", w>>, <<"VIDOSD_SIZE", w>>,
                              <<"KEYCON", w>>, WINSHMAP}
         /\ WINSHMAP \notin {<<"VIDADDR_SIZE", w>>, <<"VIDOSD_C", w>>, <<"VIDOSD_SIZE", w>>,
                              <<"KEYCON", w>>}
         /\ {WINCON(w), <<"VIDADDR", w>>, <<"VIDADDR_SIZE", w>>, <<"VIDOSD_A", w>>, <<"VIDOSD_B", w>>,
             <<"VIDOSD_C", w>>, <<"VIDOSD_SIZE", w>>, <<"KEYCON", w>>, WINSHMAP} \subseteq Regs
<1>1. {WINCON(w), <<"VIDADDR", w>>, <<"VIDADDR_SIZE", w>>, <<"VIDOSD_A", w>>, <<"VIDOSD_B", w>>,
             <<"VIDOSD_C", w>>, <<"VIDOSD_SIZE", w>>, <<"KEYCON", w>>, WINSHMAP} \subseteq Regs
  BY RegsDiffer
<1>2. /\ WINSHMAP \notin {WINCON(w), <<"VIDADDR", w>>, <<"VIDADDR_SIZE", w>>, <<"VIDOSD_A", w>>, <<"VIDOSD_B", w>>,
             <<"VIDOSD_C", w>>, <<"VIDOSD_SIZE", w>>, <<"KEYCON", w>>}
  BY RegsDiffer
<1>. QED  BY <1>1, <1>2 DEF WINCON

(* After s3cfb_set_win_params the screen shows the window as the driver    *)
(* has it, whatever the registers held, and it is as much on as before.    *)
LEMMA RunParams ==
  ASSUME NEW a, NEW w \in Win, NEW s, IsState(s), s.power,
         NEW t, t = RunAll(a, s, s3cfb_set_win_params(w))
  PROVE  Part(s3cfb_set_win_params(w), w) /\ Steady(t, s, w) /\ t.win = s.win /\ Shows(w, t)
<1> DEFINE CON == WINCON(w)
           ADR == <<"VIDADDR", w>>
           SZ == <<"VIDADDR_SIZE", w>>
           A == <<"VIDOSD_A", w>>
           B == <<"VIDOSD_B", w>>
           C == <<"VIDOSD_C", w>>
           OS == <<"VIDOSD_SIZE", w>>
           K == <<"KEYCON", w>>
           x1 == s3cfb_set_window_control(w)
           x2 == s3cfb_set_window_position(w)
           x3 == s3cfb_set_window_size(w)
           x4 == s3cfb_set_buffer_address(w)
           x5 == s3cfb_set_buffer_size(w)
           x6 == s3cfb_set_alpha_blending(w)
           x7 == s3cfb_set_chroma_key(w)
           tail == IF w > 0 THEN x6 \o x7 ELSE <<>>
           q == s3cfb_set_win_params(w)
           u1 == RunAll(a, s, x1)
           u2 == RunAll(a, u1, x2)
           u3 == RunAll(a, u2, x3)
           u4 == RunAll(a, u3, x4)
           u5 == RunAll(a, u4, x5)
           u6 == RunAll(a, u5, x6)
           u7 == RunAll(a, u6, x7)
<1>0. /\ CON \notin {ADR, SZ, A, B, C, OS, K, WINSHMAP} /\ ADR \notin {SZ, A, B, C, OS, K, WINSHMAP}
      /\ A \notin {SZ, B, C, OS, K, WINSHMAP} /\ B \notin {SZ, C, OS, K, WINSHMAP}
      /\ WINSHMAP \notin {SZ, C, OS, K}
      /\ CON \in Regs /\ ADR \in Regs /\ A \in Regs /\ B \in Regs /\ K \in Regs /\ WINSHMAP \in Regs
  BY RegsDistinct
<1>p. /\ Part(x1, w) /\ Part(x2, w) /\ Part(x3, w) /\ Part(x4, w) /\ Part(x5, w)
      /\ Part(x6, w) /\ Part(x7, w)
  BY FunctionParts
<1>q. q = x1 \o x2 \o x3 \o x4 \o x5 \o tail
  BY DEF s3cfb_set_win_params
<1>t. Part(tail, w) /\ (w > 0 => tail = x6 \o x7) /\ (~(w > 0) => tail = <<>>)
  <2>. HIDE DEF x6, x7
  <2>. QED  BY <1>p, PartConcat, PartNone
<1>1. Part(q, w) /\ RunAll(a, s, q) = RunAll(a, u5, tail)
  <2>1. Part(x1 \o x2 \o x3 \o x4, w) /\ RunAll(a, s, x1 \o x2 \o x3 \o x4) = u4
    <3>. HIDE DEF x1, x2, x3, x4
    <3>. QED  BY <1>p, PartConcat, PartThen4
  <2> DEFINE y == x1 \o x2 \o x3 \o x4
  <2>2. Part(y \o x5, w) /\ RunAll(a, s, y \o x5) = u5
    <3>1. Part(y, w) /\ RunAll(a, s, y) = u4
      BY <2>1
    <3>. HIDE DEF y, x5, u4
    <3>. QED  BY <1>p, <3>1, PartConcat, PartThen
  <2> DEFINE z == y \o x5
  <2>3. Part(z \o tail, w) /\ RunAll(a, s, z \o tail) = RunAll(a, u5, tail)
    <3>1. Part(z, w) /\ RunAll(a, s, z) = u5
      BY <2>2
    <3>. HIDE DEF z, tail, u5
    <3>. QED  BY <1>t, <3>1, PartConcat, PartThen
  <2>. QED  BY <1>q, <2>3
<1>2. t = RunAll(a, u5, tail)
  BY <1>1
<1>3. Keeps(u1, s, {CON}) /\ u1.reg[CON] = Merged(s.reg[CON], BppMode, s.win[w].format)
  BY RunControl
<1>s1. IsState(u1) /\ u1.power /\ u1.win = s.win
  <2>. HIDE DEF u1
  <2>. QED  BY <1>3, KeepsState
<1>4. Keeps(u2, u1, PlaceRegs(w)) /\ u2.reg[A] = u1.win[w].x /\ u2.reg[B] = u1.win[w].xres
      /\ u2.reg[WINSHMAP] = Unprotected(u1.reg[WINSHMAP], w)
  <2>. HIDE DEF u1
  <2>. QED  BY <1>s1, RunPosition
<1>s2. IsState(u2) /\ u2.power /\ u2.win = s.win
  <2>. HIDE DEF u1, u2
  <2>. QED  BY <1>s1, <1>4, KeepsState
<1>5. Keeps(u3, u2, {OS})
  <2>. HIDE DEF u2
  <2>. QED  BY <1>s2, RunSizes
<1>s3. IsState(u3) /\ u3.power /\ u3.win = s.win
  <2>. HIDE DEF u2, u3
  <2>. QED  BY <1>s2, <1>5, KeepsState
<1>6. Keeps(u4, u3, AddressRegs(w)) /\ u4.reg[ADR] = Address(u3.win[w])
      /\ u4.reg[WINSHMAP] = Unprotected(u3.reg[WINSHMAP], w)
  <2>. HIDE DEF u3
  <2>. QED  BY <1>s3, RunBufferAddress
<1>s4. IsState(u4) /\ u4.power /\ u4.win = s.win
  <2>. HIDE DEF u3, u4
  <2>. QED  BY <1>s3, <1>6, KeepsState
<1>7. Keeps(u5, u4, {SZ})
  <2>. HIDE DEF u4
  <2>. QED  BY <1>s4, RunSizes
<1>s5. IsState(u5) /\ u5.power /\ u5.win = s.win
  <2>. HIDE DEF u4, u5
  <2>. QED  BY <1>s4, <1>7, KeepsState
<1>v. s.win[w].format \in Formats /\ s.win[w].alpha \in Blends
  BY DEF IsState, Window
<1>8. /\ Local(u5, s) /\ u5.reg[ADR] = Address(u5.win[w])
      /\ u5.reg[A] = u5.win[w].x /\ u5.reg[B] = u5.win[w].xres
      /\ u5.reg[CON] = Merged(s.reg[CON], BppMode, s.win[w].format)
      /\ u5.reg[WINSHMAP] = s.reg[WINSHMAP] \ {Protect(w)}
  <2>. HIDE DEF u1, u2, u3, u4, u5, CON, ADR, SZ, A, B, C, OS, K
  <2>1. Local(u5, s)
    BY <1>3, <1>4, <1>5, <1>6, <1>7 DEF Keeps, Local
  <2>2. u5.reg[ADR] = Address(u5.win[w])
    BY <1>0, <1>6, <1>7, <1>s3, <1>s5 DEF Keeps, AddressRegs, ADR
  <2>3. u5.reg[A] = u5.win[w].x
    BY <1>0, <1>4, <1>5, <1>6, <1>7, <1>s1, <1>s5 DEF Keeps, PlaceRegs, AddressRegs, ADR, A, B
  <2>4. u5.reg[B] = u5.win[w].xres
    BY <1>0, <1>4, <1>5, <1>6, <1>7, <1>s1, <1>s5 DEF Keeps, PlaceRegs, AddressRegs, ADR, A, B
  <2>5. u5.reg[CON] = u1.reg[CON]
    BY <1>0, <1>4, <1>5, <1>6, <1>7 DEF Keeps, PlaceRegs, AddressRegs, ADR, A, B
  <2>6. u5.reg[WINSHMAP] = u4.reg[WINSHMAP] /\ u3.reg[WINSHMAP] = u2.reg[WINSHMAP]
        /\ u1.reg[WINSHMAP] = s.reg[WINSHMAP]
    BY <1>0, <1>3, <1>5, <1>7 DEF Keeps
  <2>7. u5.reg[WINSHMAP] = s.reg[WINSHMAP] \ {Protect(w)}
    BY <1>4, <1>6, <2>6 DEF Unprotected
  <2>. QED  BY <1>3, <2>1, <2>2, <2>3, <2>4, <2>5, <2>7
<1>9. OnlyIn(w, s, t)
  BY <1>1, PartRun
<1>10. CASE ~(w > 0)
  <2>1. t = u5
    BY <1>2, <1>10, <1>t, RunNone
  <2>. HIDE DEF u5, tail, q
  <2>2. t.win = s.win /\ Addressed(w, t) /\ Placed(w, t) /\ Blended(w, t) /\ Keyed(w, t)
    BY <2>1, <1>8, <1>s5, <1>10 DEF Addressed, Placed, Blended, Keyed
  <2>3. Formatted(w, t) /\ ("ENWIN" \in t.reg[CON] <=> "ENWIN" \in s.reg[CON])
    BY <2>1, <1>8, <1>s5, <1>v DEF Formatted, Merged, BppMode, Formats
  <2>4. Steady(t, s, w)
    BY <1>8, <1>9, <2>1, <2>2, <2>3 DEF Steady
  <2>. QED  BY <1>1, <2>2, <2>3, <2>4 DEF Shows, q
<1>11. CASE w > 0
  <2>0. w # 0
    BY <1>11
  <2>1. t = u7
    <3>1. RunAll(a, u5, x6 \o x7) = u7
      <4>. HIDE DEF x6, x7, u5
      <4>. QED  BY <1>p, PartThen
    <3>. HIDE DEF tail, u5, u7, x6, x7
    <3>. QED  BY <1>2, <1>11, <1>t, <3>1
  <2>2. Keeps(u6, u5, {CON, C}) /\ u6.reg[CON] = Merged(u5.reg[CON], Blends, u5.win[w].alpha)
    <3>. HIDE DEF u5
    <3>. QED  BY <1>s5, <2>0, RunAlpha
  <2>s. IsState(u6) /\ u6.power /\ u6.win = s.win
    <3>. HIDE DEF u5, u6
    <3>. QED  BY <1>s5, <2>2, KeepsState
  <2>3. Keeps(u7, u6, {K}) /\ u7.reg[K] = u6.win[w].chroma
    <3>. HIDE DEF u6
    <3>. QED  BY <2>s, <2>0, RunChroma
  <2>. HIDE DEF u1, u2, u3, u4, u5, u6, u7, CON, ADR, SZ, A, B, C, OS, K, tail, q
  <2>4. t.win = s.win /\ t.reg[K] = t.win[w].chroma
    BY <2>1, <2>s, <2>3 DEF Keeps
  <2>5. /\ t.reg[ADR] = Address(t.win[w]) /\ t.reg[A] = t.win[w].x /\ t.reg[B] = t.win[w].xres
        /\ t.reg[WINSHMAP] = s.reg[WINSHMAP] \ {Protect(w)}
        /\ t.reg[CON] = Merged(u5.reg[CON], Blends, s.win[w].alpha)
    BY <1>0, <1>8, <1>s5, <2>1, <2>2, <2>3, <2>4 DEF Keeps
  <2>6. /\ t.reg[CON] \cap BppMode = {t.win[w].format} \cap BppMode /\ t.win[w].alpha \in t.reg[CON]
        /\ "ENWIN" \in t.reg[CON] <=> "ENWIN" \in s.reg[CON]
    <3>1. BppMode \cap Blends = {} /\ "ENWIN" \notin BppMode \cup Blends
      BY DEF BppMode, Formats, Blends
    <3>2. /\ t.reg[CON] = (u5.reg[CON] \ Blends) \cup ({t.win[w].alpha} \cap Blends)
          /\ u5.reg[CON] = (s.reg[CON] \ BppMode) \cup ({t.win[w].format} \cap BppMode)
          /\ t.win[w].alpha \in Blends
      BY <1>8, <1>v, <2>4, <2>5 DEF Merged
    <3>3. t.reg[CON] \cap BppMode = {t.win[w].format} \cap BppMode
      BY ONLY <3>1, <3>2
    <3>. QED  BY <3>1, <3>2, <3>3
  <2>7. Shows(w, t)
    BY <2>4, <2>5, <2>6 DEF Shows, Addressed, Placed, Formatted, Blended, Keyed, CON, ADR, A, B, K
  <2>8. Steady(t, s, w)
    BY <1>9, <2>4, <2>5, <2>6 DEF Steady, CON
  <2>. QED  BY <1>1, <2>4, <2>7, <2>8 DEF q
<1>. QED  BY <1>10, <1>11

(* What the screen shows of a window but for its address                   *)
Appears(w, s) == Placed(w, s) /\ Formatted(w, s) /\ Blended(w, s) /\ Keyed(w, s)

(* The address is that of the window, and zero without memory; with memory *)
(* the window appears as it is set.                                        *)
Pictured(w, s) == Addressed(w, s) /\ (s.win[w].mem => Appears(w, s))

(* The registers of window w follow the driver's structures, but for what  *)
(* went with the power.                                                    *)
Follows(w, s) == Lit(w, s) /\ (w \notin s.lost => Pictured(w, s))

(* The fields of a window other than h are the same in u and in v.         *)
OtherFields(u, v, h) ==
  /\ h # "enabled" => v.enabled = u.enabled
  /\ h # "mem" => v.mem = u.mem
  /\ h # "x" => v.x = u.x
  /\ h # "xres" => v.xres = u.xres
  /\ h # "yoffset" => v.yoffset = u.yoffset
  /\ h # "format" => v.format = u.format
  /\ h # "alpha" => v.alpha = u.alpha
  /\ h # "chroma" => v.chroma = u.chroma

(* A window with one field set                                             *)
WithField(u, h, x) == [u EXCEPT ![h] = x]

(* Its other fields are as before.                                         *)
LEMMA FieldSet ==
  ASSUME NEW u \in Window, NEW h, NEW x, <<h, x>> \in Settings,
         NEW v, v = WithField(u, h, x)
  PROVE  OtherFields(u, v, h) /\ v[h] = x
<1>1. h \in {"enabled", "x", "xres", "rows", "yoffset", "format", "alpha", "chroma"}
  BY SettingsFit
<1>. QED  BY <1>1 DEF Window, OtherFields, WithField

(* An assignment to a field of the window changes no register.             *)
LEMMA RunSetting ==
  ASSUME NEW a, NEW w \in Win, NEW s, IsState(s), NEW h, NEW x, <<h, x>> \in Settings,
         NEW t, t = RunAll(a, s, Assign(w, h, x))
  PROVE  /\ Part(Assign(w, h, x), w) /\ OnlyIn(w, s, t) /\ t.reg = s.reg
         /\ OtherFields(s.win[w], t.win[w], h) /\ t.win[w][h] = x
<1>1. Part(Assign(w, h, x), w)
  BY SinglePart
<1>2. Changed(t, s, w, h, x)
  BY RunAssign
<1>3. OnlyIn(w, s, t)
  BY <1>1, PartRun
<1>4. t.reg = s.reg /\ t.win[w] = [s.win[w] EXCEPT ![h] = x] /\ s.win[w] \in Window
  BY <1>2 DEF Changed, IsState
<1>5. OtherFields(s.win[w], t.win[w], h) /\ t.win[w][h] = x
  <2> DEFINE u == s.win[w]
             v == t.win[w]
  <2>1. u \in Window /\ v = WithField(u, h, x)
    BY <1>4 DEF WithField
  <2>2. OtherFields(u, v, h) /\ v[h] = x
    <3>. HIDE DEF u, v
    <3>. QED  BY <2>1, FieldSet
  <2>. QED  BY <2>2
<1>. QED  BY <1>1, <1>3, <1>4, <1>5

(* The channels after window w is turned on or off                         *)
Lights(M, w, on) == IF on THEN M \cup {Ch(w)} ELSE M \ {Ch(w)}

(* s3cfb_set_window turns a window on or off as a whole: its structure,    *)
(* its control register and its channel.                                   *)
LEMMA RunSetWindow ==
  ASSUME NEW a, NEW w \in Win, NEW s, IsState(s), s.power, NEW on \in BOOLEAN,
         NEW t, t = RunAll(a, s, s3cfb_set_window(w, on))
  PROVE  /\ Part(s3cfb_set_window(w, on), w) /\ OnlyIn(w, s, t)
         /\ t.win[w].enabled = on /\ Lit(w, t) /\ t.reg[WINSHMAP] = Lights(s.reg[WINSHMAP], w, on)
         /\ Pictured(w, s) => Pictured(w, t)
         /\ OtherFields(s.win[w], t.win[w], "enabled")
<1> DEFINE E == {}
           N == {"ENWIN"}
           C == {Ch(w)}
           CON == WINCON(w)
           x1 == Modify(CON, IF on THEN N ELSE E, IF on THEN E ELSE N)
           x2 == Modify(WINSHMAP, IF on THEN C ELSE E, IF on THEN E ELSE C)
           x3 == Assign(w, "enabled", on)
           u1 == RunAll(a, s, x1)
           u2 == RunAll(a, u1, x2)
           u3 == RunAll(a, u2, x3)
<1>0. /\ CON \in Regs /\ WINSHMAP \in Regs /\ CON # WINSHMAP
      /\ CON \in RegsOf(w) /\ WINSHMAP \notin RegsOf(w) /\ RegsOf(w) \subseteq Regs
  BY RegsDiffer
<1>1. Part(x1, w) /\ Part(x2, w)
  BY OnParts, ProtectParts
<1>2. <<"enabled", on>> \in Settings
  BY DEF Settings
<1>3. Part(x3, w)
  BY <1>2, SinglePart
<1>4. s3cfb_set_window(w, on) = (x1 \o x2) \o x3
  BY DEF s3cfb_set_window, s3cfb_window_on, s3cfb_window_off
<1>5. Part(s3cfb_set_window(w, on), w) /\ t = u3
  <2>. HIDE DEF x1, x2, x3
  <2>. QED  BY <1>1, <1>3, <1>4, PartConcat, PartThen3
<1>6. OnlyIn(w, s, t)
  BY <1>5, PartRun
<1>7. Keeps(u1, s, {CON}) /\ u1.reg[CON] = IF on THEN s.reg[CON] \cup N ELSE s.reg[CON] \ N
  <2> DEFINE X == IF on THEN N ELSE E
             Y == IF on THEN E ELSE N
  <2>1. u1 = RunAll(a, s, Modify(CON, X, Y))
    OBVIOUS
  <2>2. Keeps(u1, s, {CON}) /\ u1.reg[CON] = Mixed(s.reg[CON], X, Y)
    <3>. HIDE DEF X, Y, u1, CON
    <3>. QED  BY <1>0, <2>1, RunModify
  <2>. QED  BY <2>2 DEF Mixed
<1>8. IsState(u1) /\ u1.power /\ u1.win = s.win
  <2>. HIDE DEF u1
  <2>. QED  BY <1>7, KeepsState
<1>9. Keeps(u2, u1, {WINSHMAP}) /\ u2.reg[WINSHMAP] = Lights(u1.reg[WINSHMAP], w, on)
  <2> DEFINE X == IF on THEN C ELSE E
             Y == IF on THEN E ELSE C
  <2>1. u2 = RunAll(a, u1, Modify(WINSHMAP, X, Y))
    OBVIOUS
  <2>2. Keeps(u2, u1, {WINSHMAP}) /\ u2.reg[WINSHMAP] = Mixed(u1.reg[WINSHMAP], X, Y)
    <3>. HIDE DEF X, Y, u1, u2
    <3>. QED  BY <1>0, <1>8, <2>1, RunModify
  <2>. QED  BY <2>2 DEF Mixed, Lights
<1>10. IsState(u2) /\ u2.win = s.win
  <2>. HIDE DEF u1, u2
  <2>. QED  BY <1>8, <1>9, KeepsState
<1>11. u3.reg = u2.reg /\ OtherFields(u2.win[w], u3.win[w], "enabled") /\ u3.win[w]["enabled"] = on
  <2> DEFINE h == "enabled"
  <2>1. u3 = RunAll(a, u2, Assign(w, h, on)) /\ <<h, on>> \in Settings
    BY <1>2
  <2>2. u3.reg = u2.reg /\ OtherFields(u2.win[w], u3.win[w], h) /\ u3.win[w][h] = on
    <3>. HIDE DEF u2, u3, h
    <3>. QED  BY <1>10, <2>1, RunSetting
  <2>. QED  BY <2>2
<1>. HIDE DEF u1, u2, u3, CON
<1>12. t.win[w].enabled = on
  BY <1>5, <1>11
<1>13. /\ t.reg[CON] = u1.reg[CON] /\ t.reg[WINSHMAP] = Lights(s.reg[WINSHMAP], w, on)
       /\ \A r \in RegsOf(w) \ {CON} : t.reg[r] = s.reg[r]
  BY <1>0, <1>5, <1>7, <1>9, <1>11 DEF Keeps
<1>14. Lit(w, t)
  BY <1>7, <1>12, <1>13 DEF Lit, CON
<1>15. OtherFields(s.win[w], t.win[w], "enabled")
  BY <1>5, <1>10, <1>11
<1>16. ASSUME Pictured(w, s)
       PROVE  Pictured(w, t)
  <2>1. /\ t.reg[<<"VIDADDR", w>>] = s.reg[<<"VIDADDR", w>>]
        /\ t.reg[<<"VIDOSD_A", w>>] = s.reg[<<"VIDOSD_A", w>>]
        /\ t.reg[<<"VIDOSD_B", w>>] = s.reg[<<"VIDOSD_B", w>>]
        /\ t.reg[<<"KEYCON", w>>] = s.reg[<<"KEYCON", w>>]
    <3>1. \A r \in {<<"VIDADDR", w>>, <<"VIDOSD_A", w>>, <<"VIDOSD_B", w>>, <<"KEYCON", w>>} :
            r \in RegsOf(w) /\ r[1] # "WINCON"
      BY DEF RegsOf
    <3>2. CON[1] = "WINCON"
      BY DEF CON, WINCON
    <3>. QED  BY <1>13, <3>1, <3>2
  <2>2. /\ t.win[w].mem = s.win[w].mem /\ t.win[w].x = s.win[w].x /\ t.win[w].xres = s.win[w].xres
        /\ t.win[w].yoffset = s.win[w].yoffset /\ t.win[w].format = s.win[w].format
        /\ t.win[w].alpha = s.win[w].alpha /\ t.win[w].chroma = s.win[w].chroma
    BY <1>15 DEF OtherFields
  <2>3. s.win[w].format # "ENWIN" /\ s.win[w].alpha # "ENWIN"
    BY DEF IsState, Window, Formats, Blends
  <2>4. Addressed(w, t)
    BY <1>16, <2>1, <2>2 DEF Pictured, Addressed, Address
  <2>5. ASSUME s.win[w].mem
        PROVE  Appears(w, t)
    <3>1. Appears(w, s)
      BY <1>16, <2>5 DEF Pictured
    <3>2. Placed(w, t) /\ Keyed(w, t)
      BY <2>1, <2>2, <3>1 DEF Appears, Placed, Keyed
    <3>3. t.reg[CON] \cap BppMode = s.reg[CON] \cap BppMode
      <4>1. "ENWIN" \notin BppMode
        BY DEF BppMode, Formats
      <4>. QED  BY <4>1, <1>7, <1>13
    <3>4. Formatted(w, t)
      BY <2>2, <3>1, <3>3 DEF Appears, Formatted, CON
    <3>5. Blended(w, t)
      BY <1>7, <1>13, <2>2, <2>3, <3>1 DEF Appears, Blended, CON
    <3>. QED  BY <3>2, <3>4, <3>5 DEF Appears
  <2>. QED  BY <2>2, <2>4, <2>5 DEF Pictured
<1>. QED  BY <1>5, <1>6, <1>12, <1>13, <1>14, <1>15, <1>16

-----------------------------------------------------------------------------
(* Parts that leave a window on or off                                     *)

(* No step gives memory back.                                              *)
Plain(q) == \A k \in 1 .. Len(q) : q[k].do # "unmap"

(* Parts that give no memory back do not in turn,                          *)
LEMMA PlainConcat ==
  ASSUME NEW w, NEW x, Part(x, w), Plain(x), NEW y, Part(y, w), Plain(y)
  PROVE  Plain(x \o y)
<1> DEFINE q == x \o y
<1>1. /\ Len(q) = Len(x) + Len(y) /\ Len(x) \in Nat /\ Len(y) \in Nat
      /\ \A k \in 1 .. Len(x) + Len(y) : q[k] = IF k <= Len(x) THEN x[k] ELSE y[k - Len(x)]
  BY ConcatProperties, LenProperties DEF Part
<1>. HIDE DEF q
<1>2. ASSUME NEW k \in 1 .. Len(q)
      PROVE  q[k].do # "unmap"
  <2>1. CASE k <= Len(x)
    <3>1. k \in 1 .. Len(x) /\ q[k] = x[k]
      BY <1>1, <2>1
    <3>. QED  BY <3>1 DEF Plain
  <2>2. CASE ~(k <= Len(x))
    <3>1. k - Len(x) \in 1 .. Len(y) /\ q[k] = y[k - Len(x)]
      BY <1>1, <2>2
    <3>. QED  BY <3>1 DEF Plain
  <2>. QED  BY <2>1, <2>2
<1>3. Plain(q)
  BY <1>2 DEF Plain
<1>. QED  BY <1>3 DEF q

(* steps other than unmap do not,                                          *)
LEMMA PlainOnes ==
  /\ Plain(<<>>)
  /\ \A o : o.do # "unmap" => Plain(<<o>>)
  /\ \A o, p : o.do # "unmap" /\ p.do # "unmap" => Plain(<<o, p>>)
<1>1. ASSUME NEW o, o.do # "unmap"
      PROVE  Plain(<<o>>)
  <2> DEFINE q == <<o>>
  <2>1. Len(q) = 1 /\ q[1] = o
    OBVIOUS
  <2>2. Plain(q)
    <3>. HIDE DEF q
    <3>1. \A k \in 1 .. Len(q) : q[k] = o
      BY <2>1
    <3>. QED  BY <1>1, <3>1 DEF Plain
  <2>. QED  BY <2>2
<1>2. ASSUME NEW o, NEW p, o.do # "unmap", p.do # "unmap"
      PROVE  Plain(<<o, p>>)
  <2> DEFINE q == <<o, p>>
  <2>1. Len(q) = 2 /\ q[1] = o /\ q[2] = p
    OBVIOUS
  <2>2. Plain(q)
    <3>. HIDE DEF q
    <3>1. \A k \in 1 .. Len(q) : q[k] = o \/ q[k] = p
      BY <2>1
    <3>. QED  BY <1>2, <3>1 DEF Plain
  <2>. QED  BY <2>2
<1>. QED  BY <1>1, <1>2 DEF Plain

(* and neither do the steps that functions are made of.                    *)
LEMMA StepsPlain ==
  /\ \A r, x, y : Plain(Modify(r, x, y))
  /\ \A r, w, h, y : Plain(<<Load(r), Merge(r, w, h, y)>>)
  /\ \A r, w, h : Plain(Copy(r, w, h))
  /\ \A w, h, x : Plain(Assign(w, h, x))
  /\ \A w, ok : Plain(s3cfb_map_video_memory(w, ok))
  /\ \A w : Plain(<<[do |-> "address", w |-> w]>>)
  /\ \A r, w : Plain(<<[do |-> "start", reg |-> r, w |-> w]>>)
<1>1. /\ \A r : Load(r).do = "load"
      /\ \A r, x, y : Store(r, x, y).do = "store"
      /\ \A r, w, h, y : Merge(r, w, h, y).do = "merge"
  BY DEF Load, Store, Merge
<1>2. \A r, x, y : Plain(Modify(r, x, y))
  BY <1>1, PlainOnes DEF Modify
<1>3. \A r, w, h, y : Plain(<<Load(r), Merge(r, w, h, y)>>)
  BY <1>1, PlainOnes
<1>4. \A r, w, h : Plain(Copy(r, w, h))
  BY PlainOnes DEF Copy
<1>5. \A w, h, x : Plain(Assign(w, h, x))
  BY PlainOnes DEF Assign
<1>6. \A w, ok : Plain(s3cfb_map_video_memory(w, ok))
  BY PlainOnes DEF s3cfb_map_video_memory
<1>7. \A w : Plain(<<[do |-> "address", w |-> w]>>)
  BY PlainOnes
<1>8. \A r, w : Plain(<<[do |-> "start", reg |-> r, w |-> w]>>)
  BY PlainOnes
<1>. QED  BY <1>2, <1>3, <1>4, <1>5, <1>6, <1>7, <1>8

(* A part of a call without unmap                                          *)
Bare(q, w) == Part(q, w) /\ Plain(q)

(* Bare parts in turn are a bare part.                                     *)
LEMMA BareConcat ==
  ASSUME NEW w, NEW x, Bare(x, w), NEW y, Bare(y, w)
  PROVE  Bare(x \o y, w)
BY PartConcat, PlainConcat DEF Bare

(* The pieces of the functions are bare parts,                             *)
LEMMA BareOnes ==
  ASSUME NEW w \in Win
  PROVE  /\ Bare(<<>>, w)
         /\ Bare(Modify(WINSHMAP, {Protect(w)}, {}), w)
         /\ Bare(Modify(WINSHMAP, {}, {Protect(w)}), w)
         /\ Bare(Modify(WINSHMAP, {Ch(w)}, {}), w)
         /\ Bare(Modify(WINSHMAP, {}, {Ch(w)}), w)
         /\ Bare(Modify(WINCON(w), {"ENWIN"}, {}), w)
         /\ Bare(Modify(WINCON(w), {}, {"ENWIN"}), w)
         /\ Bare(<<Load(WINCON(w)), Merge(WINCON(w), w, "format", BppMode)>>, w)
         /\ Bare(<<Load(WINCON(w)), Merge(WINCON(w), w, "alpha", Blends)>>, w)
         /\ Bare(<<[do |-> "address", w |-> w]>>, w)
         /\ Bare(<<[do |-> "start", reg |-> <<"VIDADDR", w>>, w |-> w]>>, w)
         /\ \A ok \in BOOLEAN : Bare(s3cfb_map_video_memory(w, ok), w)
         /\ \A h, v : <<h, v>> \in Settings => Bare(Assign(w, h, v), w)
         /\ Bare(<<[do |-> "lock"]>>, w)
BY ProtectParts, OnParts, SinglePart, PartNone, PlainOnes, StepsPlain DEF Bare

(* and so are the functions that program the registers.                    *)
LEMMA BareFunctions ==
  ASSUME NEW w \in Win
  PROVE  /\ Bare(s3cfb_window_on(w), w) /\ Bare(s3cfb_window_off(w), w)
         /\ Bare(s3cfb_set_window_control(w), w) /\ Bare(s3cfb_set_window_position(w), w)
         /\ Bare(s3cfb_set_window_size(w), w) /\ Bare(s3cfb_set_buffer_address(w), w)
         /\ Bare(s3cfb_set_buffer_size(w), w) /\ Bare(s3cfb_set_alpha_blending(w), w)
         /\ Bare(s3cfb_set_chroma_key(w), w)
<1>0. /\ \A r \in {<<"VIDADDR_SIZE", w>>, <<"VIDOSD_A", w>>, <<"VIDOSD_B", w>>,
             <<"VIDOSD_C", w>>, <<"VIDOSD_SIZE", w>>, <<"KEYCON", w>>} :
           r \in RegsOf(w) \ {WINCON(w), <<"VIDADDR", w>>}
  <2>1. \A r \in {<<"VIDADDR_SIZE", w>>, <<"VIDOSD_A", w>>, <<"VIDOSD_B", w>>,
             <<"VIDOSD_C", w>>, <<"VIDOSD_SIZE", w>>, <<"KEYCON", w>>} :
           r \in RegsOf(w) /\ r[1] # "WINCON" /\ r[1] # "VIDADDR"
    BY DEF RegsOf
  <2>2. WINCON(w)[1] = "WINCON" /\ <<"VIDADDR", w>>[1] = "VIDADDR"
    BY DEF WINCON
  <2>. QED  BY <2>1, <2>2
<1>1. Bare(s3cfb_window_on(w), w) /\ Bare(s3cfb_window_off(w), w)
  BY BareOnes, BareConcat DEF s3cfb_window_on, s3cfb_window_off
<1>2. Bare(s3cfb_set_window_control(w), w)
  BY BareOnes DEF s3cfb_set_window_control
<1>3. Bare(s3cfb_set_window_position(w), w)
  <2>1. Bare(Copy(<<"VIDOSD_A", w>>, w, "x"), w) /\ Bare(Copy(<<"VIDOSD_B", w>>, w, "xres"), w)
    BY <1>0, CopyPart, StepsPlain DEF Bare
  <2>. QED  BY <2>1, BareOnes, BareConcat DEF s3cfb_set_window_position
<1>4. Bare(s3cfb_set_window_size(w), w) /\ Bare(s3cfb_set_buffer_size(w), w)
  <2>1. Bare(Copy(<<"VIDOSD_SIZE", w>>, w, "xres"), w) /\ Bare(Copy(<<"VIDADDR_SIZE", w>>, w, "xres"), w)
    BY <1>0, CopyPart, StepsPlain DEF Bare
  <2>2. Bare(<<>>, w)
    BY BareOnes
  <2>. QED  BY <2>1, <2>2 DEF s3cfb_set_window_size, s3cfb_set_buffer_size
<1>5. Bare(s3cfb_set_buffer_address(w), w)
  BY BareOnes, BareConcat DEF s3cfb_set_buffer_address
<1>6. Bare(s3cfb_set_alpha_blending(w), w)
  <2>1. Bare(Copy(<<"VIDOSD_C", w>>, w, "alpha"), w)
    BY <1>0, CopyPart, StepsPlain DEF Bare
  <2>2. Bare(<<>>, w)
    BY BareOnes
  <2>. QED  BY <2>1, <2>2, BareOnes, BareConcat DEF s3cfb_set_alpha_blending
<1>7. Bare(s3cfb_set_chroma_key(w), w)
  <2>1. Bare(Copy(<<"KEYCON", w>>, w, "chroma"), w)
    BY <1>0, CopyPart, StepsPlain DEF Bare
  <2>2. Bare(<<>>, w)
    BY BareOnes
  <2>. QED  BY <2>1, <2>2 DEF s3cfb_set_chroma_key
<1>. QED  BY <1>1, <1>2, <1>3, <1>4, <1>5, <1>6, <1>7

(* A part of a call that leaves alone whether w is on, from any state with *)
(* power                                                                   *)
Smooth(q, w, a) ==
  Bare(q, w) /\ \A s : IsState(s) /\ s.power => Steady(RunAll(a, s, q), s, w)

(* One that leaves the picture of w right, and one that sets it right      *)
Holding(q, w, a) ==
  \A s : IsState(s) /\ s.power /\ Pictured(w, s) => Pictured(w, RunAll(a, s, q))
Painting(q, w, a) ==
  \A s : IsState(s) /\ s.power => Pictured(w, RunAll(a, s, q))

(* Smooth parts in turn are smooth.                                        *)
LEMMA SmoothConcat ==
  ASSUME NEW a, NEW w \in Win, NEW x, NEW y, Smooth(x, w, a), Smooth(y, w, a)
  PROVE  Smooth(x \o y, w, a)
<1>1. Bare(x \o y, w)
  BY BareConcat DEF Smooth
<1>2. ASSUME NEW s, IsState(s), s.power
      PROVE  Steady(RunAll(a, s, x \o y), s, w)
  <2> DEFINE u == RunAll(a, s, x)
             t == RunAll(a, u, y)
  <2>1. RunAll(a, s, x \o y) = t
    BY PartThen DEF Smooth, Bare
  <2>2. Steady(u, s, w)
    BY <1>2 DEF Smooth
  <2>3. IsState(u) /\ u.power
    BY <1>2, <2>2 DEF Steady, OnlyIn, Local
  <2>4. Steady(t, u, w)
    BY <2>3 DEF Smooth
  <2>5. Steady(t, s, w)
    <3>. HIDE DEF t, u
    <3>. QED  BY <2>2, <2>4, SteadyTwice
  <2>. QED  BY <2>1, <2>5
<1>. QED  BY <1>1, <1>2 DEF Smooth

(* Smooth parts of which the last sets the picture right do so together,   *)
LEMMA PaintLast ==
  ASSUME NEW a, NEW w \in Win, NEW x, NEW y, Smooth(x, w, a), Smooth(y, w, a), Painting(y, w, a)
  PROVE  Painting(x \o y, w, a)
<1>. SUFFICES ASSUME NEW s, IsState(s), s.power
              PROVE  Pictured(w, RunAll(a, s, x \o y))
  BY DEF Painting
<1> DEFINE u == RunAll(a, s, x)
<1>1. RunAll(a, s, x \o y) = RunAll(a, u, y)
  BY PartThen DEF Smooth, Bare
<1>2. IsState(u) /\ u.power
  BY DEF Smooth, Steady, OnlyIn, Local
<1>3. Pictured(w, RunAll(a, u, y))
  BY <1>2 DEF Painting
<1>. QED  BY <1>1, <1>3

(* and so do smooth parts if what follows leaves it right.                 *)
LEMMA HoldLast ==
  ASSUME NEW a, NEW w \in Win, NEW x, NEW y, Smooth(x, w, a), Painting(x, w, a),
         Smooth(y, w, a), Holding(y, w, a)
  PROVE  Painting(x \o y, w, a)
<1>. SUFFICES ASSUME NEW s, IsState(s), s.power
              PROVE  Pictured(w, RunAll(a, s, x \o y))
  BY DEF Painting
<1> DEFINE u == RunAll(a, s, x)
<1>1. RunAll(a, s, x \o y) = RunAll(a, u, y)
  BY PartThen DEF Smooth, Bare
<1>2. IsState(u) /\ u.power /\ Pictured(w, u)
  BY DEF Smooth, Steady, OnlyIn, Local, Painting
<1>3. Pictured(w, RunAll(a, u, y))
  BY <1>2 DEF Holding
<1>. QED  BY <1>1, <1>3

(* An assignment other than to enabled is smooth,                          *)
LEMMA SettingSmooth ==
  ASSUME NEW a, NEW w \in Win, NEW h, h # "enabled", NEW x, <<h, x>> \in Settings
  PROVE  Smooth(Assign(w, h, x), w, a)
<1>1. Bare(Assign(w, h, x), w)
  BY BareOnes
<1>2. ASSUME NEW s, IsState(s), s.power
      PROVE  Steady(RunAll(a, s, Assign(w, h, x)), s, w)
  <2> DEFINE t == RunAll(a, s, Assign(w, h, x))
  <2>1. OnlyIn(w, s, t) /\ t.reg = s.reg /\ OtherFields(s.win[w], t.win[w], h)
    BY <1>2, RunSetting
  <2>. HIDE DEF t
  <2>2. Steady(t, s, w)
    BY <2>1 DEF Steady, OtherFields
  <2>. QED  BY <2>2 DEF t
<1>. QED  BY <1>1, <1>2 DEF Smooth

(* nothing is,                                                             *)
LEMMA NoneSmooth ==
  ASSUME NEW a, NEW w \in Win
  PROVE  Smooth(<<>>, w, a) /\ Holding(<<>>, w, a)
<1>1. \A s : RunAll(a, s, <<>>) = s
  BY RunNone
<1>2. \A s : IsState(s) => Steady(s, s, w)
  BY DEF Steady, OnlyIn, Local, SameView
<1>. QED  BY <1>1, <1>2, BareOnes DEF Smooth, Holding

(* and so is the allocation of memory.                                     *)
LEMMA MapSmooth ==
  ASSUME NEW a, NEW w \in Win, NEW ok \in BOOLEAN
  PROVE  Smooth(s3cfb_map_video_memory(w, ok), w, a)
<1>1. Bare(s3cfb_map_video_memory(w, ok), w)
  BY BareOnes
<1>2. ASSUME NEW s, IsState(s), s.power
      PROVE  Steady(RunAll(a, s, s3cfb_map_video_memory(w, ok)), s, w)
  <2> DEFINE o == [do |-> "map", w |-> w, ok |-> ok]
             t == Step(a, s, o)
  <2>1. RunAll(a, s, s3cfb_map_video_memory(w, ok)) = t
    BY RunOne DEF s3cfb_map_video_memory
  <2>2. o.do = "map" /\ o.w = w /\ o.ok \in BOOLEAN
    OBVIOUS
  <2>3. Changed(t, s, o.w, "mem", s.win[o.w].mem \/ o.ok)
    <3>. HIDE DEF o
    <3>. QED  BY <1>2, <2>2, StepMap
  <2>4. t.reg = s.reg /\ t.win[w] = [s.win[w] EXCEPT !["mem"] = s.win[o.w].mem \/ o.ok]
    <3>. HIDE DEF t, o
    <3>. QED  BY <1>2, <2>2, <2>3 DEF Changed, IsState
  <2>5. t.win[w].enabled = s.win[w].enabled
    <3>1. s.win[w] \in Window
      BY <1>2 DEF IsState
    <3>. HIDE DEF t, o
    <3>. QED  BY <2>4, <3>1 DEF Window
  <2>6. OnlyIn(w, s, t)
    BY <1>1, <1>2, <2>1, PartRun DEF Bare
  <2>. HIDE DEF t
  <2>. QED  BY <2>1, <2>4, <2>5, <2>6 DEF Steady
<1>. QED  BY <1>1, <1>2 DEF Smooth

(* s3cfb_set_win_params sets the picture right,                            *)
LEMMA ParamsPaint ==
  ASSUME NEW a, NEW w \in Win
  PROVE  Smooth(s3cfb_set_win_params(w), w, a) /\ Painting(s3cfb_set_win_params(w), w, a)
<1> DEFINE q == s3cfb_set_win_params(w)
<1>1. Bare(q, w)
  BY BareFunctions, BareConcat, BareOnes DEF s3cfb_set_win_params
<1>2. ASSUME NEW s, IsState(s), s.power
      PROVE  Steady(RunAll(a, s, q), s, w) /\ Shows(w, RunAll(a, s, q))
  BY <1>2, RunParams
<1>3. \A t : Shows(w, t) => Pictured(w, t)
  BY DEF Shows, Pictured, Appears
<1>. QED  BY <1>1, <1>2, <1>3 DEF Smooth, Painting

(* and so does s3cfb_set_par, whether its allocation fails or not.         *)
LEMMA ParPaints ==
  ASSUME NEW a, NEW w \in Win, NEW ok \in BOOLEAN
  PROVE  Smooth(s3cfb_set_par(w, ok), w, a) /\ Painting(s3cfb_set_par(w, ok), w, a)
<1> DEFINE x == IF w # Default THEN s3cfb_map_video_memory(w, ok) ELSE <<>>
           y == s3cfb_set_win_params(w)
<1>1. Smooth(x, w, a)
  BY MapSmooth, NoneSmooth
<1>2. Smooth(y, w, a) /\ Painting(y, w, a)
  BY ParamsPaint
<1>3. s3cfb_set_par(w, ok) = x \o y
  BY DEF s3cfb_set_par
<1>. HIDE DEF x, y
<1>. QED  BY <1>1, <1>2, <1>3, SmoothConcat, PaintLast

(* The windows' settings after an assignment and a store of registers      *)
LEMMA SettingThen ==
  ASSUME NEW a, NEW w \in Win, NEW s, IsState(s), s.power, NEW h, NEW x, <<h, x>> \in Settings,
         NEW q, Part(q, w), NEW t, t = RunAll(a, s, Assign(w, h, x) \o q)
  PROVE  \E u : /\ IsState(u) /\ u.power /\ t = RunAll(a, u, q) /\ u.reg = s.reg
                /\ OnlyIn(w, s, u) /\ OtherFields(s.win[w], u.win[w], h) /\ u.win[w][h] = x
<1> DEFINE u == RunAll(a, s, Assign(w, h, x))
<1>1. Part(Assign(w, h, x), w) /\ OnlyIn(w, s, u) /\ u.reg = s.reg
      /\ OtherFields(s.win[w], u.win[w], h) /\ u.win[w][h] = x
  BY RunSetting
<1>2. t = RunAll(a, u, q)
  BY <1>1, PartThen
<1>3. IsState(u) /\ u.power
  <2>. HIDE DEF u
  <2>. QED  BY <1>1 DEF OnlyIn, Local
<1>. HIDE DEF u
<1>. QED  BY <1>1, <1>2, <1>3

(* The ioctl for a window's position leaves the picture right,             *)
LEMMA PositionHolds ==
  ASSUME NEW a, NEW w \in Win, NEW x \in Int, NEW q,
         q = Assign(w, "x", x) \o s3cfb_set_window_position(w)
  PROVE  Smooth(q, w, a) /\ Holding(q, w, a)
<1> DEFINE y == s3cfb_set_window_position(w)
           A == <<"VIDOSD_A", w>>
           B == <<"VIDOSD_B", w>>
           h == "x"
<1>0. <<h, x>> \in Settings /\ Bare(y, w) /\ Part(Assign(w, h, x), w) /\ h # "enabled"
  BY BareFunctions, SinglePart DEF Settings
<1>r. /\ A # WINCON(w) /\ <<"VIDADDR", w>> \notin PlaceRegs(w) /\ WINCON(w) \notin PlaceRegs(w)
      /\ <<"KEYCON", w>> \notin PlaceRegs(w) /\ <<"VIDADDR", w>> \in Regs /\ WINCON(w) \in Regs
      /\ <<"KEYCON", w>> \in Regs
  BY RegsDistinct DEF PlaceRegs
<1>1. ASSUME NEW s, IsState(s), s.power, NEW t, t = RunAll(a, s, y)
      PROVE  /\ Keeps(t, s, PlaceRegs(w)) /\ t.reg[A] = s.win[w].x
             /\ t.reg[B] = s.win[w].xres /\ t.reg[WINSHMAP] = Unprotected(s.reg[WINSHMAP], w)
  <2>1. t = RunAll(a, s, s3cfb_set_window_position(w))
    BY <1>1
  <2>. QED  BY ONLY <1>1, <2>1, RunPosition, w \in Win
<1>2. Smooth(y, w, a)
  <2>. SUFFICES ASSUME NEW s, IsState(s), s.power
                PROVE  Steady(RunAll(a, s, y), s, w)
    BY <1>0 DEF Smooth
  <2> DEFINE t == RunAll(a, s, y)
  <2>1. Keeps(t, s, PlaceRegs(w)) /\ t.reg[WINSHMAP] = Unprotected(s.reg[WINSHMAP], w)
    BY <1>1
  <2>2. OnlyIn(w, s, t)
    BY <1>0, PartRun DEF Bare
  <2>. HIDE DEF t, y
  <2>3. Steady(t, s, w)
    BY <1>r, <2>1, <2>2 DEF Steady, Keeps, Unprotected
  <2>. QED  BY <2>3 DEF t
<1>3. Smooth(Assign(w, h, x) \o y, w, a)
  <2>1. Smooth(Assign(w, h, x), w, a)
    BY <1>0, SettingSmooth
  <2>. HIDE DEF y, h
  <2>. QED  BY <1>2, <2>1, SmoothConcat
<1>4. Holding(Assign(w, h, x) \o y, w, a)
  <2>. SUFFICES ASSUME NEW s, IsState(s), s.power, Pictured(w, s)
                PROVE  Pictured(w, RunAll(a, s, Assign(w, h, x) \o y))
    BY DEF Holding
  <2> DEFINE t == RunAll(a, s, Assign(w, h, x) \o y)
  <2>1. PICK u : /\ IsState(u) /\ u.power /\ t = RunAll(a, u, y) /\ u.reg = s.reg
                 /\ OnlyIn(w, s, u) /\ OtherFields(s.win[w], u.win[w], h) /\ u.win[w][h] = x
    <3>. HIDE DEF y, h
    <3>. QED  BY <1>0, SettingThen DEF Bare
  <2>2. /\ Keeps(t, u, PlaceRegs(w)) /\ t.reg[A] = u.win[w].x /\ t.reg[B] = u.win[w].xres
    BY <1>1, <2>1
  <2>. HIDE DEF t, y
  <2>3. /\ t.reg[<<"VIDADDR", w>>] = s.reg[<<"VIDADDR", w>>]
        /\ t.reg[WINCON(w)] = s.reg[WINCON(w)]
        /\ t.reg[<<"KEYCON", w>>] = s.reg[<<"KEYCON", w>>] /\ t.win = u.win
    BY <1>r, <2>1, <2>2 DEF Keeps
  <2>4. /\ u.win[w].mem = s.win[w].mem /\ u.win[w].yoffset = s.win[w].yoffset
        /\ u.win[w].format = s.win[w].format /\ u.win[w].alpha = s.win[w].alpha
        /\ u.win[w].chroma = s.win[w].chroma
    BY <2>1 DEF OtherFields
  <2>5. Pictured(w, t)
    BY <2>2, <2>3, <2>4 DEF Pictured, Appears, Addressed, Address, Placed, Formatted, Blended, Keyed
  <2>. QED  BY <2>5 DEF t
<1>. QED  BY <1>3, <1>4

(* so do the ioctls for alpha                                              *)
LEMMA AlphaHolds ==
  ASSUME NEW a, NEW w \in Win
  PROVE  Smooth(SetPlaneAlpha(w), w, a) /\ Holding(SetPlaneAlpha(w), w, a)
<1> DEFINE y == s3cfb_set_alpha_blending(w)
           CON == WINCON(w)
           C == <<"VIDOSD_C", w>>
           h == "alpha"
           x == "BLD_PLANE"
<1>0. <<h, x>> \in Settings /\ Bare(y, w) /\ h # "enabled"
  BY BareFunctions DEF Settings, Blends
<1>r. /\ \A r \in {<<"VIDADDR", w>>, <<"VIDOSD_A", w>>, <<"VIDOSD_B", w>>, <<"KEYCON", w>>, WINSHMAP} :
            r \in Regs /\ r \notin {CON, C}
  <2>1. \A r \in {<<"VIDADDR", w>>, <<"VIDOSD_A", w>>, <<"VIDOSD_B", w>>, <<"KEYCON", w>>} :
          r \in RegsOf(w) /\ r[1] \notin {"WINCON", "VIDOSD_C"}
    BY DEF RegsOf
  <2>2. CON[1] = "WINCON" /\ C[1] = "VIDOSD_C" /\ CON \in RegsOf(w) /\ C \in RegsOf(w)
    BY DEF RegsOf, WINCON
  <2>. HIDE DEF CON, C
  <2>. QED  BY <2>1, <2>2, RegsDiffer
<1>1. ASSUME w # 0, NEW s, IsState(s), s.power
      PROVE  LET t == RunAll(a, s, y)
             IN  /\ Keeps(t, s, {CON, C})
                 /\ t.reg[CON] = Merged(s.reg[CON], Blends, s.win[w].alpha)
  BY <1>1, RunAlpha
<1>2. Smooth(y, w, a)
  <2>1. CASE w = 0
    BY <2>1, NoneSmooth DEF s3cfb_set_alpha_blending
  <2>2. CASE w # 0
    <3>. SUFFICES ASSUME NEW s, IsState(s), s.power
                  PROVE  Steady(RunAll(a, s, y), s, w)
      BY <1>0 DEF Smooth
    <3> DEFINE t == RunAll(a, s, y)
    <3>1. Keeps(t, s, {CON, C}) /\ t.reg[CON] = Merged(s.reg[CON], Blends, s.win[w].alpha)
      BY <1>1, <2>2
    <3>2. OnlyIn(w, s, t)
      BY <1>0, PartRun DEF Bare
    <3>3. s.win[w].alpha # "ENWIN" /\ "ENWIN" \notin Blends
      BY DEF IsState, Window, Blends
    <3>. HIDE DEF t, y
    <3>4. Steady(t, s, w)
      BY <1>r, <3>1, <3>2, <3>3 DEF Steady, Keeps, Merged
    <3>. QED  BY <3>4 DEF t
  <2>. QED  BY <2>1, <2>2
<1>3. Smooth(Assign(w, h, x) \o y, w, a)
  <2>1. Smooth(Assign(w, h, x), w, a)
    <3>. HIDE DEF h, x
    <3>. QED  BY <1>0, SettingSmooth
  <2>. HIDE DEF y, h, x
  <2>. QED  BY <1>2, <2>1, SmoothConcat
<1>4. Holding(Assign(w, h, x) \o y, w, a)
  <2>. SUFFICES ASSUME NEW s, IsState(s), s.power, Pictured(w, s)
                PROVE  Pictured(w, RunAll(a, s, Assign(w, h, x) \o y))
    BY DEF Holding
  <2> DEFINE t == RunAll(a, s, Assign(w, h, x) \o y)
  <2>1. PICK u : /\ IsState(u) /\ u.power /\ t = RunAll(a, u, y) /\ u.reg = s.reg
                 /\ OnlyIn(w, s, u) /\ OtherFields(s.win[w], u.win[w], h) /\ u.win[w][h] = x
    <3>. HIDE DEF y, h, x
    <3>. QED  BY <1>0, SettingThen DEF Bare
  <2>2. /\ u.win[w].mem = s.win[w].mem /\ u.win[w].yoffset = s.win[w].yoffset
        /\ u.win[w].format = s.win[w].format /\ u.win[w].x = s.win[w].x
        /\ u.win[w].xres = s.win[w].xres /\ u.win[w].chroma = s.win[w].chroma
    BY <2>1 DEF OtherFields
  <2>3. CASE w = 0
    <3>1. t = u
      BY <2>1, <2>3, RunNone DEF s3cfb_set_alpha_blending
    <3>. HIDE DEF t, y
    <3>2. Pictured(w, t)
      BY <2>1, <2>2, <2>3, <3>1
         DEF Pictured, Appears, Addressed, Address, Placed, Formatted, Blended, Keyed
    <3>. QED  BY <3>2 DEF t
  <2>4. CASE w # 0
    <3>1. Keeps(t, u, {CON, C}) /\ t.reg[CON] = Merged(u.reg[CON], Blends, u.win[w].alpha)
      BY <1>1, <2>1, <2>4
    <3>. HIDE DEF t, y
    <3>2. /\ t.reg[<<"VIDADDR", w>>] = s.reg[<<"VIDADDR", w>>]
          /\ t.reg[<<"VIDOSD_A", w>>] = s.reg[<<"VIDOSD_A", w>>]
          /\ t.reg[<<"VIDOSD_B", w>>] = s.reg[<<"VIDOSD_B", w>>]
          /\ t.reg[<<"KEYCON", w>>] = s.reg[<<"KEYCON", w>>] /\ t.win = u.win
      BY <1>r, <2>1, <3>1 DEF Keeps
    <3>3. t.win[w].alpha \in Blends /\ BppMode \cap Blends = {}
      BY <2>1, <3>2 DEF IsState, Window, BppMode, Formats, Blends
    <3>4. t.win[w].alpha \in t.reg[CON]
      BY <3>1, <3>2, <3>3 DEF Merged
    <3>5. t.reg[CON] \cap BppMode = s.reg[CON] \cap BppMode
      BY <2>1, <3>1, <3>3 DEF Merged
    <3>6. Addressed(w, t) /\ (s.win[w].mem <=> t.win[w].mem)
      BY <2>2, <3>2 DEF Pictured, Addressed, Address
    <3>7. ASSUME s.win[w].mem
          PROVE  Appears(w, t)
      <4>1. Appears(w, s)
        BY <3>7 DEF Pictured
      <4>. QED  BY <2>2, <3>2, <3>4, <3>5, <4>1 DEF Appears, Placed, Formatted, Blended, Keyed
    <3>8. Pictured(w, t)
      BY <3>6, <3>7 DEF Pictured
    <3>. QED  BY <3>8 DEF t
  <2>. QED  BY <2>3, <2>4
<1>5. SetPlaneAlpha(w) = Assign(w, h, x) \o y
  BY DEF SetPlaneAlpha
<1>. QED  BY <1>3, <1>4, <1>5

(* and for the chroma key,                                                 *)
LEMMA ChromaHolds ==
  ASSUME NEW a, NEW w \in Win, NEW x \in Keys
  PROVE  Smooth(SetChroma(w, x), w, a) /\ Holding(SetChroma(w, x), w, a)
<1> DEFINE y == s3cfb_set_chroma_key(w)
           K == <<"KEYCON", w>>
           h == "chroma"
<1>0. <<h, x>> \in Settings /\ Bare(y, w) /\ h # "enabled"
  BY BareFunctions DEF Settings
<1>r. /\ \A r \in {<<"VIDADDR", w>>, <<"VIDOSD_A", w>>, <<"VIDOSD_B", w>>, WINCON(w), WINSHMAP} :
            r \in Regs /\ r # K
  <2>1. \A r \in {<<"VIDADDR", w>>, <<"VIDOSD_A", w>>, <<"VIDOSD_B", w>>} :
          r \in RegsOf(w) /\ r[1] # "KEYCON"
    BY DEF RegsOf
  <2>2. WINCON(w)[1] = "WINCON" /\ K[1] = "KEYCON" /\ WINCON(w) \in RegsOf(w) /\ K \in RegsOf(w)
    BY DEF RegsOf, WINCON
  <2>. HIDE DEF K
  <2>. QED  BY <2>1, <2>2, RegsDiffer
<1>1. ASSUME w # 0, NEW s, IsState(s), s.power
      PROVE  LET t == RunAll(a, s, y)
             IN  Keeps(t, s, {K}) /\ t.reg[K] = s.win[w].chroma
  BY <1>1, RunChroma
<1>2. Smooth(y, w, a)
  <2>1. CASE w = 0
    BY <2>1, NoneSmooth DEF s3cfb_set_chroma_key
  <2>2. CASE w # 0
    <3>. SUFFICES ASSUME NEW s, IsState(s), s.power
                  PROVE  Steady(RunAll(a, s, y), s, w)
      BY <1>0 DEF Smooth
    <3> DEFINE t == RunAll(a, s, y)
    <3>1. Keeps(t, s, {K})
      BY <1>1, <2>2
    <3>2. OnlyIn(w, s, t)
      BY <1>0, PartRun DEF Bare
    <3>. HIDE DEF t, y
    <3>4. Steady(t, s, w)
      BY <1>r, <3>1, <3>2 DEF Steady, Keeps
    <3>. QED  BY <3>4 DEF t
  <2>. QED  BY <2>1, <2>2
<1>3. Smooth(Assign(w, h, x) \o y, w, a)
  <2>1. Smooth(Assign(w, h, x), w, a)
    <3>. HIDE DEF h
    <3>. QED  BY <1>0, SettingSmooth
  <2>. HIDE DEF y, h
  <2>. QED  BY <1>2, <2>1, SmoothConcat
<1>4. Holding(Assign(w, h, x) \o y, w, a)
  <2>. SUFFICES ASSUME NEW s, IsState(s), s.power, Pictured(w, s)
                PROVE  Pictured(w, RunAll(a, s, Assign(w, h, x) \o y))
    BY DEF Holding
  <2> DEFINE t == RunAll(a, s, Assign(w, h, x) \o y)
  <2>1. PICK u : /\ IsState(u) /\ u.power /\ t = RunAll(a, u, y) /\ u.reg = s.reg
                 /\ OnlyIn(w, s, u) /\ OtherFields(s.win[w], u.win[w], h) /\ u.win[w][h] = x
    <3>. HIDE DEF y, h
    <3>. QED  BY <1>0, SettingThen DEF Bare
  <2>2. /\ u.win[w].mem = s.win[w].mem /\ u.win[w].yoffset = s.win[w].yoffset
        /\ u.win[w].format = s.win[w].format /\ u.win[w].x = s.win[w].x
        /\ u.win[w].xres = s.win[w].xres /\ u.win[w].alpha = s.win[w].alpha
    BY <2>1 DEF OtherFields
  <2>3. CASE w = 0
    <3>1. t = u
      BY <2>1, <2>3, RunNone DEF s3cfb_set_chroma_key
    <3>. HIDE DEF t, y
    <3>2. Pictured(w, t)
      BY <2>1, <2>2, <2>3, <3>1
         DEF Pictured, Appears, Addressed, Address, Placed, Formatted, Blended, Keyed
    <3>. QED  BY <3>2 DEF t
  <2>4. CASE w # 0
    <3>1. Keeps(t, u, {K}) /\ t.reg[K] = u.win[w].chroma
      BY <1>1, <2>1, <2>4
    <3>. HIDE DEF t, y
    <3>2. /\ t.reg[<<"VIDADDR", w>>] = s.reg[<<"VIDADDR", w>>]
          /\ t.reg[<<"VIDOSD_A", w>>] = s.reg[<<"VIDOSD_A", w>>]
          /\ t.reg[<<"VIDOSD_B", w>>] = s.reg[<<"VIDOSD_B", w>>]
          /\ t.reg[WINCON(w)] = s.reg[WINCON(w)] /\ t.win = u.win
      BY <1>r, <2>1, <3>1 DEF Keeps
    <3>6. Addressed(w, t) /\ (s.win[w].mem <=> t.win[w].mem)
      BY <2>2, <3>2 DEF Pictured, Addressed, Address
    <3>7. ASSUME s.win[w].mem
          PROVE  Appears(w, t)
      <4>1. Appears(w, s)
        BY <3>7 DEF Pictured
      <4>. QED  BY <2>2, <3>1, <3>2, <4>1 DEF Appears, Placed, Formatted, Blended, Keyed
    <3>8. Pictured(w, t)
      BY <3>6, <3>7 DEF Pictured
    <3>. QED  BY <3>8 DEF t
  <2>. QED  BY <2>3, <2>4
<1>5. SetChroma(w, x) = Assign(w, h, x) \o y
  BY DEF SetChroma
<1>. QED  BY <1>3, <1>4, <1>5

(* and so does s3cfb_pan_display, with and without rows to pan to.         *)
LEMMA PanHolds ==
  ASSUME NEW a, NEW w \in Win, NEW n \in Int, NEW rows
  PROVE  Smooth(s3cfb_pan_display(w, n, rows), w, a) /\ Holding(s3cfb_pan_display(w, n, rows), w, a)
<1> DEFINE y == s3cfb_set_buffer_address(w)
           ADR == <<"VIDADDR", w>>
           h == "yoffset"
<1>0. <<h, n>> \in Settings /\ Bare(y, w) /\ h # "enabled"
  BY BareFunctions DEF Settings
<1>r. /\ \A r \in {<<"KEYCON", w>>, <<"VIDOSD_A", w>>, <<"VIDOSD_B", w>>, WINCON(w)} :
            r \in Regs /\ r \notin AddressRegs(w)
  <2>1. \A r \in {<<"KEYCON", w>>, <<"VIDOSD_A", w>>, <<"VIDOSD_B", w>>} :
          r \in RegsOf(w) /\ r[1] # "VIDADDR"
    BY DEF RegsOf
  <2>2. WINCON(w)[1] = "WINCON" /\ ADR[1] = "VIDADDR" /\ WINCON(w) \in RegsOf(w) /\ ADR \in RegsOf(w)
    BY DEF RegsOf, WINCON
  <2>3. AddressRegs(w) = {WINSHMAP, ADR}
    BY DEF AddressRegs
  <2>. HIDE DEF ADR
  <2>. QED  BY <2>1, <2>2, <2>3, RegsDiffer
<1>1. ASSUME NEW s, IsState(s), s.power, NEW t, t = RunAll(a, s, y)
      PROVE  /\ Keeps(t, s, AddressRegs(w)) /\ t.reg[ADR] = Address(s.win[w])
             /\ t.reg[WINSHMAP] = Unprotected(s.reg[WINSHMAP], w)
  <2>1. t = RunAll(a, s, s3cfb_set_buffer_address(w))
    BY <1>1
  <2>. QED  BY ONLY <1>1, <2>1, RunBufferAddress, w \in Win
<1>2. Smooth(y, w, a)
  <2>. SUFFICES ASSUME NEW s, IsState(s), s.power
                PROVE  Steady(RunAll(a, s, y), s, w)
    BY <1>0 DEF Smooth
  <2> DEFINE t == RunAll(a, s, y)
  <2>1. Keeps(t, s, AddressRegs(w)) /\ t.reg[WINSHMAP] = Unprotected(s.reg[WINSHMAP], w)
    BY <1>1
  <2>2. OnlyIn(w, s, t)
    BY <1>0, PartRun DEF Bare
  <2>. HIDE DEF t, y
  <2>3. Steady(t, s, w)
    BY <1>r, <2>1, <2>2 DEF Steady, Keeps, Unprotected
  <2>. QED  BY <2>3 DEF t
<1>3. Smooth(Assign(w, h, n) \o y, w, a)
  <2>1. Smooth(Assign(w, h, n), w, a)
    <3>. HIDE DEF h
    <3>. QED  BY <1>0, SettingSmooth
  <2>. HIDE DEF y, h
  <2>. QED  BY <1>2, <2>1, SmoothConcat
<1>4. Holding(Assign(w, h, n) \o y, w, a)
  <2>. SUFFICES ASSUME NEW s, IsState(s), s.power, Pictured(w, s)
                PROVE  Pictured(w, RunAll(a, s, Assign(w, h, n) \o y))
    BY DEF Holding
  <2> DEFINE t == RunAll(a, s, Assign(w, h, n) \o y)
  <2>1. PICK u : /\ IsState(u) /\ u.power /\ t = RunAll(a, u, y) /\ u.reg = s.reg
                 /\ OnlyIn(w, s, u) /\ OtherFields(s.win[w], u.win[w], h) /\ u.win[w][h] = n
    <3>. HIDE DEF y, h
    <3>. QED  BY <1>0, SettingThen DEF Bare
  <2>2. Keeps(t, u, AddressRegs(w)) /\ t.reg[ADR] = Address(u.win[w])
    BY <1>1, <2>1
  <2>. HIDE DEF t, y
  <2>3. /\ t.reg[<<"VIDOSD_A", w>>] = s.reg[<<"VIDOSD_A", w>>]
        /\ t.reg[<<"VIDOSD_B", w>>] = s.reg[<<"VIDOSD_B", w>>]
        /\ t.reg[WINCON(w)] = s.reg[WINCON(w)]
        /\ t.reg[<<"KEYCON", w>>] = s.reg[<<"KEYCON", w>>] /\ t.win = u.win
    BY <1>r, <2>1, <2>2 DEF Keeps
  <2>4. /\ u.win[w].mem = s.win[w].mem /\ u.win[w].x = s.win[w].x /\ u.win[w].xres = s.win[w].xres
        /\ u.win[w].format = s.win[w].format /\ u.win[w].alpha = s.win[w].alpha
        /\ u.win[w].chroma = s.win[w].chroma
    BY <2>1 DEF OtherFields
  <2>5. Pictured(w, t)
    BY <2>2, <2>3, <2>4 DEF Pictured, Appears, Addressed, Placed, Formatted, Blended, Keyed
  <2>. QED  BY <2>5 DEF t
<1>5. s3cfb_pan_display(w, n, rows) = <<>> \/ s3cfb_pan_display(w, n, rows) = Assign(w, h, n) \o y
  BY DEF s3cfb_pan_display
<1>6. Smooth(<<>>, w, a) /\ Holding(<<>>, w, a)
  BY NoneSmooth
<1>. QED  BY <1>3, <1>4, <1>5, <1>6

(* What s3cfb_check_var makes of a geometry can be assigned.               *)
LEMMA CheckedFits ==
  ASSUME NEW w \in Win, win[w].x \in Int, NEW v \in Vars, NEW c, c = s3cfb_check_var(w, v)
  PROVE  /\ c.x \in Int /\ c.xres \in Int /\ c.rows \in Int /\ c.yoffset \in Int
         /\ c.format \in Formats /\ c.alpha \in Blends
<1>1. v \in [xres : Nat, rows : Nat, yoffset : Nat, format : Formats] /\ Width \in Nat
  BY S3cfbAssumption
<1>. QED  BY <1>1 DEF s3cfb_check_var, Least, Blends

(* FBIOPUT_VSCREENINFO sets the picture right, for every geometry.         *)
LEMMA VarPaints ==
  ASSUME NEW a, NEW w \in Win, win[w].x \in Int, NEW v \in Vars, NEW ok \in BOOLEAN
  PROVE  Smooth(fb_set_var(w, v, ok), w, a) /\ Painting(fb_set_var(w, v, ok), w, a)
<1> DEFINE c == s3cfb_check_var(w, v)
           x1 == Assign(w, "x", c.x)
           x2 == Assign(w, "alpha", c.alpha)
           x3 == Assign(w, "xres", c.xres)
           x4 == Assign(w, "rows", c.rows)
           x5 == Assign(w, "yoffset", c.yoffset)
           x6 == Assign(w, "format", c.format)
           y == s3cfb_set_par(w, ok)
           z == s3cfb_pan_display(w, c.yoffset, c.rows)
<1>1. /\ c.x \in Int /\ c.xres \in Int /\ c.rows \in Int /\ c.yoffset \in Int
      /\ c.format \in Formats /\ c.alpha \in Blends
  <2>. HIDE DEF c
  <2>. QED  BY CheckedFits DEF c
<1>2. fb_set_var(w, v, ok) = x1 \o x2 \o x3 \o x4 \o x5 \o x6 \o y \o z
  BY DEF fb_set_var
<1>. HIDE DEF c
<1>3. /\ <<"x", c.x>> \in Settings /\ <<"alpha", c.alpha>> \in Settings
      /\ <<"xres", c.xres>> \in Settings /\ <<"rows", c.rows>> \in Settings
      /\ <<"yoffset", c.yoffset>> \in Settings /\ <<"format", c.format>> \in Settings
  BY <1>1 DEF Settings
<1>4. \A h, x : h # "enabled" /\ <<h, x>> \in Settings => Smooth(Assign(w, h, x), w, a)
  BY SettingSmooth
<1>5. /\ Smooth(x1, w, a) /\ Smooth(x2, w, a) /\ Smooth(x3, w, a)
      /\ Smooth(x4, w, a) /\ Smooth(x5, w, a) /\ Smooth(x6, w, a)
  BY <1>3, <1>4
<1>6. Smooth(y, w, a) /\ Painting(y, w, a)
  BY ParPaints
<1>7. Smooth(z, w, a) /\ Holding(z, w, a)
  BY <1>1, PanHolds
<1>. HIDE DEF x1, x2, x3, x4, x5, x6, y, z
<1>8. Smooth(x1 \o x2 \o x3 \o x4 \o x5 \o x6, w, a)
  BY <1>5, SmoothConcat
<1> DEFINE h == x1 \o x2 \o x3 \o x4 \o x5 \o x6
<1>9. Smooth(h \o y, w, a) /\ Painting(h \o y, w, a)
  <2>1. Smooth(h, w, a)
    BY <1>8
  <2>. HIDE DEF h
  <2>. QED  BY <1>6, <2>1, SmoothConcat, PaintLast
<1> DEFINE k == h \o y
<1>10. Smooth(k \o z, w, a) /\ Painting(k \o z, w, a)
  <2>1. Smooth(k, w, a) /\ Painting(k, w, a)
    BY <1>9
  <2>. HIDE DEF k
  <2>. QED  BY <1>7, <2>1, SmoothConcat, HoldLast
<1>. QED  BY <1>2, <1>10

-----------------------------------------------------------------------------
(* No address without memory                                               *)

(* What a step of a call on window w can do                                *)
Quiet(t, s, w) ==
  /\ Local(t, s) /\ t.reg = s.reg /\ t.win = s.win
  /\ t.start = s.start \/ t.start = Address(s.win[w])
Stores(t, s, r) == \E x : Wrote(t, s, r, x)
StoresBeside(t, s, w) == \E r : r # WINCON(w) /\ r # <<"VIDADDR", w>> /\ Stores(t, s, r)
StoresStart(t, s, w) == Wrote(t, s, <<"VIDADDR", w>>, s.start)
Sets(t, s, w) == \E h, x : <<h, x>> \in Settings /\ Changed(t, s, w, h, x)
Maps(t, s, w) == \E b \in BOOLEAN : (s.win[w].mem => b) /\ Changed(t, s, w, "mem", b)
Unmapped(t, s, w) == Changed(t, s, w, "mem", FALSE)

(* Every step of a call on w does one of these.                            *)
LEMMA StepKinds ==
  ASSUME NEW a, NEW w \in Win, NEW s, IsState(s), NEW o \in StepsOn(w), NEW t, t = Step(a, s, o)
  PROVE  \/ Quiet(t, s, w)
         \/ o \in StoresOf(w) \cup Merges(w) /\ Stores(t, s, WINCON(w))
         \/ StoresBeside(t, s, w)
         \/ StoresStart(t, s, w)
         \/ Sets(t, s, w)
         \/ Maps(t, s, w)
         \/ o \in Unmaps(w) /\ Unmapped(t, s, w)
<1>0. /\ WINCON(w) \in Regs /\ <<"VIDADDR", w>> \in Regs /\ WINSHMAP \in Regs
      /\ RegsOf(w) \subseteq Regs /\ WINSHMAP # WINCON(w) /\ WINSHMAP # <<"VIDADDR", w>>
  BY RegsDiffer
<1>1. CASE o \in Loads(w)
  <2>1. o.do = "load"
    BY <1>1, StepsAre
  <2>. QED  BY <2>1, StepLoad DEF Quiet
<1>2. CASE o \in StoresOf(w)
  <2>1. o.do = "store" /\ o.reg = WINCON(w)
    BY <1>2, StepsAre
  <2>2. Wrote(t, s, o.reg, (s.cfg \ o.clear) \cup o.set)
    BY <1>0, <2>1, StepStore
  <2>. QED  BY <1>2, <2>1, <2>2 DEF Stores
<1>3. CASE o \in MapStores(w)
  <2>1. o.do = "store" /\ o.reg = WINSHMAP
    BY <1>3, StepsAre
  <2>2. Wrote(t, s, o.reg, (s.cfg \ o.clear) \cup o.set)
    BY <1>0, <2>1, StepStore
  <2>. QED  BY <1>0, <2>1, <2>2 DEF StoresBeside, Stores
<1>4. CASE o \in Merges(w)
  <2>1. o.do = "merge" /\ o.reg = WINCON(w)
    BY <1>4, StepsAre
  <2>2. Wrote(t, s, o.reg, (s.cfg \ o.clear) \cup ({s.win[o.w][o.f]} \cap o.clear))
    BY <1>0, <2>1, StepMerge
  <2>. QED  BY <1>4, <2>1, <2>2 DEF Stores
<1>5. CASE o \in Copies(w)
  <2>1. o.do = "copy" /\ o.reg \in RegsOf(w) \ {WINCON(w), <<"VIDADDR", w>>}
    BY <1>5, StepsAre
  <2>2. Wrote(t, s, o.reg, s.win[o.w][o.f])
    BY <1>0, <2>1, StepCopy
  <2>. QED  BY <2>1, <2>2 DEF StoresBeside, Stores
<1>6. CASE o \in Starts(w)
  <2>1. o.do = "start" /\ o.reg = <<"VIDADDR", w>>
    BY <1>6, StepsAre
  <2>2. Wrote(t, s, o.reg, s.start)
    BY <1>0, <2>1, StepStart
  <2>. QED  BY <2>1, <2>2 DEF StoresStart
<1>7. CASE o \in Addresses(w)
  <2>1. o.do = "address" /\ o.w = w
    BY <1>7, StepsAre
  <2>2. Local(t, s) /\ t.reg = s.reg /\ t.win = s.win /\ t.start = Address(s.win[o.w])
    BY <2>1, StepAddress
  <2>. QED  BY <2>1, <2>2 DEF Quiet
<1>8. CASE o \in Assigns(w)
  <2>1. o.do = "assign" /\ o.w = w /\ <<o.f, o.v>> \in Settings
    BY <1>8, StepsAre
  <2>2. s.win[o.w] \in Window
    BY <2>1 DEF IsState
  <2>3. [s.win[o.w] EXCEPT ![o.f] = o.v] \in Window
    BY <2>1, <2>2, SettingsFit
  <2>4. Changed(t, s, o.w, o.f, o.v)
    BY <2>1, <2>3, StepAssign
  <2>. QED  BY <2>1, <2>4 DEF Sets
<1>9. CASE o \in MapSteps(w)
  <2>1. o.do = "map" /\ o.w = w /\ o.ok \in BOOLEAN
    BY <1>9, StepsAre
  <2>2. Changed(t, s, o.w, "mem", s.win[o.w].mem \/ o.ok)
    BY <2>1, StepMap
  <2>3. PICK b \in BOOLEAN : b = (s.win[o.w].mem \/ o.ok)
    OBVIOUS
  <2>4. Changed(t, s, w, "mem", b) /\ (s.win[w].mem => b)
    BY <2>1, <2>2, <2>3, ZenonT(60)
  <2>. QED  BY <2>4 DEF Maps
<1>10. CASE o \in Unmaps(w)
  <2>1. o.do = "unmap" /\ o.w = w
    BY <1>10, StepsAre
  <2>2. Changed(t, s, o.w, "mem", FALSE)
    BY <2>1, StepUnmap
  <2>. QED  BY <1>10, <2>1, <2>2 DEF Unmapped
<1>11. CASE o \in Locks
  <2>1. o.do = "lock"
    BY <1>11, StepsAre
  <2>. QED  BY <2>1, StepLock DEF Quiet
<1>. QED  BY <1>1, <1>2, <1>3, <1>4, <1>5, <1>6, <1>7, <1>8, <1>9, <1>10, <1>11 DEF StepsOn

-----------------------------------------------------------------------------
(* The address, in its register or on its way there, is that of memory.    *)
Backed(w, s) ==
  (s.reg[<<"VIDADDR", w>>] # 0 => s.win[w].mem) /\ (s.start # 0 => s.win[w].mem)

(* The window is off in its control register.                              *)
Off(w, s) == "ENWIN" \notin s.reg[WINCON(w)]

(* A store to one register leaves the others alone.                        *)
LEMMA WroteOther ==
  ASSUME NEW s, IsState(s), NEW t, NEW r, NEW x, Wrote(t, s, r, x), NEW q \in Regs, q # r
  PROVE  t.reg[q] = s.reg[q] /\ t.win = s.win /\ t.start = s.start
BY DEF Wrote, Stored, IsState

(* An assignment changes the memory of a window only if it is the field    *)
(* assigned to.                                                            *)
LEMMA ChangedMem ==
  ASSUME NEW s, IsState(s), NEW w \in Win, NEW t, NEW h, NEW x, Changed(t, s, w, h, x)
  PROVE  /\ t.reg = s.reg /\ t.start = s.start
         /\ h # "mem" => t.win[w].mem = s.win[w].mem
         /\ h = "mem" => t.win[w].mem = x
<1>1. s.win[w] \in Window /\ t.win[w] = [s.win[w] EXCEPT ![h] = x] /\ t.reg = s.reg /\ t.start = s.start
  BY DEF Changed, IsState
<1>. QED  BY <1>1 DEF Window

(* No step but unmap takes memory away from an address.                    *)
LEMMA StepBacked ==
  ASSUME NEW a, NEW w \in Win, NEW s, IsState(s), NEW o \in StepsOn(w) \ Unmaps(w), Backed(w, s),
         NEW t, t = Step(a, s, o)
  PROVE  Backed(w, t)
<1> DEFINE A == <<"VIDADDR", w>>
<1>0. A \in Regs /\ A # WINCON(w)
  BY RegsDistinct
<1>1. CASE Quiet(t, s, w)
  BY <1>1 DEF Quiet, Backed, Address
<1>2. ASSUME NEW r, r # A, Stores(t, s, r)
      PROVE  Backed(w, t)
  <2>1. PICK x : Wrote(t, s, r, x)
    BY <1>2 DEF Stores
  <2>2. t.reg[A] = s.reg[A] /\ t.win = s.win /\ t.start = s.start
    BY <1>0, <1>2, <2>1, WroteOther
  <2>. QED  BY <2>2 DEF Backed
<1>3. CASE StoresStart(t, s, w)
  <2>1. t.win = s.win /\ t.start = s.start /\ (t.reg[A] = s.reg[A] \/ t.reg[A] = s.start)
    BY <1>0, <1>3 DEF StoresStart, Wrote, Stored, IsState
  <2>. QED  BY <2>1 DEF Backed
<1>4. CASE Sets(t, s, w)
  <2>1. PICK h, x : <<h, x>> \in Settings /\ Changed(t, s, w, h, x)
    BY <1>4 DEF Sets
  <2>2. s.win[w] \in Window
    BY DEF IsState
  <2>3. h # "mem"
    BY <2>1, <2>2, SettingsFit
  <2>4. t.reg = s.reg /\ t.start = s.start /\ t.win[w].mem = s.win[w].mem
    BY <2>1, <2>3, ChangedMem
  <2>. QED  BY <2>4 DEF Backed
<1>5. CASE Maps(t, s, w)
  <2>1. PICK b \in BOOLEAN : (s.win[w].mem => b) /\ Changed(t, s, w, "mem", b)
    BY <1>5 DEF Maps
  <2>2. t.reg = s.reg /\ t.start = s.start /\ t.win[w].mem = b
    BY <2>1, ChangedMem
  <2>. QED  BY <2>1, <2>2 DEF Backed
<1>6. CASE StoresBeside(t, s, w)
  BY <1>2, <1>6 DEF StoresBeside
<1>7. CASE Stores(t, s, WINCON(w))
  BY <1>0, <1>2, <1>7
<1>. QED  BY <1>1, <1>3, <1>4, <1>5, <1>6, <1>7, StepKinds

(* Only stores to its control register turn a window on.                   *)
LEMMA StepOff ==
  ASSUME NEW a, NEW w \in Win, NEW s, IsState(s), NEW o \in StepsOn(w),
         o \notin StoresOf(w) \cup Merges(w), Off(w, s), NEW t, t = Step(a, s, o)
  PROVE  Off(w, t)
<1>0. WINCON(w) \in Regs /\ WINCON(w) # <<"VIDADDR", w>>
  BY RegsDistinct
<1>1. ASSUME NEW r, r # WINCON(w), Stores(t, s, r)
      PROVE  Off(w, t)
  <2>1. PICK x : Wrote(t, s, r, x)
    BY <1>1 DEF Stores
  <2>2. t.reg[WINCON(w)] = s.reg[WINCON(w)]
    BY <1>0, <1>1, <2>1, WroteOther
  <2>. QED  BY <2>2 DEF Off
<1>2. CASE t.reg = s.reg
  BY <1>2 DEF Off
<1>3. CASE StoresBeside(t, s, w)
  BY <1>1, <1>3 DEF StoresBeside
<1>4. CASE StoresStart(t, s, w)
  BY <1>0, <1>1, <1>4 DEF StoresStart, Stores
<1>5. Quiet(t, s, w) \/ Sets(t, s, w) \/ Maps(t, s, w) \/ Unmapped(t, s, w) => t.reg = s.reg
  BY DEF Quiet, Sets, Maps, Unmapped, Changed
<1>. QED  BY <1>2, <1>3, <1>4, <1>5, StepKinds

(* Without power no step changes a register.                               *)
LEMMA StepDark ==
  ASSUME NEW a, NEW w \in Win, NEW s, IsState(s), ~s.power, NEW o \in CallSteps(w),
         NEW t, t = Step(a, s, o)
  PROVE  t.reg = s.reg
<1>1. CASE o = DiscountStep(w)
  <2>1. t = Step(a, s, DiscountStep(w))
    BY <1>1
  <2>. QED  BY <2>1, StepDiscount
<1>3. CASE o = CountStep(w)
  <2>1. t = Step(a, s, CountStep(w))
    BY <1>3
  <2>. QED  BY <2>1, StepCount
<1>2. CASE o \in StepsOn(w)
  <2>1. Quiet(t, s, w) \/ Sets(t, s, w) \/ Maps(t, s, w) \/ Unmapped(t, s, w) => t.reg = s.reg
    BY DEF Quiet, Sets, Maps, Unmapped, Changed
  <2>2. \A r : Stores(t, s, r) => t.reg = s.reg
    BY DEF Stores, Wrote, Stored
  <2>3. StoresBeside(t, s, w) \/ StoresStart(t, s, w) => t.reg = s.reg
    BY <2>2 DEF StoresBeside, StoresStart, Stores
  <2>. QED  BY <1>2, <2>1, <2>2, <2>3, StepKinds
<1>. QED  BY <1>1, <1>2, <1>3 DEF CallSteps, LastSteps

-----------------------------------------------------------------------------
(* What is asked of a call                                                 *)

(* An address stays that of memory until unmap,                            *)
LEMMA BackedAlong ==
  ASSUME NEW a, NEW w \in Win, NEW s, IsState(s), Backed(w, s), NEW q \in Seq(CallSteps(w)),
         NEW f, Trace(f, a, s, q), NEW m \in 0 .. Len(q),
         \A k \in 1 .. m : q[k] \in StepsOn(w) \ Unmaps(w)
  PROVE  \A n \in 0 .. m : Backed(w, f[n])
<1>0. Len(q) \in Nat /\ m \in Nat
  BY LenProperties
<1> DEFINE T == {n \in Nat : Backed(w, f[n])}
<1>1. f[0] = s /\ \A n \in 1 .. Len(q) : f[n] = Step(a, f[n - 1], q[n])
  BY <1>0, TraceSteps
<1>2. 0 \in T
  BY <1>1
<1>s. \A n \in 0 .. Len(q) : IsState(f[n])
  BY RunBeside DEF Beside
<1>3. ASSUME NEW n \in 0 .. m - 1, n \in T
      PROVE  n + 1 \in T
  <2>0. n + 1 \in 1 .. Len(q) /\ n + 1 - 1 = n /\ n + 1 \in Nat /\ n + 1 \in 1 .. m /\ n \in 0 .. Len(q)
    BY <1>0
  <2> DEFINE u == f[n]
             t == f[n + 1]
             o == q[n + 1]
  <2>1. t = Step(a, u, o) /\ o \in StepsOn(w) \ Unmaps(w) /\ IsState(u) /\ Backed(w, u)
    BY <1>0, <1>1, <1>3, <1>s, <2>0
  <2>2. Backed(w, t)
    <3>. HIDE DEF t, u, o
    <3>. QED  BY <2>1, StepBacked
  <2>. QED  BY <2>0, <2>2
<1>4. \A n \in 0 .. m : n \in T
  <2>. HIDE DEF T
  <2>. QED  BY <1>0, <1>2, <1>3, CountUp
<1>. QED  BY <1>4

(* and without power the registers stay.                                   *)
LEMMA DarkAlong ==
  ASSUME NEW a, NEW w \in Win, NEW s, IsState(s), ~s.power, NEW q \in Seq(CallSteps(w))
  PROVE  RunAll(a, s, q).reg = s.reg
<1>0. Len(q) \in Nat /\ \A k \in 1 .. Len(q) : q[k] \in CallSteps(w)
  BY LenProperties, ElementOfSeq
<1>f. PICK f : Trace(f, a, s, q)
  BY <1>0, TraceExists
<1> DEFINE T == {n \in Nat : f[n].reg = s.reg}
<1>1. f[0] = s /\ \A n \in 1 .. Len(q) : f[n] = Step(a, f[n - 1], q[n])
  BY <1>0, <1>f, TraceSteps
<1>2. 0 \in T
  BY <1>1
<1>s. \A n \in 0 .. Len(q) : IsState(f[n]) /\ ~f[n].power
  <2>1. \A n \in 0 .. Len(q) : Beside(w, s, f[n])
    BY <1>f, RunBeside
  <2>. QED  BY <2>1 DEF Beside
<1>3. ASSUME NEW n \in 0 .. Len(q) - 1, n \in T
      PROVE  n + 1 \in T
  <2>0. n + 1 \in 1 .. Len(q) /\ n + 1 - 1 = n /\ n + 1 \in Nat /\ n \in 0 .. Len(q)
    BY <1>0
  <2> DEFINE u == f[n]
             t == f[n + 1]
             o == q[n + 1]
  <2>1. t = Step(a, u, o) /\ o \in CallSteps(w) /\ IsState(u) /\ ~u.power /\ u.reg = s.reg
    BY <1>0, <1>1, <1>3, <1>s, <2>0
  <2>2. t.reg = u.reg
    <3>. HIDE DEF t, u, o
    <3>. QED  BY <2>1, StepDark
  <2>. QED  BY <2>0, <2>1, <2>2
<1>4. \A n \in 0 .. Len(q) : n \in T
  <2>. HIDE DEF T
  <2>. QED  BY <1>0, <1>2, <1>3, CountUp
<1>5. RunAll(a, s, q) = f[Len(q)] /\ Len(q) \in 0 .. Len(q)
  BY <1>0, <1>f, RunIs
<1>. QED  BY <1>4, <1>5

-----------------------------------------------------------------------------
(* What holds of a window between the calls for it, and during them        *)

(* No store of a call on the window is dropped but if the window has missed*)
(* stores already.                                                         *)
Heard(w, s) == s.power \/ w \in s.missed

(* What is known of a window that nobody has open, of its address, of one  *)
(* that is on                                                              *)
Unused(w, s) ==
  w # Default /\ s.win[w].in_use = 0 =>
    s.win[w].enabled = FALSE /\ s.win[w].mem = FALSE /\ s.win[w].x = 0

Based(w, s) == s.reg[<<"VIDADDR", w>>] # 0 => s.win[w].mem

Scan(w, s) ==
  w \notin s.missed /\ ~Off(w, s) /\ s.reg[<<"VIDADDR", w>>] # 0 => s.win[w].mem

(* of one that no call works on, when the resume has still to look at the  *)
(* windows in D,                                                           *)
Shown(w, s, D) ==
  /\ Unused(w, s)
  /\ w \notin s.missed =>
       Based(w, s)
       /\ (Follows(w, s) \/ (Off(w, s) /\ w \in s.lost /\ (~s.power \/ w \in D)))

Good(w, s) == Shown(w, s, {})

(* and of one that a call works on                                         *)
Fine(w, s) == Scan(w, s) /\ Unused(w, s)

(* Whole calls leave the channels of other windows alone, the window's own *)
(* on if it is, and no window protected.                                   *)
Matches(w, s) == Ch(w) \in s.reg[WINSHMAP] <=> s.win[w].enabled

MapKept(w, s, t) ==
  /\ \A v \in Win : Protect(v) \in t.reg[WINSHMAP] => Protect(v) \in s.reg[WINSHMAP]
  /\ \A v \in Win \ {w} : Ch(v) \in t.reg[WINSHMAP] <=> Ch(v) \in s.reg[WINSHMAP]
  /\ w \notin s.missed /\ Matches(w, s) => Matches(w, t)

(* The call on a window that has a user, or that opens it                  *)
Ends(q, o) == q # <<>> /\ q[Len(q)] = o
Used(w, s, q) == s.win[w].in_use > 0 \/ Ends(q, CountStep(w))

(* What is asked of a call on window w                                     *)
Sound(a, w, s, q) ==
  /\ IsCall(q, w)
  /\ Good(w, s) /\ Used(w, s, q) =>
       /\ \A n \in 1 .. Len(q) - 1 : Fine(w, RunAll(a, s, SubSeq(q, 1, n)))
       /\ Good(w, RunAll(a, s, q))
  /\ MapKept(w, s, RunAll(a, s, q))

(* Between calls an address is that of memory.                             *)
LEMMA GoodBacked ==
  ASSUME NEW w \in Win, NEW s, s.start = 0, Based(w, s)
  PROVE  Backed(w, s)
BY DEF Based, Backed

(* A window that somebody has open is not unused.                          *)
LEMMA InUse ==
  ASSUME NEW w \in Win, NEW s, s.win[w].in_use > 0, NEW t, OnlyIn(w, s, t)
  PROVE  Unused(w, t)
BY DEF OnlyIn, Unused

(* A run that stores nothing keeps WINSHMAP.                               *)
LEMMA MapSame ==
  ASSUME NEW w \in Win, NEW s, NEW t, t.reg = s.reg, w \in s.missed
  PROVE  MapKept(w, s, t)
BY DEF MapKept

(* A bare part is a call without unmap.                                    *)
LEMMA BareSteps ==
  ASSUME NEW w \in Win, NEW q, Bare(q, w)
  PROVE  /\ IsCall(q, w) /\ q \in Seq(CallSteps(w)) /\ Len(q) \in Nat
         /\ \A k \in 1 .. Len(q) : q[k] \in StepsOn(w) \ Unmaps(w)
         /\ ~Ends(q, CountStep(w))
<1>1. IsCall(q, w) /\ q \in Seq(CallSteps(w)) /\ Len(q) \in Nat
  BY PartIsCall, LenProperties DEF Bare, IsCall
<1>2. \A k \in 1 .. Len(q) : q[k] \in StepsOn(w)
  BY ElementOfSeq DEF Bare, Part
<1>3. \A o \in Unmaps(w) : o.do = "unmap"
  BY StepsAre
<1>4. ~Ends(q, CountStep(w))
  <2>1. q # <<>> => Len(q) \in 1 .. Len(q)
    <3>1. q \in Seq(StepsOn(w))
      BY DEF Bare, Part
    <3>. QED  BY <1>1, <3>1, EmptySeq
  <2>2. CountStep(w) \notin StepsOn(w)
    BY NotStored DEF LastSteps
  <2>. QED  BY <1>2, <2>1, <2>2 DEF Ends
<1>. QED  BY <1>1, <1>2, <1>3, <1>4 DEF Bare, Plain

(* A bare part of a call is sound if with power it ends as it should.      *)
LEMMA BareSound ==
  ASSUME NEW a, NEW w \in Win, NEW s, IsState(s), Heard(w, s), s.start = 0,
         NEW q, Bare(q, w),
         s.power /\ Follows(w, s) => Follows(w, RunAll(a, s, q)),
         s.power => MapKept(w, s, RunAll(a, s, q))
  PROVE  Sound(a, w, s, q)
<1> DEFINE t == RunAll(a, s, q)
<1>0. /\ IsCall(q, w) /\ q \in Seq(CallSteps(w)) /\ Len(q) \in Nat
      /\ \A k \in 1 .. Len(q) : q[k] \in StepsOn(w) \ Unmaps(w)
  BY BareSteps
<1>1. PICK f : Trace(f, a, s, q)
  BY <1>0, TraceExists
<1>2. t = f[Len(q)] /\ \A n \in 1 .. Len(q) - 1 : RunAll(a, s, SubSeq(q, 1, n)) = f[n]
  <2>1. t = f[Len(q)]
    BY <1>0, <1>1, RunIs
  <2>2. \A n \in 1 .. Len(q) - 1 : n \in 0 .. Len(q)
    BY <1>0
  <2>. QED  BY <1>0, <1>1, <2>1, <2>2, RunParts
<1>3. \A n \in 0 .. Len(q) : OnlyIn(w, s, f[n])
  <2>1. Len(q) \in 0 .. Len(q)
    BY <1>0
  <2>. QED  BY <1>0, <1>1, <2>1, RunOn
<1>4. \A n \in 0 .. Len(q) : f[n].missed = s.missed
  BY <1>3 DEF OnlyIn, Local
<1>e. Len(q) \in 0 .. Len(q) /\ \A n \in 1 .. Len(q) - 1 : n \in 0 .. Len(q)
  BY <1>0
<1>5. ASSUME Good(w, s), Used(w, s, q)
      PROVE  (\A n \in 1 .. Len(q) - 1 : Fine(w, f[n])) /\ Good(w, t)
  <2>0. s.win[w].in_use > 0
    BY <1>5, BareSteps DEF Used
  <2>1. \A n \in 0 .. Len(q) : Unused(w, f[n])
    BY <1>3, <2>0, InUse
  <2>2. CASE w \in s.missed
    BY <1>2, <1>4, <1>e, <2>1, <2>2 DEF Fine, Scan, Good, Shown
  <2>3. CASE w \notin s.missed
    <3>1. Follows(w, s) /\ s.power /\ Based(w, s)
      BY <1>5, <2>3 DEF Good, Shown, Heard
    <3>2. Backed(w, s)
      BY <3>1, GoodBacked
    <3>3. \A n \in 0 .. Len(q) : Backed(w, f[n])
      BY <1>0, <1>1, <1>e, <3>2, BackedAlong
    <3>4. \A n \in 1 .. Len(q) - 1 : Fine(w, f[n])
      BY <1>e, <2>1, <3>3 DEF Fine, Scan, Backed
    <3>5. Follows(w, t) /\ Based(w, t)
      BY <1>2, <1>e, <3>1, <3>3 DEF Based, Backed
    <3>. QED  BY <1>2, <1>e, <2>1, <3>4, <3>5 DEF Good, Shown
  <2>. QED  BY <2>2, <2>3
<1>6. MapKept(w, s, t)
  <2>1. CASE ~s.power
    <3>1. t.reg = s.reg /\ w \in s.missed
      BY <1>0, <2>1, DarkAlong DEF Heard
    <3>. QED  BY <3>1, MapSame
  <2>. QED  BY <2>1
<1>. HIDE DEF t
<1>7. Sound(a, w, s, q)
  BY <1>0, <1>2, <1>5, <1>6 DEF Sound, t
<1>. QED  BY <1>7

(* A steady window keeps its channel.                                      *)
LEMMA SteadyKeeps ==
  ASSUME NEW w \in Win, NEW s, NEW t, Steady(t, s, w)
  PROVE  MapKept(w, s, t) /\ (Lit(w, s) => Lit(w, t))
<1>1. \A v, x \in Win : Ch(v) # Protect(x)
  BY DEF Ch, Protect
<1>2. \A v \in Win : /\ Protect(v) \in t.reg[WINSHMAP] => Protect(v) \in s.reg[WINSHMAP]
                     /\ Ch(v) \in t.reg[WINSHMAP] <=> Ch(v) \in s.reg[WINSHMAP]
  BY <1>1 DEF Steady
<1>. QED  BY <1>2 DEF Steady, MapKept, Matches, Lit

(* A smooth part that leaves or sets the picture right is sound.           *)
LEMMA SmoothSound ==
  ASSUME NEW a, NEW w \in Win, NEW s, IsState(s), Heard(w, s), s.start = 0,
         NEW q, Smooth(q, w, a), Holding(q, w, a) \/ Painting(q, w, a)
  PROVE  Sound(a, w, s, q)
<1> DEFINE t == RunAll(a, s, q)
<1>1. Bare(q, w)
  BY DEF Smooth
<1>2. s.power => Steady(t, s, w)
  BY DEF Smooth
<1>3. s.power => MapKept(w, s, t) /\ (Lit(w, s) => Lit(w, t)) /\ t.lost = s.lost
  BY <1>2, SteadyKeeps DEF Steady, OnlyIn, Local
<1>4. s.power /\ Follows(w, s) => Follows(w, t)
  BY <1>3 DEF Follows, Holding, Painting
<1>. HIDE DEF t
<1>. QED  BY <1>1, <1>3, <1>4, BareSound DEF t

(* s3cfb_set_window is a bare part,                                        *)
LEMMA SetWindowBare ==
  ASSUME NEW w \in Win, NEW on \in BOOLEAN
  PROVE  Bare(s3cfb_set_window(w, on), w)
<1> DEFINE h == "enabled"
<1>1. Bare(Assign(w, h, on), w)
  <2>1. <<h, on>> \in Settings
    BY DEF Settings
  <2>. HIDE DEF h
  <2>. QED  BY <2>1, BareOnes
<1>2. Bare(s3cfb_window_on(w), w) /\ Bare(s3cfb_window_off(w), w)
  BY BareFunctions
<1>. QED  BY <1>1, <1>2, BareConcat DEF s3cfb_set_window

(* and sound, whether it turns the window on or off.                       *)
LEMMA SetWindowSound ==
  ASSUME NEW a, NEW w \in Win, NEW s, IsState(s), Heard(w, s), s.start = 0, NEW on \in BOOLEAN
  PROVE  Sound(a, w, s, s3cfb_set_window(w, on))
<1> DEFINE q == s3cfb_set_window(w, on)
           t == RunAll(a, s, q)
<1>1. Bare(q, w)
  BY SetWindowBare
<1>2. s.power => /\ t.win[w].enabled = on /\ Lit(w, t)
                 /\ t.reg[WINSHMAP] = Lights(s.reg[WINSHMAP], w, on)
                 /\ Pictured(w, s) => Pictured(w, t)
                 /\ t.lost = s.lost
  BY RunSetWindow DEF OnlyIn, Local
<1>3. s.power /\ Follows(w, s) => Follows(w, t)
  BY <1>2 DEF Follows
<1>4. s.power => MapKept(w, s, t)
  <2>1. \A v, x \in Win : Ch(v) # Protect(x) /\ (v # x => Ch(v) # Ch(x))
    BY DEF Ch, Protect
  <2>. HIDE DEF t
  <2>. QED  BY <1>2, <2>1 DEF MapKept, Matches, Lights
<1>. HIDE DEF t, q
<1>5. Sound(a, w, s, q)
  BY <1>1, <1>3, <1>4, BareSound DEF t
<1>. QED  BY <1>5 DEF q

-----------------------------------------------------------------------------
(* Release                                                                 *)

(* The window has given back its memory, is off and at the origin.         *)
Emptied(w, e) == e.win[w].enabled = FALSE /\ e.win[w].mem = FALSE /\ e.win[w].x = 0

(* One user less changes no other field of a window,                       *)
LEMMA OneLessKeeps ==
  ASSUME NEW u \in Window, NEW v, v = OneLess(u)
  PROVE  OtherFields(u, v, "in_use")
BY DEF OneLess, OtherFields, Window

(* and what the screen shows does not depend on the users.                 *)
LEMMA ViewFollows ==
  ASSUME NEW w \in Win, NEW s, NEW t, \A r \in RegsOf(w) : t.reg[r] = s.reg[r],
         OtherFields(s.win[w], t.win[w], "in_use"), w \in t.lost <=> w \in s.lost
  PROVE  (Follows(w, s) => Follows(w, t)) /\ (Based(w, s) => Based(w, t))
<1>1. /\ t.reg[WINCON(w)] = s.reg[WINCON(w)]
      /\ t.reg[<<"VIDADDR", w>>] = s.reg[<<"VIDADDR", w>>]
      /\ t.reg[<<"VIDOSD_A", w>>] = s.reg[<<"VIDOSD_A", w>>]
      /\ t.reg[<<"VIDOSD_B", w>>] = s.reg[<<"VIDOSD_B", w>>]
      /\ t.reg[<<"KEYCON", w>>] = s.reg[<<"KEYCON", w>>]
  BY RegsDiffer
<1>2. /\ t.win[w].enabled = s.win[w].enabled /\ t.win[w].mem = s.win[w].mem
      /\ t.win[w].x = s.win[w].x /\ t.win[w].xres = s.win[w].xres
      /\ t.win[w].yoffset = s.win[w].yoffset /\ t.win[w].format = s.win[w].format
      /\ t.win[w].alpha = s.win[w].alpha /\ t.win[w].chroma = s.win[w].chroma
  BY DEF OtherFields
<1>3. Lit(w, s) => Lit(w, t)
  BY <1>1, <1>2 DEF Lit
<1>4. Addressed(w, s) => Addressed(w, t)
  BY <1>1, <1>2 DEF Addressed, Address
<1>5. Appears(w, s) => Appears(w, t)
  BY <1>1, <1>2 DEF Appears, Placed, Formatted, Blended, Keyed
<1>6. Based(w, s) => Based(w, t)
  BY <1>1, <1>2 DEF Based
<1>. QED  BY <1>2, <1>3, <1>4, <1>5, <1>6 DEF Follows, Pictured

(* A part that empties an overlay window, scans nothing it gave back and   *)
(* then discounts its user is sound.                                       *)
LEMMA DiscountSound ==
  ASSUME NEW a, NEW w \in Win, NEW s, IsState(s), Heard(w, s), s.start = 0, NEW x, Part(x, w),
         NEW g, Trace(g, a, s, x), NEW e, e = RunAll(a, s, x),
         Good(w, s) /\ s.win[w].in_use > 0 => \A n \in 1 .. Len(x) : Scan(w, g[n]),
         w # Default => Emptied(w, e),
         s.power /\ Follows(w, s) /\ Backed(w, s) => Follows(w, e) /\ Based(w, e),
         s.power => MapKept(w, s, e)
  PROVE  Sound(a, w, s, x \o <<DiscountStep(w)>>)
<1> DEFINE d == <<DiscountStep(w)>>
           q == x \o d
           t == RunAll(a, s, q)
           S == CallSteps(w)
<1>0. Len(x) \in Nat /\ x \in Seq(S) /\ d \in Seq(S) /\ q \in Seq(S) /\ Len(q) = Len(x) + 1
      /\ IsCall(q, w) /\ \A k \in 1 .. Len(x) : q[k] \in StepsOn(w)
  <2>1. x \in Seq(S) /\ d \in Seq(S)
    BY DEF Part, CallSteps, LastSteps
  <2>2. Len(d) = 1
    OBVIOUS
  <2>3. IsCall(q, w)
    BY CountEnds DEF LastSteps
  <2>4. Len(x) \in Nat /\ Len(q) = Len(x) + Len(d) /\ q \in Seq(S)
    <3>. HIDE DEF S, d
    <3>. QED  BY <2>1, ConcatProperties, LenProperties
  <2>5. \A k \in 1 .. Len(x) : q[k] \in StepsOn(w)
    <3>. HIDE DEF q
    <3>1. Len(q) - 1 = Len(x)
      BY <2>2, <2>4
    <3>. QED  BY <2>3, <3>1 DEF IsCall
  <2>. HIDE DEF S, d, q
  <2>. QED  BY <2>1, <2>2, <2>3, <2>4, <2>5
<1>. HIDE DEF S
<1>1. PICK f : Trace(f, a, s, q)
  <2>. HIDE DEF q
  <2>. QED  BY <1>0, TraceExists
<1>2. \A n \in 0 .. Len(x) : f[n] = g[n]
  <2>1. Begins(f, a, s, x)
    BY <1>0, <1>1, TraceConcat
  <2>2. PICK h : Trace(h, a, s, x) /\ \A n \in 0 .. Len(x) : h[n] = f[n]
    BY <2>1 DEF Begins
  <2>3. \A n \in 0 .. Len(x) : h[n] = g[n]
    <3>1. Within(x, x, 0)
      BY <1>0 DEF Within
    <3>. QED  BY <1>0, <2>2, <3>1, TracesMeetFirst
  <2>. QED  BY <2>2, <2>3
<1>3. \A n \in 1 .. Len(q) - 1 : RunAll(a, s, SubSeq(q, 1, n)) = g[n]
  <2>. HIDE DEF q
  <2>1. \A n \in 1 .. Len(q) - 1 : n \in 0 .. Len(q) /\ n \in 0 .. Len(x)
    BY <1>0
  <2>. QED  BY <1>0, <1>1, <1>2, <2>1, RunParts
<1>4. t = Step(a, e, DiscountStep(w))
  <2>1. t = RunAll(a, RunAll(a, s, x), d)
    <3>. HIDE DEF d
    <3>. QED  BY <1>0, RunConcat
  <2>. QED  BY <2>1, RunOne
<1>5. OnlyIn(w, s, e) /\ IsState(e)
  <2>1. OnlyIn(w, s, e)
    BY PartRun
  <2>. QED  BY <2>1 DEF OnlyIn, Local
<1>6. /\ t.reg = e.reg /\ t.lost = e.lost /\ t.missed = e.missed /\ t.win[w] = OneLess(e.win[w])
  <2>. HIDE DEF t
  <2>. QED  BY <1>4, <1>5, StepDiscount
<1>7. OtherFields(e.win[w], t.win[w], "in_use")
  <2>1. e.win[w] \in Window
    BY <1>5 DEF IsState
  <2>. HIDE DEF t
  <2>. QED  BY <1>6, <2>1, OneLessKeeps
<1>8. e.lost = s.lost /\ e.missed = s.missed
  BY <1>5 DEF OnlyIn, Local
<1>w. \A n \in 0 .. Len(x) : OnlyIn(w, s, g[n])
  <2>. HIDE DEF q
  <2>1. Len(x) \in 0 .. Len(q)
    BY <1>0
  <2>2. \A n \in 0 .. Len(x) : OnlyIn(w, s, f[n])
    BY <1>0, <1>1, <2>1, RunOn DEF S
  <2>. QED  BY <1>2, <2>2
<1>u. ~Ends(q, CountStep(w))
  <2>1. /\ Len(d) = 1 /\ d[1] = DiscountStep(w)
    OBVIOUS
  <2>2. q[Len(q)] = d[1]
    <3>. HIDE DEF d
    <3>. QED  BY <1>0, <2>1, ConcatProperties
  <2>3. DiscountStep(w) # CountStep(w)
    BY DEF DiscountStep, CountStep
  <2>. HIDE DEF d, q
  <2>. QED  BY <2>1, <2>2, <2>3 DEF Ends
<1>9. ASSUME Good(w, s), Used(w, s, q)
      PROVE  (\A n \in 1 .. Len(q) - 1 : Fine(w, g[n])) /\ Good(w, t)
  <2>. HIDE DEF q, t
  <2>0. \A n \in 1 .. Len(q) - 1 : n \in 0 .. Len(x) /\ n \in 1 .. Len(x)
    BY <1>0
  <2>u. s.win[w].in_use > 0
    BY <1>9, <1>u DEF Used
  <2>1. \A n \in 0 .. Len(x) : Unused(w, g[n])
    BY <1>w, <2>u, InUse
  <2>2. \A n \in 1 .. Len(q) - 1 : Fine(w, g[n])
    BY <1>9, <2>u, <2>0, <2>1 DEF Fine
  <2>3. w \notin t.missed => Follows(w, t) /\ Based(w, t)
    <3>1. SUFFICES ASSUME w \notin s.missed PROVE Follows(w, t) /\ Based(w, t)
      BY <1>6, <1>8
    <3>2. s.power /\ Follows(w, s) /\ Based(w, s)
      BY <1>9, <3>1 DEF Good, Shown, Heard
    <3>3. Follows(w, e) /\ Based(w, e)
      BY <3>2, GoodBacked
    <3>. QED  BY <1>6, <1>7, <3>3, ViewFollows
  <2>4. Unused(w, t)
    BY <1>7 DEF Unused, Emptied, OtherFields
  <2>. QED  BY <2>2, <2>3, <2>4 DEF Good, Shown
<1>10. MapKept(w, s, t)
  <2>1. CASE ~s.power
    <3>1. t.reg = s.reg /\ w \in s.missed
      <4>. HIDE DEF q
      <4>. QED  BY <1>0, <2>1, DarkAlong DEF Heard, S
    <3>. QED  BY <3>1, MapSame
  <2>2. CASE s.power
    <3>1. MapKept(w, s, e)
      BY <2>2
    <3>2. t.reg = e.reg /\ t.win[w].enabled = e.win[w].enabled
      BY <1>6, <1>7 DEF OtherFields
    <3>. HIDE DEF t
    <3>. QED  BY <3>1, <3>2 DEF MapKept, Matches
  <2>. QED  BY <2>1, <2>2
<1>. HIDE DEF t
<1>11. Sound(a, w, s, q)
  <2>. HIDE DEF q
  <2>. QED  BY <1>0, <1>3, <1>9, <1>10 DEF Sound, t
<1>. QED  BY <1>11

(* The steps of a call that do not turn the window on or off               *)
Still(w) == StepsOn(w) \ (StoresOf(w) \cup Merges(w))

(* During such steps the window stays off.                                 *)
LEMMA OffAlong ==
  ASSUME NEW a, NEW w \in Win, NEW s, IsState(s), Off(w, s), NEW q \in Seq(Still(w)),
         NEW f, Trace(f, a, s, q)
  PROVE  \A n \in 0 .. Len(q) : Off(w, f[n])
<1>0. Len(q) \in Nat /\ \A k \in 1 .. Len(q) : q[k] \in Still(w)
  BY LenProperties, ElementOfSeq
<1> DEFINE T == {n \in Nat : Off(w, f[n])}
<1>1. f[0] = s /\ \A n \in 1 .. Len(q) : f[n] = Step(a, f[n - 1], q[n])
  BY <1>0, TraceSteps
<1>2. 0 \in T
  BY <1>1
<1>s. \A n \in 0 .. Len(q) : IsState(f[n])
  <2>1. q \in Seq(CallSteps(w))
    BY DEF Still, CallSteps
  <2>. QED  BY <2>1, RunBeside DEF Beside
<1>3. ASSUME NEW n \in 0 .. Len(q) - 1, n \in T
      PROVE  n + 1 \in T
  <2>0. n + 1 \in 1 .. Len(q) /\ n + 1 - 1 = n /\ n + 1 \in Nat /\ n \in 0 .. Len(q)
    BY <1>0
  <2> DEFINE u == f[n]
             t == f[n + 1]
             o == q[n + 1]
  <2>1. t = Step(a, u, o) /\ o \in StepsOn(w) /\ o \notin StoresOf(w) \cup Merges(w)
        /\ IsState(u) /\ Off(w, u)
    BY <1>0, <1>1, <1>3, <1>s, <2>0 DEF Still
  <2>2. Off(w, t)
    <3>. HIDE DEF t, u, o
    <3>. QED  BY <2>1, StepOff
  <2>. QED  BY <2>0, <2>2
<1>4. \A n \in 0 .. Len(q) : n \in T
  <2>. HIDE DEF T
  <2>. QED  BY <1>0, <1>2, <1>3, CountUp
<1>. QED  BY <1>4

(* Loads and stores leave the driver's structures alone.                   *)
LEMMA ModifyWin ==
  ASSUME NEW a, NEW s, IsState(s), NEW r \in Regs, NEW x, NEW y,
         NEW t, t = RunAll(a, s, Modify(r, x, y))
  PROVE  IsState(t) /\ t.win = s.win
<1> DEFINE o == Load(r)
           p == Store(r, x, y)
           u == Step(a, s, o)
<1>1. t = Step(a, u, p)
  BY RunTwo DEF Modify
<1>2. o.do = "load" /\ o.reg = r /\ p.do = "store" /\ p.reg = r
  BY DEF Load, Store
<1>3. Local(u, s) /\ u.win = s.win
  <2>. HIDE DEF o
  <2>. QED  BY <1>2, StepLoad
<1>4. IsState(u)
  BY <1>3 DEF Local
<1>5. Wrote(t, u, p.reg, (u.cfg \ p.clear) \cup p.set)
  <2>. HIDE DEF u, p
  <2>. QED  BY <1>1, <1>2, <1>4, StepStore
<1>. HIDE DEF u, p, o
<1>. QED  BY <1>3, <1>5 DEF Wrote, Local

(* With power or without, the driver's structures keep what they say.      *)
LEMMA AddressWin ==
  ASSUME NEW a, NEW w \in Win, NEW s, IsState(s),
         NEW t, t = RunAll(a, s, s3cfb_set_buffer_address(w))
  PROVE  t.win = s.win
<1> DEFINE x == <<[do |-> "address", w |-> w]>>
           y == Modify(WINSHMAP, {Protect(w)}, {})
           z == <<[do |-> "start", reg |-> <<"VIDADDR", w>>, w |-> w]>>
           r == Modify(WINSHMAP, {}, {Protect(w)})
           s1 == RunAll(a, s, x)
           s2 == RunAll(a, s1, y)
           s3 == RunAll(a, s2, z)
           s4 == RunAll(a, s3, r)
<1>1. Part(x, w) /\ Part(y, w) /\ Part(z, w) /\ Part(r, w)
  BY SinglePart, ProtectParts
<1>2. t = s4
  <2>1. t = RunAll(a, s, x \o y \o z \o r)
    BY DEF s3cfb_set_buffer_address
  <2>. HIDE DEF x, y, z, r
  <2>. QED  BY <1>1, <2>1, PartThen4
<1>3. IsState(s1) /\ s1.win = s.win
  <2>1. Keeps(s1, s, {})
    BY RunAddress
  <2>. HIDE DEF s1
  <2>. QED  BY <2>1 DEF Keeps, Local
<1>. HIDE DEF s1
<1>4. IsState(s2) /\ s2.win = s1.win
  <2>1. WINSHMAP \in Regs
    BY RegsAre
  <2>. QED  BY <1>3, <2>1, ModifyWin
<1>. HIDE DEF s2
<1>5. IsState(s3) /\ s3.win = s2.win
  <2> DEFINE o == [do |-> "start", reg |-> <<"VIDADDR", w>>, w |-> w]
  <2>1. s3 = Step(a, s2, o)
    BY RunOne
  <2>2. o.do = "start" /\ o.reg \in Regs
    BY RegsDistinct
  <2>. HIDE DEF o, s3
  <2>3. Wrote(s3, s2, o.reg, s2.start)
    BY <1>4, <2>1, <2>2, StepStart
  <2>. QED  BY <2>3 DEF Wrote, Local
<1>. HIDE DEF s3
<1>6. s4.win = s3.win
  <2>1. WINSHMAP \in Regs
    BY RegsAre
  <2>. QED  BY <1>5, <2>1, ModifyWin
<1>. QED  BY <1>2, <1>3, <1>4, <1>5, <1>6

(* s3cfb_set_window assigns to enabled, with power or without.             *)
LEMMA SetWindowEnds ==
  ASSUME NEW a, NEW w \in Win, NEW s, IsState(s), NEW on \in BOOLEAN,
         NEW t, t = RunAll(a, s, s3cfb_set_window(w, on))
  PROVE  Part(s3cfb_set_window(w, on), w) /\ OnlyIn(w, s, t) /\ t.win[w].enabled = on
<1> DEFINE x == IF on THEN s3cfb_window_on(w) ELSE s3cfb_window_off(w)
           y == Assign(w, "enabled", on)
           u == RunAll(a, s, x)
<1>1. <<"enabled", on>> \in Settings
  BY DEF Settings
<1>2. Part(x, w)
  BY FunctionParts
<1>a. Part(y, w)
  BY <1>1, SinglePart
<1>3. s3cfb_set_window(w, on) = x \o y
  BY DEF s3cfb_set_window
<1>4. t = RunAll(a, u, y)
  <2>. HIDE DEF x, y
  <2>. QED  BY <1>2, <1>a, <1>3, PartThen
<1>5. IsState(u)
  <2>1. OnlyIn(w, s, u)
    <3>. HIDE DEF x
    <3>. QED  BY <1>2, PartRun
  <2>. HIDE DEF u
  <2>. QED  BY <2>1 DEF OnlyIn, Local
<1>6. t.win[w].enabled = on
  <2> DEFINE h == "enabled"
  <2>1. t = RunAll(a, u, Assign(w, h, on)) /\ <<h, on>> \in Settings
    BY <1>1, <1>4
  <2>2. t.win[w][h] = on
    <3>. HIDE DEF u, h, x
    <3>. QED  BY <2>1, <1>5, RunSetting
  <2>. QED  BY <2>2
<1>7. Part(x \o y, w)
  <2>. HIDE DEF x, y
  <2>. QED  BY <1>2, <1>a, PartConcat
<1>8. OnlyIn(w, s, t)
  <2>. HIDE DEF x, y
  <2>. QED  BY <1>3, <1>7, PartRun
<1>. HIDE DEF u, x, y
<1>. QED  BY <1>3, <1>6, <1>7, <1>8

(* t differs from s in that window w has given its memory back.            *)
Returned(t, s, w) ==
  /\ IsState(t) /\ t.power = s.power /\ t.reg = s.reg
  /\ t.win[w].mem = FALSE /\ t.win[w].enabled = s.win[w].enabled

(* s3cfb_unmap_video_memory leaves the window without memory.              *)
LEMMA UnmapEnds ==
  ASSUME NEW a, NEW w \in Win, NEW s, IsState(s),
         NEW t, t = RunAll(a, s, s3cfb_unmap_video_memory(w))
  PROVE  Returned(t, s, w)
<1> DEFINE o == [do |-> "unmap", w |-> w]
<1>1. t = Step(a, s, o)
  BY RunOne DEF s3cfb_unmap_video_memory
<1>2. o.do = "unmap" /\ o.w = w
  OBVIOUS
<1>3. Changed(t, s, w, "mem", FALSE)
  <2>. HIDE DEF o
  <2>. QED  BY <1>1, <1>2, StepUnmap
<1>4. /\ t.reg = s.reg /\ IsState(t) /\ t.power = s.power
      /\ t.win = [s.win EXCEPT ![w] = [s.win[w] EXCEPT !["mem"] = FALSE]]
  BY <1>3 DEF Changed, Local
<1>5. s.win \in [Win -> Window]
  BY DEF IsState
<1>6. t.win[w] = [s.win[w] EXCEPT !["mem"] = FALSE] /\ s.win[w] \in Window
  BY <1>4, <1>5
<1>7. t.win[w].enabled = s.win[w].enabled
  BY <1>6 DEF Window
<1>8. t.win[w].mem = FALSE
  BY <1>6, ZenonT(60) DEF Window
<1>. QED  BY <1>4, <1>7, <1>8 DEF Returned

(* The release of an overlay window                                        *)
Vacate(w) ==
  s3cfb_set_window(w, FALSE) \o s3cfb_unmap_video_memory(w)
  \o s3cfb_set_buffer_address(w) \o Assign(w, "x", 0)

(* What the release of an overlay window leaves                            *)
LEMMA ReleaseEnds ==
  ASSUME NEW a, NEW w \in Win, NEW s, IsState(s), NEW x, x = Vacate(w),
         NEW e, e = RunAll(a, s, x)
  PROVE  /\ Part(x, w) /\ Emptied(w, e) /\ x # <<>>
         /\ s.power => Lit(w, e) /\ Pictured(w, e) /\ Based(w, e) /\ MapKept(w, s, e)
<1>z. PICK z \in Int : z = 0
  OBVIOUS
<1>b. PICK b \in BOOLEAN : b = FALSE
  OBVIOUS
<1> DEFINE W == s3cfb_set_window(w, b)
           U == s3cfb_unmap_video_memory(w)
           B == s3cfb_set_buffer_address(w)
           h == "x"
           A == Assign(w, h, z)
           s1 == RunAll(a, s, W)
           s2 == RunAll(a, s1, U)
           s3 == RunAll(a, s2, B)
           s4 == RunAll(a, s3, A)
           CON == WINCON(w)
           ADR == <<"VIDADDR", w>>
<1>0. <<h, z>> \in Settings
  BY DEF Settings
<1>1. Part(W, w) /\ Part(U, w) /\ Part(B, w) /\ Part(A, w)
  <2>1. Part(W, w)
    BY SetWindowEnds
  <2>2. Part(A, w)
    <3>. HIDE DEF h
    <3>. QED  BY <1>0, SinglePart
  <2>. QED  BY <2>1, <2>2, SinglePart, FunctionParts
<1>2. x = W \o U \o B \o A
  BY <1>z, <1>b DEF Vacate
<1>3. e = s4 /\ Part(x, w)
  <2>. HIDE DEF W, U, B, A
  <2>1. Part(W \o U \o B \o A, w)
    BY <1>1, PartConcat
  <2>2. RunAll(a, s, W \o U \o B \o A) = s4
    BY <1>1, PartThen4
  <2>. QED  BY <1>2, <2>1, <2>2
<1>4. IsState(s1) /\ s1.power = s.power /\ s1.win[w].enabled = FALSE
  <2>1. OnlyIn(w, s, s1) /\ s1.win[w].enabled = b
    BY SetWindowEnds
  <2>. HIDE DEF s1
  <2>. QED  BY <1>b, <2>1 DEF OnlyIn, Local
<1>5. s.power => Lit(w, s1) /\ s1.reg[WINSHMAP] = Lights(s.reg[WINSHMAP], w, FALSE)
  <2>1. s.power => Lit(w, s1) /\ s1.reg[WINSHMAP] = Lights(s.reg[WINSHMAP], w, b)
    BY RunSetWindow
  <2>. HIDE DEF s1
  <2>. QED  BY <1>b, <2>1
<1>. HIDE DEF s1
<1>6. /\ IsState(s2) /\ s2.power = s.power /\ s2.reg = s1.reg
      /\ s2.win[w].mem = FALSE /\ s2.win[w].enabled = FALSE
  <2>1. s2 = RunAll(a, s1, s3cfb_unmap_video_memory(w))
    OBVIOUS
  <2>. HIDE DEF s2
  <2>2. Returned(s2, s1, w)
    BY <1>4, <2>1, UnmapEnds
  <2>. QED  BY <1>4, <2>2 DEF Returned
<1>. HIDE DEF s2
<1>7. s3.win = s2.win
  BY <1>6, AddressWin
<1>8. IsState(s3)
  <2>1. OnlyIn(w, s2, s3)
    <3>. HIDE DEF B
    <3>. QED  BY <1>1, <1>6, PartRun
  <2>. HIDE DEF s3
  <2>. QED  BY <2>1 DEF OnlyIn, Local
<1>9. s.power => /\ Keeps(s3, s2, AddressRegs(w)) /\ s3.reg[ADR] = Address(s2.win[w])
                 /\ s3.reg[WINSHMAP] = Unprotected(s2.reg[WINSHMAP], w)
  <2>1. s3 = RunAll(a, s2, s3cfb_set_buffer_address(w))
    OBVIOUS
  <2>. HIDE DEF s3, ADR
  <2>2. s2.power => /\ Keeps(s3, s2, AddressRegs(w)) /\ s3.reg[<<"VIDADDR", w>>] = Address(s2.win[w])
                    /\ s3.reg[WINSHMAP] = Unprotected(s2.reg[WINSHMAP], w)
    BY <1>6, <2>1, RunBufferAddress
  <2>. QED  BY <1>6, <2>2 DEF ADR
<1>. HIDE DEF s3
<1>10. s4.reg = s3.reg /\ OtherFields(s3.win[w], s4.win[w], h) /\ s4.win[w][h] = z
  <2>. HIDE DEF h
  <2>. QED  BY <1>0, <1>8, RunSetting
<1>. HIDE DEF s4
<1>11. Emptied(w, e)
  BY <1>3, <1>6, <1>7, <1>10, <1>z DEF Emptied, OtherFields
<1>12. ASSUME s.power
       PROVE  Lit(w, e) /\ Pictured(w, e) /\ Based(w, e) /\ MapKept(w, s, e)
  <2>1. "ENWIN" \notin s1.reg[CON]
    BY <1>4, <1>5, <1>12 DEF Lit
  <2>2. CON \in Regs \ AddressRegs(w)
    BY RegsDistinct DEF AddressRegs
  <2>3. e.reg[CON] = s1.reg[CON]
    BY <1>3, <1>6, <1>9, <1>10, <1>12, <2>2 DEF Keeps
  <2>4. Lit(w, e)
    BY <1>11, <2>1, <2>3 DEF Lit, Emptied
  <2>5. e.reg[ADR] = 0
    BY <1>3, <1>6, <1>9, <1>10, <1>12 DEF Address
  <2>6. Pictured(w, e)
    BY <1>11, <2>5 DEF Pictured, Addressed, Address, Emptied
  <2>7. e.reg[WINSHMAP] = Unprotected(Lights(s.reg[WINSHMAP], w, FALSE), w)
    BY <1>3, <1>5, <1>6, <1>9, <1>10, <1>12
  <2>8. \A v, u \in Win : Ch(v) # Protect(u) /\ (v # u => Ch(v) # Ch(u))
    BY DEF Ch, Protect
  <2>9. MapKept(w, s, e)
    BY <1>11, <2>7, <2>8 DEF MapKept, Matches, Unprotected, Lights, Emptied
  <2>. QED  BY <2>4, <2>5, <2>6, <2>9 DEF Based
<1>13. x # <<>>
  <2> DEFINE V == W \o U \o B
  <2>1. A = <<[do |-> "assign", w |-> w, f |-> "x", v |-> z]>> /\ Len(A) = 1
    BY DEF Assign
  <2>2. Part(V, w)
    <3>. HIDE DEF W, U, B
    <3>. QED  BY <1>1, PartConcat
  <2>3. x = V \o A
    BY <1>2
  <2>4. V \in Seq(StepsOn(w)) /\ A \in Seq(StepsOn(w))
    BY <1>1, <2>2 DEF Part
  <2>. HIDE DEF V, A
  <2>5. Len(x) = Len(V) + Len(A) /\ Len(V) \in Nat
    BY <2>3, <2>4, ConcatProperties, LenProperties
  <2>6. Len(<<>>) = 0
    OBVIOUS
  <2>. QED  BY <2>1, <2>5, <2>6
<1>. QED  BY <1>3, <1>11, <1>12, <1>13

(* Steps that do not turn the window on, in turn with more of them         *)
LEMMA UnlitConcat ==
  ASSUME NEW w, NEW x \in Seq(Still(w)), NEW y \in Seq(Still(w))
  PROVE  x \o y \in Seq(Still(w))
BY ConcatProperties

(* What release does once the window is off does not turn it on.           *)
LEMMA UnlitFunctions ==
  ASSUME NEW w \in Win, NEW z \in Int
  PROVE  s3cfb_unmap_video_memory(w) \o s3cfb_set_buffer_address(w) \o Assign(w, "x", z)
         \in Seq(Still(w))
<1> DEFINE S == Still(w)
           L == Load(WINSHMAP)
           P == Store(WINSHMAP, {Protect(w)}, {})
           Q == Store(WINSHMAP, {}, {Protect(w)})
           D == [do |-> "address", w |-> w]
           B == [do |-> "start", reg |-> <<"VIDADDR", w>>, w |-> w]
           U == [do |-> "unmap", w |-> w]
           A == [do |-> "assign", w |-> w, f |-> "x", v |-> z]
<1>1. L \in S /\ P \in S /\ Q \in S /\ D \in S /\ B \in S /\ U \in S
  <2>1. L \in Loads(w) /\ P \in MapStores(w) /\ Q \in MapStores(w) /\ D \in Addresses(w)
        /\ B \in Starts(w) /\ U \in Unmaps(w)
    BY DEF Loads, MapStores, Addresses, Starts, Unmaps
  <2>. HIDE DEF L, P, Q, D, B, U
  <2>. QED  BY <2>1, StepsIn DEF Still
<1>2. A \in S
  <2>1. <<"x", z>> \in Settings
    BY DEF Settings
  <2>2. PICK p \in Settings : p = <<"x", z>>
    BY <2>1
  <2>3. A = AssignStep(w, p[1], p[2])
    BY <2>2 DEF AssignStep
  <2>4. A \in Assigns(w)
    <3>. HIDE DEF A
    <3>. QED  BY <2>3 DEF Assigns
  <2>. HIDE DEF A
  <2>. QED  BY <2>4, StepsIn DEF Still
<1>. HIDE DEF S
<1>3. <<U>> \in Seq(S) /\ <<D>> \in Seq(S) /\ <<B>> \in Seq(S) /\ <<A>> \in Seq(S)
      /\ <<L, P>> \in Seq(S) /\ <<L, Q>> \in Seq(S)
  <2>. HIDE DEF L, P, Q, D, B, U, A
  <2>. QED  BY <1>1, <1>2
<1>4. s3cfb_set_buffer_address(w) = <<D>> \o <<L, P>> \o <<B>> \o <<L, Q>>
  BY DEF s3cfb_set_buffer_address, Modify
<1>5. s3cfb_unmap_video_memory(w) = <<U>> /\ Assign(w, "x", z) = <<A>>
  BY DEF s3cfb_unmap_video_memory, Assign
<1>6. <<U>> \o (<<D>> \o <<L, P>> \o <<B>> \o <<L, Q>>) \o <<A>> \in Seq(S)
  <2> DEFINE u == <<U>>  d == <<D>>  p == <<L, P>>  b == <<B>>  q == <<L, Q>>  e == <<A>>
  <2>1. u \in Seq(S) /\ d \in Seq(S) /\ p \in Seq(S) /\ b \in Seq(S) /\ q \in Seq(S) /\ e \in Seq(S)
    BY <1>3
  <2>2. u \o (d \o p \o b \o q) \o e \in Seq(S)
    <3>. HIDE DEF u, d, p, b, q, e
    <3>. QED  BY <2>1, UnlitConcat DEF S
  <2>. QED  BY <2>2
<1>. QED  BY <1>4, <1>5, <1>6 DEF S

(* Until it is off the window has its memory, and then it is off.          *)
LEMMA ReleaseScans ==
  ASSUME NEW a, NEW w \in Win, NEW s, IsState(s), Heard(w, s), s.start = 0, Good(w, s),
         NEW x, x = Vacate(w),
         Part(x, w), NEW g, Trace(g, a, s, x)
  PROVE  \A n \in 1 .. Len(x) : Scan(w, g[n])
<1>z. PICK z \in Int : z = 0
  OBVIOUS
<1>b. PICK b \in BOOLEAN : b = FALSE
  OBVIOUS
<1> DEFINE W == s3cfb_set_window(w, b)
           U == s3cfb_unmap_video_memory(w)
           B == s3cfb_set_buffer_address(w)
           A == Assign(w, "x", z)
           Y == U \o B \o A
           S == StepsOn(w)
<1>1. Y \in Seq(Still(w))
  BY UnlitFunctions
<1>2. W \in Seq(S) /\ U \in Seq(S) /\ B \in Seq(S) /\ A \in Seq(S) /\ Y \in Seq(S)
  <2>1. <<"x", z>> \in Settings
    BY DEF Settings
  <2>2. Part(A, w)
    BY <2>1, SinglePart
  <2>3. Part(W, w)
    BY SetWindowEnds
  <2>4. Part(U, w) /\ Part(B, w)
    BY SinglePart, FunctionParts
  <2>5. Y \in Seq(S)
    BY <1>1 DEF Still
  <2>. HIDE DEF W, U, B, A, Y
  <2>. QED  BY <2>2, <2>3, <2>4, <2>5 DEF Part
<1>3. x = W \o Y
  <2>1. x = W \o U \o B \o A
    BY <1>z, <1>b DEF Vacate
  <2>2. W \in Seq(S) /\ U \in Seq(S) /\ B \in Seq(S) /\ A \in Seq(S)
    BY <1>2
  <2>3. W \o U \o B \o A = W \o (U \o B \o A)
    <3> DEFINE V == U \o B
    <3>. HIDE DEF W, U, B, A, S
    <3>1. V \in Seq(S) /\ (W \o U) \o B = W \o V
      BY ONLY <2>2
    <3>. HIDE DEF V
    <3>2. (W \o V) \o A = W \o (V \o A)
      BY ONLY <2>2, <3>1
    <3>3. W \o U \o B \o A = W \o (V \o A)
      BY <3>1, <3>2
    <3>. QED  BY <3>3 DEF V
  <2>. HIDE DEF W, U, B, A, S
  <2>. QED  BY <2>1, <2>3
<1>. HIDE DEF Y
<1>4. /\ Len(W) \in Nat /\ Len(Y) \in Nat /\ Len(x) = Len(W) + Len(Y)
      /\ Begins(g, a, s, W) /\ Goes(g, a, Len(W), Y)
  <2>1. Trace(g, a, s, W \o Y)
    BY <1>3
  <2>2. /\ Len(W) \in Nat /\ Len(Y) \in Nat /\ Len(W \o Y) = Len(W) + Len(Y)
        /\ Begins(g, a, s, W) /\ Goes(g, a, Len(W), Y)
    <3>. HIDE DEF W, S
    <3>. QED  BY <1>2, <2>1, TraceConcat
  <2>. QED  BY <1>3, <2>2
<1>5. \A n \in 0 .. Len(x) : OnlyIn(w, s, g[n])
  <2>1. x \in Seq(CallSteps(w)) /\ Len(x) \in Nat /\ Len(x) \in 0 .. Len(x)
        /\ \A k \in 1 .. Len(x) : x[k] \in StepsOn(w)
    <3>1. x \in Seq(StepsOn(w))
      BY DEF Part
    <3>2. Len(x) \in Nat
      BY <3>1, LenProperties
    <3>3. \A k \in 1 .. Len(x) : x[k] \in StepsOn(w)
      BY <3>1, ElementOfSeq
    <3>. QED  BY <3>1, <3>2, <3>3 DEF CallSteps
  <2>. QED  BY <2>1, RunOn
<1>6. CASE w \in s.missed
  <2>. HIDE DEF W
  <2>1. \A n \in 1 .. Len(x) : n \in 0 .. Len(x)
    BY <1>4
  <2>. QED  BY <1>5, <1>6, <2>1 DEF Scan, OnlyIn, Local
<1>7. CASE w \notin s.missed
  <2>1. s.power /\ Follows(w, s) /\ Based(w, s)
    BY <1>7 DEF Good, Shown, Heard
  <2>2. ASSUME NEW n \in 1 .. Len(x), n <= Len(W)
        PROVE  Backed(w, g[n])
    <3>1. PICK h : Trace(h, a, s, W) /\ \A k \in 0 .. Len(W) : h[k] = g[k]
      BY <1>4 DEF Begins
    <3>2. W \in Seq(CallSteps(w)) /\ \A k \in 1 .. Len(W) : W[k] \in StepsOn(w) \ Unmaps(w)
      <4>1. Bare(W, w)
        BY SetWindowBare
      <4>. HIDE DEF W
      <4>. QED  BY <4>1, BareSteps
    <3>3. Len(W) \in 0 .. Len(W)
      BY <1>4
    <3>4. Backed(w, s)
      BY <2>1, GoodBacked
    <3>5. \A k \in 0 .. Len(W) : Backed(w, h[k])
      <4>. HIDE DEF W
      <4>. QED  BY <3>1, <3>2, <3>3, <3>4, BackedAlong
    <3>6. n \in 0 .. Len(W)
      BY <1>4, <2>2
    <3>. QED  BY <3>1, <3>5, <3>6
  <2>3. ASSUME NEW n \in 1 .. Len(x), ~(n <= Len(W))
        PROVE  Off(w, g[n])
    <3> DEFINE m == Len(W)
               u == g[m]
    <3>1. PICK h : Trace(h, a, u, Y) /\ \A k \in 0 .. Len(Y) : h[k] = g[m + k]
      BY <1>4 DEF Goes
    <3>2. u = RunAll(a, s, W)
      <4>1. PICK hh : Trace(hh, a, s, W) /\ \A k \in 0 .. Len(W) : hh[k] = g[k]
        BY <1>4 DEF Begins
      <4>2. RunAll(a, s, W) = hh[Len(W)]
        <5>. HIDE DEF W
        <5>. QED  BY <1>4, <4>1, RunIs
      <4>3. Len(W) \in 0 .. Len(W)
        BY <1>4
      <4>. HIDE DEF W
      <4>. QED  BY <4>1, <4>2, <4>3
    <3>3. IsState(u)
      <4>1. m \in 0 .. Len(x)
        <5>. HIDE DEF W
        <5>. QED  BY <1>4
      <4>. QED  BY <1>5, <4>1 DEF OnlyIn, Local
    <3>4. Off(w, u)
      <4>1. u.win[w].enabled = b /\ Lit(w, u)
        <5>. HIDE DEF u
        <5>. QED  BY <2>1, <3>2, RunSetWindow
      <4>. HIDE DEF u
      <4>. QED  BY <1>b, <4>1 DEF Lit, Off
    <3>5. \A k \in 0 .. Len(Y) : Off(w, h[k])
      <4>. HIDE DEF u
      <4>. QED  BY <1>1, <3>1, <3>3, <3>4, OffAlong
    <3>6. n - m \in 0 .. Len(Y) /\ m + (n - m) = n
      <4>. HIDE DEF W
      <4>. QED  BY <1>4, <2>3
    <3>. HIDE DEF m
    <3>. QED  BY <3>1, <3>5, <3>6
  <2>. QED  BY <2>2, <2>3 DEF Scan, Backed
<1>. QED  BY <1>6, <1>7

(* The register with the position of the default window is not looked at.  *)
LEMMA DefaultFollows ==
  ASSUME NEW s, NEW t, t.reg = s.reg, t.lost = s.lost,
         OtherFields(s.win[Default], t.win[Default], "x"), Follows(Default, s)
  PROVE  Follows(Default, t)
<1>1. Lit(Default, t)
  BY DEF Follows, Lit, OtherFields
<1>2. Addressed(Default, s) => Addressed(Default, t)
  BY DEF Addressed, Address, OtherFields
<1>3. t.win[Default].mem = s.win[Default].mem /\ (Appears(Default, s) => Appears(Default, t))
  BY DEF Appears, Placed, Formatted, Blended, Keyed, OtherFields
<1>. QED  BY <1>1, <1>2, <1>3 DEF Follows, Pictured

(* Taking the lock before the user is discounted changes nothing.          *)
LEMMA LockedSound ==
  ASSUME NEW a, NEW w \in Win, NEW s, IsState(s), Heard(w, s), s.start = 0, NEW x, Part(x, w),
         x # <<>>, NEW g, Trace(g, a, s, x), NEW e, e = RunAll(a, s, x),
         Good(w, s) /\ s.win[w].in_use > 0 => \A n \in 1 .. Len(x) : Scan(w, g[n]),
         w # Default => Emptied(w, e),
         s.power /\ Follows(w, s) /\ Backed(w, s) => Follows(w, e) /\ Based(w, e),
         s.power => MapKept(w, s, e)
  PROVE  Sound(a, w, s, x \o Locked(DiscountStep(w)))
<1> DEFINE o == [do |-> "lock"]
           lk == <<o>>
           y == x \o lk
           u == RunAll(a, s, y)
           S == StepsOn(w)
<1>1. Part(lk, w)
  BY SinglePart
<1>2. Part(y, w) /\ u = RunAll(a, e, lk)
  <2>. HIDE DEF lk
  <2>. QED  BY <1>1, PartConcat, PartThen
<1>3. u = Step(a, e, o)
  <2>. HIDE DEF u, o
  <2>. QED  BY <1>2, RunOne
<1>4. IsState(e)
  BY PartRun DEF OnlyIn, Local
<1>5. Local(u, e) /\ u.reg = e.reg /\ u.win = e.win
  <2>1. o.do \in {"lock", "mutex_init"}
    OBVIOUS
  <2>. HIDE DEF u, o
  <2>. QED  BY <1>3, <1>4, <2>1, StepLock
<1>6. Len(lk) = 1
  OBVIOUS
<1>7. /\ x \in Seq(S) /\ lk \in Seq(S) /\ y \in Seq(S)
      /\ Len(x) \in Nat \ {0} /\ Len(y) = Len(x) + 1
  <2>1. x \in Seq(S) /\ lk \in Seq(S) /\ y \in Seq(S)
    BY <1>1, <1>2 DEF Part
  <2>. HIDE DEF S, lk
  <2>2. Len(x) \in Nat /\ Len(x) # 0 /\ Len(y) = Len(x) + Len(lk)
    BY <2>1, ConcatProperties, LenProperties, EmptySeq
  <2>. QED  BY <1>6, <2>1, <2>2
<1>8. PICK f : Trace(f, a, s, y)
  <2>. HIDE DEF y
  <2>. QED  BY <1>7, TraceExists
<1>9. \A n \in 0 .. Len(x) : f[n] = g[n]
  <2>1. Begins(f, a, s, x)
    <3>. HIDE DEF lk, S
    <3>. QED  BY <1>7, <1>8, TraceConcat
  <2>2. PICK h : Trace(h, a, s, x) /\ \A n \in 0 .. Len(x) : h[n] = f[n]
    BY <2>1 DEF Begins
  <2>3. \A n \in 0 .. Len(x) : h[n] = g[n]
    <3>0. Len(x) \in Nat
      BY <1>7
    <3>1. Within(x, x, 0)
      BY <3>0 DEF Within
    <3>2. Trace(g, a, s, x)
      OBVIOUS
    <3>. QED  BY ONLY <2>2, <3>0, <3>1, <3>2, TracesMeetFirst
  <2>. QED  BY <2>2, <2>3
<1>10. f[Len(y)] = u
  <2>. HIDE DEF y
  <2>. QED  BY <1>7, <1>8, RunIs DEF u
<1>11. g[Len(x)] = e
  BY <1>7, RunIs
<1>. HIDE DEF u, y
<1>12. ASSUME Good(w, s), s.win[w].in_use > 0
       PROVE  \A n \in 1 .. Len(y) : Scan(w, f[n])
  <2>1. Scan(w, u)
    <3>1. Scan(w, e)
      BY <1>7, <1>11, <1>12
    <3>. QED  BY <1>5, <3>1 DEF Scan, Off, Local
  <2>2. \A n \in 1 .. Len(y) : n = Len(y) \/ (n \in 1 .. Len(x) /\ n \in 0 .. Len(x))
    BY <1>7
  <2>. QED  BY <1>9, <1>10, <1>12, <2>1, <2>2
<1>13. w # Default => Emptied(w, u)
  BY <1>5 DEF Emptied
<1>14. /\ Follows(w, e) => Follows(w, u)
       /\ Based(w, e) => Based(w, u)
  <2>1. OtherFields(e.win[w], u.win[w], "in_use")
    BY <1>5 DEF OtherFields
  <2>. QED  BY <1>5, <2>1, ViewFollows DEF Local
<1>15. s.power => MapKept(w, s, u)
  BY <1>5 DEF MapKept, Matches
<1>16. Sound(a, w, s, y \o <<DiscountStep(w)>>)
  <2>1. u = RunAll(a, s, y)
    BY DEF u
  <2>. QED  BY <1>2, <1>8, <1>12, <1>13, <1>14, <1>15, <2>1, DiscountSound
<1>17. y \o <<DiscountStep(w)>> = x \o Locked(DiscountStep(w))
  <2> DEFINE d == DiscountStep(w)
             U == {o, d} \cup S
             z == <<d>>
  <2>1. x \in Seq(U) /\ lk \in Seq(U) /\ z \in Seq(U)
    BY <1>7
  <2>. HIDE DEF lk, z, U
  <2>2. (x \o lk) \o z = x \o (lk \o z)
    BY ONLY <2>1
  <2>. QED  BY <2>2 DEF y, z, lk, Locked
<1>. QED  BY <1>16, <1>17

(* The release of the default window, which stays on, is sound,            *)
LEMMA ReleaseDefault ==
  ASSUME NEW a, NEW s, IsState(s), Heard(Default, s), s.start = 0,
         NEW x, x = Assign(Default, "x", 0)
  PROVE  Sound(a, Default, s, x \o Locked(DiscountStep(Default)))
<1>z. PICK z \in Int : z = 0
  OBVIOUS
<1> DEFINE w == Default
           h == "x"
           e == RunAll(a, s, x)
<1>w. w \in Win
  BY S3cfbAssumption
<1>0. <<h, z>> \in Settings
  BY DEF Settings
<1>1. x = Assign(w, h, z)
  BY <1>z
<1>2. /\ Part(x, w) /\ OnlyIn(w, s, e) /\ e.reg = s.reg
      /\ OtherFields(s.win[w], e.win[w], h)
  <2>. HIDE DEF h, w, e
  <2>1. e = RunAll(a, s, Assign(w, h, z))
    BY <1>1 DEF e
  <2>2. /\ Part(Assign(w, h, z), w) /\ OnlyIn(w, s, e) /\ e.reg = s.reg
        /\ OtherFields(s.win[w], e.win[w], h)
    BY <1>w, <1>0, <2>1, RunSetting
  <2>. QED  BY <1>1, <2>2
<1>3. Len(x) = 1 /\ Len(x) \in Nat
  BY DEF Assign
<1>n. x # <<>>
  BY DEF Assign
<1>4. PICK g : Trace(g, a, s, x)
  BY <1>3, TraceExists
<1>5. g[Len(x)] = e
  BY <1>3, <1>4, RunIs
<1>6. /\ Follows(w, s) => Follows(w, e)
      /\ Based(w, s) => Based(w, e)
  <2>1. e.lost = s.lost
    <3>. HIDE DEF e
    <3>. QED  BY <1>2 DEF OnlyIn, Local
  <2>. HIDE DEF e
  <2>2. Based(w, s) => Based(w, e)
    BY <1>2 DEF Based, OtherFields
  <2>. QED  BY <1>2, <2>1, <2>2, DefaultFollows
<1>7. Good(w, s) => \A n \in 1 .. Len(x) : Scan(w, g[n])
  <2>. HIDE DEF e, w
  <2>1. \A n \in 1 .. Len(x) : g[n] = e
    BY ONLY <1>3, <1>5
  <2>2. Good(w, s) => Scan(w, e)
    BY <1>2, <1>6 DEF Good, Shown, Scan, Based, OnlyIn, Local
  <2>. QED  BY <2>1, <2>2
<1>8. MapKept(w, s, e)
  <2>. HIDE DEF e, w
  <2>. QED  BY <1>2 DEF MapKept, Matches, OtherFields
<1>. HIDE DEF e
<1>9. Sound(a, w, s, x \o Locked(DiscountStep(w)))
  <2>1. e = RunAll(a, s, x)
    BY DEF e
  <2>2. w # Default => Emptied(w, e)
    OBVIOUS
  <2>3. s.power /\ Follows(w, s) /\ Backed(w, s) => Follows(w, e) /\ Based(w, e)
    BY <1>6 DEF Based, Backed
  <2>4. Heard(w, s)
    OBVIOUS
  <2>. HIDE DEF w
  <2>. QED  BY <1>w, <2>4, <1>2, <1>n, <1>4, <1>7, <1>8, <2>1, <2>2, <2>3, LockedSound
<1>. QED  BY <1>9

(* so is that of an overlay window,                                        *)
LEMMA ReleaseOverlay ==
  ASSUME NEW a, NEW w \in Win, w # Default, NEW s, IsState(s), Heard(w, s), s.start = 0,
         NEW x, x = Vacate(w)
  PROVE  Sound(a, w, s, x \o Locked(DiscountStep(w)))
<1> DEFINE e == RunAll(a, s, x)
<1>1. e = RunAll(a, s, x) /\ x = Vacate(w)
  OBVIOUS
<1>. HIDE DEF e
<1>2. /\ Part(x, w) /\ Emptied(w, e) /\ x # <<>>
      /\ s.power => Lit(w, e) /\ Pictured(w, e) /\ Based(w, e) /\ MapKept(w, s, e)
  BY <1>1, ReleaseEnds
<1>3. Len(x) \in Nat
  BY <1>2, LenProperties DEF Part
<1>4. PICK g : Trace(g, a, s, x)
  BY <1>3, TraceExists
<1>5. Good(w, s) => \A n \in 1 .. Len(x) : Scan(w, g[n])
  BY <1>2, <1>4, ReleaseScans
<1>6. s.power => Follows(w, e) /\ Based(w, e)
  BY <1>2 DEF Follows
<1>. QED  BY <1>1, <1>2, <1>4, <1>5, <1>6, LockedSound

(* and so is s3cfb_release.                                                *)
LEMMA ReleaseSound ==
  ASSUME NEW a, NEW w \in Win, NEW s, IsState(s), Heard(w, s), s.start = 0
  PROVE  Sound(a, w, s, s3cfb_release(w))
<1> DEFINE d == Locked([do |-> "discount", w |-> w])
<1>d. d = Locked(DiscountStep(w))
  BY DEF DiscountStep
<1> DEFINE A == Assign(w, "x", 0)
<1>a. A \in Seq({AssignStep(w, "x", 0)})
  BY DEF Assign, AssignStep
<1>1. CASE w = Default
  <2>1. s3cfb_release(w) = (<<>> \o A) \o d
    BY <1>1 DEF s3cfb_release, s3cfb_release_window
  <2>2. <<>> \o A = A
    <3>. HIDE DEF A
    <3>. QED  BY <1>a, ConcatEmptySeq
  <2>3. Sound(a, Default, s, Assign(Default, "x", 0) \o Locked(DiscountStep(Default)))
    BY <1>1, ReleaseDefault
  <2>. QED  BY <1>1, <1>d, <2>1, <2>2, <2>3
<1>2. CASE w # Default
  <2> DEFINE V == s3cfb_set_window(w, FALSE) \o s3cfb_unmap_video_memory(w)
                  \o s3cfb_set_buffer_address(w)
  <2>1. s3cfb_release(w) = (V \o A) \o d
    BY <1>2 DEF s3cfb_release, s3cfb_release_window
  <2>2. V \o A = Vacate(w)
    BY DEF Vacate
  <2>3. Sound(a, w, s, Vacate(w) \o Locked(DiscountStep(w)))
    BY <1>2, ReleaseOverlay
  <2>. QED  BY <1>d, <2>1, <2>2, <2>3
<1>. QED  BY <1>1, <1>2

(* It is made of steps,                                                    *)
LEMMA ReleaseSteps ==
  ASSUME NEW w \in Win
  PROVE  s3cfb_release_window(w) \in Seq(StepsOn(w))
<1>z. PICK z \in Int : z = 0
  OBVIOUS
<1>b. PICK b \in BOOLEAN : b = FALSE
  OBVIOUS
<1> DEFINE h == "x"
           A == Assign(w, h, z)
           B == s3cfb_set_window(w, b)
           C == s3cfb_unmap_video_memory(w)
           D == s3cfb_set_buffer_address(w)
           U == StepsOn(w)
<1>0. <<h, z>> \in Settings
  BY DEF Settings
<1>1. A \in Seq(U)
  <2>. HIDE DEF h
  <2>. QED  BY <1>0, SinglePart DEF Part
<1>2. B \in Seq(U) /\ C \in Seq(U) /\ D \in Seq(U)
  BY SetWindowBare, SinglePart, BareFunctions DEF Part, Bare
<1>3. <<>> \in Seq(U)
  OBVIOUS
<1>4. B \o C \o D \o A \in Seq(U) /\ <<>> \o A \in Seq(U)
  <2>. HIDE DEF A, B, C, D, U
  <2>. QED  BY <1>1, <1>2, <1>3, ConcatProperties
<1>5. s3cfb_release_window(w) = IF w # Default THEN B \o C \o D \o A ELSE <<>> \o A
  BY <1>z, <1>b DEF s3cfb_release_window
<1>. QED  BY <1>4, <1>5

(* and does not end by counting a user more.                               *)
LEMMA ReleaseEndsIt ==
  ASSUME NEW w \in Win
  PROVE  ~Ends(s3cfb_release(w), CountStep(w))
<1> DEFINE x == s3cfb_release_window(w)
           d == [do |-> "discount", w |-> w]
           l == [do |-> "lock"]
           q == x \o (<<l>> \o <<d>>)
<1>1. s3cfb_release(w) = q
  BY DEF s3cfb_release, Locked
<1>2. d # CountStep(w)
  BY DEF CountStep
<1>3. q[Len(q)] = d
  <2>1. PICK S : x \in Seq(S)
    <3>1. x \in Seq(StepsOn(w))
      BY ReleaseSteps
    <3>. HIDE DEF x
    <3>. QED  BY <3>1
  <2>2. x \in Seq(S \cup {l, d}) /\ <<l>> \in Seq(S \cup {l, d}) /\ <<d>> \in Seq(S \cup {l, d})
    BY <2>1
  <2>3. Len(<<l>>) = 1 /\ Len(<<d>>) = 1 /\ <<d>>[1] = d
    OBVIOUS
  <2>. HIDE DEF x, l, d
  <2>. QED  BY <2>2, <2>3, ConcatProperties, LenProperties
<1>. QED  BY <1>1, <1>2, <1>3 DEF Ends

-----------------------------------------------------------------------------
(* The calls of a process are sound                                        *)

(* Every mode of s3cfb_blank is sound,                                     *)
LEMMA BlankSound ==
  ASSUME NEW a, NEW w \in Win, NEW s, IsState(s), Heard(w, s), s.start = 0,
         NEW mode \in {"unblank", "normal", "powerdown"}
  PROVE  Sound(a, w, s, s3cfb_blank(w, mode))
<1>1. Sound(a, w, s, s3cfb_set_window(w, TRUE)) /\ Sound(a, w, s, s3cfb_set_window(w, FALSE))
  <2>1. \A on \in BOOLEAN : Sound(a, w, s, s3cfb_set_window(w, on))
    BY SetWindowSound
  <2>. QED  BY <2>1, Zenon
<1>2. Sound(a, w, s, <<>>)
  BY NoneSmooth, SmoothSound
<1>. QED  BY <1>1, <1>2 DEF s3cfb_blank

(* panning to any row is,                                                  *)
LEMMA PanSound ==
  ASSUME NEW a, NEW w \in Win, NEW s, IsState(s), Heard(w, s), s.start = 0, NEW n \in Int, NEW rows
  PROVE  Sound(a, w, s, s3cfb_pan_display(w, n, rows))
BY PanHolds, SmoothSound

(* setting any geometry,                                                   *)
LEMMA VarSound ==
  ASSUME NEW a, NEW w \in Win, NEW s, IsState(s), Heard(w, s), s.start = 0,
         win[w].x \in Int, NEW v \in Vars, NEW ok \in BOOLEAN
  PROVE  Sound(a, w, s, fb_set_var(w, v, ok))
BY VarPaints, SmoothSound

(* moving the window,                                                      *)
LEMMA PositionSmooth ==
  ASSUME NEW a, NEW w \in Win, win[w].xres \in Int, NEW x \in Places
  PROVE  Smooth(WinPosition(w, x), w, a) /\ Holding(WinPosition(w, x), w, a)
<1> DEFINE y == Least(x, Width - win[w].xres)
           q == Assign(w, "x", y) \o s3cfb_set_window_position(w)
<1>1. y \in Int
  <2>1. x \in Int /\ Width \in Int
    BY S3cfbAssumption
  <2>2. PICK z \in Int : z = Width - win[w].xres
    BY <2>1
  <2>3. \A c, d \in Int : Least(c, d) \in Int
    BY DEF Least
  <2>4. y = Least(x, z)
    BY <2>2
  <2>. HIDE DEF y
  <2>. QED  BY <2>1, <2>3, <2>4
<1>2. Smooth(q, w, a) /\ Holding(q, w, a)
  <2>1. q = Assign(w, "x", y) \o s3cfb_set_window_position(w)
    OBVIOUS
  <2>. HIDE DEF y, q
  <2>. QED  BY <1>1, <2>1, PositionHolds
<1>3. WinPosition(w, x) = q
  BY DEF WinPosition
<1>. HIDE DEF q
<1>. QED  BY <1>2, <1>3

LEMMA PositionSound ==
  ASSUME NEW a, NEW w \in Win, NEW s, IsState(s), Heard(w, s), s.start = 0,
         win[w].xres \in Int, NEW x \in Places
  PROVE  Sound(a, w, s, WinPosition(w, x))
BY PositionSmooth, SmoothSound

(* the blending by plane,                                                  *)
LEMMA AlphaSound ==
  ASSUME NEW a, NEW w \in Win, NEW s, IsState(s), Heard(w, s), s.start = 0
  PROVE  Sound(a, w, s, SetPlaneAlpha(w))
BY AlphaHolds, SmoothSound

(* and any chroma key.                                                     *)
LEMMA ChromaSound ==
  ASSUME NEW a, NEW w \in Win, NEW s, IsState(s), Heard(w, s), s.start = 0, NEW key \in Keys
  PROVE  Sound(a, w, s, SetChroma(w, key))
BY ChromaHolds, SmoothSound

(* One user more changes no other field of a window,                       *)
LEMMA OneMoreKeeps ==
  ASSUME NEW u \in Window, NEW v, v = OneMore(u)
  PROVE  OtherFields(u, v, "in_use") /\ v.in_use = u.in_use + 1
BY DEF OneMore, OtherFields, Window

(* so that opening the window, with success or not, leaves it as it is.    *)
LEMMA OpenWindow ==
  ASSUME NEW a, NEW w \in Win, NEW s, IsState(s), NEW t,
         t.power = s.power, t.lost = s.lost, t.missed = s.missed, t.reg = s.reg,
         Refused(t, s, w, a) \/ Admitted(t, s, w, a)
  PROVE  /\ Good(w, s) => Good(w, t)
         /\ MapKept(w, s, t)
<1>1. OtherFields(s.win[w], t.win[w], "in_use") /\ (t.win[w] = s.win[w] \/ t.win[w].in_use # 0)
  <2>1. CASE t.win[w] = s.win[w]
    BY <2>1 DEF OtherFields
  <2>2. CASE Admitted(t, s, w, a)
    <3>1. s.win[w] \in Window /\ t.win[w] = OneMore(s.win[w])
      BY <2>2 DEF IsState, Admitted
    <3>2. OtherFields(s.win[w], t.win[w], "in_use") /\ t.win[w].in_use = s.win[w].in_use + 1
      BY <3>1, OneMoreKeeps
    <3>. QED  BY <3>1, <3>2 DEF Window
  <2>. QED  BY <2>1, <2>2 DEF Refused
<1>2. (Follows(w, s) => Follows(w, t)) /\ (Based(w, s) => Based(w, t))
  BY <1>1, ViewFollows
<1>3. Good(w, s) => Good(w, t)
  <2>1. Unused(w, s) => Unused(w, t)
    BY <1>1 DEF Unused
  <2>. QED  BY <1>2, <2>1 DEF Good, Shown, Off
<1>4. MapKept(w, s, t)
  BY <1>1 DEF MapKept, Matches, OtherFields
<1>. QED  BY <1>3, <1>4

(* s3cfb_open is sound.                                                    *)
LEMMA OpenSound ==
  ASSUME NEW a, NEW w \in Win, NEW s, IsState(s)
  PROVE  Sound(a, w, s, s3cfb_open(w))
<1> DEFINE o == [do |-> "lock"]
           x == <<o>>
           c == <<CountStep(w)>>
           q == x \o c
           u == RunAll(a, s, x)
           t == RunAll(a, s, q)
           S == CallSteps(w)
<1>0. s3cfb_open(w) = q
  BY DEF s3cfb_open, Locked, CountStep
<1>1. Part(x, w) /\ Len(x) = 1 /\ Len(c) = 1 /\ c[1] = CountStep(w)
  BY SinglePart
<1>2. IsCall(q, w)
  <2>. HIDE DEF x
  <2>. QED  BY <1>1, CountEnds DEF LastSteps
<1>3. x \in Seq(S) /\ c \in Seq(S) /\ q \in Seq(S)
  BY <1>1, <1>2 DEF Part, IsCall, CallSteps, LastSteps
<1>4. /\ Len(q) = 2
      /\ \A n \in 1 .. Len(q) - 1 : n = 1
  <2>1. Len(q) = Len(x) + Len(c)
    <3>. HIDE DEF x, c, S
    <3>. QED  BY <1>3, ConcatProperties
  <2>. QED  BY <1>1, <2>1
<1>5. Ends(q, CountStep(w))
  <2>1. q[2] = c[1]
    <3>. HIDE DEF x, c, S
    <3>. QED  BY <1>1, <1>3, ConcatProperties
  <2>2. q # <<>>
    <3>. HIDE DEF q
    <3>. QED  BY <1>4
  <2>. QED  BY <1>1, <1>4, <2>1, <2>2 DEF Ends
<1>6. u = Step(a, s, o)
  BY RunOne
<1>7. Local(u, s) /\ u.reg = s.reg /\ u.win = s.win
  <2>1. o.do \in {"lock", "mutex_init"}
    OBVIOUS
  <2>. HIDE DEF u, o
  <2>. QED  BY <1>6, <2>1, StepLock
<1>8. t = Step(a, u, CountStep(w))
  <2>1. t = RunAll(a, u, c)
    <3>. HIDE DEF x, c, S
    <3>. QED  BY <1>3, RunConcat
  <2>. QED  BY <2>1, RunOne
<1>9. RunAll(a, s, SubSeq(q, 1, 1)) = u
  <2>1. PICK f : Trace(f, a, s, q)
    <3>. HIDE DEF q
    <3>. QED  BY <1>4, TraceExists
  <2>2. 1 \in 0 .. Len(q) /\ 1 \in 0 .. Len(x)
    <3>. HIDE DEF q, x
    <3>. QED  BY <1>1, <1>4
  <2>3. RunAll(a, s, SubSeq(q, 1, 1)) = f[1]
    <3>. HIDE DEF q
    <3>. QED  BY <1>3, <2>1, <2>2, RunParts
  <2>4. PICK g : Trace(g, a, s, x) /\ \A n \in 0 .. Len(x) : g[n] = f[n]
    <3>1. Begins(f, a, s, x)
      <4>. HIDE DEF x, c, S
      <4>. QED  BY <1>3, <2>1, TraceConcat
    <3>. QED  BY <3>1 DEF Begins
  <2>5. g[Len(x)] = u
    <3>1. Len(x) \in Nat /\ Trace(g, a, s, x)
      BY <1>1, <2>4
    <3>2. RunAll(a, s, x) = g[Len(x)]
      <4>. HIDE DEF x
      <4>. QED  BY ONLY <3>1, RunIs
    <3>. QED  BY <3>2
  <2>. HIDE DEF x, u, q
  <2>. QED  BY <1>1, <2>2, <2>3, <2>4, <2>5
<1>. HIDE DEF u, t, q, o, x, c, S
<1>10. IsState(u)
  BY <1>7 DEF Local
<1>11. /\ t.power = u.power /\ t.lost = u.lost /\ t.missed = u.missed /\ t.reg = u.reg
       /\ Refused(t, u, w, a) \/ Admitted(t, u, w, a)
  BY <1>8, <1>10, StepCount
<1>12. (Good(w, u) => Good(w, t)) /\ MapKept(w, u, t)
  BY <1>10, <1>11, OpenWindow
<1>13. MapKept(w, s, t)
  <2>1. \A v \in Win : u.win[v] = s.win[v]
    BY <1>7
  <2>. QED  BY <1>7, <1>12 DEF MapKept, Matches, Local
<1>14. Good(w, s) => Good(w, u) /\ Fine(w, u)
  <2>1. OtherFields(s.win[w], u.win[w], "in_use")
    BY <1>7 DEF OtherFields
  <2>2. (Follows(w, s) => Follows(w, u)) /\ (Based(w, s) => Based(w, u))
    BY <1>7, <2>1, ViewFollows DEF Local
  <2>. QED  BY <1>7, <2>2 DEF Good, Shown, Fine, Scan, Based, Unused, Off, Local
<1>15. Sound(a, w, s, q)
  BY <1>2, <1>4, <1>9, <1>12, <1>13, <1>14 DEF Sound, t
<1>. QED  BY <1>0, <1>15

-----------------------------------------------------------------------------
(* Suspend and resume                                                      *)

(* The steps of suspend and resume that do not look at any window, and the *)
(* others                                                                  *)
Lull(o) ==
  \/ o.do \in {"load", "mutex_init"}
  \/ o.do \in {"store", "put"} /\ o.reg \in DisplayRegs
Restoring(o) == o.do = "restore" /\ o.w \in Win /\ o.ok \in BOOLEAN
Darkening(o) == o.do = "power" /\ o.on = FALSE /\ o.keep \in BOOLEAN

(* A step of the first kind leaves the windows and their registers alone.  *)
LEMMA StepLull ==
  ASSUME NEW a, NEW s, IsState(s), NEW o, Lull(o), NEW t, t = Step(a, s, o)
  PROVE  Local(t, s) /\ t.win = s.win /\ \A r \in Regs \ DisplayRegs : t.reg[r] = s.reg[r]
<1>1. CASE o.do \in {"load", "mutex_init"}
  BY <1>1, StepLoad, StepLock
<1>2. CASE o.do \in {"store", "put"} /\ o.reg \in DisplayRegs
  <2>1. o.reg \in Regs
    BY <1>2, RegsAre
  <2>2. PICK x : Wrote(t, s, o.reg, x)
    <3>1. CASE o.do = "store"
      BY <2>1, <3>1, StepStore
    <3>2. CASE o.do = "put"
      BY <2>1, <3>2, StepPut
    <3>. QED  BY <1>2, <3>1, <3>2
  <2>3. \A r \in Regs \ DisplayRegs : t.reg[r] = s.reg[r]
    <3>1. \A r \in Regs \ DisplayRegs : r # o.reg
      BY <1>2
    <3>. QED  BY <2>2, <3>1 DEF Wrote, Stored, IsState
  <2>. QED  BY <2>2, <2>3 DEF Wrote
<1>. QED  BY <1>1, <1>2 DEF Lull

(* A restore is a call, after which the window is no longer lost.          *)
LEMMA ExecIsRun ==
  ASSUME NEW a, NEW w \in Win, NEW s, NEW q, Part(q, w)
  PROVE  Each(LAMBDA t, x : Exec(a, t, x), s, q) = RunAll(a, s, q)
<1> DEFINE h == CHOOSE f : f = [n \in 0 .. Len(q) |-> IF n = 0 THEN s ELSE Exec(a, f[n - 1], q[n])]
           L == Len(q)
<1>1. Each(LAMBDA t, x : Exec(a, t, x), s, q) = h[L]
  BY DEF Each
<1>2. L \in Nat /\ \A n \in 1 .. L : q[n].do # "restore"
  <2>1. q \in Seq(StepsOn(w))
    BY DEF Part
  <2>2. \A o \in StepsOn(w) : o.do # "restore"
    BY StepsAre DEF StepsOn
  <2>. QED  BY <2>1, <2>2, LenProperties, ElementOfSeq
<1>3. PICK f : Trace(f, a, s, q)
  BY <1>2, TraceExists
<1>4. f = [n \in 0 .. L |-> IF n = 0 THEN s ELSE Exec(a, f[n - 1], q[n])]
  <2>1. f = [n \in 0 .. L |-> IF n = 0 THEN s ELSE Step(a, f[n - 1], q[n])]
    BY <1>3 DEF Trace
  <2>2. \A n \in 1 .. L : Step(a, f[n - 1], q[n]) = Exec(a, f[n - 1], q[n])
    BY <1>2 DEF Step
  <2>3. \A n \in 0 .. L : n = 0 \/ n \in 1 .. L
    BY <1>2
  <2>. HIDE DEF L
  <2>. QED  BY <2>1, <2>2, <2>3
<1>5. h = [n \in 0 .. L |-> IF n = 0 THEN s ELSE Exec(a, h[n - 1], q[n])]
  BY <1>4
<1>6. Trace(h, a, s, q)
  <2>2. \A n \in 1 .. L : Step(a, h[n - 1], q[n]) = Exec(a, h[n - 1], q[n])
    BY <1>2 DEF Step
  <2>3. \A n \in 0 .. L : n = 0 \/ n \in 1 .. L
    BY <1>2
  <2>4. h = [n \in 0 .. L |-> IF n = 0 THEN s ELSE Step(a, h[n - 1], q[n])]
    <3>. HIDE DEF L, h
    <3>. QED  BY <1>5, <2>2, <2>3
  <2>. QED  BY <2>4 DEF Trace
<1>7. RunAll(a, s, q) = h[L]
  <2>. HIDE DEF h
  <2>. QED  BY <1>2, <1>6, RunIs
<1>. QED  BY <1>1, <1>7

(* The run of s3cfb_late_resume for one window                             *)
RestoreRun(a, s, w, ok) == RunAll(a, s, RestoreWindow(w, ok))

(* What a run that restores a window leaves                                *)
Restored(u, s, w) ==
  /\ OnlyIn(w, s, u) /\ Lit(w, u) /\ Pictured(w, u) /\ u.win[w].enabled = TRUE
  /\ \/ u.reg[WINSHMAP] = Lights(s.reg[WINSHMAP], w, TRUE)
     \/ u.reg[WINSHMAP] = Lights(Unprotected(s.reg[WINSHMAP], w), w, TRUE)

(* It sets the window up and turns it on, as it was before the power went. *)
LEMMA RestoreEnds ==
  ASSUME NEW a, NEW w \in Win, NEW s, IsState(s), s.power, NEW ok \in BOOLEAN,
         NEW u, u = RestoreRun(a, s, w, ok)
  PROVE  Part(RestoreWindow(w, ok), w) /\ Restored(u, s, w)
<1>0. PICK on \in BOOLEAN : on = TRUE
  OBVIOUS
<1> DEFINE x == s3cfb_set_par(w, ok)
           y == s3cfb_set_window(w, on)
           t == RunAll(a, s, x)
<1>1. Smooth(x, w, a) /\ Painting(x, w, a)
  BY ParPaints
<1>2. Steady(t, s, w) /\ Pictured(w, t) /\ Part(x, w)
  BY <1>1 DEF Smooth, Painting, Bare
<1>3. Part(y, w)
  BY SetWindowEnds
<1>4. RestoreWindow(w, ok) = x \o y
  BY <1>0 DEF RestoreWindow
<1>5. u = RunAll(a, t, y)
  <2>1. u = RunAll(a, s, x \o y)
    BY <1>4 DEF RestoreRun
  <2>. HIDE DEF x, y
  <2>. QED  BY <1>2, <1>3, <2>1, PartThen
<1>6. Part(RestoreWindow(w, ok), w)
  <2>. HIDE DEF x, y
  <2>. QED  BY <1>2, <1>3, <1>4, PartConcat
<1>7. OnlyIn(w, s, u)
  BY <1>6, PartRun DEF RestoreRun
<1>8. IsState(t) /\ t.power
  <2>. HIDE DEF t
  <2>. QED  BY <1>2 DEF Steady, OnlyIn, Local
<1>9. /\ u.win[w].enabled = on /\ Lit(w, u) /\ Pictured(w, u)
      /\ u.reg[WINSHMAP] = Lights(t.reg[WINSHMAP], w, on)
  <2>1. /\ u.win[w].enabled = on /\ Lit(w, u) /\ u.reg[WINSHMAP] = Lights(t.reg[WINSHMAP], w, on)
        /\ Pictured(w, t) => Pictured(w, u)
    <3>. HIDE DEF t
    <3>. QED  BY <1>5, <1>8, RunSetWindow
  <2>. QED  BY <1>2, <2>1
<1>10. t.reg[WINSHMAP] = s.reg[WINSHMAP] \/ t.reg[WINSHMAP] = Unprotected(s.reg[WINSHMAP], w)
  BY <1>2 DEF Steady, Unprotected
<1>. HIDE DEF t, x, y
<1>. QED  BY <1>0, <1>6, <1>7, <1>9, <1>10 DEF Restored

(* What is known of a window that looks the same is still known.           *)
LEMMA ViewKeeps ==
  ASSUME NEW w \in Win, NEW s, NEW t, SameView(w, s, t)
  PROVE  /\ \A D : Shown(w, s, D) => Shown(w, t, D)
         /\ Good(w, s) => Good(w, t)
         /\ Fine(w, s) => Fine(w, t)
<1>1. (Follows(w, s) => Follows(w, t)) /\ (Based(w, s) => Based(w, t))
  <2>1. OtherFields(s.win[w], t.win[w], "in_use")
    BY DEF SameView, OtherFields
  <2>. QED  BY <2>1, ViewFollows DEF SameView
<1>2. Unused(w, s) => Unused(w, t)
  BY DEF SameView, Unused
<1>3. /\ t.reg[WINCON(w)] = s.reg[WINCON(w)]
      /\ t.reg[<<"VIDADDR", w>>] = s.reg[<<"VIDADDR", w>>]
  BY RegsDiffer DEF SameView
<1>4. Fine(w, s) => Fine(w, t)
  BY <1>2, <1>3 DEF SameView, Scan, Off, Fine
<1>5. ASSUME NEW D, Shown(w, s, D)
      PROVE  Shown(w, t, D)
  BY <1>1, <1>2, <1>3, <1>5 DEF SameView, Shown, Off
<1>. QED  BY <1>4, <1>5 DEF Good

(* No window is protected, and the channels are on with their windows: of  *)
(* those that have missed no store, once the resume has looked at them.    *)
Chan(w, s, D) ==
  /\ Protect(w) \notin s.reg[WINSHMAP]
  /\ w \notin s.missed =>
       Matches(w, s) \/ (Ch(w) \notin s.reg[WINSHMAP] /\ (~s.power \/ w \in D))
Channels(s, D) == \A w \in Win : Chan(w, s, D)
MapRight(s) == Channels(s, {})

(* What suspend and resume keep: the windows as they should be, the files  *)
(* and their counts; the resume had still to look at the windows in D, and *)
(* now at those in E                                                       *)
Calm(t, s, D, E) ==
  /\ IsState(t) /\ t.file = s.file
  /\ \A w \in Win : t.win[w].in_use = s.win[w].in_use
  /\ \A w \in Win : Shown(w, s, D) => Shown(w, t, E)
  /\ Channels(s, D) => Channels(t, E)

(* Two calm steps are calm together,                                       *)
LEMMA CalmTwice ==
  ASSUME NEW s, NEW t, NEW u, NEW D, NEW E, NEW F, Calm(t, s, D, E), Calm(u, t, E, F)
  PROVE  Calm(u, s, D, F)
BY DEF Calm

(* and the resume may look at a window again.                              *)
LEMMA CalmMore ==
  ASSUME NEW s, NEW t, NEW D, NEW E, NEW F, Calm(t, s, D, E), E \subseteq F
  PROVE  Calm(t, s, D, F)
<1>1. \A w \in Win : Shown(w, t, E) => Shown(w, t, F)
  BY DEF Shown
<1>2. Channels(t, E) => Channels(t, F)
  BY DEF Channels, Chan
<1>. QED  BY <1>1, <1>2 DEF Calm

(* A state is calm.                                                        *)
LEMMA CalmFirst ==
  ASSUME NEW s, IsState(s), NEW D
  PROVE  Calm(s, s, D, D)
BY DEF Calm

(* The steps that look at no window are calm,                              *)
LEMMA LullCalm ==
  ASSUME NEW a, NEW s, IsState(s), NEW o, Lull(o), NEW t, t = Step(a, s, o), NEW D
  PROVE  Calm(t, s, D, D) /\ t.power = s.power
<1>1. Local(t, s) /\ t.win = s.win /\ \A r \in Regs \ DisplayRegs : t.reg[r] = s.reg[r]
  BY StepLull
<1>2. t.reg[WINSHMAP] = s.reg[WINSHMAP]
  BY <1>1, RegsAre
<1>3. \A w \in Win : SameView(w, s, t)
  <2>1. \A w \in Win : RegsOf(w) \subseteq Regs \ DisplayRegs
    BY RegsAre
  <2>. QED  BY <1>1, <2>1 DEF SameView, Local
<1>4. \A w \in Win : Shown(w, s, D) => Shown(w, t, D)
  BY <1>3, ViewKeeps
<1>5. Channels(s, D) => Channels(t, D)
  BY <1>1, <1>2 DEF Channels, Chan, Matches, Local
<1>. QED  BY <1>1, <1>4, <1>5 DEF Calm, Local

(* so is the loss of power, with the registers or without them,            *)
LEMMA DarkCalm ==
  ASSUME NEW a, NEW s, IsState(s), NEW o, Darkening(o), NEW t, t = Step(a, s, o), NEW D
  PROVE  Calm(t, s, D, D)
<1>1. /\ IsState(t) /\ t.power = FALSE /\ t.file = s.file /\ t.win = s.win
      /\ o.keep => t.reg = s.reg /\ t.lost = s.lost /\ t.missed = s.missed
      /\ ~o.keep => t.reg = Reset /\ t.lost = Win /\ t.missed = {}
  <2>1. o.do = "power" /\ o.on \in BOOLEAN /\ o.on = FALSE
    BY DEF Darkening
  <2>. QED  BY <2>1, StepPower
<1>2. ASSUME NEW w \in Win, Shown(w, s, D)
      PROVE  Shown(w, t, D)
  <2>1. Unused(w, t)
    BY <1>1, <1>2 DEF Shown, Unused
  <2>2. CASE o.keep
    <3>1. OtherFields(s.win[w], t.win[w], "in_use")
      BY <1>1 DEF OtherFields
    <3>2. (Follows(w, s) => Follows(w, t)) /\ (Based(w, s) => Based(w, t))
      BY <1>1, <2>2, <3>1, ViewFollows
    <3>. QED  BY <1>1, <1>2, <2>1, <2>2, <3>2 DEF Shown, Off
  <2>3. CASE ~o.keep
    <3>1. Reset[WINCON(w)] = {} /\ Reset[<<"VIDADDR", w>>] = 0
      <4>1. WINCON(w) \in Regs /\ <<"VIDADDR", w>> \in Regs /\ <<"VIDADDR", w>> \notin FieldRegs
        <5>1. \A r \in FieldRegs : r[1] \in {"VIDCON0", "VIDINTCON0", "WINSHMAP", "WINCON"}
          BY DEF FieldRegs, VIDCON0, VIDINTCON0, WINSHMAP, WINCON
        <5>2. \A r : r = <<"VIDADDR", w>> => r[1] = "VIDADDR"
          OBVIOUS
        <5>. QED  BY <5>1, <5>2, RegsDistinct
      <4>2. WINCON(w) \in FieldRegs
        BY DEF FieldRegs
      <4>. QED  BY <4>1, <4>2 DEF Reset, Regs
    <3>. QED  BY <1>1, <2>1, <2>3, <3>1 DEF Shown, Off, Based
  <2>. QED  BY <2>2, <2>3
<1>3. Channels(s, D) => Channels(t, D)
  <2>1. Reset[WINSHMAP] = {}
    BY RegsAre DEF Reset, FieldRegs
  <2>. QED  BY <1>1, <2>1 DEF Channels, Chan, Matches
<1>. QED  BY <1>1, <1>2, <1>3 DEF Calm

(* and its return, after which the resume looks at every window;           *)
LEMMA LightCalm ==
  ASSUME NEW a, NEW s, IsState(s), NEW o, o.do = "power", o.on = TRUE, o.keep = TRUE,
         NEW t, t = Step(a, s, o)
  PROVE  Calm(t, s, {}, Win) /\ t.power
<1>1. /\ IsState(t) /\ t.power = TRUE /\ t.file = s.file /\ t.win = s.win
      /\ t.reg = s.reg /\ t.lost = s.lost /\ t.missed = s.missed
  <2>1. o.do = "power" /\ o.on \in BOOLEAN
    OBVIOUS
  <2>. QED  BY <2>1, StepPower
<1>2. ASSUME NEW w \in Win, Shown(w, s, {})
      PROVE  Shown(w, t, Win)
  <2>1. OtherFields(s.win[w], t.win[w], "in_use")
    BY <1>1 DEF OtherFields
  <2>2. (Follows(w, s) => Follows(w, t)) /\ (Based(w, s) => Based(w, t))
    BY <1>1, <2>1, ViewFollows
  <2>. QED  BY <1>1, <1>2, <2>2 DEF Shown, Off, Unused
<1>3. Channels(s, {}) => Channels(t, Win)
  BY <1>1 DEF Channels, Chan, Matches
<1>. QED  BY <1>1, <1>2, <1>3 DEF Calm

(* and so is the look at a window: one that is on is restored, and one that*)
(* is off has its channel off.                                             *)
LEMMA RestoreCalm ==
  ASSUME NEW a, NEW s, IsState(s), s.power, NEW o, Restoring(o), NEW t, t = Step(a, s, o), NEW D
  PROVE  Calm(t, s, D, D \ {o.w}) /\ t.power
<1> DEFINE w == o.w
           u == RestoreRun(a, s, o.w, o.ok)
<1>0. w \in Win /\ o.ok \in BOOLEAN /\ t = Restore(a, s, o)
  BY DEF Restoring, Step
<1>e. ASSUME NEW v \in Win \ {w}
      PROVE  /\ Shown(v, t, D) => Shown(v, t, D \ {o.w})
             /\ Chan(v, t, D) => Chan(v, t, D \ {o.w})
  BY DEF Shown, Chan
<1>1. CASE ~s.win[w].enabled
  <2>1. t = s
    BY <1>0, <1>1 DEF Restore
  <2>2. Shown(w, s, D) => Shown(w, s, D \ {w})
    <3>1. Off(w, s) /\ w \in s.lost => Follows(w, s)
      BY <1>1 DEF Off, Follows, Lit
    <3>. QED  BY <3>1 DEF Shown
  <2>3. Chan(w, s, D) => Chan(w, s, D \ {w})
    BY <1>1 DEF Chan, Matches
  <2>4. \A v \in Win : Shown(v, s, D) => Shown(v, s, D \ {w})
    BY <1>e, <2>1, <2>2
  <2>5. Channels(s, D) => Channels(s, D \ {w})
    BY <1>e, <2>1, <2>3 DEF Channels
  <2>. QED  BY <2>1, <2>4, <2>5 DEF Calm
<1>2. CASE s.win[w].enabled
  <2>1. /\ Part(RestoreWindow(w, o.ok), w) /\ OnlyIn(w, s, u) /\ Lit(w, u) /\ Pictured(w, u)
        /\ u.win[w].enabled = TRUE
        /\ \/ u.reg[WINSHMAP] = Lights(s.reg[WINSHMAP], w, TRUE)
           \/ u.reg[WINSHMAP] = Lights(Unprotected(s.reg[WINSHMAP], w), w, TRUE)
    <3>1. u = RestoreRun(a, s, w, o.ok)
      OBVIOUS
    <3>. HIDE DEF u, w
    <3>2. Part(RestoreWindow(w, o.ok), w) /\ Restored(u, s, w)
      BY <1>0, <3>1, RestoreEnds
    <3>. QED  BY <3>2 DEF Restored
  <2>2. t = [u EXCEPT !.lost = u.lost \ {w}, !.missed = u.missed \ {w}]
    <3>1. Each(LAMBDA x, y : Exec(a, x, y), s, RestoreWindow(w, o.ok)) = u
      BY <1>0, <2>1, ExecIsRun DEF RestoreRun
    <3>. QED  BY <1>0, <1>2, <3>1 DEF Restore
  <2>. HIDE DEF u
  <2>3. /\ t.reg = u.reg /\ t.win = u.win /\ t.power = u.power /\ t.file = u.file
        /\ t.lost = u.lost \ {w} /\ t.missed = u.missed \ {w} /\ IsState(t)
    BY <2>1, <2>2 DEF OnlyIn, Local, IsState
  <2>4. \A v \in Win \ {w} : SameView(v, s, t)
    BY <2>1, <2>3 DEF OnlyIn, Local, SameView
  <2>5. \A v \in Win : t.win[v].in_use = s.win[v].in_use
    BY <2>1, <2>3, <2>4 DEF OnlyIn, SameView
  <2>6. Shown(w, s, D) => Shown(w, t, D \ {w})
    <3>1. Follows(w, t) /\ Based(w, t)
      <4>1. OtherFields(u.win[w], t.win[w], "in_use")
        BY <2>3 DEF OtherFields
      <4>2. Lit(w, t) /\ Addressed(w, t) /\ t.win[w].mem = u.win[w].mem
        BY <2>1, <2>3 DEF Lit, Pictured, Addressed
      <4>3. Appears(w, u) => Appears(w, t)
        BY <2>3 DEF Appears, Placed, Formatted, Blended, Keyed
      <4>4. Pictured(w, t)
        BY <2>1, <4>2, <4>3 DEF Pictured
      <4>5. Based(w, t)
        BY <4>2 DEF Addressed, Address, Based
      <4>. QED  BY <4>2, <4>4, <4>5 DEF Follows
    <3>2. Unused(w, s) => Unused(w, t)
      BY <1>0, <1>2, <2>5 DEF Unused
    <3>. QED  BY <3>1, <3>2 DEF Shown
  <2>7. \A v \in Win : Shown(v, s, D) => Shown(v, t, D \ {w})
    <3>1. \A v \in Win \ {w} : Shown(v, s, D) => Shown(v, t, D)
      BY <2>4, ViewKeeps
    <3>. QED  BY <1>e, <2>6, <3>1
  <2>8. Channels(s, D) => Channels(t, D \ {w})
    <3>1. \A v, x \in Win : Ch(v) # Protect(x) /\ (v # x => Ch(v) # Ch(x))
      BY DEF Ch, Protect
    <3>2. /\ \A v \in Win : Protect(v) \in t.reg[WINSHMAP] => Protect(v) \in s.reg[WINSHMAP]
          /\ \A v \in Win \ {w} : Ch(v) \in t.reg[WINSHMAP] <=> Ch(v) \in s.reg[WINSHMAP]
          /\ Ch(w) \in t.reg[WINSHMAP]
      BY <1>0, <2>1, <2>3, <3>1 DEF Lights, Unprotected
    <3>3. Matches(w, t)
      BY <2>1, <2>3, <3>2 DEF Matches
    <3>4. ASSUME NEW v \in Win \ {w}, Chan(v, s, D)
          PROVE  Chan(v, t, D)
      BY <2>4, <3>2, <3>4 DEF SameView, Chan, Matches
    <3>5. Chan(w, s, D) => Chan(w, t, D \ {w})
      BY <1>0, <3>2, <3>3 DEF Chan
    <3>. QED  BY <1>e, <3>4, <3>5 DEF Channels
  <2>9. t.power = s.power /\ t.file = s.file
    BY <2>1, <2>3 DEF OnlyIn, Local
  <2>. QED  BY <2>3, <2>5, <2>7, <2>8, <2>9 DEF Calm
<1>. QED  BY <1>1, <1>2

(* What is left of a suspend, and what is left of a resume                 *)
Dims(q) == \E S : q \in Seq(S) /\ \A o \in S : Lull(o) \/ Darkening(o)
Wakes(q) == \E S : q \in Seq(S) /\ \A o \in S : Lull(o) \/ Restoring(o)
Handles(s, q) == Dims(q) \/ (s.power /\ Wakes(q))

(* The windows that the steps of q from the n-th on look at                *)
Due(q, n) == {q[k].w : k \in {m \in n + 1 .. Len(q) : q[m].do = "restore"}}

(* With each step there is at most its own window less to look at,         *)
LEMMA DueStep ==
  ASSUME NEW q, Len(q) \in Nat, NEW n \in 0 .. Len(q) - 1
  PROVE  /\ Due(q, n) \ {q[n + 1].w} \subseteq Due(q, n + 1)
         /\ q[n + 1].do # "restore" => Due(q, n) \subseteq Due(q, n + 1)
<1>1. \A m \in n + 1 .. Len(q) : m = n + 1 \/ m \in n + 1 + 1 .. Len(q)
  OBVIOUS
<1>. QED  BY <1>1, Zenon DEF Due

(* none at the end,                                                        *)
LEMMA DueLast ==
  ASSUME NEW q, Len(q) \in Nat
  PROVE  Due(q, Len(q)) = {}
<1>1. Len(q) + 1 .. Len(q) = {}
  OBVIOUS
<1>. QED  BY <1>1, Zenon DEF Due

(* When nothing is left to do, there is no window to look at.              *)
LEMMA NoneDue == Due(<<>>, 0) = {}
<1>1. Len(<<>>) = 0
  OBVIOUS
<1>. QED  BY <1>1, DueLast

(* What is left of the steps looks at the windows that are left.           *)
LEMMA DueRest ==
  ASSUME NEW S, NEW q \in Seq(S), NEW k \in 2 .. Len(q), NEW r, r = SubSeq(q, k, Len(q))
  PROVE  Due(q, k - 1) \subseteq Due(r, 0)
<1>0. Len(q) \in Nat /\ k \in Int /\ Len(q) \in Int /\ \A n \in k .. Len(q) : q[n] \in S
  BY LenProperties, ElementOfSeq
<1>1. Len(r) = Len(q) - k + 1 /\ \A n \in 1 .. Len(r) : r[n] = q[k + n - 1]
  BY <1>0, SubSeqProperties
<1>2. ASSUME NEW m \in k - 1 + 1 .. Len(q), q[m].do = "restore"
      PROVE  q[m].w \in Due(r, 0)
  <2> DEFINE n == m - k + 1
  <2>1. n \in 0 + 1 .. Len(r) /\ n \in 1 .. Len(r) /\ k + n - 1 = m
    BY <1>0, <1>1
  <2>. HIDE DEF n
  <2>2. r[n] = q[m]
    BY <1>1, <2>1
  <2>. QED  BY <1>2, <2>1, <2>2 DEF Due
<1>. QED  BY <1>2 DEF Due

(* What is left of a suspend is calm at every step,                        *)
LEMMA DimsCalm ==
  ASSUME NEW a, NEW s, IsState(s), NEW q, Dims(q), NEW f, Trace(f, a, s, q)
  PROVE  \A n \in 0 .. Len(q) : Calm(f[n], s, {}, {})
<1>0. PICK S : q \in Seq(S) /\ \A o \in S : Lull(o) \/ Darkening(o)
  BY DEF Dims
<1>l. Len(q) \in Nat /\ \A k \in 1 .. Len(q) : q[k] \in S
  BY <1>0, LenProperties, ElementOfSeq
<1> DEFINE T == {n \in Nat : Calm(f[n], s, {}, {})}
<1>1. f[0] = s /\ \A n \in 1 .. Len(q) : f[n] = Step(a, f[n - 1], q[n])
  BY <1>l, TraceSteps
<1>2. 0 \in T
  BY <1>1, CalmFirst
<1>3. ASSUME NEW n \in 0 .. Len(q) - 1, n \in T
      PROVE  n + 1 \in T
  <2>0. n + 1 \in 1 .. Len(q) /\ n + 1 - 1 = n /\ n + 1 \in Nat
    BY <1>l
  <2> DEFINE u == f[n]
             t == f[n + 1]
             o == q[n + 1]
  <2>1. t = Step(a, u, o) /\ (Lull(o) \/ Darkening(o)) /\ Calm(u, s, {}, {})
    BY <1>0, <1>l, <1>1, <1>3, <2>0
  <2>. HIDE DEF t, u, o
  <2>2. IsState(u)
    BY <2>1 DEF Calm
  <2>3. Calm(t, u, {}, {})
    BY <2>1, <2>2, LullCalm, DarkCalm
  <2>4. Calm(t, s, {}, {})
    BY <2>1, <2>3, CalmTwice
  <2>. QED  BY <2>0, <2>4 DEF t
<1>4. \A n \in 0 .. Len(q) : n \in T
  <2>. HIDE DEF T
  <2>. QED  BY <1>l, <1>2, <1>3, CountUp
<1>. QED  BY <1>4

(* and so is what is left of a resume,                                     *)
LEMMA WakesCalm ==
  ASSUME NEW a, NEW s, IsState(s), s.power, NEW q, Wakes(q), NEW f, Trace(f, a, s, q)
  PROVE  \A n \in 0 .. Len(q) : Calm(f[n], s, Due(q, 0), Due(q, n)) /\ f[n].power
<1>0. PICK S : q \in Seq(S) /\ \A o \in S : Lull(o) \/ Restoring(o)
  BY DEF Wakes
<1>l. Len(q) \in Nat /\ \A k \in 1 .. Len(q) : q[k] \in S
  BY <1>0, LenProperties, ElementOfSeq
<1> DEFINE T == {n \in Nat : Calm(f[n], s, Due(q, 0), Due(q, n)) /\ f[n].power}
<1>1. f[0] = s /\ \A n \in 1 .. Len(q) : f[n] = Step(a, f[n - 1], q[n])
  <2>1. Len(q) \in Nat /\ Trace(f, a, s, q)
    BY <1>l
  <2>. QED  BY ONLY <2>1, TraceSteps
<1>2. 0 \in T
  BY <1>1, CalmFirst
<1>3. ASSUME NEW n \in 0 .. Len(q) - 1, n \in T
      PROVE  n + 1 \in T
  <2>0. n + 1 \in 1 .. Len(q) /\ n + 1 - 1 = n /\ n + 1 \in Nat
    BY <1>l
  <2> DEFINE u == f[n]
             t == f[n + 1]
             o == q[n + 1]
             D == Due(q, n)
             E == Due(q, n + 1)
  <2>1. t = Step(a, u, o) /\ (Lull(o) \/ Restoring(o)) /\ Calm(u, s, Due(q, 0), D) /\ u.power
    BY <1>0, <1>l, <1>1, <1>3, <2>0
  <2>e. D \ {o.w} \subseteq E /\ (o.do # "restore" => D \subseteq E)
    BY <1>l, DueStep
  <2>. HIDE DEF t, u, o, D, E
  <2>2. IsState(u)
    BY <2>1 DEF Calm
  <2>3. Calm(t, u, D, E) /\ t.power
    <3>1. CASE Lull(o)
      <4>1. Calm(t, u, D, D) /\ t.power = u.power
        BY <2>1, <2>2, <3>1, LullCalm
      <4>2. o.do # "restore"
        BY <3>1 DEF Lull
      <4>. QED  BY <2>1, <2>e, <4>1, <4>2, CalmMore
    <3>2. CASE Restoring(o)
      <4>1. Calm(t, u, D, D \ {o.w}) /\ t.power
        BY <2>1, <2>2, <3>2, RestoreCalm
      <4>. QED  BY <2>e, <4>1, CalmMore
    <3>. QED  BY <2>1, <3>1, <3>2
  <2>4. Calm(t, s, Due(q, 0), E)
    BY <2>1, <2>3, CalmTwice
  <2>. QED  BY <2>0, <2>3, <2>4 DEF t, E
<1>4. \A n \in 0 .. Len(q) : n \in T
  <2>. HIDE DEF T
  <2>. QED  BY <1>l, <1>2, <1>3, CountUp
<1>. QED  BY <1>4

(* A suspend looks at no window,                                           *)
LEMMA DimsDue ==
  ASSUME NEW q, Dims(q)
  PROVE  Due(q, 0) = {}
<1>0. PICK S : q \in Seq(S) /\ \A o \in S : Lull(o) \/ Darkening(o)
  BY DEF Dims
<1>1. \A k \in 0 + 1 .. Len(q) : q[k] \in S
  BY <1>0, LenProperties, ElementOfSeq
<1>2. \A o \in S : o.do # "restore"
  BY <1>0 DEF Lull, Darkening
<1>. QED  BY <1>1, <1>2 DEF Due

(* and the whole of either is calm.                                        *)
LEMMA HandlesCalm ==
  ASSUME NEW a, NEW s, IsState(s), NEW q, Handles(s, q)
  PROVE  Calm(RunAll(a, s, q), s, Due(q, 0), {})
<1>1. Len(q) \in Nat
  BY LenProperties DEF Handles, Dims, Wakes
<1>2. PICK f : Trace(f, a, s, q)
  BY <1>1, TraceExists
<1>3. RunAll(a, s, q) = f[Len(q)] /\ Len(q) \in 0 .. Len(q)
  BY <1>1, <1>2, RunIs
<1>4. CASE Dims(q)
  <2>1. Calm(f[Len(q)], s, {}, {})
    BY <1>2, <1>3, <1>4, DimsCalm
  <2>. QED  BY <1>3, <1>4, <2>1, DimsDue
<1>5. CASE s.power /\ Wakes(q)
  <2>1. Calm(f[Len(q)], s, Due(q, 0), Due(q, Len(q)))
    BY <1>2, <1>3, <1>5, WakesCalm
  <2>. QED  BY <1>1, <1>3, <2>1, DueLast
<1>. QED  BY <1>4, <1>5 DEF Handles

(* What is asked of a suspend or a resume                                  *)
Managed(a, s, q) ==
  /\ Calm(RunAll(a, s, q), s, {}, {})
  /\ \A k \in 2 .. Len(q) :
       LET t == RunAll(a, s, SubSeq(q, 1, k - 1))
           r == SubSeq(q, k, Len(q))
       IN  Calm(t, s, {}, Due(r, 0)) /\ Handles(t, r)

(* What a suspend is made of does what is asked of it,                     *)
LEMMA DimsManaged ==
  ASSUME NEW a, NEW s, IsState(s), NEW q, Dims(q)
  PROVE  Managed(a, s, q)
<1>0. PICK S : q \in Seq(S) /\ \A o \in S : Lull(o) \/ Darkening(o)
  BY DEF Dims
<1>l. Len(q) \in Nat /\ \A k \in 1 .. Len(q) : q[k] \in S
  BY <1>0, LenProperties, ElementOfSeq
<1>1. PICK f : Trace(f, a, s, q)
  BY <1>l, TraceExists
<1>2. \A n \in 0 .. Len(q) : Calm(f[n], s, {}, {})
  BY <1>1, DimsCalm
<1>3. ASSUME NEW k \in 2 .. Len(q), NEW r, r = SubSeq(q, k, Len(q))
      PROVE  /\ Calm(RunAll(a, s, SubSeq(q, 1, k - 1)), s, {}, Due(r, 0))
             /\ Dims(r)
  <2>1. k - 1 \in 0 .. Len(q) /\ k \in Int /\ Len(q) \in Int
    BY <1>l
  <2>2. RunAll(a, s, SubSeq(q, 1, k - 1)) = f[k - 1]
    BY <1>0, <1>1, <2>1, RunParts
  <2>3. \A n \in k .. Len(q) : q[n] \in S
    BY <1>l
  <2>4. r \in Seq(S)
    BY <1>3, <2>1, <2>3, SubSeqProperties
  <2>5. Dims(r)
    BY <1>0, <2>4 DEF Dims
  <2>. QED  BY <1>2, <2>1, <2>2, <2>5, DimsDue
<1>4. Calm(RunAll(a, s, q), s, {}, {})
  <2>1. Calm(RunAll(a, s, q), s, Due(q, 0), {})
    BY HandlesCalm DEF Handles
  <2>. QED  BY <2>1, DimsDue
<1>. QED  BY <1>3, <1>4 DEF Managed, Handles

(* and so does what a resume is made of, that turns the power on first and *)
(* then looks at every window.                                             *)
LEMMA WakesManaged ==
  ASSUME NEW a, NEW s, IsState(s), NEW o, o.do = "power", o.on = TRUE, o.keep = TRUE,
         NEW r, Wakes(r), Win \subseteq Due(<<o>> \o r, 0)
  PROVE  Managed(a, s, <<o>> \o r)
<1>0. PICK S : r \in Seq(S) /\ \A p \in S : Lull(p) \/ Restoring(p)
  BY DEF Wakes
<1> DEFINE x == <<o>>
           q == x \o r
           R == S \cup {o}
<1>l. /\ Len(x) = 1 /\ x \in Seq(R) /\ r \in Seq(R) /\ q \in Seq(R)
      /\ Len(r) \in Nat /\ Len(q) = 1 + Len(r) /\ Len(q) \in Nat
      /\ \A k \in 2 .. Len(q) : q[k] \in S /\ q[k] = r[k - 1]
  <2>1. Len(x) = 1 /\ x \in Seq(R) /\ r \in Seq(R)
    BY <1>0
  <2>2. Len(r) \in Nat /\ \A k \in 1 .. Len(r) : r[k] \in S
    BY <1>0, LenProperties, ElementOfSeq
  <2>3. /\ q \in Seq(R) /\ Len(q) = Len(x) + Len(r)
        /\ \A k \in 1 .. Len(x) + Len(r) : q[k] = IF k <= Len(x) THEN x[k] ELSE r[k - Len(x)]
    <3>. HIDE DEF x, R
    <3>. QED  BY ONLY <2>1, ConcatProperties
  <2>. HIDE DEF x, q, R
  <2>4. \A k \in 2 .. Len(q) : k \in 1 .. Len(x) + Len(r) /\ ~(k <= Len(x)) /\ k - Len(x) \in 1 .. Len(r)
    BY <2>1, <2>2, <2>3
  <2>. QED  BY <2>1, <2>2, <2>3, <2>4
<1>. HIDE DEF R
<1>f. q[1] = o
  <2>1. q[1] = x[1]
    <3>. HIDE DEF x
    <3>. QED  BY <1>l, ConcatProperties
  <2>. QED  BY <2>1
<1>d. Win \subseteq Due(q, 1) /\ Due(q, 1) \subseteq Due(r, 0)
  <2>. HIDE DEF q, x
  <2>1. 0 \in 0 .. Len(q) - 1 /\ 0 + 1 = 1
    BY <1>l
  <2>2. Due(q, 0) \subseteq Due(q, 1)
    BY <1>l, <1>f, <2>1, DueStep
  <2>3. ASSUME NEW k \in 1 + 1 .. Len(q), q[k].do = "restore"
        PROVE  q[k].w \in Due(r, 0)
    <3>1. k - 1 \in 0 + 1 .. Len(r) /\ q[k] = r[k - 1]
      BY <1>l
    <3>. QED  BY <2>3, <3>1 DEF Due
  <2>4. Due(q, 1) \subseteq Due(r, 0)
    BY <2>3 DEF Due
  <2>5. Win \subseteq Due(q, 0)
    BY DEF q, x
  <2>. QED  BY <2>2, <2>4, <2>5
<1>1. PICK f : Trace(f, a, s, q)
  <2>. HIDE DEF q
  <2>. QED  BY <1>l, TraceExists
<1>2. Goes(f, a, 1, r)
  <2>1. Goes(f, a, Len(x), r)
    <3>. HIDE DEF x
    <3>. QED  BY <1>l, <1>1, TraceConcat
  <2>. QED  BY <1>l, <2>1
<1>3. f[1] = Step(a, s, o)
  <2>1. f[0] = s /\ \A n \in 1 .. Len(q) : f[n] = Step(a, f[n - 1], q[n])
    <3>. HIDE DEF q
    <3>. QED  BY <1>l, <1>1, TraceSteps
  <2>3. 1 \in 1 .. Len(q) /\ 1 - 1 = 0
    <3>. HIDE DEF q
    <3>. QED  BY <1>l
  <2>. HIDE DEF q
  <2>. QED  BY <1>f, <2>1, <2>3
<1>4. Calm(f[1], s, {}, Due(r, 0)) /\ f[1].power
  <2> DEFINE t == f[1]
  <2>1. t = Step(a, s, o)
    BY <1>3
  <2>. HIDE DEF t, q
  <2>2. Calm(t, s, {}, Win) /\ t.power
    BY <2>1, LightCalm
  <2>3. Win \subseteq Due(r, 0)
    BY <1>d
  <2>. QED  BY <2>2, <2>3, CalmMore DEF t
<1>5. PICK h : Trace(h, a, f[1], r) /\ \A n \in 0 .. Len(r) : h[n] = f[1 + n]
  BY <1>2 DEF Goes
<1>6. \A n \in 0 .. Len(r) : Calm(h[n], s, {}, Due(r, n)) /\ h[n].power
  <2> DEFINE t == f[1]
  <2>1. IsState(t) /\ t.power /\ Trace(h, a, t, r) /\ Calm(t, s, {}, Due(r, 0))
    BY <1>4, <1>5 DEF Calm
  <2>. HIDE DEF t
  <2>2. \A n \in 0 .. Len(r) : Calm(h[n], t, Due(r, 0), Due(r, n)) /\ h[n].power
    BY <2>1, WakesCalm
  <2>. QED  BY <2>1, <2>2, CalmTwice
<1>7. ASSUME NEW n \in 1 .. Len(q)
      PROVE  Calm(f[n], s, {}, Due(r, n - 1)) /\ f[n].power
  <2>. HIDE DEF q, x
  <2>1. n - 1 \in 0 .. Len(r) /\ 1 + (n - 1) = n
    BY <1>l
  <2>. QED  BY <1>5, <1>6, <2>1
<1>8. ASSUME NEW k \in 2 .. Len(q), NEW e, e = SubSeq(q, k, Len(q))
      PROVE  /\ Calm(RunAll(a, s, SubSeq(q, 1, k - 1)), s, {}, Due(e, 0))
             /\ Handles(RunAll(a, s, SubSeq(q, 1, k - 1)), e)
  <2>. HIDE DEF q, x
  <2>1. k - 1 \in 0 .. Len(q) /\ k - 1 \in 1 .. Len(q) /\ k \in Int /\ Len(q) \in Int
    BY <1>l
  <2>2. RunAll(a, s, SubSeq(q, 1, k - 1)) = f[k - 1]
    BY <1>l, <1>1, <2>1, RunParts
  <2>3. \A n \in k .. Len(q) : q[n] \in S
    BY <1>l
  <2>4. e \in Seq(S)
    BY <1>8, <2>1, <2>3, SubSeqProperties
  <2>5. Wakes(e)
    BY <1>0, <2>4 DEF Wakes
  <2>6. Due(r, k - 1 - 1) \subseteq Due(q, k - 1)
    <3>1. ASSUME NEW m \in k - 1 - 1 + 1 .. Len(r), r[m].do = "restore"
          PROVE  r[m].w \in Due(q, k - 1)
      <4>1. m + 1 \in k - 1 + 1 .. Len(q) /\ m + 1 \in 2 .. Len(q) /\ m + 1 - 1 = m
        BY <1>l
      <4>2. q[m + 1] = r[m]
        BY <1>l, <4>1
      <4>. QED  BY <3>1, <4>1, <4>2 DEF Due
    <3>. QED  BY <3>1 DEF Due
  <2>7. Due(q, k - 1) \subseteq Due(e, 0)
    BY <1>l, <1>8, DueRest
  <2>8. Calm(f[k - 1], s, {}, Due(r, k - 1 - 1)) /\ f[k - 1].power
    BY <1>7, <2>1
  <2>9. Calm(f[k - 1], s, {}, Due(e, 0))
    BY <2>6, <2>7, <2>8, CalmMore
  <2>. QED  BY <2>2, <2>5, <2>8, <2>9 DEF Handles
<1>9. Calm(RunAll(a, s, q), s, {}, {})
  <2>. HIDE DEF q, x
  <2>1. RunAll(a, s, q) = f[Len(q)] /\ Len(q) \in 1 .. Len(q) /\ Len(q) - 1 = Len(r)
    BY <1>l, <1>1, RunIs
  <2>2. Due(r, Len(r)) = {}
    BY <1>l, DueLast
  <2>. QED  BY <1>7, <2>1, <2>2
<1>10. Managed(a, s, q)
  <2>. HIDE DEF q
  <2>. QED  BY <1>8, <1>9 DEF Managed
<1>. QED  BY <1>10

(* Pieces of a resume in turn are a piece of one,                          *)
LEMMA WakesConcat ==
  ASSUME NEW x, Wakes(x), NEW y, Wakes(y)
  PROVE  Wakes(x \o y)
<1>1. PICK S : x \in Seq(S) /\ \A o \in S : Lull(o) \/ Restoring(o)
  BY DEF Wakes
<1>2. PICK R : y \in Seq(R) /\ \A o \in R : Lull(o) \/ Restoring(o)
  BY DEF Wakes
<1> DEFINE U == S \cup R
<1>3. x \in Seq(U) /\ y \in Seq(U) /\ \A o \in U : Lull(o) \/ Restoring(o)
  BY <1>1, <1>2
<1>. HIDE DEF U
<1>4. x \o y \in Seq(U)
  BY <1>3, ConcatProperties
<1>. QED  BY <1>3, <1>4 DEF Wakes

(* the steps that its functions are made of are,                           *)
LEMMA WakesOnes ==
  /\ \A r \in DisplayRegs : \A x, y : Wakes(Modify(r, x, y))
  /\ \A r \in DisplayRegs : \A x : Wakes(Put(r, x))
<1>1. ASSUME NEW r \in DisplayRegs, NEW x, NEW y
      PROVE  Wakes(Modify(r, x, y))
  <2> DEFINE o == Load(r)
             p == Store(r, x, y)
  <2>1. Lull(o) /\ Lull(p)
    BY DEF Lull, Load, Store
  <2> DEFINE S == {o, p}
             q == <<o, p>>
  <2>2. q \in Seq(S) /\ \A e \in S : Lull(e)
    <3>. HIDE DEF o, p
    <3>. QED  BY <2>1
  <2>3. Wakes(q)
    <3>. HIDE DEF q, S
    <3>. QED  BY <2>2 DEF Wakes
  <2>. QED  BY <2>3 DEF Modify
<1>2. ASSUME NEW r \in DisplayRegs, NEW x
      PROVE  Wakes(Put(r, x))
  <2> DEFINE o == [do |-> "put", reg |-> r, v |-> x]
  <2>1. Lull(o)
    BY DEF Lull
  <2> DEFINE S == {o}
             q == <<o>>
  <2>2. q \in Seq(S) /\ \A e \in S : Lull(e)
    <3>. HIDE DEF o
    <3>. QED  BY <2>1
  <2>3. Wakes(q)
    <3>. HIDE DEF q, S
    <3>. QED  BY <2>2 DEF Wakes
  <2>. QED  BY <2>3 DEF Put
<1>. QED  BY <1>1, <1>2

(* its functions,                                                          *)
LEMMA DisplayWakes ==
  /\ Wakes(s3cfb_init_global) /\ Wakes(s3cfb_set_clock) /\ Wakes(s3cfb_display_on)
  /\ \A on \in BOOLEAN : Wakes(s3cfb_set_vsync_interrupt(on)) /\ Wakes(s3cfb_set_global_interrupt(on))
<1>0. /\ VIDCON0 \in DisplayRegs /\ VIDINTCON0 \in DisplayRegs /\ <<"VIDCON1">> \in DisplayRegs
      /\ <<"VIDTCON0">> \in DisplayRegs /\ <<"VIDTCON1">> \in DisplayRegs
      /\ <<"VIDTCON2">> \in DisplayRegs
  BY DEF DisplayRegs
<1>1. Wakes(s3cfb_set_output) /\ Wakes(s3cfb_set_display_mode) /\ Wakes(s3cfb_set_clock)
      /\ Wakes(s3cfb_display_on)
  BY <1>0, WakesOnes DEF s3cfb_set_output, s3cfb_set_display_mode, s3cfb_set_clock, s3cfb_display_on
<1>2. Wakes(s3cfb_set_polarity) /\ Wakes(s3cfb_set_timing) /\ Wakes(s3cfb_set_lcd_size)
  BY <1>0, WakesOnes, WakesConcat DEF s3cfb_set_polarity, s3cfb_set_timing, s3cfb_set_lcd_size
<1>3. Wakes(s3cfb_init_global)
  <2> DEFINE o == [do |-> "mutex_init"]
             x == <<o>>
             S == {o}
  <2>1. Lull(o)
    BY DEF Lull
  <2>2. x \in Seq(S) /\ \A e \in S : Lull(e)
    <3>. HIDE DEF o
    <3>. QED  BY <2>1
  <2>3. Wakes(x)
    <3>. HIDE DEF x, S
    <3>. QED  BY <2>2 DEF Wakes
  <2>. HIDE DEF x
  <2>4. Wakes(x \o s3cfb_set_output \o s3cfb_set_display_mode \o s3cfb_set_polarity
              \o s3cfb_set_timing \o s3cfb_set_lcd_size)
    BY <1>1, <1>2, <2>3, WakesConcat
  <2>. QED  BY <2>4 DEF s3cfb_init_global, x
<1>4. ASSUME NEW on \in BOOLEAN
      PROVE  Wakes(s3cfb_set_vsync_interrupt(on)) /\ Wakes(s3cfb_set_global_interrupt(on))
  BY <1>0, WakesOnes DEF s3cfb_set_vsync_interrupt, s3cfb_set_global_interrupt
<1>. QED  BY <1>1, <1>3, <1>4

(* and the loop over the windows.                                          *)
LEMMA RestoresWake ==
  ASSUME NEW ok \in BOOLEAN
  PROVE  Wakes([n \in 1 .. NrWins |-> [do |-> "restore", w |-> (Default + n - 1) % NrWins, ok |-> ok]])
<1> DEFINE op(n) == [do |-> "restore", w |-> (Default + n - 1) % NrWins, ok |-> ok]
           S == {op(n) : n \in 1 .. NrWins}
           q == [n \in 1 .. NrWins |-> op(n)]
<1>1. q \in Seq(S)
  <2>1. NrWins \in Nat /\ q \in [1 .. NrWins -> S]
    BY S3cfbAssumption
  <2>. HIDE DEF q, S
  <2>. QED  BY <2>1
<1>2. ASSUME NEW o \in S
      PROVE  Restoring(o)
  <2>1. PICK n \in 1 .. NrWins : o = op(n)
    OBVIOUS
  <2>2. (Default + n - 1) % NrWins \in Win
    BY S3cfbAssumption DEF Win
  <2>. QED  BY <2>1, <2>2 DEF Restoring
<1>3. Wakes(q)
  <2>. HIDE DEF q, S
  <2>. QED  BY <1>1, <1>2 DEF Wakes
<1>. QED  BY <1>3

(* The loop looks at every window.                                         *)
LEMMA RestoresAll ==
  ASSUME NEW ok,
         NEW q, q = [n \in 1 .. NrWins |-> [do |-> "restore", w |-> (Default + n - 1) % NrWins, ok |-> ok]]
  PROVE  Win \subseteq Due(q, 0)
<1>0. NrWins \in Nat \ {0} /\ Default \in 0 .. NrWins - 1 /\ Default \in Nat
  BY S3cfbAssumption DEF Win
<1>1. Len(q) = NrWins
  BY <1>0
<1>2. ASSUME NEW w \in Win
      PROVE  w \in Due(q, 0)
  <2>1. w \in 0 .. NrWins - 1
    BY DEF Win
  <2>2. PICK n \in 1 .. NrWins : Default + n - 1 = w \/ Default + n - 1 = w + NrWins
    <3>1. CASE Default <= w
      <4>1. w - Default + 1 \in 1 .. NrWins /\ Default + (w - Default + 1) - 1 = w
        BY <1>0, <2>1, <3>1
      <4>. QED  BY <4>1
    <3>2. CASE ~(Default <= w)
      <4>1. w - Default + 1 + NrWins \in 1 .. NrWins
            /\ Default + (w - Default + 1 + NrWins) - 1 = w + NrWins
        BY <1>0, <2>1, <3>2
      <4>. QED  BY <4>1
    <3>. QED  BY <3>1, <3>2
  <2>3. (Default + n - 1) % NrWins = w
    <3>1. \A m \in Nat \ {0} : \A v \in 0 .. m - 1 : v % m = v /\ (v + m) % m = v
      OBVIOUS
    <3>. QED  BY <1>0, <2>1, <2>2, <3>1
  <2>4. q[n].do = "restore" /\ q[n].w = w
    BY <2>3
  <2>5. n \in 0 + 1 .. Len(q)
    BY <1>0, <1>1
  <2>. QED  BY <2>4, <2>5 DEF Due
<1>. QED  BY <1>2

(* Steps in turn look at the windows of both.                              *)
LEMMA DueConcat ==
  ASSUME NEW S, NEW x \in Seq(S), NEW R, NEW y \in Seq(R),
         Win \subseteq Due(x, 0) \/ Win \subseteq Due(y, 0)
  PROVE  Win \subseteq Due(x \o y, 0)
<1> DEFINE q == x \o y
           U == S \cup R
<1>1. x \in Seq(U) /\ y \in Seq(U)
  OBVIOUS
<1>2. /\ Len(x) \in Nat /\ Len(y) \in Nat /\ Len(q) = Len(x) + Len(y)
      /\ \A k \in 1 .. Len(x) : q[k] = x[k]
      /\ \A k \in 1 .. Len(y) : q[Len(x) + k] = y[k]
  <2>. HIDE DEF U
  <2>. QED  BY <1>1, ConcatProperties, LenProperties
<1>. HIDE DEF q
<1>3. ASSUME NEW m \in 0 + 1 .. Len(x), x[m].do = "restore"
      PROVE  x[m].w \in Due(q, 0)
  <2>1. m \in 0 + 1 .. Len(q) /\ q[m] = x[m]
    BY <1>2
  <2>. QED  BY <1>3, <2>1 DEF Due
<1>4. ASSUME NEW m \in 0 + 1 .. Len(y), y[m].do = "restore"
      PROVE  y[m].w \in Due(q, 0)
  <2>1. Len(x) + m \in 0 + 1 .. Len(q) /\ q[Len(x) + m] = y[m]
    BY <1>2
  <2>. QED  BY <1>4, <2>1 DEF Due
<1>5. Due(x, 0) \subseteq Due(q, 0) /\ Due(y, 0) \subseteq Due(q, 0)
  BY <1>3, <1>4 DEF Due
<1>. QED  BY <1>5 DEF q

(* A call that turns the power on and wakes the rest                       *)
Begun(q) ==
  \E o, r : q = <<o>> \o r /\ o.do = "power" /\ o.on = TRUE /\ o.keep = TRUE /\ Wakes(r)

(* It may go on, and looks at a window if either part does.                *)
LEMMA BegunConcat ==
  ASSUME NEW q, Begun(q), NEW y, Wakes(y)
  PROVE  /\ Begun(q \o y)
         /\ Win \subseteq Due(q, 0) \/ Win \subseteq Due(y, 0) => Win \subseteq Due(q \o y, 0)
<1>1. PICK o, r : q = <<o>> \o r /\ o.do = "power" /\ o.on = TRUE /\ o.keep = TRUE /\ Wakes(r)
  BY DEF Begun
<1>2. PICK S : r \in Seq(S) /\ \A p \in S : Lull(p) \/ Restoring(p)
  BY <1>1 DEF Wakes
<1>3. PICK R : y \in Seq(R) /\ \A p \in R : Lull(p) \/ Restoring(p)
  BY DEF Wakes
<1> DEFINE U == S \cup R \cup {o}
           x == <<o>>
<1>4. x \in Seq(U) /\ r \in Seq(U) /\ y \in Seq(U)
  BY <1>2, <1>3
<1>. HIDE DEF U, x
<1>5. (x \o r) \o y = x \o (r \o y)
  BY <1>4, ConcatAssociative
<1>6. Wakes(r \o y)
  BY <1>1, WakesConcat
<1>7. q \o y = <<o>> \o (r \o y)
  BY <1>1, <1>5 DEF x
<1>8. q \in Seq(U)
  <2>1. x \o r \in Seq(U)
    BY <1>4, ConcatProperties
  <2>. QED  BY <1>1, <2>1 DEF x
<1>9. Win \subseteq Due(q, 0) \/ Win \subseteq Due(y, 0) => Win \subseteq Due(q \o y, 0)
  BY <1>4, <1>8, DueConcat
<1>. QED  BY <1>1, <1>6, <1>7, <1>9 DEF Begun

(* s3cfb_late_resume does what is asked of it, from any state,             *)
LEMMA ResumeManaged ==
  ASSUME NEW a, NEW s, IsState(s), NEW ok \in BOOLEAN
  PROVE  Managed(a, s, s3cfb_late_resume(ok))
<1> DEFINE o == [do |-> "power", on |-> TRUE, keep |-> TRUE]
           x == <<o>> \o s3cfb_init_global
           y == [n \in 1 .. NrWins |-> [do |-> "restore", w |-> (Default + n - 1) % NrWins, ok |-> ok]]
           v == s3cfb_set_vsync_interrupt(TRUE)
           g == s3cfb_set_global_interrupt(TRUE)
           c == s3cfb_set_clock
           d == s3cfb_display_on
           q == x \o c \o d \o y \o v \o g
<1>1. Begun(x)
  <2>1. o.do = "power" /\ o.on = TRUE /\ o.keep = TRUE
    OBVIOUS
  <2>. HIDE DEF o
  <2>. QED  BY <2>1, DisplayWakes DEF Begun
<1>2. Wakes(y) /\ Win \subseteq Due(y, 0)
  <2>1. Wakes(y)
    BY RestoresWake
  <2>2. y = [n \in 1 .. NrWins |-> [do |-> "restore", w |-> (Default + n - 1) % NrWins, ok |-> ok]]
    OBVIOUS
  <2>. HIDE DEF y
  <2>. QED  BY <2>1, <2>2, RestoresAll
<1>3. Wakes(v) /\ Wakes(g) /\ Wakes(c) /\ Wakes(d)
  <2>1. \A on \in BOOLEAN : Wakes(s3cfb_set_vsync_interrupt(on)) /\ Wakes(s3cfb_set_global_interrupt(on))
    BY DisplayWakes
  <2>2. Wakes(v) /\ Wakes(g)
    BY <2>1, Zenon
  <2>. QED  BY <2>2, DisplayWakes
<1>4. Begun(q) /\ Win \subseteq Due(q, 0)
  <2>. HIDE DEF x, y, v, g, c, d
  <2>1. Begun(x \o c \o d)
    BY <1>1, <1>3, BegunConcat
  <2>2. Begun(x \o c \o d \o y) /\ Win \subseteq Due(x \o c \o d \o y, 0)
    BY <1>2, <2>1, BegunConcat
  <2>3. Begun(x \o c \o d \o y \o v) /\ Win \subseteq Due(x \o c \o d \o y \o v, 0)
    BY <1>3, <2>2, BegunConcat
  <2>. QED  BY <1>3, <2>3, BegunConcat
<1>5. s3cfb_late_resume(ok) = q
  BY DEF s3cfb_late_resume
<1>6. Managed(a, s, q)
  <2>. HIDE DEF q
  <2>1. PICK p, r : q = <<p>> \o r /\ p.do = "power" /\ p.on = TRUE /\ p.keep = TRUE /\ Wakes(r)
    BY <1>4 DEF Begun
  <2>2. Managed(a, s, <<p>> \o r)
    BY <1>4, <2>1, WakesManaged
  <2>. QED  BY <2>1, <2>2
<1>. HIDE DEF q
<1>. QED  BY <1>5, <1>6

(* and so does s3cfb_early_suspend, with the registers kept or not.        *)
LEMMA SuspendManaged ==
  ASSUME NEW a, NEW s, IsState(s), NEW keep \in BOOLEAN
  PROVE  Managed(a, s, s3cfb_early_suspend(keep))
<1> DEFINE o == Load(VIDCON0)
           A == {"ENVID"}
           B == {"ENVID_F"}
           E == {}
           p == Store(VIDCON0, E, A)
           r == Store(VIDCON0, E, B)
           d == [do |-> "power", on |-> FALSE, keep |-> keep]
           S == {o, p, r, d}
           x == <<o, p, r>>
           y == <<d>>
<1>1. Lull(o) /\ Lull(p) /\ Lull(r) /\ Darkening(d)
  BY DEF Lull, Darkening, Load, Store, DisplayRegs
<1>2. s3cfb_early_suspend(keep) = x \o y
  BY DEF s3cfb_early_suspend, s3cfb_display_off
<1>3. x \in Seq(S) /\ y \in Seq(S)
  <2>. HIDE DEF o, p, r, d
  <2>. QED  OBVIOUS
<1>4. \A z \in S : Lull(z) \/ Darkening(z)
  <2>. HIDE DEF o, p, r, d
  <2>. QED  BY <1>1
<1>5. x \o y \in Seq(S)
  <2>. HIDE DEF x, y, S
  <2>. QED  BY <1>3, ConcatProperties
<1>6. Dims(x \o y)
  <2>. HIDE DEF x, y, S
  <2>. QED  BY <1>4, <1>5 DEF Dims
<1>7. Managed(a, s, x \o y)
  <2>. HIDE DEF x, y
  <2>. QED  BY <1>6, DimsManaged
<1>. HIDE DEF x, y
<1>. QED  BY <1>2, <1>7

-----------------------------------------------------------------------------
(* Whole calls and overtaken ones                                          *)

(* What a call of agent a on window v does to the files and their counts:  *)
(* nothing; it closes the file, it fails to open one, or it opens one      *)
Kept(v, s, t) == t.file = s.file /\ t.win[v].in_use = s.win[v].in_use
Left(a, v, s, t) == t.file = Closed(s.file, a) /\ t.win[v].in_use = OneLess(s.win[v]).in_use
Turned(a, v, s, t) == t.file = Closed(s.file, a) /\ t.win[v].in_use = s.win[v].in_use
Joined(a, v, s, t) ==
  /\ ~(s.win[v].in_use > 0 /\ v # Default)
  /\ t.file = Opened(s.file, a, v) /\ t.win[v].in_use = s.win[v].in_use + 1

(* The last step is the one that counts.                                   *)
LEMMA LastCounts ==
  ASSUME NEW a, NEW v \in Win, NEW s, IsState(s), NEW u, OnlyIn(v, s, u),
         NEW o \in LastSteps(v), NEW t, t = Step(a, u, o)
  PROVE  \/ o = DiscountStep(v) /\ Left(a, v, s, t)
         \/ o = CountStep(v) /\ (Turned(a, v, s, t) \/ Joined(a, v, s, t))
<1>1. /\ IsState(u) /\ u.file = s.file /\ u.win[v].in_use = s.win[v].in_use
      /\ u.win[v] \in Window /\ s.win[v] \in Window
  BY DEF OnlyIn, Local, IsState
<1>2. CASE o = DiscountStep(v)
  <2>1. t.file = Closed(u.file, a) /\ t.win[v] = OneLess(u.win[v])
    BY <1>1, <1>2, StepDiscount
  <2>2. OneLess(u.win[v]).in_use = OneLess(s.win[v]).in_use
    BY <1>1 DEF OneLess, Window
  <2>. QED  BY <1>1, <1>2, <2>1, <2>2 DEF Left
<1>3. CASE o = CountStep(v)
  <2>1. Refused(t, u, v, a) \/ Admitted(t, u, v, a)
    BY <1>1, <1>3, StepCount
  <2>2. CASE Refused(t, u, v, a)
    BY <1>1, <1>3, <2>2 DEF Refused, Turned
  <2>3. CASE Admitted(t, u, v, a)
    <3>1. t.win[v].in_use = u.win[v].in_use + 1
      BY <1>1, <2>3, OneMoreKeeps DEF Admitted
    <3>. QED  BY <1>1, <1>3, <2>3, <3>1 DEF Admitted, Joined
  <2>. QED  BY <2>1, <2>2, <2>3
<1>. QED  BY <1>2, <1>3 DEF LastSteps

(* A call keeps the files and their counts or, if it is a release or an    *)
(* open, ends by closing a file or opening one.                            *)
LEMMA CallCounts ==
  ASSUME NEW a, NEW v \in Win, NEW s, IsState(s), NEW q, IsCall(q, v), NEW t, t = RunAll(a, s, q)
  PROVE  /\ Beside(v, s, t)
         /\ \/ Kept(v, s, t)
            \/ Ends(q, DiscountStep(v)) /\ Left(a, v, s, t)
            \/ Ends(q, CountStep(v)) /\ (Turned(a, v, s, t) \/ Joined(a, v, s, t))
         /\ q \in Seq(StepsOn(v)) => Kept(v, s, t)
<1>0. /\ q \in Seq(CallSteps(v)) /\ Len(q) \in Nat
      /\ \A k \in 1 .. Len(q) : q[k] \in CallSteps(v)
      /\ \A k \in 1 .. Len(q) - 1 : q[k] \in StepsOn(v)
  BY LenProperties, ElementOfSeq DEF IsCall
<1>1. PICK f : Trace(f, a, s, q)
  BY <1>0, TraceExists
<1>2. t = f[Len(q)] /\ Len(q) \in 0 .. Len(q)
  BY <1>0, <1>1, RunIs
<1>3. Beside(v, s, t)
  BY <1>0, <1>1, <1>2, RunBeside
<1>4. ASSUME \A k \in 1 .. Len(q) : q[k] \in StepsOn(v)
      PROVE  Kept(v, s, t)
  <2>1. OnlyIn(v, s, t)
    BY <1>0, <1>1, <1>2, <1>4, RunOn
  <2>. QED  BY <2>1 DEF OnlyIn, Local, Kept
<1>5. q \in Seq(StepsOn(v)) => Kept(v, s, t)
  BY <1>4, ElementOfSeq
<1>6. ASSUME Len(q) = 0
      PROVE  Kept(v, s, t)
  <2>1. \A k \in 1 .. Len(q) : q[k] \in StepsOn(v)
    BY <1>6
  <2>. QED  BY <1>4, <2>1
<1>7. ASSUME Len(q) # 0, q[Len(q)] \in LastSteps(v)
      PROVE  \/ q[Len(q)] = DiscountStep(v) /\ Left(a, v, s, t)
             \/ q[Len(q)] = CountStep(v) /\ (Turned(a, v, s, t) \/ Joined(a, v, s, t))
  <2> DEFINE m == Len(q) - 1
             u == f[m]
             o == q[Len(q)]
  <2>1. m \in 0 .. Len(q) /\ Len(q) \in 1 .. Len(q) /\ \A k \in 1 .. m : q[k] \in StepsOn(v)
    BY <1>0, <1>7
  <2>2. OnlyIn(v, s, u)
    <3>. HIDE DEF m
    <3>1. \A n \in 0 .. m : OnlyIn(v, s, f[n])
      BY <1>0, <1>1, <2>1, RunOn
    <3>2. m \in 0 .. m
      BY <2>1
    <3>. QED  BY <3>1, <3>2
  <2>3. t = Step(a, u, o)
    <3>1. f[0] = s /\ \A n \in 1 .. Len(q) : f[n] = Step(a, f[n - 1], q[n])
      BY <1>0, <1>1, TraceSteps
    <3>. QED  BY <1>2, <2>1, <3>1
  <2>4. o \in LastSteps(v)
    BY <1>7
  <2>. HIDE DEF u, o
  <2>5. \/ o = DiscountStep(v) /\ Left(a, v, s, t)
        \/ o = CountStep(v) /\ (Turned(a, v, s, t) \/ Joined(a, v, s, t))
    BY <2>2, <2>3, <2>4, LastCounts
  <2>. QED  BY <2>5 DEF o
<1>8. ASSUME Len(q) # 0, q[Len(q)] \notin LastSteps(v)
      PROVE  Kept(v, s, t)
  <2>1. \A k \in 1 .. Len(q) : k = Len(q) \/ k \in 1 .. Len(q) - 1
    BY <1>0
  <2>2. Len(q) \in 1 .. Len(q)
    BY <1>0, <1>8
  <2>3. \A k \in 1 .. Len(q) : q[k] \in StepsOn(v)
    BY <1>0, <1>8, <2>1, <2>2 DEF CallSteps
  <2>. QED  BY <1>4, <2>3
<1>9. Len(q) # 0 => q # <<>>
  OBVIOUS
<1>. QED  BY <1>3, <1>5, <1>6, <1>7, <1>8, <1>9 DEF Ends

(* Before its step k a call has left the files alone, and what is left of  *)
(* it is a call that ends as the whole does.                               *)
Cut(a, v, s, q, k, t, r) ==
  /\ Beside(v, s, t) /\ Kept(v, s, t)
  /\ IsCall(r, v) /\ RunAll(a, t, r) = RunAll(a, s, q)
  /\ k - 1 \in 1 .. Len(q) - 1
  /\ q \in Seq(StepsOn(v)) => r \in Seq(StepsOn(v))
  /\ \A o : Ends(r, o) <=> Ends(q, o)

(* A call that is overtaken has not closed its file yet, and what is left  *)
(* of it is a call that ends as the whole does.                            *)
LEMMA CallStops ==
  ASSUME NEW a, NEW v \in Win, NEW s, IsState(s), NEW q, IsCall(q, v), NEW k \in 2 .. Len(q),
         NEW t, t = RunAll(a, s, SubSeq(q, 1, k - 1)), NEW r, r = SubSeq(q, k, Len(q))
  PROVE  Cut(a, v, s, q, k, t, r)
<1>0. /\ q \in Seq(CallSteps(v)) /\ Len(q) \in Nat
      /\ \A n \in 1 .. Len(q) - 1 : q[n] \in StepsOn(v)
  BY LenProperties DEF IsCall
<1>1. PICK f : Trace(f, a, s, q)
  BY <1>0, TraceExists
<1> DEFINE m == k - 1
<1>2. /\ m \in 0 .. Len(q) /\ m + 1 = k /\ k \in Int /\ Len(q) \in Int /\ m \in 1 .. Len(q) - 1
      /\ \A n \in 1 .. m : q[n] \in StepsOn(v)
      /\ m \in 0 .. m
  BY <1>0
<1>3. t = f[m] /\ RunAll(a, f[m], r) = f[Len(q)]
  <2>1. /\ RunAll(a, s, SubSeq(q, 1, m)) = f[m]
        /\ RunAll(a, f[m], SubSeq(q, m + 1, Len(q))) = f[Len(q)]
    <3>. HIDE DEF m
    <3>. QED  BY <1>0, <1>1, <1>2, RunParts
  <2>. QED  BY <1>2, <2>1
<1>4. RunAll(a, s, q) = f[Len(q)]
  BY <1>0, <1>1, RunIs
<1>5. OnlyIn(v, s, t)
  <2>. HIDE DEF m
  <2>. QED  BY <1>0, <1>1, <1>2, <1>3, RunOn
<1>6. Beside(v, s, t)
  <2>. HIDE DEF m
  <2>. QED  BY <1>0, <1>1, <1>2, <1>3, RunBeside
<1>7. IsCall(r, v)
  BY CallRest
<1>8. q \in Seq(StepsOn(v)) => r \in Seq(StepsOn(v))
  <2>1. q \in Seq(StepsOn(v)) => \A n \in k .. Len(q) : q[n] \in StepsOn(v)
    BY <1>0, ElementOfSeq
  <2>. QED  BY <1>2, <2>1, SubSeqProperties
<1>9. \A o : Ends(r, o) <=> Ends(q, o)
  <2>1. /\ Len(r) = Len(q) - k + 1 /\ Len(r) \in 1 .. Len(r) /\ k + Len(r) - 1 = Len(q)
        /\ \A n \in 1 .. Len(r) : r[n] = q[k + n - 1]
    <3>1. /\ Len(r) = Len(q) - k + 1 /\ \A n \in 1 .. Len(r) : r[n] = q[k + n - 1]
      BY <1>0, <1>2, SubSeqProperties
    <3>. QED  BY <1>0, <1>2, <3>1
  <2>2. r[Len(r)] = q[Len(q)]
    BY <2>1
  <2>3. Len(r) # 0 /\ Len(q) # 0
    BY <1>0, <2>1
  <2>4. r # <<>> /\ q # <<>>
    BY ONLY <2>3
  <2>. QED  BY <2>2, <2>4 DEF Ends
<1>. QED  BY <1>2, <1>3, <1>4, <1>5, <1>6, <1>7, <1>8, <1>9 DEF OnlyIn, Local, Kept, Cut

-----------------------------------------------------------------------------
(* The inductive invariant                                                 *)

(* What all agents see of the system                                       *)
Now == State(Pm)
(* Two states of agents that see the same system                           *)
SameSystem(s, t) ==
  /\ t.reg = s.reg /\ t.win = s.win /\ t.power = s.power /\ t.file = s.file
  /\ t.lost = s.lost /\ t.missed = s.missed

(* The call of agent b that was overtaken is one on another window than w; *)
(* those of all agents but a and Pm are.                                   *)
Spares(b, w) == \E v \in Win \ {w} : IsCall(todo[b], v)
Others(w, a) == \A b \in Agents \ {a, Pm} : Busy(b) => Spares(b, w)

(* No call on w is under way, and w is as it should be - or the resume has *)
(* still to look at it; or a call of agent a is, that will leave it so.    *)
Rest(w) == Shown(w, Now, Due(todo[Pm], 0)) /\ Others(w, Pm)
Owned(w, a) ==
  /\ a \in Agents \ {Pm} /\ Busy(a) /\ w \in Scope(a) /\ ~Busy(Pm) /\ IsCall(todo[a], w)
  /\ Fine(w, Now) /\ Good(w, RunAll(a, State(a), todo[a])) /\ Others(w, a)
WindowsOK == \A w \in Win \ touched : Rest(w) \/ \E a \in Agents : Owned(w, a)

(* The state is one of the driver's, and what an agent has not begun has   *)
(* no local variables.                                                     *)
TypesOK ==
  /\ IsState(Now) /\ over \in Nat
  /\ todo = [a \in Agents |-> todo[a]]
  /\ cfg = [a \in Agents |-> cfg[a]] /\ start = [a \in Agents |-> start[a]]
  /\ \A a \in Agents : ~Busy(a) => start[a] = 0

(* in_use counts the files, and an overlay window has one user at most.    *)
Users(w) == {p \in Proc : file[p] = w}
CountsOK ==
  \A w \in Win :
    /\ IsFiniteSet(Users(w)) /\ win[w].in_use = Cardinality(Users(w))
    /\ w # Default => win[w].in_use <= 1

(* A call q of agent a on window v, when the files are f: sysfs counts no  *)
(* users, a process opens a window when it has none, and works on its own. *)
Belongs(a, v, f, q) ==
  \/ a = Sysfs /\ q \in Seq(StepsOn(v))
  \/ a \in Proc /\ f[a] = v /\ ~Ends(q, CountStep(v))
  \/ a \in Proc /\ f[a] = NULL /\ Ends(q, CountStep(v))

(* What is left of each call                                               *)
CallsOK ==
  /\ \A a \in Agents \ {Pm} : Busy(a) =>
       \E v \in Win : IsCall(todo[a], v) /\ Belongs(a, v, file, todo[a])
  /\ Busy(Pm) => Handles(Now, todo[Pm])

(* As long as no call was overtaken none is under way, and WINSHMAP is     *)
(* right.                                                                  *)
AloneOK == over = 0 => Idle /\ MapRight(Now)

(* The inductive invariant of the driver                                   *)
DriverInv == TypesOK /\ CountsOK /\ CallsOK /\ WindowsOK /\ AloneOK

(* Whichever agent looks, a window is as it is.                            *)
LEMMA SystemViews ==
  ASSUME NEW s, NEW t, SameSystem(s, t)
  PROVE  /\ \A w \in Win : SameView(w, s, t)
         /\ \A w \in Win : Good(w, s) <=> Good(w, t)
         /\ \A w \in Win : Fine(w, s) <=> Fine(w, t)
         /\ \A w \in Win : \A D : Shown(w, s, D) => Shown(w, t, D)
<1>1. \A w \in Win : SameView(w, s, t) /\ SameView(w, t, s)
  BY DEF SameSystem, SameView
<1>2. \A w \in Win : (Good(w, s) => Good(w, t)) /\ (Fine(w, s) => Fine(w, t))
  BY <1>1, ViewKeeps
<1>3. \A w \in Win : (Good(w, t) => Good(w, s)) /\ (Fine(w, t) => Fine(w, s))
  BY <1>1, ViewKeeps
<1>4. \A w \in Win : \A D : Shown(w, s, D) => Shown(w, t, D)
  BY <1>1, ViewKeeps
<1>. QED  BY <1>1, <1>2, <1>3, <1>4

(* An agent sees the system and its local variables.                       *)
LEMMA StateIs ==
  ASSUME TypesOK, NEW a
  PROVE  /\ IsState(State(a)) /\ SameSystem(Now, State(a))
         /\ State(a).cfg = cfg[a] /\ State(a).start = start[a]
         /\ State(a).reg = reg /\ State(a).win = win /\ State(a).power = power
         /\ State(a).file = file /\ State(a).lost = lost /\ State(a).missed = missed
BY DEF TypesOK, Now, State, IsState, SameSystem

(* The other agents keep their local variables when agent a moves on.      *)
Stays(b, a) == b # a => todo'[b] = todo[b] /\ cfg'[b] = cfg[b] /\ start'[b] = start[b]

(* What Becomes does to what agents see                                    *)
LEMMA BecomesIs ==
  ASSUME TypesOK, NEW a \in Agents, NEW t, IsState(t), NEW rest, Becomes(a, t, rest)
  PROVE  /\ SameSystem(t, Now') /\ IsState(Now')
         /\ todo' = [b \in Agents |-> todo'[b]]
         /\ cfg' = [b \in Agents |-> cfg'[b]] /\ start' = [b \in Agents |-> start'[b]]
         /\ todo'[a] = rest /\ \A b \in Agents : Stays(b, a)
         /\ rest # <<>> => State(a)' = t
         /\ \A b \in Agents : todo'[b] = <<>> => start'[b] = 0
<1>1. /\ reg' = t.reg /\ win' = t.win /\ power' = t.power /\ file' = t.file
      /\ lock' = t.lock /\ lost' = t.lost /\ missed' = t.missed
      /\ todo' = [todo EXCEPT ![a] = rest]
      /\ cfg' = [cfg EXCEPT ![a] = IF rest = <<>> THEN {} ELSE t.cfg]
      /\ start' = [start EXCEPT ![a] = IF rest = <<>> THEN 0 ELSE t.start]
  BY DEF Becomes
<1>2. /\ todo = [b \in Agents |-> todo[b]]
      /\ cfg = [b \in Agents |-> cfg[b]] /\ start = [b \in Agents |-> start[b]]
      /\ \A b \in Agents : todo[b] = <<>> => start[b] = 0
  BY DEF TypesOK, Busy
<1>3. SameSystem(t, Now') /\ IsState(Now')
  BY <1>1 DEF SameSystem, Now, State, IsState
<1>4. /\ todo' = [b \in Agents |-> todo'[b]]
      /\ cfg' = [b \in Agents |-> cfg'[b]] /\ start' = [b \in Agents |-> start'[b]]
  BY <1>1, <1>2
<1>5. todo'[a] = rest /\ \A b \in Agents : Stays(b, a)
  BY <1>1, <1>2 DEF Stays
<1>6. rest # <<>> => State(a)' = t
  <2>1. rest # <<>> => cfg'[a] = t.cfg /\ start'[a] = t.start
    BY <1>1, <1>2
  <2>2. State(a)' = [reg |-> t.reg, win |-> t.win, power |-> t.power, lock |-> t.lock,
                     file |-> t.file, cfg |-> cfg'[a], start |-> start'[a],
                     lost |-> t.lost, missed |-> t.missed]
    BY <1>1 DEF State
  <2>. QED  BY <2>1, <2>2 DEF IsState
<1>7. \A b \in Agents : todo'[b] = <<>> => start'[b] = 0
  BY <1>1, <1>2
<1>. QED  BY <1>3, <1>4, <1>5, <1>6, <1>7

-----------------------------------------------------------------------------
(* Calls of processes and of sysfs keep it                                 *)

(* A call of agent a leaves the windows it does not work on as they were,  *)
(* with the calls on them.                                                 *)
LEMMA OtherWindow ==
  ASSUME TypesOK, NEW a \in Agents \ {Pm}, NEW w \in Win,
         NEW t, IsState(t), NEW rest, Becomes(a, t, rest), SameView(w, Now, t),
         \A b \in Proc \ {a} : t.file[b] = file[b],
         rest # <<>> => \E v \in Win \ {w} : IsCall(rest, v),
         Rest(w) \/ \E c \in Agents : c # a /\ Owned(w, c)
  PROVE  Rest(w)' \/ \E c \in Agents : Owned(w, c)'
<1>1. /\ SameSystem(t, Now') /\ IsState(Now')
      /\ todo'[a] = rest /\ \A b \in Agents : Stays(b, a)
  BY BecomesIs
<1>2. SameView(w, Now, Now')
  BY <1>1 DEF SameView, SameSystem
<1>3. /\ \A D : Shown(w, Now, D) => Shown(w, Now', D)
      /\ Fine(w, Now) => Fine(w, Now')
  BY <1>2, ViewKeeps
<1>4. ASSUME NEW b \in Agents, b # Pm, Busy(b)', b # a /\ Busy(b) => Spares(b, w)
      PROVE  Spares(b, w)'
  <2>1. CASE b = a
    BY <1>1, <1>4, <2>1 DEF Busy, Spares
  <2>2. CASE b # a
    BY <1>1, <1>4, <2>2 DEF Busy, Spares, Stays
  <2>. QED  BY <2>1, <2>2
<1>5. CASE Rest(w)
  <2>1. Others(w, Pm)'
    BY <1>4, <1>5 DEF Rest, Others
  <2>2. todo'[Pm] = todo[Pm]
    BY <1>1 DEF Stays, Agents
  <2>3. Shown(w, Now', Due(todo'[Pm], 0))
    BY <1>3, <1>5, <2>2 DEF Rest
  <2>. QED  BY <2>1, <2>3 DEF Rest
<1>6. ASSUME NEW c \in Agents, c # a, Owned(w, c)
      PROVE  Owned(w, c)'
  <2>0. c \in Agents \ {Pm} /\ Stays(c, a) /\ Stays(Pm, a)
    BY <1>1, <1>6 DEF Owned, Agents
  <2>1. todo'[c] = todo[c] /\ cfg'[c] = cfg[c] /\ start'[c] = start[c] /\ todo'[Pm] = todo[Pm]
    BY <1>6, <2>0 DEF Stays
  <2>2. Busy(c)' /\ ~Busy(Pm)' /\ IsCall(todo[c], w)'
    BY <1>6, <2>1 DEF Owned, Busy
  <2>3. w \in Scope(c)'
    <3>1. c \in Proc => file'[c] = file[c]
      BY <1>1, <1>6 DEF SameSystem, Now, State
    <3>. QED  BY <1>6, <2>1, <3>1 DEF Owned, Scope, Opening, Busy
  <2>4. Fine(w, Now)'
    BY <1>3, <1>6 DEF Owned
  <2>5. Others(w, c)'
    <3>1. \A b \in Agents \ {c, Pm} : Busy(b) => Spares(b, w)
      BY <1>6 DEF Owned, Others
    <3>. QED  BY <1>4, <3>1 DEF Others
  <2>6. Good(w, RunAll(c, State(c), todo[c]))'
    <3> DEFINE x == State(c)
               y == State(c)'
               q == todo[c]
    <3>1. IsState(x) /\ SameSystem(Now, x) /\ x.cfg = cfg[c] /\ x.start = start[c]
      BY StateIs
    <3>2. IsState(y) /\ SameSystem(Now', y) /\ y.cfg = cfg'[c] /\ y.start = start'[c]
      BY <1>1 DEF State, Now, IsState, SameSystem
    <3>3. IsCall(q, w) /\ Good(w, RunAll(c, x, q))
      BY <1>6 DEF Owned
    <3>. HIDE DEF x, y, q
    <3>4. SameView(w, x, y) /\ y.cfg = x.cfg /\ y.start = x.start
      BY <1>2, <2>1, <3>1, <3>2 DEF SameView, SameSystem
    <3>5. q \in Seq(CallSteps(w)) /\ Paired(q, w)
      BY <3>3 DEF IsCall
    <3>6. SameView(w, RunAll(c, x, q), RunAll(c, y, q))
      BY <3>1, <3>2, <3>4, <3>5, RunAlike
    <3>7. Good(w, RunAll(c, y, q))
      BY <3>3, <3>6, ViewKeeps
    <3>. QED  BY <2>1, <3>7 DEF y, q
  <2>. QED  BY <2>0, <2>2, <2>3, <2>4, <2>5, <2>6 DEF Owned
<1>. QED  BY <1>5, <1>6

(* The resume may have any window to look at that is as it should be.      *)
LEMMA MoreShown ==
  ASSUME NEW w, NEW s, Good(w, s), NEW D
  PROVE  Shown(w, s, D)
BY DEF Good, Shown

(* A call that ends leaves its window alone.                               *)
LEMMA OwnWindowEnds ==
  ASSUME TypesOK, NEW a \in Agents \ {Pm}, NEW w \in Win,
         NEW t, IsState(t), Becomes(a, t, <<>>), Good(w, t), Others(w, a)
  PROVE  Rest(w)'
<1>1. SameSystem(t, Now') /\ todo'[a] = <<>> /\ \A b \in Agents : Stays(b, a)
  BY BecomesIs
<1>2. Shown(w, Now', Due(todo'[Pm], 0))
  <2>1. Good(w, Now')
    BY <1>1, SystemViews
  <2>. QED  BY <2>1, MoreShown
<1>3. Others(w, Pm)'
  <2>1. ASSUME NEW b \in Agents \ {Pm}, Busy(b)'
        PROVE  Spares(b, w)'
    <3>1. b # a
      BY <1>1, <2>1 DEF Busy
    <3>2. Busy(b) /\ todo'[b] = todo[b]
      BY <1>1, <2>1, <3>1 DEF Busy, Stays
    <3>. QED  BY <2>1, <3>1, <3>2 DEF Others, Spares
  <2>. QED  BY <2>1 DEF Others
<1>. QED  BY <1>2, <1>3 DEF Rest

(* One that is overtaken owns its window.                                  *)
LEMMA OwnWindowStops ==
  ASSUME TypesOK, NEW a \in Agents \ {Pm}, NEW w \in Win,
         NEW t, IsState(t), NEW rest, rest # <<>>, Becomes(a, t, rest),
         IsCall(rest, w), Fine(w, t), Good(w, RunAll(a, t, rest)),
         w \in Scope(a)', ~Busy(Pm), Others(w, a)
  PROVE  Owned(w, a)'
<1>1. /\ SameSystem(t, Now') /\ todo'[a] = rest /\ State(a)' = t
      /\ \A b \in Agents : Stays(b, a)
  BY BecomesIs
<1>2. Fine(w, Now)'
  BY <1>1, SystemViews
<1>3. Others(w, a)'
  BY <1>1 DEF Others, Stays, Busy, Spares
<1>4. Busy(a)' /\ ~Busy(Pm)'
  BY <1>1 DEF Busy, Stays, Agents
<1>5. Good(w, RunAll(a, State(a), todo[a]))' /\ IsCall(todo[a], w)'
  BY <1>1
<1>. QED  BY <1>2, <1>3, <1>4, <1>5 DEF Owned

(* What a call of agent a on window v that belongs there does to the files *)
Counted(a, v, s, t) ==
  \/ Kept(v, s, t)
  \/ a \in Proc /\ s.file[a] = v /\ Left(a, v, s, t)
  \/ a \in Proc /\ s.file[a] = NULL /\ Joined(a, v, s, t)

LEMMA BelongsCounts ==
  ASSUME NEW a, NEW v \in Win, NEW s, IsState(s), NEW q, IsCall(q, v), Belongs(a, v, s.file, q),
         NEW t, t = RunAll(a, s, q)
  PROVE  Beside(v, s, t) /\ Counted(a, v, s, t)
<1>1. /\ Beside(v, s, t)
      /\ \/ Kept(v, s, t)
         \/ Ends(q, DiscountStep(v)) /\ Left(a, v, s, t)
         \/ Ends(q, CountStep(v)) /\ (Turned(a, v, s, t) \/ Joined(a, v, s, t))
      /\ q \in Seq(StepsOn(v)) => Kept(v, s, t)
  BY CallCounts
<1>2. CASE a = Sysfs /\ q \in Seq(StepsOn(v))
  BY <1>1, <1>2 DEF Counted
<1>3. CASE a \in Proc /\ s.file[a] = v /\ ~Ends(q, CountStep(v))
  BY <1>1, <1>3 DEF Counted
<1>4. CASE a \in Proc /\ s.file[a] = NULL /\ Ends(q, CountStep(v))
  <2>1. ~Ends(q, DiscountStep(v))
    BY <1>4 DEF Ends, CountStep, DiscountStep
  <2>2. Turned(a, v, s, t) => Kept(v, s, t)
    <3>1. Closed(s.file, a) = s.file
      BY <1>4 DEF Closed, IsState
    <3>. QED  BY <3>1 DEF Turned, Kept
  <2>. QED  BY <1>1, <1>4, <2>1, <2>2 DEF Counted
<1>. QED  BY <1>2, <1>3, <1>4 DEF Belongs

(* When a process opens a file, in_use counts it;                          *)
LEMMA JoinedCounts ==
  ASSUME CountsOK, TypesOK, NEW v \in Win, NEW a \in Proc, file[a] = NULL,
         NEW s, s.win = win, s.file = file, NEW t, SameSystem(t, Now'), Joined(a, v, s, t),
         \A w \in Win \ {v} : win'[w] = win[w]
  PROVE  CountsOK'
<1>0. /\ t.win = win' /\ t.file = file'
      /\ file = [p \in Proc |-> file[p]] /\ \A w \in Win : win[w] \in Window
  BY StateIs DEF SameSystem, Now, State, IsState
<1>1. \A w \in Win : NULL # w
  BY S3cfbAssumption
<1>2. file' = [file EXCEPT ![a] = v]
  BY <1>0 DEF Joined, Opened
<1>3. Users(v)' = Users(v) \cup {a} /\ a \notin Users(v)
  BY <1>0, <1>1, <1>2 DEF Users
<1>4. \A w \in Win \ {v} : Users(w)' = Users(w)
  BY <1>0, <1>1, <1>2 DEF Users
<1>5. PICK m \in Nat : /\ IsFiniteSet(Users(v)) /\ win[v].in_use = m /\ m = Cardinality(Users(v))
  BY FS_CardinalityType DEF CountsOK
<1>6. IsFiniteSet(Users(v)') /\ Cardinality(Users(v)') = m + 1
  BY <1>3, <1>5, FS_AddElement
<1>7. win'[v].in_use = m + 1
  BY <1>0, <1>5 DEF Joined
<1>8. v # Default => m = 0
  <2>1. v # Default => ~(win[v].in_use > 0)
    BY <1>0 DEF Joined
  <2>. QED  BY <1>5, <2>1
<1>9. /\ IsFiniteSet(Users(v)') /\ win'[v].in_use = Cardinality(Users(v)')
      /\ v # Default => win'[v].in_use <= 1
  BY <1>6, <1>7, <1>8
<1>10. \A w \in Win \ {v} : /\ IsFiniteSet(Users(w)') /\ win'[w].in_use = Cardinality(Users(w)')
                            /\ w # Default => win'[w].in_use <= 1
  BY <1>4 DEF CountsOK
<1>. QED  BY <1>9, <1>10 DEF CountsOK

(* and so it does whatever the call does to the files;                     *)
LEMMA UsersRemain ==
  ASSUME CountsOK, TypesOK, NEW v \in Win, NEW a \in Agents,
         NEW s, IsState(s), s.win = win, s.file = file,
         NEW t, SameSystem(t, Now'), Beside(v, s, t), Counted(a, v, s, t)
  PROVE  CountsOK'
<1>0. /\ t.win = win' /\ t.file = file'
      /\ \A w \in Win : win[w] \in Window
  BY DEF SameSystem, Now, State, IsState
<1>1. \A w \in Win \ {v} : win'[w] = win[w]
  BY <1>0 DEF Beside, SameView
<1>2. CASE Kept(v, s, t)
  <2>1. file' = file /\ win'[v].in_use = win[v].in_use
    BY <1>0, <1>2 DEF Kept
  <2>2. \A w \in Win : Users(w)' = Users(w) /\ win'[w].in_use = win[w].in_use
    BY <1>1, <2>1 DEF Users
  <2>. QED  BY <2>2 DEF CountsOK
<1>3. CASE Left(a, v, s, t) /\ a \in Proc /\ file[a] = v
  <2>1. file' = [file EXCEPT ![a] = NULL] /\ win'[v].in_use = OneLess(win[v]).in_use
    BY <1>0, <1>3 DEF Left, Closed
  <2>2. file = [p \in Proc |-> file[p]]
    BY <1>0 DEF IsState
  <2>3. \A w \in Win : NULL # w
    BY S3cfbAssumption
  <2>4. Users(v)' = Users(v) \ {a} /\ a \in Users(v)
    BY <1>3, <2>1, <2>2, <2>3 DEF Users
  <2>5. \A w \in Win \ {v} : Users(w)' = Users(w)
    BY <1>3, <2>1, <2>2, <2>3 DEF Users
  <2>6. /\ IsFiniteSet(Users(v)) /\ win[v].in_use = Cardinality(Users(v))
        /\ v # Default => win[v].in_use <= 1
    BY DEF CountsOK
  <2>7. IsFiniteSet(Users(v)') /\ Cardinality(Users(v)') = Cardinality(Users(v)) - 1
    BY <2>4, <2>6, FS_RemoveElement
  <2>8. Cardinality(Users(v)') \in Nat
    BY <2>7, FS_CardinalityType
  <2>9. win'[v].in_use = win[v].in_use - 1
    <3>1. win[v] \in Window /\ win[v].in_use \in Nat /\ win[v].in_use > 0
      BY <1>0, <2>6, <2>7, <2>8 DEF Window
    <3>. QED  BY <2>1, <3>1 DEF OneLess, Window
  <2>10. /\ IsFiniteSet(Users(v)') /\ win'[v].in_use = Cardinality(Users(v)')
         /\ v # Default => win'[v].in_use <= 1
    <3>1. PICK m \in Nat : m = Cardinality(Users(v)')
      BY <2>8
    <3>2. win'[v].in_use = m /\ win[v].in_use = m + 1
      BY <2>6, <2>7, <2>8, <2>9, <3>1, FS_CardinalityType
    <3>3. v # Default => win'[v].in_use <= 1
      BY <2>6, <3>2
    <3>. QED  BY <2>7, <3>1, <3>2, <3>3
  <2>11. \A w \in Win \ {v} : /\ IsFiniteSet(Users(w)') /\ win'[w].in_use = Cardinality(Users(w)')
                              /\ w # Default => win'[w].in_use <= 1
    BY <1>1, <2>5 DEF CountsOK
  <2>. QED  BY <2>10, <2>11 DEF CountsOK
<1>4. CASE a \in Proc /\ s.file[a] = NULL /\ Joined(a, v, s, t)
  BY <1>1, <1>4, JoinedCounts
<1>. QED  BY <1>2, <1>3, <1>4 DEF Counted

(* what is left of the calls of others is left as it was;                  *)
LEMMA CallsRemain ==
  ASSUME CallsOK, TypesOK, NEW a \in Agents \ {Pm}, NEW t, IsState(t),
         NEW rest, Becomes(a, t, rest), t.power = power,
         \A b \in Proc \ {a} : t.file[b] = file[b],
         rest # <<>> => \E v \in Win : IsCall(rest, v) /\ Belongs(a, v, t.file, rest)
  PROVE  CallsOK'
<1>1. SameSystem(t, Now') /\ todo'[a] = rest /\ \A b \in Agents : Stays(b, a)
  BY BecomesIs
<1>2. file' = t.file /\ power' = power
  BY <1>1 DEF SameSystem, Now, State
<1>3. ASSUME NEW b \in Agents \ {Pm}, Busy(b)'
      PROVE  \E v \in Win : IsCall(todo'[b], v) /\ Belongs(b, v, file', todo'[b])
  <2>1. CASE b = a
    BY <1>1, <1>2, <1>3, <2>1 DEF Busy
  <2>2. CASE b # a
    <3>1. todo'[b] = todo[b] /\ (b \in Proc => file'[b] = file[b])
      BY <1>1, <1>2, <2>2 DEF Stays
    <3>2. PICK v \in Win : IsCall(todo[b], v) /\ Belongs(b, v, file, todo[b])
      BY <1>3, <3>1 DEF CallsOK, Busy
    <3>3. Belongs(b, v, file', todo[b])
      BY <3>1, <3>2 DEF Belongs
    <3>. QED  BY <3>1, <3>2, <3>3
  <2>. QED  BY <2>1, <2>2
<1>5. ASSUME Busy(Pm)'
      PROVE  Handles(Now', todo'[Pm])
  <2>1. todo'[Pm] = todo[Pm]
    BY <1>1 DEF Stays, Agents
  <2>2. Handles(Now, todo[Pm])
    BY <1>5, <2>1 DEF CallsOK, Busy
  <2>3. Now'.power = Now.power
    BY <1>2 DEF Now, State
  <2>. QED  BY <2>1, <2>2, <2>3 DEF Handles
<1>. QED  BY <1>3, <1>5 DEF CallsOK

(* WINSHMAP stays right;                                                   *)
LEMMA MapRemains ==
  ASSUME NEW v \in Win, NEW s, NEW t, Heard(v, s), Beside(v, s, t), MapKept(v, s, t), MapRight(s)
  PROVE  MapRight(t)
<1>1. \A w \in Win \ {v} : t.win[w].enabled = s.win[w].enabled
  BY DEF Beside, SameView
<1>2. t.power = s.power /\ t.missed = s.missed
  BY DEF Beside
<1>3. \A w \in Win : Chan(w, s, {})
  BY DEF MapRight, Channels
<1>4. ASSUME NEW w \in Win \ {v}
      PROVE  Chan(w, t, {})
  BY <1>1, <1>2, <1>3 DEF MapKept, Chan, Matches
<1>5. Chan(v, t, {})
  BY <1>2, <1>3 DEF MapKept, Chan, Heard
<1>. QED  BY <1>4, <1>5 DEF MapRight, Channels

(* and the state is one of the driver's.                                   *)
LEMMA TypesRemain ==
  ASSUME TypesOK, NEW a \in Agents, NEW t, IsState(t), NEW rest, Becomes(a, t, rest),
         over' \in Nat
  PROVE  TypesOK'
BY BecomesIs DEF TypesOK, Busy

(* A window that is still untouched when agent a begins a call on v        *)
Apart(a, v) ==
  \A w \in Win \ touched' :
    /\ w \notin touched
    /\ w = v => /\ \A b \in Agents : Busy(b) => v \notin Scope(b)
                /\ a = Sysfs => win[v].in_use # 0

(* A call runs whole, or it is overtaken at one of its steps.              *)
LEMMA EnterApart ==
  ASSUME NEW a, NEW v \in Win, NEW q, Enter(a, {v}, q), NEW s, s = Entered(a, {v})
  PROVE  /\ ~Busy(a) /\ Apart(a, v)
         /\ \/ Becomes(a, RunAll(a, s, q), <<>>) /\ over' = over
            \/ \E k \in 2 .. Len(q) :
                 /\ over' = over + 1
                 /\ Becomes(a, RunAll(a, s, SubSeq(q, 1, k - 1)), SubSeq(q, k, Len(q)))
<1>1. Apart(a, v)
  BY DEF Enter, Apart
<1>. QED  BY <1>1 DEF Enter

(* What the agent of a call on v sees when it begins                       *)
Sees(a, v, s) ==
  /\ IsState(s) /\ s.cfg = cfg[a] /\ s.start = start[a]
  /\ s.win = win /\ s.power = power /\ s.file = file
  /\ \A w \in Win \ {v} : SameView(w, Now, s)
  /\ Heard(v, s)
  /\ Good(v, Now) => Good(v, s)
  /\ MapRight(Now) => MapRight(s)

(* A call is recorded as missed if the controller is off, and sees the     *)
(* system as it is otherwise.                                              *)
LEMMA EnteredSees ==
  ASSUME TypesOK, NEW a \in Agents \ {Pm}, NEW v \in Win, NEW s, s = Entered(a, {v})
  PROVE  Sees(a, v, s)
<1> DEFINE u == State(a)
<1>1. /\ IsState(u) /\ SameSystem(Now, u) /\ u.cfg = cfg[a] /\ u.start = start[a]
      /\ u.win = win /\ u.power = power /\ u.file = file
  BY StateIs
<1> DEFINE m == IF power THEN u.missed ELSE u.missed \cup {v}
<1>2. s = [u EXCEPT !.missed = m]
  BY DEF Entered
<1>. HIDE DEF u
<1>m. /\ u.missed \subseteq m /\ m \subseteq u.missed \cup {v} /\ m \subseteq Win
      /\ power \/ v \in m
  BY <1>1 DEF IsState
<1>. HIDE DEF m
<1>3. /\ IsState(s) /\ s.cfg = u.cfg /\ s.start = u.start /\ s.reg = u.reg /\ s.win = u.win
      /\ s.power = u.power /\ s.file = u.file /\ s.lost = u.lost
      /\ u.missed \subseteq s.missed /\ s.missed \subseteq u.missed \cup {v}
      /\ power \/ v \in s.missed
  <2>1. /\ IsState(u) /\ s = [u EXCEPT !.missed = m]
        /\ u.missed \subseteq m /\ m \subseteq u.missed \cup {v} /\ m \subseteq Win
        /\ power \/ v \in m
    BY <1>1, <1>2, <1>m
  <2>. QED  BY ONLY <2>1 DEF IsState
<1>4. \A w \in Win \ {v} : SameView(w, Now, s)
  BY <1>1, <1>3 DEF SameView, SameSystem
<1>5. Heard(v, s)
  BY <1>1, <1>3 DEF Heard
<1>6. Good(v, Now) => Good(v, s)
  <2>1. Good(v, Now) => Good(v, u)
    BY <1>1, SystemViews
  <2>2. Good(v, u) => Good(v, s)
    BY <1>3 DEF Good, Shown, Unused, Based, Follows, Lit, Pictured, Addressed, Appears, Placed,
                Formatted, Blended, Keyed, Off
  <2>. QED  BY <2>1, <2>2
<1>7. MapRight(Now) => MapRight(s)
  BY <1>1, <1>3 DEF SameSystem, MapRight, Channels, Chan, Matches
<1>. QED  BY <1>1, <1>3, <1>4, <1>5, <1>6, <1>7 DEF Sees

(* A window that a process has open is in use.                             *)
LEMMA UserCounted ==
  ASSUME CountsOK, TypesOK, NEW a \in Proc, NEW v \in Win, file[a] = v
  PROVE  win[v].in_use > 0
<1>1. a \in Users(v) /\ IsFiniteSet(Users(v)) /\ win[v].in_use = Cardinality(Users(v))
  BY DEF Users, CountsOK
<1>2. Cardinality(Users(v)) \in Nat /\ (Cardinality(Users(v)) = 0 <=> Users(v) = {})
  BY <1>1, FS_CardinalityType, FS_EmptySet
<1>. QED  BY <1>1, <1>2

(* A call of one agent leaves the files of the others alone.               *)
LEMMA FilesStay ==
  ASSUME NEW a \in Agents, NEW v, NEW s, IsState(s), s.power = power, s.file = file,
         NEW t, Beside(v, s, t), Counted(a, v, s, t)
  PROVE  /\ IsState(t) /\ t.power = power
         /\ \A b \in Proc \ {a} : t.file[b] = file[b]
<1>1. IsState(t) /\ t.power = power
  BY DEF Beside
<1>2. \A b \in Proc \ {a} : t.file[b] = file[b]
  BY DEF Counted, Kept, Left, Closed, Joined, Opened, IsState
<1>. QED  BY <1>1, <1>2

(* WINSHMAP is what it is, whichever agent looks.                          *)
LEMMA MapRightSame ==
  ASSUME NEW s, NEW t, SameSystem(s, t)
  PROVE  MapRight(s) <=> MapRight(t)
BY DEF SameSystem, MapRight, Channels, Chan, Matches

(* An untouched window while agent a makes a call on window v              *)
LEMMA WindowsRemain ==
  ASSUME TypesOK, WindowsOK, NEW a \in Agents \ {Pm}, ~Busy(a), NEW v \in Win, Apart(a, v),
         NEW t, IsState(t), NEW rest, Becomes(a, t, rest),
         \A w \in Win \ {v} : SameView(w, Now, t),
         \A b \in Proc \ {a} : t.file[b] = file[b],
         rest # <<>> => IsCall(rest, v),
         v \notin touched' => Rest(v)' \/ Owned(v, a)'
  PROVE  WindowsOK'
<1> SUFFICES ASSUME NEW w \in Win, w \notin touched'
             PROVE  Rest(w)' \/ \E c \in Agents : Owned(w, c)'
  BY DEF WindowsOK
<1>1. CASE w = v
  BY <1>1
<1>2. CASE w # v
  <2>1. w \notin touched
    BY DEF Apart
  <2>2. Rest(w) \/ \E c \in Agents : c # a /\ Owned(w, c)
    BY <2>1 DEF WindowsOK, Owned
  <2>3. SameView(w, Now, t)
    BY <1>2
  <2>4. rest # <<>> => \E u \in Win \ {w} : IsCall(rest, u)
    BY <1>2
  <2>. QED  BY <2>2, <2>3, <2>4, OtherWindow
<1>. QED  BY <1>1, <1>2

(* What is beside the window looks as it did before the call.              *)
LEMMA BesideNow ==
  ASSUME NEW a, NEW v \in Win, NEW s, Sees(a, v, s), NEW t, Beside(v, s, t)
  PROVE  \A w \in Win \ {v} : SameView(w, Now, t)
BY DEF Sees, Beside, SameView

(* A window that nobody else works on                                      *)
LEMMA OwnWindow ==
  ASSUME TypesOK, CountsOK, WindowsOK, NEW a \in Agents \ {Pm}, ~Busy(a), NEW v \in Win, Apart(a, v),
         v \notin touched', NEW q, Belongs(a, v, file, q), NEW s, Sees(a, v, s)
  PROVE  Good(v, s) /\ Used(v, s, q) /\ Others(v, a) /\ ~Busy(Pm)
<1>1. v \notin touched /\ \A b \in Agents : Busy(b) => v \notin Scope(b)
  BY DEF Apart
<1>2. Rest(v)
  BY <1>1 DEF WindowsOK, Owned
<1>3. ~Busy(Pm)
  <2>1. Scope(Pm) = Win /\ Pm \in Agents
    BY S3cfbAssumption DEF Scope, Agents
  <2>. QED  BY <1>1, <2>1
<1>4. Good(v, s)
  <2>1. Due(todo[Pm], 0) = {}
    BY <1>3, NoneDue DEF Busy
  <2>2. Good(v, Now)
    BY <1>2, <2>1 DEF Rest, Good
  <2>. QED  BY <2>2 DEF Sees
<1>5. Others(v, a)
  BY <1>2 DEF Rest, Others
<1>6. Used(v, s, q)
  <2>1. CASE a = Sysfs
    <3>1. win[v].in_use # 0
      BY <2>1 DEF Apart
    <3>2. win[v] \in Window /\ s.win = win
      BY DEF TypesOK, IsState, Now, State, Sees
    <3>. QED  BY <3>1, <3>2 DEF Window, Used
  <2>2. CASE a \in Proc /\ file[a] = v
    <3>1. win[v].in_use > 0 /\ s.win = win
      BY <2>2, UserCounted DEF Sees
    <3>. QED  BY <3>1 DEF Used
  <2>3. CASE Ends(q, CountStep(v))
    BY <2>3 DEF Used
  <2>. QED  BY <2>1, <2>2, <2>3 DEF Belongs
<1>. QED  BY <1>3, <1>4, <1>5, <1>6

(* A call that runs whole                                                  *)
LEMMA WholeKeeps ==
  ASSUME DriverInv, NEW a \in Agents \ {Pm}, ~Busy(a), NEW v \in Win, Apart(a, v),
         NEW s, Sees(a, v, s), NEW q, Sound(a, v, s, q), NEW t, t = RunAll(a, s, q),
         Becomes(a, t, <<>>), over' = over, Belongs(a, v, file, q)
  PROVE  DriverInv'
<1>0. /\ TypesOK /\ CountsOK /\ CallsOK /\ WindowsOK /\ AloneOK /\ a \in Agents
      /\ IsState(s) /\ s.win = win /\ s.power = power /\ s.file = file
  BY DEF DriverInv, Sees
<1>1. IsCall(q, v) /\ MapKept(v, s, t)
  BY DEF Sound
<1>2. Beside(v, s, t) /\ Counted(a, v, s, t)
  BY <1>0, <1>1, BelongsCounts
<1>3. \A w \in Win \ {v} : SameView(w, Now, t)
  BY <1>2, BesideNow
<1>4. IsState(t) /\ t.power = power /\ \A b \in Proc \ {a} : t.file[b] = file[b]
  BY ONLY <1>0, <1>2, FilesStay
<1>5. /\ SameSystem(t, Now') /\ todo'[a] = <<>> /\ \A b \in Agents : Stays(b, a)
  BY <1>0, <1>4, BecomesIs
<1>6. TypesOK'
  <2>1. over' \in Nat
    BY <1>0 DEF TypesOK
  <2>. QED  BY <1>0, <1>4, <2>1, TypesRemain
<1>7. CountsOK'
  BY <1>0, <1>2, <1>5, UsersRemain
<1>8. CallsOK'
  BY <1>0, <1>4, CallsRemain
<1>9. WindowsOK'
  <2>1. ASSUME v \notin touched'
        PROVE  Rest(v)'
    <3>1. Good(v, s) /\ Used(v, s, q) /\ Others(v, a)
      BY <1>0, <2>1, OwnWindow
    <3>2. Good(v, t)
      BY <3>1 DEF Sound
    <3>. QED  BY <1>0, <1>4, <3>1, <3>2, OwnWindowEnds
  <2>. QED  BY <1>0, <1>3, <1>4, <2>1, WindowsRemain
<1>10. AloneOK'
  <2>1. ASSUME over = 0
        PROVE  Idle' /\ MapRight(Now')
    <3>1. Idle /\ MapRight(Now)
      BY <1>0, <2>1 DEF AloneOK
    <3>2. MapRight(s) /\ Heard(v, s)
      BY <3>1 DEF Sees
    <3>3. MapRight(t)
      BY <1>1, <1>2, <3>2, MapRemains
    <3>4. MapRight(Now')
      BY <1>5, <3>3, MapRightSame
    <3>5. Idle'
      BY <1>5, <3>1 DEF Idle, Busy, Stays
    <3>. QED  BY <3>4, <3>5
  <2>. QED  BY <2>1 DEF AloneOK
<1>. QED  BY <1>6, <1>7, <1>8, <1>9, <1>10 DEF DriverInv

(* Where agent a is overtaken in a call q on window v, r is left to do, and*)
(* that is a call that leaves v as it should be.                           *)
Stopped(a, v, s, t, q, r) ==
  /\ Beside(v, s, t) /\ Kept(v, s, t) /\ IsCall(r, v)
  /\ \A o : Ends(r, o) <=> Ends(q, o)
  /\ q \in Seq(StepsOn(v)) => r \in Seq(StepsOn(v))
  /\ Good(v, s) /\ Used(v, s, q) => Fine(v, t) /\ Good(v, RunAll(a, t, r))

(* A sound call that is overtaken stops so.                                *)
LEMMA SoundStops ==
  ASSUME NEW a, NEW v \in Win, NEW s, IsState(s), NEW q, Sound(a, v, s, q), NEW k \in 2 .. Len(q),
         NEW t, t = RunAll(a, s, SubSeq(q, 1, k - 1)), NEW r, r = SubSeq(q, k, Len(q))
  PROVE  Stopped(a, v, s, t, q, r)
<1>1. IsCall(q, v)
  BY DEF Sound
<1>2. Cut(a, v, s, q, k, t, r)
  BY <1>1, CallStops
<1>3. Good(v, s) /\ Used(v, s, q) => Fine(v, t) /\ Good(v, RunAll(a, t, r))
  BY <1>2 DEF Sound, Cut
<1>. QED  BY <1>2, <1>3 DEF Stopped, Cut

(* A call that is overtaken                                                *)
LEMMA StopKeeps ==
  ASSUME DriverInv, NEW a \in Agents \ {Pm}, ~Busy(a), NEW v \in Win, Apart(a, v),
         NEW s, Sees(a, v, s), NEW t, NEW q, NEW r, Stopped(a, v, s, t, q, r),
         Becomes(a, t, r), over' = over + 1, Belongs(a, v, file, q)
  PROVE  DriverInv'
<1>0. /\ TypesOK /\ CountsOK /\ CallsOK /\ WindowsOK /\ AloneOK /\ a \in Agents
      /\ IsState(s) /\ s.win = win /\ s.power = power /\ s.file = file
  BY DEF DriverInv, Sees
<1>1. Beside(v, s, t) /\ Kept(v, s, t) /\ IsCall(r, v) /\ Counted(a, v, s, t)
  BY DEF Stopped, Counted
<1>2. Belongs(a, v, file, r)
  BY DEF Belongs, Stopped
<1>3. \A w \in Win \ {v} : SameView(w, Now, t)
  BY <1>1, BesideNow
<1>4. IsState(t) /\ t.power = power /\ \A b \in Proc \ {a} : t.file[b] = file[b]
  BY <1>0, <1>1, FilesStay
<1>5. t.file = file
  BY <1>0, <1>1 DEF Kept
<1>6. /\ SameSystem(t, Now') /\ todo'[a] = r /\ \A b \in Agents : Stays(b, a)
  BY <1>0, <1>4, BecomesIs
<1>7. TypesOK' /\ over' # 0
  <2>1. over' \in Nat /\ over' # 0
    BY <1>0 DEF TypesOK
  <2>. QED  BY <1>0, <1>4, <2>1, TypesRemain
<1>8. CountsOK'
  BY <1>0, <1>1, <1>6, UsersRemain
<1>9. CallsOK'
  <2>1. \E u \in Win : IsCall(r, u) /\ Belongs(a, u, t.file, r)
    BY <1>1, <1>2, <1>5
  <2>. QED  BY <1>0, <1>4, <2>1, CallsRemain
<1>10. WindowsOK'
  <2>1. ASSUME v \notin touched'
        PROVE  Rest(v)' \/ Owned(v, a)'
    <3>1. Good(v, s) /\ Used(v, s, q) /\ Others(v, a) /\ ~Busy(Pm)
      BY <1>0, <2>1, OwnWindow
    <3>2. Fine(v, t) /\ Good(v, RunAll(a, t, r))
      BY <3>1 DEF Stopped
    <3>3. CASE r = <<>>
      <4>1. RunAll(a, t, r) = t
        BY <3>3, RunNone
      <4>2. Becomes(a, t, <<>>) /\ Good(v, t)
        BY <3>2, <3>3, <4>1
      <4>. QED  BY <1>0, <1>4, <3>1, <4>2, OwnWindowEnds
    <3>4. CASE r # <<>>
      <4>1. v \in Scope(a)'
        <5>1. CASE a = Sysfs
          BY <5>1, S3cfbAssumption DEF Scope
        <5>2. CASE a \in Proc /\ file[a] = v
          <6>1. file'[a] = v
            BY <1>5, <5>2 DEF Becomes
          <6>. QED  BY <6>1 DEF Scope
        <5>3. CASE Ends(r, CountStep(v))
          <6>1. v \in Opening(a)'
            BY <1>6, <5>3 DEF Ends, Opening, Busy, CountStep
          <6>. QED  BY <6>1 DEF Scope
        <5>. QED  BY <1>2, <5>1, <5>2, <5>3 DEF Belongs
      <4>. QED  BY <1>0, <1>1, <1>4, <3>1, <3>2, <3>4, <4>1, OwnWindowStops
    <3>. QED  BY <3>3, <3>4
  <2>. QED  BY <1>0, <1>1, <1>3, <1>4, <2>1, WindowsRemain
<1>11. AloneOK'
  BY <1>7 DEF AloneOK
<1>. QED  BY <1>7, <1>8, <1>9, <1>10, <1>11 DEF DriverInv

(* A call that does what is asked of it keeps the invariant.               *)
LEMMA EnterKeeps ==
  ASSUME DriverInv, NEW a \in Agents \ {Pm}, NEW v \in Win, NEW q, Enter(a, {v}, q),
         NEW s, s = Entered(a, {v}), Sound(a, v, s, q), Belongs(a, v, file, q)
  PROVE  DriverInv'
<1>1. /\ ~Busy(a) /\ Apart(a, v)
      /\ \/ Becomes(a, RunAll(a, s, q), <<>>) /\ over' = over
         \/ \E k \in 2 .. Len(q) :
              /\ over' = over + 1
              /\ Becomes(a, RunAll(a, s, SubSeq(q, 1, k - 1)), SubSeq(q, k, Len(q)))
  BY EnterApart
<1>2. Sees(a, v, s) /\ IsState(s)
  BY EnteredSees DEF DriverInv, Sees
<1>3. CASE Becomes(a, RunAll(a, s, q), <<>>) /\ over' = over
  BY <1>1, <1>2, <1>3, WholeKeeps
<1>4. ASSUME NEW k \in 2 .. Len(q), over' = over + 1,
             Becomes(a, RunAll(a, s, SubSeq(q, 1, k - 1)), SubSeq(q, k, Len(q)))
      PROVE  DriverInv'
  <2> DEFINE t == RunAll(a, s, SubSeq(q, 1, k - 1))
             r == SubSeq(q, k, Len(q))
  <2>1. Stopped(a, v, s, t, q, r)
    BY <1>2, SoundStops
  <2>2. Becomes(a, t, r)
    BY <1>4
  <2>. HIDE DEF t, r
  <2>. QED  BY <1>1, <1>2, <1>4, <2>1, <2>2, StopKeeps
<1>. QED  BY <1>1, <1>3, <1>4

(* An overtaken call of a process or sysfs goes on.                        *)
LEMMA GoOnKeeps ==
  ASSUME DriverInv, NEW a \in Agents \ {Pm}, Continue(a)
  PROVE  DriverInv'
<1> DEFINE t == RunAll(a, State(a), todo[a])
<1>0. /\ TypesOK /\ CountsOK /\ CallsOK /\ WindowsOK /\ AloneOK /\ a \in Agents
      /\ Busy(a) /\ Becomes(a, t, <<>>) /\ over' = over /\ touched' = touched
  BY DEF DriverInv, Continue
<1>1. PICK v \in Win : IsCall(todo[a], v) /\ Belongs(a, v, file, todo[a])
  BY <1>0 DEF CallsOK
<1>2. IsState(State(a)) /\ State(a).win = win /\ State(a).power = power /\ State(a).file = file
  BY <1>0, StateIs
<1>3. Beside(v, State(a), t) /\ Counted(a, v, State(a), t)
  BY <1>1, <1>2, BelongsCounts
<1>. HIDE DEF t
<1>5. IsState(t) /\ t.power = power /\ \A b \in Proc \ {a} : t.file[b] = file[b]
  BY <1>0, <1>2, <1>3, FilesStay
<1>6. SameSystem(t, Now')
  BY <1>0, <1>5, BecomesIs
<1>7. TypesOK'
  <2>1. over' \in Nat
    BY <1>0 DEF TypesOK
  <2>. QED  BY <1>0, <1>5, <2>1, TypesRemain
<1>8. CountsOK'
  BY <1>0, <1>2, <1>3, <1>6, UsersRemain
<1>9. CallsOK'
  BY <1>0, <1>5, CallsRemain
<1>10. WindowsOK'
  <2> SUFFICES ASSUME NEW w \in Win, w \notin touched
               PROVE  Rest(w)' \/ \E c \in Agents : Owned(w, c)'
    BY <1>0 DEF WindowsOK
  <2>1. ASSUME Rest(w) \/ \E c \in Agents : c # a /\ Owned(w, c)
        PROVE  Rest(w)' \/ \E c \in Agents : Owned(w, c)'
    <3>1. Spares(a, w)
      BY <1>0, <2>1 DEF Rest, Others, Owned
    <3>2. PICK u \in Win \ {w} : IsCall(todo[a], u)
      BY <3>1 DEF Spares
    <3>3. Beside(u, State(a), t)
      BY <1>2, <3>2, CallCounts DEF t
    <3>4. SameView(w, Now, t)
      <4>1. SameView(w, State(a), t)
        BY <3>3 DEF Beside
      <4>2. SameView(w, Now, State(a))
        BY <1>0, StateIs, SystemViews
      <4>. QED  BY <4>1, <4>2 DEF SameView
    <3>5. <<>> # <<>> => \E x \in Win \ {w} : IsCall(<<>>, x)
      OBVIOUS
    <3>. QED  BY <1>0, <1>5, <2>1, <3>4, <3>5, OtherWindow
  <2>2. ASSUME Owned(w, a)
        PROVE  Rest(w)'
    BY <1>0, <1>5, <2>2, OwnWindowEnds DEF Owned, t
  <2>. QED  BY <1>0, <2>1, <2>2 DEF WindowsOK
<1>11. AloneOK'
  <2>1. over' # 0
    BY <1>0 DEF AloneOK, Idle
  <2>. QED  BY <2>1 DEF AloneOK
<1>. QED  BY <1>7, <1>8, <1>9, <1>10, <1>11 DEF DriverInv

(* Opening a window, with success or without, keeps the invariant.         *)
LEMMA OpenKeeps ==
  ASSUME DriverInv, NEW a \in Proc, NEW v \in Win, Open(a, v)
  PROVE  DriverInv'
<1> DEFINE s == Entered(a, {v})
           q == s3cfb_open(v)
<1>1. file[a] = NULL /\ Enter(a, {v}, q) /\ a \in Agents \ {Pm}
  BY S3cfbAssumption DEF Open, Call, Agents
<1>2. IsState(s)
  BY <1>1, EnteredSees DEF DriverInv, Sees
<1>3. Sound(a, v, s, q)
  <2>. HIDE DEF s
  <2>. QED  BY <1>2, OpenSound
<1>4. Belongs(a, v, file, q)
  <2>1. Ends(q, CountStep(v))
    <3> DEFINE o == [do |-> "lock"]
               c == CountStep(v)
    <3>1. q = <<o>> \o <<c>>
      BY DEF s3cfb_open, Locked, CountStep
    <3>. HIDE DEF o, c, q
    <3>2. Len(q) = 2 /\ q[2] = c
      <4>1. <<o>> \in Seq({o, c}) /\ <<c>> \in Seq({o, c})
        OBVIOUS
      <4>. QED  BY ONLY <3>1, <4>1, ConcatProperties
    <3>3. Ends(q, c)
      <4>1. q # <<>>
        BY ONLY <3>2
      <4>. QED  BY <3>2, <4>1 DEF Ends
    <3>. QED  BY <3>3 DEF c
  <2>. HIDE DEF q
  <2>. QED  BY <1>1, <2>1 DEF Belongs
<1>. HIDE DEF q, s
<1>5. s = Entered(a, {v})
  BY DEF s
<1>. QED  BY <1>1, <1>3, <1>4, <1>5, EnterKeeps

(* What is asked of a call on a window that the agent does not open, from  *)
(* any state in which it may begin                                         *)
Suits(a, w, q) ==
  ~Ends(q, CountStep(w)) /\ \A s : IsState(s) /\ Heard(w, s) /\ s.start = 0 => Sound(a, w, s, q)

(* An agent without a call starts from such a state.                       *)
LEMMA SuitsSound ==
  ASSUME DriverInv, NEW a \in Agents \ {Pm}, ~Busy(a), NEW w \in Win, NEW q, Suits(a, w, q),
         NEW s, s = Entered(a, {w})
  PROVE  Sound(a, w, s, q)
<1>1. IsState(s) /\ Heard(w, s) /\ s.start = start[a]
  BY EnteredSees DEF DriverInv, Sees
<1>2. start[a] = 0
  BY DEF DriverInv, TypesOK
<1>. QED  BY <1>1, <1>2 DEF Suits

(* The calls of a process on the window it has open                        *)
LEMMA OwnKeeps ==
  ASSUME DriverInv, NEW a \in Proc, NEW q, Own(a, q),
         file[a] \in Win => Suits(a, file[a], q)
  PROVE  DriverInv'
<1>1. file[a] \in Win /\ Enter(a, {file[a]}, q) /\ a \in Agents \ {Pm}
  BY S3cfbAssumption DEF DriverInv, TypesOK, IsState, Now, State, Own, Call, Agents
<1>2. PICK s : s = Entered(a, {file[a]})
  OBVIOUS
<1>3. Belongs(a, file[a], file, q)
  BY <1>1 DEF Belongs, Suits
<1>4. ~Busy(a)
  BY <1>1 DEF Enter
<1>5. Sound(a, file[a], s, q)
  BY <1>1, <1>2, <1>4, SuitsSound
<1>. QED  BY <1>1, <1>2, <1>3, <1>5, EnterKeeps

(* The fields of the windows are what they may be.                         *)
LEMMA WindowTypes ==
  ASSUME DriverInv
  PROVE  \A w \in Win : win[w].x \in Int /\ win[w].xres \in Int
BY DEF DriverInv, TypesOK, IsState, Now, State, Window

(* Turning the window on or off, with any mode of blank,                   *)
LEMMA WindowSuits ==
  ASSUME NEW a, NEW w \in Win
  PROVE  /\ \A on \in BOOLEAN : Suits(a, w, s3cfb_set_window(w, on))
         /\ \A mode \in {"unblank", "normal", "powerdown"} : Suits(a, w, s3cfb_blank(w, mode))
<1>1. \A on \in BOOLEAN : ~Ends(s3cfb_set_window(w, on), CountStep(w))
  BY SetWindowBare, BareSteps
<1>2. ~Ends(<<>>, CountStep(w))
  BY DEF Ends
<1>3. \A on \in BOOLEAN : Suits(a, w, s3cfb_set_window(w, on))
  BY <1>1, SetWindowSound DEF Suits
<1>4. ASSUME NEW mode \in {"unblank", "normal", "powerdown"}
      PROVE  Suits(a, w, s3cfb_blank(w, mode))
  <2>1. ~Ends(s3cfb_set_window(w, TRUE), CountStep(w)) /\ ~Ends(s3cfb_set_window(w, FALSE), CountStep(w))
    BY <1>1, Zenon
  <2>2. ~Ends(s3cfb_blank(w, mode), CountStep(w))
    BY <1>2, <2>1 DEF s3cfb_blank
  <2>. QED  BY <2>2, BlankSound DEF Suits
<1>. QED  BY <1>3, <1>4

(* closing it, setting its geometry, panning, moving it, its transparency  *)
(* and its chroma key: what is asked of all of them                        *)
LEMMA OtherSuits ==
  ASSUME NEW a, NEW w \in Win, win[w].x \in Int, win[w].xres \in Int
  PROVE  /\ Suits(a, w, s3cfb_release(w))
         /\ \A v \in Vars, ok \in BOOLEAN : Suits(a, w, fb_set_var(w, v, ok))
         /\ \A y \in Int : \A rows : Suits(a, w, s3cfb_pan_display(w, y, rows))
         /\ \A x \in Places : Suits(a, w, WinPosition(w, x))
         /\ Suits(a, w, SetPlaneAlpha(w))
         /\ \A key \in Keys : Suits(a, w, SetChroma(w, key))
<1>1. Suits(a, w, s3cfb_release(w))
  BY ReleaseSound, ReleaseEndsIt DEF Suits
<1>2. \A q : Smooth(q, w, a) => ~Ends(q, CountStep(w))
  BY BareSteps DEF Smooth
<1>3. \A v \in Vars, ok \in BOOLEAN : Suits(a, w, fb_set_var(w, v, ok))
  BY <1>2, VarPaints, VarSound DEF Suits
<1>4. \A y \in Int : \A rows : Suits(a, w, s3cfb_pan_display(w, y, rows))
  BY <1>2, PanHolds, PanSound DEF Suits
<1>5. \A x \in Places : Suits(a, w, WinPosition(w, x))
  BY <1>2, PositionSmooth, PositionSound DEF Suits
<1>6. Suits(a, w, SetPlaneAlpha(w))
  BY <1>2, AlphaHolds, AlphaSound DEF Suits
<1>7. \A key \in Keys : Suits(a, w, SetChroma(w, key))
  BY <1>2, ChromaHolds, ChromaSound DEF Suits
<1>. QED  BY <1>1, <1>3, <1>4, <1>5, <1>6, <1>7

(* Every call of a process on its window keeps the invariant,              *)
LEMMA ProcKeeps ==
  ASSUME DriverInv, NEW a \in Proc,
         \/ Release(a) \/ (\E v \in Vars, ok \in BOOLEAN : SetVar(a, v, ok))
         \/ (\E y \in 0 .. 1 : Pan(a, y))
         \/ (\E mode \in {"unblank", "normal", "powerdown"} : Blank(a, mode))
         \/ s3cfb_ioctl(a)
  PROVE  DriverInv'
<1> DEFINE w == file[a]
<1>0. w \in Win => win[w].x \in Int /\ win[w].xres \in Int
  BY WindowTypes
<1>1. PICK q : /\ Own(a, q)
               /\ \/ q = s3cfb_release(w) \/ q = SetPlaneAlpha(w)
                  \/ \E v \in Vars, ok \in BOOLEAN : q = fb_set_var(w, v, ok)
                  \/ \E y \in 0 .. 1 : q = s3cfb_pan_display(w, y, win[w].rows)
                  \/ \E mode \in {"unblank", "normal", "powerdown"} : q = s3cfb_blank(w, mode)
                  \/ \E x \in Places : q = WinPosition(w, x)
                  \/ \E key \in Keys : q = SetChroma(w, key)
  BY DEF Release, SetVar, Pan, Blank, s3cfb_ioctl
<1>2. 0 .. 1 \subseteq Int
  OBVIOUS
<1>3. w \in Win => Suits(a, w, q)
  <2>. HIDE DEF w
  <2>. QED  BY <1>0, <1>1, <1>2, WindowSuits, OtherSuits
<1>. QED  BY <1>1, <1>3, OwnKeeps

(* and so does win_power, on any window.                                   *)
LEMMA SysfsKeeps ==
  ASSUME DriverInv, NEW w \in Win, NEW on \in BOOLEAN, StoreWinPower(w, on)
  PROVE  DriverInv'
<1> DEFINE q == s3cfb_set_window(w, on)
<1>1. Enter(Sysfs, {w}, q) /\ Sysfs \in Agents \ {Pm} /\ ~Busy(Sysfs)
  BY S3cfbAssumption DEF StoreWinPower, Agents, Enter
<1>2. Suits(Sysfs, w, q)
  BY WindowSuits
<1>3. Belongs(Sysfs, w, file, q)
  BY SetWindowBare DEF Bare, Part, Belongs
<1>4. PICK s : s = Entered(Sysfs, {w})
  OBVIOUS
<1>. HIDE DEF q
<1>5. Sound(Sysfs, w, s, q)
  BY <1>1, <1>2, <1>4, SuitsSound
<1>. QED  BY <1>1, <1>3, <1>4, <1>5, EnterKeeps

-----------------------------------------------------------------------------
(* Suspend and resume keep it                                              *)

(* The power management sees the system as it is.                          *)
LEMMA PmSees ==
  ASSUME DriverInv
  PROVE  Entered(Pm, Win) = Now /\ IsState(Now) /\ Pm \in Agents
<1>1. IsState(Now) /\ Now = State(Pm) /\ Pm \in Agents
  BY DEF DriverInv, TypesOK, Now, Agents
<1>2. Entered(Pm, Win) = [Now EXCEPT !.missed = Now.missed]
  BY <1>1 DEF Entered
<1>3. [Now EXCEPT !.missed = Now.missed] = Now
  <2>. HIDE DEF Now
  <2>. QED  BY <1>1 DEF IsState
<1>. QED  BY <1>1, <1>2, <1>3

(* What is left of a suspend or resume depends on the power only.          *)
LEMMA HandlesSame ==
  ASSUME NEW s, NEW t, t.power = s.power, NEW q, Handles(s, q)
  PROVE  Handles(t, q)
BY DEF Handles

(* A step of power management keeps the invariant.                         *)
LEMMA CalmKeeps ==
  ASSUME DriverInv, NEW t, NEW rest, Becomes(Pm, t, rest),
         Calm(t, Now, Due(todo[Pm], 0), Due(rest, 0)), rest # <<>> => Handles(t, rest),
         \A w \in Win \ touched' : Rest(w),
         over' \in Nat, over' = 0 => over = 0 /\ rest = <<>>
  PROVE  DriverInv'
<1>0. /\ TypesOK /\ CountsOK /\ CallsOK /\ WindowsOK /\ AloneOK /\ Pm \in Agents
      /\ IsState(t) /\ Now.file = file /\ Now.win = win /\ t.file = file
  BY DEF DriverInv, Agents, Calm, Now, State
<1>1. /\ SameSystem(t, Now') /\ todo'[Pm] = rest /\ \A b \in Agents : Stays(b, Pm)
  BY <1>0, BecomesIs
<1>2. file' = file /\ win' = t.win /\ Now'.power = t.power
  BY <1>0, <1>1 DEF SameSystem, Now, State
<1>3. \A b \in Agents \ {Pm} : todo'[b] = todo[b]
  BY <1>1 DEF Stays
<1>5. TypesOK'
  BY <1>0, TypesRemain
<1>6. CountsOK'
  <2>1. \A w \in Win : Users(w)' = Users(w) /\ win'[w].in_use = win[w].in_use
    BY <1>0, <1>2 DEF Users, Calm
  <2>. QED  BY <1>0, <2>1 DEF CountsOK
<1>7. CallsOK'
  <2>1. ASSUME NEW b \in Agents \ {Pm}, Busy(b)'
        PROVE  \E v \in Win : IsCall(todo'[b], v) /\ Belongs(b, v, file', todo'[b])
    <3>1. todo'[b] = todo[b]
      BY <1>3
    <3>. QED  BY <1>0, <1>2, <2>1, <3>1 DEF CallsOK, Busy
  <2>3. ASSUME Busy(Pm)'
        PROVE  Handles(Now', todo'[Pm])
    <3>1. Handles(t, rest)
      BY <1>1, <2>3 DEF Busy
    <3>2. Handles(Now', rest)
      BY <1>2, <3>1, HandlesSame
    <3>. QED  BY <1>1, <3>2
  <2>. QED  BY <2>1, <2>3 DEF CallsOK
<1>8. WindowsOK'
  <2> SUFFICES ASSUME NEW w \in Win, w \notin touched'
               PROVE  Rest(w)'
    BY DEF WindowsOK
  <2>1. Rest(w)
    OBVIOUS
  <2>2. Shown(w, Now', Due(todo'[Pm], 0))
    <3>1. Shown(w, t, Due(rest, 0))
      BY <2>1 DEF Rest, Calm
    <3>. QED  BY <1>1, <3>1, SystemViews
  <2>3. Others(w, Pm)'
    BY <1>3, <2>1 DEF Rest, Others, Busy, Spares
  <2>. QED  BY <2>2, <2>3 DEF Rest
<1>9. AloneOK'
  <2>1. ASSUME over' = 0
        PROVE  Idle' /\ MapRight(Now')
    <3>1. Idle /\ MapRight(Now) /\ rest = <<>>
      BY <1>0, <2>1 DEF AloneOK
    <3>2. MapRight(t)
      <4>1. todo[Pm] = <<>>
        BY <1>0, <3>1 DEF Idle, Busy
      <4>2. Due(<<>>, 0) = {}
        BY NoneDue
      <4>. QED  BY <3>1, <4>1, <4>2 DEF Calm, MapRight
    <3>3. MapRight(Now')
      BY <1>1, <3>2, MapRightSame
    <3>4. Idle'
      BY <1>1, <1>3, <3>1 DEF Idle, Busy
    <3>. QED  BY <3>3, <3>4
  <2>. QED  BY <2>1 DEF AloneOK
<1>. QED  BY <1>5, <1>6, <1>7, <1>8, <1>9 DEF DriverInv

(* A suspend or a resume begins.                                           *)
LEMMA ManagedKeeps ==
  ASSUME DriverInv, NEW q, Enter(Pm, Win, q), Managed(Pm, Now, q)
  PROVE  DriverInv'
<1> DEFINE s == Now
<1>1. s = Now /\ Managed(Pm, s, q)
  OBVIOUS
<1>2. /\ WindowsOK /\ over \in Nat /\ todo[Pm] = <<>>
      /\ \/ Becomes(Pm, RunAll(Pm, s, q), <<>>) /\ over' = over
         \/ \E k \in 2 .. Len(q) :
              /\ over' = over + 1
              /\ Becomes(Pm, RunAll(Pm, s, SubSeq(q, 1, k - 1)), SubSeq(q, k, Len(q)))
  BY PmSees DEF Enter, DriverInv, TypesOK, Busy
<1>3. \A w \in Win \ touched' : Rest(w)
  <2>1. \A w \in Win \ touched' : /\ w \notin touched
                                  /\ \A b \in Agents : Busy(b) => w \notin Scope(b)
    BY DEF Enter
  <2>. QED  BY <1>2, <2>1 DEF WindowsOK, Owned
<1>4. Due(todo[Pm], 0) = {} /\ Due(<<>>, 0) = {}
  BY <1>2, NoneDue
<1>. HIDE DEF s
<1>5. CASE Becomes(Pm, RunAll(Pm, s, q), <<>>) /\ over' = over
  <2>1. Calm(RunAll(Pm, s, q), Now, Due(todo[Pm], 0), Due(<<>>, 0))
    BY <1>1, <1>4 DEF Managed
  <2>. QED  BY <1>2, <1>3, <1>5, <2>1, CalmKeeps
<1>6. ASSUME NEW k \in 2 .. Len(q), over' = over + 1,
             Becomes(Pm, RunAll(Pm, s, SubSeq(q, 1, k - 1)), SubSeq(q, k, Len(q)))
      PROVE  DriverInv'
  <2> DEFINE t == RunAll(Pm, s, SubSeq(q, 1, k - 1))
             r == SubSeq(q, k, Len(q))
  <2>1. Calm(t, s, {}, Due(r, 0)) /\ Handles(t, r) /\ Becomes(Pm, t, r)
    BY <1>1, <1>6 DEF Managed
  <2>. HIDE DEF t, r
  <2>2. over' \in Nat /\ over' # 0
    BY <1>2, <1>6
  <2>. QED  BY <1>1, <1>3, <1>4, <2>1, <2>2, CalmKeeps
<1>. QED  BY <1>2, <1>5, <1>6

(* One that was overtaken goes on.                                         *)
LEMMA PmGoesOn ==
  ASSUME DriverInv, Continue(Pm)
  PROVE  DriverInv'
<1> DEFINE s == State(Pm)
           t == RunAll(Pm, s, todo[Pm])
<1>1. /\ Busy(Pm) /\ Becomes(Pm, t, <<>>) /\ over' = over /\ touched' = touched
      /\ TypesOK /\ CallsOK /\ WindowsOK /\ AloneOK /\ Pm \in Agents /\ over \in Nat
  BY DEF Continue, DriverInv, TypesOK, Agents
<1>2. IsState(s) /\ Now = s
  BY <1>1, StateIs DEF Now
<1>3. Calm(t, Now, Due(todo[Pm], 0), Due(<<>>, 0))
  <2>1. Handles(s, todo[Pm])
    BY <1>1, <1>2 DEF CallsOK
  <2>. HIDE DEF s
  <2>2. Calm(t, s, Due(todo[Pm], 0), {})
    BY <1>2, <2>1, HandlesCalm
  <2>. QED  BY <1>2, <2>2, NoneDue
<1>4. \A w \in Win \ touched' : Rest(w)
  BY <1>1 DEF WindowsOK, Owned
<1>5. over # 0
  BY <1>1 DEF AloneOK, Idle
<1>. HIDE DEF s, t
<1>. QED  BY <1>1, <1>3, <1>4, <1>5, CalmKeeps

(* Suspend and resume keep the invariant.                                  *)
LEMMA PmKeeps ==
  ASSUME DriverInv, NEW b \in BOOLEAN, EarlySuspend(b) \/ LateResume(b)
  PROVE  DriverInv'
<1>1. IsState(Now)
  BY PmSees
<1>2. CASE EarlySuspend(b)
  <2>1. Enter(Pm, Win, s3cfb_early_suspend(b))
    BY <1>2 DEF EarlySuspend
  <2>2. Managed(Pm, Now, s3cfb_early_suspend(b))
    BY <1>1, SuspendManaged
  <2>. QED  BY <2>1, <2>2, ManagedKeeps
<1>3. CASE LateResume(b)
  <2>1. Enter(Pm, Win, s3cfb_late_resume(b))
    BY <1>3 DEF LateResume
  <2>2. Managed(Pm, Now, s3cfb_late_resume(b))
    BY <1>1, ResumeManaged
  <2>. QED  BY <2>1, <2>2, ManagedKeeps
<1>. QED  BY <1>2, <1>3

-----------------------------------------------------------------------------
(* The theorems about the driver                                           *)

(* What the probe leaves in the registers of a window                      *)
LEMMA InitialRegs ==
  ASSUME Init
  PROVE  /\ reg = [r \in Regs |-> reg[r]]
         /\ reg[WINSHMAP] = {Ch(Default)}
         /\ {"ENWIN", "32BPP"} \subseteq reg[WINCON(Default)]
         /\ reg[WINCON(Default)] \subseteq {"ENWIN", "32BPP", "BLD_PIXEL"}
         /\ Default > 0 => "BLD_PIXEL" \in reg[WINCON(Default)]
         /\ reg[<<"VIDADDR", Default>>] = 1 /\ reg[<<"VIDOSD_B", Default>>] = Width
         /\ reg[<<"KEYCON", Default>>] = 0
         /\ \A w \in Win \ {Default} : reg[WINCON(w)] = {} /\ reg[<<"VIDADDR", w>>] = 0
<1> DEFINE First(r) ==
       CASE r = VIDCON0 -> {"VIDOUT_RGB", "RGB_P", "CLKVAL", "ENVID", "ENVID_F"}
         [] r = VIDINTCON0 -> {"INTFRM", "INT", "VSYNC"}
         [] r = WINSHMAP -> {Ch(Default)}
         [] r = WINCON(Default) -> {"ENWIN", "32BPP"} \cup
                                   (IF Default = 0 THEN {} ELSE {"BLD_PIXEL"})
         [] r \in {<<"VIDADDR", Default>>} \cup {<<v>> : v \in {"VIDCON1", "VIDTCON0",
                    "VIDTCON1", "VIDTCON2"}} -> 1
         [] r[1] \in {"VIDOSD_B", "VIDOSD_SIZE", "VIDADDR_SIZE"} /\ r[2] = Default ->
              IF r[1] = "VIDOSD_SIZE" /\ Default > 2 THEN 0 ELSE Width
         [] r = <<"VIDOSD_C", Default>> /\ Default > 0 -> "BLD_PIXEL"
         [] OTHER -> Reset[r]
<1>1. reg = [r \in Regs |-> reg[r]] /\ \A r \in Regs : reg[r] = First(r)
  <2>1. reg = [r \in Regs |-> First(r)]
    BY DEF Init, Regs
  <2>. HIDE DEF First
  <2>. QED  BY <2>1
<1>2. Default \in Win
  BY S3cfbAssumption
<1>3. \A w \in Win : /\ WINCON(w) = <<"WINCON", w>>
                     /\ {WINCON(w), <<"VIDADDR", w>>, <<"VIDOSD_B", w>>, <<"KEYCON", w>>, WINSHMAP} \subseteq Regs
  BY RegsDistinct DEF WINCON
<1>4. \A w \in Win : Reset[WINCON(w)] = {} /\ Reset[<<"VIDADDR", w>>] = 0 /\ Reset[<<"KEYCON", w>>] = 0
  <2>1. \A w \in Win : WINCON(w) \in FieldRegs
    BY DEF FieldRegs
  <2>2. \A w \in Win : <<"VIDADDR", w>> \notin FieldRegs /\ <<"KEYCON", w>> \notin FieldRegs
    BY DEF FieldRegs, VIDCON0, VIDINTCON0, WINSHMAP, WINCON
  <2>. QED  BY <1>3, <2>1, <2>2 DEF Reset, Regs
<1>5. First(WINSHMAP) = {Ch(Default)}
  BY DEF VIDCON0, VIDINTCON0, WINSHMAP, WINCON
<1>6. First(WINCON(Default)) = {"ENWIN", "32BPP"} \cup (IF Default = 0 THEN {} ELSE {"BLD_PIXEL"})
  BY DEF VIDCON0, VIDINTCON0, WINSHMAP, WINCON
<1>7. /\ First(<<"VIDADDR", Default>>) = 1
      /\ First(<<"VIDOSD_B", Default>>) = Width
  BY DEF VIDCON0, VIDINTCON0, WINSHMAP, WINCON
<1>8. First(<<"KEYCON", Default>>) = 0
  BY <1>2, <1>4 DEF VIDCON0, VIDINTCON0, WINSHMAP, WINCON
<1>9. \A w \in Win \ {Default} : First(WINCON(w)) = {} /\ First(<<"VIDADDR", w>>) = 0
  BY <1>4 DEF VIDCON0, VIDINTCON0, WINSHMAP, WINCON
<1>. HIDE DEF First
<1>10. Default > 0 => Default # 0
  BY <1>2 DEF Win
<1>. QED  BY <1>1, <1>2, <1>3, <1>5, <1>6, <1>7, <1>8, <1>9, <1>10

(* What the probe leaves satisfies the invariant,                          *)
LEMMA DriverInit ==
  ASSUME Init
  PROVE  DriverInv
<1>1. TypesOK
  <2>1. reg = [r \in Regs |-> reg[r]]
    BY InitialRegs
  <2>2. win \in [Win -> Window]
    BY S3cfbAssumption DEF Init, Window, Formats, Blends
  <2>3. IsState(Now)
    <3>1. /\ power = TRUE /\ lost = {} /\ missed = {} /\ file = [p \in Proc |-> NULL]
      BY DEF Init
    <3>. QED  BY <2>1, <2>2, <3>1 DEF Now, State, IsState
  <2>4. /\ over \in Nat /\ todo = [a \in Agents |-> todo[a]]
        /\ cfg = [a \in Agents |-> cfg[a]] /\ start = [a \in Agents |-> start[a]]
        /\ \A a \in Agents : ~Busy(a) => start[a] = 0
    BY DEF Init
  <2>. QED  BY <2>3, <2>4 DEF TypesOK
<1>2. \A a \in Agents : ~Busy(a)
  BY DEF Init, Busy
<1>3. CountsOK
  <2>1. \A w \in Win : Users(w) = {}
    BY S3cfbAssumption DEF Init, Users
  <2>2. IsFiniteSet({}) /\ Cardinality({}) = 0
    BY FS_EmptySet
  <2>3. \A w \in Win : win[w].in_use = 0
    BY DEF Init
  <2>. QED  BY <2>1, <2>2, <2>3 DEF CountsOK
<1>4. CallsOK
  BY <1>2 DEF CallsOK, Agents
<1>5. /\ Default \in Win /\ lost = {} /\ Width \in Int
      /\ win[Default].enabled = TRUE /\ win[Default].mem = TRUE /\ win[Default].x = 0
      /\ win[Default].xres = Width /\ win[Default].yoffset = 0 /\ win[Default].format = "32BPP"
      /\ win[Default].alpha = "BLD_PIXEL" /\ win[Default].chroma = 0
      /\ \A w \in Win \ {Default} : win[w].enabled = FALSE /\ win[w].mem = FALSE /\ win[w].x = 0
  <2> DEFINE Made(w) ==
        [enabled |-> w = Default, mem |-> w = Default, in_use |-> 0, x |-> 0,
         xres |-> Width, rows |-> 1, yoffset |-> 0, format |-> "32BPP",
         alpha |-> "BLD_PIXEL", chroma |-> 0]
  <2>1. \A w \in Win : win[w] = Made(w)
    BY DEF Init
  <2>2. Default \in Win /\ Width \in Int /\ lost = {}
    BY S3cfbAssumption DEF Init
  <2>3. /\ win[Default].enabled = TRUE /\ win[Default].mem = TRUE
        /\ \A w \in Win \ {Default} : win[w].enabled = FALSE /\ win[w].mem = FALSE
    <3>1. \A w \in Win : Made(w).enabled = (w = Default) /\ Made(w).mem = (w = Default)
      OBVIOUS
    <3>. HIDE DEF Made
    <3>. QED  BY <2>1, <2>2, <3>1, ZenonT(30)
  <2>4. \A w \in Win : /\ win[w].x = 0 /\ win[w].xres = Width /\ win[w].yoffset = 0
                        /\ win[w].format = "32BPP" /\ win[w].alpha = "BLD_PIXEL" /\ win[w].chroma = 0
    <3>1. \A w : /\ Made(w).x = 0 /\ Made(w).xres = Width /\ Made(w).yoffset = 0
                 /\ Made(w).format = "32BPP" /\ Made(w).alpha = "BLD_PIXEL" /\ Made(w).chroma = 0
      OBVIOUS
    <3>. HIDE DEF Made
    <3>. QED  BY <2>1, <3>1
  <2>. QED  BY <2>2, <2>3, <2>4
<1>6. Follows(Default, Now)
  <2>1. Lit(Default, Now)
    BY <1>5, InitialRegs DEF Lit, Now, State
  <2>2. Addressed(Default, Now)
    BY <1>5, InitialRegs DEF Addressed, Address, Now, State
  <2>3. Formatted(Default, Now)
    <3>1. "32BPP" \in BppMode /\ "ENWIN" \notin BppMode /\ "BLD_PIXEL" \notin BppMode
      BY DEF BppMode, Formats
    <3>2. reg[WINCON(Default)] \cap BppMode = {"32BPP"} \cap BppMode
      BY <3>1, InitialRegs
    <3>. QED  BY <1>5, <3>2 DEF Formatted, Now, State
  <2>4. Appears(Default, Now)
    BY <1>5, <2>3, InitialRegs DEF Appears, Placed, Blended, Keyed, Now, State
  <2>. QED  BY <2>1, <2>2, <2>4 DEF Follows, Pictured
<1>7. \A w \in Win \ {Default} : Follows(w, Now)
  BY <1>5, InitialRegs DEF Follows, Pictured, Addressed, Address, Lit, Now, State
<1>8. \A w \in Win : Unused(w, Now)
  BY <1>5 DEF Unused, Now, State
<1>b. \A w \in Win : Based(w, Now)
  BY <1>5, InitialRegs DEF Based, Now, State
<1>9. WindowsOK
  <2>1. \A w \in Win : Shown(w, Now, Due(todo[Pm], 0))
    BY <1>6, <1>7, <1>8, <1>b DEF Shown
  <2>. QED  BY <1>2, <2>1 DEF WindowsOK, Rest, Others
<1>10. AloneOK
  <2>1. \A w \in Win : Protect(w) \notin reg[WINSHMAP] /\ (Ch(w) \in reg[WINSHMAP] <=> w = Default)
    BY InitialRegs DEF Ch, Protect
  <2>2. MapRight(Now)
    BY <1>5, <2>1 DEF MapRight, Channels, Chan, Matches, Now, State
  <2>. QED  BY <1>2, <2>2 DEF AloneOK, Idle
<1>. QED  BY <1>1, <1>3, <1>4, <1>9, <1>10 DEF DriverInv

(* and every action keeps it.                                              *)
LEMMA DriverNext ==
  ASSUME DriverInv, [Next]_vars
  PROVE  DriverInv'
<1>1. ASSUME NEW a \in Proc, NEW w \in Win, Open(a, w)
      PROVE  DriverInv'
  BY <1>1, OpenKeeps
<1>2. ASSUME NEW a \in Proc,
             \/ Release(a) \/ (\E v \in Vars, ok \in BOOLEAN : SetVar(a, v, ok))
             \/ (\E y \in 0 .. 1 : Pan(a, y))
             \/ (\E mode \in {"unblank", "normal", "powerdown"} : Blank(a, mode))
             \/ s3cfb_ioctl(a)
      PROVE  DriverInv'
  BY <1>2, ProcKeeps
<1>3. ASSUME NEW w \in Win, NEW on \in BOOLEAN, StoreWinPower(w, on)
      PROVE  DriverInv'
  BY <1>3, SysfsKeeps
<1>4. ASSUME NEW b \in BOOLEAN, EarlySuspend(b) \/ LateResume(b)
      PROVE  DriverInv'
  BY <1>4, PmKeeps
<1>5. ASSUME NEW a \in Agents, Continue(a)
      PROVE  DriverInv'
  BY <1>5, GoOnKeeps, PmGoesOn
<1>6. CASE UNCHANGED vars
  <2>1. /\ reg' = reg /\ win' = win /\ power' = power /\ lock' = lock /\ file' = file
        /\ todo' = todo /\ cfg' = cfg /\ start' = start /\ touched' = touched
        /\ lost' = lost /\ missed' = missed /\ over' = over
    BY <1>6 DEF vars
  <2>2. Now' = Now /\ \A a \in Agents : (Busy(a)' <=> Busy(a)) /\ State(a)' = State(a) /\ Scope(a)' = Scope(a)
    BY <2>1 DEF Now, State, Busy, Scope, Opening
  <2>3. TypesOK'
    BY <2>1, <2>2 DEF DriverInv, TypesOK
  <2>4. CountsOK'
    BY <2>1 DEF DriverInv, CountsOK, Users
  <2>5. CallsOK'
    BY <2>1, <2>2 DEF DriverInv, CallsOK, Belongs, Busy
  <2>6. WindowsOK'
    <3>1. \A w \in Win, a \in Agents : /\ Others(w, a)' <=> Others(w, a)
                                       /\ Others(w, Pm)' <=> Others(w, Pm)
      BY <2>1, <2>2 DEF Others, Spares, Busy
    <3>2. \A w \in Win : Rest(w)' <=> Rest(w)
      BY <2>1, <2>2, <3>1 DEF Rest, Agents
    <3>3. \A w \in Win, a \in Agents : Owned(w, a)' <=> Owned(w, a)
      BY <2>1, <2>2, <3>1 DEF Owned, Busy
    <3>. QED  BY <2>1, <3>2, <3>3 DEF DriverInv, WindowsOK
  <2>7. AloneOK'
    BY <2>1, <2>2 DEF DriverInv, AloneOK, Idle
  <2>. QED  BY <2>3, <2>4, <2>5, <2>6, <2>7 DEF DriverInv
<1>. QED  BY <1>1, <1>2, <1>3, <1>4, <1>5, <1>6 DEF Next

(* The invariant holds for every number of windows, processes, calls and   *)
(* overtaken calls.                                                        *)
THEOREM DriverInvariant == Spec => []DriverInv
<1>1. Init => DriverInv
  BY DriverInit
<1>2. DriverInv /\ [Next]_vars => DriverInv'
  BY DriverNext
<1>. QED  BY <1>1, <1>2, PTL DEF Spec

(* A window that no two calls have shared has no memory without users.  If *)
(* it has missed no store, it scans no memory that was given back, and at  *)
(* rest, with power, the registers follow.                                 *)
LEMMA AtRestGood ==
  ASSUME DriverInv, NEW w \in Win, w \notin touched
  PROVE  Unused(w, Now) /\ Scan(w, Now) /\ (w \notin missed /\ AtRest(w) /\ power => Follows(w, Now))
<1>1. Rest(w) \/ \E a \in Agents : Owned(w, a)
  BY DEF DriverInv, WindowsOK
<1>2. CASE Rest(w)
  <2>1. Shown(w, Now, Due(todo[Pm], 0))
    BY <1>2 DEF Rest
  <2>2. Scan(w, Now)
    BY <2>1 DEF Shown, Based, Scan
  <2>3. AtRest(w) => Due(todo[Pm], 0) = {}
    <3>1. Scope(Pm) = Win /\ Pm \in Agents
      BY S3cfbAssumption DEF Scope, Agents
    <3>. QED  BY <3>1, NoneDue DEF AtRest, Busy
  <2>4. w \notin missed /\ AtRest(w) /\ power => Follows(w, Now)
    BY <2>1, <2>3 DEF Shown, Now, State
  <2>. QED  BY <2>1, <2>2, <2>4 DEF Shown
<1>3. ASSUME NEW a \in Agents, Owned(w, a)
      PROVE  Unused(w, Now) /\ Scan(w, Now) /\ ~AtRest(w)
  BY <1>3 DEF Owned, Fine, AtRest
<1>. QED  BY <1>1, <1>2, <1>3

(* When the controller is powered, between calls the registers of a window *)
(* that is on hold its geometry, address, format and blending, and they are*)
(* on exactly if the window is; and if no call has been overtaken, each    *)
(* channel is on exactly if its window is, and no window is protected.     *)
(* Excepted are windows that calls worked on at the same time (touched),   *)
(* that a call worked on while the controller was off and that no resume   *)
(* has set up since (missed), and the geometry of those that no resume has *)
(* set up since the registers were lost (lost).                            *)
THEOREM ScreenFollows == Spec => []HardwareFollows
<1>1. DriverInv => HardwareFollows
  <2> SUFFICES ASSUME DriverInv, power
               PROVE  HardwareFollows
    BY DEF HardwareFollows
  <2>1. ASSUME over = 0
        PROVE  /\ \A w \in Win \ missed : Ch(w) \in reg[WINSHMAP] <=> win[w].enabled
               /\ \A w \in Win : Protect(w) \notin reg[WINSHMAP]
    BY <2>1 DEF DriverInv, AloneOK, MapRight, Channels, Chan, Matches, Now, State
  <2>2. \A w \in Win : AtRest(w) /\ Undisturbed(w) => Follows(w, Now)
    BY AtRestGood DEF Undisturbed
  <2>3. \A w \in Win : AtRest(w) /\ Undisturbed(w) =>
    /\ (win[w].enabled <=> "ENWIN" \in reg[WINCON(w)])
    /\ win[w].enabled /\ win[w].mem /\ w \notin lost =>
         /\ reg[<<"VIDADDR", w>>] = Address(win[w])
         /\ w # Default => reg[<<"VIDOSD_A", w>>] = win[w].x
         /\ reg[<<"VIDOSD_B", w>>] = win[w].xres
         /\ reg[WINCON(w)] \cap BppMode = {win[w].format} \cap BppMode
         /\ w > 0 => /\ win[w].alpha \in reg[WINCON(w)]
                     /\ reg[<<"KEYCON", w>>] = win[w].chroma
    BY <2>2 DEF Follows, Lit, Pictured, Addressed, Appears, Placed, Formatted, Blended, Keyed, Now, State
  <2>. QED  BY <2>1, <2>3 DEF HardwareFollows
<1>. QED  BY <1>1, DriverInvariant, PTL

(* A window that is on does not scan memory that was given back, unless    *)
(* calls worked on it at the same time (touched), or one worked on it while*)
(* the controller was off and no resume has set it up since (missed).      *)
THEOREM FreedIsDark == Spec => []NeverScansFreed
<1>1. DriverInv => NeverScansFreed
  <2> SUFFICES ASSUME DriverInv, NEW w \in Win, Undisturbed(w), "ENWIN" \in reg[WINCON(w)],
                      reg[<<"VIDADDR", w>>] # 0
               PROVE  win[w].mem
    BY DEF NeverScansFreed
  <2>1. Scan(w, Now)
    BY AtRestGood DEF Undisturbed
  <2>. QED  BY <2>1 DEF Scan, Off, Undisturbed, Now, State
<1>. QED  BY <1>1, DriverInvariant, PTL

(* Between calls in_use is the number of open files, an overlay window has *)
(* one user at most, and without users it has no memory and is at the      *)
(* origin, unless calls worked on it at the same time (touched) - even when*)
(* a resume makes the lock anew that a call holds.                         *)
THEOREM FilesCounted == Spec => []UsersCounted
<1>1. DriverInv => UsersCounted
  <2> SUFFICES ASSUME DriverInv, NEW w \in Win
               PROVE  /\ AtRest(w) => win[w].in_use = Cardinality(Users(w))
                      /\ w # Default => win[w].in_use <= 1
                      /\ w # Default /\ win[w].in_use = 0 /\ w \notin touched
                           => ~win[w].mem /\ win[w].x = 0
    BY DEF UsersCounted, Users
  <2>1. win[w].in_use = Cardinality(Users(w)) /\ (w # Default => win[w].in_use <= 1)
    BY DEF DriverInv, CountsOK
  <2>2. w # Default /\ win[w].in_use = 0 /\ w \notin touched => ~win[w].mem /\ win[w].x = 0
    <3>1. w \notin touched => Unused(w, Now)
      BY AtRestGood
    <3>. QED  BY <3>1 DEF Unused, Now, State
  <2>. QED  BY <2>1, <2>2
<1>. QED  BY <1>1, DriverInvariant, PTL

-----------------------------------------------------------------------------
(* The probe                                                               *)

(* What the probe holds at most at each of its steps and labels            *)
Powering == {"fbdev", "regulator", "power"}
HeldBy ==
  /\ phase \in {"kzalloc", "failed"} => held \subseteq {"regulator", "power"}
  /\ phase \in {"regulator_get", "regulator_enable", "clk_on", "err_regulator", "err_pdata"}
       => held \subseteq Powering
  /\ phase \in {"request_mem_region", "err_io"} => held \subseteq Powering \cup {"clock"}
  /\ phase \in {"ioremap", "err_mem"} => held \subseteq Powering \cup {"clock", "region"}
  /\ phase \in {"kmalloc", "err_alloc"} => held \subseteq Powering \cup {"clock", "region", "regs"}
  /\ phase \in {"framebuffer_alloc", "err_alloc_fb", "err_map_video_mem",
                "register_framebuffer", "err_irq", "err_register"}
       => held \subseteq Powering \cup {"clock", "region", "regs", "fb"}

(* The framebuffers are those of the loop so far; where one failed to get  *)
(* its memory, its own is there too.                                       *)
FbsAllocated ==
  /\ phase \in {"framebuffer_alloc", "err_alloc_fb"} => fbs \subseteq 0 .. i - 1
  /\ phase = "err_map_video_mem" => fbs \subseteq 0 .. i
  /\ phase \in {"framebuffer_alloc", "err_alloc_fb", "err_map_video_mem"} /\ mapped
       => Default \in 0 .. i - 1
  /\ phase \notin {"framebuffer_alloc", "err_alloc_fb", "err_map_video_mem",
                   "register_framebuffer", "err_irq", "err_register", "bound", "fault"}
       => fbs = {} /\ ~mapped

(* Only past the loop that registers them is every framebuffer registered. *)
Unregistered ==
  /\ phase \notin {"register_framebuffer", "err_irq", "bound", "fault"} /\ registered # {}
       => i < NrWins
  /\ phase \in {"kzalloc", "regulator_get", "regulator_enable", "clk_on", "request_mem_region",
                "ioremap", "kmalloc", "framebuffer_alloc"} => registered = {}

ProbeInv == i \in Nat /\ mapped \in BOOLEAN /\ HeldBy /\ FbsAllocated /\ Unregistered

(* Before its first step the probe holds nothing.                          *)
LEMMA ProbeInvInit ==
  ASSUME ProbeInit
  PROVE  ProbeInv
<1>1. phase = "kzalloc" /\ i = 0 /\ held = {} /\ fbs = {} /\ registered = {}
  BY DEF ProbeInit
<1>2. mapped = FALSE
  BY DEF ProbeInit
<1>3. HeldBy
  BY <1>1 DEF HeldBy
<1>4. FbsAllocated
  BY <1>1, <1>2 DEF FbsAllocated
<1>5. Unregistered
  BY <1>1 DEF Unregistered
<1>. QED  BY <1>1, <1>2, <1>3, <1>4, <1>5 DEF ProbeInv

(* Each step of s3cfb_probe, each of its labels and s3cfb_remove take and  *)
(* give back what the next one expects.                                    *)
LEMMA ProbeInvStep ==
  ASSUME ProbeInv, [DeviceNext]_<<vars, probe>>
  PROVE  ProbeInv'
<1> USE S3cfbAssumption DEF ProbeInv, HeldBy, FbsAllocated, Unregistered, Powering, Win
<1>1. CASE Kzalloc
  BY <1>1 DEF Kzalloc, Take
<1>2. CASE RegulatorGet
  BY <1>2 DEF RegulatorGet, Take
<1>3. CASE RegulatorEnable
  BY <1>3 DEF RegulatorEnable, Take
<1>4. CASE ClkOn
  BY <1>4 DEF ClkOn, Take
<1>5. CASE RequestMemRegion
  BY <1>5 DEF RequestMemRegion, Take
<1>6. CASE Ioremap
  BY <1>6 DEF Ioremap, Take
<1>7. CASE Kmalloc
  BY <1>7 DEF Kmalloc, Take
<1>8. CASE FramebufferAlloc
  <2>1. /\ phase = "framebuffer_alloc" /\ i < NrWins
        /\ held' = held /\ registered' = registered
    BY <1>8 DEF FramebufferAlloc
  <2>2. CASE phase' = "err_alloc_fb" /\ UNCHANGED <<i, fbs, mapped>>
    BY <2>1, <2>2
  <2>3. CASE fbs' = fbs \cup {i} /\ phase' = "err_map_video_mem" /\ UNCHANGED <<i, mapped>>
    BY <2>1, <2>3
  <2>4. CASE fbs' = fbs \cup {i} /\ i = Default /\ mapped' = TRUE /\ i' = i + 1 /\ phase' = phase
    <3>1. FbsAllocated'
      BY <2>1, <2>4
    <3>. QED  BY <2>1, <2>4, <3>1
  <2>5. CASE fbs' = fbs \cup {i} /\ i' = i + 1 /\ phase' = phase /\ mapped' = mapped
    BY <2>1, <2>5
  <2>. QED  BY <1>8, <2>2, <2>3, <2>4, <2>5 DEF FramebufferAlloc
<1>9. CASE Allocated
  BY <1>9 DEF Allocated
<1>10. CASE AllocUnwind
  BY <1>10 DEF AllocUnwind
<1>11. CASE RegisterFramebuffer
  BY <1>11 DEF RegisterFramebuffer
<1>12. CASE RequestIrq
  BY <1>12 DEF RequestIrq
<1>13. CASE ErrIrq
  BY <1>13 DEF ErrIrq
<1>14. CASE ErrRegister
  BY <1>14 DEF ErrRegister
<1>15. CASE ErrAlloc
  BY <1>15 DEF ErrAlloc, Give
<1>16. CASE ErrMem
  BY <1>16 DEF ErrMem, Give
<1>17. CASE ErrIo
  BY <1>17 DEF ErrIo, Give
<1>18. CASE ErrPdata
  BY <1>18 DEF ErrPdata
<1>19. CASE ErrRegulator
  BY <1>19 DEF ErrRegulator, Give
<1>20. CASE s3cfb_remove
  BY <1>20 DEF s3cfb_remove
<1>21. CASE UNCHANGED probe
  BY <1>21 DEF probe
<1>. QED  BY <1>1, <1>2, <1>3, <1>4, <1>5, <1>6, <1>7, <1>8, <1>9, <1>10, <1>11, <1>12, <1>13,
             <1>14, <1>15, <1>16, <1>17, <1>18, <1>19, <1>20, <1>21 DEF DeviceNext, Probe

(* A probe that fails holds nothing but the regulator and its power, and   *)
(* no framebuffer has stayed registered unless registering one failed.     *)
THEOREM ProbeGivesBack == DeviceSpec => []FailureGivesBack
<1>1. ProbeInv => FailureGivesBack
  BY DEF ProbeInv, HeldBy, FbsAllocated, Unregistered, FailureGivesBack
<1>. QED  BY <1>1, ProbeInvInit, ProbeInvStep, PTL DEF DeviceSpec, DeviceInit

=============================================================================

---------------------------- MODULE FilterChain ----------------------------
(***************************************************************************)
(* The chains of filters that an etc/ts.conf may build: samples wait in    *)
(* the device until the program's ts_read, or ts_read_mt, gets them through*)
(* the filters, each of which asks the one named before it.                *)
(***************************************************************************)
EXTENDS Pthres, Debounce, Dejitter, Median, Variance, Linear, Skip

CONSTANTS
  Confs,   \* what is configured, and what the pen does; see Conf
  Junk     \* positions and pressures that malloc's memory may hold

VARIABLES
  conf,    \* the configuration
  queue,   \* the samples that wait, with their time after the last one read
  mods,    \* the states of the filters of the chain
  held,    \* history: the last sample of each slot that pthres passed on
  touch,   \* history: for each slot, the last samples of its present or last touch
  given,   \* history: what the program got of that touch
  seen,    \* whether the last sample of each slot the program got is a press
  read     \* history: the last read, until another sample arrives

vars == <<conf, queue, mods, held, touch, given, seen, read>>

(* A configuration is a chain, from the device on, with the parameters of  *)
(* skip if it is in it; mt, whether the program calls ts_read_mt; pos, the *)
(* positions the device reports of each finger, the pressures, and the     *)
(* milliseconds between samples; and bounds: batch for the samples that    *)
(* wait for one read, memory for those of a touch that touch remembers; a  *)
(* touch has no more than that if skip is in the chain, and that is a      *)
(* press and its release at least.  mods has one state for each filter, so *)
(* none is named twice.                                                    *)
Filters == {"skip", "pthres", "debounce", "median", "variance", "dejitter", "linear"}

\* those that pull samples singly; their read_mt is left out
Single == {"skip", "variance"}

ASSUME JunkAssumption == Junk \subseteq Int /\ Origin \in Int

ASSUME ConfAssumption == \A c \in Confs :
  /\ c.chain \in Seq(Filters \ (IF c.mt THEN Single ELSE {}))
  /\ \A i, j \in DOMAIN c.chain : c.chain[i] = c.chain[j] => i = j
  /\ DOMAIN c.pos \subseteq Slots
  /\ c.mt \/ \E finger \in Slots : DOMAIN c.pos = {finger}
  /\ \A finger \in DOMAIN c.pos : c.pos[finger] \subseteq Int
  /\ c.mt \in BOOLEAN /\ c.pressures \subseteq Nat /\ c.gaps \subseteq Nat
  /\ c.nhead \in Nat /\ c.ntail \in Nat /\ c.batch \in Nat \ {0} /\ c.memory \in Nat \ {0}
  /\ (\E i \in DOMAIN c.chain : c.chain[i] = "skip") => c.memory > 1

Has(f) == \E i \in DOMAIN conf.chain : conf.chain[i] = f

NoRead == [outs |-> <<>>, mods |-> <<>>, held |-> <<>>]

Lifted(slot) == [at |-> 0, slot |-> slot, pos |-> Origin, pressure |-> 0]

Start(f, c, junk) ==
  CASE f = "skip"     -> SkipStart(c.nhead, c.ntail, [pos |-> junk, pressure |-> junk])
    [] f = "pthres"   -> PthresStart
    [] f = "debounce" -> DebounceStart
    [] f = "median"   -> MedianStart(c.mt, [pos |-> junk, p |-> junk])
    [] f = "variance" -> VarianceStart([pos |-> junk, pressure |-> junk])
    [] f = "dejitter" -> DejitterStart
    [] f = "linear"   -> <<>>

Init ==
  /\ conf \in Confs
  /\ \E junk \in Junk :
       mods = [f \in {conf.chain[i] : i \in DOMAIN conf.chain} |-> Start(f, conf, junk)]
  /\ queue = <<>> /\ read = NoRead
  /\ held = [slot \in Slots |-> Lifted(slot)]
  /\ touch = [slot \in Slots |-> <<>>] /\ given = [slot \in Slots |-> <<>>]
  /\ seen = [slot \in Slots |-> FALSE]

\* a pressure below this is no touch for the program
Light == IF Has("pthres") THEN Pmin ELSE 1

Over(slot) == ~(touch[slot] # <<>> /\ Last(touch[slot]).pressure >= Light)

LastFew(s, n) == SubSeq(s, IF Len(s) > n THEN Len(s) - n + 1 ELSE 1, Len(s))

Arrive(gap, slot, pos, pressure) ==
  /\ Len(queue) < conf.batch
  /\ Has("skip") /\ ~Over(slot) /\ Len(touch[slot]) >= conf.memory - 1 => pressure = 0
  /\ LET before == IF queue = <<>> THEN 0 ELSE Last(queue).at
         sample == [at |-> before + gap, slot |-> slot, pos |-> pos, pressure |-> pressure]
         longer == Append(IF Over(slot) THEN <<>> ELSE touch[slot],
                          [pos |-> pos, pressure |-> pressure])
     IN /\ queue' = Append(queue, sample)
        /\ touch' = [touch EXCEPT ![slot] = LastFew(longer, conf.memory)]
        /\ given' = [given EXCEPT ![slot] = IF Over(slot) THEN <<>> ELSE @]
  /\ read' = NoRead
  /\ UNCHANGED <<conf, mods, held, seen>>

Latest(S) == CHOOSE i \in S : \A j \in S : j <= i

\* the last of a slot's samples in out, or what there was before
LastOf(out, slot, old) ==
  LET mine == {i \in DOMAIN out : out[i].slot = slot}
  IN IF mine = {} THEN old ELSE out[Latest(mine)]

-----------------------------------------------------------------------------
\* a filter that pulls samples singly
Pulled(Take(_, _), mod, batch) ==
  LET upto[i \in 0 .. Len(batch)] ==
        IF i = 0 THEN [mod |-> mod, out |-> <<>>]
        ELSE LET v == Take(upto[i - 1].mod, batch[i])
             IN [mod |-> v.mod, out |-> upto[i - 1].out \o v.out]
  IN upto[Len(batch)]

DebounceTake(quiet, s) == debounce_read(quiet, <<s>>)

\* what the filter f makes of the samples of the next module, asked for them
\* singly or at once; only debounce does not do the same with either
Ask(f, mod, batch, singly) ==
  CASE f = "skip"     -> Pulled(SkipTake, mod, batch)
    [] f = "pthres"   -> pthres_read(mod, batch)
    [] f = "debounce" -> IF singly THEN Pulled(DebounceTake, mod, batch)
                         ELSE debounce_read(mod, batch)
    [] f = "median"   -> median_read(mod, batch)
    [] f = "variance" -> Pulled(VarianceTake, mod, batch)
    [] f = "dejitter" -> dejitter_read(mod, batch)
    [] f = "linear"   -> linear_read(mod, batch)

AskMt(f, mod, batch) ==
  CASE f = "pthres"   -> pthres_read_mt(mod, batch)
    [] f = "debounce" -> debounce_read_mt(mod, batch)
    [] f = "median"   -> median_read_mt(mod, batch)
    [] f = "dejitter" -> dejitter_read_mt(mod, batch)
    [] f = "linear"   -> linear_read_mt(mod, batch)

\* ts_read or ts_read_mt: the i-th filter asks the one before it, the first one
\* the device
Outs ==
  LET Singly(i) == \E j \in DOMAIN conf.chain : j > i /\ conf.chain[j] \in Single
      upto[i \in 0 .. Len(conf.chain)] ==
        IF i = 0 THEN [out |-> queue, mod |-> <<>>]
        ELSE LET f == conf.chain[i]
             IN IF conf.mt THEN AskMt(f, mods[f], upto[i - 1].out)
                ELSE Ask(f, mods[f], upto[i - 1].out, Singly(i))
  IN upto

\* time passes for debounce, whose clock starts with each read
Aged(f, mod) == IF f = "debounce" THEN Waited(mod, Last(queue).at) ELSE mod

Nth(f) == CHOOSE i \in DOMAIN conf.chain : conf.chain[i] = f

Read ==
  LET done == Outs
      got  == done[Len(conf.chain)].out
  IN /\ queue # <<>>
     /\ queue' = <<>>
     /\ mods' = [f \in DOMAIN mods |-> Aged(f, done[Nth(f)].mod)]
     /\ held' = IF ~Has("pthres") THEN held
                ELSE [slot \in Slots |->
                       [LastOf(done[Nth("pthres")].out, slot, held[slot]) EXCEPT !.at = 0]]
     /\ seen' = [slot \in Slots |->
                   LastOf(got, slot, [pressure |-> IF seen[slot] THEN 1 ELSE 0]).pressure # 0]
     /\ given' = [slot \in Slots |->
                    IF ~Has("skip") \/ slot \notin DOMAIN conf.pos THEN <<>>
                    ELSE given[slot] \o [i \in DOMAIN got |->
                                           [pos |-> got[i].pos, pressure |-> got[i].pressure]]]
     /\ read' = [outs |-> [i \in 0 .. Len(conf.chain) |-> done[i].out], mods |-> mods,
                 held |-> held]
     /\ UNCHANGED <<conf, touch>>

Next == \/ Read
        \/ \E slot \in DOMAIN conf.pos :
             \E gap \in conf.gaps, pos \in conf.pos[slot], pressure \in conf.pressures :
               Arrive(gap, slot, pos, pressure)

Spec == Init /\ [][Next]_vars

-----------------------------------------------------------------------------
\* what a filter was given by the last read, and what it passed on
In(f)  == IF read = NoRead THEN <<>> ELSE read.outs[Nth(f) - 1]
Out(f) == IF read = NoRead THEN <<>> ELSE read.outs[Nth(f)]
Got    == IF read = NoRead THEN <<>> ELSE read.outs[Len(conf.chain)]

\* the sample of the same slot that pthres passed on before the i-th
Before(i) == LET slot == Out("pthres")[i].slot
             IN LastOf(SubSeq(Out("pthres"), 1, i - 1), slot, read.held[slot])

(***************************************************************************)
(* pthres lets a release through only when it has let a press through, and *)
(* at the place of that press: drivers may send releases on their own, and *)
(* pressures out of bounds disappear, yet behind pthres there is never a   *)
(* release without its press, nor does the pen jump as it goes up.         *)
(***************************************************************************)
ReleasesEndPresses ==
  Has("pthres") => \A i \in DOMAIN Out("pthres") :
    Out("pthres")[i].pressure < Pmin =>
      Before(i).pressure >= Pmin /\ Before(i).pos = Out("pthres")[i].pos

(***************************************************************************)
(* How many samples a read brings is up to the driver and the program; the *)
(* samples pthres passes on do not depend on it, though it drops them from *)
(* the array in which it walks.                                            *)
(***************************************************************************)
BatchesDoNotMatter ==
  Has("pthres") /\ read # NoRead =>
    Out("pthres") = OneByOne(PthresJudge, read.mods["pthres"], In("pthres")).out

\* when a slot was released last before the i-th sample debounce is given
LastUp(slot, i) ==
  LET mid == In("debounce")
      ups == {j \in 1 .. (i - 1) : mid[j].slot = slot /\ mid[j].pressure = 0}
  IN IF ups = {} THEN -read.mods["debounce"][slot]
     ELSE mid[Latest(ups)].at

InWindow(i) == LET s == In("debounce")[i]
               IN s.pressure # 0 /\ s.at - LastUp(s.slot, i) < Threshold

(***************************************************************************)
(* Nothing of the quiet time after a release gets through debounce and no  *)
(* release is swallowed, whichever reads the samples fall in, and with one *)
(* sample per read nothing else is dropped.  What the next read is compared*)
(* with is the slot's last release, in whichever read it was and whether or*)
(* not samples around it were dropped, by pthres or debounce.              *)
(***************************************************************************)
NeverTooEarly ==
  Has("debounce") /\ read # NoRead =>
    LET late == {i \in DOMAIN In("debounce") : ~InWindow(i)}
        Quiet(slot) == Last(read.outs[0]).at - LastUp(slot, Len(In("debounce")) + 1)
    IN
    /\ \A slot \in Slots : mods["debounce"][slot] =
         IF Quiet(slot) < Threshold THEN Quiet(slot) ELSE Threshold
    /\ \E pick \in [DOMAIN Out("debounce") -> late] :
         /\ \A k \in DOMAIN pick : Out("debounce")[k] = In("debounce")[pick[k]]
         /\ \A k, n \in DOMAIN pick : k < n => pick[k] < pick[n]
         /\ \A i \in DOMAIN In("debounce") :
              In("debounce")[i].pressure = 0 => \E k \in DOMAIN pick : pick[k] = i
    /\ Len(In("debounce")) = 1 /\ late # {} => Out("debounce") = In("debounce")

\* median still has samples that nobody has touched since malloc
Tainted ==
  Has("median") /\ \E slot \in DOMAIN conf.pos : \E i \in 0 .. Depth - 1 :
    mods["median"][slot].delay[i].pos \in Junk

(***************************************************************************)
(* Behind the whole chain the pen cannot get stuck: when the device has    *)
(* reported that a slot is up, the last the program got of it is no press, *)
(* whatever was held back, averaged, suspected of being noise or dropped.  *)
(***************************************************************************)
PenIsNotStuck ==
  queue = <<>> /\ ~Tainted => \A slot \in Slots : seen[slot] => ~Over(slot)

\* how many samples behind the pen a filter may be
Lag(f) == CASE f = "skip" -> conf.ntail [] f = "median" -> Depth - 1
            [] f = "variance" -> 2      [] f = "dejitter" -> NR_SAMPHISTLEN - 1
            [] OTHER -> 0

ChainLag ==
  LET upto[i \in 0 .. Len(conf.chain)] == IF i = 0 THEN 0 ELSE upto[i - 1] + Lag(conf.chain[i])
  IN upto[Len(conf.chain)]

Shown(x) == IF Has("linear") THEN Calibrated(x) ELSE x

(***************************************************************************)
(* A press that the program gets is within the places where the pen has    *)
(* been just before, in this touch: no filter mixes in what is left of an  *)
(* earlier touch or of a ring's places that do not count, or falls behind. *)
(***************************************************************************)
KeepsUp ==
  conf.batch = 1 /\ ~Tainted =>
    \A i \in DOMAIN Got : Got[i].pressure > 0 =>
      LET recent == LastFew(touch[Got[i].slot], 1 + ChainLag)
      IN /\ ~Over(Got[i].slot)
         /\ \E a, b \in DOMAIN recent : /\ Shown(recent[a].pos) <= Got[i].pos
                                       /\ Got[i].pos <= Shown(recent[b].pos)

(***************************************************************************)
(* Behind skip a program that reads each sample as it comes gets a touch   *)
(* without its first nhead and its last ntail samples, in order, none lost *)
(* and none twice; while it lasts the newest ntail are held back.  The last*)
(* sample it gets is the release.  A touch that reaches no sample behind   *)
(* the head before its release counts is not given at all.                 *)
(***************************************************************************)
GivesTheMiddle ==
  conf.chain = <<"skip">> /\ conf.batch = 1 /\ queue = <<>> => \A slot \in Slots :
    LET all    == touch[slot]
        middle == SubSeq(all, conf.nhead + 1, Len(all) - conf.ntail)
    IN IF ~Over(slot) THEN given[slot] = middle
       ELSE IF Len(all) <= conf.nhead + conf.ntail + 1 THEN given[slot] = <<>>
       ELSE given[slot] = [middle EXCEPT ![Len(middle)].pressure = 0]
=============================================================================

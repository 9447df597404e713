----------------------------- MODULE Calibrate -----------------------------
(***************************************************************************)
(* The calibration, tests/ts_calibrate.c of tslib, with getxy of           *)
(* touchscreen/newtest.c (that of testutils.c is the same): five crosses   *)
(* are touched one after another, the median of each touch is taken, and a *)
(* linear map from the panel to the screen is fitted and saved, which the  *)
(* linear filter then applies to every sample.  The fit is computed in     *)
(* floats, operation by operation as the code writes them, with what the   *)
(* rounding makes of it.  The crosses drawn on the way from one to the next*)
(* are left out.                                                           *)
(***************************************************************************)
EXTENDS Integers, Sequences, FiniteSets
LOCAL INSTANCE Float

CONSTANTS
  xres, yres,
  Inset,        \* 50 in the code: from a corner of the screen to its cross
  MAX_SAMPLES,  \* 128 in the code
  Scaling,      \* 65536 in the code
  Panels,       \* what the panel may report for a place of the screen; see OnPanel
  Stray         \* places the panel may report besides the one that is touched

VARIABLES
  calpc,       \* "clearbuf", "press" and "collect" (in getxy), "solve", "saved",
               \* "failed" or "exited"
  index,       \* the cross
  samp,        \* the samples getxy keeps
  cal,         \* cal.x and cal.y
  pending,     \* samples of the device that nobody has read
  panel,       \* the panel
  pointercal,  \* the file: <<>> if it is empty, else a[1], a[2], a[0], a[4] ...
  pen,         \* history: the places the pen pressed since the cross was shown,
               \* the first MAX_SAMPLES - 1
  steady       \* history: of every touch, most of them were the cross

calvars == <<calpc, index, samp, cal, pending, panel, pointercal, pen, steady>>

\* cal.xfb and cal.yfb
Cross == [j \in 0 .. 4 |->
            CASE j = 0 -> <<Inset, Inset>>        [] j = 1 -> <<xres - Inset, Inset>>
              [] j = 2 -> <<xres - Inset, yres - Inset>> [] j = 3 -> <<Inset, yres - Inset>>
              [] j = 4 -> <<xres \div 2, yres \div 2>>]

\* a panel is mounted and wired in any linear way
OnPanel(p, xy) == <<p[1] * xy[1] + p[2] * xy[2] + p[3], p[4] * xy[1] + p[5] * xy[2] + p[6]>>

\* what a panel reports: its square fits in an int
Coordinate == 0 .. 46340

ASSUME CalibrateAssumption ==
  /\ xres \in Nat \ {0} /\ yres \in Nat \ {0} /\ Inset \in Nat /\ Scaling \in Nat \ {0}
  /\ MAX_SAMPLES \in Nat \ {0, 1} /\ Stray \subseteq Coordinate \X Coordinate
  /\ \A p \in Panels, j \in 0 .. 4 : OnPanel(p, Cross[j]) \in Coordinate \X Coordinate

-----------------------------------------------------------------------------
(* getxy *)

\* qsort by one coordinate c, and then the place k, counted from 1
Nth(s, c, k) ==
  CHOOSE v \in {s[i][c] : i \in DOMAIN s} :
    /\ Cardinality({i \in DOMAIN s : s[i][c] < v}) < k
    /\ Cardinality({i \in DOMAIN s : s[i][c] <= v}) >= k

\* Mutant: the two in the middle are those of an array counted from one.
MiddleOffByOne(s, c) ==
  LET middle == Len(s) \div 2
  IN IF Len(s) % 2 = 1 THEN Nth(s, c, IF middle = 0 THEN 1 ELSE middle)
     ELSE ToZero(Nth(s, c, middle) + Nth(s, c, middle + 1), 2)

Middle(s, c) ==
  LET middle == Len(s) \div 2
  IN IF Len(s) % 2 = 1 THEN Nth(s, c, middle + 1)
     ELSE ToZero(Nth(s, c, middle) + Nth(s, c, middle + 1), 2)

\* the first MAX_SAMPLES - 1 samples count; the last place is used over again
Keep(s, at) == IF Len(s) < MAX_SAMPLES - 1 THEN Append(s, at) ELSE s

-----------------------------------------------------------------------------
(* perform_calibration *)

\* x += (float)f[j] for each of the five
SumOf(f) ==
  LET upto[j \in 0 .. 5] == IF j = 0 THEN OfInt(0) ELSE upto[j - 1] (+) OfInt(f[j - 1])
  IN  upto[5]

\* the sums for the matrix
Sums ==
  [n  |-> SumOf([j \in 0 .. 4 |-> 1]),
   x  |-> SumOf([j \in 0 .. 4 |-> cal[j][1]]),
   y  |-> SumOf([j \in 0 .. 4 |-> cal[j][2]]),
   x2 |-> SumOf([j \in 0 .. 4 |-> cal[j][1] * cal[j][1]]),
   y2 |-> SumOf([j \in 0 .. 4 |-> cal[j][2] * cal[j][2]]),
   xy |-> SumOf([j \in 0 .. 4 |-> cal[j][1] * cal[j][2]])]

Det(s) ==
  (s.n (.) ((s.x2 (.) s.y2) (-) (s.xy (.) s.xy))
   (+) (s.x (.) ((s.xy (.) s.y) (-) (s.x (.) s.y2))))
  (+) (s.y (.) ((s.x (.) s.xy) (-) (s.y (.) s.x2)))

Inverse(s, det) ==
  [a |-> ((s.x2 (.) s.y2) (-) (s.xy (.) s.xy)) (/) det,
   b |-> ((s.xy (.) s.y) (-) (s.x (.) s.y2)) (/) det,
   c |-> ((s.x (.) s.xy) (-) (s.y (.) s.x2)) (/) det,
   e |-> ((s.n (.) s.y2) (-) (s.y (.) s.y)) (/) det,
   f |-> ((s.x (.) s.y) (-) (s.n (.) s.xy)) (/) det,
   i |-> ((s.n (.) s.x2) (-) (s.x (.) s.x)) (/) det]

\* one row of a[], from what it is to be at the crosses: a[0], a[1] and a[2]
\* for x, a[3], a[4] and a[5] for y
Fit(v, to) ==
  LET z  == SumOf(to)
      zx == SumOf([j \in 0 .. 4 |-> to[j] * cal[j][1]])
      zy == SumOf([j \in 0 .. 4 |-> to[j] * cal[j][2]])
      Scaled(p, q, r) ==
        ToInt((((p (.) z) (+) (q (.) zx)) (+) (r (.) zy)) (.) OfInt(Scaling))
  IN <<Scaled(v.a, v.b, v.c), Scaled(v.b, v.e, v.f), Scaled(v.c, v.f, v.i)>>

FitX(v) == Fit(v, [j \in 0 .. 4 |-> Cross[j][1]])
FitY(v) == Fit(v, [j \in 0 .. 4 |-> Cross[j][2]])

\* what main writes, in the order linear reads it
Saved(x, y) == <<x[2], x[3], x[1], y[2], y[3], y[1], Scaling>>

\* linear_read with that file, on the screen it was made for
Calibrated2(a, xy) ==
  <<ToZero(a[3] + a[1] * xy[1] + a[2] * xy[2], a[7]),
    ToZero(a[6] + a[4] * xy[1] + a[5] * xy[2], a[7])>>

-----------------------------------------------------------------------------
Nowhere == <<0, 0>>
Pressed(at) == [at |-> at, pressure |-> 1]
Up(at) == [at |-> at, pressure |-> 0]

\* the pen was on the panel before, or bounces as it is lifted
Bounces == {<<>>} \cup {<<Pressed(at), Up(at)>> : at \in Stray}

CalInit ==
  /\ calpc = "clearbuf" /\ index = 0 /\ samp = <<>>
  /\ cal = [j \in 0 .. 4 |-> Nowhere]
  /\ pending \in Bounces /\ panel \in Panels
  /\ pointercal = <<>> /\ pen = <<>> /\ steady = TRUE

\* Mutant: what was pending stays.
ClearNothing ==
  /\ calpc = "clearbuf" /\ calpc' = "press"
  /\ UNCHANGED <<index, samp, cal, pending, panel, pointercal, pen, steady>>

\* everything the device has at this moment is read and forgotten
clearbuf ==
  /\ calpc = "clearbuf" /\ calpc' = "press" /\ pending' = <<>>
  /\ UNCHANGED <<index, samp, cal, panel, pointercal, pen, steady>>

\* ts_read_raw: what is pending, else what the pen does at the cross
Reads(s) ==
  IF pending # <<>> THEN s = Head(pending) /\ pending' = Tail(pending)
  ELSE /\ s.at \in Stray \cup {OnPanel(panel, Cross[index])}
       /\ pending' = pending

PenPressed(s) == pen' = IF pending # <<>> THEN pen ELSE Keep(pen, s.at)

\* releases are read until there is a press
FirstPress(s) ==
  /\ calpc = "press" /\ Reads(s)
  /\ IF s.pressure = 0 THEN UNCHANGED <<calpc, samp>>
     ELSE calpc' = "collect" /\ samp' = <<s.at>>
  /\ IF s.pressure = 0 THEN UNCHANGED pen ELSE PenPressed(s)
  /\ UNCHANGED <<index, cal, panel, pointercal, steady>>

NextPress(s) ==
  /\ calpc = "collect" /\ s.pressure # 0 /\ Reads(s)
  /\ samp' = Keep(samp, s.at) /\ PenPressed(s)
  /\ UNCHANGED <<calpc, index, cal, panel, pointercal, steady>>

\* the release ends getxy; the pen may bounce on
Release(s) ==
  /\ calpc = "collect" /\ s.pressure = 0
  /\ IF pending # <<>> THEN Reads(s)
     ELSE s.at \in Stray \cup {OnPanel(panel, Cross[index])} /\ pending' \in Bounces
  /\ cal' = [cal EXCEPT ![index] = <<Middle(samp, 1), Middle(samp, 2)>>]
  /\ steady' = (steady /\ (pen = <<>> \/ 2 * Cardinality({i \in DOMAIN pen :
                                 pen[i] = OnPanel(panel, Cross[index])}) > Len(pen)))
  /\ samp' = <<>> /\ pen' = <<>>
  /\ IF index = 4 THEN calpc' = "solve" /\ UNCHANGED index
     ELSE calpc' = "clearbuf" /\ index' = index + 1
  /\ UNCHANGED <<panel, pointercal>>

ReadFails ==
  /\ calpc \in {"clearbuf", "press", "collect"} /\ calpc' = "exited"
  /\ UNCHANGED <<index, samp, cal, pending, panel, pointercal, pen, steady>>

\* no map if the determinant is nearly 0; else the file is made anew
Solve ==
  /\ calpc = "solve"
  /\ \E s \in {Sums} : \E det \in {Det(s)} :
       \/ Tiny(det) /\ calpc' = "failed" /\ UNCHANGED pointercal
       \/ /\ ~Tiny(det) /\ calpc' = "saved"
          /\ \E v \in {Inverse(s, det)} : pointercal' = Saved(FitX(v), FitY(v))
       \/ ~Tiny(det) /\ calpc' = "exited" /\ pointercal' \in {<<>>, pointercal}
  /\ UNCHANGED <<index, samp, cal, pending, panel, pen, steady>>

CalNext ==
  \/ clearbuf \/ ReadFails \/ Solve
  \/ \E at \in Stray \cup {OnPanel(panel, Cross[index])} : \E s \in {Pressed(at), Up(at)} :
       FirstPress(s) \/ NextPress(s) \/ Release(s)

(***************************************************************************)
(* However a panel that measures two directions is mounted, a calibration  *)
(* that is saved is true: with it the linear filter gives the place of the *)
(* screen that is touched, to a pixel, in the corners of the screen, where *)
(* a linear map is farthest off - rounded as it is, even if each touch had *)
(* stray samples, as long as they were fewer than half, and whatever the   *)
(* pen did between the crosses.  A panel that reports a line is not        *)
(* covered: see LineIsRefused.                                             *)
(***************************************************************************)
CalibrationIsTrue ==
  calpc = "saved" /\ steady /\ panel[1] * panel[5] # panel[2] * panel[4] =>
    \A x \in {0, xres - 1}, y \in {0, yres - 1} :
      LET got == Calibrated2(pointercal, OnPanel(panel, <<x, y>>))
      IN got[1] - x \in -1 .. 1 /\ got[2] - y \in -1 .. 1

(***************************************************************************)
(* perform_calibration checks "if determinant is too small": five touches  *)
(* on one line, whose determinant is 0, make no calibration.  The code sums*)
(* and multiplies in floats, and what is left of the rounding is taken for *)
(* a determinant.                                                          *)
(***************************************************************************)
LineIsRefused ==
  calpc = "saved" =>
    \E i, j, k \in 0 .. 4 :
      (cal[j][1] - cal[i][1]) * (cal[k][2] - cal[i][2])
        # (cal[k][1] - cal[i][1]) * (cal[j][2] - cal[i][2])
=============================================================================

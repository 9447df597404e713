------------------------------ MODULE Palmpre ------------------------------
(***************************************************************************)
(* tslib's module for the touchscreen of the Palm Pre, cy8mrln-palmpre.c.  *)
(* The chip reports frames, one capacity for each field of its grid, which *)
(* the module compares with the highest that it has seen.  It slows the    *)
(* chip down when a frame is out of range, which happens when the device   *)
(* sleeps, and restores the rate at the next good frame.                   *)
(***************************************************************************)
EXTENDS Integers, Sequences

CONSTANTS
  H_FIELDS, V_FIELDS,      \* the grid
  MIN_VALUE, MAX_VALUE,    \* a good frame is within these
  ASLEEP_SCANRATE,         \* the rate while the device sleeps
  DISCARD_FRAMES           \* how many good frames are ignored after that

ASSUME PalmpreAssumption ==
  /\ H_FIELDS \in Nat \ {0} /\ V_FIELDS \in Nat \ {0} /\ DISCARD_FRAMES \in Nat \ {0}
  /\ ASLEEP_SCANRATE \in Nat /\ MIN_VALUE \in Nat /\ MAX_VALUE \in Nat /\ MIN_VALUE <= MAX_VALUE

Field == 0 .. H_FIELDS * V_FIELDS - 1
Capacity == {v \in Nat : v < 65536}   \* uint16_t

-----------------------------------------------------------------------------
(* Settings: the chip has the first six, the driver asks it for a new value*)
(* by ioctl and remembers the value if that worked.                        *)
OfChip == {"scanrate", "verbose", "sleepmode", "wot_scanrate", "wot_threshold", "timestamp_mode"}
OfModule == {"gesture_height", "noise", "pressure", "sensor_offset_x", "sensor_offset_y",
             "sensor_delta_x", "sensor_delta_y"}

\* works tells if the ioctl does, which is not made for a threshold out of bounds
SetInChip(m, name, v, works) ==
  IF works THEN [m EXCEPT !.set[name] = IF name = "timestamp_mode" /\ v # 0 THEN 1 ELSE v,
                          !.chip[name] = IF name = "timestamp_mode" /\ v # 0 THEN 1 ELSE v]
  ELSE m

SetInModule(m, name, v) == [m EXCEPT !.set[name] = v]

set_setting(m, name, v, works) ==
  IF name \in OfChip THEN SetInChip(m, name, v, works) ELSE SetInModule(m, name, v)

\* what a parameter of the configuration sets: timestamp_mode sets the sleep mode
ParameterSets(name) == IF name = "timestamp_mode" THEN "sleepmode" ELSE name

\* parameters is a sequence of <<name, value>>, of which each must work
parse_parameters(m, parameters) ==
  LET upto[i \in 0 .. Len(parameters)] ==
        IF i = 0 THEN m
        ELSE set_setting(upto[i - 1], ParameterSets(parameters[i][1]), parameters[i][2], TRUE)
  IN upto[Len(parameters)]

-----------------------------------------------------------------------------
\* the fields of a frame in their order up to the first that is out of range
InRange(frame) ==
  {f \in Field : \A g \in 0 .. f : MIN_VALUE <= frame[g] /\ frame[g] <= MAX_VALUE}

\* the references grow even if the frame turns out to be out of range
update_references(references, frame) ==
  [good       |-> InRange(frame) = Field,
   references |-> [f \in Field |-> IF f \in InRange(frame) /\ frame[f] > references[f]
                                   THEN frame[f] ELSE references[f]],
   field      |-> [f \in Field |-> IF frame[f] > references[f] THEN 0
                                   ELSE references[f] - frame[f]]]

\* a / b for a float that becomes an int
Truncated(a, b) == IF a < 0 THEN -((-a) \div b) ELSE a \div b

\* the middle of the strongest field, moved to its stronger neighbour; field numbers
\* count columns from the right
Columns == 0 .. H_FIELDS - 1
Rows    == 0 .. V_FIELDS - 1
field_nr(x, y) == y * H_FIELDS + (H_FIELDS - x) - 1

interpolate(set, field, x, y) ==
  LET xy     == field[field_nr(x, y)]
      border == set["pressure"] - xy
      At(c, r) == IF c \in Columns /\ r \in Rows THEN field[field_nr(c, r)] ELSE border
      Moved(middle, before, after, delta) ==
        Truncated(3 * xy * middle + 2 * (after - before) * delta, 3 * xy)
  IN [x |-> Moved(set["sensor_delta_x"] * x + set["sensor_offset_x"],
                  At(x - 1, y), At(x + 1, y), set["sensor_delta_x"]),
      y |-> Moved(set["sensor_delta_y"] * y + set["sensor_offset_y"],
                  At(x, y - 1), At(x, y + 1), set["sensor_delta_y"])]

\* the first of the strongest fields, by rows from the top and columns from the left
Strongest(field) ==
  CHOOSE c \in Columns \X Rows :
    \A d \in Columns \X Rows :
      LET here == field[field_nr(c[1], c[2])]
          there == field[field_nr(d[1], d[2])]
      IN \/ here > there
         \/ here = there /\ (c[2] < d[2] \/ (c[2] = d[2] /\ c[1] <= d[1]))

-----------------------------------------------------------------------------
\* Mutant: the last sample stays when the touch is over.
TouchRemains(m, field) ==
  LET c     == Strongest(field)
      value == field[field_nr(c[1], c[2])]
      at    == interpolate(m.set, field, c[1], c[2])
      sample == [x |-> at.x, y |-> at.y, pressure |-> value]
  IN IF value > m.set["noise"]
     THEN [mod |-> [m EXCEPT !.last_valid = <<sample>>], wrote |-> <<sample>>]
     ELSE [mod |-> m,
           wrote |-> [i \in DOMAIN m.last_valid |-> [m.last_valid[i] EXCEPT !.pressure = 0]]]

\* a touch is reported where it is, its end once more at the last place
Touch(m, field) ==
  LET c     == Strongest(field)
      value == field[field_nr(c[1], c[2])]
      at    == interpolate(m.set, field, c[1], c[2])
      sample == [x |-> at.x, y |-> at.y, pressure |-> value]
  IN IF value > m.set["noise"]
     THEN [mod |-> [m EXCEPT !.last_valid = <<sample>>], wrote |-> <<sample>>]
     ELSE [mod |-> [m EXCEPT !.last_valid = <<>>],
           wrote |-> [i \in DOMAIN m.last_valid |-> [m.last_valid[i] EXCEPT !.pressure = 0]]]

\* Mutant: each bad frame stores the rate, the slow one as well.
SleepsAgain(m, works) ==
  [SetInChip(m, "scanrate", ASLEEP_SCANRATE, works)
     EXCEPT !.old_scanrate = m.set["scanrate"], !.discard_frames = DISCARD_FRAMES]

\* Mutant: one frame less is discarded.
SleepsShort(m, works) ==
  IF m.discard_frames # 0 THEN m
  ELSE [SetInChip(m, "scanrate", ASLEEP_SCANRATE, works)
          EXCEPT !.old_scanrate = m.set["scanrate"], !.discard_frames = DISCARD_FRAMES - 1]

Sleep(m, works) ==  IF m.discard_frames # 0 THEN m
  ELSE [SetInChip(m, "scanrate", ASLEEP_SCANRATE, works)
          EXCEPT !.old_scanrate = m.set["scanrate"], !.discard_frames = DISCARD_FRAMES]

Wake(m, works) ==
  IF m.discard_frames = DISCARD_FRAMES THEN SetInChip(m, "scanrate", m.old_scanrate, works)
  ELSE m

palmpre_read(m, frame, works) ==
  LET v   == update_references(m.references, frame)
      new == [m EXCEPT !.references = v.references]
  IN IF ~v.good THEN [mod |-> Sleep(new, works), wrote |-> <<>>]
     ELSE IF m.discard_frames > 0
       THEN [mod |-> [Wake(new, works) EXCEPT !.discard_frames = @ - 1], wrote |-> <<>>]
     ELSE Touch(new, v.field)

-----------------------------------------------------------------------------
Defaults == [scanrate |-> 60, verbose |-> 0, sleepmode |-> 0, wot_scanrate |-> 1,
             wot_threshold |-> 22, timestamp_mode |-> 1, gesture_height |-> 1, noise |-> 25,
             pressure |-> 60, sensor_offset_x |-> 22, sensor_offset_y |-> 26,
             sensor_delta_x |-> 45, sensor_delta_y |-> 52]

\* as mod_init leaves the module: refused are the settings of the chip whose
\* default it did not take; the chip keeps its own and the module does not know
\* them, its fields hold what malloc left; first is the first frame
PalmpreStart(parameters, refused, junk, own, first) ==
  parse_parameters(
    [set  |-> [name \in OfChip \cup OfModule |-> IF name \in refused THEN junk ELSE Defaults[name]],
     chip |-> [name \in OfChip |-> IF name \in refused THEN own ELSE Defaults[name]],
     references |-> first, last_valid |-> <<>>, discard_frames |-> 0, old_scanrate |-> junk],
    parameters)

\* fini frees the last sample with the module
=============================================================================

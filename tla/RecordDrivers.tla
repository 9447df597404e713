--------------------------- MODULE RecordDrivers ---------------------------
(***************************************************************************)
(* tslib's raw modules for devices that give records: collie, h3600, corgi,*)
(* ucb1x00, arctic2, mk712, tatung and waveshare, each in plugins/ with    *)
(* -raw.c behind its name.  A read operator is given the records that came *)
(* and, if it matters, how many were asked for; told is what it returns,   *)
(* wrote the samples it put into the caller's array.  Time stamps are left *)
(* out.                                                                    *)
(***************************************************************************)
EXTENDS Integers, Sequences

CONSTANT PointerSize   \* sizeof(char *)

ASSUME RecordAssumption == PointerSize \in {4, 8}

Failed == [told |-> -1, wrote |-> <<>>]

\* every record becomes a sample
Whole(recs, Sample(_)) ==
  IF recs = <<>> THEN Failed
  ELSE [told |-> Len(recs), wrote |-> [i \in DOMAIN recs |-> Sample(recs[i])]]

AsItIs(r) == [x |-> r.x, y |-> r.y, pressure |-> r.pressure]

collie_read(recs)  == Whole(recs, AsItIs)
h3600_read(recs)   == Whole(recs, AsItIs)
corgi_read(recs)   == Whole(recs, AsItIs)
ucb1x00_read(recs) == Whole(recs, AsItIs)

\* (short) of an int
Short(i) == ((i + 32768) % 65536) - 32768

arctic2_read(recs) ==
  Whole(recs, LAMBDA r : [x |-> Short(r.x), y |-> Short(r.y), pressure |-> r.pressure])

mk712_read(recs) ==
  Whole(recs, LAMBDA r : [x |-> Short(r.x), y |-> Short(r.y),
                          pressure |-> IF r.header = 0 THEN 1 ELSE 0])

-----------------------------------------------------------------------------
Marked(r) == 240 \in {r.x1, r.x2, r.y1, r.y2}

\* a marked record ends the read, which tells of all the records nevertheless;
\* else it tells of as many samples as were asked for, and puts a pressure of 0
\* behind the last one it wrote
tatung_read(recs, nr) ==
  LET plain == {n \in 0 .. Len(recs) : \A i \in 1 .. n : ~Marked(recs[i])}
      most  == CHOOSE n \in plain : \A k \in plain : k <= n
  IN IF recs = <<>> THEN Failed
     ELSE [told  |-> IF most < Len(recs) THEN Len(recs) ELSE nr,
           wrote |-> [i \in 1 .. most |-> [x |-> recs[i].x1 * 31 + recs[i].x2 - 64,
                                           y |-> recs[i].y1 * 31 + recs[i].y2 - 192,
                                           pressure |-> 1]]]

-----------------------------------------------------------------------------
HIDRAW_MAX_DEVICES == 64

\* snprintf is given the size of the pointer buf for the length of name_buf
NodeName(cnt) == IF PointerSize > 12 THEN <<"/dev/hidraw", cnt>> ELSE <<"/dev/hi", -1>>

\* the first read looks for a device among nodes, the names of those that have the
\* ids of the parameter vid_pid, and reads on from that
Found(nodes) == {cnt \in 0 .. HIDRAW_MAX_DEVICES - 1 : NodeName(cnt) \in nodes}
Searches(m)  == m.reopen /\ m.ids
waveshare_search(m, nodes) ==
  [m EXCEPT !.reopen = FALSE,
            !.fd = IF Searches(m) /\ Found(nodes) # {} THEN "hidraw" ELSE @]

\* what follows the search if that was not in vain: it tells of as many samples as
\* were asked for
waveshare_read(recs, nr) ==
  IF recs = <<>> THEN Failed
  ELSE [told  |-> nr,
        wrote |-> [i \in DOMAIN recs |-> [x |-> recs[i].x, y |-> recs[i].y,
                                          pressure |-> recs[i].status]]]
=============================================================================

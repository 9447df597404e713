------------------------------ MODULE InputRaw ------------------------------
(***************************************************************************)
(* tslib's plugins/input-raw.c: what the driver keeps of an evdev device   *)
(* and how it turns the events of a frame into samples, for one sample     *)
(* (ts_read) and for one per slot (ts_read_mt).  tools/ts_uinput.c calls   *)
(* the latter for one sample set at a time, and so does this module.       *)
(*                                                                         *)
(* An event is a pair of its code and value; y and the other axes that are *)
(* only copied behave like x and are left out, and so is the time.         *)
(***************************************************************************)
EXTENDS Integers, Sequences

CONSTANTS
  MaxSlots,  \* the number of slots the caller has samples for
  Memory     \* what the memory of malloc may hold: a set of integers

ASSUME InputRawAssumption == MaxSlots \in Nat \ {0} /\ Memory \subseteq Int /\ Memory # {}

Slot == 0 .. MaxSlots - 1

(* What is left of s when the events have been handled in turn by op       *)
After(op(_, _), s, events) ==
  LET at[n \in 0 .. Len(events)] == IF n = 0 THEN s ELSE op(at[n - 1], events[n])
  IN  at[Len(events)]

(* The sequences op gives for the slots, one after the other               *)
SlotBySlot(op(_)) ==
  LET upto[n \in 0 .. MaxSlots] == IF n = 0 THEN <<>> ELSE upto[n - 1] \o op(n - 1)
  IN  upto[MaxSlots]

-----------------------------------------------------------------------------
(* A device is the record of what it can report: touch (BTN_TOUCH), x and  *)
(* p (ABS_X, ABS_PRESSURE), mt and mtp (the same of ABS_MT), slot          *)
(* (ABS_MT_SLOT), syn (EV_SYN).  report is what EVIOCGBIT(EV_SYN) says of  *)
(* SYN_MT_REPORT.                                                          *)
IsTouchscreen(k) == k.touch /\ (k.x \/ k.mt)

check_fd(k) ==
  [mt |-> k.mt, no_pressure |-> ~k.p \/ (k.mt /\ ~k.mtp), using_syn |-> k.syn,
   type_a |-> k.mt /\ k.report /\ ~k.slot]

(* The state of the module: flags, and the position and pressure that      *)
(* ts_input_read keeps, the buffer and slot that ts_input_read_mt keeps,   *)
(* and the local pen_up.  The buffer is that of malloc.                    *)
input_mod_init(k, junk) ==
  [flags |-> check_fd(k), current |-> [x |-> 0, p |-> 0], slot |-> 0, pen_up |-> FALSE,
   buf |-> [s \in Slot |-> [x |-> junk, p |-> junk, id |-> junk, slot |-> junk,
                            valid |-> FALSE, pen |-> -1]]]

set_pressure(i, multi) ==
  IF ~i.flags.no_pressure THEN i
  ELSE [i EXCEPT !.current.p = 255,
                 !.buf = IF i.flags.mt /\ multi
                         THEN [s \in Slot |-> [@[s] EXCEPT !.p = 255]] ELSE @]

-----------------------------------------------------------------------------
(* ts_input_read.  Its samples are collected in out; a device without      *)
(* EV_SYN gets one for every event.                                        *)
Here(i) == [x |-> i.current.x, p |-> i.current.p]
PenUp == [x |-> 0, p |-> 0]

Give(r, sample) == [r EXCEPT !.out = Append(@, sample), !.i.pen_up = FALSE]

Update(r, code, v) ==
  CASE code \in {"X", "MT_X"} -> [r EXCEPT !.i.current.x = v]
    [] code = "P"             -> [r EXCEPT !.i.current.p = v]
    [] OTHER                  -> r

(* Mutant: a lifted pen is forgotten by the report.                        *)
ReportForgetsPen(r, e) ==
  CASE e[1] = "BTN" -> [r EXCEPT !.i.pen_up = @ \/ e[2] = 0]
    [] e[1] = "SYN" -> Give(r, Here(r.i))
    [] OTHER        -> Update(r, e[1], e[2])

WithSyn(r, e) ==
  CASE e[1] = "BTN" -> [r EXCEPT !.i.pen_up = @ \/ e[2] = 0]
    [] e[1] = "SYN" -> Give(r, IF r.i.pen_up THEN PenUp ELSE Here(r.i))
    [] OTHER        -> Update(r, e[1], e[2])

(* A coordinate of 0 is dropped; other codes of EV_ABS give a sample too,  *)
(* of which only the time is filled in, so it is left out.                 *)
WithoutSyn(r, e) ==
  CASE e[1] = "BTN" -> IF e[2] = 0 THEN Give(r, PenUp) ELSE r
    [] e[1] = "X" /\ e[2] = 0 -> r
    [] e[1] \in {"X", "P"} -> LET u == Update(r, e[1], e[2]) IN Give(u, Here(u.i))
    [] OTHER -> r

(* Enough calls for one sample to read all the events                      *)
ts_input_read(i, events) ==
  LET r == [i |-> set_pressure(i, FALSE), out |-> <<>>] IN
  IF i.flags.using_syn THEN After(WithSyn, r, events) ELSE After(WithoutSyn, r, events)

-----------------------------------------------------------------------------
(* ts_input_read_mt.  ret is 0 until the call returns: 1 for a sample set, *)
(* -1 for -EINVAL.                                                         *)
Begin(i) ==
  [set_pressure(i, TRUE) EXCEPT
     !.buf = [s \in Slot |-> [@[s] EXCEPT !.valid = FALSE, !.pen = -1]],
     !.pen_up = FALSE]

Put(i, s, field, v) == [i EXCEPT !.buf[s] = [@ EXCEPT ![field] = v, !.valid = TRUE]]

(* The legacy codes count only for a slot that has no data of its own.     *)
Legacy(i, field, v) ==
  IF i.flags.mt /\ i.buf[i.slot].valid THEN i ELSE Put(i, i.slot, field, v)

(* Without pressure a lifted pen clears every slot; valid is the current   *)
(* slot's, whichever slot there was something to clear in.                 *)
Clear(i) ==
  LET some == \E s \in Slot : i.buf[s].x # 0 \/ i.buf[s].p # 0
      cleared == [s \in Slot |-> [i.buf[s] EXCEPT !.x = 0, !.p = 0]]
  IN  [i EXCEPT !.buf = IF some THEN [cleared EXCEPT ![i.slot].valid = TRUE]
                        ELSE cleared]

EndFrame(i) ==
  LET c == IF i.pen_up /\ i.flags.no_pressure THEN Clear(i) ELSE i
  IN  [c EXCEPT !.slot = IF i.flags.type_a THEN 0 ELSE @]

Track(i, v) ==
  LET t == Put(i, i.slot, "id", v) IN IF v = -1 THEN Put(t, i.slot, "p", 0) ELSE t

HandleMt(i, e) ==
  LET v == e[2] IN
  CASE e[1] = "BTN"    -> [i EXCEPT !.buf[i.slot].pen = v, !.pen_up = @ \/ v = 0]
    [] e[1] = "SYN"    -> EndFrame(i)
    [] e[1] = "MT_SYN" -> IF i.flags.type_a /\ i.slot < MaxSlots - 1
                          THEN [i EXCEPT !.slot = @ + 1] ELSE i
    [] e[1] = "X"      -> Legacy(i, "x", v)
    [] e[1] = "P"      -> Legacy(i, "p", v)
    [] e[1] = "MT_X"   -> Put(i, i.slot, "x", v)
    [] e[1] = "MT_P"   -> Put(i, i.slot, "p", v)
    [] e[1] = "MT_ID"  -> Track(i, v)
    [] e[1] = "MT_SLOT" -> Put([i EXCEPT !.slot = v], v, "slot", v)

(* Reads one frame: the events up to a report.  A slot beyond the caller's *)
(* would end the call with -EINVAL; ts_uinput has one for each the device  *)
(* has.                                                                    *)
ts_input_read_mt(i, events) == After(HandleMt, Begin(i), events)
=============================================================================

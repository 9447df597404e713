------------------------------- MODULE Galax -------------------------------
(***************************************************************************)
(* tslib's module for the eGalax controllers, galax-raw.c: the events of   *)
(* the device file, <<code, value>>, become a sample at each SYN.  A       *)
(* device is a record of its version and of what it supports.              *)
(***************************************************************************)
EXTENDS Integers, Sequences

GalaxStart == [current_x |-> 0, current_y |-> 0, current_p |-> 0,
               sane_fd |-> 0, grab_events |-> "no"]

parse_raw_grab(m, v) == IF v = 0 THEN m ELSE [m EXCEPT !.grab_events = "wanted"]

Versions == {"0112", "210", "0100"}

XCode(version) == IF version = "0112" THEN "ABS_X+2" ELSE "ABS_X"
YCode(version) == IF version = "0112" THEN "ABS_Y+2" ELSE "ABS_Y"

\* the device is sane; its touches are all of the same pressure if it has no axis
\* for it
ts_galax_check_fd(m, device) ==
  [m EXCEPT !.current_p = IF device.pressured THEN @ ELSE 255,
            !.grab_events = IF @ = "wanted" THEN "active" ELSE @]

\* Mutant: a pen that is lifted keeps its pressure.
KeepsPressure(m, v) ==
  IF v = 0 THEN [m EXCEPT !.current_x = 0, !.current_y = 0]
  ELSE [m EXCEPT !.current_p = 255]

GalaxButton(m, v) ==
  IF v = 0 THEN [m EXCEPT !.current_x = 0, !.current_y = 0, !.current_p = 0]
  ELSE [m EXCEPT !.current_p = 255]

GalaxAxis(m, version, code, v) ==
  CASE code = XCode(version)   -> [m EXCEPT !.current_x = v]
    [] code = YCode(version)   -> [m EXCEPT !.current_y = v]
    [] code = "ABS_PRESSURE"   -> [m EXCEPT !.current_p = v]
    [] OTHER                   -> m

\* the events up to the nr-th SYN; the read waits for them
ts_galax_read(m, device, events, nr) ==
  LET Sample(s) == [x |-> s.current_x, y |-> s.current_y, pressure |-> s.current_p]
      after[k \in 0 .. Len(events)] ==
        IF k = 0 THEN [mod |-> ts_galax_check_fd(m, device), wrote |-> <<>>, used |-> 0]
        ELSE LET s == after[k - 1]
                 code == events[k][1]
                 v == events[k][2]
             IN IF Len(s.wrote) = nr THEN s
                ELSE IF code = "SYN"
                  THEN [s EXCEPT !.wrote = Append(@, Sample(s.mod)), !.used = k]
                ELSE [s EXCEPT !.used = k,
                               !.mod = IF code = "BTN_TOUCH" THEN GalaxButton(@, v)
                                       ELSE GalaxAxis(@, device.version, code, v)]
      end == after[Len(events)]
  IN [mod |-> end.mod, events |-> SubSeq(events, end.used + 1, Len(events)),
      told |-> nr, wrote |-> end.wrote]
=============================================================================

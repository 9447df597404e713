---------------------------- MODULE MCTouchTest ----------------------------
(* The programs of the screen: the touch test with its console, one of the *)
(* demonstrations, on a screen of a few pixels, or the calibration, on one *)
(* of 480x272.                                                             *)
EXTENDS TouchTest, FbDemos, Console, Calibrate
VARIABLE program
MCButtonAt == [b \in Buttons |-> CASE b = Drag -> <<0, 0>> [] b = Draw -> <<1, 0>>
                                   [] b = Bmp -> <<2, 0>> [] b = Quit -> <<3, 0>>]
MCPoints == {<<0, 0>>, <<1, 0>>, <<2, 0>>, <<3, 0>>, <<0, 2>>, <<2, 1>>}
MCText == {<<1, 1>>}

MCLeft == {-1, 0, 1, 2}
MCBlock == [xmin |-> 1, xmax |-> 3, ymin |-> 0, ymax |-> 2]
Picture(name, bits, width, height, file) ==
  [name |-> name, bits |-> bits, width |-> width, height |-> height, file |-> file]
MCPictures ==
  <<Picture("1.bmp", 24, 3, 2, "whole"), Picture("2.bmp", 24, 2, -2, "whole"),
    Picture("1234.bmp", 24, 4, 2, "whole"), Picture("1.bmp", 24, 3, 2, "whole"),
    Picture("3.bmp", 32, 3, 2, "whole"), Picture("4.bmp", 8, 2, 2, "whole"),
    Picture("5.bmp", 32, 4, -2, "whole"), Picture("2.bmp", 24, 2, -2, "short"),
    Picture("6.bmp", 32, 1, 1, "missing")>>

\* of twelve bits: upright, upside down, with its axes swapped, aslant, and
\* two that report a line
MCPanels == {<<8, 0, 100, 0, 14, 50>>, <<-8, 0, 3940, 0, -14, 3900>>, <<0, 14, 100, 8, 0, 50>>,
             <<4, 7, 100, -3, 9, 2000>>, <<1, 0, 0, 1, 0, 0>>, <<3, 0, 10, 5, 0, 20>>}
MCStray == {<<3001, 1777>>}

\* the programs that do not run stay at one of their initial states
MCInit == /\ Init /\ FbInit /\ ConInit /\ CalInit
          /\ program \in {"ts_main", "console", "demo", "calibrate"}
          /\ program = "demo" \/ (todo = fbclean /\ yoffset = 0)
          /\ program = "calibrate" \/ (panel = <<1, 0, 0, 1, 0, 0>> /\ pending = <<>>)
MCNext ==
  /\ UNCHANGED program
  /\ \/ program = "ts_main" /\ Next /\ UNCHANGED <<fbvars, convars, calvars>>
     \/ program = "console" /\ ConNext /\ UNCHANGED <<vars, fbvars, calvars>>
     \/ program = "demo" /\ FbNext /\ UNCHANGED <<vars, convars, calvars>>
     \/ program = "calibrate" /\ CalNext /\ UNCHANGED <<vars, fbvars, convars>>
MCSpec == MCInit /\ [][MCNext]_<<vars, fbvars, convars, calvars, program>>
=============================================================================

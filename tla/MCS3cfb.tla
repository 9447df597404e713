------------------------------ MODULE MCS3cfb ------------------------------
(* Two processes, the default window and one overlay window.               *)
EXTENDS S3cfbProbe, TLC

CONSTANTS p1, p2, sysfs, pm

MCProc == {p1, p2}
MCVars == {[xres |-> 1, rows |-> 2, yoffset |-> 0, format |-> "16BPP_565"],
           [xres |-> 1, rows |-> 2, yoffset |-> 0, format |-> "24BPP"]}
MCPlaces == {1}
MCKeys == {1}
MCSymmetry == Permutations(MCProc)
=============================================================================

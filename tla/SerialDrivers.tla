---------------------------- MODULE SerialDrivers ----------------------------
(***************************************************************************)
(* tslib's modules for controllers on a serial line.                       *)
(***************************************************************************)
EXTENDS Integers, Sequences

(***************************************************************************)
(* MicroTouch, touchkit-raw.c.  A packet is a start byte, whose last bit   *)
(* is the pen's state, and four bytes of coordinates.  Packets may overlap,*)
(* so that a new one begins in the middle of another.                      *)
(***************************************************************************)
PACKET_SIZE == 5

IsStart(byte) == byte \in {128, 129}

DecodePacket(d) ==
  [x |-> (d[2] % 16) * 128 + (d[3] % 128),
   y |-> (d[4] % 16) * 128 + (d[5] % 128),
   pressure |-> IF d[1] = 129 THEN 200 ELSE 0]

\* where the loop stops: at the first start byte that has no other in its
\* packet, or for which the buffer has not enough bytes yet
Starts(buffer) ==
  {p \in DOMAIN buffer :
     /\ IsStart(buffer[p])
     /\ p + PACKET_SIZE - 1 <= Len(buffer) =>
          \A q \in 1 .. PACKET_SIZE - 1 : ~IsStart(buffer[p + q])}

\* Mutant: the bytes in front of a start are kept.
KeepsGarbage(buffer, bytes) ==
  LET held   == buffer \o bytes
      p == CHOOSE s \in Starts(held) : \A t \in Starts(held) : s <= t
  IN IF Len(held) < PACKET_SIZE \/ Starts(held) = {}
        \/ p + PACKET_SIZE - 1 > Len(held)
     THEN [buffer |-> held, told |-> 0, wrote |-> <<>>]
     ELSE [buffer |-> SubSeq(held, 1, p - 1) \o SubSeq(held, p + PACKET_SIZE, Len(held)),
           told |-> 1,
           wrote |-> <<DecodePacket(SubSeq(held, p, p + PACKET_SIZE - 1))>>]

\* bytes are what read() added to the buffer
touchkit_read(buffer, bytes) ==
  LET held == buffer \o bytes
      p == CHOOSE s \in Starts(held) : \A t \in Starts(held) : s <= t
      Nothing(left) == [buffer |-> left, told |-> 0, wrote |-> <<>>]
  IN IF Len(held) < PACKET_SIZE \/ Starts(held) = {} THEN Nothing(held)
     ELSE IF p + PACKET_SIZE - 1 > Len(held) THEN Nothing(SubSeq(held, p, Len(held)))
     ELSE [buffer |-> SubSeq(held, p + PACKET_SIZE, Len(held)),
           told   |-> 1,
           wrote  |-> <<DecodePacket(SubSeq(held, p, p + PACKET_SIZE - 1))>>]

-----------------------------------------------------------------------------
(***************************************************************************)
(* DMC, dmc-raw.c: a byte 16 is a release, a byte 17 and four bytes of     *)
(* coordinates a press.                                                    *)
(***************************************************************************)
DmcStart == [current_x |-> 0, current_y |-> 0]

DmcRelease(m) == [x |-> m.current_x, y |-> m.current_y, pressure |-> 0]

DmcPlace(m, b) == [current_x |-> b[1] * 256 + b[2], current_y |-> b[3] * 256 + b[4]]

\* one turn of the loop, as long as none has failed: bytes are those on the line,
\* i counts the turns, wrote the samples
dmc_turn(s) ==
  LET rest == Tail(s.bytes)
      b    == SubSeq(rest, 1, 4)
      Fail(left) == [s EXCEPT !.bytes = left, !.failed = TRUE]
  IN IF s.failed THEN s
     ELSE IF s.bytes = <<>> THEN Fail(<<>>)
     ELSE IF s.bytes[1] = 16
       THEN [s EXCEPT !.bytes = rest, !.i = @ + 1, !.wrote = Append(@, DmcRelease(s.mod))]
     ELSE IF s.bytes[1] # 17 THEN [s EXCEPT !.bytes = rest, !.i = @ + 1]
     ELSE IF Len(rest) < 4 THEN Fail(<<>>)
     ELSE LET m == DmcPlace(s.mod, b)
          IN [s EXCEPT !.bytes = SubSeq(rest, 5, Len(rest)), !.i = @ + 1, !.mod = m,
                       !.wrote = Append(@, [DmcRelease(m) EXCEPT !.pressure = 100])]

\* a turn that fails takes back the one before it, whose sample is lost
dmc_read(m, bytes, nr) ==
  LET after[k \in 0 .. nr] ==
        IF k = 0 THEN [mod |-> m, bytes |-> bytes, i |-> 0, failed |-> FALSE, wrote |-> <<>>]
        ELSE dmc_turn(after[k - 1])
      end == after[nr]
  IN [mod |-> end.mod, bytes |-> end.bytes, wrote |-> end.wrote,
      told |-> IF end.failed THEN end.i - 1 ELSE end.i]
=============================================================================

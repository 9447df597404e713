----------------------------- MODULE RawDrivers -----------------------------
(***************************************************************************)
(* The raw modules of tslib that drive other devices than those of the     *)
(* kernel's input core: a device reports what the pen does, the reports    *)
(* wait in the device file, or on a serial line before that, and a program *)
(* reads them through one of the modules.                                  *)
(***************************************************************************)
EXTENDS FiniteSets, RecordDrivers, SerialDrivers, Galax, Palmpre

CONSTANTS
  Confs,   \* the drivers and their devices; see ConfAssumption
  Spots,   \* places of the pen, <<x, y>>
  Frames,  \* frames of the Palm Pre's chip
  Junk,    \* what malloc's memory may hold
  Own,     \* rates the Palm Pre's chip may have before the driver is loaded
  Room,    \* bound: reports that wait in the device file
  Bytes    \* bound: bytes that wait in it

VARIABLES
  conf,    \* the driver
  pen,     \* the last report of the device that was sent whole
  line,    \* what of it is still on the serial line
  wire,    \* what waits in the device file
  mod,     \* the state of the driver
  seen,    \* the last sample the program got
  read,    \* history: the last read, until the device reports something
  past     \* history; see Past

vars == <<conf, pen, line, wire, mod, seen, read, past>>

Records == {"collie", "h3600", "corgi", "ucb1x00", "arctic2", "mk712", "tatung", "waveshare"}
Drivers == Records \cup {"touchkit", "dmc", "galax", "palmpre"}

\* version and pressured for galax, ids and nodes for waveshare, parameters for palmpre
ASSUME ConfAssumption == \A c \in Confs :
  /\ c.driver \in Drivers /\ c.version \in Versions /\ c.pressured \in BOOLEAN
  /\ c.ids \in BOOLEAN /\ c.nodes \subseteq {"/dev/hidraw"} \X Nat
  /\ c.parameters \in Seq((OfChip \cup OfModule) \X Nat)

\* what fits in the fields of the devices' reports
ASSUME SpotsAssumption == \A s \in Spots :
  /\ s \in Nat \X Nat
  /\ \A c \in Confs, k \in 1 .. 2 :
       /\ c.driver = "touchkit" => s[k] < 2048
       /\ c.driver \in {"arctic2", "mk712"} => s[k] < 32768

ASSUME FramesAssumption ==
  /\ Frames \subseteq [Field -> Capacity] /\ Junk \subseteq Int /\ Own \subseteq Nat
  /\ Room \in Nat /\ Bytes \in Nat

Lifted == [x |-> 0, y |-> 0, pressure |-> 0]
NoRead == [told |-> 0, wrote |-> <<>>, asked |-> 0, came |-> 0, due |-> <<>>, before |-> Lifted]

(* cur: the bytes since the last start byte, if they may be a packet.      *)
(* torn: a read took a part of a report, lost a sample or told of one that *)
(* it had not written.                                                     *)
(* fresh: the axes that a galax device has sent since the pen was lifted.  *)
(* rate: the one of the Palm Pre's chip when the driver is loaded; unknown:*)
(* the driver does not know it; stuck: it was refused when it should have  *)
(* been restored; good: good frames since the chip was last slowed down.   *)
Past == [cur |-> <<>>, torn |-> FALSE, fresh |-> {}, rate |-> 0, unknown |-> FALSE,
         stuck |-> FALSE, good |-> DISCARD_FRAMES + 1]

Start(c) ==
  CASE c.driver = "touchkit"  -> {<<>>}
    [] c.driver = "dmc"       -> {DmcStart}
    [] c.driver = "galax"     -> {parse_raw_grab(GalaxStart, 1)}
    [] c.driver = "palmpre"   -> {PalmpreStart(c.parameters, refused, junk, own, first) :
                                    refused \in SUBSET {"scanrate"}, junk \in Junk, own \in Own,
                                    first \in Frames}
    [] c.driver = "waveshare" -> {[reopen |-> TRUE, ids |-> c.ids, fd |-> "opened"]}
    [] OTHER                  -> {<<>>}

\* a serial line may begin in the middle of a packet
Init ==
  /\ conf \in Confs /\ mod \in Start(conf)
  /\ pen = Lifted /\ seen = Lifted /\ wire = <<>> /\ read = NoRead
  /\ line \in IF conf.driver = "touchkit" THEN {[i \in 1 .. n |-> 1] : n \in 0 .. 4} ELSE {<<>>}
  /\ past = IF conf.driver # "palmpre" THEN Past
            ELSE [Past EXCEPT !.rate = mod.chip["scanrate"],
                              !.unknown = mod.set["scanrate"] # mod.chip["scanrate"]]

-----------------------------------------------------------------------------
(* External: what the devices send                                         *)
Record(p) ==
  CASE conf.driver = "mk712" ->
         [header |-> IF p.pressure > 0 THEN 0 ELSE 1, x |-> p.x, y |-> p.y]
    [] conf.driver = "waveshare" -> [status |-> p.pressure, x |-> p.x, y |-> p.y]
    [] conf.driver = "tatung" ->
         [x1 |-> IF p.pressure > 0 THEN (p.x + 64) \div 31 ELSE 240, x2 |-> (p.x + 64) % 31,
          y1 |-> (p.y + 192) \div 31, y2 |-> (p.y + 192) % 31]
    [] OTHER -> p

Packet(p) ==
  IF conf.driver = "touchkit"
  THEN <<IF p.pressure > 0 THEN 129 ELSE 128, p.x \div 128, p.x % 128, p.y \div 128, p.y % 128>>
  ELSE IF p.pressure > 0 THEN <<17, p.x \div 256, p.x % 256, p.y \div 256, p.y % 256>>
  ELSE <<16>>

Event(condition, code, v) == IF condition THEN <<<<code, v>>>> ELSE <<>>

Touched(p) == p.pressure > 0

\* the input core leaves out what has not changed
Events(p) ==
  Event(Touched(p) # Touched(pen), "BTN_TOUCH", IF Touched(p) THEN 1 ELSE 0)
  \o Event(p.x # pen.x, XCode(conf.version), p.x)
  \o Event(p.y # pen.y, YCode(conf.version), p.y)
  \o Event(conf.pressured /\ p.pressure # pen.pressure, "ABS_PRESSURE", p.pressure)
  \o <<<<"SYN", 0>>>>

Syns(events) == {i \in DOMAIN events : events[i] = <<"SYN", 0>>}

\* the pen moves, or is lifted where it is
Reports == {[x |-> s[1], y |-> s[2], pressure |-> 1] : s \in Spots}
           \cup (IF Touched(pen) THEN {[pen EXCEPT !.pressure = 0]} ELSE {})

Report(p) ==
  /\ conf.driver # "palmpre" /\ p # pen /\ line = <<>>
  /\ \/ /\ conf.driver \in Records /\ Len(wire) < Room
        /\ wire' = Append(wire, Record(p)) /\ UNCHANGED <<line, past>>
     \/ /\ conf.driver = "galax" /\ Cardinality(Syns(wire)) < Room
        /\ wire' = wire \o Events(p) /\ UNCHANGED line
        /\ past' = [past EXCEPT !.fresh =
                      IF Touched(p) THEN @ \cup {a \in {"x", "y"} : p[a] # pen[a]} ELSE {}]
     \/ /\ conf.driver \in {"touchkit", "dmc"}
        /\ line' = Packet(p) /\ UNCHANGED <<wire, past>>
  /\ pen' = p /\ read' = NoRead
  /\ UNCHANGED <<conf, mod, seen>>

\* the device repeats its report, and the next packet overlaps this one
ReportCut(n) ==
  /\ conf.driver = "touchkit" /\ line = <<>>
  /\ line' = SubSeq(Packet(pen), 1, n)
  /\ read' = NoRead
  /\ UNCHANGED <<conf, pen, wire, mod, seen, past>>

Arrive(n) ==
  /\ n \in DOMAIN line /\ Len(wire) + n <= Bytes
  /\ wire' = wire \o SubSeq(line, 1, n)
  /\ line' = SubSeq(line, n + 1, Len(line))
  /\ read' = NoRead
  /\ UNCHANGED <<conf, pen, mod, seen, past>>

-----------------------------------------------------------------------------
(* What the program gets: told samples of its array, of which the driver   *)
(* has written those in wrote.                                             *)
Gets(v, asked, came, due) ==
  /\ read' = [told |-> v.told, wrote |-> v.wrote, asked |-> asked, came |-> came, due |-> due,
              before |-> seen]
  /\ seen' = IF v.told \in DOMAIN v.wrote THEN v.wrote[v.told] ELSE seen

\* something came and the driver has not told of just what it wrote
Torn(v, came) == came > 0 /\ v.told # Len(v.wrote)

RecordRead(recs, nr) ==
  CASE conf.driver = "collie"    -> collie_read(recs)
    [] conf.driver = "h3600"     -> h3600_read(recs)
    [] conf.driver = "corgi"     -> corgi_read(recs)
    [] conf.driver = "ucb1x00"   -> ucb1x00_read(recs)
    [] conf.driver = "arctic2"   -> arctic2_read(recs)
    [] conf.driver = "mk712"     -> mk712_read(recs)
    [] conf.driver = "tatung"    -> tatung_read(recs, nr)
    [] conf.driver = "waveshare" -> waveshare_read(recs, nr)

ReadRecords(nr) ==
  LET searches == conf.driver = "waveshare" /\ Searches(mod) /\ Found(conf.nodes) = {}
      n == IF Len(wire) < nr THEN Len(wire) ELSE nr
      v == RecordRead(SubSeq(wire, 1, n), nr)
  IN /\ conf.driver \in Records
     /\ mod' = IF conf.driver = "waveshare" THEN waveshare_search(mod, conf.nodes) ELSE mod
     /\ IF searches THEN Gets(Failed, nr, 0, <<>>) /\ UNCHANGED <<wire, past>>
        ELSE /\ Gets(v, nr, n, <<>>)
             /\ wire' = SubSeq(wire, n + 1, Len(wire))
             /\ past' = [past EXCEPT !.torn = @ \/ Torn(v, n)]
     /\ UNCHANGED <<conf, pen, line>>

\* a packet as the protocol has it: a start byte and four others.  What a byte makes
\* of those since the last start byte
Parsed(cur, byte) ==
  IF IsStart(byte) THEN <<byte>>
  ELSE IF cur = <<>> \/ Len(cur) = PACKET_SIZE THEN <<>> ELSE Append(cur, byte)

ReadTouchKit ==
  LET n == IF Len(wire) < PACKET_SIZE THEN Len(wire) ELSE PACKET_SIZE
      v == touchkit_read(mod, SubSeq(wire, 1, n))
      cur[i \in 0 .. n] == IF i = 0 THEN past.cur ELSE Parsed(cur[i - 1], wire[i])
      ends == {i \in 1 .. n : Len(cur[i]) = PACKET_SIZE}
  IN /\ conf.driver = "touchkit" /\ wire # <<>>
     /\ mod' = v.buffer
     /\ wire' = SubSeq(wire, n + 1, Len(wire))
     /\ Gets(v, 1, n, [i \in ends |-> DecodePacket(cur[i])])
     /\ past' = [past EXCEPT !.cur = cur[n]]
     /\ UNCHANGED <<conf, pen, line>>

ReadDmc(nr) ==
  LET v == dmc_read(mod, wire, nr)
  IN /\ conf.driver = "dmc"
     /\ mod' = v.mod /\ wire' = v.bytes
     /\ Gets(v, nr, Len(wire), <<>>)
     /\ past' = [past EXCEPT !.torn = @ \/ Torn(v, Len(wire))]
     /\ UNCHANGED <<conf, pen, line>>

\* the read waits until it has its samples
ReadGalax(nr) ==
  LET v == ts_galax_read(mod, conf, wire, nr)
  IN /\ conf.driver = "galax" /\ nr <= Cardinality(Syns(wire))
     /\ mod' = v.mod /\ wire' = v.events
     /\ Gets(v, nr, nr, <<>>)
     /\ UNCHANGED <<conf, pen, line, past>>

\* works tells if the ioctl does that may be made
ReadPalmpre(frame, works) ==
  LET v == palmpre_read(mod, frame, works)
      good == InRange(frame) = Field
      refused == ~works /\ good /\ mod.discard_frames = DISCARD_FRAMES
  IN /\ conf.driver = "palmpre"
     /\ mod' = v.mod
     /\ Gets([told |-> Len(v.wrote), wrote |-> v.wrote], 1, 1, <<>>)
     /\ past' = [past EXCEPT !.stuck = @ \/ refused,
                             !.good = IF v.mod.discard_frames > mod.discard_frames THEN 0
                                      ELSE IF good /\ @ <= DISCARD_FRAMES THEN @ + 1 ELSE @]
     /\ UNCHANGED <<conf, pen, line, wire>>

Next ==
  \/ \E p \in Reports : Report(p)
  \/ \E n \in 1 .. 4 : ReportCut(n)
  \/ \E n \in 1 .. 5 : Arrive(n)
  \/ \E nr \in 1 .. 2 : ReadRecords(nr)
  \/ ReadTouchKit
  \/ \E nr \in 1 .. 2 : ReadDmc(nr)
  \/ \E nr \in 1 .. 2 : ReadGalax(nr)
  \/ \E frame \in Frames, works \in BOOLEAN : ReadPalmpre(frame, works)

Spec == Init /\ [][Next]_vars

-----------------------------------------------------------------------------
(***************************************************************************)
(* touchkit_read gives a sample in exactly those calls in which the last   *)
(* byte of a packet arrives, though bytes come in pieces of any size, the  *)
(* line is joined in mid-packet and packets are cut short by the next one; *)
(* and, as the comment on it says, two packets fit in the buffer it needs. *)
(***************************************************************************)
KeepsInStep ==
  conf.driver = "touchkit" =>
    /\ \/ DOMAIN read.due = {} /\ read.wrote = <<>>
       \/ \E i \in DOMAIN read.due : DOMAIN read.due = {i} /\ read.wrote = <<read.due[i]>>
    /\ Len(mod) <= 2 * PACKET_SIZE

(***************************************************************************)
(* When nothing waits any more, the program has last got what the device   *)
(* has last reported: whether the pen is down, and where.  A galax device's*)
(* axis is right only if the pen has moved along it since it was down,     *)
(* because the driver forgets the place of a pen that is lifted; tatung's  *)
(* pen is never lifted; a read of dmc or waveshare must not have been torn.*)
(***************************************************************************)
ReadsFollowPen ==
  wire = <<>> /\ line = <<>> /\ conf.driver \notin {"tatung", "palmpre"} /\ ~past.torn =>
    /\ Touched(seen) = Touched(pen)
    /\ \A a \in {"x", "y"} :
         conf.driver # "galax" \/ (Touched(pen) /\ a \in past.fresh) => seen[a] = pen[a]

(***************************************************************************)
(* A release is given once for a press, at the place of that press.        *)
(***************************************************************************)
ReleaseWherePressed ==
  conf.driver \in {"palmpre", "dmc"} /\ ~past.torn => \A i \in DOMAIN read.wrote :
    ~Touched(read.wrote[i]) =>
      LET before == IF i = 1 THEN read.before ELSE read.wrote[i - 1]
      IN Touched(before) /\ read.wrote[i] = [before EXCEPT !.pressure = 0]

(***************************************************************************)
(* However often the device sleeps, and however frames out of range come   *)
(* among those that are discarded, the chip is back at the rate it had     *)
(* when the driver was loaded as soon as it has woken up; that it could    *)
(* not be slowed down does no harm.  Excepted are a refusal to restore the *)
(* rate, and a driver that never learnt it: the chip refused the default   *)
(* and the configuration names no rate, so what malloc left in the driver's*)
(* field is what it sets when the chip wakes.  Before a sample is given, as*)
(* many good frames have been discarded as the chip needs since it was     *)
(* slowed down.                                                            *)
(***************************************************************************)
RateComesBack ==
  conf.driver = "palmpre" =>
    /\ ~past.stuck /\ ~past.unknown /\ mod.discard_frames < DISCARD_FRAMES =>
         mod.chip["scanrate"] = past.rate /\ mod.set["scanrate"] = past.rate
    /\ read.wrote # <<>> => past.good > DISCARD_FRAMES
=============================================================================

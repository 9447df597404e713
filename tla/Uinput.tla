------------------------------- MODULE Uinput -------------------------------
(***************************************************************************)
(* A touchscreen of the kernel's input core, a program that reads it with  *)
(* ts_read, and tools/ts_uinput.c, which reads it with ts_read_mt and      *)
(* replays what it gets on a virtual device.  No filters are configured:   *)
(* what is checked is the driver of InputRaw and the replay.               *)
(*                                                                         *)
(* The input core (external) reports only what has changed, contacts by    *)
(* slot, followed by the position of the first contact in the legacy codes.*)
(* A driver without slots sends every contact of a frame.                  *)
(***************************************************************************)
EXTENDS InputRaw, FiniteSets

CONSTANTS
  Kinds,   \* the devices: see InputRaw; zero tells if a lifted contact has no pressure
  Places,  \* x of a contact
  Forces   \* pressure of a contact

Nowhere == 0   \* what the axes hold before the first touch

ASSUME UinputAssumption == Nowhere \notin Places \cup Forces /\ Places \cup Forces \subseteq Nat

VARIABLES
  kind,   \* the device
  dev,    \* what the input core holds of it
  alone,  \* history: there have never been two contacts at the same time
  single, \* the module of the program that calls ts_read
  got,    \* the samples of the last frame it has read
  multi,  \* the module of ts_uinput
  virt,   \* what the input core holds of the virtual device
  strayed \* history: a contact was replayed in the slot whose number malloc's memory
          \* held, because the input core does not report slot 0 before another is used

uinputvars == <<kind, dev, alone, single, got, multi, virt, strayed>>

Idle == [c |-> [s \in Slot |-> [id |-> -1, x |-> Nowhere, p |-> Nowhere]],
         slot |-> 0, btn |-> 0, x |-> Nowhere, p |-> Nowhere]

Down(c) == {s \in Slot : c[s].id # -1}
First(S) == CHOOSE s \in S : \A t \in S : s <= t

Emit(condition, code, v) == IF condition THEN <<<<code, v>>>> ELSE <<>>

-----------------------------------------------------------------------------
(* External: what the input core reports when the contacts become new      *)
Changed(d, new) == {s \in Slot : new[s] # d.c[s]}
Last(S) == CHOOSE s \in S : \A t \in S : t <= s

BySlot(d, new) ==
  LET OfSlot(s) ==
        LET before == {t \in Changed(d, new) : t < s}
            slot == IF before = {} THEN d.slot ELSE Last(before)
        IN  IF new[s] = d.c[s] THEN <<>>
            ELSE Emit(slot # s, "MT_SLOT", s)
                 \o Emit(new[s].id # d.c[s].id, "MT_ID", new[s].id)
                 \o Emit(new[s].x # d.c[s].x, "MT_X", new[s].x)
                 \o Emit(kind.mtp /\ new[s].p # d.c[s].p, "MT_P", new[s].p)
  IN  SlotBySlot(OfSlot)

ByContact(new) ==
  LET OfSlot(s) ==
        IF s \notin Down(new) THEN <<>>
        ELSE <<<<"MT_X", new[s].x>>>> \o Emit(kind.mtp, "MT_P", new[s].p)
             \o <<<<"MT_SYN", 0>>>>
  IN  SlotBySlot(OfSlot)

Contacts(d, new) ==
  CASE kind.mt /\ kind.slot  -> BySlot(d, new)
    [] kind.mt /\ ~kind.slot -> ByContact(new)
    [] OTHER -> <<>>

(* BTN_TOUCH and the legacy codes, for the first contact                   *)
Emulated(new) ==
  LET down == Down(new) IN
  [btn |-> IF down = {} THEN 0 ELSE 1,
   x |-> IF down # {} /\ kind.x THEN new[First(down)].x ELSE dev.x,
   p |-> IF ~kind.p THEN dev.p
         ELSE IF down # {} THEN new[First(down)].p
         ELSE IF kind.zero THEN 0 ELSE dev.p]

Pointer(d, new) ==
  LET e == Emulated(new) IN
  Emit(e.btn # d.btn, "BTN", e.btn) \o Emit(e.x # d.x, "X", e.x)
  \o Emit(e.p # d.p, "P", e.p)

DeviceAfter(d, new) ==
  LET e == Emulated(new) IN
  [c |-> new, btn |-> e.btn, x |-> e.x, p |-> e.p,
   slot |-> IF kind.slot /\ Changed(d, new) # {} THEN Last(Changed(d, new)) ELSE d.slot]

(* The codes that the virtual device gets: those of the device             *)
setup_uinput(k) ==
  {"BTN"} \cup {c \in {"X"} : k.x} \cup {c \in {"P"} : k.p} \cup {c \in {"MT_X"} : k.mt}
  \cup {c \in {"MT_P"} : k.mtp} \cup {c \in {"MT_SLOT", "MT_ID"} : k.slot}

(* External: what the core makes of an event written to uinput; it ignores *)
(* codes that the virtual device does not have.                            *)
Written(v, e) ==
  LET code == e[1] IN
  CASE code \notin setup_uinput(kind) -> v
    [] code = "BTN" -> [v EXCEPT !.btn = e[2]]
    [] code = "X" -> [v EXCEPT !.x = e[2]]
    [] code = "P" -> [v EXCEPT !.p = e[2]]
    [] code = "MT_SLOT" -> IF e[2] \in Slot THEN [v EXCEPT !.slot = e[2]] ELSE v
    [] code = "MT_X" -> [v EXCEPT !.c[v.slot].x = e[2]]
    [] code = "MT_P" -> [v EXCEPT !.c[v.slot].p = e[2]]
    [] code = "MT_ID" -> [v EXCEPT !.c[v.slot].id = e[2]]

-----------------------------------------------------------------------------
(* Mutant: slots whose contact is gone are not replayed.                   *)
ReplayTouching(s, c) ==
  Emit(c.pen \in {0, 1}, "BTN", c.pen)
  \o IF ~c.valid \/ c.id = -1 THEN <<>>
     ELSE <<<<"MT_SLOT", c.slot>>, <<"MT_X", c.x>>, <<"MT_P", c.p>>, <<"MT_ID", c.id>>>>

(* send_touch_events, for one slot                                         *)
Replay(s, c) ==
  Emit(c.pen \in {0, 1}, "BTN", c.pen)
  \o IF ~c.valid THEN <<>>
     ELSE <<<<"MT_SLOT", c.slot>>>>
          \o (IF s = 0 THEN <<<<"X", c.x>>, <<"P", c.p>>>> ELSE <<>>)
          \o <<<<"MT_X", c.x>>, <<"MT_P", c.p>>, <<"MT_ID", c.id>>>>
          \o Emit(kind.report, "MT_SYN", 0)

send_touch_events(buf) ==
  LET OfSlot(s) == Replay(s, buf[s])
      events == SlotBySlot(OfSlot)
  IN  IF events = <<>> THEN <<>> ELSE Append(events, <<"SYN", 0>>)

(* process: one sample set is read and replayed.                           *)
process(i, v) == After(Written, v, send_touch_events(i.buf))

UinputInit ==
  /\ kind \in {k \in Kinds : IsTouchscreen(k)}
  /\ dev = Idle /\ virt = Idle /\ alone = TRUE /\ got = <<>>
  /\ strayed = FALSE
  /\ \E junk \in Memory : /\ single = input_mod_init(kind, junk)
                          /\ multi = input_mod_init(kind, junk)

(* A contact as it may be in the next frame                                *)
Next1(s) ==
  IF ~kind.mt /\ s > 0 THEN {dev.c[s]}
  ELSE [id : {s}, x : Places, p : IF kind.p \/ kind.mtp THEN Forces ELSE {Nowhere}]
       \cup {[dev.c[s] EXCEPT !.id = -1, !.p = IF kind.zero THEN 0 ELSE @]}

(* A frame of the device, read by both programs                            *)
Frame ==
  \E new \in [Slot -> UNION {Next1(s) : s \in Slot}] :
    LET events == Contacts(dev, new) \o Pointer(dev, new)
        frame == Append(events, <<"SYN", 0>>)
    IN  /\ \A s \in Slot : new[s] \in Next1(s)
        /\ events # <<>>
        /\ dev' = DeviceAfter(dev, new)
        /\ alone' = (alone /\ Cardinality(Down(new)) <= 1)
        /\ LET r == ts_input_read(single, frame)
               i == ts_input_read_mt(multi, frame)
           IN  /\ single' = r.i /\ got' = r.out
               /\ multi' = i /\ virt' = process(i, virt)
               /\ strayed' = (strayed \/ \E s \in Slot : i.buf[s].valid
                                         /\ i.buf[s].slot \in Slot \ {s})
        /\ UNCHANGED kind

-----------------------------------------------------------------------------
(* ts_read follows the only contact there is: a frame ends with a sample   *)
(* of the contact's place and pressure, or of no pressure when it is gone. *)
ReadFollows ==
  alone /\ got # <<>> =>
    LET last == got[Len(got)] IN
    IF Down(dev.c) = {} THEN last.p = 0
    ELSE LET c == dev.c[First(Down(dev.c))] IN
         last = [x |-> c.x, p |-> IF single.flags.no_pressure THEN 255 ELSE c.p]

(* With slots, the virtual device has the contacts of the device: whichever*)
(* fingers come and go in a frame, no touch sticks and none is missing.    *)
(* They have its places and pressures too if the device measures pressure  *)
(* and reports that it is gone.                                            *)
ContactsReplayed ==
  kind.slot /\ ~strayed =>
    /\ virt.btn = dev.btn /\ Down(virt.c) = Down(dev.c)
    /\ kind.p /\ kind.mtp /\ kind.zero =>
         \A s \in Down(dev.c) : virt.c[s] = dev.c[s]
=============================================================================

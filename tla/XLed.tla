-------------------------------- MODULE XLed --------------------------------
(***************************************************************************)
(* driver/xled.c: the LED character device, called by several processes at *)
(* once.  The driver takes no lock, so a step of the model is one access   *)
(* to the port's registers; between two of them any other process may run. *)
(*                                                                         *)
(* GPJ0DAT is modelled by the LED pins that are high: the LEDs are active  *)
(* low, so a high pin is a dark LED.  The other pins of the port are left  *)
(* out.  GPJ0CON is the set of LED pins configured as outputs.             *)
(***************************************************************************)
EXTENDS Integers, FiniteSets

CONSTANTS Proc,      \* the processes that use /xled
          Leds,      \* the pins of XLEDSIGN
          Patterns   \* the patterns (sets of lit LEDs) processes write

ASSUME XLedAssumption == /\ IsFiniteSet(Proc)
                         /\ Patterns \subseteq SUBSET Leds

VARIABLES
  loaded,   \* is the module in the kernel?
  refs,     \* its reference count
  con,      \* GPJ0CON: the LED pins that are outputs
  dat,      \* GPJ0DAT: the LED pins that are high
  pc,       \* where each process is
  arg,      \* c of xled_write, or gpio of xled_ioctl: what a call stores
  tmp,      \* the last value a call loaded from GPJ0DAT
  asked     \* history: the dark patterns of the calls since the port was at rest

vars == <<loaded, refs, con, dat, pc, arg, tmp, asked>>

Closed == "closed"
Idle == "idle"
Init == /\ loaded = TRUE
        /\ refs = 0
        /\ con = {}
        /\ dat \in SUBSET Leds
        /\ pc = [p \in Proc |-> Closed]
        /\ arg = [p \in Proc |-> {}]
        /\ tmp = [p \in Proc |-> {}]
        /\ asked = {}

Goto(p, from, to) == pc[p] = from /\ pc' = [pc EXCEPT ![p] = to]

Storing == {"write", "clear", "load", "merge", "blank", "blankload", "blankmerge",
            "set", "setdata"}

AtRest == \A p \in Proc : pc[p] \notin Storing

(* A call that will leave the pins in dark high enters the driver.         *)
Ask(dark) == asked' = IF AtRest THEN {dark} ELSE asked \cup {dark}

-----------------------------------------------------------------------------
(* Mutant: the module goes although files are open.                        *)
RmmodAnyway == /\ loaded
               /\ loaded' = FALSE
               /\ UNCHANGED <<refs, con, dat, pc, arg, tmp, asked>>

(* init_module and cleanup_module; rmmod succeeds at reference count zero. *)
Rmmod == /\ loaded /\ refs = 0
         /\ loaded' = FALSE
         /\ UNCHANGED <<refs, con, dat, pc, arg, tmp, asked>>

Insmod == /\ ~loaded
          /\ loaded' = TRUE
          /\ UNCHANGED <<refs, con, dat, pc, arg, tmp, asked>>

(* The kernel takes a reference for the file (fop.owner) and calls         *)
(* xled_open, which configures the pins and takes a second one.            *)
OpenCall(p) == /\ loaded
               /\ Goto(p, Closed, "opening")
               /\ refs' = refs + 1
               /\ UNCHANGED <<loaded, con, dat, arg, tmp, asked>>

OpenConfigure(p) == /\ Goto(p, "opening", "mapped")
                    /\ con' = Leds
                    /\ UNCHANGED <<loaded, refs, dat, arg, tmp, asked>>

OpenReturn(p) == /\ Goto(p, "mapped", Idle)
                 /\ refs' = refs + 1
                 /\ UNCHANGED <<loaded, con, dat, arg, tmp, asked>>

(* xled_release gives the second reference back while the kernel still     *)
(* holds the first.                                                        *)
ReleaseCall(p) == /\ Goto(p, Idle, "release")
                  /\ refs' = refs - 1
                  /\ UNCHANGED <<loaded, con, dat, arg, tmp, asked>>

ReleaseReturn(p) == /\ Goto(p, "release", Closed)
                    /\ refs' = refs - 1
                    /\ UNCHANGED <<loaded, con, dat, arg, tmp, asked>>

-----------------------------------------------------------------------------
(* xled_write: load the port, store it with every LED pin low, load it     *)
(* again and store it with the pins of the dark LEDs high.                 *)
WriteCall(p, lit) == /\ Goto(p, Idle, "write")
                     /\ arg' = [arg EXCEPT ![p] = Leds \ lit]
                     /\ Ask(Leds \ lit)
                     /\ UNCHANGED <<loaded, refs, con, dat, tmp>>

WriteLoad(p) == /\ Goto(p, "write", "clear")
                /\ tmp' = [tmp EXCEPT ![p] = dat]
                /\ UNCHANGED <<loaded, refs, con, dat, arg, asked>>

(* Mutant: the LED pins are not cleared before the new ones are merged in. *)
WriteNoClear(p) == /\ Goto(p, "clear", "load")
                   /\ dat' = tmp[p]
                   /\ UNCHANGED <<loaded, refs, con, arg, tmp, asked>>

WriteClear(p) == /\ Goto(p, "clear", "load")
                 /\ dat' = tmp[p] \ Leds
                 /\ UNCHANGED <<loaded, refs, con, arg, tmp, asked>>

WriteReload(p) == /\ Goto(p, "load", "merge")
                  /\ tmp' = [tmp EXCEPT ![p] = dat]
                  /\ UNCHANGED <<loaded, refs, con, dat, arg, asked>>

WriteMerge(p) == /\ Goto(p, "merge", Idle)
                 /\ dat' = tmp[p] \cup arg[p]
                 /\ UNCHANGED <<loaded, refs, con, arg, tmp, asked>>

(* ioctl XLEDBLANK                                                         *)
BlankCall(p) == /\ Goto(p, Idle, "blank")
                /\ Ask(Leds)
                /\ UNCHANGED <<loaded, refs, con, dat, arg, tmp>>

BlankConfigure(p) == /\ Goto(p, "blank", "blankload")
                     /\ con' = Leds
                     /\ UNCHANGED <<loaded, refs, dat, arg, tmp, asked>>

BlankLoad(p) == /\ Goto(p, "blankload", "blankmerge")
                /\ tmp' = [tmp EXCEPT ![p] = dat]
                /\ UNCHANGED <<loaded, refs, con, dat, arg, asked>>

BlankMerge(p) == /\ Goto(p, "blankmerge", Idle)
                 /\ dat' = tmp[p] \cup Leds
                 /\ UNCHANGED <<loaded, refs, con, arg, tmp, asked>>

(* ioctl GPIOSET stores both registers as the caller gives them; the only  *)
(* caller, ledioctl.c, passes the LED pins as outputs.                     *)
SetCall(p, lit) == /\ Goto(p, Idle, "set")
                   /\ arg' = [arg EXCEPT ![p] = Leds \ lit]
                   /\ Ask(Leds \ lit)
                   /\ UNCHANGED <<loaded, refs, con, dat, tmp>>

SetConfigure(p) == /\ Goto(p, "set", "setdata")
                   /\ con' = Leds
                   /\ UNCHANGED <<loaded, refs, dat, arg, tmp, asked>>

SetData(p) == /\ Goto(p, "setdata", Idle)
              /\ dat' = arg[p]
              /\ UNCHANGED <<loaded, refs, con, arg, tmp, asked>>

Open(p) == OpenCall(p) \/ OpenConfigure(p) \/ OpenReturn(p)
Close(p) == ReleaseCall(p) \/ ReleaseReturn(p)
Write(p) == \/ \E lit \in Patterns : WriteCall(p, lit)
            \/ WriteLoad(p) \/ WriteClear(p) \/ WriteReload(p) \/ WriteMerge(p)
Blank(p) == BlankCall(p) \/ BlankConfigure(p) \/ BlankLoad(p) \/ BlankMerge(p)
Set(p) == (\E lit \in Patterns : SetCall(p, lit)) \/ SetConfigure(p) \/ SetData(p)

Next == \/ Rmmod \/ Insmod
        \/ \E p \in Proc : Open(p) \/ Close(p) \/ Write(p) \/ Blank(p) \/ Set(p)

Spec == Init /\ [][Next]_vars

-----------------------------------------------------------------------------
(* Properties                                                              *)

(* The registers hold sets of LED pins, and no count runs below zero.      *)
TypeOK ==
  /\ loaded \in BOOLEAN
  /\ refs \in 0 .. 2 * Cardinality(Proc)
  /\ con \in SUBSET Leds /\ dat \in SUBSET Leds
  /\ pc \in [Proc -> Storing \cup {Closed, "opening", "mapped", Idle, "release"}]
  /\ arg \in [Proc -> SUBSET Leds]
  /\ tmp \in [Proc -> SUBSET Leds]
  /\ asked \subseteq SUBSET Leds

Unreferenced == {p \in Proc : pc[p] = Closed}
Half == {p \in Proc : pc[p] \in {"opening", "mapped", "release"}}

(* Each open file holds the kernel's reference and the driver's own, each  *)
(* call between them one, so no call ever runs in a module that was removed*)
(* and rmmod becomes possible again when every file is closed.             *)
RefsHeld ==
  /\ refs = 2 * (Cardinality(Proc) - Cardinality(Unreferenced)) - Cardinality(Half)
  /\ (\E p \in Proc : pc[p] # Closed) => loaded

(* The patterns that merging the requests of some calls can make.          *)
Merges(S) == {UNION T : T \in (SUBSET S) \ {{}}}

(* Calls that overlap race on the port, and two writes can leave a mixture *)
(* of their patterns.  But once all calls have returned an LED is dark only*)
(* if one of them asked for that, and lit only if one of them did: no      *)
(* pattern of an earlier time comes back and no LED stays lit by the       *)
(* clearing store in the middle of xled_write.                             *)
RestPattern == (AtRest /\ asked # {}) => dat \in Merges(asked)
=============================================================================

---------------------------- MODULE MCRawDrivers ----------------------------
(* Every driver, galax with each kind of device, waveshare with and without*)
(* ids, the Palm Pre with two configurations.  One place has coordinates   *)
(* that look like commands of dmc's protocol.  Or a device of the kernel's *)
(* input core, read by two programs: two slots, two places, two forces, and*)
(* the kinds of devices, with one contact or several, with and without     *)
(* pressure, slots and EV_SYN.                                             *)
EXTENDS RawDrivers, Uinput
VARIABLE device

Conf(driver) ==
  [driver |-> driver, version |-> "0112", pressured |-> TRUE, ids |-> FALSE, nodes |-> {},
   parameters |-> <<>>]

MCConfs ==
  {Conf(driver) : driver \in Drivers}
  \cup {[Conf("galax") EXCEPT !.version = v, !.pressured = p] : v \in Versions, p \in BOOLEAN}
  \cup {[Conf("waveshare") EXCEPT !.ids = TRUE, !.nodes = {<<"/dev/hidraw", 0>>}],
        [Conf("palmpre") EXCEPT !.parameters = <<<<"scanrate", 30>>, <<"timestamp_mode", 0>>>>]}

MCSpots == {<<17, 300>>, <<300, 17>>}
MCFrames == [0 .. H_FIELDS * V_FIELDS - 1 -> {600, 1000, 1040, 1100}]
MCJunk == {-9}
MCOwn == {20}

MCPlaces == {1, 2}
MCForces == {1, 2}
MCMemory == {0, 1, 9}

OneContact == [touch |-> TRUE, x |-> TRUE, p |-> TRUE, mt |-> FALSE, mtp |-> FALSE,
               slot |-> FALSE, syn |-> TRUE, report |-> FALSE, zero |-> TRUE]
Slots == [OneContact EXCEPT !.mt = TRUE, !.mtp = TRUE, !.slot = TRUE]

MCKinds == {OneContact, [OneContact EXCEPT !.p = FALSE], [OneContact EXCEPT !.syn = FALSE],
            [OneContact EXCEPT !.touch = FALSE],
            Slots, [Slots EXCEPT !.zero = FALSE],
            [Slots EXCEPT !.p = FALSE, !.mtp = FALSE],
            [Slots EXCEPT !.p = FALSE, !.mtp = FALSE, !.slot = FALSE, !.report = TRUE]}

\* the device that is not there stays at one of its initial states
MCInit ==
  /\ Init /\ UinputInit /\ device \in {"raw", "evdev"}
  /\ device = "raw" \/ conf = Conf("collie")
  /\ device = "evdev" \/ (kind = OneContact /\ multi = input_mod_init(kind, 0))

MCNext ==
  /\ UNCHANGED device
  /\ \/ device = "raw" /\ Next /\ UNCHANGED uinputvars
     \/ device = "evdev" /\ Frame /\ UNCHANGED vars

MCSpec == MCInit /\ [][MCNext]_<<vars, uinputvars, device>>
=============================================================================

------------------------------ MODULE KeyPanel ------------------------------
(***************************************************************************)
(* driver/mixtest.c: six buttons read through /xkeypad by keyscan(), a     *)
(* debouncing state machine, and three LEDs driven through /xled.          *)
(*                                                                         *)
(* xkeypad_read loads two port registers one after the other, and the      *)
(* buttons may move in between: a scan is the two actions ReadH0 and Scan. *)
(* A failed open leaves the descriptor at -1: read() then leaves           *)
(* key_press uninitialised and it may be any sample; write() and ioctl()   *)
(* then change no LED.                                                     *)
(***************************************************************************)
EXTENDS Integers, FiniteSets

UP == "UP"
LEFT == "LEFT"
DOWN == "DOWN"
RIGHT == "RIGHT"
BACK == "BACK"
MENU == "MENU"
Buttons == {UP, LEFT, DOWN, RIGHT, BACK, MENU}
H0 == {LEFT, DOWN}
H2 == Buttons \ H0
NoKey == "-1"

LED_NUM == 3
Lamps == 1 .. LED_NUM

CONSTANTS Chords,   \* the sets of buttons that may be down at one time
          Garbage   \* what key_press may hold when read() fails

ASSUME PanelAssumption == /\ Chords \subseteq SUBSET Buttons /\ {} \in Chords
                          /\ Garbage \subseteq SUBSET Buttons

VARIABLES
  fdkey, fdled,        \* did open() succeed?
  down,                \* the buttons that are down
  h0,                  \* <<>>, or <<what xkeypad_read has seen on GPH0>>
  key, key_state,      \* statics of keyscan
  ret,                 \* key of main: what the last keyscan returned
  led_state, light_sign,
  lit,                 \* the LEDs that are lit
  running,
  hold,                \* history: the non-zero samples since the last zero one
  last                 \* history: the last key main handled

panelvars == <<fdkey, fdled, down, h0, key, key_state, ret, led_state, light_sign, lit,
               running, hold, last>>

NoHold == [seen |-> {}, alone |-> {}, long |-> FALSE]

(* After ioctl(XLEDBLANK), and before any key.                             *)
PanelInit == /\ fdkey \in BOOLEAN /\ fdled \in BOOLEAN
        /\ down \in Chords
        /\ h0 = <<>>
        /\ key = NoKey /\ key_state = 0 /\ ret = NoKey
        /\ led_state = 0 /\ light_sign = LED_NUM
        /\ lit \in (IF fdled THEN {{}} ELSE SUBSET Lamps)
        /\ running = TRUE
        /\ hold = NoHold
        /\ last = NoKey

-----------------------------------------------------------------------------
(* keyscan, given the sample it read                                       *)

Pressed(s) == s # {}
Single(s) == \E b \in Buttons : s = {b}
TheKey(s) == CHOOSE b \in Buttons : s = {b}

(* Mutants: the key is latched from whatever is down; a release does not   *)
(* put the machine back; the first sample of a press enters state 2.       *)
KeyAfterChord(s) ==
  IF key_state = 1 /\ Pressed(s) THEN CHOOSE b \in Buttons : b \in s
  ELSE IF key_state = 2 /\ ~Pressed(s) THEN NoKey ELSE key

StateAfterStuck(s) ==
  CASE key_state = 0 -> IF Pressed(s) THEN 1 ELSE 0
    [] key_state = 1 -> IF Single(s) THEN 2 ELSE 0
    [] key_state = 2 -> 2

StateAfterNoDebounce(s) ==
  CASE key_state = 0 -> IF Single(s) THEN 2 ELSE 0
    [] OTHER -> IF Pressed(s) THEN 2 ELSE 0

KeyAfter(s) ==
  IF key_state = 1 /\ Single(s) THEN TheKey(s)
  ELSE IF key_state # 0 /\ ~Pressed(s) THEN NoKey ELSE key

StateAfter(s) ==
  CASE key_state = 0 -> IF Pressed(s) THEN 1 ELSE 0
    [] key_state = 1 -> IF Single(s) THEN 2 ELSE 0
    [] key_state = 2 -> IF Pressed(s) THEN 2 ELSE 0

Report(s) == IF key_state # 0 /\ ~Pressed(s) THEN key ELSE NoKey

(* History: the hold that a sample continues or ends.                      *)
HoldAfter(s) ==
  IF ~Pressed(s) THEN NoHold
  ELSE [seen  |-> hold.seen \cup s,
        alone |-> IF Single(s) THEN hold.alone \cup s ELSE hold.alone,
        long  |-> hold.seen # {}]

-----------------------------------------------------------------------------
(* main's switch and lightled                                              *)

(* lightled(fd, state): 0 blanks, LED_NUM + 1 lights all, else one.        *)
Lightled(state) == lit' = IF ~fdled THEN lit
                          ELSE IF state = LED_NUM + 1 THEN Lamps
                          ELSE Lamps \cap {state}

LeftOf(n) == ((n - 2 + LED_NUM) % LED_NUM) + 1
RightOf(n) == ((n + LED_NUM) % LED_NUM) + 1

(* led_state & light_sign, of which light_sign is 0 or 3 and led_state < 4.*)
Masked(n) == IF light_sign = 0 THEN 0 ELSE n

(* Mutant: LEFT and RIGHT light the LED without the mask of light_sign.    *)
MoveUnmasked(n) == /\ led_state' = n /\ Lightled(n)
                   /\ UNCHANGED <<light_sign, running>>
Move(n) == /\ led_state' = n /\ Lightled(Masked(n))
           /\ UNCHANGED <<light_sign, running>>

Handle(k) ==
  \/ /\ k = NoKey
     /\ UNCHANGED <<led_state, light_sign, lit, running>>
  \/ /\ k = MENU
     /\ running' = FALSE
     /\ lit' = IF fdled THEN {} ELSE lit
     /\ UNCHANGED <<led_state, light_sign>>
  \/ /\ k = UP
     /\ light_sign' = LED_NUM /\ Lightled(led_state)
     /\ UNCHANGED <<led_state, running>>
  \/ /\ k = DOWN
     /\ light_sign' = 0 /\ Lightled(0)
     /\ UNCHANGED <<led_state, running>>
  \/ k = LEFT /\ Move(LeftOf(led_state))
  \/ k = RIGHT /\ Move(RightOf(led_state))
  \/ /\ k = BACK
     /\ Lightled(LED_NUM + 1)
     /\ UNCHANGED <<led_state, light_sign, running>>

-----------------------------------------------------------------------------
(* xkeypad_read loads GPH0DAT, then GPH2DAT; keyscan and main do the rest. *)
ReadH0 == /\ running /\ h0 = <<>>
          /\ h0' = <<down \cap H0>>
          /\ UNCHANGED <<fdkey, fdled, down, key, key_state, ret,
                         led_state, light_sign, lit, running, hold, last>>

Samples == IF fdkey THEN {h0[1] \cup (down \cap H2)} ELSE Garbage

ScanOf(s) ==
  /\ h0' = <<>>
  /\ key' = KeyAfter(s) /\ key_state' = StateAfter(s)
  /\ hold' = HoldAfter(s)
  /\ ret' = Report(s)
  /\ Handle(Report(s))
  /\ last' = IF Report(s) = NoKey THEN last ELSE Report(s)
  /\ UNCHANGED <<fdkey, fdled, down>>

Scan == /\ running /\ h0 # <<>>
        /\ \E s \in Samples : ScanOf(s)

(* The user presses or releases a button.                                  *)
Finger == \E d \in Chords :
            /\ Cardinality((d \ down) \cup (down \ d)) = 1
            /\ down' = d
            /\ UNCHANGED <<fdkey, fdled, h0, key, key_state, ret,
                           led_state, light_sign, lit, running, hold, last>>

PanelNext == ReadH0 \/ Scan \/ Finger

PanelSpec == PanelInit /\ [][PanelNext]_panelvars

(* keyscan is called over and over for as long as main runs.               *)
Fairness == WF_panelvars(ReadH0) /\ WF_panelvars(Scan)

-----------------------------------------------------------------------------
(* Properties                                                              *)

(* The statics of keyscan and the variables of main keep their ranges.     *)
PanelTypeOK ==
  /\ fdkey \in BOOLEAN /\ fdled \in BOOLEAN /\ running \in BOOLEAN
  /\ down \in SUBSET Buttons
  /\ h0 \in {<<>>} \cup {<<s>> : s \in SUBSET H0}
  /\ key \in Buttons \cup {NoKey} /\ key_state \in 0 .. 2
  /\ led_state \in 0 .. LED_NUM /\ light_sign \in {0, LED_NUM}
  /\ lit \in SUBSET Lamps
  /\ ret \in Buttons \cup {NoKey}
  /\ hold \in [seen : SUBSET Buttons, alone : SUBSET Buttons, long : BOOLEAN]
  /\ last \in Buttons \cup {NoKey}

(* A hold starts in state 1; from its second sample on it is in state 2 if *)
(* all its samples were the same button, which is then the key.            *)
HoldsTracked ==
  /\ hold.seen = {} => hold = NoHold /\ key_state = 0
  /\ hold.seen # {} /\ ~hold.long => key_state = 1
  /\ key_state = 2 => hold.long
  /\ \A b \in Buttons : hold.long /\ hold.seen = {b} => key_state = 2 /\ key = b
  /\ hold.alone \subseteq hold.seen

(* keyscan returns its static key when a press ends without knowing how it *)
(* began, so the key must be set exactly in state 2, to a key that this    *)
(* same hold showed alone: never to one left over from an earlier hold.    *)
LatchedFromThisHold ==
  /\ key_state = 2 <=> key # NoKey
  /\ key # NoKey => key \in hold.alone

(* A bounce cannot act: main reacts to a key only on a zero sample that    *)
(* ends a hold of two samples or more, in which that key was alone once.   *)
ReportsAreDebounced ==
  [][(h0 # h0' /\ h0' = <<>> /\ ret' # NoKey)
       => hold.long /\ hold' = NoHold /\ ret' \in hold.alone]_panelvars

(* And it does react: a hold of at least two samples that only ever showed *)
(* one button is reported when it ends, in the scan that ends it.          *)
HoldsAreReported ==
  [][(hold.long /\ hold' = NoHold)
       => \A b \in Buttons : hold.seen = {b} => ret' = b]_panelvars

(* What the LEDs show agrees with the menu state after any keys in any     *)
(* order: after DOWN they stay dark until UP or BACK, and otherwise at most*)
(* the LED led_state is lit, except right after BACK, which lights all.    *)
LampsFollowState ==
  fdled => lit = CASE ~running \/ last = NoKey -> {}
                   [] last = BACK -> Lamps
                   [] OTHER -> IF light_sign = 0 THEN {} ELSE Lamps \cap {led_state}

(* Once the user lets go for good the scanner comes back to state 0, ready *)
(* for the next press, whatever chord it had seen: it cannot hang in state *)
(* 1 or 2 while the program runs.                                          *)
ReturnsToIdle ==
  (fdkey /\ <>[](down = {} /\ running)) => <>[](key_state = 0)
=============================================================================

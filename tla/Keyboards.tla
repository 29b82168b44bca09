----------------------------- MODULE Keyboards -----------------------------
(* The keyboards of InputManager: task1 of core 1 reads the buttons behind   *)
(* the port expander, checks the touch areas that stand for keys (serial     *)
(* mode) or reports the touches (HID mode), and lets HID send. Core 0        *)
(* changes the touched areas at any moment, between two mappings too. The    *)
(* settings page, which runs in the same loop, switches the touch keys.      *)
EXTENDS HidReports

CONSTANTS
  Pin, PinKey,      \* the buttons and the key of each
  BootDown,         \* the sets of buttons that may be held at start-up
  IdleHigh,         \* pins whose level is high while the button is up
  Areas,            \* touch areas
  Mappings,         \* touch_keyboard_mappings: areas, hold, key, once
  Device,           \* touch devices in the order of the configuration
  IdBits,           \* the bits of each device's id mask
  Channels,         \* channels of a device
  Placed,           \* <<device, channel>> pairs that have coordinates
  Modes,            \* work_mode: "serial", "hid"
  ClockTop,         \* the last value of the millisecond clock
  Wraps,            \* whether the clock wraps (bound: otherwise it stops)
  Word,             \* the clock's differences are taken modulo this
  MaxSwitches       \* bound: presses of the switch on the settings page

M == DOMAIN Mappings
LowByte == 0..7

\* addTouchKeyboardMapping: no empty set of areas, none twice with one key
Accepted(mapping, earlier) ==
  /\ mapping.areas # {}
  /\ \A i \in DOMAIN earlier : earlier[i].areas = mapping.areas => earlier[i].key # mapping.key

ASSUME KeyboardsAssumption ==
  /\ PinKey \in [Pin -> Key]
  /\ \A p, q \in Pin : PinKey[p] = PinKey[q] => p = q
  /\ IdleHigh \subseteq Pin /\ BootDown \subseteq SUBSET Pin
  /\ Mappings \in Seq([areas : SUBSET Areas, hold : Nat, key : Key, once : BOOLEAN])
  /\ \A m \in M : Accepted(Mappings[m], SubSeq(Mappings, 1, m - 1))
  /\ Cardinality(Key) <= Capacity
  /\ Device \subseteq Nat /\ IdBits \in [Device -> SUBSET LowByte]
  /\ Channels \subseteq Nat /\ Placed \subseteq Device \X Channels
  /\ ClockTop \in Nat /\ Word > ClockTop /\ MaxSwitches \in Nat /\ Wraps \in BOOLEAN

VARIABLES
  mode,      \* work_mode
  pc,        \* where task1 is: boot, buttons, touch, points, task, send
  next,      \* the mapping checkTouchKeyboardTrigger looks at
  enabled,   \* touch_keyboard_enabled
  down,      \* buttons held down
  touched,   \* serial_state_: the touched areas
  contact,   \* current_touch_mask of each device
  clock,     \* us_to_ms(time_us_32())
  inverted,  \* gpio_mcp_inverted_: pins whose low level counts as pressed
  previous,  \* mcp_gpio_previous_states_: pins whose level was high
  bitmap,    \* prev_keyboard_state: keys held by buttons
  stamp,     \* press_timestamp of each mapping
  pressed,   \* key_pressed of each mapping
  stage,     \* has_triggered of each mapping
  switches   \* presses of the switch so far

keyVars == <<mode, pc, next, enabled, inverted, previous, bitmap, stamp, pressed, stage>>
inputs  == <<down, touched, contact>>
keyboardsVars == <<keyVars, inputs, clock, switches, hidVars>>

\* read_all_gpio: the levels of both ports, in one transfer
PortLevels == {p \in Pin : (p \in IdleHigh) # (p \in down)}
\* updateGPIOStates
High == PortLevels

KeyboardsInit ==
  /\ mode \in Modes /\ pc = "boot" /\ next = 1 /\ enabled \in BOOLEAN
  /\ down \in BootDown /\ touched = {} /\ contact = [d \in Device |-> {}]
  /\ clock = 0 /\ inverted = {} /\ previous = {} /\ bitmap = {}
  /\ stamp = [m \in M |-> 0] /\ pressed = [m \in M |-> FALSE] /\ stage = [m \in M |-> "none"]
  /\ switches = 0
  /\ HidInit

(***************************************************************************)
(* init_service_layer: every button is registered with the level AUTO: the *)
(* level read now is taken for the level of a button that is up            *)
(***************************************************************************)
RegisterKeys ==
  /\ pc = "boot"
  /\ inverted' = PortLevels
  /\ pc' = "buttons"
  /\ UNCHANGED <<mode, next, enabled, previous, bitmap, stamp, pressed, stage,
                 inputs, clock, switches, hidVars>>

(***************************************************************************)
(* updateGPIOStates and processGPIOKeyboard: only pins that changed are    *)
(* looked at, and the keys whose state differs are pressed or released     *)
(***************************************************************************)
Flipped   == {p \in Pin : (p \in High) # (p \in previous)}
Active(p) == (p \in High) # (p \in inverted)
NewBitmap == (bitmap \ {PinKey[p] : p \in Flipped}) \cup {PinKey[p] : p \in {q \in Flipped : Active(q)}}
AfterButtons == IF mode = "hid" THEN "points" ELSE IF enabled /\ M # {} THEN "touch" ELSE "task"

ProcessGPIOKeyboard ==
  /\ pc = "buttons"
  /\ bitmap' = NewBitmap
  /\ previous' = High
  /\ SetKeys(NewBitmap \ bitmap, bitmap \ NewBitmap)
  /\ pc' = AfterButtons /\ next' = 1
  /\ UNCHANGED <<mode, enabled, inverted, stamp, pressed, stage, inputs, clock, switches,
                 points, outbox, refused, endpoint, host>>

(***************************************************************************)
(* checkTouchKeyboardTrigger, one mapping                                  *)
(***************************************************************************)
Matched(m)    == Mappings[m].areas \subseteq touched
Stamp(m)      == IF stamp[m] = 0 THEN clock ELSE stamp[m]
Satisfied(m)  == Mappings[m].hold = 0 \/ (clock - Stamp(m)) % Word >= Mappings[m].hold
PressKey(m)   == SetKeys({Mappings[m].key}, {})
ReleaseKey(m) == SetKeys({}, {Mappings[m].key})
KeepKeys      == UNCHANGED <<keys, mods, changed>>

\* mutants: the key stays down, the trigger starts over
LeftBehind(m) == KeepKeys /\ pressed' = [pressed EXCEPT ![m] = FALSE]
                 /\ stage' = [stage EXCEPT ![m] = "none"] /\ stamp' = [stamp EXCEPT ![m] = 0]
FinishAgain(m) == /\ Mappings[m].once /\ stage[m] = "press"
                  /\ ReleaseKey(m)
                  /\ pressed' = [pressed EXCEPT ![m] = FALSE] /\ stage' = [stage EXCEPT ![m] = "none"]

\* has_triggered is "none" and the hold time is over
TriggerOnce(m) ==
  /\ Mappings[m].once /\ stage[m] = "none" /\ Satisfied(m)
  /\ PressKey(m)
  /\ pressed' = [pressed EXCEPT ![m] = TRUE] /\ stage' = [stage EXCEPT ![m] = "press"]

\* the check after the press releases the key again
FinishOnce(m) ==
  /\ Mappings[m].once /\ stage[m] = "press"
  /\ ReleaseKey(m)
  /\ pressed' = [pressed EXCEPT ![m] = FALSE] /\ stage' = [stage EXCEPT ![m] = "release"]

\* released, and waiting for the areas to be left
SpentOnce(m) ==
  /\ Mappings[m].once /\ stage[m] = "release"
  /\ pressed' = [pressed EXCEPT ![m] = FALSE]
  /\ KeepKeys /\ UNCHANGED stage

TriggerHeld(m) ==
  /\ ~ Mappings[m].once /\ Satisfied(m) /\ ~ pressed[m]
  /\ PressKey(m)
  /\ pressed' = [pressed EXCEPT ![m] = TRUE] /\ UNCHANGED stage

Waiting(m) ==
  /\ IF Mappings[m].once THEN stage[m] = "none" /\ ~ Satisfied(m) ELSE ~ Satisfied(m) \/ pressed[m]
  /\ KeepKeys /\ UNCHANGED <<pressed, stage>>

Left(m) ==
  /\ IF pressed[m] THEN ReleaseKey(m) ELSE KeepKeys
  /\ pressed' = [pressed EXCEPT ![m] = FALSE]
  /\ stage' = [stage EXCEPT ![m] = "none"]
  /\ stamp' = [stamp EXCEPT ![m] = 0]

CheckMapping(m) ==
  \/ /\ Matched(m)
     /\ TriggerOnce(m) \/ FinishOnce(m) \/ SpentOnce(m) \/ TriggerHeld(m) \/ Waiting(m)
     /\ stamp' = [stamp EXCEPT ![m] = Stamp(m)]
  \/ ~ Matched(m) /\ Left(m)

CheckTouchKeyboardTrigger ==
  /\ pc = "touch"
  /\ CheckMapping(next)
  /\ IF next + 1 \in M THEN pc' = pc /\ next' = next + 1 ELSE pc' = "task" /\ next' = 1
  /\ UNCHANGED <<mode, enabled, inverted, previous, bitmap, inputs, clock, switches,
                 points, outbox, refused, endpoint, host>>

(***************************************************************************)
(* sendHIDTouchData: the mapping of a device is looked up with the low     *)
(* byte of its touch mask in the place of its id, and the number of a      *)
(* contact is one byte                                                     *)
(***************************************************************************)
Named(d) == {e \in Device : IdBits[e] = contact[d] \cap LowByte}
ContactsOf(d) == {(64 * (d % 8) + c) % 256 :
                    c \in {ch \in contact[d] : \E e \in Named(d) : <<e, ch>> \in Placed}}

SendHIDTouchData ==
  /\ pc = "points"
  /\ QueuePoints(UNION {ContactsOf(d) : d \in Device})
  /\ pc' = "task"
  /\ UNCHANGED <<mode, next, enabled, inverted, previous, bitmap, stamp, pressed, stage, inputs,
                 clock, switches, keys, mods, changed, outbox, refused, endpoint, host>>

Task ==
  /\ pc = "task"
  /\ HidTask
  /\ pc' = IF outbox' = <<>> THEN "buttons" ELSE "send"
  /\ UNCHANGED <<mode, next, enabled, inverted, previous, bitmap, stamp, pressed, stage, inputs,
                 clock, switches>>

Send ==
  /\ pc = "send"
  /\ SendReport
  /\ pc' = IF outbox' = <<>> THEN "buttons" ELSE "send"
  /\ UNCHANGED <<mode, next, enabled, inverted, previous, bitmap, stamp, pressed, stage, inputs,
                 clock, switches>>

(***************************************************************************)
(* setTouchKeyboardEnabled from the settings page, between two turns       *)
(***************************************************************************)
SwitchTouchKeys ==
  /\ pc = "buttons" /\ switches < MaxSwitches
  /\ enabled' = ~ enabled /\ switches' = switches + 1
  /\ UNCHANGED <<mode, pc, next, inverted, previous, bitmap, stamp, pressed, stage, inputs,
                 clock, hidVars>>

(***************************************************************************)
(* The world: fingers, time and the host. Buttons and the clock are read   *)
(* once in a turn, at its start, and the touched areas while mappings are  *)
(* checked: a change at another moment is one that comes with the next.    *)
(***************************************************************************)
MoveFingers ==
  /\ \/ /\ pc = "buttons"
        /\ \E p \in Pin : down' = (down \ {p}) \cup ({p} \ down)
        /\ UNCHANGED <<touched, contact>>
     \/ /\ mode = "serial" /\ pc \in {"buttons", "touch"}
        /\ \E t \in SUBSET Areas : t # touched /\ touched' = t
        /\ UNCHANGED <<down, contact>>
     \/ /\ mode = "hid" /\ pc = "points"
        /\ \E d \in Device, c \in SUBSET Channels :
             c # contact[d] /\ contact' = [contact EXCEPT ![d] = c]
        /\ UNCHANGED <<down, touched>>
  /\ UNCHANGED <<keyVars, clock, switches, hidVars>>

Tick ==
  /\ mode = "serial" /\ pc = "buttons" /\ (clock < ClockTop \/ Wraps)
  /\ clock' = IF clock < ClockTop THEN clock + 1 ELSE 0
  /\ UNCHANGED <<keyVars, inputs, switches, hidVars>>

HostPolls == Poll /\ UNCHANGED <<keyVars, inputs, clock, switches>>

Task1 == RegisterKeys \/ ProcessGPIOKeyboard \/ CheckTouchKeyboardTrigger \/ SendHIDTouchData
         \/ Task \/ Send

KeyboardsNext == Task1 \/ SwitchTouchKeys \/ MoveFingers \/ Tick \/ HostPolls

\* the loop of core 1 runs for ever and the host polls
KeyboardsSpec == /\ KeyboardsInit /\ [][KeyboardsNext]_keyboardsVars
                 /\ WF_keyboardsVars(Task1) /\ WF_keyboardsVars(HostPolls)

-----------------------------------------------------------------------------
Pressed   == Range(keys) \cup mods
ByTouch   == {Mappings[m].key : m \in {n \in M : pressed[n]}}
Sources(k) == Cardinality({p \in Pin : PinKey[p] = k}) + Cardinality({m \in M : Mappings[m].key = k})

(* A key that HID holds down is held by a button or by a touch mapping, and  *)
(* a key with a single source is down exactly while that source holds it:    *)
(* whatever comes between, no key is left behind and none is lost. (A key    *)
(* with two sources, as the eight keys around the screen have, goes up with  *)
(* the first that lets go.)                                                  *)
KeysOwned ==
  /\ Pressed \subseteq bitmap \cup ByTouch
  /\ \A k \in bitmap \cup ByTouch : Sources(k) = 1 => k \in Pressed

(* A mapping that triggers once presses its key once for each touch: between *)
(* two presses a check has found its areas left.                             *)
Fresh(m) == stage[m] = "none"
OncePerTouch ==
  [][\A m \in M : /\ Mappings[m].once /\ ~ Fresh(m) /\ Fresh(m)' => ~ Matched(m)
                  /\ Mappings[m].once /\ ~ pressed[m] /\ pressed'[m] => Fresh(m)]_keyboardsVars

(* When a change has been sent and none of its reports was refused, the host *)
(* sees every key that is down, however many keyboards they are spread over. *)
PressedKeysShown ==
  pc = "buttons" /\ ~ changed /\ ~ refused /\ endpoint = <<>> => Pressed \subseteq HostKeys

=============================================================================

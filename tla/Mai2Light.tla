----------------------------- MODULE Mai2Light ------------------------------
(***************************************************************************)
(* The game's lamp board, Mai2Light, on the UART of UartRing: packets and  *)
(* text lines from the game set the colours of the lamps, a fade carries   *)
(* them over, a virtual EEPROM keeps settings and colours.  All of it runs *)
(* on core 1, in LightManager::task: a read of the ring, the messages read *)
(* one after the other, then the fade.                                     *)
(*                                                                         *)
(* A colour is a level; brightness, which nothing reads, and the board's   *)
(* description are left out.  A packet out of step with the stream is      *)
(* followed only as far as being lost.  Time passes in steps of a fade.    *)
(***************************************************************************)
EXTENDS UartRing, FiniteSets

CONSTANTS
  Lamps,          \* the lamps, 0..MAI2LIGHT_NUM_LEDS - 1
  Colours,        \* bound: the colours the game asks for
  TopColour,      \* the brightest level
  FadeTimes,      \* bound: the fade times the game sets
  DefaultFade,    \* fade_time_ms of Mai2Light_Config, 100
  Nodes,          \* bound: the board's node numbers; 0 is Mai2Light_Config's
  Addresses,      \* bound: the nodes the game's packets are for
  Broadcast,      \* 0xFF
  NotKnown        \* no colour: see asked

ASSUME LightAssumption ==
  /\ TopColour \in Nat /\ Colours \subseteq 0..TopColour /\ 0 \in Colours
  /\ FadeTimes \subseteq Nat /\ DefaultFade \in FadeTimes /\ 0 \in FadeTimes
  /\ \E t \in FadeTimes : \A u \in FadeTimes : u <= t
  /\ 0 \in Nodes /\ Broadcast \notin Nodes /\ NotKnown \notin 0..TopColour

Level    == 0..TopColour
MaxFade  == CHOOSE t \in FadeTimes : \A u \in FadeTimes : u <= t
Dark     == [l \in Lamps |-> 0]
Config   == [node : Nodes, fade : FadeTimes, enable_fade : BOOLEAN]
Image    == [config : Config, colour : [Lamps -> Level]]

VARIABLES
  config,                    \* config_
  colour,                    \* led_status_[].color
  fadeStart, fadeTarget,     \* fade_start_colors_, fade_target_colors_
  is_fading, elapsed,        \* is_fading_, the time since fade_start_time_
  eeprom,                    \* virtual_eeprom_: the image of config_ and led_status_
  asked                      \* history: the colour each lamp was last given, unless
                             \* that left its fade target as it was

fade      == <<fadeStart, fadeTarget, is_fading, elapsed>>
board     == <<config, colour, fade, eeprom, asked>>
vars      == <<ringVars, board>>

TypeOK ==
  /\ RingTypeOK
  /\ config \in Config
  /\ {colour, fadeStart, fadeTarget} \subseteq [Lamps -> Level]
  /\ asked \in [Lamps -> Level \cup {NotKnown}]
  /\ is_fading \in BOOLEAN /\ elapsed \in 0..MaxFade
  /\ eeprom \in Image

\* Mai2Light_Config()
DefaultConfig(n) == [node |-> n, fade |-> DefaultFade, enable_fade |-> TRUE]
\* an EEPROM that was never written holds zeros
BlankImage == [config |-> [node |-> 0, fade |-> 0, enable_fade |-> FALSE], colour |-> Dark]

Init ==
  /\ RingInit
  /\ config = DefaultConfig(0)
  /\ colour = Dark /\ fadeStart = Dark /\ fadeTarget = Dark
  /\ is_fading = FALSE /\ elapsed = 0
  /\ eeprom = BlankImage
  /\ asked = Dark

-----------------------------------------------------------------------------
(* What the commands do. *)

Painted(f, S, c) == [l \in Lamps |-> IF l \in S THEN c ELSE f[l]]

\* set_led_color for the lamps S: a fade from what the lamp shows now, or at once
FadesIn == config.enable_fade /\ config.fade > 0

SetColoursRestarting(S, c) ==   \* mutant: every colour starts the fade anew
  /\ IF FadesIn
       THEN /\ fadeStart' = [l \in Lamps |-> IF l \in S THEN colour[l] ELSE fadeStart[l]]
            /\ fadeTarget' = Painted(fadeTarget, S, c)
            /\ is_fading' = TRUE /\ elapsed' = 0
            /\ asked' = Painted(asked, S, c)
            /\ UNCHANGED colour
       ELSE /\ colour' = Painted(colour, S, c)
            /\ asked' = Painted(asked, S, NotKnown)
            /\ UNCHANGED fade
  /\ UNCHANGED <<config, eeprom>>

SetColoursFirstOnly(S, c) ==    \* mutant: a running fade keeps its targets
  /\ IF FadesIn
       THEN /\ fadeStart' = [l \in Lamps |-> IF l \in S THEN colour[l] ELSE fadeStart[l]]
            /\ fadeTarget' = IF is_fading THEN fadeTarget ELSE Painted(fadeTarget, S, c)
            /\ is_fading' = TRUE
            /\ elapsed' = IF is_fading THEN elapsed ELSE 0
            /\ asked' = Painted(asked, S, c)
            /\ UNCHANGED colour
       ELSE /\ colour' = Painted(colour, S, c)
            /\ asked' = Painted(asked, S, NotKnown)
            /\ UNCHANGED fade
  /\ UNCHANGED <<config, eeprom>>

SetColours(S, c) ==
  /\ IF FadesIn
       THEN /\ fadeStart' = [l \in Lamps |-> IF l \in S THEN colour[l] ELSE fadeStart[l]]
            /\ fadeTarget' = Painted(fadeTarget, S, c)
            /\ is_fading' = TRUE
            /\ elapsed' = IF is_fading THEN elapsed ELSE 0
            /\ asked' = Painted(asked, S, c)
            /\ UNCHANGED colour
       ELSE /\ colour' = Painted(colour, S, c)
            /\ asked' = Painted(asked, S, NotKnown)
            /\ UNCHANGED fade
  /\ UNCHANGED <<config, eeprom>>

SetFadeTime(t) ==
  config' = [config EXCEPT !.fade = t] /\ UNCHANGED <<colour, fade, eeprom, asked>>

\* clear_all_leds leaves a fade and its targets alone
ClearAll ==
  colour' = Dark /\ asked' = Painted(asked, Lamps, NotKnown) /\ UNCHANGED <<fade, eeprom>>

ResetBoard == ClearAll /\ config' = DefaultConfig(0)

SaveToEeprom ==
  /\ eeprom' = [config |-> config, colour |-> colour]
  /\ UNCHANGED <<config, colour, fade, asked>>

LoadFromEeprom ==
  /\ config' = eeprom.config /\ colour' = eeprom.colour
  /\ asked' = Painted(asked, Lamps, NotKnown)
  /\ UNCHANGED <<fade, eeprom>>

\* set_eeprom_data: the game writes any bytes into the image of what was saved,
\* from one field to all of it; a write beyond the EEPROM, or of no bytes, is refused
SetEeprom ==
  eeprom' \in Image /\ UNCHANGED <<config, colour, fade, asked>>

\* handle_set_led_command: a command with too few data or no such lamp, and the
\* brightness, change nothing the model follows
SetLedCommand ==
  \/ \E l \in Lamps, c \in Colours : SetColours({l}, c)
  \/ \E c \in Colours : SetColours(Lamps, c)
  \/ \E t \in FadeTimes : SetFadeTime(t)
  \/ UNCHANGED board

StatusCommand == UNCHANGED board
EepromCommand == SaveToEeprom \/ LoadFromEeprom \/ SetEeprom \/ UNCHANGED board
SystemCommand == ResetBoard \/ UNCHANGED board        \* enter_bootloader does nothing

\* process_packet; a command it does not know is only answered
Execute == SetLedCommand \/ StatusCommand \/ EepromCommand \/ SystemCommand

\* send_ack
Answer == Transmit

-----------------------------------------------------------------------------
(* A message core 1 took from the ring.  Every byte is read twice: as text,
   where a packet leaves a part of a line behind, and as a packet, where what
   a line leaves in rx_buffer_ runs into the packets after it.  Whether the
   stream is in step is not followed: any packet may be lost. *)
Ours == {config.node, Broadcast}
PacketExecuted ==
  \/ Addresses \cap Ours # {} /\ Execute /\ Answer
  \/ ~ (Addresses \subseteq Ours) /\ UNCHANGED <<board, dmaBusy>>

\* its bytes may still end a line, which is answered
PacketSwallowed == UNCHANGED board /\ dmaBusy' \in {dmaBusy, TRUE}

\* /reset resets the board, if nothing of a packet stands before it in the
\* line; any line is answered
Line == (ResetBoard \/ UNCHANGED board) /\ Answer

HandleMessage ==
  /\ OneHandled
  /\ \/ PacketExecuted
     \/ PacketSwallowed
     \/ Line

-----------------------------------------------------------------------------
(* update_fade_effects, after the messages of a pass. *)
Blend(a, b, ratio) == (a * (255 - ratio) + b * ratio) \div 255
FadeOver == elapsed >= config.fade

UpdateFade ==
  /\ is_fading
  /\ colour' = IF FadeOver THEN fadeTarget
               ELSE LET progress == (elapsed * 255) \div config.fade
                    IN [l \in Lamps |-> Blend(fadeStart[l], fadeTarget[l], progress)]
  /\ is_fading' = ~ FadeOver
  /\ elapsed' = IF FadeOver THEN 0 ELSE elapsed     \* the age of no fade is never read
  /\ UNCHANGED <<config, fadeStart, fadeTarget, eeprom, asked>>

TaskEnds ==
  /\ PassEnds
  /\ \/ UpdateFade
     \/ ~ is_fading /\ UNCHANGED board

\* a step of the clock; a longer time, or a clock that starts over, ends the fade
Tick ==
  /\ is_fading /\ elapsed < MaxFade
  /\ elapsed' \in {elapsed + 1, MaxFade}
  /\ UNCHANGED <<ringVars, config, colour, fadeStart, fadeTarget, is_fading, eeprom,
                 asked>>

\* lightmanager_load_config_from_manager: of the settings only the node number and
\* the rate are the saved ones
LoadedConfig(n) == DefaultConfig(n)

\* LightManager::update_mai2light_config, at start-up and from the settings page:
\* set_config takes the new settings, closes the UART, and cannot set its rate
ApplyConfig ==
  /\ rd = "idle" /\ uartOpen
  /\ \E n \in Nodes : config' = LoadedConfig(n)
  /\ Close
  /\ UNCHANGED <<colour, fade, eeprom, asked>>

Core0 == Arrive \/ Reload \/ Counted \/ TxDone
Reads == NothingToTake \/ Take \/ Load \/ Store
Core1 ==
  \/ Reads /\ UNCHANGED board
  \/ HandleMessage
  \/ TaskEnds

Next ==
  \/ Core0 /\ UNCHANGED board
  \/ Core1
  \/ Tick
  \/ ApplyConfig

\* core 1 runs LightManager::task for ever, and time passes
Fairness == WF_vars(Core1) /\ WF_vars(Tick)

Spec == Init /\ [][Next]_vars /\ Fairness

-----------------------------------------------------------------------------
(* Between fades a lamp shows the colour it was last given, whatever colours
   came while a fade was running (mai2light.cpp:157-168, 904-928).  A lamp that
   was given its colour at once, by a reset or from the EEPROM is left out from
   then until its next fade: its target is still the one before, and the end of
   any fade brings that one back. *)
SettledColours == ~ is_fading => \A l \in Lamps : asked[l] \in {colour[l], NotKnown}

(* A fade comes to its end even when the game never stops sending colours: a
   colour that comes during a fade joins it and does not start it anew. *)
FadeEnds == is_fading ~> ~ is_fading
=============================================================================

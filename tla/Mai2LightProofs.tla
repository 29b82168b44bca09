-------------------------- MODULE Mai2LightProofs ---------------------------
(***************************************************************************)
(* For a ring of any size, any lamps, colours, fade times and nodes: the   *)
(* count that both cores change without a lock stays within the ring, and  *)
(* between fades the lamps show what they were last given.                 *)
(***************************************************************************)
EXTENDS Mai2Light, TLAPS

(* Only the interrupt adds to the count and only the reader takes from it:   *)
(* what the interrupt holds is at least the count, whatever the reader has   *)
(* stored meanwhile, and what the reader holds is at most the count.         *)
InterruptHolds ==
  isr = "found" => isrHeld \in count..(Size - 1)

ReaderHolds ==
  /\ rd \in {"load", "store"} => taken \in 1..count
  /\ rd = "store" => /\ rdHeld \in taken..count
                     /\ isr = "found" => rdHeld <= isrHeld

RingInv == count \in 0..Size /\ InterruptHolds /\ ReaderHolds

(* A lamp given a colour by a fade has it for a target until it shows it. *)
TargetsAsked ==
  \A l \in Lamps : /\ asked[l] \in {fadeTarget[l], NotKnown}
                   /\ ~ is_fading => asked[l] \in {colour[l], NotKnown}

LightInv == RingInv /\ TargetsAsked

-----------------------------------------------------------------------------
LEMMA LightInit == Init => LightInv
<1> SUFFICES ASSUME Init PROVE LightInv
  OBVIOUS
<1>1. RingInv
  BY RingAssumption DEF Init, RingInit, RingInv, InterruptHolds, ReaderHolds
<1>2. TargetsAsked
  BY DEF Init, Dark, TargetsAsked
<1> QED
  BY <1>1, <1>2 DEF LightInv

(* The steps that leave the ring's count and its two users alone. *)
LEMMA RingUnchanged ==
  ASSUME RingInv, UNCHANGED <<count, isr, isrHeld, rdHeld>>,
         rd' \notin {"load", "store"}
  PROVE  RingInv'
BY DEF RingInv, InterruptHolds, ReaderHolds

LEMMA LampsUnchanged ==
  ASSUME TargetsAsked, UNCHANGED board
  PROVE  TargetsAsked'
BY DEF TargetsAsked, board, fade

-----------------------------------------------------------------------------
(* The interrupt's steps. *)
LEMMA InterruptSteps ==
  ASSUME RingInv, Arrive \/ Reload \/ Counted
  PROVE  RingInv'
<1>1. CASE Arrive
  BY <1>1, RingAssumption DEF Arrive, RingInv, InterruptHolds, ReaderHolds, reading
<1>2. CASE Reload
  BY <1>2, RingAssumption DEF Reload, RingInv, InterruptHolds, ReaderHolds, reading
<1>3. CASE Counted
  BY <1>3, RingAssumption DEF Counted, RingInv, InterruptHolds, ReaderHolds, reading
<1> QED
  BY <1>1, <1>2, <1>3

(* The reader's steps. *)
LEMMA ReaderSteps ==
  ASSUME RingInv, Reads
  PROVE  RingInv'
<1>1. CASE NothingToTake
  BY <1>1, RingUnchanged DEF NothingToTake
<1>2. CASE Take
  BY <1>2, RingAssumption DEF Take, RingInv, InterruptHolds, ReaderHolds
<1>3. CASE Load
  BY <1>3, RingAssumption DEF Load, RingInv, InterruptHolds, ReaderHolds
<1>4. CASE Store
  BY <1>4, RingAssumption DEF Store, RingInv, InterruptHolds, ReaderHolds
<1> QED
  BY <1>1, <1>2, <1>3, <1>4 DEF Reads

LEMMA RingStep == RingInv /\ [Next]_vars => RingInv'
<1> SUFFICES ASSUME RingInv, [Next]_vars PROVE RingInv'
  OBVIOUS
<1>1. CASE Core0
  <2>1. CASE TxDone
    BY <1>1, <2>1 DEF TxDone, RingInv, InterruptHolds, ReaderHolds, reading
  <2> QED
    BY <1>1, <2>1, InterruptSteps DEF Core0
<1>2. CASE Reads
  BY <1>2, ReaderSteps
<1>3. CASE HandleMessage
  BY <1>3, RingUnchanged DEF HandleMessage, OneHandled
<1>4. CASE TaskEnds
  BY <1>4, RingUnchanged DEF TaskEnds, PassEnds
<1>5. CASE Tick
  BY <1>5 DEF Tick, ringVars, RingInv, InterruptHolds, ReaderHolds
<1>6. CASE ApplyConfig
  BY <1>6, RingAssumption DEF ApplyConfig, Close, reading, RingInv, InterruptHolds, ReaderHolds
<1>7. CASE UNCHANGED vars
  BY <1>7 DEF vars, ringVars, RingInv, InterruptHolds, ReaderHolds
<1> QED
  BY <1>1, <1>2, <1>3, <1>4, <1>5, <1>6, <1>7 DEF Next, Core1

-----------------------------------------------------------------------------
(* What the messages do to the lamps. *)
LEMMA LampMessages ==
  ASSUME TargetsAsked, HandleMessage
  PROVE  TargetsAsked'
<1>1. ASSUME NEW S, NEW c, SetColours(S, c) PROVE TargetsAsked'
  <2>1. CASE FadesIn
    BY <1>1, <2>1 DEF SetColours, Painted, TargetsAsked
  <2>2. CASE ~ FadesIn
    BY <1>1, <2>2 DEF SetColours, Painted, TargetsAsked, fade
  <2> QED
    BY <2>1, <2>2
<1>2. ASSUME NEW t, SetFadeTime(t) PROVE TargetsAsked'
  BY <1>2 DEF SetFadeTime, TargetsAsked, fade
<1>3. CASE ResetBoard
  BY <1>3 DEF ResetBoard, ClearAll, Painted, TargetsAsked, fade
<1>4. CASE SaveToEeprom \/ SetEeprom
  BY <1>4 DEF SaveToEeprom, SetEeprom, TargetsAsked, fade
<1>5. CASE LoadFromEeprom
  BY <1>5 DEF LoadFromEeprom, Painted, TargetsAsked, fade
<1>6. CASE UNCHANGED board
  BY <1>6, LampsUnchanged
<1> QED
  BY <1>1, <1>2, <1>3, <1>4, <1>5, <1>6
     DEF HandleMessage, PacketExecuted, PacketSwallowed, Line, Execute, SetLedCommand,
         StatusCommand, EepromCommand, SystemCommand

LEMMA LampStep == TargetsAsked /\ [Next]_vars => TargetsAsked'
<1> SUFFICES ASSUME TargetsAsked, [Next]_vars PROVE TargetsAsked'
  OBVIOUS
<1>1. CASE HandleMessage
  BY <1>1, LampMessages
<1>2. CASE TaskEnds
  <2>1. CASE UpdateFade /\ FadeOver
    BY <2>1 DEF UpdateFade, TargetsAsked
  <2>2. CASE UpdateFade /\ ~ FadeOver
    BY <2>2 DEF UpdateFade, TargetsAsked
  <2> QED
    BY <1>2, <2>1, <2>2, LampsUnchanged DEF TaskEnds
<1>3. CASE Tick
  BY <1>3 DEF Tick, TargetsAsked
<1>4. CASE ApplyConfig
  BY <1>4 DEF ApplyConfig, TargetsAsked, fade
<1>5. CASE UNCHANGED board
  BY <1>5, LampsUnchanged
<1> QED
  BY <1>1, <1>2, <1>3, <1>4, <1>5 DEF Next, Core1, vars

LEMMA LightInvariant == Spec => []LightInv
<1>1. LightInv /\ [Next]_vars => LightInv'
  BY RingStep, LampStep DEF LightInv
<1> QED
  BY LightInit, <1>1, PTL DEF Spec

-----------------------------------------------------------------------------
LEMMA MaxFadeBounds == MaxFade \in Nat /\ \A t \in FadeTimes : t <= MaxFade
BY LightAssumption DEF MaxFade

(* A colour between two others is not brighter than both. *)
LEMMA BlendRange ==
  ASSUME NEW a \in Level, NEW b \in Level, NEW ratio \in 0..255
  PROVE  Blend(a, b, ratio) \in Level
<1> DEFINE k == 255 - ratio
<1>1. k \in 0..255 /\ k + ratio = 255 /\ TopColour \in Nat
  BY LightAssumption
<1>2. a * k \in Nat /\ a * k <= TopColour * k
  BY <1>1 DEF Level
<1>3. b * ratio \in Nat /\ b * ratio <= TopColour * ratio
  BY <1>1 DEF Level
<1>4. TopColour * k + TopColour * ratio = TopColour * 255
  BY <1>1
<1>5. a * k + b * ratio \in 0..(TopColour * 255)
  BY <1>1, <1>2, <1>3, <1>4
<1>6. (a * k + b * ratio) \div 255 \in 0..TopColour
  BY <1>1, <1>5
<1> QED
  BY <1>6 DEF Blend, Level

(* A fade that is not over has a progress of less than 255. *)
LEMMA ProgressRange ==
  ASSUME NEW e \in Nat, NEW f \in Nat, e < f
  PROVE  (e * 255) \div f \in 0..255
OBVIOUS

BoardTypeOK ==
  /\ config \in Config
  /\ {colour, fadeStart, fadeTarget} \subseteq [Lamps -> Level]
  /\ asked \in [Lamps -> Level \cup {NotKnown}]
  /\ is_fading \in BOOLEAN /\ elapsed \in 0..MaxFade
  /\ eeprom \in Image

LEMMA Defaults ==
  /\ \A n \in Nodes : DefaultConfig(n) \in Config
  /\ Dark \in [Lamps -> Level] /\ BlankImage \in Image
BY LightAssumption DEF DefaultConfig, Config, Image, Dark, Level, BlankImage

LEMMA PaintedType ==
  ASSUME NEW T, NEW f \in [Lamps -> T], NEW S, NEW c \in T
  PROVE  Painted(f, S, c) \in [Lamps -> T]
BY DEF Painted

Flags == uartOpen \in BOOLEAN /\ dmaBusy \in BOOLEAN

Numbers ==
  /\ count \in 0..Size /\ isrHeld \in 0..Size /\ rdHeld \in 0..Size
  /\ isr \in {"idle", "found"} /\ rd \in {"idle", "load", "store", "handle", "after"}
  /\ taken \in 0..ReadSize

LEMMA FlagsStep ==
  ASSUME Flags, [Next]_vars
  PROVE  Flags'
<1>1. CASE Core0 \/ Reads \/ TaskEnds \/ Tick \/ ApplyConfig \/ UNCHANGED vars
  BY <1>1 DEF Core0, Reads, Arrive, Reload, Counted, TxDone, NothingToTake, Take, Load, Store,
              TaskEnds, PassEnds, Tick, ApplyConfig, Close, vars, ringVars, Flags
<1>2. CASE HandleMessage
  BY <1>2 DEF HandleMessage, OneHandled, PacketExecuted, PacketSwallowed, Line, Answer,
              Transmit, Flags
<1> QED
  BY <1>1, <1>2 DEF Next, Core1

LEMMA NumbersStep ==
  ASSUME Numbers, RingInv, RingInv', [Next]_vars
  PROVE  Numbers'
<1> USE RingAssumption
<1>1. CASE Arrive
  BY <1>1 DEF Arrive, reading, Numbers
<1>2. CASE Reload
  BY <1>2 DEF Reload, reading, Numbers
<1>3. CASE Counted
  BY <1>3 DEF Counted, reading, Numbers, RingInv
<1>4. CASE TxDone
  BY <1>4 DEF TxDone, reading, Numbers
<1>5. CASE Reads
  BY <1>5 DEF Reads, NothingToTake, Take, Load, Store, Numbers, RingInv, ReaderHolds
<1>6. CASE HandleMessage
  BY <1>6 DEF HandleMessage, OneHandled, Numbers
<1>7. CASE TaskEnds \/ Tick \/ UNCHANGED vars
  BY <1>7 DEF TaskEnds, PassEnds, Tick, vars, ringVars, Numbers
<1>8. CASE ApplyConfig
  BY <1>8 DEF ApplyConfig, Close, reading, Numbers
<1> QED
  BY <1>1, <1>2, <1>3, <1>4, <1>5, <1>6, <1>7, <1>8 DEF Next, Core0, Core1

LEMMA BoardTypeStep ==
  ASSUME BoardTypeOK, [Next]_vars
  PROVE  BoardTypeOK'
<1> USE LightAssumption
<1>1. ASSUME NEW S, NEW c \in Colours, SetColours(S, c) PROVE BoardTypeOK'
  <2> c \in Level
    BY DEF Level
  <2>0. /\ Painted(colour, S, c) \in [Lamps -> Level]
        /\ Painted(fadeTarget, S, c) \in [Lamps -> Level]
        /\ Painted(asked, S, c) \in [Lamps -> Level \cup {NotKnown}]
        /\ Painted(asked, S, NotKnown) \in [Lamps -> Level \cup {NotKnown}]
    BY DEF Painted, BoardTypeOK
  <2>1. CASE FadesIn
    <3>1. fadeStart' \in [Lamps -> Level]
      BY <1>1, <2>1 DEF SetColours, BoardTypeOK
    <3>2. fadeTarget' \in [Lamps -> Level] /\ asked' \in [Lamps -> Level \cup {NotKnown}]
      BY <1>1, <2>1, <2>0 DEF SetColours, BoardTypeOK
    <3>3. is_fading' \in BOOLEAN /\ elapsed' \in 0..MaxFade
      BY <1>1, <2>1, MaxFadeBounds DEF SetColours, BoardTypeOK
    <3> QED
      BY <1>1, <2>1, <3>1, <3>2, <3>3 DEF SetColours, BoardTypeOK
  <2>2. CASE ~ FadesIn
    <3>1. colour' \in [Lamps -> Level] /\ asked' \in [Lamps -> Level \cup {NotKnown}]
      BY <1>1, <2>2, <2>0 DEF SetColours, BoardTypeOK
    <3> QED
      BY <1>1, <2>2, <3>1 DEF SetColours, BoardTypeOK, fade
  <2> QED
    BY <2>1, <2>2
<1>2. ASSUME NEW t \in FadeTimes, SetFadeTime(t) PROVE BoardTypeOK'
  BY <1>2 DEF SetFadeTime, BoardTypeOK, fade, Config
<1>3. CASE ResetBoard
  BY <1>3, Defaults, PaintedType DEF ResetBoard, ClearAll, BoardTypeOK, fade
<1>4. CASE SaveToEeprom
  BY <1>4 DEF SaveToEeprom, BoardTypeOK, Image, fade
<1>5. CASE SetEeprom
  BY <1>5 DEF SetEeprom, BoardTypeOK, fade
<1>6. CASE LoadFromEeprom
  BY <1>6, PaintedType DEF LoadFromEeprom, BoardTypeOK, Image, fade
<1>7. CASE UNCHANGED board
  BY <1>7 DEF board, fade, BoardTypeOK
<1>8. CASE HandleMessage
  BY <1>1, <1>2, <1>3, <1>4, <1>5, <1>6, <1>7, <1>8
     DEF HandleMessage, PacketExecuted, PacketSwallowed, Line, Execute, SetLedCommand,
         StatusCommand, EepromCommand, SystemCommand
<1>9. CASE UpdateFade
  <2>1. CASE FadeOver
    BY <1>9, <2>1, MaxFadeBounds DEF UpdateFade, BoardTypeOK
  <2>2. CASE ~ FadeOver
    <3> DEFINE progress == (elapsed * 255) \div config.fade
    <3>1. config.fade \in FadeTimes /\ elapsed \in 0..MaxFade
      BY DEF BoardTypeOK, Config
    <3>2. config.fade \in Nat
      BY <3>1
    <3>3. elapsed \in Nat
      BY <3>1, MaxFadeBounds
    <3>4. elapsed \in Nat /\ config.fade \in Nat /\ elapsed < config.fade
      BY <2>2, <3>2, <3>3 DEF FadeOver
    <3>5. progress \in 0..255
      BY <3>4, ProgressRange
    <3>6. \A l \in Lamps : Blend(fadeStart[l], fadeTarget[l], progress) \in Level
      BY <3>5, BlendRange DEF BoardTypeOK
    <3>7. colour' \in [Lamps -> Level]
      BY <1>9, <2>2, <3>6 DEF UpdateFade
    <3> QED
      BY <1>9, <3>7, MaxFadeBounds DEF UpdateFade, BoardTypeOK
  <2> QED
    BY <2>1, <2>2
<1>10. CASE Tick
  BY <1>10, MaxFadeBounds DEF Tick, BoardTypeOK
<1>11. CASE ApplyConfig
  BY <1>11, Defaults DEF ApplyConfig, LoadedConfig, BoardTypeOK, fade
<1> QED
  BY <1>7, <1>8, <1>9, <1>10, <1>11 DEF Next, Core1, TaskEnds, vars

(* Every variable of the lamp board and its ring keeps its type: a colour is *)
(* never brighter than the brightest one asked for, whatever a fade makes of *)
(* it on the way.                                                            *)
THEOREM LightTypes == Spec => []TypeOK
<1>1. Init => Flags /\ Numbers /\ BoardTypeOK
  <2> SUFFICES ASSUME Init PROVE Flags /\ Numbers /\ BoardTypeOK
    OBVIOUS
  <2>1. Flags
    BY DEF Init, RingInit, Flags
  <2>2. Numbers
    BY RingAssumption DEF Init, RingInit, Numbers
  <2>3. asked \in [Lamps -> Level \cup {NotKnown}]
    BY Defaults DEF Init
  <2>4. config \in Config /\ eeprom \in Image
    BY LightAssumption, Defaults DEF Init
  <2>5. {colour, fadeStart, fadeTarget} \subseteq [Lamps -> Level]
    BY Defaults DEF Init
  <2>6. is_fading = FALSE /\ elapsed = 0
    BY DEF Init
  <2>7. 0 \in 0..MaxFade
    BY MaxFadeBounds
  <2>8. is_fading \in BOOLEAN /\ elapsed \in 0..MaxFade
    BY <2>6, <2>7
  <2>9. BoardTypeOK
    BY <2>3, <2>4, <2>5, <2>8 DEF BoardTypeOK
  <2> QED
    BY <2>1, <2>2, <2>9
<1>2. LightInv /\ LightInv' /\ Flags /\ Numbers /\ BoardTypeOK /\ [Next]_vars
      => Flags' /\ Numbers' /\ BoardTypeOK'
  BY FlagsStep, NumbersStep, BoardTypeStep DEF LightInv
<1>3. Flags /\ Numbers /\ BoardTypeOK => TypeOK
  BY DEF TypeOK, RingTypeOK, Flags, Numbers, BoardTypeOK
<1> QED
  BY LightInvariant, <1>1, <1>2, <1>3, PTL DEF Spec

-----------------------------------------------------------------------------
(* The interrupt of core 0 and the reader on core 1 may lose each other's    *)
(* updates of data_count, but never push it over the size of the ring, nor   *)
(* below zero, where an unsigned count would look full                       *)
(* (hal_uart.cpp:584, 641).                                                  *)
THEOREM CountStaysBounded == Spec => []CountBounded
<1>1. LightInv => CountBounded
  BY RingAssumption DEF LightInv, RingInv, ReaderHolds, CountBounded
<1> QED
  BY LightInvariant, <1>1, PTL

(* Between fades every lamp shows the colour it was last given, whatever     *)
(* colours came while a fade ran (mai2light.cpp:157-168, 904-928).           *)
THEOREM LampsSettle == Spec => []SettledColours
<1>1. LightInv => SettledColours
  BY DEF LightInv, TargetsAsked, SettledColours
<1> QED
  BY LightInvariant, <1>1, PTL
=============================================================================

----------------------------- MODULE BoardProofs -----------------------------
(***************************************************************************)
(* What holds of the parts of the board, for any times, any channels of    *)
(* the UARTs, any number of widgets and any values:                        *)
(*   - the start of the two cores: its inductive invariant, the order of   *)
(*     the services (ServicesInOrder);                                     *)
(*   - the display: no frame is broken by the commands of another, the     *)
(*     interrupt handler loses no completion;                              *)
(*   - the settings page of an AD7147: core 0 takes every request whole;   *)
(*   - the touch module: settings written over I2C reach the library, and  *)
(*     the fast trigger lets a touch go only for a fall within that touch; *)
(*   - the log over USB: while its two writers are not in each other's way *)
(*     lines leave in order and none is lost.                              *)
(* The invariants are those of the parts; StepOfParts carries them over.   *)
(***************************************************************************)
EXTENDS Board, Integers, Sequences, WellFoundedInduction, TLAPS

-----------------------------------------------------------------------------
(* The start of the two cores.                                               *)

\* A lost update only takes flags away: what is set, or loaded, was reached.
FlagsTrue == word \subseteq done /\ \A c \in Core : reg[c] \subseteq done

\* A core that is about to set a flag has reached what it stands for.
SetTrue ==
  /\ \A c \in Core : /\ pc[c] = "setHal" => <<"hal", c>> \in done
                     /\ pc[c] = "setProtocol" => <<"protocol", c>> \in done
  /\ pc[0] = "setService" => Service \in done
  /\ pc[1] = "setFailed" => Failed \in done

IInv == TypeOK /\ FlagsTrue /\ SetTrue /\ ServicesInOrder

-----------------------------------------------------------------------------
LEMMA FlagsAreFlags ==
  /\ \A c \in Core : <<"hal", c>> \in Flag /\ <<"protocol", c>> \in Flag
  /\ Service \in Flag /\ Failed \in Flag
BY DEF Core, Flag, Hal, Protocol, Service, Failed

LEMMA InitIInv == Init => IInv
<1> SUFFICES ASSUME Init PROVE IInv
    OBVIOUS
<1>1. TypeOK
  <2>1. Limit \in Nat
    BY TimesAssumption
  <2>2. pc \in [Core -> Label(0) \cup Label(1)] /\ pc[0] = "basic" /\ pc[1] = "off"
    BY DEF Init, Start, Core, Label
  <2>3. age \in [Core -> Nat] /\ reg \in [Core -> SUBSET Flag]
    BY DEF Init, Zero, Core
  <2>4. "basic" \in Label(0) /\ "off" \in Label(1) /\ 0 \in 0..Limit
    BY <2>1 DEF Label
  <2>5. word = {} /\ done = {} /\ unfed = 0 /\ lost = FALSE /\ broken = FALSE
    BY DEF Init
  <2> QED
    BY <2>2, <2>3, <2>4, <2>5 DEF TypeOK
<1>2. FlagsTrue /\ SetTrue /\ ServicesInOrder
  BY DEF Init, FlagsTrue, SetTrue, ServicesInOrder, Start, Core
<1> QED
    BY <1>1, <1>2 DEF IInv

\* A core moves to another place of its program.
LEMMA Moving ==
  ASSUME NEW c \in Core, NEW label \in Label(c), TypeOK, Goto(c, label),
         pc[c] # "off", c = 0 => label # "basic", label # "off", pc[0] = "basic" => c = 0,
         pc[1] = "off" => label \in Halted \cup {"reboot"}
  PROVE  /\ pc' \in [Core -> Label(0) \cup Label(1)] /\ pc'[0] \in Label(0) /\ pc'[1] \in Label(1)
         /\ age' \in [Core -> Nat]
         /\ pc'[0] = "basic" => pc'[1] = "off"
         /\ pc'[1] = "off" => pc'[0] \in Halted \cup {"basic", "reboot"}
         /\ pc'[c] = label /\ \A d \in Core : d # c => pc'[d] = pc[d]
BY DEF Goto, TypeOK, Core, Label

\* Loading the word to set a flag keeps the invariant, if the flag is the core's own.
LEMMA Loading ==
  ASSUME NEW c \in Core, NEW flag \in Flag, NEW label \in Label(c), IInv, Load(c, flag, label),
         pc[c] \in {"hal", "protocol", "service", "waitService"},
         \/ label = "setHal" /\ flag = <<"hal", c>>
         \/ label = "setProtocol" /\ flag = <<"protocol", c>>
         \/ label = "setService" /\ flag = Service /\ pc[c] = "service" /\ c = 0
         \/ label = "setFailed" /\ flag = Failed
  PROVE  IInv'
<1> USE DEF IInv
<1>1. pc[c] # "off" /\ (pc[0] = "basic" => c = 0) /\ pc[1] # "off"
  BY DEF TypeOK, Core, Halted
<1>2. label # "off" /\ label # "basic" /\ label \notin {"run", "service"}
  OBVIOUS
<1>3. /\ pc' \in [Core -> Label(0) \cup Label(1)] /\ pc'[0] \in Label(0) /\ pc'[1] \in Label(1)
      /\ age' \in [Core -> Nat]
      /\ pc'[0] = "basic" => pc'[1] = "off"
      /\ pc'[1] = "off" => pc'[0] \in Halted \cup {"basic", "reboot"}
      /\ pc'[c] = label /\ \A d \in Core : d # c => pc'[d] = pc[d]
  BY <1>1, <1>2, Moving DEF Load
<1>4. TypeOK'
  BY <1>3 DEF Load, TypeOK
<1>5. FlagsTrue'
  BY DEF Load, FlagsTrue, TypeOK
<1>6. SetTrue'
  BY <1>3 DEF Load, SetTrue, Core
<1>7. ServicesInOrder'
  BY <1>3, <1>2 DEF Load, ServicesInOrder, Core
<1> QED
    BY <1>4, <1>5, <1>6, <1>7

\* Storing the word with a flag that was reached keeps the invariant.
LEMMA Storing ==
  ASSUME NEW c \in Core, NEW flag \in done, NEW label \in Label(c), IInv, Store(c, flag, label),
         pc[c] \in {"setHal", "setProtocol", "setService", "setFailed"},
         label \in {"waitHal", "check", "waitService", "error"}
           \/ (label = "run" /\ pc[c] = "setService" /\ c = 0)
  PROVE  IInv'
<1> USE DEF IInv
<1>1. pc[c] # "off" /\ (pc[0] = "basic" => c = 0) /\ pc[1] # "off"
  BY DEF TypeOK, Core, Halted
<1>2. label \notin {"off", "basic", "service", "setHal", "setProtocol", "setService", "setFailed"}
  OBVIOUS
<1>3. /\ pc' \in [Core -> Label(0) \cup Label(1)] /\ pc'[0] \in Label(0) /\ pc'[1] \in Label(1)
      /\ age' \in [Core -> Nat]
      /\ pc'[0] = "basic" => pc'[1] = "off"
      /\ pc'[1] = "off" => pc'[0] \in Halted \cup {"basic", "reboot"}
      /\ pc'[c] = label /\ \A d \in Core : d # c => pc'[d] = pc[d]
  BY <1>1, <1>2, Moving DEF Store
<1>4. TypeOK'
  <2>1. word' \subseteq Flag /\ lost' \in BOOLEAN
    BY DEF Store, TypeOK
  <2> QED
    BY <1>3, <2>1 DEF Store, TypeOK
<1>5. FlagsTrue'
  BY DEF Store, FlagsTrue
<1>6. SetTrue'
  BY <1>2, <1>3 DEF Store, SetTrue, Core
<1>7. ServicesInOrder'
  BY <1>3, <1>2 DEF Store, ServicesInOrder, Core
<1> QED
    BY <1>4, <1>5, <1>6, <1>7

\* Going on without touching the flags keeps the invariant, if what the next place
\* needs was reached.
LEMMA Continuing ==
  ASSUME NEW c \in Core, NEW label \in Label(c), IInv, Goto(c, label), UNCHANGED flags,
         unfed' \in 0..Limit, broken' \in BOOLEAN,
         pc[c] # "off", pc[0] = "basic" => c = 0,
         pc[1] = "off" => label \in Halted \cup {"reboot"},
         label \notin {"off", "basic", "setHal", "setProtocol", "setService", "setFailed"},
         c = 0 /\ label \in {"service", "run"} => Protocol \subseteq done,
         c = 1 /\ label = "run" => Service \in done
  PROVE  IInv'
<1> USE DEF IInv
<1>1. /\ pc' \in [Core -> Label(0) \cup Label(1)] /\ pc'[0] \in Label(0) /\ pc'[1] \in Label(1)
      /\ age' \in [Core -> Nat]
      /\ pc'[0] = "basic" => pc'[1] = "off"
      /\ pc'[1] = "off" => pc'[0] \in Halted \cup {"basic", "reboot"}
      /\ pc'[c] = label /\ \A d \in Core : d # c => pc'[d] = pc[d]
  BY Moving
<1>2. TypeOK'
  BY <1>1 DEF flags, TypeOK
<1>3. FlagsTrue' /\ SetTrue'
  BY <1>1 DEF flags, FlagsTrue, SetTrue, Core
<1>4. ServicesInOrder'
  BY <1>1 DEF flags, ServicesInOrder, Core
<1> QED
    BY <1>2, <1>3, <1>4

-----------------------------------------------------------------------------
(* The steps that both cores take. *)
LEMMA EitherStep == ASSUME NEW c \in Core, IInv, Either(c) PROVE IInv'
<1> USE FlagsAreFlags
<1>0. pc[c] = "waitHal" => pc[0] # "basic" /\ pc[1] # "off"
  BY DEF IInv, TypeOK, Core, Halted
<1>1. CASE HalDone(c)
  BY <1>1, Loading, "setHal" \in Label(c) DEF HalDone, Label
<1>2. CASE SetHal(c)
  <2>1. <<"hal", c>> \in done /\ "waitHal" \in Label(c)
    BY <1>2 DEF SetHal, IInv, SetTrue, Label
  <2> QED
    BY <1>2, <2>1, Storing DEF SetHal
<1>3. CASE HalReady(c)
  <2>1. "protocol" \in Label(c)
    BY DEF Label
  <2> QED
    BY <1>0, <1>3, <2>1, Continuing DEF HalReady, Continue, IInv, TypeOK
<1>4. CASE HalTimeout(c)
  <2>1. "error" \in Label(c)
    BY DEF Label, Halted
  <2> QED
    BY <1>0, <1>4, <2>1, Continuing DEF HalTimeout, Continue, IInv, TypeOK
<1>5. CASE ProtocolDone(c)
  BY <1>5, Loading, "setProtocol" \in Label(c) DEF ProtocolDone, Label
<1>6. CASE SetProtocol(c)
  <2>1. /\ <<"protocol", c>> \in done
        /\ (IF c = 0 THEN "check" ELSE "waitService") \in Label(c)
    BY <1>6 DEF SetProtocol, IInv, SetTrue, Label, Core
  <2> QED
    BY <1>6, <2>1, Storing DEF SetProtocol
<1> QED
    BY <1>1, <1>2, <1>3, <1>4, <1>5, <1>6 DEF Either

(* Core 0's own steps. *)
LEMMA Core0Step == IInv /\ Core0 => IInv'
<1> SUFFICES ASSUME IInv, Core0 PROVE IInv'
    OBVIOUS
<1> USE FlagsAreFlags
<1>0. /\ 0 \in Core /\ (pc[1] = "off" => pc[0] \in Halted \cup {"basic", "reboot"})
      /\ unfed \in 0..Limit /\ broken \in BOOLEAN
  BY DEF IInv, TypeOK, Core
<1>1. CASE Launch
  <2>1. Limit \in Nat
    BY TimesAssumption
  <2>2. /\ pc' \in [Core -> Label(0) \cup Label(1)] /\ pc'[0] = "hal" /\ pc'[1] = "hal"
        /\ age' \in [Core -> Nat]
    BY <1>1 DEF Launch, Core, Label, Zero
  <2>3. TypeOK'
    BY <1>1, <2>1, <2>2 DEF Launch, flags, IInv, TypeOK, Label
  <2> QED
    BY <1>1, <2>2, <2>3 DEF Launch, flags, IInv, FlagsTrue, SetTrue, ServicesInOrder, Core
<1>2. CASE Check
  <2>1. (IF Failed \in word THEN "error" ELSE "waitProtocol") \in Label(0)
    BY DEF Label, Halted
  <2> QED
    BY <1>0, <1>2, <2>1, Continuing DEF Check, Continue, Halted
<1>3. CASE ProtocolReady
  <2>1. "service" \in Label(0) /\ Protocol \subseteq done
    BY <1>3 DEF Label, ProtocolReady, IInv, FlagsTrue
  <2> QED
    BY <1>0, <1>3, <2>1, Continuing DEF ProtocolReady, Continue, Halted
<1>4. CASE ProtocolTimeout
  <2>1. "error" \in Label(0)
    BY DEF Label, Halted
  <2> QED
    BY <1>0, <1>4, <2>1, Continuing DEF ProtocolTimeout, Continue, Halted
<1>5. CASE ServiceDone
  BY <1>0, <1>5, Loading, "setService" \in Label(0) DEF ServiceDone, Label
<1>6. CASE SetService
  <2>1. Service \in done /\ "run" \in Label(0)
    BY <1>6 DEF SetService, IInv, SetTrue, Label
  <2> QED
    BY <1>0, <1>6, <2>1, Storing DEF SetService
<1> QED
    BY <1>1, <1>2, <1>3, <1>4, <1>5, <1>6 DEF Core0

(* Core 1's own steps. *)
LEMMA Core1Step == IInv /\ Core1 => IInv'
<1> SUFFICES ASSUME IInv, Core1 PROVE IInv'
    OBVIOUS
<1> USE FlagsAreFlags
<1>0. /\ 1 \in Core /\ (pc[0] = "basic" => pc[1] = "off")
      /\ unfed \in 0..Limit /\ broken \in BOOLEAN
  BY DEF IInv, TypeOK, Core
<1>1. CASE ServiceReady
  <2>1. "run" \in Label(1) /\ Service \in done
    BY <1>1 DEF Label, ServiceReady, IInv, FlagsTrue
  <2> QED
    BY <1>0, <1>1, <2>1, Continuing DEF ServiceReady, Continue
<1>2. CASE ServiceTimeout
  BY <1>0, <1>2, Loading, "setFailed" \in Label(1) DEF ServiceTimeout, Label
<1>3. CASE SetFailed
  <2>1. Failed \in done /\ "error" \in Label(1)
    BY <1>3 DEF SetFailed, IInv, SetTrue, Label, Halted
  <2> QED
    BY <1>0, <1>3, <2>1, Storing DEF SetFailed
<1> QED
    BY <1>1, <1>2, <1>3 DEF Core1

(* Failures, the watchdog and time. *)
LEMMA TroubleStep ==
  ASSUME IInv, (\E c \in Core : Fail(c) \/ Hang(c)) \/ Restart \/ Tick
  PROVE  IInv'
<1> USE FlagsAreFlags
<1>1. CASE \E c \in Core : Fail(c)
  <2>1. PICK c \in Core : Fail(c)
    BY <1>1
  <2>2. PICK label \in IF pc[c] = "basic" THEN {"reboot", "error", "hung"} ELSE {"error"} :
          Goto(c, label)
    BY <2>1 DEF Fail
  <2>3. pc[c] = "basic" => c = 0
    BY DEF IInv, TypeOK, Core, Label, Halted
  <2>4. label \in Label(c)
    BY <2>2, <2>3 DEF Label, Halted
  <2>5. /\ pc[c] \in Working /\ (pc[0] = "basic" => c = 0)
        /\ (pc[1] = "off" => label \in Halted \cup {"reboot"})
    BY <2>1, <2>2 DEF Fail, Working, IInv, TypeOK, Core, Halted
  <2>6. unfed' \in 0..Limit /\ broken' \in BOOLEAN /\ UNCHANGED flags
    BY <2>1 DEF Fail, IInv, TypeOK
  <2> QED
    BY <2>2, <2>4, <2>5, <2>6, Continuing DEF Working
<1>2. CASE \E c \in Core : Hang(c)
  <2>1. PICK c \in Core : Hang(c)
    BY <1>2
  <2>2. "hung" \in Label(c)
    BY DEF Label, Halted
  <2>3. pc[c] = "run" /\ (pc[0] = "basic" => c = 0) /\ pc[1] # "off"
    BY <2>1 DEF Hang, IInv, TypeOK, Core, Halted
  <2>4. unfed' \in 0..Limit /\ broken' \in BOOLEAN /\ UNCHANGED flags /\ Goto(c, "hung")
    BY <2>1 DEF Hang, IInv, TypeOK
  <2> QED
    BY <2>2, <2>3, <2>4, Continuing
<1>3. CASE Restart
  <2>1. Limit \in Nat
    BY TimesAssumption
  <2>2. pc' \in [Core -> Label(0) \cup Label(1)] /\ pc'[0] = "basic" /\ pc'[1] = "off"
    BY <1>3 DEF Restart, Start, Core, Label
  <2>3. age' \in [Core -> Nat] /\ reg' \in [Core -> SUBSET Flag]
    BY <1>3 DEF Restart, Zero, Core
  <2>4. TypeOK'
    <3>1. "basic" \in Label(0) /\ "off" \in Label(1) /\ 0 \in 0..Limit
      BY <2>1 DEF Label
    <3>2. word' = {} /\ done' = {} /\ unfed' = 0 /\ lost' = FALSE /\ broken' = FALSE
      BY <1>3 DEF Restart
    <3> QED
      BY <2>2, <2>3, <3>1, <3>2 DEF TypeOK
  <2> QED
    BY <1>3, <2>2, <2>4 DEF Restart, IInv, FlagsTrue, SetTrue, ServicesInOrder, Core
<1>4. CASE Tick
  <2>1. Limit \in Nat
    BY TimesAssumption
  <2>2. unfed' \in 0..Limit
    BY <1>4, <2>1 DEF Tick, IInv, TypeOK
  <2>3. age' \in [Core -> Nat]
    BY <1>4 DEF Tick, IInv, TypeOK
  <2>4. TypeOK'
    BY <1>4, <2>2, <2>3 DEF Tick, flags, IInv, TypeOK
  <2> QED
    BY <1>4, <2>4 DEF Tick, flags, IInv, FlagsTrue, SetTrue, ServicesInOrder
<1> QED
    BY <1>1, <1>2, <1>3, <1>4

(* The inductive invariant of starting up. *)
THEOREM Inductive == Spec => []IInv
<1>1. IInv /\ [Next]_vars => IInv'
  <2> SUFFICES ASSUME IInv, [Next]_vars PROVE IInv'
    OBVIOUS
  <2>1. CASE UNCHANGED vars
    BY <2>1 DEF vars, IInv, TypeOK, FlagsTrue, SetTrue, ServicesInOrder
  <2> QED
    BY <2>1, EitherStep, Core0Step, Core1Step, TroubleStep DEF Next
<1> QED
    BY InitIInv, <1>1, PTL DEF Spec

-----------------------------------------------------------------------------
(* The flags are flags, and each core stays in its own program. *)
THEOREM TypeCorrect == Spec => []TypeOK
<1>1. IInv => TypeOK
    BY DEF IInv
<1> QED
    BY <1>1, Inductive, PTL

(* The services come after both protocol layers, and core 1's loop after the
   services, in spite of lost flags, timeouts, failures and restarts. *)
THEOREM InOrder == Spec => []ServicesInOrder
<1>1. IInv => ServicesInOrder
    BY DEF IInv
<1> QED
    BY <1>1, Inductive, PTL

-----------------------------------------------------------------------------
(* The display.                                                              *)

(* The channels the handler still has to see are raised, but for the one     *)
(* whose callback runs.                                                      *)
HandlerInv ==
  /\ running \subseteq D!Channel /\ ints0 \subseteq D!Channel
  /\ core0 \in [at : {"thread", "handler", "callback", "flash", "released"},
                left : SUBSET D!Channel]
  /\ core0.at = "handler" => core0.left \subseteq ints0
  /\ core0.at = "callback" => /\ D!Lowest \in core0.left
                              /\ core0.left \ {D!Lowest} \subseteq ints0

CallbackDue(ch) == core0.at = "callback" /\ ch = D!Lowest

(* A driver waits exactly while its transfer runs, its interrupt is raised   *)
(* or its callback is due, which are never two at a time.                    *)
Owed ==
  /\ DOMAIN halBusy = D!Channel
  /\ running \cap ints0 = {}
  /\ \A ch \in D!Channel : CallbackDue(ch) => ch \notin running \cup ints0
  /\ \A ch \in D!Channel : halBusy[ch] <=> (ch \in running \cup ints0 \/ CallbackDue(ch))

Byte == {"CASET", "columns", "RASET", "rows", "RAMWR"}

(* The display heard as much of the window as core 1 has written of it.      *)
WindowWritten ==
  /\ core1 \in [at : {"loop", "window", "start", "mark"}, sent : 0..5]
  /\ heard \in Seq(Byte)
  /\ core1.at \in {"window", "start"} => ~ busy /\ ~ halBusy[D!Tft]
  /\ core1.at \in {"loop", "mark"} /\ D!Tft \notin running => heard = <<>>
  /\ core1.at = "window" => /\ Len(heard) = core1.sent
                            /\ \A i \in 1..core1.sent : heard[i] = D!Window[i]
                            /\ core1.sent > 0 => ~ shifting
  /\ core1.at = "start" => heard = D!Window /\ pins.selected /\ pins.data /\ ~ shifting

DisplayInv == HandlerInv /\ Owed /\ WindowWritten /\ D!StreamUnbroken

-----------------------------------------------------------------------------
(* The lowest of some channels is one of them. *)
LEMMA LowestIsLeft ==
  ASSUME D!DisplayConstants, core0.left \subseteq D!Channel, core0.left # {}
  PROVE  D!Lowest \in core0.left
<1> DEFINE S == core0.left
<1> Uarts \subseteq 1..7
  BY DEF D!DisplayConstants
<1> D!Channel \subseteq 0..7
  BY DEF D!Channel, D!Tft
<1>1. S \subseteq 0..7
  OBVIOUS
<1>2. \E ch \in S : \A other \in S : ch <= other
  <2>1. CASE 0 \in S
    BY <1>1, <2>1
  <2>2. CASE 0 \notin S /\ 1 \in S
    BY <1>1, <2>2
  <2>3. CASE 0 \notin S /\ 1 \notin S /\ 2 \in S
    BY <1>1, <2>3
  <2>4. CASE 0 \notin S /\ 1 \notin S /\ 2 \notin S /\ 3 \in S
    BY <1>1, <2>4
  <2>5. CASE S \subseteq 4..7 /\ 4 \in S
    BY <2>5
  <2>6. CASE S \subseteq 5..7 /\ 5 \in S
    BY <2>6
  <2>7. CASE S \subseteq 6..7 /\ 6 \in S
    BY <2>7
  <2>8. CASE S = {7}
    BY <2>8
  <2> QED
    BY <1>1, <2>1, <2>2, <2>3, <2>4, <2>5, <2>6, <2>7, <2>8
<1> QED
  BY <1>2 DEF D!Lowest

LEMMA DisplayInit == D!DisplayConstants /\ D!Init => DisplayInv
<1> SUFFICES ASSUME D!DisplayConstants, D!Init PROVE DisplayInv
  OBVIOUS
<1>1. HandlerInv
  BY DEF D!Init, HandlerInv
<1>2. Owed
  BY DEF D!Init, Owed, CallbackDue
<1>3. WindowWritten
  BY DEF D!Init, WindowWritten
<1>4. D!StreamUnbroken
  BY DEF D!Init, D!StreamUnbroken
<1> QED
  BY <1>1, <1>2, <1>3, <1>4 DEF DisplayInv

-----------------------------------------------------------------------------
LEMMA HandlerStep ==
  ASSUME D!DisplayConstants, HandlerInv, [D!Next]_(D!vars)
  PROVE  HandlerInv'
<1> USE DEF D!Channel
<1>1. CASE D!Refresh
  BY <1>1 DEF D!Refresh, D!WriteBuffer, D!WriteByte, D!SelectDataMode, D!StartDmaTransfer, D!MarkBusy, D!spi,
              HandlerInv, D!Lowest
<1>2. ASSUME NEW ch \in Uarts, D!TriggerTxDma(ch) PROVE HandlerInv'
  BY <1>2 DEF D!TriggerTxDma, HandlerInv, D!Lowest
<1>3. ASSUME NEW ch \in D!Channel, D!TransferEnds(ch) PROVE HandlerInv'
  BY <1>3 DEF D!TransferEnds, HandlerInv, D!Lowest
<1>4. CASE D!FifoEmpties \/ UNCHANGED D!vars
  BY <1>4 DEF D!FifoEmpties, D!vars, HandlerInv, D!Lowest
<1>5. CASE D!EnterHandler
  BY <1>5 DEF D!EnterHandler, HandlerInv
<1>6. CASE D!Acknowledge
  <2>1. D!Lowest \in core0.left
    BY <1>6, LowestIsLeft DEF D!Acknowledge, HandlerInv
  <2>2. core0'.left = core0.left /\ D!Lowest' = D!Lowest
    BY <1>6 DEF D!Acknowledge, HandlerInv, D!Lowest
  <2> QED
    BY <1>6, <2>1, <2>2 DEF D!Acknowledge, HandlerInv
<1>7. CASE D!Callback
  BY <1>7 DEF D!Callback, HandlerInv
<1>8. CASE D!LeaveHandler \/ D!SaveBegins \/ D!Save
  BY <1>8 DEF D!LeaveHandler, D!SaveBegins, D!Save, D!LockoutEnds, D!InterruptsOn, HandlerInv
<1> QED
  BY <1>1, <1>2, <1>3, <1>4, <1>5, <1>6, <1>7, <1>8 DEF D!Next, D!Handler

LEMMA OwedStep ==
  ASSUME D!DisplayConstants, HandlerInv, Owed, [D!Next]_(D!vars)
  PROVE  Owed'
<1> USE DEF CallbackDue
<1> D!Tft \in D!Channel /\ Uarts \subseteq D!Channel
  BY DEF D!Channel
<1>1. CASE D!WriteBuffer \/ D!WriteByte \/ D!SelectDataMode \/ D!MarkBusy
  BY <1>1 DEF D!WriteBuffer, D!WriteByte, D!SelectDataMode, D!MarkBusy, D!spi, Owed, D!Lowest
<1>2. CASE D!StartDmaTransfer
  BY <1>2 DEF D!StartDmaTransfer, Owed, D!Lowest
<1>3. ASSUME NEW ch \in Uarts, D!TriggerTxDma(ch) PROVE Owed'
  BY <1>3 DEF D!TriggerTxDma, Owed, D!Lowest
<1>4. ASSUME NEW ch \in D!Channel, D!TransferEnds(ch) PROVE Owed'
  BY <1>4 DEF D!TransferEnds, Owed, D!Lowest
<1>5. CASE D!FifoEmpties \/ UNCHANGED D!vars
  BY <1>5 DEF D!FifoEmpties, D!vars, Owed, D!Lowest
<1>6. CASE D!EnterHandler \/ D!LeaveHandler \/ D!SaveBegins \/ D!Save
  BY <1>6 DEF D!EnterHandler, D!LeaveHandler, D!SaveBegins, D!Save, D!LockoutEnds, D!InterruptsOn, Owed,
              HandlerInv
<1>7. CASE D!Acknowledge
  <2>1. D!Lowest \in core0.left /\ D!Lowest \in ints0
    BY <1>7, LowestIsLeft DEF D!Acknowledge, HandlerInv
  <2>2. core0'.left = core0.left /\ D!Lowest' = D!Lowest /\ core0'.at = "callback"
    BY <1>7 DEF D!Acknowledge, HandlerInv, D!Lowest
  <2> QED
    BY <1>7, <2>1, <2>2 DEF D!Acknowledge, Owed
<1>8. CASE D!Callback
  <2>1. core0'.at = "handler" /\ CallbackDue(D!Lowest) /\ D!Lowest \in D!Channel
    BY <1>8 DEF D!Callback, HandlerInv
  <2> QED
    BY <1>8, <2>1 DEF D!Callback, Owed
<1> QED
  BY <1>1, <1>2, <1>3, <1>4, <1>5, <1>6, <1>7, <1>8 DEF D!Next, D!Refresh, D!Handler

-----------------------------------------------------------------------------
LEMMA WindowBytes ==
  /\ Len(D!Window) = 5 /\ D!Window \in Seq(Byte)
  /\ \A i \in 1..5 : D!Window[i] \in Byte
<1>1. Len(D!Window) = 5
  BY DEF D!Window
<1>2. D!Window \in Seq(Byte)
  BY DEF D!Window, Byte
<1>3. \A i \in 1..Len(D!Window) : D!Window[i] \in Byte
  BY <1>2
<1> QED
  BY <1>1, <1>2, <1>3

LEMMA WindowStep ==
  ASSUME D!DisplayConstants, HandlerInv, Owed, WindowWritten, [D!Next]_(D!vars)
  PROVE  WindowWritten'
<1> D!Tft \in D!Channel /\ \A ch \in Uarts : ch \in D!Channel /\ ch # D!Tft
  BY DEF D!Channel, D!DisplayConstants, D!Tft
<1>1. CASE D!WriteBuffer
  BY <1>1, WindowBytes DEF D!WriteBuffer, D!IsDmaBusy, D!spi, WindowWritten, Owed
<1>2. CASE D!WriteByte
  <2> DEFINE b == D!Window[core1.sent + 1]
  <2>1. /\ core1.at = "window" /\ core1.sent \in 0..4 /\ ~ D!IsDmaBusy
        /\ heard' = Append(heard, b) /\ b \in Byte
    BY <1>2, WindowBytes DEF D!WriteByte, D!IsDmaBusy, WindowWritten
  <2>2. core1' = [core1 EXCEPT !.sent = @ + 1] /\ ~ shifting'
        /\ UNCHANGED <<running, halBusy, busy>>
    BY <1>2 DEF D!WriteByte
  <2>3. /\ core1'.at = "window" /\ core1'.sent = core1.sent + 1
        /\ core1' \in [at : {"loop", "window", "start", "mark"}, sent : 0..5]
    BY <2>1, <2>2 DEF WindowWritten
  <2>4. heard' \in Seq(Byte) /\ Len(heard') = core1.sent + 1
    BY <2>1 DEF WindowWritten
  <2>5. \A i \in 1..(core1.sent + 1) : heard'[i] = D!Window[i]
    BY <2>1 DEF WindowWritten
  <2> QED
    BY <2>1, <2>2, <2>3, <2>4, <2>5 DEF WindowWritten, D!IsDmaBusy
<1>3. CASE D!SelectDataMode
  <2>1. /\ core1.at = "window" /\ core1.sent = Len(D!Window) /\ core1' = [core1 EXCEPT !.at = "start"]
        /\ pins' = [selected |-> TRUE, data |-> TRUE]
        /\ UNCHANGED <<running, shifting, halBusy, busy, heard>>
    BY <1>3 DEF D!SelectDataMode
  <2>2. /\ core1.sent = 5 /\ core1' \in [at : {"loop", "window", "start", "mark"}, sent : 0..5]
        /\ core1'.at = "start" /\ pins'.selected /\ pins'.data
    BY <2>1, WindowBytes DEF WindowWritten
  <2>3. heard \in Seq(Byte) /\ Len(heard) = 5 /\ ~ shifting /\ ~ busy /\ ~ halBusy[D!Tft]
    BY <2>1, <2>2 DEF WindowWritten
  <2>4. \A i \in 1..5 : heard[i] = D!Window[i]
    BY <2>1, <2>2 DEF WindowWritten
  <2>5. heard = D!Window
    <3> DEFINE bytes == D!Window
    <3>1. bytes \in Seq(Byte) /\ Len(bytes) = Len(heard) /\ \A i \in 1..Len(heard) : heard[i] = bytes[i]
      BY <2>3, <2>4, WindowBytes
    <3> HIDE DEF bytes
    <3>2. heard \in Seq(Byte)
      BY <2>3
    <3>3. heard = bytes
      BY <3>1, <3>2
    <3> QED BY <3>3 DEF bytes
  <2> QED
    BY <2>1, <2>2, <2>3, <2>5 DEF WindowWritten
<1>4. CASE D!StartDmaTransfer
  BY <1>4, WindowBytes DEF D!StartDmaTransfer, WindowWritten, Owed
<1>5. CASE D!MarkBusy
  BY <1>5 DEF D!MarkBusy, WindowWritten
<1>6. ASSUME NEW ch \in Uarts, D!TriggerTxDma(ch) PROVE WindowWritten'
  BY <1>6 DEF D!TriggerTxDma, D!spi, WindowWritten, Owed
<1>7. ASSUME NEW ch \in D!Channel, D!TransferEnds(ch) PROVE WindowWritten'
  <2>1. core1.at \in {"window", "start"} => ch # D!Tft
    BY <1>7 DEF D!TransferEnds, WindowWritten, Owed
  <2>2. CASE ch = D!Tft
    BY <1>7, <2>1, <2>2 DEF D!TransferEnds, WindowWritten
  <2>3. CASE ch # D!Tft
    BY <1>7, <2>3 DEF D!TransferEnds, WindowWritten
  <2> QED
    BY <2>2, <2>3
<1>8. CASE D!FifoEmpties
  BY <1>8 DEF D!FifoEmpties, WindowWritten
<1>9. CASE D!EnterHandler \/ D!Acknowledge \/ D!LeaveHandler \/ D!SaveBegins \/ D!Save \/ UNCHANGED D!vars
  BY <1>9 DEF D!EnterHandler, D!Acknowledge, D!LeaveHandler, D!SaveBegins, D!Save, D!LockoutEnds,
              D!InterruptsOn, D!vars, D!spi, WindowWritten
<1>10. CASE D!Callback
  BY <1>10 DEF D!Callback, D!OnDmaComplete, CallbackDue, HandlerInv, WindowWritten, Owed
<1> QED
  BY <1>1, <1>2, <1>3, <1>4, <1>5, <1>6, <1>7, <1>8, <1>9, <1>10 DEF D!Next, D!Refresh, D!Handler

LEMMA StreamStep ==
  ASSUME D!DisplayConstants, HandlerInv, Owed, WindowWritten, D!StreamUnbroken, [D!Next]_(D!vars)
  PROVE  D!StreamUnbroken'
<1> D!Tft \in D!Channel /\ \A ch \in Uarts : ch # D!Tft
  BY DEF D!Channel, D!DisplayConstants, D!Tft
<1>1. CASE D!WriteBuffer \/ D!MarkBusy
  BY <1>1 DEF D!WriteBuffer, D!MarkBusy, D!spi, D!StreamUnbroken
<1>2. CASE D!WriteByte \/ D!SelectDataMode
  BY <1>2 DEF D!WriteByte, D!SelectDataMode, WindowWritten, Owed, D!StreamUnbroken
<1>3. CASE D!StartDmaTransfer
  BY <1>3 DEF D!StartDmaTransfer, WindowWritten, Owed, D!StreamUnbroken
<1>4. ASSUME NEW ch \in Uarts, D!TriggerTxDma(ch) PROVE D!StreamUnbroken'
  BY <1>4 DEF D!TriggerTxDma, D!spi, D!StreamUnbroken
<1>5. ASSUME NEW ch \in D!Channel, D!TransferEnds(ch) PROVE D!StreamUnbroken'
  BY <1>5 DEF D!TransferEnds, D!StreamUnbroken
<1>6. CASE D!FifoEmpties \/ D!EnterHandler \/ D!Acknowledge \/ D!LeaveHandler \/ D!SaveBegins \/ D!Save
           \/ UNCHANGED D!vars
  BY <1>6 DEF D!FifoEmpties, D!EnterHandler, D!Acknowledge, D!LeaveHandler, D!SaveBegins, D!Save,
              D!LockoutEnds, D!InterruptsOn, D!vars, D!spi, D!StreamUnbroken
<1>7. CASE D!Callback
  BY <1>7 DEF D!Callback, CallbackDue, HandlerInv, Owed, D!StreamUnbroken
<1> QED
  BY <1>1, <1>2, <1>3, <1>4, <1>5, <1>6, <1>7 DEF D!Next, D!Refresh, D!Handler

-----------------------------------------------------------------------------
(* A step of the board is a step of one part and a stutter of the others, so *)
(* what holds of each part alone holds of the board.                         *)
LEMMA StepOfParts ==
  [Step]_allVars => /\ [Next]_vars /\ [D!Next]_(D!vars)
                    /\ [A!Next]_(A!vars) /\ [M!Next]_(M!vars) /\ [L!Next]_(L!vars)
<1> SUFFICES ASSUME [Step]_allVars
             PROVE  /\ [Next]_vars /\ [D!Next]_(D!vars)
                    /\ [A!Next]_(A!vars) /\ [M!Next]_(M!vars) /\ [L!Next]_(L!vars)
  OBVIOUS
<1> USE DEF vars, displayVars, pageVars, moduleVars, logVars,
            D!vars, D!spi, A!vars, A!shared, M!vars, M!driver, L!vars, L!hist
<1>1. CASE StartOfCores
  BY <1>1 DEF StartOfCores
<1>2. CASE Display
  BY <1>2 DEF Display
<1>3. CASE SettingsPage
  BY <1>3 DEF SettingsPage
<1>4. CASE TouchModule
  BY <1>4 DEF TouchModule
<1>5. CASE SerialLog
  BY <1>5 DEF SerialLog
<1>6. CASE UNCHANGED allVars
  BY <1>6 DEF allVars
<1> QED
  BY <1>1, <1>2, <1>3, <1>4, <1>5, <1>6 DEF Step

(* The start of both cores, on the board: ServicesInOrder of its run.        *)
THEOREM BoardInOrder == Board => []ServicesInOrder
<1>1. Board => Spec
  BY StepOfParts, PTL DEF Board, Begin, Spec
<1> QED
  BY <1>1, InOrder, PTL

-----------------------------------------------------------------------------
(* The invariant of the display holds of the board, whose constants are     *)
(* assumed to be in order.                                                   *)
LEMMA DisplayOnBoard == Board => []DisplayInv
<1>1. D!DisplayConstants
  BY ConstantsAssumption
<1>2. D!Init => DisplayInv
  BY <1>1, DisplayInit
<1>3. DisplayInv /\ [D!Next]_(D!vars) => DisplayInv'
  BY <1>1, HandlerStep, OwedStep, WindowStep, StreamStep DEF DisplayInv
<1> QED
  BY <1>2, <1>3, StepOfParts, PTL DEF Board, Begin

(* No command of a refresh gets between the pixels of a frame, and a frame   *)
(* begins at its first pixel, however long a save holds core 1               *)
(* (st7735s.cpp:392-412).                                                    *)
THEOREM FramesUnbroken == Board => []StreamUnbroken
<1>1. DisplayInv => StreamUnbroken
  BY DEF DisplayInv, StreamUnbroken
<1> QED
  BY DisplayOnBoard, <1>1, PTL

(* The handler reads the interrupts once and takes the channels in order;    *)
(* whatever ends meanwhile, no driver waits for an interrupt that will not   *)
(* come (global_irq.c:20-45).                                                *)
THEOREM CompletionsKept == Board => []NoLostCompletion
<1>1. DisplayInv => NoLostCompletion
  BY DEF DisplayInv, Owed, CallbackDue, D!NoLostCompletion, NoLostCompletion
<1> QED
  BY DisplayOnBoard, <1>1, PTL

-----------------------------------------------------------------------------
(* The touch module and its driver.                                          *)

IsOn(f, S) == f = [x \in S |-> f[x]]

Fields == {"pc", "flags", "asked", "marked", "snapshot", "context", "touched", "delta", "channel",
           "permille", "status", "lit", "last", "control", "register", "written", "peak", "fall"}

(* What was written and is not marked is on its way to the library in the    *)
(* snapshot, which is empty but between its taking and its use, or is there. *)
SettingsInv(c) ==
  /\ IsOn(c, Fields) /\ IsOn(c.asked, M!Setting) /\ IsOn(c.context, M!Setting)
  /\ c.written \subseteq M!Setting
  /\ c.marked \subseteq M!Setting /\ DOMAIN c.snapshot \subseteq M!Setting
  /\ c.pc # "apply" => DOMAIN c.snapshot = {}
  /\ \A s \in DOMAIN c.snapshot \ c.marked : c.snapshot[s] = c.asked[s]
  /\ \A s \in c.written : s \notin c.marked \union DOMAIN c.snapshot => c.context[s] = c.asked[s]

LEMMA PowerOnSettings == SettingsInv(M!PowerOn)
<1> DEFINE c == M!PowerOn
<1>1. IsOn(c, Fields)
  BY DEF M!PowerOn, IsOn, Fields
<1>2. /\ IsOn(c.asked, M!Setting) /\ IsOn(c.context, M!Setting)
      /\ c.written = {} /\ c.marked = {} /\ c.snapshot = <<>>
  BY DEF M!PowerOn, IsOn
<1> QED
  BY <1>1, <1>2 DEF SettingsInv

(* A change of other fields does not touch the settings.                     *)
LEMMA OtherFields ==
  ASSUME NEW c, NEW d, SettingsInv(c), IsOn(d, Fields),
         d.asked = c.asked, d.context = c.context, d.written = c.written,
         d.marked = c.marked, d.snapshot = c.snapshot, c.pc = "apply" => d.pc = "apply"
  PROVE  SettingsInv(d)
BY DEF SettingsInv

LEMMA WriteSettings ==
  ASSUME NEW c, NEW address, NEW value, SettingsInv(c)
  PROVE  SettingsInv(M!RegisterWrite(c, address, value))
<1> DEFINE Meant(s) == address = (IF s[1] = "cap" THEN M!CapReg(s[2]) ELSE M!ThresholdReg(s[2]))
           chosen == CHOOSE s \in M!Setting : Meant(s)
<1>1. CASE address = M!ControlReg /\ "reset_req" \in value
  BY <1>1, PowerOnSettings DEF M!RegisterWrite
<1>2. ASSUME ~ (address = M!ControlReg /\ "reset_req" \in value)
      PROVE  SettingsInv(M!RegisterWrite(c, address, value))
  <2> DEFINE w == M!Written(c, address, value)
  <2>0. M!ControlReg # M!PermilleReg /\ \A s \in M!Setting : Meant(s) => address \in 3..67
    <3>1. Widgets \in 1..12
      <4>1. M!FirmwareConstants
        BY ConstantsAssumption DEF M!DriverConstants
      <4> QED
        BY <4>1 DEF M!FirmwareConstants
    <3>2. ASSUME NEW s \in M!Setting, Meant(s) PROVE address \in 3..67
      <4>1. s[2] \in 0..11
        BY <3>1 DEF M!Setting, M!Widget
      <4> QED
        BY <3>1, <3>2, <4>1 DEF M!CapReg, M!ThresholdReg
    <3> QED
      BY <3>2 DEF M!ControlReg, M!PermilleReg
  <2>a. ~ (address \in 3..67 /\ address \in {M!ControlReg, M!PermilleReg})
    BY DEF M!ControlReg, M!PermilleReg
  <2>1. M!RegisterWrite(c, address, value) = [w EXCEPT !.register = address]
    BY <1>2 DEF M!RegisterWrite
  <2>2. SettingsInv(w)
    <3>1. CASE address = M!ControlReg
      <4>1. w = M!ControlWritten(c, value)
        BY <3>1, <2>0, <2>a DEF M!Written
      <4>2. /\ IsOn(w, Fields) /\ w.asked = c.asked /\ w.context = c.context
            /\ w.written = c.written /\ w.marked = c.marked /\ w.snapshot = c.snapshot /\ w.pc = c.pc
        BY <4>1 DEF M!ControlWritten, IsOn, Fields, SettingsInv
      <4> QED
        BY <4>2, OtherFields
    <3>2. CASE address # M!ControlReg /\ address = M!PermilleReg
      <4>1. w = [c EXCEPT !.permille = value]
        BY <3>2, <2>0, <2>a DEF M!Written
      <4>2. /\ IsOn(w, Fields) /\ w.asked = c.asked /\ w.context = c.context
            /\ w.written = c.written /\ w.marked = c.marked /\ w.snapshot = c.snapshot /\ w.pc = c.pc
        BY <4>1 DEF IsOn, Fields, SettingsInv
      <4> QED
        BY <4>2, OtherFields
    <3>3. CASE address # M!ControlReg /\ address # M!PermilleReg /\ \E s \in M!Setting : Meant(s)
      <4>1. w = M!SettingAsked(c, chosen, value)
        BY <3>3, <2>0, <2>a DEF M!Written
      <4>2. chosen \in M!Setting
        BY <3>3
      <4> HIDE DEF chosen
      <4>3. /\ IsOn(w, Fields) /\ w.context = c.context /\ w.snapshot = c.snapshot /\ w.pc = c.pc
            /\ w.asked = [c.asked EXCEPT ![chosen] = M!Clamped(chosen, value)]
            /\ w.marked = c.marked \union {chosen} /\ w.written = c.written \union {chosen}
        BY <4>1 DEF M!SettingAsked, IsOn, Fields, SettingsInv
      <4>4. IsOn(w.asked, M!Setting) /\ \A s \in M!Setting \ {chosen} : w.asked[s] = c.asked[s]
        BY <4>3 DEF IsOn, SettingsInv
      <4> HIDE DEF w
      <4> QED
        BY <4>2, <4>3, <4>4 DEF SettingsInv
    <3>4. CASE address # M!ControlReg /\ address # M!PermilleReg /\ ~ \E s \in M!Setting : Meant(s)
      BY <3>4, <2>0, <2>a DEF M!Written
    <3> QED
      BY <3>1, <3>2, <3>3, <3>4
  <2> HIDE DEF w
  <2> DEFINE d == [w EXCEPT !.register = address]
  <2>3. /\ IsOn(d, Fields) /\ d.asked = w.asked /\ d.context = w.context
        /\ d.written = w.written /\ d.marked = w.marked /\ d.snapshot = w.snapshot /\ d.pc = w.pc
    BY <2>2 DEF IsOn, Fields, SettingsInv
  <2> HIDE DEF d
  <2>4. SettingsInv(d)
    BY <2>2, <2>3, OtherFields
  <2> QED
    BY <2>1, <2>4 DEF d
<1> QED
  BY <1>1, <1>2

(* What the loop computes from the counts is not about the settings.         *)
LEMMA PublishSettings ==
  ASSUME SettingsInv(chip), chip.pc = "publish"
  PROVE  SettingsInv([M!Shown(M!FastTrigger(M!Remembered(chip), M!XDelta)) EXCEPT !.pc = "scan"])
<1> DEFINE r == M!Remembered(chip)
           t == M!FastTrigger(r, M!XDelta)
           s == M!Shown(t)
           d == [s EXCEPT !.pc = "scan"]
           Same(e) == /\ IsOn(e, Fields) /\ e.asked = chip.asked /\ e.context = chip.context
                      /\ e.written = chip.written /\ e.marked = chip.marked
                      /\ e.snapshot = chip.snapshot
<1>1. Same(r)
  BY DEF M!Remembered, IsOn, Fields, SettingsInv
<1>2. Same(t)
  <2> HIDE DEF r
  <2> QED
    BY <1>1 DEF M!FastTrigger, IsOn, Fields
<1>3. Same(s)
  <2> HIDE DEF t
  <2> QED
    BY <1>2 DEF M!Shown, IsOn, Fields
<1>4. Same(d)
  <2> HIDE DEF s
  <2> QED
    BY <1>3 DEF IsOn, Fields
<1>5. d.pc = "scan"
  <2> HIDE DEF s
  <2> QED
    BY <1>3 DEF IsOn, Fields
<1>6. SettingsInv(d)
  <2> HIDE DEF d
  <2> QED
    BY <1>4, <1>5, OtherFields
<1> QED
  BY <1>6

LEMMA LoopSettings ==
  ASSUME SettingsInv(chip), NEW deltas, M!MainLoop(deltas)
  PROVE  SettingsInv(chip')
<1> USE DEF SettingsInv
<1>1. CASE M!ScanEnds \/ M!Calibrate
  <2>1. /\ IsOn(chip', Fields) /\ chip'.asked = chip.asked /\ chip'.context = chip.context
        /\ chip'.written = chip.written /\ chip'.marked = chip.marked
        /\ chip'.snapshot = chip.snapshot /\ chip.pc # "apply"
    <3>1. CASE M!ScanEnds
      BY <3>1 DEF M!ScanEnds, IsOn, Fields
    <3>2. CASE M!Measured
      BY <3>2 DEF M!Measured, IsOn, Fields
    <3>3. ASSUME NEW from \in {"calibrate", "start", "measured", "ended", "served"}, NEW to,
                 NEW bits, M!Flags(from, to, bits)
          PROVE  /\ IsOn(chip', Fields) /\ chip'.asked = chip.asked
                 /\ chip'.context = chip.context /\ chip'.written = chip.written
                 /\ chip'.marked = chip.marked /\ chip'.snapshot = chip.snapshot
                 /\ chip.pc # "apply"
      BY <3>3 DEF M!Flags, IsOn, Fields
    <3> QED BY <1>1, <3>1, <3>2, <3>3 DEF M!Calibrate, M!CalibrationStarts, M!NotDoneYet,
              M!CalibrationEnds, M!RequestServed, M!CalibrationDone
  <2> QED
    BY <2>1, OtherFields
<1>2. CASE M!ProcessWidgets(deltas)
  <2>1. /\ IsOn(chip', Fields) /\ chip'.asked = chip.asked /\ chip'.context = chip.context
        /\ chip'.written = chip.written /\ chip'.marked = chip.marked
        /\ chip'.snapshot = chip.snapshot /\ chip.pc # "apply"
    BY <1>2 DEF M!ProcessWidgets, IsOn, Fields
  <2> QED
    BY <2>1, OtherFields
<1>3. CASE M!TakeChanges
  <2>1. /\ IsOn(chip', Fields) /\ chip'.asked = chip.asked /\ chip'.context = chip.context
        /\ chip'.written = chip.written /\ chip'.marked = {} /\ chip'.pc = "apply"
        /\ chip'.snapshot = [s \in chip.marked |-> chip.asked[s]]
        /\ DOMAIN chip.snapshot = {}
    BY <1>3 DEF M!TakeChanges, M!Consumed, IsOn, Fields
  <2> QED
    BY <2>1
<1>4. CASE M!ApplyChanges
  <2>1. /\ IsOn(chip', Fields) /\ chip'.asked = chip.asked
        /\ chip'.context = [s \in M!Setting |-> IF s \in DOMAIN chip.snapshot
                                                 THEN chip.snapshot[s] ELSE chip.context[s]]
        /\ chip'.written = chip.written /\ chip'.marked = chip.marked
        /\ chip'.snapshot = <<>>
    BY <1>4 DEF M!ApplyChanges, M!Applied, IsOn, Fields
  <2>2. DOMAIN chip'.snapshot = {}
    BY <2>1
  <2> QED
    BY <2>1, <2>2 DEF IsOn
<1>5. CASE M!Publish
  BY <1>5, PublishSettings DEF M!Publish
<1> QED
  BY <1>1, <1>2, <1>3, <1>4, <1>5 DEF M!MainLoop

ModuleSettings == SettingsInv(chip)

LEMMA SettingsStep == ModuleSettings /\ [M!Next]_(M!vars) => ModuleSettings'
<1> USE DEF ModuleSettings
<1> SUFFICES ASSUME SettingsInv(chip), [M!Next]_(M!vars) PROVE SettingsInv(chip')
  OBVIOUS
<1>1. CASE M!Module
  BY <1>1, LoopSettings DEF M!Module
<1>2. CASE M!Sample \/ M!Save \/ UNCHANGED M!vars
  BY <1>2 DEF M!Sample, M!Save, M!vars
<1>3. ASSUME NEW core \in M!Core, M!Adjust(core) \/ M!Refused(core) \/ M!Fetched(core)
      PROVE  SettingsInv(chip')
  BY <1>3 DEF M!Adjust, M!Refused, M!Fetched
<1>4. ASSUME NEW core \in M!Core, M!Selected(core) PROVE SettingsInv(chip')
  <2>1. chip' = [chip EXCEPT !.register = M!Head0(core).reg]
    BY <1>4 DEF M!Selected, M!RegisterSelect
  <2>2. /\ IsOn(chip', Fields) /\ chip'.asked = chip.asked /\ chip'.context = chip.context
        /\ chip'.written = chip.written /\ chip'.marked = chip.marked
        /\ chip'.snapshot = chip.snapshot /\ chip'.pc = chip.pc
    BY <2>1 DEF IsOn, Fields, SettingsInv
  <2> QED
    BY <2>2, OtherFields
<1>5. ASSUME NEW core \in M!Core, M!PutDone(core) PROVE SettingsInv(chip')
  <2>1. PICK address, value : chip' = M!RegisterWrite(chip, address, value)
    BY <1>5 DEF M!PutDone
  <2> QED
    BY <2>1, WriteSettings
<1>6. CASE M!Tool
  <2>1. PICK address, value : chip' = M!RegisterWrite(chip, address, value)
    BY <1>6 DEF M!Tool
  <2> QED
    BY <2>1, WriteSettings
<1>7. CASE M!PowerCycle
  BY <1>7, PowerOnSettings DEF M!PowerCycle
<1> QED
  BY <1>1, <1>2, <1>3, <1>4, <1>5, <1>6, <1>7 DEF M!Next, M!Driver

(* capsense_consume_updates_snapshot and capsense_apply_threshold_changes,   *)
(* for any number of widgets and any values: no write of the interrupt falls *)
(* between the snapshot and its use.                                         *)
THEOREM SettingsReachLibrary == Board => []SettingsApplied
<1>1. M!Init => ModuleSettings
  BY PowerOnSettings DEF M!Init, ModuleSettings
<1>2. ModuleSettings => SettingsApplied
  BY DEF ModuleSettings, SettingsInv, SettingsApplied, M!SettingsApplied
<1> QED
  BY <1>1, <1>2, SettingsStep, StepOfParts, PTL DEF Board, Begin

-----------------------------------------------------------------------------
(* The fast trigger: what it keeps of a widget is what the touch was like.   *)

\* h is the record of a widget whose touch had the peak p and the deepest fall f so far.
Follows(h, p, f) ==
  /\ h \in [need_reset : BOOLEAN, z_h : Nat, z_l : Nat, hAt : 0..2, lAt : 0..2]
  /\ p \in Nat /\ f \in Nat
  /\ ~ h.need_reset =>
       /\ h.z_h <= p
       /\ h.hAt # 0 /\ h.lAt # 0 => h.z_l <= h.z_h
       /\ h.hAt # 0 /\ h.hAt < h.lAt => h.z_h - h.z_l <= f

FallInv(c) ==
  /\ c.permille \in Nat /\ c.touched \subseteq M!Widget
  /\ c.delta \in [M!Widget -> Nat]
  /\ c.channel = [w \in M!Widget |-> c.channel[w]]
  /\ c.peak = [w \in M!Widget |-> c.peak[w]] /\ c.fall = [w \in M!Widget |-> c.fall[w]]
  /\ \A w \in M!Widget : Follows(c.channel[w], c.peak[w], c.fall[w])

LEMMA LargerOfTwo ==
  ASSUME NEW a \in Int, NEW b \in Int
  PROVE  M!Max({a, b}) = IF a >= b THEN a ELSE b
<1> DEFINE m == IF a >= b THEN a ELSE b
<1>1. m \in {a, b} /\ \A x \in {a, b} : m >= x
  OBVIOUS
<1>2. \A y \in {a, b} : (\A x \in {a, b} : y >= x) => y = m
  OBVIOUS
<1>3. M!Max({a, b}) = CHOOSE y \in {a, b} : \A x \in {a, b} : y >= x
  BY DEF M!Max
<1> HIDE DEF m
<1>4. M!Max({a, b}) = m
  BY <1>1, <1>2, <1>3
<1> QED BY <1>4 DEF m

(* One more count: the record follows the touch, and shows no larger fall    *)
(* than the touch has had.                                                   *)
LEMMA CountFollows ==
  ASSUME NEW h, NEW p, NEW f, Follows(h, p, f), NEW d \in Nat
  PROVE  LET q == M!Max({p, d})
             g == M!Max({f, q - d})
             t == M!Tracked(h, d)
         IN  Follows(t, q, g) /\ ~ t.need_reset /\ M!Trend(t) \in Int /\ M!Trend(t) <= g
<1> DEFINE q == M!Max({p, d})
           g == M!Max({f, q - d})
           t == M!Tracked(h, d)
           R == [need_reset : BOOLEAN, z_h : Nat, z_l : Nat, hAt : 0..2, lAt : 0..2]
<1>1. /\ p \in Nat /\ f \in Nat
      /\ h.need_reset \in BOOLEAN /\ h.z_h \in Nat /\ h.z_l \in Nat /\ h.hAt \in 0..2 /\ h.lAt \in 0..2
  BY DEF Follows
<1>2. q \in Nat /\ q >= p /\ q >= d
  BY <1>1, LargerOfTwo
<1> HIDE DEF q
<1>3. g \in Nat /\ g >= f /\ g >= q - d
  <2>1. q - d \in Int /\ q - d >= 0
    BY <1>2
  <2> QED BY <1>1, <2>1, LargerOfTwo
<1> HIDE DEF g
<1>4. /\ t \in R /\ ~ t.need_reset
      /\ t.z_h <= q
      /\ t.hAt # 0 /\ t.lAt # 0 => t.z_l <= t.z_h
      /\ t.hAt # 0 /\ t.hAt < t.lAt => t.z_h - t.z_l <= g
  <2>1. CASE h.need_reset
    <3>1. t = [need_reset |-> FALSE, z_h |-> d, z_l |-> d, hAt |-> 2, lAt |-> 2]
      BY <2>1 DEF M!Tracked, M!FirstCount
    <3> HIDE DEF t
    <3> QED BY <1>2, <3>1
  <2>2. CASE ~ h.need_reset
    <3> DEFINE up == d > h.z_h
               down == d < h.z_l
    <3>1. /\ h.z_h <= p
          /\ h.hAt # 0 /\ h.lAt # 0 => h.z_l <= h.z_h
          /\ h.hAt # 0 /\ h.hAt < h.lAt => h.z_h - h.z_l <= f
      BY <2>2 DEF Follows
    <3>2. t = [need_reset |-> FALSE,
               z_h |-> IF up THEN d ELSE h.z_h,
               z_l |-> IF down THEN d ELSE h.z_l,
               hAt |-> IF up THEN 2 ELSE IF down THEN M!Older(h.hAt) ELSE h.hAt,
               lAt |-> IF down THEN 2 ELSE IF up THEN M!Older(h.lAt) ELSE h.lAt]
      BY <2>2 DEF M!Tracked, M!NextCount
    <3> HIDE DEF t
    <3>3. /\ t.need_reset = FALSE
          /\ t.z_h = IF up THEN d ELSE h.z_h
          /\ t.z_l = IF down THEN d ELSE h.z_l
          /\ t.hAt = IF up THEN 2 ELSE IF down THEN M!Older(h.hAt) ELSE h.hAt
          /\ t.lAt = IF down THEN 2 ELSE IF up THEN M!Older(h.lAt) ELSE h.lAt
      BY <3>2
    <3>4. t.hAt \in 0..2 /\ t.lAt \in 0..2 /\ t.z_h \in Nat /\ t.z_l \in Nat
      BY <1>1, <3>3 DEF M!Older
    <3>5. t \in R
      BY <3>2, <3>3, <3>4
    <3>6. t.z_h <= q
      BY <1>1, <1>2, <3>1, <3>3
    <3>7. t.hAt # 0 /\ t.lAt # 0 => t.z_l <= t.z_h
      BY <1>1, <3>1, <3>3 DEF M!Older
    <3>8. t.hAt # 0 /\ t.hAt < t.lAt => t.z_h - t.z_l <= g
      BY <1>1, <1>2, <1>3, <3>1, <3>3 DEF M!Older
    <3> QED BY <3>3, <3>5, <3>6, <3>7, <3>8
  <2> QED BY <1>1, <2>1, <2>2
<1> HIDE DEF t
<1>5. /\ t.z_h \in Nat /\ t.z_l \in Nat /\ t.hAt \in 0..2 /\ t.lAt \in 0..2
  BY <1>4
<1>6. M!Trend(t) \in Int /\ M!Trend(t) <= g
  <2>1. M!Trend(t) = IF t.hAt # 0 \/ t.lAt # 0
                     THEN (IF t.hAt # 0 /\ (~ (t.lAt # 0) \/ t.hAt <= t.lAt) THEN t.z_h ELSE t.z_l)
                          - (IF t.hAt # 0 /\ t.hAt >= t.lAt THEN t.z_h ELSE t.z_l)
                     ELSE 0
    BY DEF M!Trend
  <2> QED BY <1>3, <1>4, <1>5, <2>1
<1> QED BY <1>2, <1>3, <1>4, <1>6 DEF Follows, q, g, t

(* After a trigger the search begins anew, and still follows the touch.      *)
LEMMA TriggeredFollows ==
  ASSUME NEW h, NEW p, NEW f, Follows(h, p, f), NEW x
  PROVE  Follows(M!Triggered(h, x), p, f)
<1> DEFINE R == [need_reset : BOOLEAN, z_h : Nat, z_l : Nat, hAt : 0..2, lAt : 0..2]
           t == M!Triggered(h, x)
<1>1. \/ t = [h EXCEPT !.z_h = 0, !.hAt = 0]
      \/ t = [h EXCEPT !.z_l = 16383, !.lAt = 0]
      \/ t = h
  BY DEF M!Triggered, M!InvalidLow
<1> HIDE DEF t
<1>2. h \in R /\ p \in Nat
  BY DEF Follows
<1>3. CASE t = [h EXCEPT !.z_h = 0, !.hAt = 0]
  <2> DEFINE Counts == Nat
             Ages == 0..2
             Bits == BOOLEAN
  <2>1. 0 \in Counts /\ 0 \in Ages
    OBVIOUS
  <2>2. h \in [need_reset : Bits, z_h : Counts, z_l : Counts, hAt : Ages, lAt : Ages]
    BY <1>2
  <2> HIDE DEF Counts, Ages, Bits
  <2>3. t \in [need_reset : Bits, z_h : Counts, z_l : Counts, hAt : Ages, lAt : Ages] /\ t.z_h = 0 /\ t.hAt = 0
    BY <1>3, <2>1, <2>2
  <2>4. t \in R
    BY <2>3 DEF Counts, Ages, Bits
  <2> QED BY <1>2, <2>3, <2>4 DEF Follows, t
<1>4. CASE t = [h EXCEPT !.z_l = 16383, !.lAt = 0]
  <2> DEFINE Counts == Nat
             Ages == 0..2
             Bits == BOOLEAN
  <2>1. 16383 \in Counts /\ 0 \in Ages
    OBVIOUS
  <2>2. h \in [need_reset : Bits, z_h : Counts, z_l : Counts, hAt : Ages, lAt : Ages]
    BY <1>2
  <2> HIDE DEF Counts, Ages, Bits
  <2>3. /\ t \in [need_reset : Bits, z_h : Counts, z_l : Counts, hAt : Ages, lAt : Ages]
        /\ t.lAt = 0 /\ t.z_h = h.z_h /\ t.hAt = h.hAt /\ t.need_reset = h.need_reset
    <3>1. t \in [need_reset : Bits, z_h : Counts, z_l : Counts, hAt : Ages, lAt : Ages]
      <4> DEFINE g == [h EXCEPT !.z_l = 16383]
      <4>1. g \in [need_reset : Bits, z_h : Counts, z_l : Counts, hAt : Ages, lAt : Ages]
        BY <2>1, <2>2
      <4>2. t = [g EXCEPT !.lAt = 0]
        BY <1>4
      <4> HIDE DEF g
      <4> QED BY <2>1, <4>1, <4>2
    <3>2. t.lAt = 0 /\ t.z_h = h.z_h /\ t.hAt = h.hAt /\ t.need_reset = h.need_reset
      BY <1>4, <2>2
    <3> QED BY <3>1, <3>2
  <2>4. t \in R /\ h.hAt \in 0..2
    BY <2>2, <2>3 DEF Counts, Ages, Bits
  <2> QED BY <1>2, <2>3, <2>4 DEF Follows, t
<1> QED BY <1>1, <1>3, <1>4 DEF t

(* What the fast trigger works on.                                           *)
LEMMA SameCounts ==
  ASSUME NEW c, NEW d, FallInv(c), d.permille = c.permille, d.touched = c.touched,
         d.delta = c.delta, d.channel = c.channel, d.peak = c.peak, d.fall = c.fall
  PROVE  FallInv(d)
BY DEF FallInv

LEMMA ModuleConstants ==
  /\ Widgets \in 1..12 /\ PermilleDefault \in Nat /\ Baseline \in Nat
  /\ PermilleAsked \subseteq Nat /\ Delta \subseteq Nat /\ Steady \in Nat
<1>0. M!DriverConstants
  BY ConstantsAssumption
<1>1. M!FirmwareConstants
  BY <1>0 DEF M!DriverConstants
<1>2. /\ Widgets \in 1..12 /\ PermilleDefault \in M!Uint16 /\ Baseline \in M!Uint16
  BY <1>1 DEF M!FirmwareConstants
<1>3. PermilleAsked \subseteq M!Uint16 /\ Delta \subseteq 1..16382 /\ Steady \in 1..16382
  <2>1. PermilleAsked \subseteq M!Uint16
    BY <1>0 DEF M!DriverConstants
  <2>2. Delta \subseteq 1..16382
    BY <1>0 DEF M!DriverConstants
  <2>3. Steady \in 1..16382
    BY <1>0 DEF M!DriverConstants
  <2> QED
    BY <2>1, <2>2, <2>3
<1>4. \A n \in M!Uint16 : n \in Nat
  BY DEF M!Uint16
<1>6. PermilleDefault \in Nat /\ Baseline \in Nat
  BY <1>2, <1>4
<1>7. PermilleAsked \subseteq Nat
  BY <1>3, <1>4
<1>8. Delta \subseteq Nat
  <2> DEFINE Possible == 1..16382
  <2>1. Delta \subseteq Possible /\ \A d \in Possible : d \in Nat
    BY <1>3
  <2> HIDE DEF Possible
  <2> QED BY <2>1
<1>9. Steady \in Nat
  <2> DEFINE Possible == 1..16382
  <2>1. Steady \in Possible /\ \A d \in Possible : d \in Nat
    BY <1>3
  <2> HIDE DEF Possible
  <2> QED BY <2>1
<1> QED BY <1>2, <1>6, <1>7, <1>8, <1>9

LEMMA PowerOnCounts == FallInv(M!PowerOn)
<1> DEFINE c == M!PowerOn
<1>1. /\ c.permille = PermilleDefault /\ c.touched = {}
      /\ c.delta = [w \in M!Widget |-> 0] /\ c.channel = [w \in M!Widget |-> M!Untriggered]
      /\ c.peak = [w \in M!Widget |-> 0] /\ c.fall = [w \in M!Widget |-> 0]
  BY DEF M!PowerOn
<1>2. Follows(M!Untriggered, 0, 0)
  BY DEF Follows, M!Untriggered, M!InvalidLow
<1> HIDE DEF c
<1>3. PermilleDefault \in Nat
  BY ModuleConstants
<1>4. c.delta \in [M!Widget -> Nat]
  BY <1>1
<1>5. FallInv(c)
  BY <1>1, <1>2, <1>3, <1>4 DEF FallInv
<1> QED BY <1>5 DEF c

(* A register that is not the permille leaves the fast trigger alone.        *)
LEMMA WriteCounts ==
  ASSUME NEW c, NEW address, NEW value, SettingsInv(c), FallInv(c),
         address # M!PermilleReg \/ value \in Nat
  PROVE  FallInv(M!RegisterWrite(c, address, value))
<1> DEFINE Meant(s) == address = (IF s[1] = "cap" THEN M!CapReg(s[2]) ELSE M!ThresholdReg(s[2]))
           w == M!Written(c, address, value)
           d == [w EXCEPT !.register = address]
           Same(e) == /\ e.touched = c.touched /\ e.delta = c.delta /\ e.channel = c.channel
                      /\ e.peak = c.peak /\ e.fall = c.fall
<1>1. CASE address = M!ControlReg /\ "reset_req" \in value
  BY <1>1, PowerOnCounts DEF M!RegisterWrite
<1>2. CASE ~ (address = M!ControlReg /\ "reset_req" \in value)
  <2>1. M!RegisterWrite(c, address, value) = d
    BY <1>2 DEF M!RegisterWrite
  <2>2. /\ M!ControlReg # M!PermilleReg
        /\ (\E s \in M!Setting : Meant(s)) => address \notin {M!ControlReg, M!PermilleReg}
    <3>1. ASSUME NEW s \in M!Setting, Meant(s) PROVE address \in 3..67
      <4>1. s[2] \in 0..11
        BY ModuleConstants DEF M!Setting, M!Widget
      <4> QED BY <3>1, <4>1, ModuleConstants DEF M!CapReg, M!ThresholdReg
    <3> HIDE DEF Meant
    <3> QED BY <3>1 DEF M!ControlReg, M!PermilleReg
  <2>3. /\ IsOn(w, Fields) /\ Same(w)
        /\ \/ w.permille = c.permille
           \/ address = M!PermilleReg /\ w.permille = value
    <3>1. CASE address = M!ControlReg
      <4>1. w = M!ControlWritten(c, value)
        BY <2>2, <3>1 DEF M!Written
      <4> HIDE DEF w
      <4> QED BY <4>1 DEF M!ControlWritten, IsOn, Fields, SettingsInv
    <3>2. CASE address # M!ControlReg /\ address = M!PermilleReg
      <4>1. w = [c EXCEPT !.permille = value]
        BY <2>2, <3>2 DEF M!Written
      <4> HIDE DEF w
      <4> QED BY <3>2, <4>1 DEF IsOn, Fields, SettingsInv
    <3>3. CASE address # M!ControlReg /\ address # M!PermilleReg
      <4> DEFINE chosen == CHOOSE s \in M!Setting : Meant(s)
      <4>1. w = M!SettingAsked(c, chosen, value) \/ w = c
        BY <3>3 DEF M!Written
      <4> HIDE DEF w, chosen
      <4>2. CASE w = c
        BY <4>2 DEF SettingsInv
      <4>3. CASE w = M!SettingAsked(c, chosen, value)
        BY <4>3 DEF M!SettingAsked, IsOn, Fields, SettingsInv
      <4> QED BY <4>1, <4>2, <4>3
    <3> QED BY <3>1, <3>2, <3>3
  <2> HIDE DEF w
  <2>4. Same(d) /\ d.permille = w.permille
    BY <2>3 DEF IsOn, Fields
  <2> HIDE DEF d
  <2>5. FallInv(d)
    BY <2>3, <2>4 DEF FallInv
  <2> QED BY <2>1, <2>5
<1> QED BY <1>1, <1>2

(* A pass of the loop: every widget's record follows its touch, and one that *)
(* is let go of has fallen far enough.                                       *)
LEMMA PublishCounts ==
  ASSUME SettingsInv(chip), FallInv(chip), M!Publish
  PROVE  FallInv(chip') /\ \A w \in chip.touched \ chip'.status : chip'.fall[w] > M!XDelta
<1> DEFINE x == M!XDelta
           peak == [w \in M!Widget |-> IF w \in chip.touched
                                       THEN M!Max({chip.peak[w], chip.delta[w]}) ELSE 0]
           fall == [w \in M!Widget |-> IF w \in chip.touched
                                       THEN M!Max({chip.fall[w], peak[w] - chip.delta[w]}) ELSE 0]
           tracked == [w \in chip.touched |-> M!Tracked(chip.channel[w], chip.delta[w])]
           channel == [w \in M!Widget |->
                         IF w \in chip.touched THEN M!Triggered(tracked[w], x)
                         ELSE [chip.channel[w] EXCEPT !.need_reset = TRUE]]
           r == M!Remembered(chip)
           t == M!FastTrigger(r, x)
           s == M!Shown(t)
<1>1. x \in Nat
  <2>1. Baseline * chip.permille \in Nat
    BY ModuleConstants DEF FallInv
  <2> QED BY <2>1 DEF M!XDelta
<1>2. chip' = [s EXCEPT !.pc = "scan"]
  BY DEF M!Publish
<1> HIDE DEF x
<1>3. /\ IsOn(r, Fields) /\ r.peak = peak /\ r.fall = fall
      /\ r.permille = chip.permille /\ r.touched = chip.touched /\ r.delta = chip.delta
      /\ r.channel = chip.channel
  BY DEF M!Remembered, IsOn, Fields, SettingsInv
<1> HIDE DEF r, peak, fall
<1>4. /\ IsOn(t, Fields) /\ t.peak = peak /\ t.fall = fall
      /\ t.permille = chip.permille /\ t.touched = chip.touched
      /\ t.delta = [w \in M!Widget |-> 0] /\ t.channel = channel
      /\ t.status = chip.touched \ {w \in chip.touched : M!Trend(tracked[w]) > x}
  BY <1>3 DEF M!FastTrigger, IsOn, Fields
<1> HIDE DEF t, channel, tracked
<1>5. /\ chip'.peak = peak /\ chip'.fall = fall
      /\ chip'.permille = chip.permille /\ chip'.touched = chip.touched
      /\ chip'.delta = [w \in M!Widget |-> 0] /\ chip'.channel = channel
      /\ chip'.status = chip.touched \ {w \in chip.touched : M!Trend(tracked[w]) > x}
  <2>1. /\ IsOn(s, Fields) /\ s.peak = t.peak /\ s.fall = t.fall
        /\ s.permille = t.permille /\ s.touched = t.touched
        /\ s.delta = t.delta /\ s.channel = t.channel /\ s.status = t.status
    BY <1>4 DEF M!Shown, IsOn, Fields
  <2> HIDE DEF s
  <2> QED BY <1>2, <1>4, <2>1 DEF IsOn, Fields
<1>6. ASSUME NEW w \in chip.touched
      PROVE  /\ w \in M!Widget /\ Follows(channel[w], peak[w], fall[w])
             /\ M!Trend(tracked[w]) \in Int /\ M!Trend(tracked[w]) <= fall[w] /\ fall[w] \in Nat
  <2>1. w \in M!Widget /\ chip.delta[w] \in Nat /\ Follows(chip.channel[w], chip.peak[w], chip.fall[w])
    BY DEF FallInv
  <2>2. /\ peak[w] = M!Max({chip.peak[w], chip.delta[w]})
        /\ fall[w] = M!Max({chip.fall[w], peak[w] - chip.delta[w]})
        /\ tracked[w] = M!Tracked(chip.channel[w], chip.delta[w])
        /\ channel[w] = M!Triggered(tracked[w], x)
    BY <2>1 DEF peak, fall, tracked, channel
  <2>3. /\ Follows(tracked[w], peak[w], fall[w])
        /\ M!Trend(tracked[w]) \in Int /\ M!Trend(tracked[w]) <= fall[w]
    <3> DEFINE h == chip.channel[w]
               p == chip.peak[w]
               f == chip.fall[w]
               d == chip.delta[w]
    <3>1. /\ Follows(h, p, f) /\ d \in Nat /\ peak[w] = M!Max({p, d})
          /\ fall[w] = M!Max({f, M!Max({p, d}) - d}) /\ tracked[w] = M!Tracked(h, d)
      BY <2>1, <2>2
    <3> DEFINE q == M!Max({p, d})
               g == M!Max({f, q - d})
               after == M!Tracked(h, d)
    <3> HIDE DEF h, p, f, d
    <3>2. Follows(after, q, g) /\ M!Trend(after) \in Int /\ M!Trend(after) <= g
      BY <3>1, CountFollows
    <3>3. fall[w] = g /\ tracked[w] = after /\ peak[w] = q
      BY <3>1
    <3> HIDE DEF q, g, after
    <3> QED BY <3>2, <3>3
  <2>4. Follows(channel[w], peak[w], fall[w])
    BY <2>2, <2>3, TriggeredFollows
  <2> QED BY <2>1, <2>3, <2>4 DEF Follows
<1>7. ASSUME NEW w \in M!Widget, w \notin chip.touched
      PROVE  Follows(channel[w], peak[w], fall[w])
  <2> DEFINE Counts == Nat
             Ages == 0..2
             h == chip.channel[w]
  <2>1. h \in [need_reset : BOOLEAN, z_h : Counts, z_l : Counts, hAt : Ages, lAt : Ages]
    BY DEF FallInv, Follows
  <2>2. peak[w] = 0 /\ fall[w] = 0 /\ channel[w] = [h EXCEPT !.need_reset = TRUE]
    BY <1>7 DEF peak, fall, channel
  <2> HIDE DEF Counts, Ages, h
  <2>3. /\ channel[w] \in [need_reset : BOOLEAN, z_h : Counts, z_l : Counts, hAt : Ages, lAt : Ages]
        /\ channel[w].need_reset
    BY <2>1, <2>2
  <2> QED BY <2>2, <2>3 DEF Follows, Counts, Ages
<1>8. FallInv(chip')
  <2>1. /\ peak = [w \in M!Widget |-> peak[w]] /\ fall = [w \in M!Widget |-> fall[w]]
        /\ channel = [w \in M!Widget |-> channel[w]]
    BY DEF peak, fall, channel
  <2>2. [w \in M!Widget |-> 0] \in [M!Widget -> Nat]
    OBVIOUS
  <2> QED BY <1>5, <1>6, <1>7, <2>1, <2>2 DEF FallInv
<1>9. ASSUME NEW w \in chip.touched \ chip'.status PROVE chip'.fall[w] > x
  <2>1. M!Trend(tracked[w]) > x
    BY <1>5
  <2> QED BY <1>1, <1>5, <1>6, <2>1
<1> QED BY <1>8, <1>9 DEF x

LEMMA LoopCounts ==
  ASSUME SettingsInv(chip), FallInv(chip), NEW deltas \in SUBSET Nat, M!MainLoop(deltas)
  PROVE  FallInv(chip')
<1>1. CASE M!ScanEnds \/ M!TakeChanges \/ M!ApplyChanges \/ \E from, to, bits : M!Flags(from, to, bits)
  <2>1. /\ chip'.permille = chip.permille /\ chip'.touched = chip.touched
        /\ chip'.delta = chip.delta /\ chip'.channel = chip.channel
        /\ chip'.peak = chip.peak /\ chip'.fall = chip.fall
    BY <1>1 DEF M!ScanEnds, M!Flags, M!TakeChanges, M!ApplyChanges, M!Consumed,
       M!Applied, IsOn, Fields, SettingsInv
  <2> QED BY <2>1, SameCounts
<1>2. CASE M!Measured
  <2>1. /\ chip'.permille = chip.permille /\ chip'.touched = chip.touched
        /\ chip'.delta = chip.delta /\ chip'.peak = chip.peak /\ chip'.fall = chip.fall
        /\ chip'.channel = [w \in M!Widget |-> [chip.channel[w] EXCEPT !.need_reset = TRUE]]
    BY <1>2 DEF M!Measured, IsOn, Fields, SettingsInv
  <2>2. ASSUME NEW w \in M!Widget PROVE Follows(chip'.channel[w], chip.peak[w], chip.fall[w])
    <3> DEFINE Counts == Nat
               Ages == 0..2
               h == chip.channel[w]
               k == chip'.channel[w]
    <3>1. /\ h \in [need_reset : BOOLEAN, z_h : Counts, z_l : Counts, hAt : Ages, lAt : Ages]
          /\ chip.peak[w] \in Nat /\ chip.fall[w] \in Nat
      BY DEF FallInv, Follows
    <3>2. k = [h EXCEPT !.need_reset = TRUE]
      BY <2>1
    <3> HIDE DEF Counts, Ages, h, k
    <3>3. /\ k \in [need_reset : BOOLEAN, z_h : Counts, z_l : Counts, hAt : Ages, lAt : Ages]
          /\ k.need_reset
      BY <3>1, <3>2
    <3> QED BY <3>1, <3>3 DEF Follows, Counts, Ages, k
  <2>3. chip'.channel = [w \in M!Widget |-> chip'.channel[w]]
    BY <2>1
  <2> QED BY <2>1, <2>2, <2>3 DEF FallInv
<1>3. CASE M!ProcessWidgets(deltas)
  <2>a. PICK touched \in SUBSET M!Widget : \E counts \in [touched -> deltas] :
          chip' = [chip EXCEPT !.pc = "take", !.touched = touched,
                     !.delta = [w \in M!Widget |-> IF w \in touched THEN counts[w] ELSE 0]]
    BY <1>3 DEF M!ProcessWidgets
  <2>1. PICK counts \in [touched -> deltas] :
          chip' = [chip EXCEPT !.pc = "take", !.touched = touched,
                     !.delta = [w \in M!Widget |-> IF w \in touched THEN counts[w] ELSE 0]]
    BY <2>a
  <2>2. /\ chip'.permille = chip.permille /\ chip'.touched = touched
        /\ chip'.channel = chip.channel /\ chip'.peak = chip.peak /\ chip'.fall = chip.fall
        /\ chip'.delta = [w \in M!Widget |-> IF w \in touched THEN counts[w] ELSE 0]
    BY <2>1 DEF IsOn, Fields, SettingsInv
  <2>3. chip'.delta \in [M!Widget -> Nat]
    <3>1. \A w \in touched : counts[w] \in Nat
      OBVIOUS
    <3>2. \A w \in M!Widget : (IF w \in touched THEN counts[w] ELSE 0) \in Nat
      BY <3>1
    <3> QED BY <2>2, <3>2
  <2> QED BY <2>2, <2>3 DEF FallInv
<1>4. CASE M!Publish
  BY <1>4, PublishCounts
<1> QED BY <1>1, <1>2, <1>3, <1>4 DEF M!MainLoop, M!Calibrate,
          M!CalibrationStarts, M!NotDoneYet, M!CalibrationEnds, M!RequestServed, M!CalibrationDone

(* The transactions that the driver has left to do write no permille.        *)

Harmless(s) ==
  \E T : s \in Seq(T) /\ \A t \in T : t.op = "put" => t.reg # M!PermilleReg

TodoInv(calls) == calls = [core \in M!Core |-> calls[core]] /\ \A core \in M!Core : Harmless(calls[core])

LEMMA HarmlessOf ==
  ASSUME NEW T, NEW s \in Seq(T), \A t \in T : t.op = "put" => t.reg # M!PermilleReg
  PROVE  Harmless(s)
BY DEF Harmless

LEMMA HarmlessTail ==
  ASSUME NEW s, Harmless(s), s # <<>>
  PROVE  Harmless(Tail(s)) /\ (Head(s).op = "put" => Head(s).reg # M!PermilleReg)
<1>1. PICK T : s \in Seq(T) /\ \A t \in T : t.op = "put" => t.reg # M!PermilleReg
  BY DEF Harmless
<1>2. Tail(s) \in Seq(T) /\ Head(s) \in T
  BY <1>1
<1> QED BY <1>1, <1>2 DEF Harmless

LEMMA HarmlessAppend ==
  ASSUME NEW s, Harmless(s), NEW t, t.op = "put" => t.reg # M!PermilleReg
  PROVE  Harmless(Append(s, t))
<1>1. PICK T : s \in Seq(T) /\ \A x \in T : x.op = "put" => x.reg # M!PermilleReg
  BY DEF Harmless
<1>2. s \in Seq(T \cup {t})
  <2>1. Seq(T) \subseteq Seq(T \cup {t})
    BY SMT
  <2> QED BY <1>1, <2>1
<1>3. Append(s, t) \in Seq(T \cup {t})
  BY <1>2
<1>4. \A x \in T \cup {t} : x.op = "put" => x.reg # M!PermilleReg
  BY <1>1
<1> QED BY <1>3, <1>4 DEF Harmless

LEMMA NoTransactions == Harmless(<<>>)
<1> DEFINE T == {}
<1>1. <<>> \in Seq(T)
  OBVIOUS
<1>2. \A t \in T : t.op = "put" => t.reg # M!PermilleReg
  OBVIOUS
<1> HIDE DEF T
<1> QED BY <1>1, <1>2, HarmlessOf

(* The calls of init, sample and setChannelSensitivity.                      *)
LEMMA ShortCalls ==
  /\ Harmless(M!InitCall) /\ Harmless(M!SampleCall)
  /\ \A w \in M!Widget : \A sensitivity : Harmless(M!AdjustCall(w, sensitivity))
<1>1. Harmless(M!InitCall)
  <2> DEFINE a == M!Put(M!ControlReg, {"reset_req"}, TRUE)
             b == M!Select(M!ScanRateReg)
             c == M!Fetch("rate", 0)
             d == M!Put(M!ControlReg, {"led_feedback_en"}, TRUE)
  <2>1. M!InitCall \in Seq({a, b, c, d})
    BY DEF M!InitCall
  <2>2. a.reg # M!PermilleReg /\ b.op # "put" /\ c.op # "put" /\ d.reg # M!PermilleReg
    BY DEF M!Put, M!Select, M!Fetch, M!ControlReg, M!PermilleReg
  <2> HIDE DEF a, b, c, d
  <2>3. \A t \in {a, b, c, d} : t.op = "put" => t.reg # M!PermilleReg
    BY <2>2
  <2> QED BY <2>1, <2>3 DEF Harmless
<1>2. Harmless(M!SampleCall)
  <2>1. M!SampleCall \in Seq({M!Select(M!StatusReg), M!Fetch("sample", 0)})
    BY DEF M!SampleCall
  <2> QED BY <2>1 DEF Harmless, M!Select, M!Fetch
<1>3. ASSUME NEW w \in M!Widget, NEW sensitivity PROVE Harmless(M!AdjustCall(w, sensitivity))
  <2> DEFINE a == M!Put(M!ControlReg, controlCache \ {"absolute_mode"}, FALSE)
             b == M!Put(M!ThresholdOf(w), M!Raw(sensitivity), TRUE)
             c == M!Select(M!TotalOf(w))
             d == M!Fetch("total", w)
  <2>1. M!AdjustCall(w, sensitivity) \in Seq({a, b, c, d})
    BY DEF M!AdjustCall
  <2>2. w \in 0..11
    BY ModuleConstants DEF M!Widget
  <2>3. /\ a.reg # M!PermilleReg /\ b.reg # M!PermilleReg
        /\ c.op # "put" /\ d.op # "put"
    BY <2>2 DEF M!Put, M!Select, M!Fetch, M!ControlReg, M!PermilleReg, M!ThresholdOf
  <2> HIDE DEF a, b, c, d
  <2>4. \A t \in {a, b, c, d} : t.op = "put" => t.reg # M!PermilleReg
    BY <2>3
  <2> QED BY <2>1, <2>4 DEF Harmless
<1> QED BY <1>1, <1>2, <1>3

(* Induction, from the library's least elements of a well-founded order.     *)
LEMMA Least ==
  ASSUME NEW T, T \subseteq Nat, T # {}
  PROVE  \E x \in T : \A y \in T : x <= y
<1> DEFINE R == {ss \in Nat \X Nat : ss[1] < ss[2]}
<1>1. IsWellFoundedOn(R, Nat)
  BY NatLessThanWellFounded, Zenon DEF OpToRel
<1> HIDE DEF R
<1>2. \E x \in T : \A y \in T : ~ (<<y, x>> \in R)
  BY <1>1, WFMin
<1>3. \A x, y \in Nat : x < y => <<x, y>> \in R
  BY DEF R
<1>4. PICK x \in T : \A y \in T : ~ (<<y, x>> \in R)
  BY <1>2
<1>5. ASSUME NEW y \in T PROVE x <= y
  <2>1. y < x => <<y, x>> \in R
    BY <1>3
  <2>2. ~ (y < x)
    BY <1>4, <2>1
  <2> QED BY <2>2
<1> QED BY <1>5

LEMMA Induct ==
  ASSUME NEW T, 0 \in T, \A n \in Nat : n \in T => n + 1 \in T
  PROVE  Nat \subseteq T
<1> SUFFICES ASSUME Nat \ T # {} PROVE FALSE
  OBVIOUS
<1>1. PICK x \in Nat \ T : \A y \in Nat \ T : x <= y
  BY Least
<1>2. x - 1 \in Nat /\ x - 1 \in T
  BY <1>1
<1> QED BY <1>1, <1>2

(* The writes of loadConfig, up to the channel n.                            *)
WritesUpTo(f, n, cache, steps) ==
  f = [i \in 0..n |->
         IF i = 0 THEN <<M!Put(M!ControlReg, cache \union {"absolute_mode"}, FALSE)>>
         ELSE IF steps[i - 1] > 0
         THEN Append(f[i - 1], M!Put(M!ThresholdOf(i - 1), M!Min({steps[i - 1], 2200}), FALSE))
         ELSE f[i - 1]]

LEMMA LoadWrites ==
  ASSUME NEW cache, NEW steps
  PROVE  Harmless(M!LoadCall(cache, steps))
<1> DEFINE f0 == CHOOSE f : WritesUpTo(f, Widgets, cache, steps)
           First == <<M!Put(M!ControlReg, cache \union {"absolute_mode"}, FALSE)>>
           New(i) == M!Put(M!ThresholdOf(i - 1), M!Min({steps[i - 1], 2200}), FALSE)
           Entry(h, i) == IF i = 0 THEN First
                          ELSE IF steps[i - 1] > 0 THEN Append(h[i - 1], New(i)) ELSE h[i - 1]
<1>0. Widgets \in 1..12
  BY ModuleConstants
<1>1. M!LoadCall(cache, steps) = f0[Widgets]
  BY Zenon DEF M!LoadCall, WritesUpTo
<1>2. \E f : WritesUpTo(f, Widgets, cache, steps)
  <2> DEFINE T == {n \in Nat : \E f : WritesUpTo(f, n, cache, steps)}
  <2>1. 0 \in T
    <3> DEFINE g == [i \in 0..0 |-> First]
    <3>1. WritesUpTo(g, 0, cache, steps)
      BY DEF WritesUpTo
    <3> QED BY <3>1
  <2>2. ASSUME NEW n \in Nat, n \in T PROVE n + 1 \in T
    <3>1. PICK f : WritesUpTo(f, n, cache, steps)
      BY <2>2
    <3> DEFINE g == [i \in 0..(n + 1) |->
                       IF i = n + 1 THEN IF steps[n] > 0 THEN Append(f[n], New(n + 1)) ELSE f[n]
                       ELSE f[i]]
    <3>2. f = [i \in 0..n |-> Entry(f, i)]
      BY <3>1, Zenon DEF WritesUpTo
    <3> HIDE DEF First, New
    <3>3. ASSUME NEW i \in 0..(n + 1) PROVE g[i] = Entry(g, i)
      <4>1. CASE i = n + 1
        <5>1. g[n] = f[n] /\ i - 1 = n /\ i # 0
          BY <4>1
        <5> QED BY <4>1, <5>1
      <4>2. CASE i \in 1..n
        <5>1. g[i] = f[i] /\ g[i - 1] = f[i - 1] /\ i # 0
          BY <4>2
        <5>2. f[i] = Entry(f, i)
          <6> i \in 0..n
            BY <4>2
          <6> HIDE DEF g, Entry
          <6> QED BY <3>2
        <5> QED BY <5>1, <5>2
      <4>3. CASE i = 0
        BY <4>3, <3>2
      <4> QED BY <4>1, <4>2, <4>3
    <3>4. g = [i \in 0..(n + 1) |-> Entry(g, i)]
      <4>1. DOMAIN g = 0..(n + 1) /\ g = [i \in 0..(n + 1) |-> g[i]]
        OBVIOUS
      <4> HIDE DEF g, Entry
      <4> QED BY <3>3, <4>1
    <3>5. WritesUpTo(g, n + 1, cache, steps)
      BY <3>4, Zenon DEF WritesUpTo, First, New
    <3> QED BY <3>5
  <2> HIDE DEF T
  <2>3. Widgets \in T
    BY <1>0, <2>1, <2>2, Induct
  <2> QED BY <2>3 DEF T
<1>3. WritesUpTo(f0, Widgets, cache, steps)
  BY <1>2, Zenon
<1> HIDE DEF f0
<1>4. f0 = [i \in 0..Widgets |-> Entry(f0, i)]
  BY <1>3, Zenon DEF WritesUpTo
<1>5. Harmless(First)
  <2> DEFINE a == M!Put(M!ControlReg, cache \union {"absolute_mode"}, FALSE)
  <2>1. a.reg # M!PermilleReg
    BY DEF M!Put, M!ControlReg, M!PermilleReg
  <2> HIDE DEF a
  <2> DEFINE T == {a}
  <2>2. <<a>> \in Seq(T)
    OBVIOUS
  <2>4. \A t \in T : t.op = "put" => t.reg # M!PermilleReg
    BY <2>1
  <2> HIDE DEF T
  <2>3. Harmless(<<a>>)
    BY <2>2, <2>4, HarmlessOf
  <2> QED BY <2>3 DEF a
<1>6. ASSUME NEW i \in 1..12 PROVE New(i).op = "put" => New(i).reg # M!PermilleReg
  BY DEF M!Put, M!ThresholdOf, M!PermilleReg
<1> HIDE DEF First, New
<1> DEFINE H == {n \in Nat : n <= Widgets => Harmless(f0[n])}
<1>7. 0 \in H
  BY <1>0, <1>4, <1>5
<1>8. ASSUME NEW n \in Nat, n \in H PROVE n + 1 \in H
  <2> SUFFICES ASSUME n + 1 <= Widgets PROVE Harmless(f0[n + 1])
    OBVIOUS
  <2>1. n + 1 \in 0..Widgets /\ n + 1 \in 1..12 /\ n <= Widgets /\ n + 1 # 0 /\ (n + 1) - 1 = n
    BY <1>0
  <2>2. f0[n + 1] = Append(f0[n], New(n + 1)) \/ f0[n + 1] = f0[n]
    <3>1. f0[n + 1] = Entry(f0, n + 1)
      <4> HIDE DEF Entry
      <4> QED BY <1>4, <2>1
    <3> QED BY <2>1, <3>1
  <2>3. Harmless(f0[n])
    BY <1>8, <2>1
  <2> QED BY <1>6, <2>1, <2>2, <2>3, HarmlessAppend
<1> HIDE DEF H
<1>9. Widgets \in H
  BY <1>0, <1>7, <1>8, Induct
<1> QED BY <1>0, <1>1, <1>9 DEF H

ModuleCounts == ModuleSettings /\ FallInv(chip) /\ TodoInv(todo)

LEMMA FirstCalls ==
  TodoInv([core \in M!Core |-> IF core = 0 /\ master = "controller" THEN M!InitCall ELSE <<>>])
BY ShortCalls, NoTransactions DEF TodoInv

(* A call that begins, and one that goes on, stops or goes on to the next.   *)
LEMMA TodoChanges ==
  ASSUME TodoInv(todo), NEW core \in M!Core, NEW s, Harmless(s)
  PROVE  TodoInv([todo EXCEPT ![core] = s])
BY DEF TodoInv

LEMMA RestHarmless ==
  ASSUME TodoInv(todo), NEW core \in M!Core, NEW ok, todo[core] # <<>>
  PROVE  /\ TodoInv(M!Rest(core, ok))
         /\ M!Head0(core).op = "put" => M!Head0(core).reg # M!PermilleReg
<1>1. Harmless(Tail(todo[core])) /\ (M!Head0(core).op = "put" => M!Head0(core).reg # M!PermilleReg)
  BY HarmlessTail DEF TodoInv, M!Head0
<1>2. \E s : Harmless(s) /\ M!Rest(core, ok) = [todo EXCEPT ![core] = s]
  <2>1. CASE ok \/ ~ M!Head0(core).must
    BY <1>1, <2>1 DEF M!Rest
  <2>2. CASE ~ (ok \/ ~ M!Head0(core).must)
    BY <2>2, NoTransactions DEF M!Rest
  <2> QED BY <2>1, <2>2
<1> QED BY <1>1, <1>2, TodoChanges

LEMMA CountsStep == ModuleCounts /\ [M!Next]_(M!vars) => ModuleCounts'
<1> SUFFICES ASSUME ModuleCounts, [M!Next]_(M!vars) PROVE ModuleCounts'
  OBVIOUS
<1>1. ModuleSettings' /\ SettingsInv(chip) /\ FallInv(chip) /\ TodoInv(todo)
  BY SettingsStep DEF ModuleCounts, ModuleSettings
<1> SUFFICES FallInv(chip') /\ TodoInv(todo')
  BY <1>1 DEF ModuleCounts
<1>2. CASE M!Module
  <2>1. PICK deltas \in SUBSET Nat : M!MainLoop(deltas)
    BY <1>2, ModuleConstants DEF M!Module
  <2>2. todo' = todo
    BY <1>2 DEF M!Module, M!driver
  <2> QED BY <1>1, <2>1, <2>2, LoopCounts
<1>3. CASE M!Sample \/ M!Save \/ UNCHANGED M!vars
  <2>1. chip' = chip
    BY <1>3 DEF M!Sample, M!Save, M!vars
  <2>2. todo' = todo \/ todo' = [todo EXCEPT ![0] = M!SampleCall]
    BY <1>3 DEF M!Sample, M!Save, M!Call, M!vars, M!driver
  <2> QED BY <1>1, <2>1, <2>2, ShortCalls, TodoChanges DEF M!Core
<1>4. ASSUME NEW core \in M!Core, M!Adjust(core) PROVE FallInv(chip') /\ TodoInv(todo')
  <2>1. PICK w \in M!Widget : \E s \in Sensitivity : M!Call(core, M!AdjustCall(w, M!Limited(s)))
    BY <1>4 DEF M!Adjust
  <2>2. PICK s \in Sensitivity : M!Call(core, M!AdjustCall(w, M!Limited(s)))
    BY <2>1
  <2>3. chip' = chip /\ todo' = [todo EXCEPT ![core] = M!AdjustCall(w, M!Limited(s))]
    BY <1>4, <2>2 DEF M!Adjust, M!Call
  <2> QED BY <1>1, <2>3, ShortCalls, TodoChanges
<1>5. ASSUME NEW core \in M!Core, M!Refused(core) \/ M!Fetched(core)
      PROVE FallInv(chip') /\ TodoInv(todo')
  <2>1. chip' = chip /\ todo[core] # <<>> /\ \E ok : todo' = M!Rest(core, ok)
    BY <1>5 DEF M!Refused, M!Fetched
  <2> QED BY <1>1, <2>1, RestHarmless
<1>6. ASSUME NEW core \in M!Core, M!Selected(core) PROVE FallInv(chip') /\ TodoInv(todo')
  <2>1. /\ chip' = [chip EXCEPT !.register = M!Head0(core).reg]
        /\ todo[core] # <<>> /\ todo' = M!Rest(core, TRUE)
    BY <1>6 DEF M!Selected, M!RegisterSelect
  <2>2. /\ chip'.permille = chip.permille /\ chip'.touched = chip.touched
        /\ chip'.delta = chip.delta /\ chip'.channel = chip.channel
        /\ chip'.peak = chip.peak /\ chip'.fall = chip.fall
    BY <1>1, <2>1 DEF IsOn, Fields, SettingsInv
  <2> QED BY <1>1, <2>1, <2>2, SameCounts, RestHarmless
<1>7. ASSUME NEW core \in M!Core, M!PutDone(core) PROVE FallInv(chip') /\ TodoInv(todo')
  <2>1. /\ todo[core] # <<>> /\ M!Head0(core).op = "put"
        /\ chip' = M!RegisterWrite(chip, M!Head0(core).reg, M!Head0(core).value)
        /\ \/ todo' = [todo EXCEPT ![core] = M!LoadCall(controlCache', saved)]
           \/ todo' = M!Rest(core, TRUE)
    BY <1>7 DEF M!PutDone
  <2>2. TodoInv(M!Rest(core, TRUE)) /\ M!Head0(core).reg # M!PermilleReg
    BY <1>1, <2>1, RestHarmless
  <2>3. FallInv(chip')
    BY <1>1, <2>1, <2>2, WriteCounts
  <2>4. TodoInv([todo EXCEPT ![core] = M!LoadCall(controlCache', saved)])
    BY <1>1, LoadWrites, TodoChanges
  <2> QED BY <2>1, <2>2, <2>3, <2>4
<1>8. CASE M!Tool
  <2>1. \E address, value :
          /\ chip' = M!RegisterWrite(chip, address, value)
          /\ address # M!PermilleReg \/ value \in Nat
    <3>1. ASSUME NEW w \in M!Widget
          PROVE  M!CapReg(w) # M!PermilleReg /\ M!ThresholdReg(w) # M!PermilleReg
      <4>1. w \in 0..11 /\ Widgets \in 1..12
        BY ModuleConstants DEF M!Widget
      <4> QED BY <4>1 DEF M!CapReg, M!ThresholdReg, M!PermilleReg
    <3>2. M!ControlReg # M!PermilleReg /\ PermilleAsked \subseteq Nat
      BY ModuleConstants DEF M!ControlReg, M!PermilleReg
    <3> HIDE DEF M!CapReg, M!ThresholdReg, M!PermilleReg, M!ControlReg
    <3> QED BY <1>8, <3>1, <3>2 DEF M!Tool
  <2>2. todo' = todo
    BY <1>8 DEF M!Tool, M!driver
  <2> QED BY <1>1, <2>1, <2>2, WriteCounts
<1>9. CASE M!PowerCycle
  BY <1>9, PowerOnCounts, FirstCalls DEF M!PowerCycle
<1> QED
  BY <1>2, <1>3, <1>4, <1>5, <1>6, <1>7, <1>8, <1>9 DEF M!Next, M!Driver

(* fast_trigger.c: for any number of widgets, any counts and any permille, a *)
(* widget that the library calls touched is let go of only after the count   *)
(* of this very touch has fallen by more than x_delta.                       *)
THEOREM ReleasesHaveCause == Board => ReleaseHasCause
<1> DEFINE Fell == \A w \in chip.touched \ chip'.status : chip'.fall[w] > M!XDelta
<1>1. M!Init => ModuleCounts
  BY PowerOnSettings, PowerOnCounts, FirstCalls DEF M!Init, ModuleCounts, ModuleSettings
<1>2. ModuleCounts /\ [M!Next]_(M!vars) => [M!Publish => Fell]_(M!vars)
  BY PublishCounts DEF ModuleCounts, ModuleSettings
<1>3. [][M!Publish => Fell]_(M!vars) => ReleaseHasCause
  BY DEF ReleaseHasCause, M!ReleaseHasCause
<1> QED
  BY <1>1, <1>2, <1>3, CountsStep, StepOfParts, PTL DEF Board, Begin

-----------------------------------------------------------------------------
(* The settings page of an AD7147 and the slot for its request.              *)

Config == [Field -> 0..Top]

DriverPlaces == {"begin", "memory", "registers", "served", "cdc", "read", "answer", "poll"}
PagePlaces == {"due", "idle", "copy", "ask", "flag", "wait", "status", "fill", "count"}

PageTypes ==
  /\ registers \in [Stage -> Config] /\ memory \in [Stage -> Config]
  /\ pending \in [count : {0, 1}, stage : Stage, config : Config]
  /\ driver \in [at : DriverPlaces, left : SUBSET Field, stage : Stage]
  /\ page \in [at : PagePlaces, stage : Stage, loaded : BOOLEAN, copy : Config, left : SUBSET Field,
               shown : Stage \cup {A!None}, rendering : BOOLEAN]
  /\ cdc \in [stage : Stage, asked : BOOLEAN, value : Stage \cup {A!None}]
  /\ accepted \in [stage : Stage, config : Config] /\ refusals \in Nat

Serving == {"memory", "registers", "served"}

\* the request made last is on its way into the slot, or in it until core 0 gives
\* the slot back, while nothing else gets there
SlotHolds ==
  /\ driver.at \in Serving => pending.count = 1
  /\ page.at \in {"fill", "count"} => pending.count = 0
  /\ page.at = "fill" => accepted.stage = page.stage /\ accepted.config = page.copy
  /\ page.at = "count" \/ pending.count = 1 =>
       accepted.stage = pending.stage /\ accepted.config = pending.config

\* core 0 has stored the fields it no longer has to store
Copied ==
  /\ driver.at = "memory" =>
       \A f \in Field \ driver.left : memory[pending.stage][f] = pending.config[f]
  /\ driver.at \in {"registers", "served"} => memory[pending.stage] = pending.config
  /\ driver.at = "registers" /\ refusals = 0 =>
       \A f \in Field \ driver.left : registers[pending.stage][f] = pending.config[f]
  /\ driver.at = "served" /\ refusals = 0 => registers[pending.stage] = pending.config

PageInv == PageTypes /\ SlotHolds /\ Copied

LEMMA PageStart == A!Init => PageInv
<1> SUFFICES ASSUME A!Init PROVE PageInv
  OBVIOUS
<1> USE DEF A!Init
<1>1. 0 \in Stage /\ 0 \in 0..Top
  BY ConstantsAssumption DEF A!PageConstants
<1>2. [f \in Field |-> 0] \in Config
  BY <1>1 DEF Config
<1>3. registers \in [Stage -> Config] /\ registers[0] \in Config
  BY <1>1, <1>2
<1>4. PageTypes
  BY <1>1, <1>3 DEF PageTypes, DriverPlaces, PagePlaces
<1> QED
  BY <1>4 DEF PageInv, SlotHolds, Serving, Copied

(* Two configurations with the same fields are one.                          *)
LEMMA SameConfig ==
  ASSUME NEW c \in Config, NEW d \in Config, \A f \in Field : c[f] = d[f] PROVE c = d
BY DEF Config

(* Core 0 in sample.                                                         *)
LEMMA SampleStep == PageInv /\ A!Sample => PageInv'
<1> SUFFICES ASSUME PageInv, A!Sample PROVE PageInv'
  OBVIOUS
<1> USE DEF PageInv, DriverPlaces
<1>0. /\ pending.count \in {0, 1} /\ pending.stage \in Stage /\ pending.config \in Config
      /\ registers \in [Stage -> Config] /\ memory \in [Stage -> Config]
      /\ driver.left \subseteq Field
      /\ \A f \in Field : pending.config[f] \in 0..Top
  BY DEF PageTypes, Config
<1>1. CASE A!TakeRequest
  <2>1. PageTypes'
    BY <1>1 DEF A!TakeRequest, A!shared, PageTypes
  <2>2. SlotHolds' /\ Copied'
    BY <1>0, <1>1 DEF A!TakeRequest, A!shared, PageTypes, SlotHolds, Serving, Copied
  <2> QED
    BY <2>1, <2>2
<1>2. CASE A!StoreField
  <2>1. PICK f \in driver.left :
               /\ memory' = [memory EXCEPT ![pending.stage][f] = pending.config[f]]
               /\ driver' = IF driver.left = {f} THEN [driver EXCEPT !.at = "registers", !.left = Field]
                                                 ELSE [driver EXCEPT !.left = @ \ {f}]
    BY <1>2 DEF A!StoreField
  <2>2. /\ driver.at = "memory"
        /\ UNCHANGED <<registers, pending, cdc, active, page, accepted, presses, sweeps, refusals>>
    BY <1>2 DEF A!StoreField
  <2>3. /\ memory' \in [Stage -> Config] /\ memory'[pending.stage][f] = pending.config[f]
        /\ \A g \in Field : g # f => memory'[pending.stage][g] = memory[pending.stage][g]
    <3> DEFINE c == [memory[pending.stage] EXCEPT ![f] = pending.config[f]]
    <3>1. /\ c \in Config /\ c[f] = pending.config[f]
          /\ \A g \in Field : g # f => c[g] = memory[pending.stage][g]
      BY <1>0 DEF Config
    <3>2. memory' = [memory EXCEPT ![pending.stage] = c]
      BY <2>1
    <3> HIDE DEF c
    <3>3. memory' \in [Stage -> Config] /\ memory'[pending.stage] = c
      BY <1>0, <3>1, <3>2
    <3> QED
      BY <3>1, <3>3
  <2>4. \A g \in (Field \ driver.left) \cup {f} : memory'[pending.stage][g] = pending.config[g]
    BY <1>0, <2>2, <2>3 DEF Copied
  <2>5. PageTypes'
    BY <2>1, <2>2, <2>3 DEF PageTypes
  <2>6. SlotHolds'
    BY <2>1, <2>2 DEF PageTypes, SlotHolds, Serving
  <2>7. CASE driver.left = {f}
    <3>1. driver'.at = "registers" /\ driver'.left = Field
      BY <2>1, <2>7 DEF PageTypes
    <3>2. memory'[pending.stage] = pending.config
      <4>1. memory'[pending.stage] \in Config /\ \A g \in Field : memory'[pending.stage][g] = pending.config[g]
        BY <1>0, <2>3, <2>4, <2>7
      <4> QED
        BY <1>0, <4>1, SameConfig
    <3> QED
      BY <2>2, <2>5, <2>6, <3>1, <3>2 DEF Copied
  <2>8. CASE driver.left # {f}
    <3>1. driver'.at = "memory" /\ driver'.left = driver.left \ {f}
      BY <2>1, <2>2, <2>8 DEF PageTypes
    <3> QED
      BY <2>2, <2>4, <2>5, <2>6, <3>1 DEF Copied
  <2> QED
    BY <2>7, <2>8
<1>3. CASE A!WriteField
  <2>1. PICK f \in driver.left :
               /\ \/ registers' = [registers EXCEPT ![pending.stage][f] = pending.config[f]] /\ UNCHANGED refusals
                  \/ refusals' = refusals + 1 /\ UNCHANGED registers
               /\ driver' = IF driver.left = {f} THEN [driver EXCEPT !.at = "served", !.left = {}]
                                                 ELSE [driver EXCEPT !.left = @ \ {f}]
    BY <1>3 DEF A!WriteField, A!MayRefuse
  <2>2. driver.at = "registers" /\ UNCHANGED <<memory, pending, cdc, active, page, accepted, presses, sweeps>>
    BY <1>3 DEF A!WriteField
  <2>3. /\ registers' \in [Stage -> Config] /\ refusals' \in Nat /\ (refusals' = 0 => refusals = 0)
        /\ refusals' = 0 => /\ registers'[pending.stage][f] = pending.config[f]
                            /\ \A g \in Field : g # f => registers'[pending.stage][g] = registers[pending.stage][g]
    <3>1. f \in Field /\ pending.config[f] \in 0..Top /\ refusals \in Nat
      BY <1>0 DEF PageTypes
    <3>2. CASE registers' = [registers EXCEPT ![pending.stage][f] = pending.config[f]] /\ UNCHANGED refusals
      <4> DEFINE c == [registers[pending.stage] EXCEPT ![f] = pending.config[f]]
      <4>1. /\ c \in Config /\ c[f] = pending.config[f]
            /\ \A g \in Field : g # f => c[g] = registers[pending.stage][g]
        BY <1>0, <3>1 DEF Config
      <4>2. registers' = [registers EXCEPT ![pending.stage] = c]
        BY <3>2
      <4> HIDE DEF c
      <4>3. registers' \in [Stage -> Config] /\ registers'[pending.stage] = c
        BY <1>0, <4>1, <4>2
      <4> QED
        BY <3>1, <3>2, <4>1, <4>3
    <3>3. CASE refusals' = refusals + 1 /\ UNCHANGED registers
      BY <1>0, <3>1, <3>3
    <3> QED
      BY <2>1, <3>2, <3>3
  <2>4. refusals' = 0 =>
          \A g \in (Field \ driver.left) \cup {f} : registers'[pending.stage][g] = pending.config[g]
    BY <1>0, <2>2, <2>3 DEF Copied
  <2>5. PageTypes'
    BY <2>1, <2>2, <2>3 DEF PageTypes
  <2>6. SlotHolds'
    BY <2>1, <2>2 DEF PageTypes, SlotHolds, Serving
  <2>7. CASE driver.left = {f}
    <3>1. driver'.at = "served" /\ driver'.left = {}
      BY <2>1, <2>7 DEF PageTypes
    <3>2. refusals' = 0 => registers'[pending.stage] = pending.config
      <4>1. /\ registers'[pending.stage] \in Config
            /\ refusals' = 0 => \A g \in Field : registers'[pending.stage][g] = pending.config[g]
        BY <1>0, <2>3, <2>4, <2>7
      <4> QED
        BY <1>0, <4>1, SameConfig
    <3> QED
      BY <2>2, <2>5, <2>6, <3>1, <3>2 DEF Copied
  <2>8. CASE driver.left # {f}
    <3>1. driver'.at = "registers" /\ driver'.left = driver.left \ {f}
      BY <2>1, <2>2, <2>8 DEF PageTypes
    <3> QED
      BY <2>2, <2>4, <2>5, <2>6, <3>1 DEF Copied
  <2> QED
    BY <2>7, <2>8
<1>4. CASE A!GiveSlotBack
  <2>1. /\ driver.at = "served" /\ pending' = [pending EXCEPT !.count = 0]
        /\ driver' = [driver EXCEPT !.at = "cdc"]
        /\ UNCHANGED <<registers, memory, cdc, active, page, accepted, presses, sweeps, refusals>>
    BY <1>4 DEF A!GiveSlotBack
  <2>2. PageTypes'
    BY <2>1 DEF PageTypes
  <2>3. page.at # "count" /\ page.at # "fill"
    BY <2>1 DEF SlotHolds, Serving
  <2> QED
    BY <2>1, <2>2, <2>3 DEF PageTypes, SlotHolds, Serving, Copied
<1>5. CASE A!TakeCdcRequest \/ A!PollDone \/ A!CalibrationDone
  <2>1. /\ UNCHANGED <<registers, memory, pending, cdc, page, accepted, refusals>>
        /\ \/ driver.at = "cdc" /\ driver' = [driver EXCEPT !.at = "read", !.stage = cdc.stage]
           \/ driver.at = "cdc" /\ driver' = [driver EXCEPT !.at = "poll"]
           \/ driver.at = "poll" /\ driver' = [driver EXCEPT !.at = "begin"]
    BY <1>5 DEF A!TakeCdcRequest, A!PollDone, A!CalibrationDone, A!shared
  <2>2. /\ driver' \in [at : DriverPlaces, left : SUBSET Field, stage : Stage]
        /\ driver'.at \in {"read", "poll", "begin"}
    BY <2>1 DEF PageTypes
  <2>3. PageTypes'
    BY <2>1, <2>2 DEF PageTypes
  <2>4. SlotHolds'
    BY <2>1, <2>2 DEF SlotHolds, Serving
  <2>5. Copied'
    BY <2>1, <2>2 DEF Copied
  <2> QED
    BY <2>3, <2>4, <2>5
<1>6. CASE A!ReadCdc \/ A!AnswerCdc
  <2>1. /\ UNCHANGED <<registers, memory, pending, page, accepted>> /\ driver.at \in {"read", "answer"}
        /\ driver' = [driver EXCEPT !.at = "answer"] \/ driver' = [driver EXCEPT !.at = "poll"]
        /\ refusals' = refusals \/ refusals' = refusals + 1
    BY <1>6 DEF A!ReadCdc, A!AnswerCdc, A!MayRefuse
  <2>2. cdc' \in [stage : Stage, asked : BOOLEAN, value : Stage \cup {A!None}]
    <3>1. \/ cdc' = [cdc EXCEPT !.value = driver.stage] \/ cdc' = [cdc EXCEPT !.value = A!None]
          \/ cdc' = [cdc EXCEPT !.asked = FALSE]
      BY <1>6 DEF A!ReadCdc, A!AnswerCdc
    <3>2. driver.stage \in Stage /\ cdc \in [stage : Stage, asked : BOOLEAN, value : Stage \cup {A!None}]
      BY DEF PageTypes
    <3> QED
      BY <3>1, <3>2
  <2>3. driver' \in [at : DriverPlaces, left : SUBSET Field, stage : Stage] /\ driver'.at \notin Serving
    BY <2>1 DEF PageTypes, Serving
  <2>4. PageTypes'
    BY <2>1, <2>2, <2>3 DEF PageTypes
  <2>5. SlotHolds' /\ Copied'
    BY <2>1, <2>3 DEF SlotHolds, Serving, Copied
  <2> QED
    BY <2>4, <2>5
<1>7. CASE A!Sweep
  <2>1. PICK s \in Stage, v \in 0..Top : memory' = [memory EXCEPT ![s]["afe"] = v]
    BY <1>7 DEF A!Sweep
  <2>2. /\ driver.at = "poll" /\ driver' = [driver EXCEPT !.at = "begin"]
        /\ UNCHANGED <<registers, pending, cdc, active, page, accepted, presses, refusals>>
    BY <1>7 DEF A!Sweep
  <2>3. memory' \in [Stage -> Config]
    <3>1. "afe" \in Field
      BY ConstantsAssumption DEF A!PageConstants
    <3> DEFINE c == [memory[s] EXCEPT !["afe"] = v]
    <3>2. c \in Config
      BY <1>0, <3>1 DEF Config
    <3>3. memory' = [memory EXCEPT ![s] = c]
      BY <2>1
    <3> HIDE DEF c
    <3> QED
      BY <1>0, <3>2, <3>3
  <2> QED
    BY <2>2, <2>3 DEF PageTypes, SlotHolds, Serving, Copied
<1> QED
  BY <1>1, <1>2, <1>3, <1>4, <1>5, <1>6, <1>7 DEF A!Sample

(* Core 1 in the page.                                                       *)
LEMMA PageStep == PageInv /\ [A!Next]_(A!vars) => PageInv'
<1> SUFFICES ASSUME PageInv, [A!Next]_(A!vars) PROVE PageInv'
  OBVIOUS
<1> USE DEF PagePlaces
<1>0. /\ page \in [at : PagePlaces, stage : Stage, loaded : BOOLEAN, copy : Config, left : SUBSET Field,
                   shown : Stage \cup {A!None}, rendering : BOOLEAN]
      /\ 0 \in Stage /\ memory \in [Stage -> Config]
  BY ConstantsAssumption DEF A!PageConstants, PageInv, PageTypes
<1>1. CASE A!Sample
  BY <1>1, SampleStep
<1>2. ASSUME UNCHANGED <<registers, memory, pending, driver, accepted, refusals, cdc>>,
             page' \in [at : PagePlaces, stage : Stage, loaded : BOOLEAN, copy : Config, left : SUBSET Field,
                        shown : Stage \cup {A!None}, rendering : BOOLEAN],
             page.at \notin {"fill", "count"}, page'.at \notin {"fill", "count"}
      PROVE  PageInv'
  BY <1>2 DEF PageInv, PageTypes, SlotHolds, Serving, Copied
<1>3. CASE A!Render
  <2>1. /\ page.at \in {"idle", "due"} /\ UNCHANGED <<registers, memory, pending, driver, accepted, refusals, cdc>>
        /\ page' = A!Loading([page EXCEPT !.rendering = TRUE])
    BY <1>3 DEF A!Render, A!shared
  <2> QED
    BY <1>0, <1>2, <2>1 DEF A!Loading
<1>4. CASE A!CopyField
  <2>1. PICK f \in page.left :
          page' = [page EXCEPT !.copy[f] = memory[page.stage][f], !.left = @ \ {f},
                               !.loaded = (page.left = {f}),
                               !.at = IF page.left = {f} THEN "ask" ELSE "copy"]
    BY <1>4 DEF A!CopyField
  <2>2. page.at = "copy" /\ UNCHANGED <<registers, memory, pending, driver, accepted, refusals, cdc>>
    BY <1>4 DEF A!CopyField, A!shared
  <2>3. [page.copy EXCEPT ![f] = memory[page.stage][f]] \in Config
    BY <1>0 DEF Config
  <2>4. /\ page' \in [at : PagePlaces, stage : Stage, loaded : BOOLEAN, copy : Config, left : SUBSET Field,
                     shown : Stage \cup {A!None}, rendering : BOOLEAN]
        /\ page'.at \in {"ask", "copy"}
    BY <1>0, <2>1, <2>3
  <2> QED
    BY <1>2, <2>2, <2>4
<1>5. CASE A!AskStage \/ A!RaiseFlag
  <2>1. /\ UNCHANGED <<registers, memory, pending, driver, accepted, refusals>>
        /\ page.at \in {"ask", "flag"}
        /\ page' = [page EXCEPT !.at = "flag"] \/ page' = [page EXCEPT !.at = "wait"]
        /\ cdc' = [cdc EXCEPT !.stage = page.stage] \/ cdc' = [cdc EXCEPT !.asked = TRUE]
    BY <1>5 DEF A!AskStage, A!RaiseFlag
  <2>2. cdc' \in [stage : Stage, asked : BOOLEAN, value : Stage \cup {A!None}]
    BY <1>0, <2>1 DEF PageInv, PageTypes
  <2>3. /\ page' \in [at : PagePlaces, stage : Stage, loaded : BOOLEAN, copy : Config, left : SUBSET Field,
                     shown : Stage \cup {A!None}, rendering : BOOLEAN]
        /\ page'.at \in {"flag", "wait"}
    BY <1>0, <2>1
  <2>4. PageTypes'
    BY <2>1, <2>2, <2>3 DEF PageInv, PageTypes
  <2>5. SlotHolds' /\ Copied'
    BY <2>1, <2>3 DEF PageInv, SlotHolds, Serving, Copied
  <2> QED
    BY <2>4, <2>5 DEF PageInv
<1>6. CASE A!Waited
  <2>1. cdc.value \in Stage \cup {A!None}
    BY DEF PageInv, PageTypes
  <2> QED
    BY <1>0, <1>2, <1>6, <2>1 DEF A!Waited, A!shared
<1>7. CASE A!UpdateAutoOffsetStatus
  <2>1. (page.loaded /\ active) \in BOOLEAN
    OBVIOUS
  <2> QED
    BY <1>0, <1>2, <1>7, <2>1 DEF A!UpdateAutoOffsetStatus, A!shared
<1>8. CASE A!ChangeStage
  <2>1. PICK s \in Stage : page' = A!Loading([page EXCEPT !.stage = s, !.loaded = FALSE])
    BY <1>8 DEF A!ChangeStage, A!OnStageChange
  <2>2. page.at = "idle" /\ UNCHANGED <<registers, memory, pending, driver, accepted, refusals, cdc>>
    BY <1>8 DEF A!ChangeStage, A!Press, A!shared
  <2> QED
    BY <1>0, <1>2, <2>1, <2>2 DEF A!Loading
<1>9. CASE A!ChangeField
  <2>1. PICK f \in Field, v \in 0..Top : A!ApplyConfig([page.copy EXCEPT ![f] = v])
    BY <1>9 DEF A!ChangeField
  <2> DEFINE c == [page.copy EXCEPT ![f] = v]
  <2>2. c \in Config
    BY <1>0 DEF Config
  <2>3. A!ApplyConfig(c)
    BY <2>1
  <2> HIDE DEF c
  <2>4. page.at = "idle" /\ UNCHANGED <<registers, memory, pending, driver, refusals, cdc>>
    BY <1>9 DEF A!ChangeField, A!Press, A!shared, A!ApplyConfig
  <2>5. CASE pending.count # 0
    BY <1>0, <1>2, <2>2, <2>3, <2>4, <2>5 DEF A!ApplyConfig
  <2>6. CASE pending.count = 0
    <3>1. /\ page' = [page EXCEPT !.copy = c, !.at = "fill"]
          /\ accepted' = [stage |-> page.stage, config |-> c]
      BY <2>3, <2>6 DEF A!ApplyConfig
    <3>2. /\ page' \in [at : PagePlaces, stage : Stage, loaded : BOOLEAN, copy : Config, left : SUBSET Field,
                       shown : Stage \cup {A!None}, rendering : BOOLEAN]
          /\ page'.at = "fill" /\ page'.copy = c /\ page'.stage = page.stage
          /\ accepted' \in [stage : Stage, config : Config]
          /\ accepted'.stage = page'.stage /\ accepted'.config = page'.copy
      BY <1>0, <2>2, <3>1
    <3>3. PageTypes'
      BY <2>4, <3>2 DEF PageInv, PageTypes
    <3>4. SlotHolds' /\ Copied'
      BY <2>4, <2>6, <3>2 DEF PageInv, SlotHolds, Serving, Copied
    <3> QED
      BY <3>3, <3>4 DEF PageInv
  <2> QED
    BY <2>5, <2>6
<1>10. CASE A!FillSlot \/ A!CountRequest
  <2>1. /\ UNCHANGED <<registers, memory, cdc, driver, accepted, refusals>>
        /\ \/ /\ page.at = "fill" /\ page' = [page EXCEPT !.at = "count"]
              /\ pending' = [pending EXCEPT !.stage = page.stage, !.config = page.copy]
           \/ /\ page.at = "count" /\ page' = [page EXCEPT !.at = "idle"]
              /\ pending' = [pending EXCEPT !.count = 1]
    BY <1>10 DEF A!FillSlot, A!CountRequest
  <2>2. /\ page' \in [at : PagePlaces, stage : Stage, loaded : BOOLEAN, copy : Config, left : SUBSET Field,
                     shown : Stage \cup {A!None}, rendering : BOOLEAN]
        /\ pending' \in [count : {0, 1}, stage : Stage, config : Config]
    <3>1. CASE page' = [page EXCEPT !.at = "count"] /\ pending' = [pending EXCEPT !.stage = page.stage, !.config = page.copy]
      <4>1. page.stage \in Stage /\ page.copy \in Config
        BY <1>0 DEF PageInv, PageTypes
      <4>2. pending' \in [count : {0, 1}, stage : Stage, config : Config]
        BY <3>1, <4>1 DEF PageInv, PageTypes
      <4> QED
        BY <3>1, <4>2 DEF PageInv, PageTypes
    <3>2. CASE page' = [page EXCEPT !.at = "idle"] /\ pending' = [pending EXCEPT !.count = 1]
      BY <3>2 DEF PageInv, PageTypes
    <3> QED
      BY <2>1, <3>1, <3>2
  <2>3. PageTypes'
    BY <2>1, <2>2 DEF PageInv, PageTypes
  <2>4. driver.at \notin Serving /\ pending.count = 0
    BY <2>1 DEF PageInv, SlotHolds
  <2>5. SlotHolds'
    BY <1>0, <2>1, <2>4 DEF PageInv, PageTypes, SlotHolds
  <2>6. Copied'
    BY <2>1, <2>4 DEF Copied, Serving
  <2> QED
    BY <2>3, <2>5, <2>6 DEF PageInv
<1>11. CASE A!StartAutoOffsetCalibration \/ UNCHANGED A!vars
  BY <1>11 DEF A!StartAutoOffsetCalibration, A!vars, A!shared, PageInv, PageTypes, SlotHolds, Serving, Copied
<1>12. CASE A!JumpStr
  BY <1>0, <1>2, <1>12 DEF A!JumpStr, A!Press, A!shared
<1> QED
  BY <1>1, <1>3, <1>4, <1>5, <1>6, <1>7, <1>8, <1>9, <1>10, <1>11, <1>12 DEF A!Next, A!Page

(* ad7147.cpp, setStageConfigAsync and sample: for any stages, fields and    *)
(* values, when core 0 gives the slot back the stage holds the whole request *)
(* that found the slot empty, and nothing of another.                        *)
THEOREM RequestWhole == Board => RequestTakenWhole
<1> DEFINE GivenBack == pending.count = 1 /\ pending'.count = 0
           Whole == /\ memory[accepted.stage] = accepted.config
                    /\ refusals = 0 => registers[accepted.stage] = accepted.config
<1>1. PageInv /\ [A!Next]_(A!vars) => [GivenBack => Whole]_(A!vars)
  <2> SUFFICES ASSUME PageInv, A!Next, GivenBack PROVE Whole
    OBVIOUS
  <2>1. A!GiveSlotBack
    <3>1. CASE A!Sample
      BY <3>1 DEF A!Sample, A!TakeRequest, A!StoreField, A!WriteField, A!TakeCdcRequest, A!ReadCdc,
                  A!AnswerCdc, A!PollDone, A!Sweep, A!CalibrationDone, A!shared
    <3>2. CASE A!FillSlot \/ A!CountRequest
      BY <3>2 DEF A!FillSlot, A!CountRequest, PageInv, PageTypes, SlotHolds
    <3>3. CASE A!Render \/ A!CopyField \/ A!AskStage \/ A!RaiseFlag \/ A!Waited \/ A!UpdateAutoOffsetStatus
      <4>1. (A!Render \/ A!CopyField) => pending' = pending
        BY DEF A!Render, A!CopyField, A!shared
      <4>2. (A!AskStage \/ A!RaiseFlag) => pending' = pending
        BY DEF A!AskStage, A!RaiseFlag
      <4>3. (A!Waited \/ A!UpdateAutoOffsetStatus) => pending' = pending
        BY DEF A!Waited, A!UpdateAutoOffsetStatus, A!shared
      <4>4. pending' # pending
        OBVIOUS
      <4> QED
        BY <3>3, <4>1, <4>2, <4>3, <4>4
    <3>4. CASE A!ChangeStage \/ A!ChangeField \/ A!StartAutoOffsetCalibration \/ A!JumpStr
      BY <3>4 DEF A!ChangeStage, A!ChangeField, A!StartAutoOffsetCalibration, A!JumpStr, A!shared
    <3> QED
      BY <3>1, <3>2, <3>3, <3>4 DEF A!Next, A!Page
  <2> QED
    BY <2>1 DEF A!GiveSlotBack, PageInv, SlotHolds, Copied
<1>2. [][GivenBack => Whole]_(A!vars) => RequestTakenWhole
  BY DEF RequestTakenWhole, A!RequestTakenWhole
<1> QED
  BY <1>1, <1>2, PageStart, PageStep, StepOfParts, PTL DEF Board, Begin

-----------------------------------------------------------------------------
(* The log over USB, while no two accesses were in each other's way.         *)

AddPlaces == {"evict", "evict+", "drop", "drop+", "mark", "fill", "write", "write+",
              "room", "count", "count+"}
BlockPlaces == {"take", "valid", "send", "void", "next", "next+", "less", "less+"}
LogPlaces == AddPlaces \cup BlockPlaces \cup {"idle", "look"}

Slot == 0..(Blocks - 1)
SlotOf(i, k) == IF i + k < Blocks THEN i + k ELSE i + k - Blocks
BlockAt(k) == ring.block[SlotOf(ring.read, k)]

At(w) == actor[w].at
Any(places) == \E w \in L!Writer : At(w) \in places
One(p) == IF p THEN 1 ELSE 0

\* an add has moved the read index, and not the count; the write index, and not the
\* count; has a line in a block that neither covers
Dropping  == Any({"drop", "drop+"})
Uncounted == Any({"room", "count", "count+"})
InHand    == Any({"write", "write+"})
\* core 1 has sent a line whose block is still the first one; has left that block,
\* which is still counted
Gone    == At("core1") \in {"void", "next", "next+"}
Leaving == At("core1") \in {"less", "less+"}

\* the blocks between the indices, and those of them that hold a line to be sent
Stored == ring.used - One(Dropping) - One(Leaving) + One(Uncounted)
Kept   == One(Gone)..(Stored - 1)

\* a line that comes after all that were sent or are waiting
Newest(line) ==
  /\ line <= logged /\ \A i \in 1..Len(sent) : sent[i] < line
  /\ \A k \in Kept : BlockAt(k).line < line

LogTypes ==
  /\ ring \in [read : Slot, write : Slot, used : 0..Blocks,
               block : [Slot -> [valid : BOOLEAN, line : Nat]]]
  /\ actor \in [L!Writer -> [at : LogPlaces, held : Nat, block : Slot]]
  /\ logged \in Nat /\ dropped \in Nat /\ sent \in Seq(Nat)

OneAdder == ~ (At("core0") \in AddPlaces /\ At("core1") \in AddPlaces)

(* The indices are as far apart as the count says, but for what is under way;
   and each line logged is counted once. *)
LogCounts ==
  /\ Stored \in 0..Blocks /\ ring.write = SlotOf(ring.read, Stored)
  /\ logged = Len(sent) + dropped + ring.used - One(Gone \/ Leaving) + One(InHand \/ Uncounted)

(* What the one in add_to_queue can rely on at each place: what it loaded is
   still there, or somebody's way was crossed. *)
AdderPlace(w) ==
  /\ At(w) = "evict+" => actor[w].held = ring.read \/ ring.used < Blocks \/ Leaving
  /\ At(w) \in {"drop", "drop+"} => ring.used = Blocks /\ At("core1") \notin BlockPlaces
  /\ At(w) = "drop+" => actor[w].held = ring.used
  /\ At(w) \in {"mark", "fill", "write", "write+", "room", "count", "count+"} => ring.used < Blocks
  /\ At(w) = "fill" => actor[w].block = ring.write
  /\ At(w) \in {"fill", "write", "write+"} => ring.block[ring.write].valid
  /\ At(w) = "write+" => actor[w].held = ring.write
  /\ At(w) \in {"write", "write+"} => Newest(ring.block[ring.write].line)

(* The same for core 1 in flush. *)
FlusherPlace ==
  /\ At("core1") \in BlockPlaces => ring.used >= 1
  /\ At("core1") \in {"valid", "send", "void"} => actor["core1"].block = ring.read
  /\ At("core1") = "send" => actor["core1"].held = BlockAt(0).line
  /\ At("core1") = "next+" => actor["core1"].held = ring.read

(* The waiting blocks are valid, their lines rise, and follow those sent. *)
LinesWaiting ==
  \A k \in Kept :
    /\ BlockAt(k).valid /\ BlockAt(k).line <= logged
    /\ \A i \in 1..Len(sent) : sent[i] < BlockAt(k).line
    /\ \A j \in Kept : j < k => BlockAt(j).line < BlockAt(k).line

LinesSent ==
  /\ \A i, j \in 1..Len(sent) : i < j => sent[i] < sent[j]
  /\ \A i \in 1..Len(sent) : sent[i] <= logged

Orderly == /\ LogTypes /\ OneAdder /\ LogCounts /\ (\A w \in L!Writer : AdderPlace(w))
           /\ FlusherPlace /\ LinesWaiting /\ LinesSent
LogInv == raced \/ Orderly

LEMMA BlocksType == Blocks \in Nat /\ Blocks > 0 /\ CountMod \in Nat /\ CountMod > Blocks
BY ConstantsAssumption DEF L!LogsConstants

LEMMA FollowingSlot == ASSUME NEW i \in Slot PROVE L!Following(i) = SlotOf(i, 1) /\ SlotOf(i, 1) \in Slot
<1>1. Blocks \in Nat /\ Blocks > 0 /\ i \in 0..(Blocks - 1)
  BY BlocksType DEF Slot
<1>2. CASE i = Blocks - 1
  BY <1>1, <1>2 DEF L!Following, SlotOf, Slot
<1>3. CASE i < Blocks - 1
  BY <1>1, <1>3 DEF L!Following, SlotOf, Slot
<1> QED
  BY <1>1, <1>2, <1>3

LEMMA SmallCount == ASSUME NEW n \in 0..Blocks PROVE n % CountMod = n
<1>1. CountMod \in Nat /\ n \in Nat /\ n < CountMod /\ CountMod > 0
  BY BlocksType
<1> QED
  BY <1>1

(* A step in add_to_queue: the other core is not there.                      *)
LEMMA AdderFrame ==
  ASSUME Orderly, NEW w \in L!Writer,
         At(w) \in AddPlaces \cup {"idle"}, At(w)' \in AddPlaces \cup {"idle"},
         \A v \in L!Writer : v # w => At(v)' = At(v) /\ At(v) \notin AddPlaces
  PROVE  /\ (Dropping <=> At(w) \in {"drop", "drop+"}) /\ (Dropping' <=> At(w)' \in {"drop", "drop+"})
         /\ Uncounted <=> At(w) \in {"room", "count", "count+"}
         /\ Uncounted' <=> At(w)' \in {"room", "count", "count+"}
         /\ (InHand <=> At(w) \in {"write", "write+"}) /\ (InHand' <=> At(w)' \in {"write", "write+"})
         /\ (Gone' <=> Gone) /\ (Leaving' <=> Leaving) /\ OneAdder'
<1>1. w \in {"core0", "core1"} /\ L!Writer = {"core0", "core1"}
  BY DEF L!Writer
<1>2. /\ (Dropping <=> At(w) \in {"drop", "drop+"}) /\ (Dropping' <=> At(w)' \in {"drop", "drop+"})
      /\ Uncounted <=> At(w) \in {"room", "count", "count+"}
      /\ Uncounted' <=> At(w)' \in {"room", "count", "count+"}
      /\ (InHand <=> At(w) \in {"write", "write+"}) /\ (InHand' <=> At(w)' \in {"write", "write+"})
  BY DEF Dropping, Uncounted, InHand, Any, AddPlaces
<1>3. (Gone' <=> Gone) /\ (Leaving' <=> Leaving) /\ OneAdder'
  BY <1>1 DEF Gone, Leaving, OneAdder, AddPlaces
<1> QED
  BY <1>2, <1>3

(* A step of flush.                                                          *)
LEMMA FlusherFrame ==
  ASSUME Orderly, At("core1") \notin AddPlaces, At("core1")' \notin AddPlaces, At("core0")' = At("core0")
  PROVE  /\ (Dropping' <=> Dropping) /\ (Uncounted' <=> Uncounted) /\ (InHand' <=> InHand) /\ OneAdder'
         /\ Dropping <=> At("core0") \in {"drop", "drop+"}
         /\ Uncounted <=> At("core0") \in {"room", "count", "count+"}
         /\ InHand <=> At("core0") \in {"write", "write+"}
BY DEF Dropping, Uncounted, InHand, Any, AddPlaces, OneAdder, L!Writer

(* A step that moves neither lines nor counts.                               *)
LEMMA QuietStep ==
  ASSUME Orderly, ring' = ring, logged' = logged, sent' = sent, dropped' = dropped,
         One(Dropping)' = One(Dropping), One(Leaving)' = One(Leaving),
         One(Uncounted)' = One(Uncounted), One(Gone)' = One(Gone),
         One(Gone \/ Leaving)' = One(Gone \/ Leaving), One(InHand \/ Uncounted)' = One(InHand \/ Uncounted)
  PROVE  /\ LogCounts' /\ LinesWaiting' /\ LinesSent' /\ Stored' = Stored /\ Kept' = Kept
         /\ \A k : BlockAt(k)' = BlockAt(k)
<1>1. Stored' = Stored /\ Kept' = Kept /\ \A k : BlockAt(k)' = BlockAt(k)
  BY DEF Stored, Kept, BlockAt
<1>2. LogCounts'
  BY <1>1 DEF Orderly, LogCounts
<1>3. LinesWaiting'
  BY <1>1 DEF Orderly, LinesWaiting
<1>4. LinesSent'
  BY DEF Orderly, LinesSent
<1> QED
  BY <1>1, <1>2, <1>3, <1>4

(* Where a writer is after a step of its own.                                *)
LEMMA GoMoves ==
  ASSUME LogTypes, NEW w \in L!Writer, NEW p \in LogPlaces, L!Go(w, p)
  PROVE  /\ actor' \in [L!Writer -> [at : LogPlaces, held : Nat, block : Slot]]
         /\ At(w)' = p /\ \A v \in L!Writer : v # w => actor'[v] = actor[v] /\ At(v)' = At(v)
<1> DEFINE r == [L!Idle EXCEPT !.at = p]
<1>1. r \in [at : LogPlaces, held : Nat, block : Slot] /\ r.at = p
  BY BlocksType DEF L!Idle, Slot
<1>2. actor' = [actor EXCEPT ![w] = r]
  BY DEF L!Go
<1> HIDE DEF r
<1> QED
  BY <1>1, <1>2 DEF LogTypes, At

LEMMA LoadMoves ==
  ASSUME LogTypes, NEW w \in L!Writer, NEW p \in LogPlaces, NEW h \in Nat,
         actor' = [actor EXCEPT ![w].at = p, ![w].held = h]
  PROVE  /\ actor' \in [L!Writer -> [at : LogPlaces, held : Nat, block : Slot]]
         /\ At(w)' = p /\ actor'[w].held = h /\ actor'[w].block = actor[w].block
         /\ \A v \in L!Writer : v # w => actor'[v] = actor[v] /\ At(v)' = At(v)
BY DEF LogTypes, At

LEMMA TakeMoves ==
  ASSUME LogTypes, NEW w \in L!Writer, NEW p \in LogPlaces, NEW b \in Slot,
         actor' = [actor EXCEPT ![w].at = p, ![w].block = b]
  PROVE  /\ actor' \in [L!Writer -> [at : LogPlaces, held : Nat, block : Slot]]
         /\ At(w)' = p /\ actor'[w].block = b /\ actor'[w].held = actor[w].held
         /\ \A v \in L!Writer : v # w => actor'[v] = actor[v] /\ At(v)' = At(v)
BY DEF LogTypes, At

LEMMA Alone ==
  ASSUME Orderly, NEW w \in L!Writer, At(w) \in AddPlaces
  PROVE  \A v \in L!Writer : v # w => At(v) \notin AddPlaces
BY DEF Orderly, OneAdder, L!Writer

(* The add's own loads, and the choices it makes on the count.               *)
LEMMA AdderQuiet ==
  ASSUME Orderly, NEW w \in L!Writer,
         UNCHANGED <<ring, logged, sent, dropped>>,
         actor' \in [L!Writer -> [at : LogPlaces, held : Nat, block : Slot]],
         \A v \in L!Writer : v # w => actor'[v] = actor[v] /\ At(v)' = At(v) /\ At(v) \notin AddPlaces,
         \/ At(w) = "idle" /\ At(w)' \in {"evict", "mark"}
         \/ At(w) = "evict" /\ At(w)' = "evict+"
         \/ At(w) = "drop" /\ At(w)' = "drop+"
         \/ At(w) = "write" /\ At(w)' = "write+"
         \/ At(w) = "room" /\ At(w)' = "count"
         \/ At(w) = "count" /\ At(w)' = "count+",
         AdderPlace(w)'
  PROVE  Orderly'
<1>1. At(w) \in AddPlaces \cup {"idle"} /\ At(w)' \in AddPlaces \cup {"idle"}
  BY DEF AddPlaces
<1>2. /\ (Dropping <=> At(w) \in {"drop", "drop+"}) /\ (Dropping' <=> At(w)' \in {"drop", "drop+"})
      /\ Uncounted <=> At(w) \in {"room", "count", "count+"}
      /\ Uncounted' <=> At(w)' \in {"room", "count", "count+"}
      /\ (InHand <=> At(w) \in {"write", "write+"}) /\ (InHand' <=> At(w)' \in {"write", "write+"})
      /\ (Gone' <=> Gone) /\ (Leaving' <=> Leaving) /\ OneAdder'
  BY <1>1, AdderFrame
<1>3. /\ One(Dropping)' = One(Dropping) /\ One(Leaving)' = One(Leaving)
      /\ One(Uncounted)' = One(Uncounted) /\ One(Gone)' = One(Gone)
      /\ One(Gone \/ Leaving)' = One(Gone \/ Leaving)
      /\ One(InHand \/ Uncounted)' = One(InHand \/ Uncounted)
  BY <1>2 DEF One
<1>4. LogCounts' /\ LinesWaiting' /\ LinesSent' /\ \A k : BlockAt(k)' = BlockAt(k)
  BY <1>3, QuietStep
<1>5. LogTypes'
  BY DEF Orderly, LogTypes
<1>6. \A v \in L!Writer : AdderPlace(v)'
  <2> SUFFICES ASSUME NEW v \in L!Writer, v # w PROVE AdderPlace(v)'
    OBVIOUS
  <2>1. At(v)' \notin AddPlaces
    OBVIOUS
  <2> QED
    BY <2>1 DEF AdderPlace, AddPlaces
<1>7. FlusherPlace'
  <2>1. CASE w = "core1"
    BY <1>1, <2>1 DEF FlusherPlace, AddPlaces, BlockPlaces
  <2>2. CASE w # "core1"
    <3>1. "core1" \in L!Writer
      BY DEF L!Writer
    <3>2. actor'["core1"] = actor["core1"] /\ At("core1")' = At("core1")
      BY <2>2, <3>1
    <3> QED
      BY <1>4, <3>2 DEF FlusherPlace, Orderly
  <2> QED
    BY <2>1, <2>2
<1> QED
  BY <1>2, <1>4, <1>5, <1>6, <1>7 DEF Orderly

LEMMA AdderLoads ==
  ASSUME Orderly, NEW w \in L!Writer, ~ raced',
         L!Begin(w) \/ L!LoadRead(w) \/ L!LoadUsed(w) \/ L!LoadWrite(w) \/ L!Room(w) \/ L!LoadCount(w)
  PROVE  Orderly'
<1>0. LogTypes
  BY DEF Orderly
<1>1. CASE L!Begin(w)
  <2> DEFINE p == IF L!IsFull THEN "evict" ELSE "mark"
  <2>1. /\ At(w) = "idle" /\ L!Go(w, p) /\ UNCHANGED <<ring, logged, sent, dropped>>
        /\ ~ L!Adding(w)
    BY <1>1 DEF L!Begin, L!At, At, L!hist
  <2>2. p \in LogPlaces
    BY DEF LogPlaces, AddPlaces
  <2>3. /\ actor' \in [L!Writer -> [at : LogPlaces, held : Nat, block : Slot]]
        /\ At(w)' = p /\ \A v \in L!Writer : v # w => actor'[v] = actor[v] /\ At(v)' = At(v)
    BY <1>0, <2>1, <2>2, GoMoves
  <2>4. \A v \in L!Writer : v # w => At(v) \notin AddPlaces
    BY <2>1 DEF L!Adding, At, AddPlaces
  <2>5. ring.used \in Nat /\ Blocks \in Nat
    BY <1>0, BlocksType DEF LogTypes
  <2>6. AdderPlace(w)'
    BY <2>1, <2>3, <2>5 DEF AdderPlace, L!IsFull
  <2> QED
    BY <2>1, <2>3, <2>4, <2>6, AdderQuiet
<1>2. CASE L!LoadRead(w)
  <2>1. /\ At(w) = "evict" /\ actor' = [actor EXCEPT ![w].at = "evict+", ![w].held = ring.read]
        /\ UNCHANGED <<ring, logged, sent, dropped>>
    BY <1>2 DEF L!LoadRead, L!Load, L!At, At, L!hist
  <2>2. "evict+" \in LogPlaces /\ ring.read \in Nat /\ At(w) \in AddPlaces
    BY <1>0, <2>1, BlocksType DEF LogPlaces, AddPlaces, LogTypes, Slot
  <2>3. /\ actor' \in [L!Writer -> [at : LogPlaces, held : Nat, block : Slot]]
        /\ At(w)' = "evict+" /\ actor'[w].held = ring.read
        /\ \A v \in L!Writer : v # w => actor'[v] = actor[v] /\ At(v)' = At(v)
    BY <1>0, <2>1, <2>2, LoadMoves
  <2>4. AdderPlace(w)'
    BY <2>1, <2>3 DEF AdderPlace
  <2> QED
    BY <2>1, <2>2, <2>3, <2>4, Alone, AdderQuiet
<1>3. CASE L!LoadUsed(w)
  <2>1. /\ At(w) = "drop" /\ actor' = [actor EXCEPT ![w].at = "drop+", ![w].held = ring.used]
        /\ UNCHANGED <<ring, logged, sent, dropped>>
    BY <1>3 DEF L!LoadUsed, L!Load, L!At, At, L!hist
  <2>2. "drop+" \in LogPlaces /\ ring.used \in Nat /\ At(w) \in AddPlaces
    BY <1>0, <2>1, BlocksType DEF LogPlaces, AddPlaces, LogTypes
  <2>3. /\ actor' \in [L!Writer -> [at : LogPlaces, held : Nat, block : Slot]]
        /\ At(w)' = "drop+" /\ actor'[w].held = ring.used
        /\ \A v \in L!Writer : v # w => actor'[v] = actor[v] /\ At(v)' = At(v)
    BY <1>0, <2>1, <2>2, LoadMoves
  <2>4. ring.used = Blocks /\ At("core1") \notin BlockPlaces
    BY <2>1 DEF Orderly, AdderPlace
  <2>5. At("core1")' \notin BlockPlaces
    BY <2>3, <2>4 DEF L!Writer, BlockPlaces
  <2>6. AdderPlace(w)'
    BY <2>1, <2>3, <2>4, <2>5 DEF AdderPlace
  <2> QED
    BY <2>1, <2>2, <2>3, <2>6, Alone, AdderQuiet
<1>4. CASE L!LoadWrite(w)
  <2>1. /\ At(w) = "write" /\ actor' = [actor EXCEPT ![w].at = "write+", ![w].held = ring.write]
        /\ UNCHANGED <<ring, logged, sent, dropped>>
    BY <1>4 DEF L!LoadWrite, L!Load, L!At, At, L!hist
  <2>2. "write+" \in LogPlaces /\ ring.write \in Nat /\ At(w) \in AddPlaces
    BY <1>0, <2>1, BlocksType DEF LogPlaces, AddPlaces, LogTypes, Slot
  <2>3. /\ actor' \in [L!Writer -> [at : LogPlaces, held : Nat, block : Slot]]
        /\ At(w)' = "write+" /\ actor'[w].held = ring.write
        /\ \A v \in L!Writer : v # w => actor'[v] = actor[v] /\ At(v)' = At(v)
    BY <1>0, <2>1, <2>2, LoadMoves
  <2>4. ring.used < Blocks /\ ring.block[ring.write].valid /\ Newest(ring.block[ring.write].line)
    BY <2>1 DEF Orderly, AdderPlace
  <2>5. \A v \in L!Writer : v # w => At(v)' = At(v) /\ At(v) \notin AddPlaces
    BY <2>2, <2>3, Alone
  <2>6. Kept' = Kept /\ \A k : BlockAt(k)' = BlockAt(k)
    <3>1. /\ (Dropping <=> FALSE) /\ (Dropping' <=> FALSE) /\ (Uncounted <=> FALSE)
          /\ (Uncounted' <=> FALSE) /\ (Gone' <=> Gone) /\ (Leaving' <=> Leaving)
      <4>1. At(w) \in AddPlaces \cup {"idle"} /\ At(w)' \in AddPlaces \cup {"idle"}
        BY <2>2, <2>3 DEF AddPlaces
      <4> QED
        BY <2>1, <2>3, <2>5, <4>1, AdderFrame
    <3> QED
      BY <2>1, <3>1 DEF Kept, Stored, One, BlockAt
  <2>7. Newest(ring.block[ring.write].line)'
    BY <2>1, <2>4, <2>6 DEF Newest
  <2>8. AdderPlace(w)'
    BY <2>1, <2>3, <2>4, <2>7 DEF AdderPlace
  <2> QED
    BY <2>1, <2>3, <2>5, <2>8, AdderQuiet
<1>5. CASE L!Room(w)
  <2>1. /\ At(w) = "room" /\ L!Go(w, IF L!IsFull THEN "idle" ELSE "count")
        /\ UNCHANGED <<ring, logged, sent, dropped>>
    BY <1>5 DEF L!Room, L!At, At, L!hist
  <2>2. ring.used < Blocks /\ ring.used \in Nat /\ Blocks \in Nat /\ At(w) \in AddPlaces
    BY <1>0, <2>1, BlocksType DEF Orderly, AdderPlace, AddPlaces, LogTypes
  <2>3. L!Go(w, "count") /\ "count" \in LogPlaces
    BY <2>1, <2>2 DEF L!IsFull, LogPlaces, AddPlaces
  <2>4. /\ actor' \in [L!Writer -> [at : LogPlaces, held : Nat, block : Slot]]
        /\ At(w)' = "count" /\ \A v \in L!Writer : v # w => actor'[v] = actor[v] /\ At(v)' = At(v)
    BY <1>0, <2>3, GoMoves
  <2>5. AdderPlace(w)'
    BY <2>1, <2>2, <2>4 DEF AdderPlace
  <2> QED
    BY <2>1, <2>2, <2>4, <2>5, Alone, AdderQuiet
<1>6. CASE L!LoadCount(w)
  <2>1. /\ At(w) = "count" /\ actor' = [actor EXCEPT ![w].at = "count+", ![w].held = ring.used]
        /\ UNCHANGED <<ring, logged, sent, dropped>>
    BY <1>6 DEF L!LoadCount, L!Load, L!At, At, L!hist
  <2>2. "count+" \in LogPlaces /\ ring.used \in Nat /\ At(w) \in AddPlaces /\ ring.used < Blocks
    BY <1>0, <2>1, BlocksType DEF LogPlaces, AddPlaces, LogTypes, Orderly, AdderPlace
  <2>3. /\ actor' \in [L!Writer -> [at : LogPlaces, held : Nat, block : Slot]]
        /\ At(w)' = "count+" /\ actor'[w].held = ring.used
        /\ \A v \in L!Writer : v # w => actor'[v] = actor[v] /\ At(v)' = At(v)
    BY <1>0, <2>1, <2>2, LoadMoves
  <2>4. AdderPlace(w)'
    BY <2>1, <2>2, <2>3 DEF AdderPlace
  <2> QED
    BY <2>1, <2>2, <2>3, <2>4, Alone, AdderQuiet
<1> QED
  BY <1>1, <1>2, <1>3, <1>4, <1>5, <1>6

LEMMA NotAdding ==
  ASSUME NEW v, At(v)' \notin AddPlaces PROVE AdderPlace(v)'
BY DEF AdderPlace, AddPlaces

(* An index moves by one slot.                                               *)
LEMMA SlotShift ==
  ASSUME NEW i \in Slot, NEW k \in 0..Blocks
  PROVE  /\ SlotOf(i, k) \in Slot /\ SlotOf(i, Blocks) = i /\ SlotOf(i, 0) = i
         /\ k < Blocks => /\ SlotOf(SlotOf(i, 1), k) = SlotOf(i, k + 1)
                          /\ SlotOf(SlotOf(i, k), 1) = SlotOf(i, k + 1)
         /\ \A j \in 0..Blocks : j < k /\ k - j < Blocks => SlotOf(i, j) # SlotOf(i, k)
BY BlocksType DEF Slot, SlotOf

LEMMA KeptSlots ==
  ASSUME Orderly
  PROVE  /\ Stored \in Nat /\ Stored <= Blocks /\ Kept \subseteq 0..(Blocks - 1)
         /\ \A k \in Kept : SlotOf(ring.read, k) \in Slot /\ BlockAt(k) \in [valid : BOOLEAN, line : Nat]
<1>1. Stored \in 0..Blocks /\ Blocks \in Nat /\ One(Gone) \in {0, 1} /\ ring.read \in Slot
  BY BlocksType DEF Orderly, LogCounts, LogTypes, One
<1>2. Kept \subseteq 0..(Blocks - 1)
  BY <1>1 DEF Kept
<1>3. \A k \in Kept : SlotOf(ring.read, k) \in Slot
  BY <1>1, <1>2 DEF SlotOf, Slot
<1> QED
  BY <1>1, <1>2, <1>3 DEF BlockAt, Orderly, LogTypes

LEMMA BlockAtNext ==
  /\ \A k : BlockAt(k)' = ring'.block[SlotOf(ring'.read, k)]
  /\ LogCounts' <=> /\ Stored' \in 0..Blocks /\ ring'.write = SlotOf(ring'.read, Stored')
                    /\ logged' = Len(sent') + dropped' + ring'.used - One(Gone \/ Leaving)'
                                  + One(InHand \/ Uncounted)'
BY DEF BlockAt, SlotOf, LogCounts

LEMMA UsedStored ==
  ASSUME LogTypes, NEW u \in 0..Blocks, ring' = [ring EXCEPT !.used = u]
  PROVE  /\ ring'.read = ring.read /\ ring'.write = ring.write /\ ring'.used = u
         /\ ring'.block = ring.block
         /\ ring' \in [read : Slot, write : Slot, used : 0..Blocks,
                      block : [Slot -> [valid : BOOLEAN, line : Nat]]]
BY DEF LogTypes

(* A line that is too long counts as logged and as dropped.                  *)
LEMMA OversizedStep ==
  ASSUME Orderly, NEW w \in L!Writer, L!Oversized(w) PROVE Orderly'
<1>1. /\ logged' = logged + 1 /\ dropped' = dropped + 1 /\ UNCHANGED <<ring, actor, sent>>
      /\ logged \in Nat /\ dropped \in Nat /\ sent \in Seq(Nat)
  BY DEF L!Oversized, Orderly, LogTypes
<1>2. /\ Stored' = Stored /\ Kept' = Kept /\ (\A k : BlockAt(k)' = BlockAt(k))
      /\ One(Gone \/ Leaving)' = One(Gone \/ Leaving) /\ One(InHand \/ Uncounted)' = One(InHand \/ Uncounted)
  BY <1>1 DEF Stored, Kept, BlockAt, One, Dropping, Leaving, Uncounted, Gone, InHand, Any, At
<1>3. LogTypes' /\ OneAdder'
  BY <1>1 DEF Orderly, LogTypes, OneAdder, At
<1>4. LogCounts'
  <2>1. /\ ring.used \in Nat /\ Len(sent) \in Nat /\ One(Gone \/ Leaving) \in {0, 1}
        /\ One(InHand \/ Uncounted) \in {0, 1}
    BY <1>1, BlocksType DEF One, Orderly, LogTypes
  <2> QED
    BY <1>1, <1>2, <2>1 DEF Orderly, LogCounts
<1>5. \A k \in Kept : BlockAt(k).line \in Nat
  BY KeptSlots
<1>6. LinesWaiting'
  BY <1>1, <1>2, <1>5 DEF Orderly, LinesWaiting
<1>7. LinesSent'
  <2>1. \A i \in 1..Len(sent) : sent[i] \in Nat
    BY <1>1
  <2> QED
    BY <1>1, <2>1 DEF Orderly, LinesSent
<1>8. \A n \in Nat : Newest(n) => n <= logged /\ (\A i \in 1..Len(sent) : sent[i] < n)
                               /\ \A k \in Kept : BlockAt(k).line < n
  BY DEF Newest
<1>9. \A v \in L!Writer : AdderPlace(v)'
  <2> SUFFICES ASSUME NEW v \in L!Writer PROVE AdderPlace(v)'
    OBVIOUS
  <2>1. ring.block[ring.write].line \in Nat
    BY DEF Orderly, LogTypes
  <2>2. Newest(ring.block[ring.write].line) => Newest(ring.block[ring.write].line)'
    BY <1>1, <1>2, <2>1 DEF Newest
  <2>3. AdderPlace(v) /\ At(v)' = At(v) /\ At("core1")' = At("core1") /\ (Leaving' <=> Leaving)
    BY <1>1 DEF Orderly, At, Leaving
  <2> QED
    BY <1>1, <2>2, <2>3 DEF AdderPlace
<1>10. FlusherPlace'
  BY <1>1, <1>2 DEF Orderly, FlusherPlace, At
<1> QED
  BY <1>3, <1>4, <1>6, <1>7, <1>9, <1>10 DEF Orderly

(* A full ring gives up its oldest block, which core 1 is not sending.       *)
LEMMA StoreReadStep ==
  ASSUME Orderly, NEW w \in L!Writer, ~ raced', L!StoreRead(w) PROVE Orderly'
<1>0. LogTypes /\ Blocks \in Nat /\ Blocks > 0
  BY BlocksType DEF Orderly
<1>1. /\ At(w) = "evict+" /\ L!Go(w, "drop") /\ UNCHANGED <<logged, sent, dropped>>
      /\ ring' = [ring EXCEPT !.read = L!Following(actor[w].held)]
      /\ ~ L!InBlock /\ L!IsFull
  BY DEF L!StoreRead, L!Store, L!At, At, L!hist
<1>2. At("core1") \notin BlockPlaces /\ ring.used = Blocks
  BY <1>0, <1>1 DEF L!InBlock, BlockPlaces, At, L!IsFull, LogTypes
<1>3. actor[w].held = ring.read
  <2>1. ~ Leaving
    BY <1>2 DEF Leaving, BlockPlaces
  <2> QED
    BY <1>0, <1>1, <1>2, <2>1 DEF Orderly, AdderPlace
<1>4. /\ actor' \in [L!Writer -> [at : LogPlaces, held : Nat, block : Slot]]
      /\ At(w)' = "drop" /\ \A v \in L!Writer : v # w => actor'[v] = actor[v] /\ At(v)' = At(v)
  BY <1>0, <1>1, GoMoves DEF LogPlaces, AddPlaces
<1>5. At(w) \in AddPlaces /\ At(w)' \in AddPlaces
  BY <1>1, <1>4 DEF AddPlaces
<1>6. \A v \in L!Writer : v # w => At(v) \notin AddPlaces
  BY <1>5, Alone
<1>7. /\ (Dropping <=> FALSE) /\ (Dropping' <=> TRUE) /\ (Uncounted <=> FALSE) /\ (Uncounted' <=> FALSE)
      /\ (InHand <=> FALSE) /\ (InHand' <=> FALSE) /\ (Gone' <=> Gone) /\ (Leaving' <=> Leaving) /\ OneAdder'
  BY <1>1, <1>4, <1>5, <1>6, AdderFrame
<1>8. (Gone <=> FALSE) /\ (Leaving <=> FALSE) /\ At("core1")' \notin BlockPlaces
  BY <1>2, <1>4, <1>1 DEF Gone, Leaving, BlockPlaces, L!Writer
<1>9. /\ ring.read \in Slot /\ L!Following(ring.read) = SlotOf(ring.read, 1) /\ SlotOf(ring.read, 1) \in Slot
  BY <1>0, FollowingSlot DEF LogTypes
<1>10. /\ ring'.read = SlotOf(ring.read, 1) /\ ring'.write = ring.write /\ ring'.used = ring.used
       /\ ring'.block = ring.block
       /\ ring' \in [read : Slot, write : Slot, used : 0..Blocks, block : [Slot -> [valid : BOOLEAN, line : Nat]]]
  BY <1>0, <1>1, <1>3, <1>9 DEF LogTypes
<1>11. Stored = Blocks /\ Stored' = Blocks - 1 /\ Kept = 0..(Blocks - 1) /\ Kept' = 0..(Blocks - 2)
  BY <1>0, <1>2, <1>7, <1>8, <1>10 DEF Stored, Kept, One
<1>12. \A k \in Kept' : k + 1 \in Kept /\ BlockAt(k)' = BlockAt(k + 1)
  <2> SUFFICES ASSUME NEW k \in Kept' PROVE k + 1 \in Kept /\ BlockAt(k)' = BlockAt(k + 1)
    OBVIOUS
  <2>1. k \in 0..Blocks /\ k < Blocks /\ k + 1 \in Kept
    BY <1>0, <1>11
  <2>2. SlotOf(ring'.read, k) = SlotOf(ring.read, k + 1)
    BY <1>9, <1>10, <2>1, SlotShift
  <2>3. BlockAt(k)' = ring'.block[SlotOf(ring'.read, k)]
    BY BlockAtNext
  <2> QED
    BY <1>10, <2>1, <2>2, <2>3 DEF BlockAt
<1>13. LogTypes'
  BY <1>0, <1>1, <1>4, <1>10 DEF LogTypes
<1>14. LogCounts'
  <2>1. ring'.write = SlotOf(ring'.read, Blocks - 1)
    <3>1. Blocks - 1 \in 0..Blocks /\ Blocks - 1 < Blocks /\ (Blocks - 1) + 1 = Blocks /\ Blocks \in 0..Blocks
      BY <1>0
    <3>2. SlotOf(ring'.read, Blocks - 1) = SlotOf(ring.read, (Blocks - 1) + 1)
      BY <1>9, <1>10, <3>1, SlotShift
    <3>3. SlotOf(ring.read, Blocks) = ring.read
      BY <1>9, <3>1, SlotShift
    <3>4. ring.write = SlotOf(ring.read, Blocks)
      BY <1>11 DEF Orderly, LogCounts
    <3> QED
      BY <1>10, <3>1, <3>2, <3>3, <3>4
  <2>2. logged = Len(sent) + dropped + ring.used
    BY <1>0, <1>7, <1>8 DEF Orderly, LogCounts, One, LogTypes
  <2>3. logged' = Len(sent') + dropped' + ring'.used - One(Gone \/ Leaving)' + One(InHand \/ Uncounted)'
    BY <1>0, <1>1, <1>2, <1>7, <1>8, <1>10, <2>2 DEF One, LogTypes
  <2>4. Stored' \in 0..Blocks /\ ring'.write = SlotOf(ring'.read, Stored')
    BY <1>0, <1>11, <2>1
  <2> QED
    BY <2>3, <2>4, BlockAtNext
<1>15. LinesWaiting'
  <2> SUFFICES ASSUME NEW k \in Kept'
               PROVE  /\ BlockAt(k)'.valid /\ BlockAt(k)'.line <= logged'
                      /\ \A i \in 1..Len(sent') : sent'[i] < BlockAt(k)'.line
                      /\ \A j \in Kept' : j < k => BlockAt(j)'.line < BlockAt(k)'.line
    BY DEF LinesWaiting
  <2>1. k + 1 \in Kept /\ BlockAt(k)' = BlockAt(k + 1)
    BY <1>12
  <2>2. \A j \in Kept' : j < k => j + 1 \in Kept /\ j + 1 < k + 1 /\ BlockAt(j)' = BlockAt(j + 1)
    BY <1>0, <1>11, <1>12
  <2> HIDE DEF BlockAt, Kept
  <2> QED
    BY <1>1, <2>1, <2>2 DEF Orderly, LinesWaiting
<1>16. LinesSent'
  BY <1>1 DEF Orderly, LinesSent
<1>17. \A v \in L!Writer : AdderPlace(v)'
  <2>1. AdderPlace(w)'
    BY <1>2, <1>4, <1>8, <1>10 DEF AdderPlace
  <2> QED
    BY <1>4, <1>6, <2>1, NotAdding
<1>18. FlusherPlace'
  BY <1>8 DEF FlusherPlace, BlockPlaces
<1> QED
  BY <1>7, <1>13, <1>14, <1>15, <1>16, <1>17, <1>18 DEF Orderly

(* ... and the count follows.                                                *)
LEMMA StoreUsedStep ==
  ASSUME Orderly, NEW w \in L!Writer, L!StoreUsed(w) PROVE Orderly'
<1>0. LogTypes /\ Blocks \in Nat /\ Blocks > 0
  BY BlocksType DEF Orderly
<1>1. /\ At(w) = "drop+" /\ L!Go(w, "mark") /\ UNCHANGED <<logged, sent>> /\ dropped' = dropped + 1
      /\ ring' = [ring EXCEPT !.used = (actor[w].held - 1) % CountMod]
  BY DEF L!StoreUsed, L!Store, L!At, At
<1>2. ring.used = Blocks /\ At("core1") \notin BlockPlaces /\ actor[w].held = ring.used
  BY <1>1 DEF Orderly, AdderPlace
<1>3. (actor[w].held - 1) % CountMod = Blocks - 1
  BY <1>0, <1>2, SmallCount
<1>9. /\ ring' = [ring EXCEPT !.used = Blocks - 1]
      /\ logged' = logged /\ sent' = sent /\ dropped' = dropped + 1
  BY <1>1, <1>3
<1>4. /\ actor' \in [L!Writer -> [at : LogPlaces, held : Nat, block : Slot]]
      /\ At(w)' = "mark" /\ \A v \in L!Writer : v # w => actor'[v] = actor[v] /\ At(v)' = At(v)
  BY <1>0, <1>1, GoMoves DEF LogPlaces, AddPlaces
<1>5. At(w) \in AddPlaces /\ At(w)' \in AddPlaces
  BY <1>1, <1>4 DEF AddPlaces
<1>6. \A v \in L!Writer : v # w => At(v) \notin AddPlaces
  BY <1>5, Alone
<1>7. /\ (Dropping <=> TRUE) /\ (Dropping' <=> FALSE) /\ (Uncounted <=> FALSE) /\ (Uncounted' <=> FALSE)
      /\ (InHand <=> FALSE) /\ (InHand' <=> FALSE) /\ (Gone' <=> Gone) /\ (Leaving' <=> Leaving) /\ OneAdder'
  BY <1>1, <1>4, <1>5, <1>6, AdderFrame
<1>8. (Gone <=> FALSE) /\ (Leaving <=> FALSE) /\ At("core1")' \notin BlockPlaces
  BY <1>2, <1>4 DEF Gone, Leaving, BlockPlaces, L!Writer
<1>10. /\ ring'.read = ring.read /\ ring'.write = ring.write /\ ring'.used = Blocks - 1
       /\ ring'.block = ring.block
       /\ ring' \in [read : Slot, write : Slot, used : 0..Blocks, block : [Slot -> [valid : BOOLEAN, line : Nat]]]
  <2>1. Blocks - 1 \in 0..Blocks
    BY <1>0
  <2> QED
    BY <1>0, <1>9, <2>1, UsedStored
<1>11. Stored' = Stored /\ Kept' = Kept /\ \A k : BlockAt(k)' = BlockAt(k)
  BY <1>0, <1>2, <1>7, <1>8, <1>10 DEF Stored, Kept, One, BlockAt
<1>13. LogTypes'
  <2>1. logged' \in Nat /\ sent' \in Seq(Nat) /\ dropped' \in Nat
    BY <1>0, <1>9 DEF LogTypes
  <2> QED
    BY <1>4, <1>10, <2>1 DEF LogTypes
<1>14. LogCounts'
  <2>1. logged = Len(sent) + dropped + Blocks /\ dropped \in Nat /\ Len(sent) \in Nat
    BY <1>0, <1>2, <1>7, <1>8 DEF Orderly, LogCounts, One, LogTypes
  <2>2. logged' = Len(sent') + dropped' + ring'.used
    BY <1>0, <1>9, <1>10, <2>1
  <2>3. Stored' \in 0..Blocks /\ ring'.write = SlotOf(ring'.read, Stored')
    BY <1>10, <1>11 DEF Orderly, LogCounts
  <2>4. logged' = Len(sent') + dropped' + ring'.used - One(Gone \/ Leaving)' + One(InHand \/ Uncounted)'
    BY <1>0, <1>7, <1>8, <1>10, <1>13, <2>2 DEF One, LogTypes
  <2> QED
    BY <2>3, <2>4, BlockAtNext
<1>15. LinesWaiting'
  BY <1>1, <1>11 DEF Orderly, LinesWaiting
<1>16. LinesSent'
  BY <1>1 DEF Orderly, LinesSent
<1>17. \A v \in L!Writer : AdderPlace(v)'
  <2>1. AdderPlace(w)'
    BY <1>0, <1>4, <1>10 DEF AdderPlace
  <2> QED
    BY <1>4, <1>6, <2>1, NotAdding
<1>18. FlusherPlace'
  BY <1>8 DEF FlusherPlace, BlockPlaces
<1> QED
  BY <1>7, <1>13, <1>14, <1>15, <1>16, <1>17, <1>18 DEF Orderly

(* The block at the write index is marked valid,                             *)
LEMMA MarkValidStep ==
  ASSUME Orderly, NEW w \in L!Writer, L!MarkValid(w) PROVE Orderly'
<1>0. LogTypes /\ Blocks \in Nat /\ Blocks > 0 /\ ring.write \in Slot /\ ring.read \in Slot
  BY BlocksType DEF Orderly, LogTypes
<1>1. /\ At(w) = "mark" /\ actor' = [actor EXCEPT ![w].at = "fill", ![w].block = ring.write]
      /\ UNCHANGED <<logged, sent, dropped>>
      /\ ring' = [ring EXCEPT !.block[ring.write].valid = TRUE]
  BY DEF L!MarkValid, L!At, At, L!hist
<1>2. ring.used < Blocks
  BY <1>1 DEF Orderly, AdderPlace
<1>4. /\ actor' \in [L!Writer -> [at : LogPlaces, held : Nat, block : Slot]]
      /\ At(w)' = "fill" /\ actor'[w].block = ring.write
      /\ \A v \in L!Writer : v # w => actor'[v] = actor[v] /\ At(v)' = At(v)
  BY <1>0, <1>1, TakeMoves DEF LogPlaces, AddPlaces
<1>5. At(w) \in AddPlaces /\ At(w)' \in AddPlaces
  BY <1>1, <1>4 DEF AddPlaces
<1>6. \A v \in L!Writer : v # w => At(v) \notin AddPlaces
  BY <1>5, Alone
<1>7. /\ (Dropping <=> FALSE) /\ (Dropping' <=> FALSE) /\ (Uncounted <=> FALSE) /\ (Uncounted' <=> FALSE)
      /\ (InHand <=> FALSE) /\ (InHand' <=> FALSE) /\ (Gone' <=> Gone) /\ (Leaving' <=> Leaving) /\ OneAdder'
  BY <1>1, <1>4, <1>5, <1>6, AdderFrame
<1>8. /\ ring'.read = ring.read /\ ring'.write = ring.write /\ ring'.used = ring.used
      /\ ring'.block \in [Slot -> [valid : BOOLEAN, line : Nat]]
      /\ ring'.block[ring.write].valid
      /\ \A s \in Slot : /\ ring'.block[s].line = ring.block[s].line
                         /\ ring.block[s].valid => ring'.block[s].valid
      /\ ring' \in [read : Slot, write : Slot, used : 0..Blocks, block : [Slot -> [valid : BOOLEAN, line : Nat]]]
  BY <1>0, <1>1 DEF LogTypes
<1>9. Stored' = Stored /\ Kept' = Kept
  BY <1>7, <1>8 DEF Stored, Kept, One
<1>10. \A k \in Kept : BlockAt(k)'.line = BlockAt(k).line /\ (BlockAt(k).valid => BlockAt(k)'.valid)
  <2> SUFFICES ASSUME NEW k \in Kept
               PROVE  BlockAt(k)'.line = BlockAt(k).line /\ (BlockAt(k).valid => BlockAt(k)'.valid)
    OBVIOUS
  <2>1. SlotOf(ring.read, k) \in Slot /\ BlockAt(k) = ring.block[SlotOf(ring.read, k)]
    BY KeptSlots DEF BlockAt
  <2>2. BlockAt(k)' = ring'.block[SlotOf(ring.read, k)]
    BY <1>8, BlockAtNext
  <2>3. /\ ring'.block[SlotOf(ring.read, k)].line = ring.block[SlotOf(ring.read, k)].line
        /\ ring.block[SlotOf(ring.read, k)].valid => ring'.block[SlotOf(ring.read, k)].valid
    BY <1>8, <2>1
  <2> QED
    BY <2>1, <2>2, <2>3
<1>11. LogTypes'
  BY <1>0, <1>1, <1>4, <1>8 DEF LogTypes
<1>12. LogCounts'
  BY <1>1, <1>7, <1>8, <1>9, BlockAtNext DEF Orderly, LogCounts, One
<1>13. LinesWaiting'
  BY <1>1, <1>9, <1>10 DEF Orderly, LinesWaiting
<1>14. LinesSent'
  BY <1>1 DEF Orderly, LinesSent
<1>15. \A v \in L!Writer : AdderPlace(v)'
  <2>1. AdderPlace(w)'
    BY <1>2, <1>4, <1>8 DEF AdderPlace
  <2> QED
    BY <1>4, <1>6, <2>1, NotAdding
<1>16. FlusherPlace'
  <2>1. CASE w = "core1"
    BY <1>4, <2>1 DEF FlusherPlace, BlockPlaces
  <2>2. CASE w # "core1"
    <3>1. "core1" \in L!Writer
      BY DEF L!Writer
    <3>2. actor'["core1"] = actor["core1"] /\ At("core1")' = At("core1")
      BY <1>4, <2>2, <3>1
    <3>3. BlockAt(0)'.line = BlockAt(0).line
      <4>1. SlotOf(ring.read, 0) = ring.read /\ BlockAt(0) = ring.block[SlotOf(ring.read, 0)]
        BY <1>0 DEF SlotOf, Slot, BlockAt
      <4>2. BlockAt(0)' = ring'.block[SlotOf(ring.read, 0)]
        BY <1>8, BlockAtNext
      <4>3. ring'.block[SlotOf(ring.read, 0)].line = ring.block[SlotOf(ring.read, 0)].line
        BY <1>0, <1>8, <4>1
      <4> QED
        BY <4>1, <4>2, <4>3
    <3> QED
      BY <1>8, <3>2, <3>3 DEF FlusherPlace, Orderly
  <2> QED
    BY <2>1, <2>2
<1> QED
  BY <1>7, <1>11, <1>12, <1>13, <1>14, <1>15, <1>16 DEF Orderly

(* gets its line, which is the newest,                                       *)
LEMMA FillStep ==
  ASSUME Orderly, NEW w \in L!Writer, L!Fill(w) PROVE Orderly'
<1>0. /\ LogTypes /\ Blocks \in Nat /\ Blocks > 0 /\ ring.write \in Slot /\ ring.read \in Slot
      /\ logged \in Nat /\ logged + 1 \in Nat
  BY BlocksType DEF Orderly, LogTypes
<1>1. /\ At(w) = "fill" /\ L!Go(w, "write") /\ UNCHANGED <<sent, dropped>> /\ logged' = logged + 1
      /\ ring' = [ring EXCEPT !.block[actor[w].block].line = logged + 1]
  BY DEF L!Fill, L!At, At
<1>2. ring.used < Blocks /\ actor[w].block = ring.write /\ ring.block[ring.write].valid
  BY <1>1 DEF Orderly, AdderPlace
<1>4. /\ actor' \in [L!Writer -> [at : LogPlaces, held : Nat, block : Slot]]
      /\ At(w)' = "write"
      /\ \A v \in L!Writer : v # w => actor'[v] = actor[v] /\ At(v)' = At(v)
  BY <1>0, <1>1, GoMoves DEF LogPlaces, AddPlaces
<1>5. At(w) \in AddPlaces /\ At(w)' \in AddPlaces
  BY <1>1, <1>4 DEF AddPlaces
<1>6. \A v \in L!Writer : v # w => At(v) \notin AddPlaces
  BY <1>5, Alone
<1>7. /\ (Dropping <=> FALSE) /\ (Dropping' <=> FALSE) /\ (Uncounted <=> FALSE) /\ (Uncounted' <=> FALSE)
      /\ (InHand <=> FALSE) /\ (InHand' <=> TRUE) /\ (Gone' <=> Gone) /\ (Leaving' <=> Leaving) /\ OneAdder'
  BY <1>1, <1>4, <1>5, <1>6, AdderFrame
<1>8. /\ ring'.read = ring.read /\ ring'.write = ring.write /\ ring'.used = ring.used
      /\ ring'.block \in [Slot -> [valid : BOOLEAN, line : Nat]]
      /\ ring'.block[ring.write].valid /\ ring'.block[ring.write].line = logged + 1
      /\ \A s \in Slot : s # ring.write => ring'.block[s] = ring.block[s]
      /\ ring' \in [read : Slot, write : Slot, used : 0..Blocks, block : [Slot -> [valid : BOOLEAN, line : Nat]]]
  <2> DEFINE n == logged + 1
  <2>1. n \in Nat /\ ring' = [ring EXCEPT !.block[ring.write].line = n]
    BY <1>0, <1>1, <1>2
  <2> HIDE DEF n
  <2>2. /\ ring'.read = ring.read /\ ring'.write = ring.write /\ ring'.used = ring.used
        /\ ring'.block \in [Slot -> [valid : BOOLEAN, line : Nat]]
        /\ ring'.block[ring.write].valid /\ ring'.block[ring.write].line = n
        /\ \A s \in Slot : s # ring.write => ring'.block[s] = ring.block[s]
        /\ ring' \in [read : Slot, write : Slot, used : 0..Blocks, block : [Slot -> [valid : BOOLEAN, line : Nat]]]
    BY <1>0, <1>2, <2>1 DEF LogTypes
  <2> QED
    BY <2>2 DEF n
<1>9. Stored' = Stored /\ Kept' = Kept /\ Stored < Blocks /\ Stored = ring.used - One(Leaving)
  BY <1>0, <1>2, <1>7, <1>8 DEF Stored, Kept, One, LogTypes
<1>10. \A k \in Kept : BlockAt(k)' = BlockAt(k)
  <2> SUFFICES ASSUME NEW k \in Kept PROVE BlockAt(k)' = BlockAt(k)
    OBVIOUS
  <2>1. SlotOf(ring.read, k) \in Slot /\ k \in 0..(Blocks - 1) /\ k < Stored /\ Stored \in 0..Blocks
    BY <1>9, KeptSlots DEF Kept, One
  <2>2. SlotOf(ring.read, k) # ring.write
    <3>1. ring.write = SlotOf(ring.read, Stored) /\ ring.read \in Slot
      BY <1>0 DEF Orderly, LogCounts, LogTypes
    <3>2. Stored < Blocks /\ Blocks \in Nat
      BY <1>9, BlocksType
    <3> QED
      BY <2>1, <3>1, <3>2 DEF SlotOf, Slot
  <2> QED
    BY <1>8, <2>1, <2>2, BlockAtNext DEF BlockAt
<1>11. LogTypes'
  BY <1>0, <1>1, <1>4, <1>8 DEF LogTypes
<1>12. LogCounts'
  <2>1. logged = Len(sent) + dropped + ring.used - One(Gone \/ Leaving)
    BY <1>0, <1>7 DEF Orderly, LogCounts, One, LogTypes
  <2>2. /\ Len(sent) \in Nat /\ dropped \in Nat /\ ring.used \in Nat /\ One(Gone \/ Leaving) \in {0, 1}
        /\ One(Gone \/ Leaving)' = One(Gone \/ Leaving) /\ One(InHand \/ Uncounted)' = 1
    BY <1>0, <1>7 DEF LogTypes, One
  <2>3. logged' = Len(sent') + dropped' + ring'.used - One(Gone \/ Leaving)' + One(InHand \/ Uncounted)'
    BY <1>1, <1>8, <2>1, <2>2
  <2> QED
    BY <1>8, <1>9, <2>3, BlockAtNext DEF Orderly, LogCounts
<1>13. \A k \in Kept : BlockAt(k).line \in Nat /\ BlockAt(k).line <= logged
  BY KeptSlots DEF Orderly, LinesWaiting
<1>14. LinesWaiting'
  BY <1>0, <1>1, <1>9, <1>10, <1>13 DEF Orderly, LinesWaiting
<1>15. \A i \in 1..Len(sent) : sent[i] \in Nat /\ sent[i] <= logged
  BY <1>0 DEF LogTypes, Orderly, LinesSent
<1>16. LinesSent'
  BY <1>0, <1>1, <1>15 DEF Orderly, LinesSent
<1>17. \A v \in L!Writer : AdderPlace(v)'
  <2>1. Newest(ring.block[ring.write].line)'
    BY <1>0, <1>1, <1>8, <1>9, <1>10, <1>13, <1>15 DEF Newest
  <2>2. AdderPlace(w)'
    BY <1>2, <1>4, <1>8, <2>1 DEF AdderPlace
  <2> QED
    BY <1>4, <1>6, <2>2, NotAdding
<1>18. FlusherPlace'
  <2>1. CASE w = "core1"
    BY <1>4, <2>1 DEF FlusherPlace, BlockPlaces
  <2>2. CASE w # "core1"
    <3>1. "core1" \in L!Writer
      BY DEF L!Writer
    <3>2. actor'["core1"] = actor["core1"] /\ At("core1")' = At("core1")
      BY <1>4, <2>2, <3>1
    <3>3. ASSUME At("core1") = "send" PROVE BlockAt(0)' = BlockAt(0)
      <4>1. ~ Gone /\ ~ Leaving /\ ring.used >= 1
        BY <3>3 DEF Gone, Leaving, Orderly, FlusherPlace, BlockPlaces
      <4>2. 0 \in Kept
        BY <1>0, <1>9, <4>1 DEF Kept, One, LogTypes
      <4> QED
        BY <1>10, <4>2
    <3> QED
      BY <1>8, <3>2, <3>3 DEF FlusherPlace, Orderly
  <2> QED
    BY <2>1, <2>2
<1> QED
  BY <1>7, <1>11, <1>12, <1>14, <1>16, <1>17, <1>18 DEF Orderly

(* the write index passes it,                                                *)
LEMMA StoreWriteStep ==
  ASSUME Orderly, NEW w \in L!Writer, L!StoreWrite(w) PROVE Orderly'
<1>0. /\ LogTypes /\ Blocks \in Nat /\ Blocks > 0 /\ ring.write \in Slot /\ ring.read \in Slot
      /\ logged \in Nat
  BY BlocksType DEF Orderly, LogTypes
<1>1. /\ At(w) = "write+" /\ L!Go(w, "room") /\ UNCHANGED <<logged, sent, dropped>>
      /\ ring' = [ring EXCEPT !.write = L!Following(actor[w].held)]
  BY DEF L!StoreWrite, L!Store, L!At, At, L!hist
<1>2. /\ ring.used < Blocks /\ actor[w].held = ring.write /\ ring.block[ring.write].valid
      /\ Newest(ring.block[ring.write].line)
  BY <1>1 DEF Orderly, AdderPlace
<1>4. /\ actor' \in [L!Writer -> [at : LogPlaces, held : Nat, block : Slot]]
      /\ At(w)' = "room"
      /\ \A v \in L!Writer : v # w => actor'[v] = actor[v] /\ At(v)' = At(v)
  BY <1>0, <1>1, GoMoves DEF LogPlaces, AddPlaces
<1>5. At(w) \in AddPlaces /\ At(w)' \in AddPlaces
  BY <1>1, <1>4 DEF AddPlaces
<1>6. \A v \in L!Writer : v # w => At(v) \notin AddPlaces
  BY <1>5, Alone
<1>7. /\ (Dropping <=> FALSE) /\ (Dropping' <=> FALSE) /\ (Uncounted <=> FALSE) /\ (Uncounted' <=> TRUE)
      /\ (InHand <=> TRUE) /\ (InHand' <=> FALSE) /\ (Gone' <=> Gone) /\ (Leaving' <=> Leaving) /\ OneAdder'
  BY <1>1, <1>4, <1>5, <1>6, AdderFrame
<1>8. /\ ring'.read = ring.read /\ ring'.write = SlotOf(ring.write, 1) /\ ring'.used = ring.used
      /\ ring'.block = ring.block
      /\ ring' \in [read : Slot, write : Slot, used : 0..Blocks, block : [Slot -> [valid : BOOLEAN, line : Nat]]]
  <2>1. L!Following(ring.write) = SlotOf(ring.write, 1) /\ SlotOf(ring.write, 1) \in Slot
    BY <1>0, FollowingSlot
  <2> QED
    BY <1>0, <1>1, <1>2, <2>1 DEF LogTypes
<1>9. Stored' = Stored + 1 /\ Stored < Blocks /\ Stored \in Nat /\ One(Gone) \in {0, 1} /\ One(Gone)' = One(Gone)
  BY <1>0, <1>2, <1>7, <1>8, KeptSlots DEF Stored, One, LogTypes
<1>10. Kept = One(Gone)..(Stored - 1) /\ Kept' = One(Gone)..Stored
  BY <1>9 DEF Kept
<1>11. \A k : BlockAt(k)' = BlockAt(k)
  <2>1. \A k : BlockAt(k)' = ring.block[SlotOf(ring.read, k)]
    BY <1>8, BlockAtNext
  <2> QED
    BY <2>1 DEF BlockAt
<1>12. LogTypes'
  BY <1>0, <1>1, <1>4, <1>8 DEF LogTypes
<1>13. ring.write = SlotOf(ring.read, Stored)
  BY DEF Orderly, LogCounts
<1>14. LogCounts'
  <2>1. SlotOf(SlotOf(ring.read, Stored), 1) = SlotOf(ring.read, Stored + 1)
    BY <1>0, <1>9, SlotShift
  <2>2. Stored' \in 0..Blocks /\ ring'.write = SlotOf(ring'.read, Stored')
    BY <1>0, <1>8, <1>9, <1>13, <2>1
  <2>3. /\ One(Gone \/ Leaving)' = One(Gone \/ Leaving)
        /\ One(InHand \/ Uncounted)' = One(InHand \/ Uncounted)
    BY <1>7 DEF One
  <2> QED
    BY <1>1, <1>8, <2>2, <2>3, BlockAtNext DEF Orderly, LogCounts
<1>15. \A k \in Kept' : k \in Kept \/ (k = Stored /\ BlockAt(k) = ring.block[ring.write])
  BY <1>9, <1>10, <1>13 DEF BlockAt
<1>16. LinesWaiting'
  <2> SUFFICES ASSUME NEW k \in Kept'
               PROVE  /\ BlockAt(k)'.valid /\ BlockAt(k)'.line <= logged'
                      /\ \A i \in 1..Len(sent') : sent'[i] < BlockAt(k)'.line
                      /\ \A j \in Kept' : j < k => BlockAt(j)'.line < BlockAt(k)'.line
    BY DEF LinesWaiting
  <2>1. CASE k \in Kept
    <3>1. \A j \in Kept' : j < k => j \in Kept
      BY <1>9, <1>10, <2>1
    <3> QED
      BY <1>1, <1>11, <2>1, <3>1 DEF Orderly, LinesWaiting
  <2>2. CASE k = Stored /\ BlockAt(k) = ring.block[ring.write]
    <3>1. \A j \in Kept' : j < k => j \in Kept
      BY <1>9, <1>10, <2>2
    <3> QED
      BY <1>1, <1>2, <1>11, <2>2, <3>1 DEF Newest
  <2> QED
    BY <1>15, <2>1, <2>2
<1>17. LinesSent'
  BY <1>1 DEF Orderly, LinesSent
<1>18. \A v \in L!Writer : AdderPlace(v)'
  <2>1. AdderPlace(w)'
    BY <1>2, <1>4, <1>8 DEF AdderPlace
  <2> QED
    BY <1>4, <1>6, <2>1, NotAdding
<1>19. FlusherPlace'
  <2>1. CASE w = "core1"
    BY <1>4, <2>1 DEF FlusherPlace, BlockPlaces
  <2>2. CASE w # "core1"
    <3>1. "core1" \in L!Writer
      BY DEF L!Writer
    <3>2. actor'["core1"] = actor["core1"] /\ At("core1")' = At("core1")
      BY <1>4, <2>2, <3>1
    <3> QED
      BY <1>8, <1>11, <3>2 DEF FlusherPlace, Orderly
  <2> QED
    BY <2>1, <2>2
<1> QED
  BY <1>7, <1>12, <1>14, <1>16, <1>17, <1>18, <1>19 DEF Orderly

(* and it is counted.                                                        *)
LEMMA StoreCountStep ==
  ASSUME Orderly, NEW w \in L!Writer, ~ raced', L!StoreCount(w) PROVE Orderly'
<1>0. LogTypes /\ Blocks \in Nat /\ Blocks > 0 /\ ring.used \in 0..Blocks
  BY BlocksType DEF Orderly, LogTypes
<1>1. /\ At(w) = "count+" /\ L!Go(w, "idle") /\ UNCHANGED <<logged, sent, dropped>>
      /\ ring' = [ring EXCEPT !.used = (actor[w].held + 1) % CountMod] /\ actor[w].held = ring.used
  BY DEF L!StoreCount, L!Store, L!At, At, L!hist, L!Overtaken
<1>2. ring.used < Blocks
  BY <1>1 DEF Orderly, AdderPlace
<1>3. (actor[w].held + 1) % CountMod = ring.used + 1 /\ ring.used + 1 \in 0..Blocks
  <2>1. ring.used + 1 \in 0..Blocks
    BY <1>0, <1>2
  <2> QED
    BY <1>1, <2>1, SmallCount
<1>9. ring' = [ring EXCEPT !.used = ring.used + 1] /\ logged' = logged /\ sent' = sent /\ dropped' = dropped
  BY <1>1, <1>3
<1>4. /\ actor' \in [L!Writer -> [at : LogPlaces, held : Nat, block : Slot]]
      /\ At(w)' = "idle" /\ \A v \in L!Writer : v # w => actor'[v] = actor[v] /\ At(v)' = At(v)
  BY <1>0, <1>1, GoMoves DEF LogPlaces
<1>5. At(w) \in AddPlaces /\ At(w)' = "idle"
  BY <1>1, <1>4 DEF AddPlaces
<1>6. \A v \in L!Writer : v # w => At(v) \notin AddPlaces
  BY <1>5, Alone
<1>7. /\ (Dropping <=> FALSE) /\ (Dropping' <=> FALSE) /\ (Uncounted <=> TRUE) /\ (Uncounted' <=> FALSE)
      /\ (InHand <=> FALSE) /\ (InHand' <=> FALSE) /\ (Gone' <=> Gone) /\ (Leaving' <=> Leaving) /\ OneAdder'
  BY <1>1, <1>4, <1>5, <1>6, AdderFrame
<1>10. /\ ring'.read = ring.read /\ ring'.write = ring.write /\ ring'.used = ring.used + 1
       /\ ring'.block = ring.block
       /\ ring' \in [read : Slot, write : Slot, used : 0..Blocks, block : [Slot -> [valid : BOOLEAN, line : Nat]]]
  BY <1>0, <1>3, <1>9, UsedStored
<1>11. Stored' = Stored /\ Kept' = Kept /\ \A k : BlockAt(k)' = BlockAt(k)
  <2>1. Stored' = Stored
    BY <1>0, <1>7, <1>10 DEF Stored, One
  <2>2. Kept' = Kept
    BY <1>7, <2>1 DEF Kept, One
  <2>3. \A k : BlockAt(k)' = ring.block[SlotOf(ring.read, k)]
    BY <1>10, BlockAtNext
  <2> QED
    BY <2>1, <2>2, <2>3 DEF BlockAt
<1>13. LogTypes'
  BY <1>0, <1>4, <1>9, <1>10 DEF LogTypes
<1>14. LogCounts'
  <2>1. /\ One(Gone \/ Leaving)' = One(Gone \/ Leaving) /\ One(Gone \/ Leaving) \in {0, 1}
        /\ One(InHand \/ Uncounted)' = 0 /\ One(InHand \/ Uncounted) = 1
        /\ Len(sent) \in Nat /\ dropped \in Nat
    BY <1>0, <1>7 DEF One, LogTypes
  <2>2. logged = Len(sent) + dropped + ring.used - One(Gone \/ Leaving) + 1
    BY <2>1 DEF Orderly, LogCounts
  <2>3. logged' = Len(sent') + dropped' + ring'.used - One(Gone \/ Leaving)' + One(InHand \/ Uncounted)'
    <3>1. logged = Len(sent) + dropped + (ring.used + 1) - One(Gone \/ Leaving) + 0
      BY <1>0, <2>1, <2>2
    <3> QED
      BY <1>9, <1>10, <2>1, <3>1
  <2>4. Stored' \in 0..Blocks /\ ring'.write = SlotOf(ring'.read, Stored')
    BY <1>10, <1>11 DEF Orderly, LogCounts
  <2> QED
    BY <2>3, <2>4, BlockAtNext
<1>15. LinesWaiting'
  BY <1>1, <1>11 DEF Orderly, LinesWaiting
<1>16. LinesSent'
  BY <1>1 DEF Orderly, LinesSent
<1>17. \A v \in L!Writer : AdderPlace(v)'
  <2>1. At(w)' \notin AddPlaces
    BY <1>4 DEF AddPlaces
  <2> QED
    BY <1>4, <1>6, <2>1, NotAdding
<1>18. FlusherPlace'
  <2>1. CASE w = "core1"
    BY <1>4, <2>1 DEF FlusherPlace, BlockPlaces
  <2>2. CASE w # "core1"
    <3>1. "core1" \in L!Writer
      BY DEF L!Writer
    <3>2. actor'["core1"] = actor["core1"] /\ At("core1")' = At("core1")
      BY <1>4, <2>2, <3>1
    <3> QED
      BY <1>0, <1>10, <1>11, <3>2 DEF FlusherPlace, Orderly
  <2> QED
    BY <2>1, <2>2
<1> QED
  BY <1>7, <1>13, <1>14, <1>15, <1>16, <1>17, <1>18 DEF Orderly

(* While core 1 is in a block no block is given up, and the first one holds a
   line that waits until it has been sent.                                   *)
LEMMA InBlock ==
  ASSUME Orderly, At("core1") \in BlockPlaces
  PROVE  /\ (Dropping <=> FALSE) /\ ring.used \in Nat /\ ring.used >= 1 /\ ring.used <= Blocks
         /\ Stored = ring.used - One(Leaving) + One(Uncounted)
         /\ ~ Gone /\ ~ Leaving => 0 \in Kept
<1>0. LogTypes /\ Blocks \in Nat /\ ring.used \in 0..Blocks /\ ring.used >= 1
  BY BlocksType DEF Orderly, LogTypes, FlusherPlace
<1>1. Dropping <=> FALSE
  <2>1. At("core0") \notin {"drop", "drop+"}
    BY DEF Orderly, AdderPlace, L!Writer
  <2> QED
    BY <2>1 DEF Dropping, Any, BlockPlaces, L!Writer
<1>2. Stored = ring.used - One(Leaving) + One(Uncounted)
  BY <1>0, <1>1 DEF Stored, One
<1>3. ~ Gone /\ ~ Leaving => 0 \in Kept
  BY <1>0, <1>2 DEF Kept, One
<1> QED
  BY <1>0, <1>1, <1>2, <1>3

(* The loads of flush, and the choices it makes on the count.                *)
LEMMA FlusherQuiet ==
  ASSUME Orderly, UNCHANGED <<ring, logged, sent, dropped>>,
         actor' \in [L!Writer -> [at : LogPlaces, held : Nat, block : Slot]],
         actor'["core0"] = actor["core0"] /\ At("core0")' = At("core0"),
         At("core1") \notin AddPlaces, At("core1")' \notin AddPlaces,
         Gone' <=> Gone, Leaving' <=> Leaving,
         Dropping => At("core1")' \notin BlockPlaces,
         (\A k : BlockAt(k)' = BlockAt(k)) => FlusherPlace'
  PROVE  Orderly'
<1>1. /\ (Dropping' <=> Dropping) /\ (Uncounted' <=> Uncounted) /\ (InHand' <=> InHand) /\ OneAdder'
      /\ Dropping <=> At("core0") \in {"drop", "drop+"}
  BY FlusherFrame
<1>2. /\ One(Dropping)' = One(Dropping) /\ One(Leaving)' = One(Leaving)
      /\ One(Uncounted)' = One(Uncounted) /\ One(Gone)' = One(Gone)
      /\ One(Gone \/ Leaving)' = One(Gone \/ Leaving)
      /\ One(InHand \/ Uncounted)' = One(InHand \/ Uncounted)
  BY <1>1 DEF One
<1>3. /\ LogCounts' /\ LinesWaiting' /\ LinesSent' /\ Stored' = Stored /\ Kept' = Kept
      /\ \A k : BlockAt(k)' = BlockAt(k)
  BY <1>2, QuietStep
<1>4. LogTypes'
  BY DEF Orderly, LogTypes
<1>5. AdderPlace("core0")'
  <2>1. AdderPlace("core0")
    BY DEF Orderly, L!Writer
  <2>2. Newest(ring.block[ring.write].line) => Newest(ring.block[ring.write].line)'
    BY <1>3 DEF Newest
  <2>3. At("core0") \in {"drop", "drop+"} => At("core1")' \notin BlockPlaces
    BY <1>1
  <2> QED
    BY <2>1, <2>2, <2>3 DEF AdderPlace
<1>6. \A v \in L!Writer : AdderPlace(v)'
  BY <1>5, NotAdding DEF L!Writer
<1> QED
  BY <1>1, <1>3, <1>4, <1>6 DEF Orderly

LEMMA FlusherLoads ==
  ASSUME Orderly, ~ raced',
         \/ L!Flush \/ L!IsEmpty \/ L!TakeBlock \/ L!Extract \/ (L!CdcWrite /\ ~ usb)
         \/ L!LoadNext \/ L!LoadLess
  PROVE  Orderly'
<1>0. /\ LogTypes /\ Blocks \in Nat /\ ring.used \in 0..Blocks /\ ring.read \in Slot /\ ring.used \in Nat
      /\ ring.read \in Nat /\ "core1" \in L!Writer /\ "core0" \in L!Writer /\ "core0" # "core1"
  BY BlocksType DEF Orderly, LogTypes, L!Writer, Slot
<1>1. CASE L!Flush
  <2>1. At("core1") = "idle" /\ L!Go("core1", "look") /\ UNCHANGED <<ring, logged, sent, dropped>>
    BY <1>1 DEF L!Flush, L!At, At, L!hist
  <2>2. /\ actor' \in [L!Writer -> [at : LogPlaces, held : Nat, block : Slot]]
        /\ At("core1")' = "look" /\ actor'["core0"] = actor["core0"] /\ At("core0")' = At("core0")
    BY <1>0, <2>1, GoMoves DEF LogPlaces
  <2> QED
    BY <2>1, <2>2, FlusherQuiet DEF AddPlaces, BlockPlaces, Gone, Leaving, FlusherPlace
<1>2. CASE L!IsEmpty
  <2> DEFINE p == IF ring.used = 0 THEN "idle" ELSE "take"
  <2>1. /\ At("core1") = "look" /\ L!Go("core1", p) /\ UNCHANGED <<ring, logged, sent, dropped>>
        /\ ~ L!Evicting /\ p \in LogPlaces
    BY <1>2 DEF L!IsEmpty, L!At, At, L!hist, LogPlaces, BlockPlaces
  <2>2. /\ actor' \in [L!Writer -> [at : LogPlaces, held : Nat, block : Slot]]
        /\ At("core1")' = p /\ actor'["core0"] = actor["core0"] /\ At("core0")' = At("core0")
    BY <1>0, <2>1, GoMoves
  <2>3. ~ Dropping
    BY <2>1 DEF L!Evicting, Dropping, Any, At
  <2>4. FlusherPlace'
    BY <1>0, <2>1, <2>2 DEF FlusherPlace, BlockPlaces
  <2> QED
    BY <2>1, <2>2, <2>3, <2>4, FlusherQuiet DEF AddPlaces, Gone, Leaving
<1>3. CASE L!TakeBlock
  <2>1. /\ At("core1") = "take" /\ UNCHANGED <<ring, logged, sent, dropped>>
        /\ actor' = [actor EXCEPT !["core1"].at = "valid", !["core1"].block = ring.read]
    BY <1>3 DEF L!TakeBlock, L!At, At, L!hist
  <2>2. /\ actor' \in [L!Writer -> [at : LogPlaces, held : Nat, block : Slot]]
        /\ At("core1")' = "valid" /\ actor'["core1"].block = ring.read
        /\ actor'["core0"] = actor["core0"] /\ At("core0")' = At("core0")
    <3>1. "valid" \in LogPlaces /\ "core1" \in L!Writer
      BY DEF LogPlaces, BlockPlaces, L!Writer
    <3>2. LogTypes /\ ring.read \in Slot
      BY <1>0 DEF LogTypes
    <3>3. /\ actor' \in [L!Writer -> [at : LogPlaces, held : Nat, block : Slot]]
          /\ At("core1")' = "valid" /\ actor'["core1"].block = ring.read
          /\ \A v \in L!Writer : v # "core1" => actor'[v] = actor[v] /\ At(v)' = At(v)
      BY <2>1, <3>1, <3>2, TakeMoves
    <3> QED
      BY <3>3 DEF L!Writer
  <2>3. ~ Dropping /\ ring.used >= 1
    BY <2>1, InBlock DEF BlockPlaces
  <2>4. FlusherPlace'
    BY <2>1, <2>2, <2>3 DEF FlusherPlace
  <2> QED
    BY <2>1, <2>2, <2>3, <2>4, FlusherQuiet DEF AddPlaces, Gone, Leaving
<1>4. CASE L!Extract
  <2>1. /\ At("core1") = "valid" /\ UNCHANGED <<ring, logged, sent, dropped>>
        /\ actor' = [actor EXCEPT !["core1"].at = IF ring.block[L!Sending].valid THEN "send" ELSE "next",
                                  !["core1"].held = ring.block[L!Sending].line]
    BY <1>4 DEF L!Extract, L!At, At, L!hist
  <2>2. ~ Dropping /\ ring.used >= 1 /\ 0 \in Kept /\ L!Sending = ring.read
    BY <2>1, InBlock DEF BlockPlaces, Gone, Leaving, Orderly, FlusherPlace, L!Sending
  <2>3. BlockAt(0).valid /\ BlockAt(0).line \in Nat
    BY <2>2, KeptSlots DEF Orderly, LinesWaiting
  <2>4. BlockAt(0) = ring.block[ring.read]
    BY <1>0, SlotShift, BlocksType DEF BlockAt
  <2>5. /\ actor' \in [L!Writer -> [at : LogPlaces, held : Nat, block : Slot]]
        /\ At("core1")' = "send" /\ actor'["core1"].held = BlockAt(0).line
        /\ actor'["core1"].block = actor["core1"].block
        /\ actor'["core0"] = actor["core0"] /\ At("core0")' = At("core0")
    <3> DEFINE h == BlockAt(0).line
    <3>1. "send" \in LogPlaces /\ "core1" \in L!Writer
      BY DEF LogPlaces, BlockPlaces, L!Writer
    <3>2. LogTypes /\ h \in Nat
      BY <1>0, <2>3
    <3>3. actor' = [actor EXCEPT !["core1"].at = "send", !["core1"].held = h]
      BY <2>1, <2>2, <2>3, <2>4
    <3> HIDE DEF h
    <3>4. PICK w \in L!Writer, p \in LogPlaces, n \in Nat : w = "core1" /\ p = "send" /\ n = h
      BY <3>1, <3>2
    <3>5. actor' = [actor EXCEPT ![w].at = p, ![w].held = n]
      BY <3>3, <3>4
    <3>6. /\ actor' \in [L!Writer -> [at : LogPlaces, held : Nat, block : Slot]]
          /\ At(w)' = p /\ actor'[w].held = n /\ actor'[w].block = actor[w].block
          /\ \A v \in L!Writer : v # w => actor'[v] = actor[v] /\ At(v)' = At(v)
      BY <3>2, <3>5, LoadMoves
    <3> QED
      BY <3>4, <3>6 DEF L!Writer, h
  <2>6. (\A k : BlockAt(k)' = BlockAt(k)) => FlusherPlace'
    BY <2>1, <2>2, <2>5 DEF FlusherPlace, L!Sending
  <2> QED
    BY <2>1, <2>2, <2>5, <2>6, FlusherQuiet DEF AddPlaces, Gone, Leaving
<1>5. CASE L!CdcWrite /\ ~ usb
  <2>1. At("core1") = "send" /\ L!Go("core1", "idle") /\ UNCHANGED <<ring, logged, sent, dropped>>
    BY <1>5 DEF L!CdcWrite, L!At, At
  <2>2. /\ actor' \in [L!Writer -> [at : LogPlaces, held : Nat, block : Slot]]
        /\ At("core1")' = "idle" /\ actor'["core0"] = actor["core0"] /\ At("core0")' = At("core0")
    BY <1>0, <2>1, GoMoves DEF LogPlaces
  <2> QED
    BY <2>1, <2>2, FlusherQuiet DEF AddPlaces, BlockPlaces, Gone, Leaving, FlusherPlace
<1>6. CASE L!LoadNext
  <2>1. /\ At("core1") = "next" /\ UNCHANGED <<ring, logged, sent, dropped>>
        /\ actor' = [actor EXCEPT !["core1"].at = "next+", !["core1"].held = ring.read]
    BY <1>6 DEF L!LoadNext, L!Load, L!At, At, L!hist
  <2>2. /\ actor' \in [L!Writer -> [at : LogPlaces, held : Nat, block : Slot]]
        /\ At("core1")' = "next+" /\ actor'["core1"].held = ring.read
        /\ actor'["core0"] = actor["core0"] /\ At("core0")' = At("core0")
    BY <1>0, <2>1, LoadMoves DEF LogPlaces, BlockPlaces
  <2>3. ~ Dropping /\ ring.used >= 1
    BY <2>1, InBlock DEF BlockPlaces
  <2>4. FlusherPlace'
    BY <2>1, <2>2, <2>3 DEF FlusherPlace
  <2> QED
    BY <2>1, <2>2, <2>3, <2>4, FlusherQuiet DEF AddPlaces, Gone, Leaving
<1>7. CASE L!LoadLess
  <2>1. /\ At("core1") = "less" /\ UNCHANGED <<ring, logged, sent, dropped>>
        /\ actor' = [actor EXCEPT !["core1"].at = "less+", !["core1"].held = ring.used]
    BY <1>7 DEF L!LoadLess, L!Load, L!At, At, L!hist
  <2>2. /\ actor' \in [L!Writer -> [at : LogPlaces, held : Nat, block : Slot]]
        /\ At("core1")' = "less+"
        /\ actor'["core0"] = actor["core0"] /\ At("core0")' = At("core0")
    BY <1>0, <2>1, LoadMoves DEF LogPlaces, BlockPlaces
  <2>3. ~ Dropping /\ ring.used >= 1
    BY <2>1, InBlock DEF BlockPlaces
  <2>4. FlusherPlace'
    BY <2>1, <2>2, <2>3 DEF FlusherPlace
  <2> QED
    BY <2>1, <2>2, <2>3, <2>4, FlusherQuiet DEF AddPlaces, Gone, Leaving
<1> QED
  BY <1>1, <1>2, <1>3, <1>4, <1>5, <1>6, <1>7

(* A line the host took follows those it took before.                        *)
LEMMA CdcWriteStep ==
  ASSUME Orderly, L!CdcWrite, usb PROVE Orderly'
<1>0. /\ LogTypes /\ Blocks \in Nat /\ "core1" \in L!Writer /\ "core0" \in L!Writer /\ "core0" # "core1"
      /\ actor["core1"].held \in Nat /\ sent \in Seq(Nat) /\ Len(sent) \in Nat /\ logged \in Nat
      /\ dropped \in Nat
  BY BlocksType DEF Orderly, LogTypes, L!Writer
<1>1. /\ At("core1") = "send" /\ UNCHANGED <<ring, logged, dropped>>
      /\ sent' = Append(sent, actor["core1"].held)
      /\ actor' = [actor EXCEPT !["core1"].at = "void", !["core1"].held = 0]
  BY DEF L!CdcWrite, L!At, At
<1>2. /\ actor' \in [L!Writer -> [at : LogPlaces, held : Nat, block : Slot]]
      /\ At("core1")' = "void" /\ actor'["core1"].block = actor["core1"].block
      /\ actor'["core0"] = actor["core0"] /\ At("core0")' = At("core0")
  BY <1>0, <1>1, LoadMoves DEF LogPlaces, BlockPlaces
<1>3. /\ (Dropping <=> FALSE) /\ ring.used \in Nat /\ ring.used >= 1 /\ ring.used <= Blocks /\ 0 \in Kept
      /\ actor["core1"].held = BlockAt(0).line /\ actor["core1"].block = ring.read
  BY <1>1, InBlock DEF BlockPlaces, Gone, Leaving, Orderly, FlusherPlace
<1>4. /\ (Dropping' <=> Dropping) /\ (Uncounted' <=> Uncounted) /\ (InHand' <=> InHand) /\ OneAdder'
      /\ Dropping <=> At("core0") \in {"drop", "drop+"}
  BY <1>1, <1>2, FlusherFrame DEF AddPlaces
<1>5. (Gone <=> FALSE) /\ (Leaving <=> FALSE) /\ (Gone' <=> TRUE) /\ (Leaving' <=> FALSE)
  BY <1>1, <1>2 DEF Gone, Leaving
<1>6. Stored' = Stored /\ Stored \in Nat /\ Kept = 0..(Stored - 1) /\ Kept' = 1..(Stored - 1)
  BY <1>1, <1>4, <1>5, KeptSlots DEF Stored, Kept, One
<1>7. \A k : BlockAt(k)' = BlockAt(k)
  BY <1>1 DEF BlockAt
<1>8. \A k \in Kept' : k \in Kept /\ 0 < k
  BY <1>6
<1>9. /\ Len(sent') = Len(sent) + 1 /\ sent' \in Seq(Nat)
      /\ \A i \in 1..Len(sent') : \/ i \in 1..Len(sent) /\ sent'[i] = sent[i]
                                  \/ i = Len(sent) + 1 /\ sent'[i] = BlockAt(0).line
  BY <1>0, <1>1, <1>3
<1>10. /\ \A i \in 1..Len(sent) : sent[i] < BlockAt(0).line
       /\ BlockAt(0).line <= logged
  BY <1>3 DEF Orderly, LinesWaiting
<1>11. LogTypes'
  BY <1>0, <1>1, <1>2, <1>9 DEF LogTypes
<1>12. LogCounts'
  <2>1. /\ One(Gone \/ Leaving)' = 1 /\ One(Gone \/ Leaving) = 0
        /\ One(InHand \/ Uncounted)' = One(InHand \/ Uncounted) /\ One(InHand \/ Uncounted) \in {0, 1}
    BY <1>4, <1>5 DEF One
  <2>2. logged = Len(sent) + dropped + ring.used - 0 + One(InHand \/ Uncounted)
    BY <2>1 DEF Orderly, LogCounts
  <2>3. logged = (Len(sent) + 1) + dropped + ring.used - 1 + One(InHand \/ Uncounted)
    BY <1>0, <1>3, <2>1, <2>2
  <2>4. logged' = Len(sent') + dropped' + ring'.used - One(Gone \/ Leaving)' + One(InHand \/ Uncounted)'
    BY <1>1, <1>9, <2>1, <2>3
  <2> QED
    BY <1>1, <1>6, <2>4, BlockAtNext DEF Orderly, LogCounts
<1>13. LinesWaiting'
  <2> SUFFICES ASSUME NEW k \in Kept'
               PROVE  /\ BlockAt(k)'.valid /\ BlockAt(k)'.line <= logged'
                      /\ \A i \in 1..Len(sent') : sent'[i] < BlockAt(k)'.line
                      /\ \A j \in Kept' : j < k => BlockAt(j)'.line < BlockAt(k)'.line
    BY DEF LinesWaiting
  <2>1. k \in Kept /\ 0 < k
    BY <1>8
  <2>2. /\ BlockAt(k).valid /\ BlockAt(k).line <= logged
        /\ \A i \in 1..Len(sent) : sent[i] < BlockAt(k).line
        /\ BlockAt(0).line < BlockAt(k).line
        /\ \A j \in Kept' : j < k => BlockAt(j).line < BlockAt(k).line
    BY <1>3, <1>8, <2>1 DEF Orderly, LinesWaiting
  <2> QED
    BY <1>1, <1>7, <1>9, <2>2
<1>14. LinesSent'
  <2>1. \A i, j \in 1..Len(sent) : i < j => sent[i] < sent[j]
    BY DEF Orderly, LinesSent
  <2>2. \A i \in 1..Len(sent) : sent[i] <= logged
    BY DEF Orderly, LinesSent
  <2>3. \A i, j \in 1..Len(sent') : i < j => sent'[i] < sent'[j]
    <3> SUFFICES ASSUME NEW i \in 1..Len(sent'), NEW j \in 1..Len(sent'), i < j PROVE sent'[i] < sent'[j]
      OBVIOUS
    <3>1. i \in 1..Len(sent) /\ sent'[i] = sent[i]
      <4>1. i # Len(sent) + 1
        BY <1>0, <1>9
      <4> QED
        BY <1>9, <4>1
    <3>2. CASE j \in 1..Len(sent) /\ sent'[j] = sent[j]
      BY <2>1, <3>1, <3>2
    <3>3. CASE sent'[j] = BlockAt(0).line
      BY <1>10, <3>1, <3>3
    <3> QED
      BY <1>9, <3>2, <3>3
  <2>4. \A i \in 1..Len(sent') : sent'[i] <= logged'
    BY <1>1, <1>9, <1>10, <2>2
  <2> QED
    BY <2>3, <2>4 DEF LinesSent
<1>15. AdderPlace("core0")'
  <2>1. AdderPlace("core0")
    BY <1>0 DEF Orderly
  <2>2. Newest(ring.block[ring.write].line) => Newest(ring.block[ring.write].line)'
    BY <1>1, <1>3, <1>7, <1>8, <1>9 DEF Newest
  <2> QED
    BY <1>1, <1>2, <1>3, <1>4, <1>5, <2>1, <2>2 DEF AdderPlace
<1>16. \A v \in L!Writer : AdderPlace(v)'
  BY <1>2, <1>15, NotAdding DEF L!Writer, AddPlaces
<1>17. FlusherPlace'
  BY <1>1, <1>2, <1>3 DEF FlusherPlace
<1> QED
  BY <1>4, <1>11, <1>12, <1>13, <1>14, <1>16, <1>17 DEF Orderly

(* Its block is no longer valid; no other one is touched.                    *)
LEMMA MarkInvalidStep ==
  ASSUME Orderly, L!MarkInvalid PROVE Orderly'
<1>0. /\ LogTypes /\ Blocks \in Nat /\ "core1" \in L!Writer /\ "core0" \in L!Writer /\ "core0" # "core1"
      /\ ring.read \in Slot /\ ring.write \in Slot
  BY BlocksType DEF Orderly, LogTypes, L!Writer
<1>1. /\ At("core1") = "void" /\ UNCHANGED <<logged, sent, dropped>> /\ L!Go("core1", "next")
      /\ ring' = [ring EXCEPT !.block[actor["core1"].block].valid = FALSE]
  BY DEF L!MarkInvalid, L!At, At, L!hist, L!Sending
<1>2. /\ actor' \in [L!Writer -> [at : LogPlaces, held : Nat, block : Slot]]
      /\ At("core1")' = "next"
      /\ actor'["core0"] = actor["core0"] /\ At("core0")' = At("core0")
  BY <1>0, <1>1, GoMoves DEF LogPlaces, BlockPlaces
<1>3. /\ (Dropping <=> FALSE) /\ ring.used \in Nat /\ ring.used >= 1 /\ ring.used <= Blocks
      /\ Stored = ring.used - One(Leaving) + One(Uncounted)
      /\ actor["core1"].block = ring.read
  BY <1>1, InBlock DEF BlockPlaces, Orderly, FlusherPlace
<1>4. /\ (Dropping' <=> Dropping) /\ (Uncounted' <=> Uncounted) /\ (InHand' <=> InHand) /\ OneAdder'
      /\ Dropping <=> At("core0") \in {"drop", "drop+"}
      /\ Uncounted <=> At("core0") \in {"room", "count", "count+"}
  BY <1>1, <1>2, FlusherFrame DEF AddPlaces
<1>5. (Gone <=> TRUE) /\ (Leaving <=> FALSE) /\ (Gone' <=> TRUE) /\ (Leaving' <=> FALSE)
  BY <1>1, <1>2 DEF Gone, Leaving
<1>6. /\ ring'.read = ring.read /\ ring'.write = ring.write /\ ring'.used = ring.used
      /\ \A s \in Slot : ring'.block[s].line = ring.block[s].line
      /\ \A s \in Slot : s # ring.read => ring'.block[s] = ring.block[s]
      /\ ring' \in [read : Slot, write : Slot, used : 0..Blocks, block : [Slot -> [valid : BOOLEAN, line : Nat]]]
  BY <1>0, <1>1, <1>3 DEF LogTypes
<1>7. Stored' = Stored /\ Kept' = Kept /\ Kept = 1..(Stored - 1)
  BY <1>4, <1>5, <1>6 DEF Stored, Kept, One
<1>8. \A k \in Kept : BlockAt(k)' = BlockAt(k)
  <2> SUFFICES ASSUME NEW k \in Kept PROVE BlockAt(k)' = BlockAt(k)
    OBVIOUS
  <2>1. SlotOf(ring.read, k) \in Slot /\ k \in 0..(Blocks - 1) /\ k >= 1
    BY <1>7, KeptSlots
  <2>2. SlotOf(ring.read, k) # ring.read
    BY <1>0, <2>1 DEF SlotOf, Slot
  <2>3. BlockAt(k)' = ring'.block[SlotOf(ring.read, k)]
    BY <1>6, BlockAtNext
  <2>4. BlockAt(k) = ring.block[SlotOf(ring.read, k)]
    BY DEF BlockAt
  <2> QED
    BY <1>6, <2>1, <2>2, <2>3, <2>4
<1>11. LogTypes'
  BY <1>0, <1>1, <1>2, <1>6 DEF LogTypes
<1>12. LogCounts'
  <2>1. /\ One(Gone \/ Leaving)' = One(Gone \/ Leaving)
        /\ One(InHand \/ Uncounted)' = One(InHand \/ Uncounted)
    BY <1>4, <1>5 DEF One
  <2> QED
    BY <1>1, <1>6, <1>7, <2>1, BlockAtNext DEF Orderly, LogCounts
<1>13. LinesWaiting'
  BY <1>1, <1>7, <1>8 DEF Orderly, LinesWaiting
<1>14. LinesSent'
  BY <1>1 DEF Orderly, LinesSent
<1>15. AdderPlace("core0")'
  <2>1. AdderPlace("core0")
    BY <1>0 DEF Orderly
  <2>2. Newest(ring.block[ring.write].line) => Newest(ring.block[ring.write].line)'
    BY <1>0, <1>1, <1>6, <1>7, <1>8 DEF Newest
  <2>3. ASSUME At("core0") \in {"fill", "write", "write+"} PROVE ring'.block[ring.write] = ring.block[ring.write]
    <3>1. Stored = ring.used /\ ring.used < Blocks
      BY <1>3, <1>4, <1>5, <2>1, <2>3 DEF One, AdderPlace
    <3>2. ring.write = SlotOf(ring.read, Stored)
      BY DEF Orderly, LogCounts
    <3>3. ring.write # ring.read
      BY <1>0, <1>3, <3>1, <3>2 DEF SlotOf, Slot
    <3> QED
      BY <1>0, <1>6, <3>3
  <2>4. Leaving' <=> Leaving
    BY <1>5
  <2>5. ring'.block[ring'.write].line = ring.block[ring.write].line
    BY <1>0, <1>6
  <2> QED
    BY <1>2, <1>3, <1>4, <1>6, <2>1, <2>2, <2>3, <2>4, <2>5 DEF AdderPlace
<1>16. \A v \in L!Writer : AdderPlace(v)'
  BY <1>2, <1>15, NotAdding DEF L!Writer, AddPlaces
<1>17. FlusherPlace'
  BY <1>2, <1>3, <1>6 DEF FlusherPlace
<1> QED
  BY <1>4, <1>11, <1>12, <1>13, <1>14, <1>16, <1>17 DEF Orderly

(* The read index leaves the block.                                          *)
LEMMA StoreNextStep ==
  ASSUME Orderly, L!StoreNext PROVE Orderly'
<1>0. /\ LogTypes /\ Blocks \in Nat /\ Blocks > 0
      /\ "core1" \in L!Writer /\ "core0" \in L!Writer /\ "core0" # "core1"
      /\ ring.read \in Slot /\ ring.write \in Slot
  BY BlocksType DEF Orderly, LogTypes, L!Writer
<1>1. /\ At("core1") = "next+" /\ UNCHANGED <<logged, sent, dropped>> /\ L!Go("core1", "less")
      /\ ring' = [ring EXCEPT !.read = L!Following(actor["core1"].held)]
  BY DEF L!StoreNext, L!Store, L!At, At, L!hist
<1>2. /\ actor' \in [L!Writer -> [at : LogPlaces, held : Nat, block : Slot]]
      /\ At("core1")' = "less"
      /\ actor'["core0"] = actor["core0"] /\ At("core0")' = At("core0")
  BY <1>0, <1>1, GoMoves DEF LogPlaces, BlockPlaces
<1>3. /\ (Dropping <=> FALSE) /\ ring.used \in Nat /\ ring.used >= 1 /\ ring.used <= Blocks
      /\ Stored = ring.used - One(Leaving) + One(Uncounted)
      /\ actor["core1"].held = ring.read
  BY <1>1, InBlock DEF BlockPlaces, Orderly, FlusherPlace
<1>4. /\ (Dropping' <=> Dropping) /\ (Uncounted' <=> Uncounted) /\ (InHand' <=> InHand) /\ OneAdder'
      /\ Dropping <=> At("core0") \in {"drop", "drop+"}
  BY <1>1, <1>2, FlusherFrame DEF AddPlaces
<1>5. (Gone <=> TRUE) /\ (Leaving <=> FALSE) /\ (Gone' <=> FALSE) /\ (Leaving' <=> TRUE)
  BY <1>1, <1>2 DEF Gone, Leaving
<1>6. /\ ring'.read = SlotOf(ring.read, 1) /\ ring'.write = ring.write /\ ring'.used = ring.used
      /\ ring'.block = ring.block
      /\ ring' \in [read : Slot, write : Slot, used : 0..Blocks, block : [Slot -> [valid : BOOLEAN, line : Nat]]]
  <2>1. L!Following(ring.read) = SlotOf(ring.read, 1) /\ SlotOf(ring.read, 1) \in Slot
    BY <1>0, FollowingSlot
  <2> QED
    BY <1>0, <1>1, <1>3, <2>1 DEF LogTypes
<1>7. /\ Stored \in Nat /\ Stored >= 1 /\ Stored <= Blocks /\ Stored' = Stored - 1
      /\ Kept = 1..(Stored - 1) /\ Kept' = 0..(Stored - 2)
  <2>1. Stored \in Nat /\ Stored <= Blocks
    BY KeptSlots
  <2>2. Stored = ring.used + One(Uncounted) /\ One(Uncounted) \in {0, 1} /\ Stored >= 1
    BY <1>3, <1>5 DEF One
  <2>3. Stored' = Stored - 1
    BY <1>3, <1>4, <1>5, <1>6, <2>2 DEF Stored, One
  <2>4. Kept = 1..(Stored - 1)
    BY <1>5 DEF Kept, One
  <2>5. Kept' = 0..(Stored' - 1)
    BY <1>5 DEF Kept, One
  <2> QED
    BY <2>1, <2>2, <2>3, <2>4, <2>5
<1>8. \A k \in Kept' : k + 1 \in Kept /\ BlockAt(k)' = BlockAt(k + 1)
  <2> SUFFICES ASSUME NEW k \in Kept' PROVE k + 1 \in Kept /\ BlockAt(k)' = BlockAt(k + 1)
    OBVIOUS
  <2>1. k \in 0..Blocks /\ k < Blocks /\ k + 1 \in Kept
    BY <1>0, <1>7
  <2>2. SlotOf(ring'.read, k) = SlotOf(ring.read, k + 1)
    <3>1. ring.read \in Slot /\ ring'.read = SlotOf(ring.read, 1)
      BY <1>0, <1>6 DEF LogTypes
    <3> QED
      BY <2>1, <3>1, SlotShift
  <2>3. BlockAt(k)' = ring'.block[SlotOf(ring'.read, k)]
    BY BlockAtNext
  <2> QED
    BY <1>6, <2>1, <2>2, <2>3 DEF BlockAt
<1>11. LogTypes'
  BY <1>0, <1>1, <1>2, <1>6 DEF LogTypes
<1>12. LogCounts'
  <2>1. /\ One(Gone \/ Leaving)' = One(Gone \/ Leaving)
        /\ One(InHand \/ Uncounted)' = One(InHand \/ Uncounted)
    BY <1>4, <1>5 DEF One
  <2>2. SlotOf(SlotOf(ring.read, 1), Stored - 1) = SlotOf(ring.read, (Stored - 1) + 1) /\ (Stored - 1) + 1 = Stored
    <3>1. Stored - 1 \in 0..Blocks /\ Stored - 1 < Blocks /\ (Stored - 1) + 1 = Stored
      BY <1>0, <1>7
    <3> QED
      BY <1>0, <3>1, SlotShift
  <2>3. Stored' \in 0..Blocks /\ ring'.write = SlotOf(ring'.read, Stored')
    <3>1. Stored' \in 0..Blocks
      BY <1>0, <1>7
    <3>2. ring.write = SlotOf(ring.read, Stored)
      BY DEF Orderly, LogCounts
    <3> QED
      BY <1>6, <1>7, <2>2, <3>1, <3>2
  <2> QED
    BY <1>1, <1>6, <2>1, <2>3, BlockAtNext DEF Orderly, LogCounts
<1>13. LinesWaiting'
  <2> SUFFICES ASSUME NEW k \in Kept'
               PROVE  /\ BlockAt(k)'.valid /\ BlockAt(k)'.line <= logged'
                      /\ \A i \in 1..Len(sent') : sent'[i] < BlockAt(k)'.line
                      /\ \A j \in Kept' : j < k => BlockAt(j)'.line < BlockAt(k)'.line
    BY DEF LinesWaiting
  <2>1. k + 1 \in Kept /\ BlockAt(k)' = BlockAt(k + 1)
    BY <1>8
  <2>2. \A j \in Kept' : j < k => j + 1 \in Kept /\ j + 1 < k + 1 /\ BlockAt(j)' = BlockAt(j + 1)
    BY <1>7, <1>8
  <2> HIDE DEF BlockAt, Kept
  <2> QED
    BY <1>1, <2>1, <2>2 DEF Orderly, LinesWaiting
<1>14. LinesSent'
  BY <1>1 DEF Orderly, LinesSent
<1>15. AdderPlace("core0")'
  <2>1. AdderPlace("core0")
    BY <1>0 DEF Orderly
  <2>2. Newest(ring.block[ring.write].line) => Newest(ring.block[ring.write].line)'
    BY <1>1, <1>6, <1>8 DEF Newest
  <2> QED
    BY <1>2, <1>3, <1>4, <1>5, <1>6, <2>1, <2>2 DEF AdderPlace
<1>16. \A v \in L!Writer : AdderPlace(v)'
  BY <1>2, <1>15, NotAdding DEF L!Writer, AddPlaces
<1>17. FlusherPlace'
  BY <1>2, <1>3, <1>6 DEF FlusherPlace
<1> QED
  BY <1>4, <1>11, <1>12, <1>13, <1>14, <1>16, <1>17 DEF Orderly

(* ... and the count follows.                                                *)
LEMMA StoreLessStep ==
  ASSUME Orderly, ~ raced', L!StoreLess PROVE Orderly'
<1>0. /\ LogTypes /\ Blocks \in Nat /\ ring.used \in 0..Blocks
      /\ "core1" \in L!Writer /\ "core0" \in L!Writer /\ "core0" # "core1"
  BY BlocksType DEF Orderly, LogTypes, L!Writer
<1>1. /\ At("core1") = "less+" /\ UNCHANGED <<logged, sent, dropped>> /\ L!Go("core1", "look")
      /\ ring' = [ring EXCEPT !.used = (actor["core1"].held - 1) % CountMod] /\ actor["core1"].held = ring.used
  BY DEF L!StoreLess, L!Store, L!At, At, L!hist, L!Overtaken
<1>2. /\ actor' \in [L!Writer -> [at : LogPlaces, held : Nat, block : Slot]]
      /\ At("core1")' = "look"
      /\ actor'["core0"] = actor["core0"] /\ At("core0")' = At("core0")
  BY <1>0, <1>1, GoMoves DEF LogPlaces
<1>3. (Dropping <=> FALSE) /\ ring.used >= 1
  BY <1>1, InBlock DEF BlockPlaces
<1>4. /\ (Dropping' <=> Dropping) /\ (Uncounted' <=> Uncounted) /\ (InHand' <=> InHand) /\ OneAdder'
      /\ Dropping <=> At("core0") \in {"drop", "drop+"}
  BY <1>1, <1>2, FlusherFrame DEF AddPlaces
<1>5. (Gone <=> FALSE) /\ (Leaving <=> TRUE) /\ (Gone' <=> FALSE) /\ (Leaving' <=> FALSE)
  BY <1>1, <1>2 DEF Gone, Leaving
<1>6. (actor["core1"].held - 1) % CountMod = ring.used - 1 /\ ring.used - 1 \in 0..Blocks
  <2>1. ring.used - 1 \in 0..Blocks
    BY <1>0, <1>3
  <2> QED
    BY <1>1, <2>1, SmallCount
<1>7. ring' = [ring EXCEPT !.used = ring.used - 1] /\ logged' = logged /\ sent' = sent /\ dropped' = dropped
  BY <1>1, <1>6
<1>8. /\ ring'.read = ring.read /\ ring'.write = ring.write /\ ring'.used = ring.used - 1
      /\ ring'.block = ring.block
      /\ ring' \in [read : Slot, write : Slot, used : 0..Blocks, block : [Slot -> [valid : BOOLEAN, line : Nat]]]
  BY <1>0, <1>6, <1>7, UsedStored
<1>9. Stored' = Stored /\ Kept' = Kept /\ \A k : BlockAt(k)' = BlockAt(k)
  <2>1. Stored' = Stored
    BY <1>0, <1>3, <1>4, <1>5, <1>8 DEF Stored, One
  <2>2. Kept' = Kept
    BY <1>5, <2>1 DEF Kept, One
  <2>3. \A k : BlockAt(k)' = ring.block[SlotOf(ring.read, k)]
    BY <1>8, BlockAtNext
  <2> QED
    BY <2>1, <2>2, <2>3 DEF BlockAt
<1>11. LogTypes'
  BY <1>0, <1>2, <1>7, <1>8 DEF LogTypes
<1>12. LogCounts'
  <2>1. /\ One(Gone \/ Leaving)' = 0 /\ One(Gone \/ Leaving) = 1
        /\ One(InHand \/ Uncounted)' = One(InHand \/ Uncounted) /\ One(InHand \/ Uncounted) \in {0, 1}
        /\ Len(sent) \in Nat /\ dropped \in Nat
    BY <1>0, <1>4, <1>5 DEF One, LogTypes
  <2>2. logged = Len(sent) + dropped + ring.used - 1 + One(InHand \/ Uncounted)
    BY <2>1 DEF Orderly, LogCounts
  <2>3. logged = Len(sent) + dropped + (ring.used - 1) - 0 + One(InHand \/ Uncounted)
    BY <1>0, <2>1, <2>2
  <2>4. logged' = Len(sent') + dropped' + ring'.used - One(Gone \/ Leaving)' + One(InHand \/ Uncounted)'
    BY <1>7, <1>8, <2>1, <2>3
  <2>5. Stored' \in 0..Blocks /\ ring'.write = SlotOf(ring'.read, Stored')
    BY <1>8, <1>9 DEF Orderly, LogCounts
  <2> QED
    BY <2>4, <2>5, BlockAtNext
<1>13. LinesWaiting'
  BY <1>1, <1>9 DEF Orderly, LinesWaiting
<1>14. LinesSent'
  BY <1>1 DEF Orderly, LinesSent
<1>15. AdderPlace("core0")'
  <2>1. AdderPlace("core0")
    BY <1>0 DEF Orderly
  <2>2. Newest(ring.block[ring.write].line) => Newest(ring.block[ring.write].line)'
    BY <1>1, <1>8, <1>9 DEF Newest
  <2>3. ring'.used < Blocks
    BY <1>0, <1>8
  <2> QED
    BY <1>2, <1>3, <1>4, <1>8, <2>1, <2>2, <2>3 DEF AdderPlace
<1>16. \A v \in L!Writer : AdderPlace(v)'
  BY <1>2, <1>15, NotAdding DEF L!Writer, AddPlaces
<1>17. FlusherPlace'
  BY <1>2 DEF FlusherPlace, BlockPlaces
<1> QED
  BY <1>4, <1>11, <1>12, <1>13, <1>14, <1>16, <1>17 DEF Orderly

LEMMA LogStart == L!Init => LogInv
<1> SUFFICES ASSUME L!Init PROVE Orderly
  BY DEF LogInv
<1> USE DEF L!Init, L!Idle
<1>1. Blocks \in Nat /\ Blocks > 0 /\ 0 \in Slot
  BY BlocksType DEF Slot
<1>2. \A w \in L!Writer : actor[w] = L!Idle /\ At(w) = "idle"
  BY DEF At
<1>3. At("core0") = "idle" /\ At("core1") = "idle"
  BY <1>2 DEF L!Writer
<1>4. ~ Dropping /\ ~ Uncounted /\ ~ InHand /\ ~ Gone /\ ~ Leaving
  BY <1>2, <1>3 DEF Dropping, Uncounted, InHand, Any, Gone, Leaving
<1>5. Stored = 0 /\ Kept = {} /\ Len(sent) = 0
  <2>1. Stored = 0 /\ One(Gone) = 0
    BY <1>4 DEF Stored, One
  <2> QED
    BY <2>1 DEF Kept
<1>6. LogTypes
  <2>1. L!Idle \in [at : LogPlaces, held : Nat, block : Slot]
    BY <1>1 DEF LogPlaces
  <2>2. [b \in 0..Blocks - 1 |-> [valid |-> FALSE, line |-> 0]] \in [Slot -> [valid : BOOLEAN, line : Nat]]
    BY <1>1 DEF Slot
  <2> QED
    BY <1>1, <2>1, <2>2 DEF LogTypes
<1>7. LogCounts
  BY <1>1, <1>4, <1>5 DEF LogCounts, One, SlotOf
<1>8. \A w \in L!Writer : AdderPlace(w)
  BY <1>2 DEF AdderPlace
<1>9. OneAdder /\ FlusherPlace /\ LinesWaiting /\ LinesSent
  BY <1>3, <1>5 DEF OneAdder, AddPlaces, FlusherPlace, BlockPlaces, LinesWaiting, LinesSent
<1> QED
  BY <1>6, <1>7, <1>8, <1>9 DEF Orderly

(* What raced once stays so: raced is a history.                             *)
LEMMA RacedStays == raced /\ [L!Next]_(L!vars) => raced'
<1> SUFFICES ASSUME raced, [L!Next]_(L!vars) PROVE raced'
  OBVIOUS
<1>1. ASSUME NEW w \in L!Writer, L!AddToQueue(w) PROVE raced'
  BY <1>1 DEF L!AddToQueue, L!Begin, L!Oversized, L!LoadRead, L!StoreRead, L!LoadUsed, L!StoreUsed,
              L!MarkValid, L!Fill, L!LoadWrite, L!StoreWrite, L!Room, L!LoadCount, L!StoreCount,
              L!Load
<1>2. CASE L!Task
  BY <1>2 DEF L!Task, L!Flush, L!IsEmpty, L!TakeBlock, L!Extract, L!CdcWrite, L!MarkInvalid, L!LoadNext,
              L!StoreNext, L!LoadLess, L!StoreLess, L!Load
<1> QED
  BY <1>1, <1>2 DEF L!Next, L!Host, L!vars

LEMMA LogStep == LogInv /\ [L!Next]_(L!vars) => LogInv'
<1> SUFFICES ASSUME LogInv, [L!Next]_(L!vars), ~ raced' PROVE Orderly'
  BY DEF LogInv
<1>1. Orderly
  BY RacedStays DEF LogInv
<1>2. ASSUME NEW w \in L!Writer, L!AddToQueue(w) PROVE Orderly'
  BY <1>1, <1>2, AdderLoads, OversizedStep, StoreReadStep, StoreUsedStep, MarkValidStep, FillStep,
     StoreWriteStep, StoreCountStep DEF L!AddToQueue
<1>3. CASE L!Task
  BY <1>1, <1>3, FlusherLoads, CdcWriteStep, MarkInvalidStep, StoreNextStep, StoreLessStep DEF L!Task
<1>4. CASE L!Host \/ UNCHANGED L!vars
  <2>1. UNCHANGED <<ring, actor, logged, sent, dropped>>
    BY <1>4 DEF L!Host, L!vars, L!hist
  <2>2. At("core0")' = At("core0") /\ At("core1")' = At("core1") /\ actor'["core0"] = actor["core0"]
    BY <2>1 DEF At
  <2>3. (Gone' <=> Gone) /\ (Leaving' <=> Leaving)
    BY <2>2 DEF Gone, Leaving
  <2>4. \A v \in L!Writer : AdderPlace(v)
    BY <1>1 DEF Orderly
  <2>5. /\ One(Dropping)' = One(Dropping) /\ One(Leaving)' = One(Leaving)
        /\ One(Uncounted)' = One(Uncounted) /\ One(Gone)' = One(Gone)
        /\ One(Gone \/ Leaving)' = One(Gone \/ Leaving)
        /\ One(InHand \/ Uncounted)' = One(InHand \/ Uncounted)
    BY <2>1 DEF One, Dropping, Uncounted, InHand, Any, At, Gone, Leaving
  <2>6. /\ LogCounts' /\ LinesWaiting' /\ LinesSent' /\ Stored' = Stored /\ Kept' = Kept
        /\ \A k : BlockAt(k)' = BlockAt(k)
    BY <1>1, <2>1, <2>5, QuietStep
  <2>7. LogTypes' /\ OneAdder'
    BY <1>1, <2>1, <2>2 DEF Orderly, LogTypes, OneAdder
  <2>8. \A v \in L!Writer : AdderPlace(v)'
    <3> SUFFICES ASSUME NEW v \in L!Writer PROVE AdderPlace(v)'
      OBVIOUS
    <3>1. Newest(ring.block[ring.write].line) => Newest(ring.block[ring.write].line)'
      BY <2>1, <2>6 DEF Newest
    <3>2. AdderPlace(v) /\ At(v)' = At(v)
      BY <2>1, <2>4 DEF At
    <3> QED
      BY <2>1, <2>2, <2>3, <3>1, <3>2 DEF AdderPlace
  <2>9. FlusherPlace'
    BY <1>1, <2>1, <2>2, <2>6 DEF Orderly, FlusherPlace
  <2> QED
    BY <2>6, <2>7, <2>8, <2>9 DEF Orderly
<1> QED
  BY <1>2, <1>3, <1>4 DEF L!Next

(* usb_serial_logs.cpp:210-271, 379-425: for any number of blocks and of     *)
(* lines, as long as no two accesses of the cores were in each other's way,  *)
(* lines leave in the order they were logged, and when both cores rest each  *)
(* line has been sent, is waiting or was counted as dropped.                 *)
THEOREM LogInOrder == Board => []LinesInOrder
<1>1. LogInv => LinesInOrder
  <2> SUFFICES ASSUME Orderly
               PROVE  /\ \A i, j \in 1..Len(sent) : i < j => sent[i] < sent[j]
                      /\ (\A w \in L!Writer : actor[w] = L!Idle) => logged = Len(sent) + dropped + ring.used
    BY DEF LogInv, LinesInOrder, L!LinesInOrder
  <2>1. ASSUME \A w \in L!Writer : actor[w] = L!Idle PROVE logged = Len(sent) + dropped + ring.used
    <3>1. \A w \in L!Writer : At(w) = "idle"
      BY <2>1 DEF At, L!Idle
    <3>2. ~ Gone /\ ~ Leaving /\ ~ InHand /\ ~ Uncounted
      BY <3>1 DEF Gone, Leaving, InHand, Uncounted, Any, L!Writer
    <3>3. ring.used \in Nat /\ dropped \in Nat /\ Len(sent) \in Nat
      BY BlocksType DEF Orderly, LogTypes
    <3> QED
      BY <3>2, <3>3 DEF Orderly, LogCounts, One
  <2> QED
    BY <2>1 DEF Orderly, LinesSent
<1> QED
  BY <1>1, LogStart, LogStep, StepOfParts, PTL DEF Board, Begin
=============================================================================

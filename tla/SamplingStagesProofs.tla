------------------------ MODULE SamplingStagesProofs ------------------------
(***************************************************************************)
(* For any number of AD7147 modules on the two buses and any number of     *)
(* stages: no bus stays locked without a sample under way, a transfer      *)
(* keeps its stage, a sample reaches its own sensor's state only, and a    *)
(* frame holds a new sample of every sensor.  The other drivers' failed    *)
(* results, and a synchronous sensor beside asynchronous ones, break some  *)
(* of these: the theorems name the assumption that leaves them out.        *)
(*                                                                         *)
(* For any sensors of any drivers that have a stage each: the start-up     *)
(* gives every registered sensor exactly one stage of its own bus, so what *)
(* is proved of the sampling holds from power-on.                          *)
(*                                                                         *)
(* For any sensors, channels and targets: a channel that a calibration is  *)
(* through with keeps its outcome.                                         *)
(***************************************************************************)
EXTENDS SensorStart, Calibration, FiniteSetTheorems, TLAPS

(* Every sensor is an AD7147, the driver the firmware is mostly used with. *)
AllAd7147 == \A d \in Device : Kind[d] = "ad7147"

Stage == 0..(Stages - 1)

(* start() gave each sensor one stage. *)
OneStageEach ==
  \A b, c \in Bus : \A s, t \in Stage :
    instances[b][s] # None /\ instances[b][s] = instances[c][t] => b = c /\ s = t

(* Where task0 is, and what it knows of the bus it is at: it alone locks, and
   while it is between the look at the lock and the start nothing else can. *)
LoopInv ==
  LET b == pc[2] IN
  /\ pc[1] \in {"look", "ready", "start", "enable"}
  /\ pc[1] # "look" => target \in Device /\ target = instances[b][current[b]]
  /\ pc[1] = "ready" => ~ locked[b]
  /\ pc[1] \in {"start", "enable"} => locked[b]
  /\ pc[1] = "start" => dma[b] = None
  /\ pc[1] = "enable" => dma[b] = target

(* The bitmap of answers is what was sampled since the last frame. *)
BitmapIsFresh ==
  /\ completed = fresh /\ completed \subseteq Registered
  /\ Registered # {} => completed # Registered

IInv == TypeOK /\ OneStageEach /\ LoopInv /\ NoOrphanLock /\ StagePinned /\ OwnSample
          /\ BitmapIsFresh

(* What FrameFresh says of a step. *)
FrameStep ==
  frame' # frame => \E d \in Registered : fresh \cup {d} = Registered /\ d \notin fresh

-----------------------------------------------------------------------------
(* The bus taken from a sensor's mask is the bus it sits on. *)
LEMMA BusFound ==
  ASSUME OneStageEach, NEW b \in Bus, NEW s \in Stage, instances[b][s] # None
  PROVE  BusOf(instances[b][s]) = b
<1>1. \E c \in Bus : \E t \in Stage : instances[c][t] = instances[b][s]
    OBVIOUS
<1>2. \A c \in Bus : (\E t \in Stage : instances[c][t] = instances[b][s]) => c = b
    BY DEF OneStageEach
<1> DEFINE P(c) == \E t \in Stage : instances[c][t] = instances[b][s]
<1>3. (CHOOSE c \in Bus : P(c)) = b
    BY <1>1, <1>2
<1> QED
    BY <1>3 DEF BusOf, Stage

(* The ring of stages is closed. *)
LEMMA StageRing ==
  ASSUME NEW s \in Stage
  PROVE  (s + 1) % Stages \in Stage
BY StagesAssumption DEF Stage

(* Before the loop begins nothing is sampled: what start() staged is enough. *)
LEMMA RestIInv ==
  ASSUME AllAd7147, AtRest, OneStageEach, instances \in [Bus -> [Stage -> MaybeDevice]]
  PROVE  IInv
<1> USE StagesAssumption, DeviceAssumption
<1>1. TypeOK
  <2>1. 0 \in Stage
      BY DEF Stage
  <2>2. instances \in [Bus -> [0..(Stages - 1) -> MaybeDevice]]
      BY DEF Stage
  <2>3. <<"look", 0>> \in Places \X Bus
      BY DEF Places, Bus
  <2> QED
      BY <2>1, <2>2, <2>3 DEF AtRest, TypeOK, MaybeDevice, Stage, Failed, Bus
<1>2. LoopInv
    BY DEF AtRest, LoopInv
<1>3. NoOrphanLock /\ StagePinned /\ OwnSample /\ BitmapIsFresh
    BY DEF AtRest, NoOrphanLock, StagePinned, OwnSample, BitmapIsFresh
<1> QED
    BY <1>1, <1>2, <1>3 DEF IInv

LEMMA InitIInv == AllAd7147 /\ Init => IInv
<1> SUFFICES ASSUME AllAd7147, Init PROVE IInv
    OBVIOUS
<1> USE StagesAssumption, DeviceAssumption
<1>1. PICK layout \in Layouts :
        instances = [b \in Bus |-> [s \in Stage |->
                       IF s < Len(layout[b]) THEN layout[b][s + 1] ELSE None]]
    BY DEF Init, AtRest, Staged, Stage
<1>2. \A b \in Bus : layout[b] \in Seq(Device) /\ Len(layout[b]) \in Nat
    BY <1>1, LayoutAssumption
<1>3. \A b \in Bus : \A s \in Stage :
        instances[b][s] = IF s < Len(layout[b]) THEN layout[b][s + 1] ELSE None
    BY <1>1
<1>4. \A b \in Bus : \A s \in Stage : s < Len(layout[b]) => layout[b][s + 1] \in Device
    BY <1>2 DEF Stage
<1>5. instances \in [Bus -> [Stage -> MaybeDevice]]
    BY <1>1, <1>4 DEF MaybeDevice
<1>6. OneStageEach
  <2> SUFFICES ASSUME NEW b \in Bus, NEW c \in Bus, NEW s \in Stage, NEW t \in Stage,
                      instances[b][s] # None, instances[b][s] = instances[c][t]
               PROVE  b = c /\ s = t
      BY DEF OneStageEach
  <2>1. s < Len(layout[b]) /\ t < Len(layout[c]) /\ layout[b][s + 1] = layout[c][t + 1]
      BY <1>3
  <2>2. s + 1 \in DOMAIN layout[b] /\ t + 1 \in DOMAIN layout[c]
      BY <1>2, <2>1 DEF Stage
  <2>3. b = c /\ s + 1 = t + 1
      BY <1>1, <2>1, <2>2, LayoutAssumption
  <2> QED
      BY <2>3 DEF Stage
<1> QED
    BY <1>5, <1>6, RestIInv DEF Init

-----------------------------------------------------------------------------
(* task0's steps. *)
LEMMA LookStep == ASSUME IInv, NEW b \in Bus, Look(b) PROVE IInv'
<1> USE StagesAssumption, DeviceAssumption
<1>1. pc = <<"look", b>>
    BY DEF Look
<1>2. /\ UNCHANGED <<instances, locked, completed, from, frame, fresh, dma, enabled, mask,
                     answer, held, cbMask, cbBus, cbIndex, ui>>
    BY DEF Look, frameVars, halVars, statics
<1>3. CASE locked[b]
  <2>1. pc' = <<"look", 1 - b>> /\ UNCHANGED <<current, target>>
    BY <1>3 DEF Look, NextBus
  <2>2. TypeOK'
    BY <1>2, <2>1 DEF IInv, TypeOK, Places, Bus
  <2>3. LoopInv'
    BY <2>1 DEF LoopInv
  <2>4. NoOrphanLock' /\ StagePinned'
    BY <1>1, <1>2, <2>1 DEF IInv, NoOrphanLock, Sampling, StagePinned
  <2> QED
    BY <1>2, <2>2, <2>3, <2>4 DEF IInv, OneStageEach, OwnSample, BitmapIsFresh, Registered
<1>4. CASE ~ locked[b] /\ instances[b][current[b]] = None
  <2>1. /\ pc' = <<"look", 1 - b>> /\ target' = target
        /\ current' = [current EXCEPT ![b] = (current[b] + 1) % Stages]
    BY <1>4 DEF Look, NextBus, NextStage
  <2>2. current' \in [Bus -> Stage]
    BY <2>1, StageRing DEF IInv, TypeOK, Stage
  <2>3. \A c \in Bus : c # b => current'[c] = current[c]
    BY <2>1 DEF IInv, TypeOK
  <2>4. dma[b] = None
    BY <1>4 DEF IInv, StagePinned
  <2>5. TypeOK'
    BY <1>2, <2>1, <2>2 DEF IInv, TypeOK, Places, Bus, Stage
  <2>6. StagePinned'
    BY <1>2, <2>3, <2>4 DEF IInv, StagePinned
  <2> QED
    BY <1>1, <1>2, <2>1, <2>5, <2>6 DEF IInv, OneStageEach, LoopInv, NoOrphanLock, Sampling,
      OwnSample, BitmapIsFresh, Registered
<1>5. CASE ~ locked[b] /\ instances[b][current[b]] # None
  <2>1. pc' = <<"ready", b>> /\ target' = instances[b][current[b]] /\ current' = current
    BY <1>5 DEF Look
  <2>2. target' \in Device
    BY <1>5, <2>1 DEF IInv, TypeOK, MaybeDevice
  <2> QED
    BY <1>1, <1>2, <1>5, <2>1, <2>2, SMTT(20) DEF IInv, TypeOK, Places, MaybeDevice, OneStageEach, LoopInv,
      NoOrphanLock, Sampling, StagePinned, OwnSample, BitmapIsFresh, Registered
<1> QED
    BY <1>3, <1>4, <1>5

LEMMA ReadyStep ==
  ASSUME AllAd7147, IInv, NEW b \in Bus, NEW ready \in BOOLEAN, Ready(b, ready) PROVE IInv'
<1>1. pc = <<"ready", b>> /\ target \in Device /\ Kind[target] = "ad7147" /\ ~ locked[b]
    BY DEF Ready, IInv, LoopInv, AllAd7147
<1>2. UNCHANGED <<instances, current, dma, completed, from, frame, fresh, target, answer, held,
                 cbMask, cbBus, cbIndex, ui>>
    BY <1>1 DEF Ready, frameVars, statics, halVars
<1>3. enabled' \in [Bus -> BOOLEAN] /\ mask' \in [Bus -> BOOLEAN]
    BY <1>1 DEF Ready, InterruptsOff, halVars, IInv, TypeOK
<1>4. dma[b] = None
    BY <1>1 DEF IInv, StagePinned
<1>5. CASE ready
  <2>1. pc' = <<"start", b>> /\ locked' = [locked EXCEPT ![b] = TRUE]
    BY <1>1, <1>5 DEF Ready
  <2>2. locked' \in [Bus -> BOOLEAN] /\ locked'[b] /\ \A c \in Bus : c # b => locked'[c] = locked[c]
    BY <2>1 DEF IInv, TypeOK
  <2>3. TypeOK'
    BY <1>2, <1>3, <2>1, <2>2 DEF IInv, TypeOK, Places
  <2>4. LoopInv'
    BY <1>1, <1>2, <1>4, <2>1, <2>2 DEF IInv, LoopInv
  <2>5. NoOrphanLock' /\ StagePinned'
    BY <1>1, <1>2, <2>1, <2>2 DEF IInv, NoOrphanLock, StagePinned, Sampling
  <2> QED
    BY <1>2, <2>3, <2>4, <2>5 DEF IInv, OneStageEach, OwnSample, BitmapIsFresh, Registered
<1>6. CASE ~ ready
  <2>1. pc' = <<"look", 1 - b>> /\ locked' = locked
    BY <1>1, <1>6 DEF Ready, NextBus
  <2> QED
    BY <1>1, <1>2, <1>3, <2>1 DEF IInv, TypeOK, Places, Bus, OneStageEach, LoopInv, NoOrphanLock,
      Sampling, StagePinned, OwnSample, BitmapIsFresh, Registered
<1> QED
    BY <1>5, <1>6

LEMMA StartStep == ASSUME IInv, NEW b \in Bus, Start(b) PROVE IInv'
<1>1. pc = <<"start", b>> /\ dma[b] = None /\ target \in Device /\ locked[b]
      /\ target = instances[b][current[b]]
    BY DEF Start, Idle, Busy, IInv, LoopInv
<1>2. pc' = <<"enable", b>> /\ dma' = [dma EXCEPT ![b] = target]
    BY <1>1 DEF Start, Idle, Busy
<1>3. UNCHANGED <<instances, current, locked, completed, from, frame, fresh, enabled, mask,
                 target, answer, held, cbMask, cbBus, cbIndex, ui>>
    BY DEF Start, Idle, Busy, stageVars, frameVars, statics
<1>4. /\ dma' \in [Bus -> MaybeDevice] /\ dma'[b] = target
      /\ \A c \in Bus : c # b => dma'[c] = dma[c]
    BY <1>1, <1>2 DEF IInv, TypeOK, MaybeDevice
<1>5. TypeOK'
    BY <1>2, <1>3, <1>4 DEF IInv, TypeOK, Places
<1>6. LoopInv'
    BY <1>1, <1>2, <1>3, <1>4 DEF IInv, LoopInv
<1>7. NoOrphanLock' /\ StagePinned'
    BY <1>1, <1>2, <1>3, <1>4 DEF IInv, NoOrphanLock, StagePinned, Sampling
<1> QED
    BY <1>3, <1>5, <1>6, <1>7 DEF IInv, OneStageEach, OwnSample, BitmapIsFresh, Registered

LEMMA EnableStep == ASSUME IInv, NEW b \in Bus, Enable(b) PROVE IInv'
<1>1. pc = <<"enable", b>> /\ dma[b] = target /\ target \in Device
    BY DEF Enable, InterruptsOn, IInv, LoopInv
<1>2. pc' = <<"look", 1 - b>>
    BY DEF Enable, InterruptsOn, NextBus
<1>3. UNCHANGED <<instances, current, locked, completed, from, frame, fresh, dma,
                 target, answer, held, cbMask, cbBus, cbIndex, ui>>
    BY DEF Enable, InterruptsOn, stageVars, frameVars, statics
<1>4. enabled' \in [Bus -> BOOLEAN] /\ mask' \in [Bus -> BOOLEAN]
    BY DEF Enable, InterruptsOn, IInv, TypeOK
<1>5. target # None
    BY <1>1, DeviceAssumption
<1>6. TypeOK'
    BY <1>2, <1>3, <1>4 DEF IInv, TypeOK, Places, Bus
<1>7. LoopInv'
    BY <1>2 DEF LoopInv
<1>8. NoOrphanLock' /\ StagePinned'
    BY <1>1, <1>2, <1>3, <1>5 DEF IInv, NoOrphanLock, StagePinned, Sampling
<1> QED
    BY <1>3, <1>6, <1>7, <1>8 DEF IInv, OneStageEach, OwnSample, BitmapIsFresh, Registered

(* The steps of a synchronous sensor are not taken. *)
LEMMA NoPsoc ==
  ASSUME IInv, NEW b \in Bus
  PROVE  /\ \A success \in BOOLEAN : ~ ReadPsoc(b, success)
         /\ ~ Enter(b) /\ ~ Fail(b) /\ ~ Find(b) /\ ~ Mark(b) /\ ~ Release(b)
BY DEF IInv, LoopInv, ReadPsoc, Enter, Fail, Find, Mark, Release

(* A completed transfer: its bus is released at the stage it was started for,
   and the sample of its sensor is recorded. *)
LEMMA IrqStep ==
  ASSUME AllAd7147, IInv, NEW b \in Bus, NEW success \in BOOLEAN, Irq(b, success)
  PROVE  IInv' /\ FrameStep
<1> DEFINE d == dma[b]
<1> USE StagesAssumption, DeviceAssumption
<1>1. /\ d \in Device /\ d # None /\ pc # <<"enable", b>> /\ locked[b]
      /\ current[b] \in Stage /\ instances[b][current[b]] = d
    BY DEF Irq, IInv, TypeOK, MaybeDevice, StagePinned, Stage
<1>2. BusOf(d) = b
    BY <1>1, BusFound DEF IInv
<1>3. d \in Registered
    BY <1>1 DEF Registered, Stage
<1>4. Kind[d] = "ad7147"
    BY <1>1 DEF AllAd7147
<1>5. /\ dma' = [dma EXCEPT ![b] = None]
      /\ UNCHANGED <<instances, enabled, mask, pc, target, answer, held, ui>>
    BY DEF Irq, loopVars
<1>6. /\ cbMask' = d /\ cbBus' = b /\ cbIndex' \in MaybeDevice
      /\ locked' = [locked EXCEPT ![b] = FALSE]
    BY <1>1, <1>2, <1>4 DEF Irq, AsyncResult, AsyncAnswer, Ad7147Answer, Gtx312lAnswer, Succeeded, Failed, MaskBus, Unlock,
      MaybeDevice
<1>7. pc[2] = b => pc[1] = "look"
  <2>1. pc = <<pc[1], pc[2]>>
    BY DEF IInv, TypeOK
  <2> QED
    BY <1>1, <2>1 DEF IInv, LoopInv
<1>8. /\ dma' \in [Bus -> MaybeDevice] /\ dma'[b] = None
      /\ locked' \in [Bus -> BOOLEAN] /\ ~ locked'[b]
      /\ \A c \in Bus : c # b => dma'[c] = dma[c] /\ locked'[c] = locked[c]
    BY <1>5, <1>6 DEF IInv, TypeOK, MaybeDevice
<1>9. /\ current' \in [Bus -> Stage] /\ \A c \in Bus : c # b => current'[c] = current[c]
      /\ from' \in [Device -> MaybeDevice] /\ completed' \in SUBSET Device
      /\ fresh' \in SUBSET Device /\ frame' \in {0, 1}
      /\ OwnSample' /\ BitmapIsFresh' /\ FrameStep
  <2>1. CASE ~ success
    <3>1. UNCHANGED <<current, completed, from, frame, fresh>>
      BY <1>1, <1>4, <2>1 DEF Irq, AsyncResult, AsyncAnswer, Ad7147Answer, Gtx312lAnswer, Failed, frameVars
    <3> QED
      BY <1>5, <3>1 DEF IInv, TypeOK, Stage, OwnSample, BitmapIsFresh, Registered, FrameStep
  <2>2. CASE success
    <3>1. Record(d, d, completed) /\ NextStage(b)
      BY <1>1, <1>2, <2>2 DEF Irq, AsyncResult, AsyncAnswer, Ad7147Answer, Gtx312lAnswer, Succeeded, MaskBus
    <3>2. current' \in [Bus -> Stage] /\ \A c \in Bus : c # b => current'[c] = current[c]
      BY <3>1, StageRing DEF NextStage, IInv, TypeOK, Stage
    <3>3. from' = [from EXCEPT ![d] = d]
      BY <3>1 DEF Record
    <3>4. from' \in [Device -> MaybeDevice] /\ OwnSample'
      BY <1>1, <3>3 DEF IInv, TypeOK, OwnSample, MaybeDevice
    <3>5. Registered' = Registered
      BY <1>5 DEF Registered
    <3> DEFINE done == completed \cup {d}
    <3>6. /\ completed' = IF done = Registered THEN {} ELSE done
          /\ fresh' = IF done = Registered THEN {} ELSE fresh \cup {d}
          /\ frame' = IF done = Registered THEN 1 - frame ELSE frame
      BY <3>1 DEF Record
    <3>7. BitmapIsFresh'
      BY <1>3, <3>5, <3>6 DEF IInv, BitmapIsFresh
    <3>8. completed' \in SUBSET Device /\ fresh' \in SUBSET Device /\ frame' \in {0, 1}
      BY <1>1, <3>6 DEF IInv, TypeOK
    <3>9. frame' # frame => fresh \cup {d} = Registered /\ d \notin fresh
      BY <1>3, <3>6 DEF IInv, BitmapIsFresh
    <3>10. FrameStep
      BY <1>3, <3>9 DEF FrameStep
    <3> QED
      BY <3>2, <3>4, <3>7, <3>8, <3>10
  <2> QED
    BY <2>1, <2>2
<1>10. TypeOK'
    BY <1>1, <1>5, <1>6, <1>8, <1>9 DEF IInv, TypeOK, MaybeDevice, Stage
<1>11. LoopInv'
  <2>1. pc[2] \in Bus
    BY DEF IInv, TypeOK
  <2> QED
    BY <1>5, <1>7, <1>8, <1>9, <2>1 DEF IInv, LoopInv
<1>12. NoOrphanLock' /\ StagePinned'
    BY <1>5, <1>8, <1>9 DEF IInv, NoOrphanLock, StagePinned, Sampling
<1> QED
    BY <1>5, <1>9, <1>10, <1>11, <1>12 DEF IInv, OneStageEach

(* Core 1's accesses touch the interrupt mask only. *)
LEMMA UiStep == ASSUME IInv, NEW b \in Bus, Ui(b) PROVE IInv'
<1>1. UNCHANGED <<instances, current, locked, completed, from, frame, fresh, dma, pc, target,
                 answer, held, cbMask, cbBus, cbIndex>>
    BY DEF Ui, UiWait, UiMask, UiFlag, UiTransfer, Core0Unchanged, stageVars, frameVars, loopVars,
      statics
<1>2. /\ enabled' \in [Bus -> BOOLEAN] /\ mask' \in [Bus -> BOOLEAN]
      /\ ui' \in [Bus -> {"idle", "mask", "flag", "transfer"}]
    BY DEF Ui, UiWait, UiMask, UiFlag, UiTransfer, Access, IInv, TypeOK
<1>3. TypeOK'
    BY <1>1, <1>2 DEF IInv, TypeOK
<1>4. LoopInv' /\ NoOrphanLock' /\ StagePinned'
    BY <1>1 DEF IInv, LoopInv, NoOrphanLock, StagePinned, Sampling
<1> QED
    BY <1>1, <1>3, <1>4 DEF IInv, OneStageEach, OwnSample, BitmapIsFresh, Registered

LEMMA Task0Step == ASSUME AllAd7147, IInv, NEW b \in Bus, Task0(b) PROVE IInv' /\ frame' = frame
<1>1. CASE Look(b)
    BY <1>1, LookStep DEF Look, frameVars
<1>2. CASE \E ready \in BOOLEAN : Ready(b, ready)
    BY <1>2, ReadyStep DEF Ready, frameVars
<1>3. CASE Start(b)
    BY <1>3, StartStep DEF Start, Idle, Busy, frameVars
<1>4. CASE Enable(b)
    BY <1>4, EnableStep DEF Enable, InterruptsOn, frameVars
<1> QED
    BY <1>1, <1>2, <1>3, <1>4, NoPsoc DEF Task0

LEMMA StepIInv == AllAd7147 /\ IInv /\ [Next]_vars => IInv' /\ (FrameStep \/ frame' = frame)
<1> SUFFICES ASSUME AllAd7147, IInv, [Next]_vars PROVE IInv' /\ (FrameStep \/ frame' = frame)
    OBVIOUS
<1>1. CASE UNCHANGED vars
    BY <1>1 DEF vars, IInv, TypeOK, OneStageEach, LoopInv, NoOrphanLock, StagePinned, Sampling,
      OwnSample, BitmapIsFresh, Registered
<1>2. ASSUME NEW b \in Bus, Task0(b) PROVE IInv' /\ frame' = frame
    BY <1>2, Task0Step
<1>3. ASSUME NEW b \in Bus, Ui(b) PROVE IInv' /\ frame' = frame
    BY <1>3, UiStep DEF Ui, UiWait, UiMask, UiFlag, UiTransfer, Core0Unchanged, frameVars
<1>4. ASSUME NEW b \in Bus, NEW success \in BOOLEAN, Irq(b, success) PROVE IInv' /\ FrameStep
    BY <1>4, IrqStep
<1>5. CASE Next
    BY <1>2, <1>3, <1>4, <1>5 DEF Next
<1>6. UNCHANGED vars => frame' = frame
    BY DEF vars
<1> QED
    BY <1>1, <1>5, <1>6

-----------------------------------------------------------------------------
(* The inductive invariant of sampling on two buses. *)
THEOREM Inductive == ASSUME AllAd7147 PROVE Spec => []IInv
<1>1. Init => IInv
    BY InitIInv
<1>2. IInv /\ [Next]_vars => IInv'
    BY StepIInv
<1> QED
    BY <1>1, <1>2, PTL DEF Spec

(* A bus locked by updateTouchStates always has a sample under way whose end
   releases it, in the controller or in task0. *)
THEOREM LocksReleased == ASSUME AllAd7147 PROVE Spec => []NoOrphanLock
<1>1. IInv => NoOrphanLock
    BY DEF IInv
<1> QED
    BY <1>1, Inductive, PTL

(* A transfer in flight keeps its bus locked at the stage it was started for. *)
THEOREM StageKept == ASSUME AllAd7147 PROVE Spec => []StagePinned
<1>1. IInv => StagePinned
    BY DEF IInv
<1> QED
    BY <1>1, Inductive, PTL

(* async_touchsampleresult sets a sensor's state from its own sample only. *)
THEOREM OwnState == ASSUME AllAd7147 PROVE Spec => []OwnSample
<1>1. IInv => OwnSample
    BY DEF IInv
<1> QED
    BY <1>1, Inductive, PTL

(* Each stored frame holds a sample of every sensor, taken since the last. *)
THEOREM FramesFresh == ASSUME AllAd7147 PROVE Spec => FrameFresh
<1>1. IInv /\ [Next]_vars =>
        [frame' # frame => \E d \in Registered : fresh \cup {d} = Registered /\ d \notin fresh]_vars
    BY StepIInv DEF FrameStep
<1> QED
    BY <1>1, Inductive, PTL DEF Spec, FrameFresh

-----------------------------------------------------------------------------
(* From the scan of the buses to the loop.  Count is the number of registered
   sensors that start() has staged. *)
Count == CASE phase[1] = "start" -> phase[2]
           [] phase[1] = "run"   -> Len(devices)
           [] OTHER              -> 0

(* The sensors that were found are soldered to the board, and each registered
   one is in the list once. *)
Listed ==
  /\ phase \in {"unlock", "scan", "identify", "register", "start", "run"} \X Nat
  /\ wired \in Installations
  /\ answering \in Seq(wired) /\ found \in Seq(wired) /\ devices \in Seq(wired)
  /\ phase[1] = "start" => phase[2] <= Len(devices)
  /\ \A i, j \in DOMAIN devices : devices[i] = devices[j] => i = j

(* A stage holds one of the sensors staged so far, on the bus it is soldered
   to, and each of them has a stage. *)
Placed ==
  /\ instances \in [Bus -> [Stage -> wired \cup {None}]]
  /\ \A b \in Bus, s \in Stage : instances[b][s] # None =>
       /\ WiredTo[instances[b][s]] = b
       /\ \E i \in 1..Count : instances[b][s] = devices[i]
  /\ \A i \in 1..Count : \E s \in Stage : instances[WiredTo[devices[i]]][s] = devices[i]

StartInv == Listed /\ Placed /\ OneStageEach /\ (phase[1] # "run" => AtRest)

(* The sensors of one installation on one bus. *)
OnBus(b) == {d \in wired : WiredTo[d] = b}

(* extractI2CBusFromMask undoes generateModuleMask. *)
LEMMA MaskHasBus == \A d \in Device : BusInMask(ModuleMask(d)) = WiredTo[d] /\ WiredTo[d] \in Bus
<1> SUFFICES ASSUME NEW d \in Device PROVE BusInMask(ModuleMask(d)) = WiredTo[d] /\ WiredTo[d] \in Bus
    OBVIOUS
<1> DEFINE b == WiredTo[d]
           a == Address[d]
<1>1. b \in {0, 1} /\ a \in 8..119
    BY WiringAssumption DEF Bus
<1>2. BusInMask(ModuleMask(d)) = (128 * b + a) \div 128
    BY DEF BusInMask, ModuleMask, Mask
<1> HIDE DEF a, b
<1>3. CASE b = 0
    BY <1>1, <1>2, <1>3 DEF b, Bus
<1>4. CASE b = 1
    BY <1>1, <1>2, <1>4 DEF b, Bus
<1> QED
    BY <1>1, <1>3, <1>4

(* The addresses of a bus are distinct, so its sensors are finitely many; and
   no more of them are soldered to it than it has stages. *)
LEMMA FewOnBus ==
  ASSUME wired \in Installations, NEW b \in Bus
  PROVE  IsFiniteSet(OnBus(b)) /\ Cardinality(OnBus(b)) <= Stages
<1> DEFINE f == [d \in OnBus(b) |-> Address[d]]
<1>1. OnBus(b) \subseteq Device
    BY InstallationAssumption DEF OnBus
<1>2. f \in [OnBus(b) -> 8..119]
    BY <1>1, WiringAssumption
<1>3. \A d, e \in OnBus(b) : f[d] = f[e] => d = e
    BY <1>1, WiringAssumption DEF OnBus
<1>4. f \in Injection(OnBus(b), 8..119)
    BY <1>2, <1>3 DEF Injection, IsInjective
<1> HIDE DEF f
<1>5. IsFiniteSet(8..119)
  <2>1. 8 \in Int /\ 119 \in Int
    OBVIOUS
  <2> QED
    BY ONLY <2>1, FS_Interval, Zenon
<1>6. IsFiniteSet(OnBus(b))
    BY <1>4, <1>5, FS_Injection
<1>7. Cardinality(OnBus(b)) <= Stages
    BY InstallationAssumption DEF OnBus
<1> QED
    BY <1>6, <1>7

(* Of the stages that are free one is the first. *)
LEMMA LeastStage ==
  ASSUME NEW free \in SUBSET Stage, free # {}
  PROVE  \E s \in free : \A t \in free : s <= t
<1>1. free \subseteq Nat
    BY StagesAssumption DEF Stage
<1>2. PICK s \in free : \A t \in free : ~ (<<t, s>> \in OpToRel(<, Nat))
    BY <1>1, NatLessThanWellFounded, WFMin
<1>3. \A t \in free : ~ (t < s)
    BY <1>1, <1>2 DEF OpToRel
<1> QED
    BY <1>1, <1>3

(* start() finds a free stage for each sensor: the others of the bus are fewer
   than its stages, and none has two. *)
LEMMA StageFree ==
  ASSUME StartInv, NEW d \in wired, \A i \in 1..Count : devices[i] # d
  PROVE  \E s \in Stage : instances[WiredTo[d]][s] = None
<1> DEFINE b == WiredTo[d]
           others == OnBus(b) \ {d}
           f == instances[b]
<1>1. wired \in Installations /\ wired \subseteq Device /\ b \in Bus
    BY InstallationAssumption, MaskHasBus DEF StartInv, Listed
<1> SUFFICES ASSUME \A s \in Stage : f[s] # None PROVE FALSE
    OBVIOUS
<1>2. f \in [Stage -> others]
  <2>1. f \in [Stage -> wired \cup {None}]
    BY <1>1 DEF StartInv, Placed
  <2>2. ASSUME NEW s \in Stage PROVE f[s] \in others
    <3>1. f[s] \in wired
      BY <2>1
    <3>2. WiredTo[f[s]] = b /\ \E i \in 1..Count : f[s] = devices[i]
      BY <1>1 DEF StartInv, Placed
    <3> QED
      BY <3>1, <3>2 DEF OnBus
  <2> QED
    BY <2>1, <2>2
<1>3. \A s, t \in Stage : f[s] = f[t] => s = t
    BY <1>1 DEF StartInv, OneStageEach
<1>4. f \in Injection(Stage, others)
    BY <1>2, <1>3 DEF Injection, IsInjective
<1>5. /\ IsFiniteSet(others) /\ IsFiniteSet(OnBus(b)) /\ Cardinality(OnBus(b)) <= Stages
      /\ Cardinality(others) = Cardinality(OnBus(b)) - 1
  <2>1. d \in OnBus(b)
    BY DEF OnBus
  <2> QED
    BY <1>1, <2>1, FewOnBus, FS_RemoveElement
<1>6. Cardinality(Stage) = Stages
    BY StagesAssumption, FS_Interval DEF Stage
<1> HIDE DEF f, others
<1>7. Cardinality(Stage) <= Cardinality(others)
    BY <1>4, <1>5, FS_Injection
<1>8. Cardinality(OnBus(b)) \in Nat
    BY <1>5, FS_CardinalityType
<1> QED
    BY <1>5, <1>6, <1>7, <1>8, StagesAssumption

-----------------------------------------------------------------------------
LEMMA StartInitInv == StartInit => StartInv
<1> SUFFICES ASSUME StartInit PROVE StartInv
    OBVIOUS
<1>1. phase = <<"unlock", 0>> /\ answering = <<>> /\ found = <<>> /\ devices = <<>>
      /\ wired \in Installations /\ AtRest
    BY DEF StartInit
<1>2. instances = [b \in Bus |-> [s \in Stage |-> None]]
    BY DEF StartInit, Stage
<1>3. Count = 0
    BY <1>1 DEF Count
<1>4. Listed
    BY <1>1 DEF Listed
<1>5. Placed /\ OneStageEach
    BY <1>2, <1>3 DEF Placed, OneStageEach
<1> QED
    BY <1>1, <1>4, <1>5 DEF StartInv

(* Nothing is staged before start(). *)
LEMMA Unstaged ==
  ASSUME StartInv, Count = 0, Count' = 0, instances' = instances, wired' = wired
  PROVE  Placed' /\ OneStageEach'
BY DEF StartInv, Placed, OneStageEach

(* The steps that free the buses and scan them. *)
LEMMA ScanStep ==
  ASSUME StartInv, NEW b \in Bus,
         UnlockBus(b) \/ ScanDevices(b) \/ Identify(b) \/ BusScanned(b)
  PROVE  StartInv'
<1>1. /\ UNCHANGED vars /\ wired' = wired /\ devices' = devices
      /\ phase[1] \in {"unlock", "scan", "identify"}
  <2>1. CASE UnlockBus(b)
    BY <2>1 DEF UnlockBus
  <2>2. CASE ScanDevices(b)
    BY <2>2 DEF ScanDevices
  <2>3. CASE Identify(b)
    BY <2>3 DEF Identify
  <2>4. CASE BusScanned(b)
    BY <2>4 DEF BusScanned
  <2> QED
    BY <2>1, <2>2, <2>3, <2>4
<1>2. /\ phase' \in {"unlock", "scan", "identify", "register"} \X Nat
      /\ answering' \in Seq(wired) /\ found' \in Seq(wired)
  <2>1. CASE UnlockBus(b)
    BY <2>1 DEF UnlockBus, StartInv, Listed, Bus
  <2>2. CASE ScanDevices(b)
    <3>1. PICK there \in SUBSET {d \in wired : WiredTo[d] = b /\ sending[b] = 0} :
            answering' \in ByAddress(there)
      BY <2>2 DEF ScanDevices
    <3>2. answering' \in [1..Cardinality(there) -> there]
      BY <3>1 DEF ByAddress
    <3>3. IsFiniteSet(there)
      <4>1. there \in SUBSET OnBus(b)
        BY <3>1 DEF OnBus
      <4>2. IsFiniteSet(OnBus(b))
        BY FewOnBus DEF StartInv, Listed
      <4> QED
        BY <4>1, <4>2, FS_Subset
    <3>4. answering' \in Seq(wired)
      BY <3>1, <3>2, <3>3, FS_CardinalityType
    <3>5. phase' = <<"identify", b>> /\ found' = found
      BY <2>2 DEF ScanDevices
    <3> QED
      BY <3>4, <3>5 DEF StartInv, Listed, Bus
  <2>3. CASE Identify(b)
    <3> DEFINE d == Head(answering)
    <3>1. answering \in Seq(wired) /\ answering # <<>> /\ found \in Seq(wired)
      BY <2>3 DEF Identify, StartInv, Listed
    <3>2. d \in wired /\ Tail(answering) \in Seq(wired)
      BY <3>1
    <3>3. phase = <<"identify", b>> /\ phase' = phase
      BY <2>3 DEF Identify
    <3>4. answering' \in {<<>>, Tail(answering)} /\ found' \in {found, Append(found, d)}
      BY <2>3 DEF Identify
    <3>5. Append(found, d) \in Seq(wired) /\ <<>> \in Seq(wired)
      BY <3>1, <3>2
    <3>6. answering' \in Seq(wired) /\ found' \in Seq(wired)
      BY <3>1, <3>2, <3>4, <3>5
    <3> QED
      BY <3>3, <3>6 DEF Bus
  <2>4. CASE BusScanned(b)
    BY <2>4 DEF BusScanned, StartInv, Listed
  <2> QED
    BY <2>1, <2>2, <2>3, <2>4
<1>3. Count = 0 /\ Count' = 0
    BY <1>1, <1>2 DEF Count
<1>4. Listed'
    BY <1>1, <1>2 DEF StartInv, Listed
<1>5. AtRest /\ AtRest'
    BY <1>1 DEF StartInv, AtRest, vars
<1>6. Placed' /\ OneStageEach'
    BY <1>1, <1>3, Unstaged DEF vars
<1> QED
    BY <1>4, <1>5, <1>6 DEF StartInv

(* Registration lists a sensor once, whatever the scan has found. *)
LEMMA RegisterStep == ASSUME StartInv, Register PROVE StartInv'
<1> DEFINE d == Head(found)
<1>1. /\ UNCHANGED vars /\ wired' = wired /\ answering' = answering
      /\ phase = <<"register", 0>> /\ phase' = phase /\ found # <<>> /\ found' = Tail(found)
    BY DEF Register
<1>2. \/ devices' = devices
      \/ devices' = Append(devices, d) /\ \A e \in Range(devices) : ModuleMask(e) # ModuleMask(d)
    BY DEF Register
<1>3. found \in Seq(wired) /\ devices \in Seq(wired)
    BY DEF StartInv, Listed
<1>4. d \in wired /\ found' \in Seq(wired)
    BY <1>1, <1>3
<1>5. /\ devices' \in Seq(wired)
      /\ \A i, j \in DOMAIN devices' : devices'[i] = devices'[j] => i = j
  <2>1. CASE devices' = devices
    BY <1>3, <2>1 DEF StartInv, Listed
  <2>2. CASE devices' = Append(devices, d) /\ \A e \in Range(devices) : ModuleMask(e) # ModuleMask(d)
    <3>1. \A i \in DOMAIN devices : devices[i] # d
      BY <2>2 DEF Range
    <3>2. devices' \in Seq(wired) /\ Len(devices') = Len(devices) + 1
          /\ DOMAIN devices' = 1..(Len(devices) + 1) /\ DOMAIN devices = 1..Len(devices)
          /\ Len(devices) \in Nat
      BY <1>3, <1>4, <2>2
    <3>3. \A i \in DOMAIN devices' : devices'[i] = IF i \in DOMAIN devices THEN devices[i] ELSE d
      BY <1>3, <1>4, <2>2, <3>2
    <3>4. \A i \in DOMAIN devices' : i \in DOMAIN devices \/ i = Len(devices) + 1
      BY <3>2
    <3> QED
      BY <3>1, <3>2, <3>3, <3>4 DEF StartInv, Listed
  <2> QED
    BY <1>2, <2>1, <2>2
<1>6. Count = 0 /\ Count' = 0
    BY <1>1 DEF Count
<1>7. Listed'
    BY <1>1, <1>4, <1>5 DEF StartInv, Listed
<1>8. AtRest'
    BY <1>1 DEF StartInv, AtRest, vars
<1>9. Placed' /\ OneStageEach'
    BY <1>1, <1>6, Unstaged DEF vars
<1> QED
    BY <1>7, <1>8, <1>9 DEF StartInv

LEMMA StartSamplingStep == ASSUME StartInv, StartSampling PROVE StartInv'
<1>1. /\ UNCHANGED <<vars, wired, answering, found, devices>>
      /\ phase = <<"register", 0>> /\ phase' = <<"start", 0>>
    BY DEF StartSampling
<1>2. Count = 0 /\ Count' = 0
    BY <1>1 DEF Count
<1>3. Listed'
    BY <1>1 DEF StartInv, Listed
<1>4. AtRest'
    BY <1>1 DEF StartInv, AtRest, vars
<1>5. Placed' /\ OneStageEach'
    BY <1>1, <1>2, Unstaged DEF vars
<1> QED
    BY <1>3, <1>4, <1>5 DEF StartInv

(* start() puts the next sensor of the list into a free stage of its bus, and
   leaves every other stage alone. *)
LEMMA StageDeviceStep == ASSUME StartInv, StageDevice PROVE StartInv'
<1> USE StagesAssumption, DeviceAssumption
<1>1. /\ phase[1] = "start" /\ phase = <<phase[1], phase[2]>> /\ phase[2] \in Nat
      /\ phase[2] <= Len(devices) /\ Len(devices) \in Nat /\ Count = phase[2]
      /\ devices \in Seq(wired) /\ wired \subseteq Device
    BY InstallationAssumption DEF StageDevice, StartInv, Listed, Count
<1>2. /\ UNCHANGED <<current, locked, frameVars, halVars, loopVars, statics, ui>>
      /\ UNCHANGED <<wired, answering, found, devices>>
    BY DEF StageDevice
<1>3. AtRest'
    BY <1>1, <1>2 DEF StartInv, AtRest, frameVars, halVars, loopVars, statics
<1>4. CASE phase[2] >= Len(devices)
  <2>1. phase' = <<"run", 0>> /\ instances' = instances /\ phase[2] = Len(devices)
    BY <1>1, <1>4 DEF StageDevice
  <2>2. Count' = Count
    BY <1>1, <1>2, <2>1 DEF Count
  <2>3. Listed'
    BY <1>2, <2>1 DEF StartInv, Listed
  <2>4. Placed' /\ OneStageEach'
    BY <1>2, <2>1, <2>2 DEF StartInv, Placed, OneStageEach
  <2> QED
    BY <1>3, <2>3, <2>4 DEF StartInv
<1>5. CASE phase[2] < Len(devices)
  <2> DEFINE n == phase[2] + 1
             d == devices[n]
             b == WiredTo[d]
             free == {s \in Stage : instances[b][s] = None}
             s0 == CHOOSE s \in free : \A t \in free : s <= t
  <2>1. phase' = <<"start", n>> /\ instances' = Assign(instances, d)
    BY <1>5 DEF StageDevice
  <2>2. n \in 1..Len(devices) /\ d \in wired /\ d \in Device /\ d # None
    BY <1>1, <1>5
  <2>3. b \in Bus /\ BusInMask(ModuleMask(d)) = b
    BY <2>2, MaskHasBus
  <2>4. \A i \in 1..Count : devices[i] # d
    BY <1>1, <2>2 DEF StartInv, Listed
  <2>5. \E s \in free : \A t \in free : s <= t
    <3>1. \E s \in Stage : instances[b][s] = None
      BY <2>2, <2>4, StageFree
    <3> QED
      BY <3>1, LeastStage
  <2>6. s0 \in free
    BY <2>5
  <2>7. instances' = [instances EXCEPT ![b][s0] = d]
    BY <2>1, <2>3, <2>5 DEF Assign, RegisterDeviceToStage, Stage
  <2>8. s0 \in Stage /\ instances[b][s0] = None
    BY <2>6
  <2>9. /\ instances' \in [Bus -> [Stage -> wired \cup {None}]]
        /\ instances'[b][s0] = d
        /\ \A c \in Bus, s \in Stage : <<c, s>> # <<b, s0>> => instances'[c][s] = instances[c][s]
    BY <2>2, <2>3, <2>7, <2>8 DEF StartInv, Placed
  <2> HIDE DEF s0, free
  <2>10. Count' = n
    BY <2>1 DEF Count
  <2>11. Listed'
    BY <1>1, <1>2, <2>1, <2>2 DEF StartInv, Listed
  <2>12. \A c \in Bus, s \in Stage : instances[c][s] # d
    BY <2>2, <2>4 DEF StartInv, Placed
  <2>13. OneStageEach'
    BY <2>3, <2>8, <2>9, <2>12 DEF StartInv, OneStageEach
  <2>14. Placed'
    <3>1. ASSUME NEW c \in Bus, NEW s \in Stage, instances'[c][s] # None
          PROVE  WiredTo[instances'[c][s]] = c /\ \E i \in 1..n : instances'[c][s] = devices[i]
      <4>1. CASE <<c, s>> = <<b, s0>>
        BY <2>2, <2>9, <4>1
      <4>2. CASE <<c, s>> # <<b, s0>>
        BY <1>1, <2>9, <3>1, <4>2 DEF StartInv, Placed
      <4> QED
        BY <4>1, <4>2
    <3>2. ASSUME NEW i \in 1..n
          PROVE  \E s \in Stage : instances'[WiredTo[devices[i]]][s] = devices[i]
      <4>1. CASE i = n
        BY <2>8, <2>9, <4>1
      <4>2. CASE i # n
        <5>1. i \in 1..Count
          BY <1>1, <4>2
        <5>2. PICK s \in Stage : instances[WiredTo[devices[i]]][s] = devices[i]
          BY <5>1 DEF StartInv, Placed
        <5>3. devices[i] \in wired
          BY <1>1, <2>2
        <5>4. WiredTo[devices[i]] \in Bus /\ devices[i] # None
          BY <1>1, <5>3, MaskHasBus
        <5>5. <<WiredTo[devices[i]], s>> # <<b, s0>>
          BY <2>8, <5>2, <5>4
        <5> QED
          BY <2>9, <5>2, <5>4, <5>5
      <4> QED
        BY <4>1, <4>2
    <3> QED
      BY <1>2, <2>9, <2>10, <3>1, <3>2 DEF Placed
  <2> QED
    BY <1>3, <2>11, <2>13, <2>14 DEF StartInv
<1> QED
    BY <1>1, <1>4, <1>5

(* Nothing moves a sensor once it is staged. *)
LEMMA NextKeepsStages == Next => UNCHANGED instances
<1>1. ASSUME NEW b \in Bus, Task0(b) PROVE UNCHANGED instances
    BY <1>1 DEF Task0, Look, Ready, Start, Enable, ReadPsoc, Enter, Fail, Find, Mark, Release,
      stageVars
<1>2. ASSUME NEW b \in Bus, Ui(b) PROVE UNCHANGED instances
    BY <1>2 DEF Ui, UiWait, UiMask, UiFlag, UiTransfer, Core0Unchanged, stageVars
<1>3. ASSUME NEW b \in Bus, NEW success \in BOOLEAN, Irq(b, success) PROVE UNCHANGED instances
    BY <1>3 DEF Irq
<1> QED
    BY <1>1, <1>2, <1>3 DEF Next

LEMMA RunStep ==
  ASSUME StartInv, Running, UNCHANGED instances, UNCHANGED startVars PROVE StartInv'
<1>1. phase' = phase /\ wired' = wired /\ answering' = answering /\ found' = found
      /\ devices' = devices /\ phase[1] = "run"
    BY DEF Running, startVars
<1>2. Count' = Count
    BY <1>1 DEF Count
<1>3. Listed'
    BY <1>1 DEF StartInv, Listed
<1>4. Placed' /\ OneStageEach'
    BY <1>1, <1>2 DEF StartInv, Placed, OneStageEach
<1> QED
    BY <1>1, <1>3, <1>4 DEF StartInv

LEMMA SetUpStep == ASSUME StartInv, SetUp PROVE StartInv'
<1>1. ASSUME NEW b \in Bus, UnlockBus(b) \/ ScanDevices(b) \/ Identify(b) \/ BusScanned(b)
      PROVE  StartInv'
    BY <1>1, ScanStep
<1> QED
    BY <1>1, RegisterStep, StartSamplingStep, StageDeviceStep DEF SetUp

LEMMA SetUpRests == ASSUME StartInv, SetUp PROVE AtRest' /\ frame' = frame
<1>1. /\ phase[1] # "run" /\ frame' = frame
      /\ UNCHANGED <<current, locked, frameVars, halVars, loopVars, statics, ui>>
  <2>1. CASE Register \/ StartSampling
    BY <2>1 DEF Register, StartSampling, vars, frameVars, halVars, loopVars, statics
  <2>2. CASE StageDevice
    BY <2>2 DEF StageDevice, frameVars
  <2>3. ASSUME NEW b \in Bus, UnlockBus(b)
        PROVE  phase[1] = "unlock" /\ UNCHANGED vars
    BY <2>3 DEF UnlockBus
  <2>4. ASSUME NEW b \in Bus, ScanDevices(b)
        PROVE  phase[1] = "scan" /\ UNCHANGED vars
    BY <2>4 DEF ScanDevices
  <2>5. ASSUME NEW b \in Bus, Identify(b)
        PROVE  phase[1] = "identify" /\ UNCHANGED vars
    BY <2>5 DEF Identify
  <2>6. ASSUME NEW b \in Bus, BusScanned(b)
        PROVE  phase[1] = "identify" /\ UNCHANGED vars
    BY <2>6 DEF BusScanned
  <2> QED
    BY <2>1, <2>2, <2>3, <2>4, <2>5, <2>6 DEF SetUp, vars, frameVars, halVars, loopVars, statics
<1> QED
    BY <1>1 DEF StartInv, AtRest, frameVars, halVars, loopVars, statics

LEMMA StartStepInv == StartInv /\ [StartNext]_allVars => StartInv'
<1> SUFFICES ASSUME StartInv, [StartNext]_allVars PROVE StartInv'
    OBVIOUS
<1>1. CASE SetUp
    BY <1>1, SetUpStep
<1>2. CASE Running /\ Next /\ UNCHANGED startVars
    BY <1>2, NextKeepsStages, RunStep
<1>3. CASE UNCHANGED allVars
  <2>1. UNCHANGED vars /\ UNCHANGED startVars
    BY <1>3 DEF allVars
  <2>2. CASE phase[1] = "run"
    <3>1. Count' = Count
      BY <2>1 DEF Count, startVars
    <3> QED
      BY <2>1, <2>2, <3>1 DEF StartInv, Listed, Placed, OneStageEach, vars, startVars
  <2>3. CASE phase[1] # "run"
    <3>1. Count' = Count /\ AtRest'
      BY <2>1, <2>3 DEF Count, startVars, StartInv, AtRest, vars
    <3> QED
      BY <2>1, <2>3, <3>1 DEF StartInv, Listed, Placed, OneStageEach, vars, startVars
  <2> QED
    BY <2>2, <2>3
<1> QED
    BY <1>1, <1>2, <1>3 DEF StartNext

(* The inductive invariant of the start-up, for any installation. *)
THEOREM StartInductive == StartSpec => []StartInv
<1>1. StartInit => StartInv
    BY StartInitInv
<1>2. StartInv /\ [StartNext]_allVars => StartInv'
    BY StartStepInv
<1> QED
    BY <1>1, <1>2, PTL DEF StartSpec

(* start() leaves every registered sensor in exactly one stage, of the bus it is
   soldered to, and no other sensor in any: for every wiring that has a stage
   for each sensor. *)
THEOREM EachStagedOnce == StartSpec => []StagedOnce
<1>1. StartInv => StagedOnce
  <2> SUFFICES ASSUME StartInv, Running PROVE
        /\ Registered = Range(devices)
        /\ \A d \in Registered : \E s \in Stage :
             {p \in Bus \X Stage : instances[p[1]][p[2]] = d} = {<<WiredTo[d], s>>}
    BY DEF StagedOnce, Stage
  <2>1. /\ devices \in Seq(wired) /\ wired \subseteq Device /\ Count = Len(devices)
        /\ None \notin Device
    BY InstallationAssumption, DeviceAssumption DEF StartInv, Listed, Running, Count
  <2>2. \A i \in 1..Len(devices) : devices[i] \in Device
    BY <2>1
  <2>3. Range(devices) = {devices[i] : i \in 1..Len(devices)}
    BY <2>1 DEF Range
  <2>4. Registered \subseteq Range(devices)
    BY <2>1, <2>3 DEF StartInv, Placed, Registered, Stage
  <2>5. \A d \in Range(devices) :
          d \in Device /\ \E s \in Stage : instances[WiredTo[d]][s] = d
    BY <2>1, <2>2, <2>3 DEF StartInv, Placed
  <2>6. Range(devices) \subseteq Registered
    BY <2>5, MaskHasBus DEF Registered, Stage
  <2>7. ASSUME NEW d \in Registered
        PROVE  \E s \in Stage :
                 {p \in Bus \X Stage : instances[p[1]][p[2]] = d} = {<<WiredTo[d], s>>}
    <3>1. PICK s \in Stage : instances[WiredTo[d]][s] = d
      BY <2>4, <2>5
    <3>2. WiredTo[d] \in Bus /\ d # None
      BY <2>1, MaskHasBus DEF Registered
    <3>3. ASSUME NEW p \in Bus \X Stage, instances[p[1]][p[2]] = d
          PROVE  p = <<WiredTo[d], s>>
      <4>1. p[1] \in Bus /\ p[2] \in Stage /\ p = <<p[1], p[2]>>
        OBVIOUS
      <4>2. p[1] = WiredTo[d] /\ p[2] = s
        BY <3>1, <3>2, <3>3, <4>1 DEF StartInv, OneStageEach
      <4> QED
        BY <4>1, <4>2
    <3>4. <<WiredTo[d], s>> \in Bus \X Stage
      BY <3>2
    <3> QED
      BY <3>1, <3>3, <3>4
  <2> QED
    BY <2>4, <2>6, <2>7
<1> QED
    BY <1>1, StartInductive, PTL

-----------------------------------------------------------------------------
(* The start-up leaves sampling in a state where its invariant holds, so what is
   proved of Spec holds of the whole program: before the loop nothing is
   sampled, and every step of the loop is one of Next. *)
THEOREM SamplingFromStart == ASSUME AllAd7147 PROVE StartSpec => []IInv
<1>1. StartInv /\ AtRest => IInv
  <2> SUFFICES ASSUME StartInv, AtRest PROVE IInv
    OBVIOUS
  <2>1. OneStageEach /\ wired \subseteq Device
    BY InstallationAssumption DEF StartInv, Listed
  <2>2. instances \in [Bus -> [Stage -> MaybeDevice]]
    BY <2>1 DEF StartInv, Placed, MaybeDevice
  <2> QED
    BY <2>1, <2>2, RestIInv
<1>2. StartInit => AtRest
    BY DEF StartInit
<1>3. StartInv /\ IInv /\ [StartNext]_allVars => AtRest' \/ IInv'
    BY StepIInv, SetUpRests DEF StartNext, allVars
<1> QED
    BY <1>1, <1>2, <1>3, StartInductive, PTL DEF StartSpec

(* After any start-up, a module's touches never appear in another's areas. *)
THEOREM OwnStateFromStart == ASSUME AllAd7147 PROVE StartSpec => []OwnSample
<1>1. IInv => OwnSample
    BY DEF IInv
<1> QED
    BY <1>1, SamplingFromStart, PTL

(* After any start-up, each stored frame holds a new sample of every sensor. *)
THEOREM FramesFreshFromStart == ASSUME AllAd7147 PROVE StartSpec => FrameFresh
<1>1. StartInv /\ IInv /\ [StartNext]_allVars =>
        [frame' # frame => \E d \in Registered : fresh \cup {d} = Registered /\ d \notin fresh]_vars
    BY StepIInv, SetUpRests DEF FrameStep, StartNext, allVars
<1> QED
    BY <1>1, StartInductive, SamplingFromStart, PTL DEF StartSpec, FrameFresh
-----------------------------------------------------------------------------
(* The offset calibration, which runs in the callbacks of the samples.

   What a sweep leaves behind cannot be read off its outcome alone: a channel
   may be asked for again when it is done, and then the sweep goes on from where
   it stopped.  Sound is what holds of a channel at any moment of a sweep. *)
ChannelState ==
  [due : BOOLEAN, target : 0..255, aef : ScanB..0, best : ScanB..0, samples : Nat, quiet : Nat,
   offset : -127..127, abnormal : BOOLEAN]

\* at the end of the sweep the offset is that of the end, and only there a channel is given up
Sound(c) ==
  /\ c.aef = ScanB => c.offset = Offset(ScanB) /\ c.best <= ScanB + 1
  /\ c.abnormal => c.aef = ScanB /\ c.best = ScanB

Outcome(c) ==
  \/ c.abnormal /\ c.offset = Offset(ScanB)
  \/ ~c.abnormal /\ c.offset = Offset(c.best + SaveArea)

OutcomeInv ==
  /\ channel \in [Sensors -> [Channel -> ChannelState]]
  /\ swept \in [Sensors -> SUBSET Channel]
  /\ sensitivityTarget \in 0..255
  /\ \A s \in Sensors : \A ch \in Channel :
       /\ Sound(channel[s][ch])
       /\ ch \in swept[s] /\ ~channel[s][ch].due => Outcome(channel[s][ch])

LEMMA MinOfTwo == ASSUME NEW a \in Int, NEW b \in Int PROVE Min({a, b}) = IF a <= b THEN a ELSE b
<1>1. \E x \in {a, b} : \A y \in {a, b} : x =< y
    OBVIOUS
<1>2. Min({a, b}) \in {a, b} /\ \A y \in {a, b} : Min({a, b}) =< y
    BY <1>1 DEF Min
<1> QED
    BY <1>2

LEMMA MaxOfTwo == ASSUME NEW a \in Int, NEW b \in Int PROVE Max({a, b}) = IF a >= b THEN a ELSE b
<1>1. \E x \in {a, b} : \A y \in {a, b} : x >= y
    OBVIOUS
<1>2. Max({a, b}) \in {a, b} /\ \A y \in {a, b} : Max({a, b}) >= y
    BY <1>1 DEF Max
<1> QED
    BY <1>2

\* the register takes what fits into it
LEMMA OffsetClamps ==
  ASSUME NEW x \in Int
  PROVE  Offset(x) = IF x < -127 THEN -127 ELSE IF x > 127 THEN 127 ELSE x
<1> DEFINE m == Min({127, x})
<1>1. m = IF 127 <= x THEN 127 ELSE x
    BY MinOfTwo
<1>2. m \in Int
    BY <1>1
<1>3. Offset(x) = IF -127 >= m THEN -127 ELSE m
  <2> HIDE DEF m
  <2>1. Max({-127, m}) = IF -127 >= m THEN -127 ELSE m
    BY <1>2, MaxOfTwo
  <2> QED
    BY <2>1 DEF Offset, m
<1> QED
    BY <1>1, <1>3

\* a channel with some of its fields replaced
LEMMA StillAChannel ==
  ASSUME NEW c \in ChannelState
  PROVE  /\ \A x, y \in ScanB..0 : \A o \in -127..127 :
              [c EXCEPT !.best = x, !.samples = 0, !.aef = y, !.offset = o] \in ChannelState
         /\ \A x \in ScanB..0 :
              [c EXCEPT !.best = x, !.samples = 0, !.due = FALSE, !.abnormal = TRUE] \in ChannelState
         /\ \A o \in -127..127 : [c EXCEPT !.due = FALSE, !.offset = o] \in ChannelState
         /\ \A g \in 0..255 : [c EXCEPT !.due = TRUE, !.target = g] \in ChannelState
         /\ [c EXCEPT !.abnormal = FALSE] \in ChannelState
         /\ \A x, y \in ScanB..0 : \A o \in -127..127 :
              [c EXCEPT !.aef = x, !.best = y, !.samples = 0, !.quiet = 0, !.offset = o] \in ChannelState
<1> DEFINE B == BOOLEAN
           T == 0..255
           P == ScanB..0
           N == Nat
           O == -127..127
           C == [due : B, target : T, aef : P, best : P, samples : N, quiet : N, offset : O,
                 abnormal : B]
<1>1. C = ChannelState
    BY DEF ChannelState
<1>2. c \in C /\ 0 \in N /\ TRUE \in B /\ FALSE \in B
    BY <1>1
<1>3. /\ \A x, y \in P : \A o \in O :
           [c EXCEPT !.best = x, !.samples = 0, !.aef = y, !.offset = o] \in C
      /\ \A x \in P : [c EXCEPT !.best = x, !.samples = 0, !.due = FALSE, !.abnormal = TRUE] \in C
      /\ \A o \in O : [c EXCEPT !.due = FALSE, !.offset = o] \in C
      /\ \A g \in T : [c EXCEPT !.due = TRUE, !.target = g] \in C
      /\ [c EXCEPT !.abnormal = FALSE] \in C
      /\ \A x, y \in P : \A o \in O :
           [c EXCEPT !.aef = x, !.best = y, !.samples = 0, !.quiet = 0, !.offset = o] \in C
  <2> HIDE DEF B, T, P, N, O
  <2> QED
    BY <1>2
<1> HIDE DEF C
<1> QED
    BY <1>1, <1>3, Zenon

LEMMA AdvancedSound ==
  ASSUME ScanB = -127, NEW c \in ChannelState, Sound(c), c.due
  PROVE  /\ Advanced(c) \in ChannelState /\ Sound(Advanced(c))
         /\ ~Advanced(c).due => Outcome(Advanced(c))
<1>1. c.aef \in ScanB..0 /\ Offset(ScanB) = -127
    BY OffsetClamps DEF ChannelState
<1>2. CASE c.aef > ScanB
  <2>1. c.aef - 1 \in ScanB..0 /\ Offset(c.aef - 1) \in -127..127
        /\ (c.aef - 1 = ScanB => Offset(c.aef - 1) = -127)
    BY <1>1, <1>2, OffsetClamps
  <2>2. Advanced(c) = [c EXCEPT !.best = c.aef, !.samples = 0, !.aef = c.aef - 1,
                                !.offset = Offset(c.aef - 1)]
    BY <1>2 DEF Advanced, ChannelState
  <2> DEFINE d == Advanced(c)
             o == Offset(c.aef - 1)
             a == c.aef - 1
  <2>3. /\ d \in ChannelState
        /\ d.aef = a /\ d.best = c.aef /\ d.due = c.due
        /\ d.offset = o /\ d.abnormal = c.abnormal
    <3>1. o \in -127..127 /\ a \in ScanB..0
      BY <2>1
    <3>2. d = [c EXCEPT !.best = c.aef, !.samples = 0, !.aef = a, !.offset = o]
      BY <2>2
    <3> HIDE DEF d, o, a
    <3>3. d \in ChannelState
      <4>1. c.aef \in ScanB..0 /\ 0 \in Nat
        BY <1>1
      <4> QED
        BY <3>1, <3>2, <4>1, StillAChannel
    <3>4. d.aef = a /\ d.best = c.aef /\ d.due = c.due /\ d.offset = o /\ d.abnormal = c.abnormal
      BY <3>2 DEF ChannelState
    <3> QED
      BY <3>3, <3>4
  <2>4. Sound(d)
    BY <1>1, <1>2, <2>1, <2>3 DEF Sound
  <2> QED
    BY <2>3, <2>4
<1>3. CASE ~ (c.aef > ScanB)
  <2>1. Advanced(c) = [c EXCEPT !.best = c.aef, !.samples = 0, !.due = FALSE, !.abnormal = TRUE]
    BY <1>3 DEF Advanced, ChannelState
  <2>2. c.aef = ScanB /\ c.offset = Offset(ScanB)
    BY <1>1, <1>3 DEF Sound
  <2> DEFINE d == Advanced(c)
  <2>3. /\ d \in ChannelState
        /\ d.aef = ScanB /\ d.best = ScanB /\ d.offset = Offset(ScanB) /\ d.abnormal = TRUE
    <3> HIDE DEF d
    <3>1. d = [c EXCEPT !.best = c.aef, !.samples = 0, !.due = FALSE, !.abnormal = TRUE]
      BY <2>1 DEF d
    <3>2. d \in ChannelState
      <4>1. c.aef \in ScanB..0 /\ 0 \in Nat
        BY <1>1
      <4> QED
        BY <3>1, <4>1, StillAChannel
    <3>3. d.aef = c.aef /\ d.best = c.aef /\ d.offset = c.offset /\ d.abnormal = TRUE
      BY <3>1 DEF ChannelState
    <3> QED
      BY <2>2, <3>2, <3>3
  <2> QED
    BY <1>1, <2>3 DEF Sound, Outcome
<1> QED
    BY <1>2, <1>3

LEMMA CompletedSound ==
  ASSUME ScanB = -127, NEW c \in ChannelState, Sound(c)
  PROVE  /\ Completed(c) \in ChannelState /\ Sound(Completed(c)) /\ Outcome(Completed(c))
<1> DEFINE d == Completed(c)
           o == Offset(c.best + SaveArea)
<1>1. c.best \in ScanB..0 /\ c.aef \in ScanB..0 /\ Offset(ScanB) = -127
    BY OffsetClamps DEF ChannelState
<1>2. /\ o \in -127..127
      /\ c.best <= ScanB + 1 => o = -127
    BY <1>1, OffsetClamps DEF SaveArea
<1>3. /\ d \in ChannelState /\ d.aef = c.aef /\ d.best = c.best /\ d.offset = o
      /\ d.abnormal = c.abnormal
  <2> HIDE DEF o, d
  <2>1. d = [c EXCEPT !.due = FALSE, !.offset = o]
    BY DEF Completed, d, o
  <2>2. d \in ChannelState
    BY <1>2, <2>1, StillAChannel
  <2>3. d.aef = c.aef /\ d.best = c.best /\ d.offset = o /\ d.abnormal = c.abnormal
    BY <2>1 DEF ChannelState
  <2> QED
    BY <2>2, <2>3
<1>4. c.abnormal => c.best = ScanB
    BY DEF Sound
<1>5. Sound(d)
    BY <1>1, <1>2, <1>3 DEF Sound
<1>6. Outcome(d)
    BY <1>1, <1>2, <1>3, <1>4 DEF Outcome
<1> QED
    BY <1>3, <1>5, <1>6

LEMMA SweptSound ==
  ASSUME ScanB = -127, NEW c \in ChannelState, Sound(c), c.due, NEW touched \in BOOLEAN
  PROVE  /\ Swept(c, touched) \in ChannelState /\ Sound(Swept(c, touched))
         /\ ~Swept(c, touched).due => Outcome(Swept(c, touched))
<1> DEFINE read  == [c EXCEPT !.samples = Min({@ + 1, ScanSamples + 1})]
           reset == [read EXCEPT !.quiet = 0]
           quiet == [read EXCEPT !.quiet = Min({@ + 1, MeasureSamples + 1})]
<1>1. /\ ScanSamples \in Nat /\ MeasureSamples \in Nat
    BY CalibrationConstants
<1>2. read \in ChannelState /\ read.due /\ Sound(read)
  <2>1. Min({c.samples + 1, ScanSamples + 1}) \in Nat
    BY <1>1, MinOfTwo DEF ChannelState
  <2>2. /\ read \in ChannelState /\ read.due = c.due /\ read.aef = c.aef /\ read.best = c.best
        /\ read.offset = c.offset /\ read.abnormal = c.abnormal
    <3> DEFINE n == Min({c.samples + 1, ScanSamples + 1})
    <3>1. n \in Nat /\ read = [c EXCEPT !.samples = n]
      BY <2>1
    <3> HIDE DEF n, read
    <3>2. read \in ChannelState
      BY <3>1 DEF ChannelState
    <3> QED
      BY <3>1, <3>2 DEF ChannelState
  <2> QED
    BY <2>2 DEF Sound
<1> HIDE DEF read
<1>3. reset \in ChannelState /\ reset.due /\ Sound(reset)
    BY <1>2 DEF ChannelState, Sound
<1>4. quiet \in ChannelState /\ quiet.due /\ Sound(quiet)
  <2>1. Min({read.quiet + 1, MeasureSamples + 1}) \in Nat
    BY <1>1, <1>2, MinOfTwo DEF ChannelState
  <2>2. /\ quiet \in ChannelState /\ quiet.due = read.due /\ quiet.aef = read.aef
        /\ quiet.best = read.best /\ quiet.offset = read.offset /\ quiet.abnormal = read.abnormal
    <3> DEFINE n == Min({read.quiet + 1, MeasureSamples + 1})
    <3>1. n \in Nat /\ quiet = [read EXCEPT !.quiet = n]
      BY <2>1
    <3> HIDE DEF n, quiet
    <3>2. quiet \in ChannelState
      BY <1>2, <3>1 DEF ChannelState
    <3> QED
      BY <1>2, <3>1, <3>2 DEF ChannelState
  <2> QED
    BY <1>2, <2>2 DEF Sound
<1> HIDE DEF reset, quiet
<1>5. Swept(c, touched) \in {read, Advanced(read), Advanced(reset), quiet, Completed(quiet)}
  <2>1. c.samples \in Nat
    BY DEF ChannelState
  <2> QED
    BY <1>1, <2>1 DEF Swept, read, reset, quiet
<1>6. /\ Advanced(read) \in ChannelState /\ Sound(Advanced(read))
      /\ ~Advanced(read).due => Outcome(Advanced(read))
    BY <1>2, AdvancedSound
<1>7. /\ Advanced(reset) \in ChannelState /\ Sound(Advanced(reset))
      /\ ~Advanced(reset).due => Outcome(Advanced(reset))
    BY <1>3, AdvancedSound
<1>8. /\ Completed(quiet) \in ChannelState /\ Sound(Completed(quiet)) /\ Outcome(Completed(quiet))
    BY <1>4, CompletedSound
<1> QED
    BY <1>2, <1>4, <1>5, <1>6, <1>7, <1>8
\* the first callback after a start: flags are taken back, the due channels begin
LEMMA PreparedSound ==
  ASSUME ScanB = -127, NEW chs \in [Channel -> ChannelState], NEW ch \in Channel, Sound(chs[ch])
  PROVE  /\ Prepared(chs)[ch] \in ChannelState /\ Sound(Prepared(chs)[ch])
         /\ Prepared(chs)[ch].due = chs[ch].due
         /\ Outcome(chs[ch]) /\ ~chs[ch].due => Outcome(Prepared(chs)[ch])
<1> DEFINE c == chs[ch]
           u == [c EXCEPT !.abnormal = FALSE]
           o == Offset(ScanA)
           v == [u EXCEPT !.aef = ScanA, !.best = 0, !.samples = 0, !.quiet = 0, !.offset = o]
<1>1. Prepared(chs)[ch] = IF u.due THEN v ELSE u
    BY DEF Prepared
<1>2. c \in ChannelState /\ Sound(c)
    OBVIOUS
<1>3. /\ ScanA \in ScanB..0 /\ ScanA # ScanB /\ 0 \in ScanB..0 /\ o \in -127..127
      /\ Offset(ScanB) = -127 /\ Offset(ScanB + SaveArea) = -127
    BY CalibrationConstants, OffsetClamps DEF SaveArea
<1> HIDE DEF c, o
<1>4. /\ u \in ChannelState /\ u.due = c.due /\ u.aef = c.aef /\ u.best = c.best
      /\ u.offset = c.offset /\ u.abnormal = FALSE
  <2>1. u \in ChannelState
    BY <1>2, StillAChannel
  <2> QED
    BY <1>2, <2>1 DEF ChannelState
<1> HIDE DEF u
<1>5. v \in ChannelState /\ v.due = u.due /\ v.aef = ScanA /\ v.abnormal = FALSE
  <2>1. v \in ChannelState
    BY <1>3, <1>4, StillAChannel
  <2> QED
    BY <1>4, <2>1 DEF ChannelState
<1> HIDE DEF v
<1>6. Sound(u) /\ Sound(v)
    BY <1>2, <1>3, <1>4, <1>5 DEF Sound
<1>7. Outcome(c) => Outcome(u)
    BY <1>2, <1>3, <1>4 DEF Sound, Outcome
<1> QED
    BY <1>1, <1>4, <1>5, <1>6, <1>7 DEF c

LEMMA SampleKeepsOutcome ==
  ASSUME ScanB = -127, OutcomeInv, NEW s \in Sensors, SampleDone(s) PROVE OutcomeInv'
<1> DEFINE before == IF inited[s] THEN channel[s] ELSE Prepared(channel[s])
           due    == {ch \in Channel : before[ch].due}
           after(touched) == [ch \in Channel |-> IF ch \in due THEN Swept(before[ch], ch \in touched)
                                                 ELSE before[ch]]
<1>1. PICK touched \in SUBSET Channel :
        /\ channel' = [channel EXCEPT ![s] = after(touched)]
        /\ swept' = [swept EXCEPT ![s] = @ \union {ch \in due : ~after(touched)[ch].due}]
    BY DEF SampleDone
<1>2. /\ channel \in [Sensors -> [Channel -> ChannelState]] /\ channel[s] \in [Channel -> ChannelState]
      /\ swept \in [Sensors -> SUBSET Channel] /\ UNCHANGED sensitivityTarget
    BY DEF OutcomeInv, SampleDone
<1>3. ASSUME NEW ch \in Channel
      PROVE  /\ before[ch] \in ChannelState /\ Sound(before[ch])
             /\ ch \in swept[s] /\ ~before[ch].due => Outcome(before[ch])
  <2>1. Sound(channel[s][ch]) /\ (ch \in swept[s] /\ ~channel[s][ch].due => Outcome(channel[s][ch]))
    BY DEF OutcomeInv
  <2>2. CASE inited[s]
    BY <1>2, <2>1, <2>2
  <2>3. CASE ~ inited[s]
    <3>1. before = Prepared(channel[s])
      BY <2>3
    <3> HIDE DEF before
    <3> QED
      BY <1>2, <2>1, <3>1, PreparedSound
  <2> QED
    BY <2>2, <2>3
<1> HIDE DEF before
<1>4. ASSUME NEW ch \in Channel
      PROVE  /\ after(touched)[ch] \in ChannelState /\ Sound(after(touched)[ch])
             /\ ch \in swept'[s] /\ ~after(touched)[ch].due => Outcome(after(touched)[ch])
  <2>1. CASE ch \in due
    <3>1. before[ch].due /\ after(touched)[ch] = Swept(before[ch], ch \in touched)
      BY <2>1
    <3>2. (ch \in touched) \in BOOLEAN
      OBVIOUS
    <3> HIDE DEF after, due
    <3> QED
      BY <1>3, <3>1, <3>2, SweptSound
  <2>2. CASE ch \notin due
    <3>1. ~before[ch].due /\ after(touched)[ch] = before[ch] /\ (ch \in swept'[s] => ch \in swept[s])
      BY <1>1, <1>2, <2>2
    <3> HIDE DEF after, due
    <3> QED
      BY <1>3, <3>1
  <2> QED
    BY <2>1, <2>2
<1>5. DOMAIN after(touched) = Channel /\ after(touched) = [ch \in Channel |-> after(touched)[ch]]
    OBVIOUS
<1>6. {ch \in due : ~after(touched)[ch].due} \subseteq Channel
    OBVIOUS
<1> HIDE DEF after, due
<1>7. after(touched) \in [Channel -> ChannelState]
    BY <1>4, <1>5
<1>8. /\ channel' \in [Sensors -> [Channel -> ChannelState]] /\ swept' \in [Sensors -> SUBSET Channel]
      /\ channel'[s] = after(touched)
      /\ \A r \in Sensors \ {s} : channel'[r] = channel[r] /\ swept'[r] = swept[r]
    BY <1>1, <1>2, <1>6, <1>7
<1>9. ASSUME NEW r \in Sensors, NEW ch \in Channel
      PROVE  /\ Sound(channel'[r][ch])
             /\ ch \in swept'[r] /\ ~channel'[r][ch].due => Outcome(channel'[r][ch])
  <2>1. CASE r = s
    BY <1>4, <1>8, <2>1
  <2>2. CASE r # s
    BY <1>8, <2>2 DEF OutcomeInv
  <2> QED
    BY <2>1, <2>2
<1> QED
    BY <1>2, <1>8, <1>9 DEF OutcomeInv, Sound, Outcome
LEMMA CalibrationStep ==
  ScanB = -127 /\ OutcomeInv /\ [CalibrationNext]_calibrationVars => OutcomeInv'
<1> SUFFICES ASSUME ScanB = -127, OutcomeInv, [CalibrationNext]_calibrationVars PROVE OutcomeInv'
    OBVIOUS
<1> DEFINE Asked(c, d) == d = c \/ (d \in ChannelState /\ d.due = TRUE /\ Sound(d))
<1>1. ASSUME NEW c \in ChannelState, Sound(c), NEW g \in 0..255
      PROVE  Asked(c, [c EXCEPT !.due = TRUE, !.target = g])
  <2> DEFINE d == [c EXCEPT !.due = TRUE, !.target = g]
  <2>1. d \in ChannelState
    BY StillAChannel
  <2>2. d.due = TRUE /\ d.aef = c.aef /\ d.best = c.best /\ d.offset = c.offset
        /\ d.abnormal = c.abnormal
    BY DEF ChannelState
  <2> HIDE DEF d
  <2>3. Sound(d)
    BY <1>1, <2>2 DEF Sound
  <2> QED
    BY <2>1, <2>2, <2>3 DEF d
<1>2. ASSUME \A s \in Sensors : DOMAIN channel'[s] = Channel /\ channel'[s] = [ch \in Channel |-> channel'[s][ch]],
             channel' = [s \in Sensors |-> channel'[s]], swept' = swept,
             sensitivityTarget' \in 0..255,
             \A s \in Sensors : \A ch \in Channel : Asked(channel[s][ch], channel'[s][ch])
      PROVE  OutcomeInv'
  <2>1. ASSUME NEW s \in Sensors, NEW ch \in Channel
        PROVE  /\ channel'[s][ch] \in ChannelState /\ Sound(channel'[s][ch])
               /\ ch \in swept[s] /\ ~channel'[s][ch].due => Outcome(channel'[s][ch])
    <3>1. /\ channel[s][ch] \in ChannelState /\ Sound(channel[s][ch])
          /\ ch \in swept[s] /\ ~channel[s][ch].due => Outcome(channel[s][ch])
      BY DEF OutcomeInv
    <3> QED
      BY <1>2, <3>1
  <2>2. channel' \in [Sensors -> [Channel -> ChannelState]]
    BY <1>2, <2>1
  <2> QED
    BY <1>2, <2>1, <2>2 DEF OutcomeInv, Sound, Outcome
<1>3. /\ channel \in [Sensors -> [Channel -> ChannelState]] /\ sensitivityTarget \in 0..255
      /\ \A s \in Sensors : \A ch \in Channel :
           channel[s][ch] \in ChannelState /\ Sound(channel[s][ch])
    BY DEF OutcomeInv
<1>4. CASE UNCHANGED <<channel, swept, sensitivityTarget>>
    BY <1>4 DEF OutcomeInv, Sound, Outcome
<1>5. CASE StartSensors
  <2>1. CASE request = "normal"
    <3>1. channel' = [s \in Sensors |-> StartedAll(channel[s])] /\ UNCHANGED <<swept, sensitivityTarget>>
      BY <1>5, <2>1 DEF StartSensors
    <3>2. ASSUME NEW s \in Sensors, NEW ch \in Channel
          PROVE  channel'[s][ch] = [channel[s][ch] EXCEPT !.due = TRUE, !.target = sensitivityTarget]
      BY <3>1 DEF StartedAll
    <3> HIDE DEF Asked
    <3>3. ASSUME NEW s \in Sensors, NEW ch \in Channel
          PROVE  Asked(channel[s][ch], channel'[s][ch])
      <4>1. channel[s][ch] \in ChannelState /\ Sound(channel[s][ch])
        BY <1>3
      <4>2. Asked(channel[s][ch], [channel[s][ch] EXCEPT !.due = TRUE, !.target = sensitivityTarget])
        BY <1>1, <1>3, <4>1
      <4> QED
        BY <3>2, <4>2
    <3> QED
      BY <1>2, <1>3, <3>1, <3>3 DEF StartedAll
  <2>2. CASE request # "normal"
    BY <1>4, <1>5, <2>2 DEF StartSensors
  <2> QED
    BY <2>1, <2>2
<1>6. ASSUME NEW s \in Sensors, SetTarget(s) PROVE OutcomeInv'
  <2>1. PICK chs \in SUBSET Channel \ {{}}, t \in Targets :
          channel' = [channel EXCEPT ![s] = [ch \in Channel |->
            IF ch \in chs THEN [channel[s][ch] EXCEPT !.due = TRUE, !.target = t] ELSE channel[s][ch]]]
    BY <1>6 DEF SetTarget
  <2>2. t \in 0..255 /\ UNCHANGED <<swept, sensitivityTarget>>
    BY <1>6, CalibrationConstants DEF SetTarget
  <2>3. ASSUME NEW r \in Sensors, NEW ch \in Channel
        PROVE  channel'[r][ch] \in {channel[r][ch], [channel[r][ch] EXCEPT !.due = TRUE, !.target = t]}
    BY <1>3, <2>1
  <2>4. ASSUME NEW r \in Sensors, NEW ch \in Channel PROVE Asked(channel[r][ch], channel'[r][ch])
    <3>1. channel[r][ch] \in ChannelState /\ Sound(channel[r][ch])
      BY <1>3
    <3>2. /\ Asked(channel[r][ch], channel[r][ch])
          /\ Asked(channel[r][ch], [channel[r][ch] EXCEPT !.due = TRUE, !.target = t])
      <4>1. Asked(channel[r][ch], channel[r][ch])
        OBVIOUS
      <4> HIDE DEF Asked
      <4> QED
        BY <1>1, <2>2, <3>1, <4>1
    <3> HIDE DEF Asked
    <3> QED
      BY <2>3, <3>2
  <2> HIDE DEF Asked
  <2>5. /\ channel' = [r \in Sensors |-> channel'[r]]
        /\ \A r \in Sensors : DOMAIN channel'[r] = Channel /\ channel'[r] = [ch \in Channel |-> channel'[r][ch]]
    BY <1>3, <2>1
  <2> QED
    BY <1>2, <1>3, <2>2, <2>4, <2>5
<1>7. CASE CalibrateAll
  <2>1. sensitivityTarget' \in 0..255 /\ UNCHANGED <<channel, swept>>
    BY <1>7, CalibrationConstants DEF CalibrateAll, sensor
  <2> QED
    BY <2>1 DEF OutcomeInv, Sound, Outcome
<1>8. CASE ClearRequest \/ AskProgress \/ CalibrateSelected \/ PageSees \/ PageClears
           \/ UNCHANGED calibrationVars
    BY <1>4, <1>8 DEF ClearRequest, AskProgress, CalibrateSelected, PageSees, PageClears, sensor,
                      calibrationVars
<1> QED
    BY <1>5, <1>6, <1>7, <1>8, SampleKeepsOutcome DEF CalibrationNext, Calibrating, Page

(* CalibrationLoop: for any number of sensors and channels, any targets and any
   requests in the meantime, a channel that a sweep is through with has the
   outcome it was told.  It rests on the sweep ending at the end of the register
   (CALIBRATION_STAGE1_SCAN_RANGEB is -127): the flag of a channel that was given
   up is taken back by the next calibration, and its offset is then also the one
   a completed channel would have. *)
THEOREM OutcomesKept == ScanB = -127 => (CalibrationSpec => []OutcomeKept)
<1> SUFFICES ASSUME ScanB = -127 PROVE CalibrationSpec => []OutcomeKept
    OBVIOUS
<1>1. CalibrationInit => OutcomeInv
  <2> SUFFICES ASSUME CalibrationInit PROVE OutcomeInv
    OBVIOUS
  <2>1. Untried \in ChannelState /\ Untried.aef = 0 /\ Untried.abnormal = FALSE
    BY DEF Untried, ChannelState
  <2>2. Sound(Untried)
    BY <2>1 DEF Sound
  <2> QED
    BY <2>1, <2>2 DEF CalibrationInit, OutcomeInv
<1>2. OutcomeInv => OutcomeKept
    BY DEF OutcomeInv, OutcomeKept, Outcome
<1> QED
    BY <1>1, <1>2, CalibrationStep, PTL DEF CalibrationSpec
=============================================================================

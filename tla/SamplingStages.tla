--------------------------- MODULE SamplingStages ---------------------------
(***************************************************************************)
(* How InputManager samples its touch sensors.  Each I2C bus has a ring of *)
(* stages with at most one sensor each.  task0 on core 0 locks a bus and   *)
(* starts the sensor of its current stage; the sensor's callback, which    *)
(* runs in the bus's interrupt (AD7147, GTX312L) or in task0 itself (PSoC, *)
(* which is read synchronously), records the sample, stores a frame when   *)
(* every registered sensor has answered, and releases the bus to its next  *)
(* stage.                                                                  *)
(*                                                                         *)
(* HAL_I2C shares each controller between that transfer and synchronous    *)
(* accesses: these wait until no transfer runs and then turn the           *)
(* controller's interrupts off.  The settings pages on core 1 make such    *)
(* accesses too.                                                           *)
(***************************************************************************)
EXTENDS Naturals, Sequences

CONSTANTS
  Device,      \* the sensors found at start-up
  None,        \* the null pointer
  Stages,      \* stages per bus, 4
  Layouts,     \* the installations considered: a sequence of sensors per bus
  Kind         \* the driver of each sensor

Bus == {0, 1}

ASSUME StagesAssumption == Stages \in Nat \ {0}
ASSUME DeviceAssumption ==
  /\ None \notin Device
  /\ Kind \in [Device -> {"ad7147", "gtx312l", "psoc"}]
\* start() found a free stage for every sensor
ASSUME LayoutAssumption ==
  \A layout \in Layouts :
    /\ layout \in [Bus -> Seq(Device)]
    /\ \A b \in Bus : Len(layout[b]) <= Stages
    /\ \A b, c \in Bus : \A i \in DOMAIN layout[b], j \in DOMAIN layout[c] :
         layout[b][i] = layout[c][j] => b = c /\ i = j

VARIABLES
  instances,   \* device_instances[4] of each bus
  current,     \* current_stage of each bus
  locked,      \* stage_locked of each bus
  completed,   \* device_completed_bitmap_
  from,        \* touch_device_states_: the sensor whose sample each entry holds
  dma,         \* dma_status_ of each controller, and the sensor it reads
  enabled,     \* interrupts_enabled_ of each HAL object
  mask,        \* whether the controller's interrupt mask lets a completion through
  pc, target,  \* task0: where it is in updateTouchStates, and _target_device
  answer,      \* the result a synchronous sensor hands to its callback, its mask and outcome
  held,        \* the bitmap that callback has read
  cbMask, cbBus, cbIndex,  \* the callback's function-static variables
  ui,          \* core 1: where it is in a synchronous access to each bus
  frame,       \* the counter of stored frames, modulo 2
  fresh        \* history: the sensors sampled since the last frame

stageVars == <<instances, current, locked>>
frameVars == <<completed, from, frame, fresh>>
halVars   == <<dma, enabled, mask>>
loopVars  == <<pc, target, answer, held>>
statics   == <<cbMask, cbBus, cbIndex>>
vars      == <<instances, current, locked, completed, from, dma, enabled, mask,
               pc, target, answer, held, cbMask, cbBus, cbIndex, ui, frame, fresh>>

BusOf(d) == CHOOSE b \in Bus : \E s \in 0..(Stages - 1) : instances[b][s] = d
Registered == {d \in Device : \E b \in Bus, s \in 0..(Stages - 1) : instances[b][s] = d}

\* a TouchSampleResult: whose mask it carries and whether it is stamped as a
\* success; a mask that was only cleared names no sensor, and bit 7, the bus,
\* is 0 in it
Succeeded(d) == [mask |-> d, ok |-> TRUE]
Failed(d)    == [mask |-> d, ok |-> FALSE]
MaskBus(m)   == IF m = None THEN 0 ELSE BusOf(m)

\* the constructor: nothing locked, sampled, asked for or in transfer
AtRest ==
  /\ current = [b \in Bus |-> 0] /\ locked = [b \in Bus |-> FALSE]
  /\ completed = {} /\ fresh = {} /\ frame = 0
  /\ from = [d \in Device |-> None]
  /\ dma = [b \in Bus |-> None]
  /\ enabled = [b \in Bus |-> FALSE] /\ mask = [b \in Bus |-> FALSE]
  /\ pc = <<"look", 0>> /\ target = None /\ answer = Failed(None) /\ held = {}
  /\ cbMask = None /\ cbBus = 0 /\ cbIndex = None
  /\ ui = [b \in Bus |-> "idle"]

\* start(): each sensor takes the first free stage of its bus in the order of
\* registration; SensorStart shows how it comes to this
Staged(layout) ==
  [b \in Bus |-> [s \in 0..(Stages - 1) |->
     IF s < Len(layout[b]) THEN layout[b][s + 1] ELSE None]]

Init == AtRest /\ \E layout \in Layouts : instances = Staged(layout)

-----------------------------------------------------------------------------
NextStage(b) == current' = [current EXCEPT ![b] = (current[b] + 1) % Stages]
Unlock(b)    == locked' = [locked EXCEPT ![b] = FALSE]
NextBus(b)   == pc' = <<"look", 1 - b>>

\* the sample goes to the slot of the sensor that was looked up; the last of
\* the registered sensors completes the frame
RecordKeepsBitmap(slot, m, bitmap) ==   \* mutant: the bitmap is not reset
  LET done == bitmap \cup {slot} IN
  /\ from' = [from EXCEPT ![slot] = m]
  /\ completed' = done
  /\ fresh' = IF done = Registered THEN {} ELSE fresh \cup {m}
  /\ frame' = IF done = Registered THEN 1 - frame ELSE frame

RecordAtTarget(slot, m, bitmap) ==      \* mutant: the sensor asked last gets the sample
  LET done == bitmap \cup {slot} IN
  /\ from' = [from EXCEPT ![target] = m]
  /\ completed' = IF done = Registered THEN {} ELSE done
  /\ fresh' = IF done = Registered THEN {} ELSE fresh \cup {m}
  /\ frame' = IF done = Registered THEN 1 - frame ELSE frame

Record(slot, m, bitmap) ==
  LET done == bitmap \cup {slot} IN
  /\ from' = [from EXCEPT ![slot] = m]
  /\ completed' = IF done = Registered THEN {} ELSE done
  /\ fresh' = IF done = Registered THEN {} ELSE fresh \cup {m}
  /\ frame' = IF done = Registered THEN 1 - frame ELSE frame

(* async_touchsampleresult as the callback of a transfer, in the controller's
   interrupt.  It runs to its end, and leaves its function-static variables
   behind. *)
AsyncResult(r) ==
  /\ cbMask' = r.mask /\ cbBus' = MaskBus(r.mask)
  /\ cbIndex' = IF r.ok THEN r.mask ELSE None
  /\ IF ~ r.ok THEN Unlock(MaskBus(r.mask)) /\ UNCHANGED <<current, frameVars>>
     ELSE IF r.mask = None THEN UNCHANGED <<current, locked, frameVars>>
     ELSE /\ Record(r.mask, r.mask, completed)
          /\ Unlock(MaskBus(r.mask)) /\ NextStage(MaskBus(r.mask))

\* the drivers' results: a failed AD7147 result keeps its mask, a failed
\* GTX312L result loses it but is stamped with the time
Ad7147Answer(d, success)  == IF success THEN Succeeded(d) ELSE Failed(d)
Gtx312lAnswer(d, success) == Succeeded(IF success THEN d ELSE None)
AsyncAnswer(d, success) ==
  IF Kind[d] = "ad7147" THEN Ad7147Answer(d, success) ELSE Gtx312lAnswer(d, success)

\* _handle_i2c_irq, on STOP_DET or TX_ABRT
Irq(b, success) ==
  /\ dma[b] # None /\ mask[b] /\ pc # <<"enable", b>>
  /\ AsyncResult(AsyncAnswer(dma[b], success))
  /\ dma' = [dma EXCEPT ![b] = None]
  /\ UNCHANGED <<instances, enabled, mask, loopVars, ui>>

-----------------------------------------------------------------------------
(* task0 on core 0: updateTouchStates, bus by bus *)

\* a locked bus is passed over; an empty stage only advances the ring
Look(b) ==
  /\ pc = <<"look", b>>
  /\ IF locked[b] THEN NextBus(b) /\ UNCHANGED <<current, target>>
     ELSE IF instances[b][current[b]] = None
       THEN NextStage(b) /\ NextBus(b) /\ UNCHANGED target
       ELSE /\ target' = instances[b][current[b]]
            /\ pc' = <<"ready", b>> /\ UNCHANGED current
  /\ UNCHANGED <<instances, locked, frameVars, halVars, answer, held, statics, ui>>

\* _wait_for_bus_idle; 10 ms may be too short
Idle(b) == dma[b] = None

\* a synchronous access ends with the controller's interrupts off
InterruptsOff(b) ==
  /\ enabled' = [enabled EXCEPT ![b] = FALSE]
  /\ mask' = IF enabled[b] THEN [mask EXCEPT ![b] = FALSE] ELSE mask

\* sample_ready of an AD7147 reads a register, and finds it not ready when the
\* wait for the bus times out; then the bus is locked
Ready(b, ready) ==
  /\ pc = <<"ready", b>>
  /\ IF Kind[target] # "ad7147" THEN ready /\ UNCHANGED halVars
     ELSE IF dma[b] # None THEN ~ ready /\ UNCHANGED halVars
     ELSE InterruptsOff(b) /\ UNCHANGED dma
  /\ IF ready
       THEN /\ locked' = [locked EXCEPT ![b] = TRUE]
            /\ pc' = <<IF Kind[target] = "psoc" THEN "read" ELSE "start", b>>
       ELSE NextBus(b) /\ UNCHANGED locked
  /\ UNCHANGED <<instances, current, frameVars, target, answer, held, statics, ui>>

\* _setup_dma_write_read: the controller is busy before its channels are set up
Busy(b, d) == dma' = [dma EXCEPT ![b] = d]

\* read_register_async: false when a transfer runs, which sample() ignores
Start(b) ==
  /\ pc = <<"start", b>>
  /\ IF Idle(b)
       THEN Busy(b, target) /\ pc' = <<"enable", b>>
       ELSE NextBus(b) /\ UNCHANGED dma
  /\ UNCHANGED <<stageVars, frameVars, enabled, mask, target, answer, held, statics, ui>>

\* _enable_i2c_interrupts: nothing to do when they are believed to be on
InterruptsOn(b) ==
  /\ enabled' = [enabled EXCEPT ![b] = TRUE]
  /\ mask' = IF enabled[b] THEN mask ELSE [mask EXCEPT ![b] = TRUE]

\* the DMA channels are started
Enable(b) ==
  /\ pc = <<"enable", b>> /\ NextBus(b)
  /\ InterruptsOn(b)
  /\ UNCHANGED <<stageVars, frameVars, dma, target, answer, held, statics, ui>>

\* PSoC::sample reads synchronously; a failed result is only cleared
ReadPsoc(b, success) ==
  /\ pc = <<"read", b>> /\ pc' = <<"enter", b>>
  /\ IF dma[b] # None THEN ~ success /\ UNCHANGED halVars
     ELSE InterruptsOff(b) /\ UNCHANGED dma
  /\ answer' = IF success THEN Succeeded(target) ELSE Failed(None)
  /\ UNCHANGED <<stageVars, frameVars, target, held, statics, ui>>

\* the callback in task0, where the interrupt of the other bus can run between
\* its steps and overwrite its function-static variables
Enter(b) ==
  /\ pc = <<"enter", b>>
  /\ cbMask' = answer.mask /\ cbBus' = MaskBus(answer.mask) /\ cbIndex' = None
  /\ pc' = <<IF answer.ok THEN "find" ELSE "fail", b>>
  /\ UNCHANGED <<stageVars, frameVars, halVars, target, answer, held, ui>>

FailKeepsLock(b) ==        \* mutant: a failed read leaves the bus locked
  /\ pc = <<"fail", b>> /\ NextBus(b)
  /\ UNCHANGED <<stageVars, frameVars, halVars, target, answer, held, statics, ui>>

Fail(b) ==
  /\ pc = <<"fail", b>> /\ NextBus(b)
  /\ Unlock(cbBus)
  /\ UNCHANGED <<instances, current, frameVars, halVars, target, answer, held, statics, ui>>

Find(b) ==
  /\ pc = <<"find", b>> /\ pc' = <<"mark", b>>
  /\ cbIndex' = cbMask /\ held' = completed
  /\ UNCHANGED <<stageVars, frameVars, halVars, target, answer, cbMask, cbBus, ui>>

Mark(b) ==
  /\ pc = <<"mark", b>> /\ pc' = <<"release", b>>
  /\ Record(cbIndex, answer.mask, held)
  /\ UNCHANGED <<stageVars, halVars, target, answer, held, statics, ui>>

Release(b) ==
  /\ pc = <<"release", b>> /\ NextBus(b)
  /\ Unlock(cbBus) /\ NextStage(cbBus)
  /\ UNCHANGED <<instances, frameVars, halVars, target, answer, held, statics, ui>>

-----------------------------------------------------------------------------
(* A settings page on core 1 reads or sets the sensitivity of a GTX312L or a
   PSoC: read_register or write_register, which wait until no transfer runs on
   the bus and then turn the interrupts off, in steps nothing orders against
   core 0.  (The AD7147 driver leaves such requests to core 0.) *)
OnPage(b) == \E s \in 0..(Stages - 1) :
               instances[b][s] # None /\ Kind[instances[b][s]] # "ad7147"
Access(b, step, next) == ui[b] = step /\ ui' = [ui EXCEPT ![b] = next]
Core0Unchanged == UNCHANGED <<stageVars, frameVars, dma, loopVars, statics>>

UiWait(b) ==
  /\ OnPage(b) /\ dma[b] = None
  /\ Access(b, "idle", IF enabled[b] THEN "mask" ELSE "transfer")
  /\ Core0Unchanged /\ UNCHANGED <<enabled, mask>>

UiMask(b) ==
  /\ Access(b, "mask", "flag")
  /\ mask' = [mask EXCEPT ![b] = FALSE]
  /\ Core0Unchanged /\ UNCHANGED enabled

UiFlag(b) ==
  /\ Access(b, "flag", "transfer")
  /\ enabled' = [enabled EXCEPT ![b] = FALSE]
  /\ Core0Unchanged /\ UNCHANGED mask

UiTransfer(b) ==
  /\ Access(b, "transfer", "idle")
  /\ Core0Unchanged /\ UNCHANGED <<enabled, mask>>

-----------------------------------------------------------------------------
Task0(b) ==
  \/ Look(b)
  \/ \E ready \in BOOLEAN : Ready(b, ready)
  \/ Start(b) \/ Enable(b)
  \/ \E success \in BOOLEAN : ReadPsoc(b, success)
  \/ Enter(b) \/ Fail(b) \/ Find(b) \/ Mark(b) \/ Release(b)
Ui(b) == UiWait(b) \/ UiMask(b) \/ UiFlag(b) \/ UiTransfer(b)
Next  == \E b \in Bus : Task0(b) \/ Ui(b) \/ \E success \in BOOLEAN : Irq(b, success)

Spec == Init /\ [][Next]_vars

\* core 0 keeps looping, core 1 finishes what it began, an unmasked completion
\* is taken, and a sensor that is asked again and again is ready and answers
\* at some time
FairSpec ==
  /\ Spec
  /\ \A b \in Bus :
       /\ WF_vars(Task0(b)) /\ WF_vars(UiMask(b) \/ UiFlag(b) \/ UiTransfer(b))
       /\ SF_vars(Irq(b, TRUE)) /\ SF_vars(Ready(b, TRUE)) /\ SF_vars(ReadPsoc(b, TRUE))

-----------------------------------------------------------------------------
Places == {"look", "ready", "start", "enable", "read", "enter", "fail", "find", "mark", "release"}
MaybeDevice == Device \cup {None}

\* Every variable holds a value its C++ type allows.
TypeOK ==
  /\ instances \in [Bus -> [0..(Stages - 1) -> MaybeDevice]]
  /\ current \in [Bus -> 0..(Stages - 1)] /\ locked \in [Bus -> BOOLEAN]
  /\ completed \in SUBSET Device /\ fresh \in SUBSET Device /\ frame \in {0, 1}
  /\ from \in [Device -> MaybeDevice]
  /\ dma \in [Bus -> MaybeDevice] /\ enabled \in [Bus -> BOOLEAN] /\ mask \in [Bus -> BOOLEAN]
  /\ pc \in Places \X Bus /\ target \in MaybeDevice
  /\ answer \in [mask : MaybeDevice, ok : BOOLEAN] /\ held \in SUBSET Device
  /\ cbMask \in MaybeDevice /\ cbBus \in Bus /\ cbIndex \in MaybeDevice
  /\ ui \in [Bus -> {"idle", "mask", "flag", "transfer"}]

\* Where task0 is between locking a bus and releasing it or starting a transfer.
Sampling(b) == pc[2] = b /\ pc[1] \notin {"look", "ready"}

\* A bus is locked only while a sample of it is under way, in the controller
\* or in task0: a lock that outlives its sample is never released, and with
\* it every later frame is lost.
NoOrphanLock == \A b \in Bus : locked[b] => dma[b] # None \/ Sampling(b)

\* A transfer in flight keeps its bus locked at the stage it was started for,
\* so its answer advances that stage and no second one is started beside it.
StagePinned ==
  \A b \in Bus : dma[b] # None => locked[b] /\ instances[b][current[b]] = dma[b]

\* A sensor's state is only ever set from its own sample: touches of one
\* module never appear in another's areas.
OwnSample == \A d \in Device : from[d] \in {None, d}

\* A stored frame has a sample of every registered sensor taken since the
\* frame before it.
FrameFresh ==
  [][frame' # frame => \E d \in Registered : fresh \cup {d} = Registered /\ d \notin fresh]_vars

\* A transfer whose completion core 1 has masked.
Severed == \E b \in Bus : dma[b] # None /\ ~ mask[b] /\ pc # <<"enable", b>>

\* As long as core 1 masks no transfer in flight, frames keep being stored, if
\* there is a sensor at all.
FramesContinue ==
  ([]<>(frame = 0) /\ []<>(frame = 1)) \/ <>Severed \/ []<>(Registered = {})

=============================================================================

----------------------------- MODULE Calibration -----------------------------
(***************************************************************************)
(* The offset calibration of the AD7147 touch sensors.  A page of the menu *)
(* on core 1 asks InputManager for it; task0 on core 0 starts the sensors  *)
(* and then does nothing but ask for their progress until all have ended.  *)
(* Each sensor sweeps the offset of its due channels inside the callback   *)
(* of its own samples, that is, in the I2C interrupt of core 0.            *)
(*                                                                         *)
(* The callback runs before the bus counts as idle again                   *)
(* (HAL_I2C::_handle_i2c_irq), so a blocking transfer made in it waits for *)
(* ten milliseconds and fails.  Read_CDC_Sample therefore always sees the  *)
(* initial value of its buffer, and what Set_AEF_Offset decides reaches    *)
(* stage_settings_ but not the chip.  Every channel stays enabled: the     *)
(* calls that would disable one are commented out or have no caller.       *)
(***************************************************************************)
EXTENDS Integers, FiniteSetsExt

CONSTANTS
  Sensors,        \* touch_sensor_devices_ that support calibration
  Channels,       \* AD7147_MAX_CHANNELS, 12
  ScanA, ScanB,   \* CALIBRATION_STAGE1_SCAN_RANGEA and ..B, -5 and -127
  ScanSamples,    \* CALIBRATION_SCAN_SAMPLE_COUNT, 300
  MeasureSamples, \* CALIBRATION_MEASURE_SAMPLE_COUNT, 500
  Targets,        \* the targets a user may choose, as uint8_t
  MaxRequests     \* bound: targets set and calibrations asked for

ASSUME CalibrationConstants ==
  /\ Channels \in 1..12 /\ ScanA \in -127..0 /\ ScanB \in -127..(ScanA - 1)
  /\ ScanSamples \in Nat /\ MeasureSamples \in Nat
  /\ Targets \subseteq 0..255 /\ MaxRequests \in Nat

Channel == 0..(Channels - 1)

\* CALIBRATION_AEF_SAVE_AREA
SaveArea == -1

VARIABLES
  channel,     \* of each sensor and channel: due (s1_inited_), target, aef, best,
               \* samples and quiet (the counts of CDC and trigger samples), offset
               \* (of stage_settings_), abnormal
  state,       \* calibration_state_ of each sensor
  inited,      \* inited_ of each sensor
  progress,    \* stage_process of each sensor
  request,     \* calibration_request_pending_
  sensitivityTarget, \* calibration_sensitivity_target_
  inProgress,  \* calibration_in_progress_
  core0,       \* where task0 is: "loop", or with the sensors "started"
  core1,       \* what the page does: nothing, or it has "seen" that all have ended
  swept,       \* history: the channels that a sweep has dealt with
  requests     \* bound counter

sensor          == <<channel, state, inited, progress, swept>>
calibrationVars == <<sensor, request, sensitivityTarget, inProgress, core0, core1, requests>>

Untried == [due |-> FALSE, target |-> 2, aef |-> 0, best |-> 0, samples |-> 0,
            quiet |-> 0, offset |-> 0, abnormal |-> FALSE]

CalibrationInit ==
  /\ channel = [s \in Sensors |-> [ch \in Channel |-> Untried]]
  /\ state = [s \in Sensors |-> "idle"]
  /\ inited = [s \in Sensors |-> FALSE]
  /\ progress = [s \in Sensors |-> 0]
  /\ request = "idle" /\ sensitivityTarget = 2 /\ inProgress = FALSE
  /\ core0 = "loop" /\ core1 = "idle"
  /\ swept = [s \in Sensors |-> {}]
  /\ requests = 0
----------------------------------------------------------------------------
(* ------------------------ the callback of a sample --------------------- *)

\* Compute_CDC_Adjusted_Target for a window without fluctuation; the reduction
\* by the sensitivity is an int16_t
Int16(x) == ((x + 32768) % 65536) - 32768

AdjustedTarget(t) ==
  LET base == 9296 + 512
      reduction == Int16(1024 * t - 2)
  IN IF base > reduction THEN base - reduction ELSE 0

\* the average of failed reads is 0
OnTarget(c) == 0 >= AdjustedTarget(c.target)

Offset(aef) == Max({-127, Min({127, aef})})

\* Clear_and_prepare_stage_settings
Prepared(chs) ==
  [ch \in Channel |->
     LET c == [chs[ch] EXCEPT !.abnormal = FALSE] IN
     IF c.due THEN [c EXCEPT !.aef = ScanA, !.best = 0, !.samples = 0, !.quiet = 0,
                             !.offset = Offset(ScanA)]
     ELSE c]

\* mutant: the offset of the position where the sweep was, not of the one before
CompletedHere(c) == [c EXCEPT !.due = FALSE, !.offset = Offset(c.aef + SaveArea)]

\* the channel is on target and nothing touches it any more
Completed(c) == [c EXCEPT !.due = FALSE, !.offset = Offset(c.best + SaveArea)]

\* mutant: a channel at the end of the sweep stays due
AdvancedForever(c) ==
  LET next == [c EXCEPT !.best = c.aef, !.samples = 0]
  IN IF c.aef > ScanB THEN [next EXCEPT !.aef = @ - 1, !.offset = Offset(c.aef - 1)]
     ELSE [next EXCEPT !.abnormal = TRUE]

\* the sweep goes on to the next position, or ends without having found one
Advanced(c) ==
  LET next == [c EXCEPT !.best = c.aef, !.samples = 0]
  IN IF c.aef > ScanB THEN [next EXCEPT !.aef = @ - 1, !.offset = Offset(c.aef - 1)]
     ELSE [next EXCEPT !.due = FALSE, !.abnormal = TRUE]

\* one round of CalibrationLoop for a due channel; the counts stop above their limit
Swept(c, touched) ==
  LET read == [c EXCEPT !.samples = Min({@ + 1, ScanSamples + 1})]
      quiet == [read EXCEPT !.quiet = Min({@ + 1, MeasureSamples + 1})]
  IN CASE c.samples < ScanSamples -> read
       [] c.samples >= ScanSamples /\ ~OnTarget(c) -> Advanced(read)
       [] c.samples >= ScanSamples /\ OnTarget(c) /\ touched ->
            Advanced([read EXCEPT !.quiet = 0])
       [] OTHER -> IF c.quiet < MeasureSamples THEN quiet ELSE Completed(quiet)

Position(aef) == Min({((ScanA - aef) * 255) \div (ScanA - ScanB), 255})

\* what a channel adds to the progress: a due one only when it moves on
Share(before, after) ==
  IF ~before.due THEN 255
  ELSE IF after.aef # before.aef THEN Position(after.aef) ELSE 0

\* CalibrationLoop, with Complete_and_restore_calibration
SampleDone(s) ==
  /\ state[s] = "process"
  /\ \E touched \in SUBSET Channel :
       LET before == IF inited[s] THEN channel[s] ELSE Prepared(channel[s])
           due == {ch \in Channel : before[ch].due}
           after == [ch \in Channel |->
                       IF ch \in due THEN Swept(before[ch], ch \in touched) ELSE before[ch]]
       IN /\ channel' = [channel EXCEPT ![s] = after]
          /\ state' = [state EXCEPT ![s] = IF due = {} THEN "idle" ELSE @]
          /\ inited' = [inited EXCEPT ![s] = (due # {})]
          /\ progress' = [progress EXCEPT ![s] =
               IF due = {} THEN 255
               ELSE MapThenSumSet(LAMBDA ch : Share(before[ch], after[ch]), Channel)
                      \div Channels]
          /\ swept' = [swept EXCEPT ![s] = @ \union {ch \in due : ~after[ch].due}]
  /\ UNCHANGED <<request, sensitivityTarget, inProgress, core0, core1, requests>>

(* -------------------------------- task0 -------------------------------- *)

\* calibrateSensor: every channel, with the target of all
StartedAll(chs) ==
  [ch \in Channel |-> [chs[ch] EXCEPT !.due = TRUE, !.target = sensitivityTarget]]

\* processCalibrationRequest up to the last sensor; startCalibration leaves the
\* choice of channels to setChannelCalibrationTarget
StartSensors ==
  /\ core0 = "loop" /\ request # "idle"
  /\ channel' = IF request = "normal" THEN [s \in Sensors |-> StartedAll(channel[s])]
                ELSE channel
  /\ state' = [s \in Sensors |-> "process"]
  /\ core0' = "started"
  /\ UNCHANGED <<inited, progress, swept, request, sensitivityTarget, inProgress, core1, requests>>

\* all progresses are 255
AllEnded == \A s \in Sensors : progress[s] = 255

\* the end of processCalibrationRequest, and getCalibrationProgress in the same round
ClearRequest ==
  /\ core0 = "started"
  /\ request' = "idle"
  /\ inProgress' = ~AllEnded
  /\ core0' = "loop"
  /\ UNCHANGED <<sensor, sensitivityTarget, core1, requests>>

\* a later round of task0
AskProgress ==
  /\ core0 = "loop" /\ request = "idle"
  /\ inProgress /\ AllEnded
  /\ inProgress' = FALSE
  /\ UNCHANGED <<sensor, request, sensitivityTarget, core0, core1, requests>>

Calibrating == StartSensors \/ ClearRequest \/ AskProgress

(* ------------------------------- the pages ----------------------------- *)

MayAsk == ~inProgress /\ requests < MaxRequests

\* calibrateAllSensorsWithTarget
CalibrateAll ==
  /\ MayAsk
  /\ \E t \in Targets : sensitivityTarget' = t
  /\ request' = "normal" /\ requests' = requests + 1
  /\ UNCHANGED <<sensor, inProgress, core0, core1>>

\* setCalibrationTargetByBitmap
SetTarget(s) ==
  /\ MayAsk
  /\ \E chs \in SUBSET Channel \ {{}}, t \in Targets :
       channel' = [channel EXCEPT ![s] = [ch \in Channel |->
         IF ch \in chs THEN [@[ch] EXCEPT !.due = TRUE, !.target = t] ELSE @[ch]]]
  /\ requests' = requests + 1
  /\ UNCHANGED <<state, inited, progress, swept, request, sensitivityTarget, inProgress,
                 core0, core1>>

\* calibrateSelectedChannels
CalibrateSelected ==
  /\ MayAsk
  /\ request' = "super" /\ requests' = requests + 1
  /\ UNCHANGED <<sensor, sensitivityTarget, inProgress, core0, core1>>

\* getCalibrationProgress on core 1 sees all progresses at 255 ...
PageSees ==
  /\ core1 = "idle" /\ inProgress /\ AllEnded
  /\ core1' = "seen"
  /\ UNCHANGED <<sensor, request, sensitivityTarget, inProgress, core0, requests>>

\* ... and clears the flag, whatever happened in between
PageClears ==
  /\ core1 = "seen"
  /\ core1' = "idle" /\ inProgress' = FALSE
  /\ UNCHANGED <<sensor, request, sensitivityTarget, core0, requests>>

Page ==
  \/ CalibrateAll \/ CalibrateSelected \/ PageSees \/ PageClears
  \/ \E s \in Sensors : SetTarget(s)

CalibrationNext ==
  \/ Calibrating \/ Page
  \/ \E s \in Sensors : SampleDone(s)

\* task0 runs for ever, and a sensor answers again and again (failed samples
\* change nothing here)
Fairness ==
  WF_calibrationVars(Calibrating) /\ \A s \in Sensors : WF_calibrationVars(SampleDone(s))

CalibrationSpec == CalibrationInit /\ [][CalibrationNext]_calibrationVars /\ Fairness
----------------------------------------------------------------------------
\* A channel that a sweep is through with has the outcome it was told: it is
\* flagged abnormal and has the offset of the end of the sweep, or it has the one
\* below the last position at which something still touched it, whatever was asked
\* in the meantime (CalibrationLoop; a later calibration takes the flags of all
\* channels back, but no offset of a channel that it was not asked for).
OutcomeKept ==
  \A s \in Sensors : \A ch \in swept[s] :
    LET c == channel[s][ch] IN
    ~c.due => \/ c.abnormal /\ c.offset = Offset(ScanB)
              \/ ~c.abnormal /\ c.offset = Offset(c.best + SaveArea)

\* Every calibration ends, and task0 goes back to its work, also when channels
\* or calibrations are asked for while one is under way (getCalibrationProgress).
CalibrationEnds ==
  (inProgress \/ \E s \in Sensors : state[s] = "process")
    ~> (~inProgress /\ \A s \in Sensors : state[s] = "idle")
=============================================================================

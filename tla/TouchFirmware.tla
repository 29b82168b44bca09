---------------------------- MODULE TouchFirmware ----------------------------
(***************************************************************************)
(* The firmware of the repository's own touch module, a PSoC 4 behind I2C: *)
(* SensorFirmware/TouchSensor.  Its main loop takes turns with the scan of *)
(* the CapSense block: when a scan is over it calibrates if asked,         *)
(* processes the widgets, applies the settings that came by I2C, filters   *)
(* the touch bits through the fast trigger, publishes them and starts the  *)
(* next scan.  A master reads and writes sixteen-bit registers; the        *)
(* handlers run in the I2C interrupt, between any two steps of the loop.   *)
(*                                                                         *)
(* The CapSense library is the environment: a scan yields, for each        *)
(* widget, whether the library calls it touched and how far its raw count  *)
(* is above its baseline.  Baselines do not drift and every pass of the    *)
(* loop takes at least a millisecond, so that later times are larger.      *)
(***************************************************************************)
EXTENDS Integers, Sequences, FiniteSetsExt

CONSTANTS
  Widgets,         \* CAPSENSE_WIDGET_COUNT, 12
  CapMax,          \* TOUCH_CAP_TOTAL_MAX_STEPS, 2200
  CapDefault,      \* TOUCH_SENSITIVITY_DEFAULT_STEPS, 100
  ThDefault,       \* TOUCH_THRESHOLD_DEFAULT, 110
  BuiltIn,         \* what the generated CapSense configuration starts each widget with
  PermilleDefault, \* FAST_TRIG_X_PERMILLE_DEFAULT, 70
  Baseline         \* the count of an untouched widget

Uint16 == 0..65535

\* what is assumed of the constants
FirmwareConstants ==
  /\ Widgets \in 1..12
  /\ {CapMax, CapDefault, ThDefault, PermilleDefault, Baseline} \subseteq Uint16
  /\ CapDefault <= CapMax /\ ThDefault >= 1
  /\ BuiltIn \in [{"cap", "th"} -> Uint16]

Widget == 0..(Widgets - 1)

\* fingercap_steps and touch_thresholds of each widget
Setting == {"cap", "th"} \X Widget

\* REG_SCAN_RATE, REG_TOUCH_STATUS, REG_CONTROL, REG_TOUCH_CAP_SETTING_BASE + w,
\* REG_TOUCH_THRESHOLD_BASE + w, REG_TOTAL_TOUCH_CAP_BASE + w
ScanRateReg == 0
StatusReg == 1
ControlReg == 2
CapReg(w) == 3 + w
ThresholdReg(w) == 3 + Widgets + w
TotalCapReg(w) == 3 + 2 * Widgets + w
PermilleReg == 68

VARIABLE
  chip   \* the state of the firmware, a record of
         \*   pc        what the main loop does
         \*   flags     g_capsense_async: the bits that are set
         \*   asked     g_capsense_update: the value of each setting
         \*   marked    fingercap_update_mask and threshold_update_mask
         \*   snapshot  capsense_update_snapshot_t: the settings taken, with their values
         \*   context   fingerCap and fingerTh of cy_capsense_context
         \*   touched   g_touch_status_bitmap
         \*   delta     raw minus baseline of the widgets, until the pass is over
         \*   channel   g_ch: the fast trigger's record of each widget
         \*   permille  g_x_permille, from which every x_delta follows
         \*   status    g_touch_status_snapshot
         \*   lit, last the LED, and _last_status
         \*   control   g_control_reg: the bits that are set
         \*   register  _current_register
         \* and of histories of what happened since the last reset
         \*   written   the settings that were written
         \*   peak, fall  of each widget's touch: the highest count so far, and
         \*               how far a later one fell below the highest before it

----------------------------------------------------------------------------
(* The fast trigger keeps the largest and the smallest count since the     *)
(* touch began or it last acted.  hAt and lAt are the times z_ht and z_lt  *)
(* up to their order: 2 for the newer, 1 for the older, 0 for none.        *)

InvalidLow == 16383
Untriggered == [need_reset |-> TRUE, z_h |-> 0, z_l |-> InvalidLow, hAt |-> 0, lAt |-> 0]

Older(at) == IF at = 0 THEN 0 ELSE 1

FirstCount(d) == [need_reset |-> FALSE, z_h |-> d, z_l |-> d, hAt |-> 2, lAt |-> 2]

NextCount(c, d) ==
  LET up == d > c.z_h
      down == d < c.z_l
  IN [need_reset |-> FALSE,
      z_h |-> IF up THEN d ELSE c.z_h,
      z_l |-> IF down THEN d ELSE c.z_l,
      hAt |-> IF up THEN 2 ELSE IF down THEN Older(c.hAt) ELSE c.hAt,
      lAt |-> IF down THEN 2 ELSE IF up THEN Older(c.lAt) ELSE c.lAt]

\* mutant: the peak of the touch before is kept
TrackedOn(c, d) == IF c.hAt = 0 /\ c.lAt = 0 THEN FirstCount(d) ELSE NextCount(c, d)

Tracked(c, d) == IF c.need_reset THEN FirstCount(d) ELSE NextCount(c, d)

\* oldest_val - latest_val
Trend(c) ==
  LET high == c.hAt # 0
      low == c.lAt # 0
      latest == IF high /\ c.hAt >= c.lAt THEN c.z_h ELSE c.z_l
      oldest == IF high /\ (~low \/ c.hAt <= c.lAt) THEN c.z_h ELSE c.z_l
  IN IF high \/ low THEN oldest - latest ELSE 0

\* after a fall or a rise by more than x_delta the search begins anew
Triggered(c, x) ==
  CASE Trend(c) > x  -> [c EXCEPT !.z_h = 0, !.hAt = 0]
    [] -Trend(c) > x -> [c EXCEPT !.z_l = InvalidLow, !.lAt = 0]
    [] OTHER         -> c

XDelta == (Baseline * chip.permille) \div 1000

----------------------------------------------------------------------------
(* ------------------------------ the start ------------------------------ *)

PowerOn ==
  [pc |-> "scan", flags |-> {"calibrate_req"},
   asked |-> [s \in Setting |-> IF s[1] = "cap" THEN CapDefault ELSE ThDefault],
   marked |-> {}, snapshot |-> <<>>,
   context |-> [s \in Setting |-> BuiltIn[s[1]]],
   touched |-> {}, delta |-> [w \in Widget |-> 0],
   channel |-> [w \in Widget |-> Untriggered], permille |-> PermilleDefault,
   status |-> {}, lit |-> TRUE, last |-> {}, control |-> {"led_feedback_en"},
   register |-> ScanRateReg,
   written |-> {}, peak |-> [w \in Widget |-> 0], fall |-> [w \in Widget |-> 0]]

(* ----------------------------- the main loop --------------------------- *)

\* the CapSense interrupt ends the scan and capsense_is_busy answers no
ScanEnds ==
  /\ chip.pc = "scan"
  /\ chip' = [chip EXCEPT !.pc =
                IF "calibrate_req" \in chip.flags THEN "calibrate" ELSE "process"]

(* capsense_handle_async_ops.  Each of its flags is a store of its own, into *)
(* a word that the store reads first, and the I2C interrupt may come before  *)
(* any of them.                                                              *)
Flags(from, to, flags) ==
  /\ chip.pc = from
  /\ chip' = [chip EXCEPT !.pc = to, !.flags = flags]

CalibrationStarts == Flags("calibrate", "start", chip.flags \union {"calibrating"})
NotDoneYet == Flags("start", "measure", chip.flags \ {"calibration_done"})

\* eight scans, and the fast trigger forgets the touches before
Measured ==
  /\ chip.pc = "measure"
  /\ chip' = [chip EXCEPT !.pc = "measured",
                          !.channel = [w \in Widget |-> [@[w] EXCEPT !.need_reset = TRUE]]]

CalibrationEnds == Flags("measured", "ended", chip.flags \ {"calibrating"})

\* every request that came since is served with this one
RequestServed == Flags("ended", "served", chip.flags \ {"calibrate_req"})

\* a request between the reading of the word and the store of it is lost
CalibrationDone ==
  \E read \in SUBSET chip.flags : Flags("served", "process", read \union {"calibration_done"})

Calibrate ==
  \/ CalibrationStarts \/ NotDoneYet \/ Measured
  \/ CalibrationEnds \/ RequestServed \/ CalibrationDone

\* capsense_process_widgets and capsense_update_touch_status; deltas are the
\* counts above the baseline that a touched widget may show
ProcessWidgets(deltas) ==
  /\ chip.pc = "process"
  /\ \E touched \in SUBSET Widget : \E counts \in [touched -> deltas] :
       chip' = [chip EXCEPT !.pc = "take", !.touched = touched,
                  !.delta = [w \in Widget |-> IF w \in touched THEN counts[w] ELSE 0]]

\* capsense_consume_updates_snapshot, with interrupts off
Consumed(c) ==
  [c EXCEPT !.pc = "apply", !.marked = {},
            !.snapshot = [s \in c.marked |-> c.asked[s]]]

TakeChanges == chip.pc = "take" /\ chip' = Consumed(chip)

\* mutant: the masks are cleared once the values are in the context
AppliedAndCleared(c) ==
  [c EXCEPT !.pc = "publish", !.marked = {},
            !.context = [s \in Setting |-> IF s \in DOMAIN c.snapshot
                                           THEN c.snapshot[s] ELSE @[s]],
            !.snapshot = <<>>]

\* the rest of capsense_apply_threshold_changes
Applied(c) ==
  [c EXCEPT !.pc = "publish",
            !.context = [s \in Setting |-> IF s \in DOMAIN c.snapshot
                                           THEN c.snapshot[s] ELSE @[s]],
            !.snapshot = <<>>]

ApplyChanges == chip.pc = "apply" /\ chip' = Applied(chip)

\* fast_trigger_process
FastTrigger(c, x) ==
  LET tracked == [w \in c.touched |-> Tracked(c.channel[w], c.delta[w])]
      released == {w \in c.touched : Trend(tracked[w]) > x}
  IN [c EXCEPT !.status = c.touched \ released, !.delta = [w \in Widget |-> 0],
               !.channel = [w \in Widget |->
                              IF w \in c.touched THEN Triggered(tracked[w], x)
                              ELSE [@[w] EXCEPT !.need_reset = TRUE]]]

\* the histories, over the counts of this pass
Remembered(c) ==
  LET peak == [w \in Widget |-> IF w \in c.touched THEN Max({c.peak[w], c.delta[w]}) ELSE 0]
  IN [c EXCEPT !.peak = peak,
               !.fall = [w \in Widget |-> IF w \in c.touched
                                          THEN Max({@[w], peak[w] - c.delta[w]}) ELSE 0]]

\* the LED shows whether the status differs from the one before
Shown(c) ==
  IF "led_feedback_en" \in c.control
  THEN [c EXCEPT !.lit = (c.status # c.last), !.last = c.status]
  ELSE c

Publish ==
  /\ chip.pc = "publish"
  /\ chip' = [Shown(FastTrigger(Remembered(chip), XDelta)) EXCEPT !.pc = "scan"]

MainLoop(deltas) ==
  \/ ScanEnds \/ Calibrate
  \/ ProcessWidgets(deltas) \/ TakeChanges \/ ApplyChanges \/ Publish

(* --------------------------- the I2C interrupt ------------------------- *)

\* capsense_set_fingercap_steps and capsense_set_touch_threshold
Clamped(s, value) ==
  IF s[1] = "cap" THEN Min({value, CapMax}) ELSE Max({value, 1})

SettingAsked(c, s, value) ==
  [c EXCEPT !.asked[s] = Clamped(s, value),
            !.marked = @ \union {s}, !.written = @ \union {s}]

\* the case REG_CONTROL of i2c_handle_register_write, without a reset request
ControlWritten(c, set) ==
  [c EXCEPT !.lit = ("led_on" \in set),
            !.flags = IF "calibrate_req" \in set THEN @ \union {"calibrate_req"} ELSE @,
            !.control = set]

\* i2c_handle_register_write; what is written to REG_CONTROL is a set of bits
Written(c, reg, value) ==
  CASE reg = ControlReg  -> ControlWritten(c, value)
    [] reg = PermilleReg -> [c EXCEPT !.permille = value]
    [] \E s \in Setting : reg = (IF s[1] = "cap" THEN CapReg(s[2]) ELSE ThresholdReg(s[2])) ->
         SettingAsked(c, CHOOSE s \in Setting :
           reg = (IF s[1] = "cap" THEN CapReg(s[2]) ELSE ThresholdReg(s[2])), value)
    [] OTHER -> c

\* a write of a register and of its two bytes, and one of the register alone;
\* a reset does not come back to move the pointer
RegisterWrite(c, reg, value) ==
  IF reg = ControlReg /\ "reset_req" \in value THEN PowerOn
  ELSE [Written(c, reg, value) EXCEPT !.register = reg]
RegisterSelect(c, reg) == [c EXCEPT !.register = reg]

\* the union's raw value, that of a bitmap, and i2c_handle_register_read
FlagsRaw(flags) ==
    (IF "calibrate_req" \in flags THEN 1 ELSE 0)
  + (IF "calibrating" \in flags THEN 2 ELSE 0)
  + (IF "calibration_done" \in flags THEN 4 ELSE 0)

Bitmap(ws) == MapThenSumSet(LAMBDA w : 2 ^ w, ws)

RegisterRead(c) ==
  LET reg == c.register IN
  CASE reg = StatusReg   -> 32768 + Bitmap(c.status)
    [] reg = ControlReg  -> FlagsRaw(c.flags)
    [] reg = PermilleReg -> c.permille
    [] reg \in {CapReg(w) : w \in Widget} -> c.context[<<"cap", reg - CapReg(0)>>]
    [] reg \in {ThresholdReg(w) : w \in Widget} -> c.context[<<"th", reg - ThresholdReg(0)>>]
    [] reg \in {TotalCapReg(w) : w \in Widget} -> c.asked[<<"cap", reg - TotalCapReg(0)>>]
    [] OTHER -> 0
=============================================================================

----------------------------- MODULE PsocDriver -----------------------------
(***************************************************************************)
(* The touch module and its master.  In the controller that is the class   *)
(* PSoC: init resets the module, loadConfig writes the capacitances saved  *)
(* by an earlier session, sample reads the touch status in every round of  *)
(* task0, and setChannelSensitivity writes one channel's capacitance.  The *)
(* last is called by core 0, which serves the request queue, and by the    *)
(* settings page of a module on core 1; HAL_I2C only waits for transfers   *)
(* by DMA, so the transactions of the two cores mix.  A register is read   *)
(* by two of them: one that selects it and one that reads.                 *)
(*                                                                         *)
(* On a bench the master is a tool that uses the registers as              *)
(* I2C_Registers_README.md describes them.                                 *)
(***************************************************************************)
EXTENDS TouchFirmware

CONSTANTS
  Masters,       \* which masters to consider: "controller", "tool"
  Sensitivity,   \* the int8_t values asked of setChannelSensitivity
  ThAsked,       \* thresholds and
  PermilleAsked, \* trigger permilles that the tool writes
  Delta,         \* counts above the baseline of a touched widget, on the bench
  Steady,        \* and bound: their only count while the controller drives the bus
  MaxChanges     \* bound: settings changed, calibrations asked and power cycles

\* what is assumed of the constants
DriverConstants ==
  /\ FirmwareConstants
  /\ Masters \subseteq {"controller", "tool"} /\ Masters # {}
  /\ Sensitivity \subseteq -128..127
  /\ ThAsked \subseteq Uint16 /\ PermilleAsked \subseteq Uint16
  /\ Delta \subseteq 1..16382 /\ Steady \in 1..16382
  /\ MaxChanges \in Nat

Core == {0, 1}

VARIABLES
  master,        \* which of the masters drives the bus
  initialized,   \* initialized_
  todo,          \* of each core: the transactions left of the call it is in
  controlCache,  \* control_reg_
  total,         \* channel_total_cap_steps_
  saved,         \* the string saveConfig left in the flash: total at that time
  changes        \* bound counter

driver == <<initialized, todo, controlCache, total, saved>>
vars   == <<chip, master, driver, changes>>

(* --------------------------- the transactions -------------------------- *)

\* must: the call ends if this one fails
Select(reg) == [op |-> "select", reg |-> reg, must |-> FALSE]
Fetch(use, w) == [op |-> "fetch", use |-> use, widget |-> w, must |-> TRUE]
Put(reg, value, must) == [op |-> "put", reg |-> reg, value |-> value, must |-> must]

\* the driver's own register numbers: PSOC_REG_CAP0_THRESHOLD and PSOC_REG_CAP0_TOTAL_CAP
ThresholdOf(w) == 3 + w
TotalOf(w) == 3 + Widgets + w

\* init: reset, read the scan rate, switch the LED feedback on
InitCall ==
  <<Put(ControlReg, {"reset_req"}, TRUE), Select(ScanRateReg), Fetch("rate", 0),
    Put(ControlReg, {"led_feedback_en"}, TRUE)>>

\* sample, in its synchronous form
SampleCall == <<Select(StatusReg), Fetch("sample", 0)>>

\* InputManager::setDeviceChannelSensitivity: the limits of a relative sensor
Limited(sensitivity) == Max({-127, Min({127, sensitivity})})

\* setChannelSensitivity: relative mode, the biased value, the total as an answer
Raw(sensitivity) == Max({0, Min({8191, 4095 - 20 * sensitivity})})

AdjustCall(w, sensitivity) ==
  <<Put(ControlReg, controlCache \ {"absolute_mode"}, FALSE),
    Put(ThresholdOf(w), Raw(sensitivity), TRUE),
    Select(TotalOf(w)), Fetch("total", w)>>

\* loadConfig: absolute mode, then every capacitance that is known
LoadCall(cache, steps) ==
  LET writes[n \in 0..Widgets] ==
        IF n = 0 THEN <<Put(ControlReg, cache \union {"absolute_mode"}, FALSE)>>
        ELSE IF steps[n - 1] > 0
        THEN Append(writes[n - 1], Put(ThresholdOf(n - 1), Min({steps[n - 1], 2200}), FALSE))
        ELSE writes[n - 1]
  IN  writes[Widgets]
----------------------------------------------------------------------------
Unknown == [w \in Widget |-> 0]

Init ==
  /\ chip = PowerOn
  /\ master \in Masters
  /\ initialized = FALSE
  /\ todo = [core \in Core |-> IF core = 0 /\ master = "controller" THEN InitCall ELSE <<>>]
  /\ controlCache = {}
  /\ total = Unknown
  /\ saved = Unknown
  /\ changes = 0

\* a call begins: the core has no other under way
Call(core, transactions) ==
  /\ master = "controller" /\ todo[core] = <<>>
  /\ todo' = [todo EXCEPT ![core] = transactions]

Sample ==
  /\ initialized /\ Call(0, SampleCall)
  /\ UNCHANGED <<chip, master, initialized, controlCache, total, saved, changes>>

Adjust(core) ==
  /\ initialized /\ changes < MaxChanges
  /\ \E w \in Widget, s \in Sensitivity : Call(core, AdjustCall(w, Limited(s)))
  /\ changes' = changes + 1
  /\ UNCHANGED <<chip, master, initialized, controlCache, total, saved>>

\* saveConfig, on behalf of core 1
Save ==
  /\ initialized /\ master = "controller" /\ saved # total
  /\ saved' = total
  /\ UNCHANGED <<chip, master, initialized, todo, controlCache, total, changes>>

Head0(core) == Head(todo[core])
Rest(core, ok) ==
  [todo EXCEPT ![core] = IF ok \/ ~Head0(core).must THEN Tail(@) ELSE <<>>]

\* a transaction that the module does not acknowledge changes nothing there;
\* nobody looks at the outcome of a selection
Refused(core) ==
  /\ todo[core] # <<>>
  /\ todo' = Rest(core, FALSE)
  /\ UNCHANGED <<chip, master, initialized, controlCache, total, saved, changes>>

Selected(core) ==
  /\ todo[core] # <<>> /\ Head0(core).op = "select"
  /\ chip' = RegisterSelect(chip, Head0(core).reg)
  /\ todo' = Rest(core, TRUE)
  /\ UNCHANGED <<master, initialized, controlCache, total, saved, changes>>

\* init ends with its last write and registerTouchSensor goes on to loadConfig
PutDone(core) ==
  /\ todo[core] # <<>> /\ Head0(core).op = "put"
  /\ chip' = RegisterWrite(chip, Head0(core).reg, Head0(core).value)
  /\ controlCache' = IF Head0(core).reg = ControlReg THEN Head0(core).value ELSE controlCache
  /\ LET last == ~initialized /\ Len(todo[core]) = 1 IN
     /\ initialized' = (initialized \/ last)
     /\ IF last /\ saved # Unknown
        THEN /\ total' = saved
             /\ todo' = [todo EXCEPT ![core] = LoadCall(controlCache', saved)]
        ELSE todo' = Rest(core, TRUE) /\ UNCHANGED total
  /\ UNCHANGED <<master, saved, changes>>

Fetched(core) ==
  /\ todo[core] # <<>> /\ Head0(core).op = "fetch"
  /\ total' = IF Head0(core).use = "total"
                THEN [total EXCEPT ![Head0(core).widget] = RegisterRead(chip)] ELSE total
  /\ todo' = Rest(core, TRUE)
  /\ UNCHANGED <<chip, master, initialized, controlCache, saved, changes>>

\* the bench tool writes whatever the document lets it write
Tool ==
  /\ master = "tool" /\ changes < MaxChanges
  /\ changes' = changes + 1
  /\ \/ \E w \in Widget, v \in {Raw(s) : s \in Sensitivity} :
          chip' = RegisterWrite(chip, CapReg(w), v)
     \/ \E w \in Widget, v \in ThAsked : chip' = RegisterWrite(chip, ThresholdReg(w), v)
     \/ \E v \in PermilleAsked : chip' = RegisterWrite(chip, PermilleReg, v)
     \/ \E set \in {{"calibrate_req"}, {"led_on"}, {"reset_req"}} :
          chip' = RegisterWrite(chip, ControlReg, set)
  /\ UNCHANGED <<master, driver>>

\* power goes and comes back: only the flash remembers
PowerCycle ==
  /\ changes < MaxChanges /\ changes' = changes + 1
  /\ chip' = PowerOn
  /\ initialized' = FALSE /\ controlCache' = {} /\ total' = Unknown
  /\ todo' = [core \in Core |-> IF core = 0 /\ master = "controller" THEN InitCall ELSE <<>>]
  /\ UNCHANGED <<master, saved>>

Driver ==
  \/ Sample \/ Save
  \/ \E core \in Core :
       Adjust(core) \/ Refused(core) \/ Selected(core) \/ PutDone(core) \/ Fetched(core)

Module ==
  /\ MainLoop(IF master = "tool" THEN Delta ELSE {Steady})
  /\ UNCHANGED <<master, driver, changes>>

Next ==
  \/ Module
  \/ Driver
  \/ Tool
  \/ PowerCycle

\* the scan block raises its interrupt and the loop never waits for anything else
Fairness == WF_vars(Module)

Spec == Init /\ [][Next]_vars /\ Fairness
----------------------------------------------------------------------------
\* A setting that was written since the last reset, and that the loop has
\* neither still to take nor in its hands, is the one the CapSense library uses:
\* no write of the interrupt falls between the snapshot and its use
\* (capsense_consume_updates_snapshot, capsense_apply_threshold_changes).
SettingsApplied ==
  \A s \in chip.written :
    s \notin chip.marked \union DOMAIN chip.snapshot => chip.context[s] = chip.asked[s]

\* The fast trigger lets go of a widget the library calls touched only when the
\* count of this very touch has fallen by more than x_delta; what an earlier
\* touch of the widget looked like does not count (need_reset).
ReleaseHasCause ==
  [][Publish => \A w \in chip.touched \ chip'.status : chip'.fall[w] > XDelta]_vars
=============================================================================

----------------------------- MODULE Ad7147Page -----------------------------
(***************************************************************************)
(* The settings page of an AD7147 and the sensor's driver.  The page runs  *)
(* on core 1, the driver on core 0; they share, without a lock:            *)
(*  - a slot for one request to write the configuration of a stage, guarded*)
(*    by a counter: core 1 fills the slot when the counter is 0 and then   *)
(*    increments it, core 0 decrements it when the request is served.  A   *)
(*    request made while the slot is full is dropped;                      *)
(*  - a request to read one stage's capacitance (CDC): a stage number and  *)
(*    a flag that core 0 clears when the value is there.  Core 1 gives up  *)
(*    after 10 ms and leaves the flag as it is;                            *)
(*  - stage_settings_, the sensor's configuration in memory, which core 0  *)
(*    writes and the page copies field by field.                           *)
(* The compiler is taken to keep the order of the stores that the source   *)
(* states.  A configuration is a handful of fields; what they mean to the  *)
(* chip does not matter here.                                              *)
(***************************************************************************)
EXTENDS Integers, FiniteSets

CONSTANTS
  Stage,         \* the stages in use, 0 among them
  Field,         \* the fields of a configuration, "afe" among them
  Top,           \* the largest value of a field
  MaxPresses,    \* bound: uses of the joystick that change something
  MaxSweeps,     \* bound: positions that calibrations try
  MaxRefusals    \* bound: transactions of the driver that the chip refuses

\* what is assumed of the constants
PageConstants ==
  /\ Stage \subseteq 0..11 /\ 0 \in Stage /\ IsFiniteSet(Stage)
  /\ "afe" \in Field /\ IsFiniteSet(Field)
  /\ Top \in Nat \ {0}
  /\ MaxPresses \in Nat /\ MaxSweeps \in Nat /\ MaxRefusals \in Nat

VARIABLES
  registers,     \* those of the stages, in the chip
  memory,        \* stage_settings_
  pending,       \* pending_configs_ and pending_config_count_
  cdc,           \* cdc_read_stage_, cdc_read_request_, the stage that cdc_read_value_ is of
  core0,         \* where the driver is in sample
  active,        \* calibration_state_ # IDLE
  page,          \* the page's own variables and where core 1 is in it
  accepted,      \* history: the last request that found the slot empty
  presses, sweeps, refusals   \* bound counters

shared == <<registers, memory, pending, cdc, active>>
vars   == <<shared, core0, page, accepted, presses, sweeps, refusals>>

Config == [Field -> 0..Top]

\* no answer, or an answer to a read that failed: the old bytes, swapped
None == -1

Init ==
  /\ registers = [s \in Stage |-> [f \in Field |-> 0]]
  /\ memory = registers
  /\ pending = [count |-> 0, stage |-> 0, config |-> registers[0]]
  /\ cdc = [stage |-> 0, asked |-> FALSE, value |-> None]
  /\ core0 = [at |-> "begin", left |-> {}, stage |-> 0]
  /\ active = FALSE
  /\ page = [at |-> "due", stage |-> 0, loaded |-> FALSE, copy |-> registers[0], left |-> {},
             shown |-> None, rendering |-> FALSE]
  /\ accepted = [stage |-> 0, config |-> registers[0]]
  /\ presses = 0 /\ sweeps = 0 /\ refusals = 0
----------------------------------------------------------------------------
(* ------------------------- core 0: sample ------------------------------ *)

MayRefuse == refusals < MaxRefusals /\ refusals' = refusals + 1

\* the slot is full: setStageConfig begins with the copy in memory
TakeRequest ==
  /\ core0.at = "begin"
  /\ core0' = IF pending.count # 0
                THEN [core0 EXCEPT !.at = "memory", !.left = Field]
                ELSE [core0 EXCEPT !.at = "cdc"]
  /\ UNCHANGED <<shared, page, accepted, presses, sweeps, refusals>>

\* stage_settings_.stages[stage] = config
StoreField ==
  /\ core0.at = "memory"
  /\ \E f \in core0.left :
       /\ memory' = [memory EXCEPT ![pending.stage][f] = pending.config[f]]
       /\ core0' = IF core0.left = {f} THEN [core0 EXCEPT !.at = "registers", !.left = Field]
                                       ELSE [core0 EXCEPT !.left = @ \ {f}]
  /\ UNCHANGED <<registers, pending, cdc, active, page, accepted, presses, sweeps, refusals>>

\* one register; the outcome of the write is not looked at
WriteField ==
  /\ core0.at = "registers"
  /\ \E f \in core0.left :
       /\ \/ /\ registers' = [registers EXCEPT ![pending.stage][f] = pending.config[f]]
             /\ UNCHANGED refusals
          \/ MayRefuse /\ UNCHANGED registers
       /\ core0' = IF core0.left = {f} THEN [core0 EXCEPT !.at = "served", !.left = {}]
                                       ELSE [core0 EXCEPT !.left = @ \ {f}]
  /\ UNCHANGED <<memory, pending, cdc, active, page, accepted, presses, sweeps>>

\* pending_config_count_--
GiveSlotBack ==
  /\ core0.at = "served"
  /\ pending' = [pending EXCEPT !.count = 0]
  /\ core0' = [core0 EXCEPT !.at = "cdc"]
  /\ UNCHANGED <<registers, memory, cdc, active, page, accepted, presses, sweeps, refusals>>

\* the CDC request: the stage is read once
TakeCdcRequest ==
  /\ core0.at = "cdc"
  /\ core0' = IF cdc.asked THEN [core0 EXCEPT !.at = "read", !.stage = cdc.stage]
                           ELSE [core0 EXCEPT !.at = "poll"]
  /\ UNCHANGED <<shared, page, accepted, presses, sweeps, refusals>>

\* readStageCDC_direct; a failed read swaps the bytes of the old value
ReadCdc ==
  /\ core0.at = "read"
  /\ \/ cdc' = [cdc EXCEPT !.value = core0.stage] /\ UNCHANGED refusals
     \/ MayRefuse /\ cdc' = [cdc EXCEPT !.value = None]
  /\ core0' = [core0 EXCEPT !.at = "answer"]
  /\ UNCHANGED <<registers, memory, pending, active, page, accepted, presses, sweeps>>

\* cdc_read_request_ = false, whether the read succeeded or not
AnswerCdc ==
  /\ core0.at = "answer"
  /\ cdc' = [cdc EXCEPT !.asked = FALSE]
  /\ core0' = [core0 EXCEPT !.at = "poll"]
  /\ UNCHANGED <<registers, memory, pending, active, page, accepted, presses, sweeps, refusals>>

\* the status transfer ends; with no calibration that is all
PollDone ==
  /\ core0.at = "poll" /\ (~active \/ sweeps = MaxSweeps)
  /\ core0' = [core0 EXCEPT !.at = "begin"]
  /\ UNCHANGED <<shared, page, accepted, presses, sweeps, refusals>>

\* CalibrationLoop tries another position of a stage: Set_AEF_Offset calls
\* setStageConfig from the interrupt of the transfer, where the bus is busy
\* and every write is refused; a later request may write the register
Sweep ==
  /\ core0.at = "poll" /\ active /\ sweeps < MaxSweeps
  /\ \E s \in Stage, v \in 0..Top : memory' = [memory EXCEPT ![s]["afe"] = v]
  /\ sweeps' = sweeps + 1
  /\ core0' = [core0 EXCEPT !.at = "begin"]
  /\ UNCHANGED <<registers, pending, cdc, active, page, accepted, presses, refusals>>

\* Complete_and_restore_calibration
CalibrationDone ==
  /\ core0.at = "poll" /\ active
  /\ active' = FALSE
  /\ core0' = [core0 EXCEPT !.at = "begin"]
  /\ UNCHANGED <<registers, memory, pending, cdc, page, accepted, presses, sweeps, refusals>>

Sample ==
  \/ TakeRequest \/ StoreField \/ WriteField \/ GiveSlotBack
  \/ TakeCdcRequest \/ ReadCdc \/ AnswerCdc
  \/ PollDone \/ Sweep \/ CalibrationDone
----------------------------------------------------------------------------
(* ------------------------- core 1: the page ---------------------------- *)

\* loadStageDataAndStatus, from render or from a change of stage
Loading(p) ==
  IF p.loaded THEN [p EXCEPT !.at = "ask"] ELSE [p EXCEPT !.at = "copy", !.left = Field]

Render ==
  /\ page.at \in {"idle", "due"}
  /\ page' = Loading([page EXCEPT !.rendering = TRUE])
  /\ UNCHANGED <<shared, core0, accepted, presses, sweeps, refusals>>

\* getStageConfig: the struct is copied while core 0 may write it
CopyField ==
  /\ page.at = "copy"
  /\ \E f \in page.left :
       page' = [page EXCEPT !.copy[f] = memory[page.stage][f], !.left = @ \ {f},
                            !.loaded = (page.left = {f}),
                            !.at = IF page.left = {f} THEN "ask" ELSE "copy"]
  /\ UNCHANGED <<shared, core0, accepted, presses, sweeps, refusals>>

\* readStageCDC: the stage, then the flag
AskStage ==
  /\ page.at = "ask"
  /\ cdc' = [cdc EXCEPT !.stage = page.stage]
  /\ page' = [page EXCEPT !.at = "flag"]
  /\ UNCHANGED <<registers, memory, pending, active, core0, accepted, presses, sweeps, refusals>>

RaiseFlag ==
  /\ page.at = "flag"
  /\ cdc' = [cdc EXCEPT !.asked = TRUE]
  /\ page' = [page EXCEPT !.at = "wait"]
  /\ UNCHANGED <<registers, memory, pending, active, core0, accepted, presses, sweeps, refusals>>

\* the flag was cleared, or 10 ms have passed with the flag still up
Waited ==
  /\ page.at = "wait"
  /\ page' = [page EXCEPT !.shown = IF cdc.asked THEN None ELSE cdc.value,
                          !.at = IF page.rendering THEN "status" ELSE "idle"]
  /\ UNCHANGED <<shared, core0, accepted, presses, sweeps, refusals>>

\* mutant: the copy of the first render is kept
UpdateAutoOffsetStatusKeepsCopy ==
  /\ page.at = "status"
  /\ page' = [page EXCEPT !.at = "idle", !.rendering = FALSE]
  /\ UNCHANGED <<shared, core0, accepted, presses, sweeps, refusals>>

\* the configuration is read again in the next render unless a calibration runs
UpdateAutoOffsetStatus ==
  /\ page.at = "status"
  /\ page' = [page EXCEPT !.at = "idle", !.rendering = FALSE, !.loaded = @ /\ active]
  /\ UNCHANGED <<shared, core0, accepted, presses, sweeps, refusals>>

Press == page.at = "idle" /\ presses < MaxPresses /\ presses' = presses + 1

\* onStageChange loads the new stage at once
OnStageChange(s) == page' = Loading([page EXCEPT !.stage = s, !.loaded = FALSE])

\* the stage selector
ChangeStage ==
  /\ Press
  /\ \E s \in Stage \intersect {page.stage - 1, page.stage + 1} : OnStageChange(s)
  /\ UNCHANGED <<shared, core0, accepted, sweeps, refusals>>

\* applyConfig and setStageConfigAsync drop the request when the slot is full
ApplyConfig(copy) ==
  IF pending.count # 0
    THEN page' = [page EXCEPT !.copy = copy] /\ UNCHANGED accepted
    ELSE /\ page' = [page EXCEPT !.copy = copy, !.at = "fill"]
         /\ accepted' = [stage |-> page.stage, config |-> copy]

\* the selectors and buttons of the fields, one step up or down
ChangeField ==
  /\ Press
  /\ \E f \in Field, v \in 0..Top : /\ v \in {page.copy[f] - 1, page.copy[f] + 1}
                                   /\ ApplyConfig([page.copy EXCEPT ![f] = v])
  /\ UNCHANGED <<shared, core0, sweeps, refusals>>

\* mutant: the counter goes up before the slot is filled
FillSlotAfterCount ==
  /\ page.at = "fill"
  /\ IF pending.count = 0
       THEN /\ pending' = [pending EXCEPT !.count = 1] /\ UNCHANGED page
       ELSE /\ pending' = [pending EXCEPT !.stage = page.stage, !.config = page.copy]
            /\ page' = [page EXCEPT !.at = "idle"]
  /\ UNCHANGED <<registers, memory, cdc, active, core0, accepted, presses, sweeps, refusals>>

FillSlot ==
  /\ page.at = "fill"
  /\ pending' = [pending EXCEPT !.stage = page.stage, !.config = page.copy]
  /\ page' = [page EXCEPT !.at = "count"]
  /\ UNCHANGED <<registers, memory, cdc, active, core0, accepted, presses, sweeps, refusals>>

\* pending_config_count_++
CountRequest ==
  /\ page.at = "count"
  /\ pending' = [pending EXCEPT !.count = 1]
  /\ page' = [page EXCEPT !.at = "idle"]
  /\ UNCHANGED <<registers, memory, cdc, active, core0, accepted, presses, sweeps, refusals>>

\* the button for the calibration of all stages
StartAutoOffsetCalibration ==
  /\ Press
  /\ active' = TRUE
  /\ UNCHANGED <<registers, memory, pending, cdc, core0, page, accepted, sweeps, refusals>>

\* the page is left and opened again: jump_str
JumpStr ==
  /\ Press
  /\ page' = [page EXCEPT !.at = "due", !.stage = 0, !.loaded = FALSE, !.shown = None]
  /\ UNCHANGED <<shared, core0, accepted, sweeps, refusals>>

Page ==
  \/ Render \/ CopyField \/ AskStage \/ RaiseFlag \/ Waited \/ UpdateAutoOffsetStatus
  \/ FillSlot \/ CountRequest

Next ==
  \/ Sample \/ Page
  \/ ChangeStage \/ ChangeField \/ StartAutoOffsetCalibration \/ JumpStr

\* both cores run their loops for ever; a calibration ends (see Calibration)
Fairness == WF_vars(Sample) /\ WF_vars(Page) /\ SF_vars(CalibrationDone)

Spec == Init /\ [][Next]_vars /\ Fairness
----------------------------------------------------------------------------
\* When core 0 gives the slot back, the stage the user changed has in memory the
\* whole configuration the page handed over, and in its registers what
\* the chip did not refuse: no other request got into it half way.
RequestTakenWhole ==
  [][(pending.count = 1 /\ pending'.count = 0) =>
       /\ memory[accepted.stage] = accepted.config
       /\ refusals = 0 => registers[accepted.stage] = accepted.config]_vars

\* In the end, when the user no longer presses anything, the page at rest shows
\* the configuration the driver uses, and the capacitance of no other stage:
\* torn copies, dropped changes and late answers do not stay.
PageSettles ==
  <>[](page.at = "idle" =>
         /\ page.copy = memory[page.stage]
         /\ page.shown \in {None, page.stage})
=============================================================================

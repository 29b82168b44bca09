-------------------------------- MODULE Board --------------------------------
(* Five parts of the board that share nothing in the model, in one           *)
(* specification: the start of the two cores, the display, the settings page *)
(* of an AD7147, the touch module of the repository and the log over USB.  A *)
(* behaviour is a behaviour of one of them; the others stay in their initial *)
(* states.                                                                   *)
EXTENDS BootSync

CONSTANTS
  Uarts, MaxSaves, MaxSends,                                  \* DisplayRefresh
  Stage, Field, Top, MaxPresses, MaxSweeps, MaxRefusals,      \* Ad7147Page
  Widgets, CapMax, CapDefault, ThDefault, BuiltIn,
    PermilleDefault, Baseline,                                \* TouchFirmware
  Masters, Sensitivity, ThAsked, PermilleAsked, Delta,
    Steady, MaxChanges,                                       \* PsocDriver
  Blocks, CountMod, MaxLogs                                   \* SerialLogs

VARIABLES
  part,                                                   \* the part that runs
  running, ints0, shifting, halBusy, busy, pins, heard,
    core1, core0, saves, sends,                           \* DisplayRefresh
  registers, memory, pending, cdc, driver, active, page, accepted,
    presses, sweeps, refusals,                            \* Ad7147Page
  chip, master, initialized, todo, controlCache, total, saved, changes, \* PsocDriver
  ring, actor, usb, logged, sent, dropped, raced          \* SerialLogs

D == INSTANCE DisplayRefresh
A == INSTANCE Ad7147Page WITH core0 <- driver
M == INSTANCE PsocDriver
L == INSTANCE SerialLogs

ASSUME ConstantsAssumption ==
  D!DisplayConstants /\ A!PageConstants /\ M!DriverConstants /\ L!LogsConstants

displayVars == <<running, ints0, shifting, halBusy, busy, pins, heard, core1, core0, saves, sends>>
pageVars == <<registers, memory, pending, cdc, driver, active, page, accepted,
              presses, sweeps, refusals>>
moduleVars == <<chip, master, initialized, todo, controlCache, total, saved, changes>>
logVars == <<ring, actor, usb, logged, sent, dropped, raced>>
allVars == <<part, vars, displayVars, pageVars, moduleVars, logVars>>

Begin ==
  /\ part \in {"start", "display", "page", "module", "log"}
  /\ Init /\ D!Init /\ A!Init /\ M!Init /\ L!Init
  /\ part # "module" => master = "tool"

StartOfCores ==
  part = "start" /\ Next /\ UNCHANGED <<part, displayVars, pageVars, moduleVars, logVars>>
Display ==
  part = "display" /\ D!Next /\ UNCHANGED <<part, vars, pageVars, moduleVars, logVars>>
SettingsPage ==
  part = "page" /\ A!Next /\ UNCHANGED <<part, vars, displayVars, moduleVars, logVars>>
TouchModule ==
  part = "module" /\ M!Next /\ UNCHANGED <<part, vars, displayVars, pageVars, logVars>>
SerialLog ==
  part = "log" /\ L!Next /\ UNCHANGED <<part, vars, displayVars, pageVars, moduleVars>>

Step == StartOfCores \/ Display \/ SettingsPage \/ TouchModule \/ SerialLog

\* the fairness of each module, of the part that runs; no liveness property is
\* stated of the touch module and the log
Runs ==
  /\ WF_vars(part = "start" /\ Tick) /\ WF_vars(part = "start" /\ Restart)
  /\ WF_vars(part = "start" /\ (Core0 \/ Either(0)))
  /\ WF_vars(part = "start" /\ (Core1 \/ Either(1)))
  /\ WF_displayVars(part = "display" /\ D!Refresh)
  /\ WF_displayVars(part = "display" /\ D!FifoEmpties)
  /\ WF_displayVars(part = "display" /\ D!Handler)
  /\ WF_displayVars(part = "display" /\ D!Save)
  /\ \A ch \in D!Channel : WF_displayVars(part = "display" /\ D!TransferEnds(ch))
  /\ WF_pageVars(part = "page" /\ A!Sample) /\ WF_pageVars(part = "page" /\ A!Page)
  /\ SF_pageVars(part = "page" /\ A!CalibrationDone)

Board == Begin /\ [][Step]_allVars /\ Runs

(* ---------------- the properties of the instantiated modules ----------- *)

\* setup and core1_main: both cores come to their loops, unless a flag was lost, an
\* initialisation failed or core 1 gave up (Starts of BootSync).
CoresStart == part = "start" => Starts
\* While pixels go out by DMA no command gets between them (DisplayRefresh).
StreamUnbroken == D!StreamUnbroken
\* dma_irq0_handler loses no completion when transfers end while it runs
\* (DisplayRefresh).
NoLostCompletion == D!NoLostCompletion
\* Frames go out for ever, but for one race with a save (DisplayRefresh).
FrozenOnlyBySave == part = "display" => D!FrozenOnlyBySave
\* What core 0 applies is the whole request of the page (Ad7147Page).
RequestTakenWhole == A!RequestTakenWhole
\* The page comes to show what the driver uses (Ad7147Page).
PageSettles == A!PageSettles
\* Settings written over I2C are the ones in use (PsocDriver).
SettingsApplied == M!SettingsApplied
\* The fast trigger releases a touch only for a fall within it (PsocDriver).
ReleaseHasCause == M!ReleaseHasCause
\* Without one of three named races lines leave in order and none is missing
\* (SerialLogs).
LinesInOrder == L!LinesInOrder
=============================================================================

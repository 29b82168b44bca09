# A verification project for the maimai input-control firmware

The firmware runs on the two cores of an RP2040. It reads touch sensors over two
I2C buses, sends a 35-bit touch state to a rhythm game over a serial line, accepts
the game's commands, emulates keyboards, and drives lamps and a settings display.
The repository also holds the firmware of its own touch module, a PSoC 4. This
directory holds TLA+ models of both, TLC configurations that check them, and TLAPS
proofs about them. `PROJECT.json` maps every modelling definition to the source
lines it stands for, lists the runs, and lists the hazards of the code with the
properties that watch them.

    tlc -workers 2 -config MCSerialLink.cfg MCSerialLink     # one run
    tlapm SerialModeProofs.tla                               # the proofs

Paths below are relative to `src/src/` of the repository unless they start with it.
Line numbers are those of `service/input_manager/input_manager.cpp` where only a
number is given.

## Inventory

| component | state | operations | interacts through |
|---|---|---|---|
| boot and loops (`main.cpp`) | bitmap of readiness flags, last feeding times | `setup`, `core1_main`, `core0_task`, `core1_task`, `watchdog_feed` | both cores poll the bitmap; either feeds the watchdog |
| sensor start-up (`touch_sensor.cpp`, `main.cpp`) | list of sensors, stages of each bus | `unlock_bus`, `scan_devices`, `scanAndRegisterAll`, `start` | InputManager, HAL I2C |
| InputManager: sensitivity queue | ring of 32 requests, head, tail, the sensitivity of each mapping | `setSensitivity` (core 1), `processSensitivityRequests` (core 0) | ring without a lock |
| InputManager: sampling stages | per bus: stage, lock; bitmap of answers; state per sensor | `updateTouchStates` (core 0), `async_touchsampleresult` (interrupt) | callbacks of the sensor drivers, I2C DMA |
| InputManager: delay line | ring of 512 timestamped states, last hit, resends | `storeDelayedSerialState` (interrupt), `processSerialModeWithDelay` (core 0), `setTouchResponseDelay` (core 1) | shared ring and counters |
| InputManager: area binding | active flag, state, index, start time, two pending flags, the mapping | `startSerialBinding`, `requestCancelBinding` (core 1), `processBinding` (core 0) | fields written by both cores without a lock |
| InputManager: calibration, AD7147 tools | request, in-progress flag; per channel: offset, samples, outcome | `calibrateAllSensors...` (core 1), `processCalibrationRequest` (core 0), `CalibrationLoop` (interrupt) | pauses binding and sending |
| AD7147 driver and its page | `stage_settings_`, one slot for a change, one flag for a read | `setStageConfigAsync`, `readStageCDC` (core 1), `sample` (core 0) | slot and flag without a lock |
| InputManager: keyboards | mappings, press stages and times | `processGPIOKeyboard`, `checkTouchKeyboardTrigger`, `sendHIDTouchData` (core 1) | touched areas of core 0, HID |
| HAL I2C | DMA status, interrupt mask, callback | synchronous and asynchronous register access, `_handle_i2c_irq` | called by both cores |
| HAL UART0, UART1 | receive rings, transmit busy flags | `handle_rx_irq`, `read_from_rx_buffer`, `write_to_tx_buffer`, DMA callback | interrupt and one core |
| Mai2Serial | stream window, `serial_ok_`, next send time | `process_commands`, `send_touch_data` | UART0 |
| HID, USB HAL | key states, reports | `task`, `press_key`, `release_key` | TinyUSB |
| Mai2Light, LightManager, NeoPixel | packet buffer, lamps, fade, virtual EEPROM, regions | `task`, `handle_*`, `set_config` | UART1, PIO/DMA |
| ConfigManager | runtime map, save request, CRC, text of the file | `save_config`, `save_config_task`, streaming parser | flash, core lock-out |
| UIManager and pages | page stack, popup, cursor, scroll window, lock | `task`, `handle_input`, page `render` functions | settings of every other part |
| ST7735S, HAL SPI | busy flags, pins, DMA channel | `write_buffer`, `on_dma_complete` | DMA interrupt on core 0 |
| DMA interrupt dispatch (`hal/global_irq.c`) | table of callbacks | registration, two handlers | every DMA user |
| USB serial logs | ring of log blocks, two indices, a count | `log` (both cores), `task` (core 1) | fields without a lock |
| PSoC firmware (`src/SensorFirmware/`) | registers, settings and their marks, fast trigger | main loop, I2C slave interrupt | I2C |

What is hard in it: the cores share memory without locks; the sampling, receive and DMA
interrupts land anywhere in a task; a bus lock is taken in one place and released
in a callback in another; reads fail or are refused in the middle of a round; a save
stops one core wherever it is; the 32-bit clock wraps; requests of the settings pages
come at any moment of the work they concern. What makes each part correct is stated
with its module below and, line by line, in the hazards of `PROJECT.json`.

## Modules

| module | stands for | run | proofs |
|---|---|---|---|
| `BoundedFifo` | abstract queue of bounded capacity | | |
| `SensitivityQueue` | `input_manager.h` 823-878, `processSensitivityRequests` | `sensitivity` | `InputManagerProofs` |
| `SamplingStages` | `updateTouchStates`, `async_touchsampleresult`, `HAL_I2C`, `sample` of the drivers | `sampling` | `SamplingStagesProofs` |
| `SensorStart` | scan, identification, registration and staging of the sensors; extends `SamplingStages` | `sampling` | `SamplingStagesProofs` |
| `DelayLine` | `storeDelayedSerialState`, `processSerialModeWithDelay`, `setTouchResponseDelay`, `send_touch_data` | `delay` | `DelayLineProofs` |
| `SerialLink` | UART0's receive ring, `process_dma_received_data`, commands and answers | `link` | `SerialModeProofs` |
| `SerialBinding` | binding sessions, `processSerialBinding` | `binding` | `SerialModeProofs` |
| `Calibration` | calibration requests, the pause of task0, `CalibrationLoop` | `calibration` | `SamplingStagesProofs` |
| `Ad7147Page` | custom settings page and its half of the AD7147 driver | `board` | `BoardProofs` |
| `HidReports`, `Keyboards` | `HID`; `InputManager::task1`, the port expander | `keyboards` | `InputManagerProofs` |
| `UartRing`, `Mai2Light` | UART1; the lamp board's messages, colours and fades | `light` | `Mai2LightProofs` |
| `DurableStore` | abstract store: saves all or nothing, restarts with the last save | | |
| `ConfigStore` | `ConfigManager`, the save buttons, load and write of `InputManager` | `config` | `ConfigStoreProofs` |
| `ConfigFile` | the text of the file and its parser; extends `ConfigStore` | `config` | |
| `UiPages`, `PageTemplate`, `UiManager` | the lines of the pages; the scroll window; buttons, page stack and popup | `ui` | `UiManagerProofs` |
| `MenuWalk` | abstract menu: a walk in the tree of pages | | |
| `DisplayRefresh` | one frame over SPI and DMA, `global_irq.c`, a save that stops it | `board`, `frozen_display` | `BoardProofs` |
| `SerialLogs` | the ring of log blocks | `board` | `BoardProofs` |
| `TouchFirmware`, `PsocDriver` | the touch module's firmware; the driver and a bench tool that use it | `board` | `BoardProofs` |
| `BootSync` | `setup`, `core1_main`, their layers and waits, `watchdog_feed` | `board` | `BoardProofs` |
| `Board` | the five parts above that share nothing in the models, in one specification | `board` | `BoardProofs` |

Each `MC*` module gives a model its instance; the `.cfg` files name the properties.
In `Board` a behaviour is one of the five parts `BootSync`, `DisplayRefresh`,
`Ad7147Page`, `PsocDriver` and `SerialLogs`, with that part's own fairness, while the
others rest; its properties are those of the parts under names of its own. Modules that a
proof module needs side by side do not share names of definitions, hence
`BindingSpec`, `CalibrationSpec`, `KeyboardsSpec` and `StartSpec`.
The definitions marked `mutant` are plausible bugs of the code; with one of them in
the place of the definition it mutates, TLC finds the property listed for it violated.

### SensitivityQueue (run `sensitivity`)

Core 1 pushes: test for room, write the slot, publish the head. Core 0 pops: test,
copy, advance, apply. Each is a step, so the cores interleave inside both calls.
The slots are not volatile while head and tail are; the model takes the stores in
program order, as the build's in-order cores do when the compiler keeps them so.
Checked with three slots and four requests (fills, drops, wraps, drains): the ring
refines `BoundedFifo` with capacity `BUFFER_SIZE - 1` (`ImplementsFifo`), so accepted
requests come out once, whole and in order; every one is applied at some time
(`EveryRequestApplied`); the drained queue leaves what was asked last
(`SettledToLastRequest`). A negative sensitivity loses its sign in the `uint8_t` of the
request; `ToUint8` keeps that, and no caller sends one today. Fairness: task0 and a
begun push go on; nobody has to push.

### SensorStart and SamplingStages (run `sampling`)

A start frees each bus from a sensor left in the middle of a byte, scans the addresses,
identifies what answers by its address, creates and initialises its driver, registers up to
`MaxSensors` sensors, and gives each the first free stage of its bus, one sensor a step. A
sensor may fail to answer or to initialise. `StagedOnce`: when the loop begins, every
registered sensor is in exactly one stage, of its own bus.

Then task0 visits the buses in turn: pass over a locked bus, advance over an empty stage,
ask the sensor whether it is ready, lock, start. AD7147 and GTX312L answer in the
bus's interrupt, which runs to its end (`Irq`); PSoC answers inside task0 (`Enter` to
`Release`), where the other bus's interrupt comes between steps and overwrites the
callback's static variables. A settings page on core 1 makes synchronous accesses to
the controller (`Ui...`), which mask its interrupts. A state is only set from its own
sample (`OwnSample`), a frame has a new sample of every sensor (`FrameFresh`), and frames
go on for ever (`FramesContinue`), unless core 1 masks a transfer in flight (`Severed`,
a finding) or no sensor came up. Fairness: core 0 loops, completions that are not masked
are taken (SF, since failures may come between), a sensor asked for ever answers at some
time. Checked with two stages and three installations: AD7147s on both buses with one
more than `MaxSensors`; a PSoC beside an AD7147 on bus 0; an AD7147 with a GTX312L, which
is never identified. Left out of the installations, since the code breaks the properties
there (see the findings): a PSoC on bus 1, a PSoC on bus 0 with an asynchronous sensor on
bus 1, and a fifth sensor on a bus. Not modelled: a STOP_DET that a blocking read has
left in the controller.

### DelayLine (run `delay`)

The interrupt writes a slot and advances head and count; task0 probes the last hit,
walks to newer or older samples, picks, votes over the window and sends; core 1 clears
head and count. The port refuses a packet that comes too early, and every one while the
line is not ready. The samples carry their true time, from which the history decides
what the host should have seen. Checked with a ring of four that fills and whose head
wraps, three settings (undelayed, delayed, windowed; change-only and continuous; with and
without the rate limit) and one change of the delay in the middle: the state chosen is old
enough (`OldEnough`), the newest such but for the rounds that ended during the search
(`NewestOldEnough`), and its window is exact (`WindowRespected`) as long as the ring holds
the delay, the window and what came during the search (`FitsRing`: each round that ends
during the search may take the choice two slots away from the newest). At most
`MaxPreempt` rounds end during one search; a search takes microseconds, a round
milliseconds. The vote reads its window in one step. A search whose slot is overwritten
under it is excepted, which takes a whole ring of rounds or a clear. Behaviours end before
the clock wraps (`ClockAssumption`): behind a wrap the search takes young samples for old
ones (findings).

### SerialLink (run `link`)

The interrupt puts bytes into the receive ring; task0 takes what the count allows
(`Take`), subtracts from the count in a load and a store, moves the bytes into its
stream window and cuts commands out of it. Commands have three bytes here, the ring
five, the window four: reads cut commands anywhere, the ring wraps, fills and drops,
the window overflows. `CommandsInOrder`: executed is a prefix of what was sent, unless
a byte was dropped. `LinesExecuted`: every line is executed, unless a count or a byte was
lost. Proved beside it: lost updates of the count only ever make it too small, so no
byte is read before it came (`CountNeverAhead`). Fairness: the interrupt is taken and
task0 loops. Left out: baud rate changes, whose reset of the configuration touches
neither ring nor parser; the letters inside a command.

### SerialBinding (run `binding`)

The stores of `startSerialBinding` are steps, as are the tests and stores of
`processBinding` and `cancelBinding`; so core 0 sees a session that is active before its
other fields are set, and a cancel may take back stores of a session that begins while it
works (findings); such a session ends by its time-out at the latest. Times are ages in ticks of half a second, cut off where the code stops comparing,
so no bound on time is needed. Two assumptions tie the clock to the cores: a call takes
less than a tick, and the page, redrawn every 33 ms, is drawn in every tick. Areas: two;
channels: three, so that two are held at once and one is left over. A channel has one
area (`OneAreaPerChannel`); a channel is bound to the area the game was showing for the
whole of the hold (`BoundAsShown`); a session ends once the touches do (`SessionEnds`; not
before, since a channel that is already bound restarts the area and with it the timeout).
Proved beside them: the game sees no touch out of a session (`NoGhostTouch`). Fairness:
both cores loop, the page is drawn, time goes on (SF: the model's clock waits for the
cores). Calibration, which pauses core 0's part, is a delay of core 0; that it ends is
`CalibrationEnds`. `Impatient = FALSE` keeps the user from pressing "start" while a
session runs. The page does offer it, for the moment between two areas (PREPARE is shown
as idle), and with `Impatient = TRUE` TLC finds `BoundAsShown` violated: core 0 lights the
area of the old index, core 1 resets the index, and the channel held for the lit area is
bound to the first one.

### Calibration (run `calibration`)

The menu asks for a calibration of all sensors, for targets of single channels, or for a
calibration of those; task0 starts the sensors and then only asks for their progress; each
sensor sweeps the offset of its due channels in the interrupt that ends its samples. There
its blocking reads fail, so `OnTarget` decides on what the buffers held. `OutcomeKept`: a
channel that the sweep is through with is flagged and has the offset of the end, or has
the one below its last good position, whatever was asked meanwhile. `CalibrationEnds`:
every calibration ends and task0 goes back to its work. Two sensors, two channels, the
last two offsets of the sweep (so that its end is the end of the register), two requests,
the usual target and one so low that failed reads are on it. Fairness: task0 loops and
samples complete. The arithmetic of the progress is kept, since the end
of a calibration is read off it.

### Keyboards and HidReports (run `keyboards`)

Core 1 reads the buttons behind the port expander, whose rest level it learns at start-up,
checks the mappings of touch areas one after the other, with hold times and trigger-once,
and reports: the pressed keys are cut into batches of a keyboard each (six keys; two here),
and all keyboards share an endpoint that refuses a report while one waits for the host.
Core 0 changes the touched areas between any two mappings; the settings page switches the
touch keys off and on. `KeysOwned`: a key that HID holds down is held by a button or a
mapping, and a key with one source is down exactly while that holds it. `OncePerTouch`: a
trigger-once mapping presses once for each touch. `PressedKeysShown`: once a change is sent
and nothing was refused, the host sees every key that is down. That it also sees the
others released is false (findings). The clock stops at its last value (with
`Wraps` it goes over). HID mode reports contacts instead.

### UartRing and Mai2Light (run `light`)

UART1's interrupt on core 0 and the reader on core 1 change the count of the ring by a load
and a store each (the model gives every one its step). `CountBounded`: the count stays
within the ring and never goes below zero, where an unsigned number would say "full".
Messages set colours of one or several lamps at once or by a fade, reset the board, save to
and load from the virtual EEPROM, write any bytes of it, ask for answers that share the transmitter. `SettledColours`:
between fades a lamp shows what it was last given (but see the findings for lamps set at
once). `FadeEnds`: a fade ends also when colours never stop coming. Two lamps, a ring of
two, colours off and full, a fade of two steps and one of none. `ApplyConfig` closes the
UART and cannot open it again, which the code does at its first start: what is checked of
the board holds for a UART that was open until then. Fairness: core 1 loops and time
passes. Answers carry no data.

### ConfigStore and ConfigFile (run `config`)

Two cores and the flash. Pages change the live configuration (`Change`) and set the save
request (`Press`); core 0 copies, writes the copy into the runtime map and back into the
live configuration, clears the request, locks core 1 out and commits (`Copy` to
`Commit`); a write may fail; a restart may come at any step and leaves only the file.
Start-up reads the file, formats and writes the defaults if it cannot be read, loads the
services and registers what it finds on the buses (`Read` to `Load`). One scalar setting,
one stored as raw bytes in a JSON string and one list stand for all. LittleFS is not
in the repository: the model takes it to commit a file when it is closed and formatting
to succeed. `RequestsServed`: a request that was made outside of a save, with no change and
no failure since, has put into flash what the live configuration holds. `ImplementsStore`:
the file and the map refine `DurableStore`, so a save takes effect as a whole or not at
all, a restart brings back the last one, and stored settings are given up only when they
cannot be read.

`ConfigStore` says that a string with a quote or a brace in it does not read back (`Quoted`);
`ConfigFile` gives the file its text and the parser its steps, a chunk at a time, and
`ImplementsConfigStore` shows that the parser reads exactly the files `ConfigStore` says
it can, wherever the chunks end (`Chunks`: three lengths, a single symbol among them;
256 bytes in the code). The bytes of the instance hold a quote, each brace, a
balanced pair and a blank. Two closing braces in a row are outside of `BytesAssumption`: the
parser then takes a file cut short (findings). Left out: ranges of values, the string
cache, a mount that fails, two contents with one checksum, the list of light settings
(never saved).

### UiPages, PageTemplate and UiManager (run `ui`)

Three buttons, of which two may be down at a time; a stack of pages, whose lines depend on
what core 0 changes meanwhile; a popup to edit a number; a lock that turns the buttons into
the adjustment of a selector; a scroll window of four lines with its bar; the sleep of the
screen. A button acts on the lines drawn last. `ImplementsMenu`: the stack, the popup and
the drawn lines refine `MenuWalk`, so that every press is one step down, one back, or to a
number of the page the user sees. `LockOnSelector`: a lock stays on the line it was set on,
whatever core 0 changes. `CursorFollowed`: a step of the cursor takes the window along, so
that the frame is round the line that confirm acts on. The pages begin with settings saved
before (`Saved`, any set of them), among them the areas that have a channel: the pages of
areas list the groups and areas that do, as read when the list was drawn last. A session
takes all channels away and gives them back area by area, and may end before the last one.
Two sensors of different kinds; two groups of one area; a new board and one that was set up,
with one area bound and the delay on; one change of what the pages read. Of the values of numbers only the brightness is kept, and
has one value here: it changes no line. No liveness: nobody has to press.

### The board (run `board`)

`BootSync`. The flags of `init_sync` are bit-fields of one word, so a core sets one in two
steps, load and store, and may undo the flag the other core set in between. Both cores run
their layers (`hal`, `protocol`, on core 0 `service`), each of which takes some seconds
or fails; they wait for flags with a timeout; the error handler never returns and feeds
the watchdog, as do the loops and core 1's wait for the services, but neither of the
other waits. A loop may hang. When nobody has fed the watchdog for `Limit` seconds the
device starts again. A tick is a second. The timeouts keep what matters of the real ones:
the wait for the hardware is as long as the watchdog, the wait for the protocols longer,
and a layer may take as long as core 1 waits for the services, but not so long that the
watchdog bites while nothing is wrong. `ServicesInOrder`: the services are set up after
both protocol layers and core 1's loop starts after them, whatever flags are lost.
`CoresStart`: unless an initialisation fails, a flag is lost or the services are late,
both loops run. `WatchdogBites`: with no core alive the device starts again; with one alive
it does not, see the findings. Fairness: both cores run, time passes, the watchdog acts.

`DisplayRefresh`. Core 1 writes the window in five short transfers, starts the DMA and then
marks the display busy; the DMA ends, its interrupt is taken by core 0, whose handler reads
the status once and acknowledges channel by channel while the UARTs' transfers end under
it; the SPI's FIFO empties later still. A save switches core 0's interrupts off and holds
core 1 where it is. `StreamUnbroken`: pixels go out behind a whole window and nothing gets
between. `NoLostCompletion`: who waits for a transfer is owed an interrupt. `FrozenOnlyBySave`:
frames go on for ever, unless a save catches core 1 between start and mark while the frame
ends; that race the run `frozen_display` exhibits. Two UARTs, two saves, three sends.
Fairness: core 1, the handler and transfers go on.

`Ad7147Page`. One slot and a counter carry a change of a stage from the page to core 0, one
flag a request for its capacitance; the page works on a copy it fills field by field; a
calibration writes the same settings. `RequestTakenWhole`: what core 0 takes is the whole
configuration the page handed over. `PageSettles`: when the user stops, the page at rest
shows what the driver uses and no other stage's capacitance. Two stages, two fields, two
presses, one sweep, one refused transaction. Fairness: both loops run, a calibration ends.

`TouchFirmware` and `PsocDriver`. The module's loop, step by step, with its I2C interrupt
between any two: a scan, a calibration with each of its flags, the settings taken in a snapshot and applied, the
fast trigger, the published bits. Its master is the firmware's driver, whose transactions
of both cores mix and may be refused, or a tool on a bench. `SettingsApplied`: a setting
written and neither marked nor in the loop's hands is in use. `ReleaseHasCause`: the fast
trigger lets a touch go only for a fall within this touch. One widget (widgets do not look
at each other), two settings, two counts, two changes, resets and power cycles.

`SerialLogs`. Both cores add lines, core 1 also sends them, every load and store of the
count and the indices is a step. `LinesInOrder`: lines leave in order and none is missing,
unless two were in each other's way; `raced` names when: a store overtaken between its load
and itself, a block given up while it is being sent, two adds on one block. Two blocks,
three lines; the count wraps at eight.

## Bounds

A cfg bounds requests, lines, sampling time, button presses and ring sizes, and each
bound has its constant. The rings are chosen so that each fills and wraps within a
behaviour, and those that are drained are drained; every action of every model fires in
some passing run. Deadlock checking is off where a bound ends a behaviour (no more requests, time,
lines or presses); it is on in `sampling`, `config`, `light` and `ui`, which cannot stop.
Larger rings add no new case: what matters is a ring with room for one, for more, and for
none, and a reader and a writer on both sides of the wrap. That, and larger numbers of
sensors, lamps, areas, pages' lines and requests, the proofs below confirm for the safety
properties.

## What the code does not do as documented

`frozen_display` checks the one sentence of the display driver that a busy display is to be
tried again later, and TLC finds the display busy for ever. The other findings of
`PROJECT.json` have no run of their own. They are steps of the models, which the
properties except by name, or instances the passing runs leave out, as said with the
modules above:

- sampling: interrupts masked under a transfer; a failed PSoC read that unlocks bus 0; a
  failed GTX312L read that is not recognised; callbacks that share static variables; an
  address rule that no GTX312L meets; a register pointer that is not locked;
- serial line: packets refused around the wrap of the clock, and the delay skipped; a
  receive count that loses increments; a parser that stops with a command in its window;
  resends used up by refused sends; a vote where the README says that all samples count;
- binding and sensitivity: a cancel request that kills the next session; a page that
  offers to start the session that runs; a cancel that undoes half of a start; an area whose sensitivity goes to all sensors;
  a scale of the PSoC's thresholds that ends at its clamp;
- calibration: blocking reads in a callback; a request lost with another; a page that
  cannot tell a taken change from a dropped one;
- touch module: a calibration asked for while one runs; a table of registers that has other
  defaults, other codes of the capacitance and other bits of the control register;
- configuration: device settings that are saved and not restored; a change that a running
  save undoes; bytes that end a string, or the file; keys that grow with every start;
  light settings that are never saved;
- lamps: a UART that is closed for good when its settings are applied; fades that bring
  back old targets;
- start-up: flags that undo each other; a core that runs on while the other has given
  up; a watchdog that one core feeds for both;
- logs, keys, display: indices and a count changed by both cores; a line sent twice after a
  timeout; reports refused and not repeated; a display deselected before its FIFO is
  empty; a timeout in seconds with a default in milliseconds.

## Proofs

`tlapm` checks eight modules to the last leaf. Every safety property of a passing run,
invariant, action property or refinement, is stated by one of their theorems, but for
`ImplementsConfigStore`. The theorems hold for every value of the constants that the named
`ASSUME`s allow: ring sizes of at least one or two, a null value outside the sets, values
within their registers. TLC evaluates these on every run. Those that say more than a type:

- `ClockAssumption` (`DelayLine`): the behaviour ends before the clock wraps; sampling begins
  when every delay has passed since power-up.
- `InstallationAssumption` (`SensorStart`): each bus has a stage for each sensor wired to it,
  as the address switches of the modules have it. `WiringAssumption`: a sensor has one bus.
- `KeyboardsAssumption`: buttons have keys of their own, no mapping is registered twice, and
  the keyboards have room for every key.
- `PagesFit`, `TemplateAssumption` (`PageTemplate`): no page has more lines than the scroll bar
  counts, and the groups alone fill the screen.

Some theorems have a hypothesis of their own: `AllAd7147` (sampling; the code breaks some of
the properties in other installations), `~ Impatient` (`BoundAsShown`; the user does not
press "start" while a session runs, as above), `ScanB = -127` (`OutcomeKept`; the code's
value, with which the sweep ends where the register does: the next calibration takes the
flag of a channel that was given up back, and only where the offset saturates is its offset
also that of a completed channel).

`BoardProofs`. `StepOfParts`: a step of the board is a step or a stutter of each part, so an
invariant of a part is one of the board.
- Start-up. `ServicesInOrder` follows from the flags being true: a lost update takes flags
  away and never invents one (`FlagsTrue`, of the word and of the loaded copies), and a core
  about to set a flag has reached what it stands for (`SetTrue`).
- Display. `DisplayInv` adds that a driver waits exactly while its transfer runs, its interrupt
  is raised or its callback is due, never two at a time (`Owed`), that what the handler has
  still to do is raised (`HandlerInv`), and that the display heard as much of the window as
  core 1 has written (`WindowWritten`). `LowestIsLeft` is the one fact about the loop over the
  channels. `StreamUnbroken` and `NoLostCompletion` follow.
- AD7147 page. `PageInv`: the slot holds the last request from the moment the page counts it
  until core 0 gives it back (`SlotHolds`), and what core 0 need not store any more is stored
  (`Copied`). `RequestTakenWhole` is what that says when the slot is given back; a
  calibration's sweep cannot come between, as both are core 0's.
- Touch module. `SettingsInv`: a setting that is neither marked nor in the snapshot the loop
  works on is in the library. `FallInv` relates what the fast trigger keeps of a widget to its
  touch: its high count is no higher than the peak, and a low count after a high one lies no
  further below than the deepest fall so far (`Follows`, kept by each count: `CountFollows`). A
  release needs such a distance above the threshold, hence `ReleaseHasCause`. The driver
  never writes the permille the threshold is computed from (`TodoInv`); the tool does.
- Logs. `LogInv`: either two accesses have been in each other's way (`raced`), or the ring is
  `Orderly`: at most one core is adding, the blocks between the indices, corrected by what is
  under way in either core (`Stored`, `Kept`), hold the lines logged and neither sent nor
  dropped, in order.

`InputManagerProofs`.
- Sensitivity queue. Order of delivery is not inductive: it says nothing of the slots. `IInv`
  adds what the contents are: the slots from tail to head hold the accepted requests that are
  not delivered yet (`SlotsHoldAccepted`), a begun push has room and has written its slot
  (`RoomForPush`, `WrittenSlot`), a begun pop has something to take and has copied it
  (`RequestForPop`, `CopiedSlot`). Order, absence of a slot race, and the refinement of
  `BoundedFifo` (each step is a step of the queue or a stutter) follow. `Settled` needs a
  second invariant: what each channel was asked last is in the ring or applied.
- Keyboards. `OwnedInv`: HID's list has no key twice and only keys that exist (`KeyState`), so
  by counting it never runs out of room and no press is refused; with the press stages of the
  mappings and the bits of the buttons (`SourceState`) `KeysOwned` is inductive, and `OncePerTouch`
  holds of each step. `ShownInv` adds what the reports say: those of a turn are of the keys as
  they are (`OutboxCurrent`), and each batch of a change is to be handed over, in the endpoint
  or at the host with nothing older of its keyboard behind it, unless a report was refused
  (`BatchesArrive`).

`DelayLineProofs`. Two invariants. `OldInv` serves `OldEnough` and holds whatever core 1
clears: the slot the search has in hand was looked at and was old enough, or has been
overwritten since (`LookedAt`). `LineInv` serves the others and holds until core 1 clears:
what the interrupt has in its registers is current (`Registers`); samples are at least as
far apart in time as in the ring (`Spaced`); what came since the search began is in front
(`SinceInv`); between what was found and the slot ahead lie only samples that a round pushed
past the search (`WalkInv`); and the choice has at most as many better ones as rounds ended,
and is as near to the head as they allow (`ChoiceInv`). `VoteOverWindow` needs that the
window does not reach past the head; the attempt to prove it with less than `FitsRing`
failed on a search that two rounds interrupt, which TLC confirmed.

`SerialModeProofs`.
- Link. While the reader is between its load and its store, the count and the loaded copy
  both matter; `CountInv` bounds each of them by the bytes that wait, less what was just
  taken, so lost updates only ever make the count too small. `LinkInv`: as long as no byte was
  dropped, the bytes of the stream window, the reader's chunk, the ring and the line, one after
  the other, are those of the lines sent and not executed (`LinesWait`, `Ends`).
  `CommandsInOrder` follows for lines of any length.
- Binding. `IInv` adds to types and `OneAreaPerChannel` that an area is left whenever core 0
  waits for one (`AreaLeft`), that a channel is chosen before it is bound (`ChannelChosen`) and
  that core 0's turn lies in a session (`TurnInSession`): core 1 may start sessions but never
  ends one. It needs no timing, so it also holds for impatient users and for pages that are
  drawn late. `BoundAsShown` does: `Patient` says that the area whose channel is looked for is
  the one lit (`LitForChannel`), that no hold is older than its light (`HeldSinceLit`), and
  that a start, whose stores all come within one tick, meets nothing half done (`AtRest`,
  `Starting`).

`SamplingStagesProofs`.
- Start-up, for any drivers. `StartInv`: what is listed was found (`Listed`), what was placed
  has one stage of its own bus (`Placed`, `OneStageEach`), and nothing is sampled yet. That a
  free stage is always found is a counting argument with `InstallationAssumption`.
- Sampling, for installations of AD7147 modules: what task0 knows of its bus at each point
  (`LoopInv`: the bus is locked from the look on, and its controller free until the start),
  and that the bitmap is what was sampled since the last frame (`BitmapIsFresh`). With these
  and `OneStageEach`, that a lock always has a sample under way (`NoOrphanLock`), that a
  transfer keeps its stage (`StagePinned`) and `OwnSample` are inductive, and `FrameFresh`
  holds of each step. The theorems `...FromStart` join the two: sampling begins in a state
  the start-up leaves. The other drivers falsify some of them, so `AllAd7147` cannot go.
- Calibration. `OutcomeKept` is not inductive, since a channel may be asked for again when it
  is done and its sweep goes on from where it stopped. `OutcomeInv` says what holds at any
  moment of a sweep (`Sound`): only at the end of the register is a channel given up, and
  there the offset is that of the end.

`ConfigStoreProofs`. `RequestsServed` speaks of the end of a save; `OnTheWay` says what a
promise means at each step before it: the copy is the live configuration, then the map
holds it, then the file. `KeysBounded` bounds the list of keys by the starts, one less
until the wired keys are registered. The refinement of `DurableStore` needs that a
format only follows a file that cannot be read.

`Mai2LightProofs`. `CountBounded` is about a count with two unprotected users. `RingInv`
says what each holds between its load and its store: the interrupt at least the count,
since only the reader lowers it (`InterruptHolds`); the reader at most the count and at
least what it took, and no more than the interrupt (`ReaderHolds`). So a lost update may
leave the count wrong but never outside of the ring. `SettledColours` follows from
`TargetsAsked`: a lamp whose colour is known has it as target, and between fades shows it.

`UiManagerProofs`. What each page can show is found once (`Allowed`): lines of which kinds,
leading where. `StackInv`: every page of the stack lies at its own depth in the tree (`WalkInv`,
`Depth`), the lines drawn last are those of the page drawn last at some moment, and a confirm
that waits was made on the page that is open (`ViewInv`). Every step then is a step of
`MenuWalk` or a stutter. `LockInv`: where a page has its selectors does not change with what
core 0 does meanwhile (`SameSelectors`, `Lasts`), so a lock stays where it was set. `CursorInv`:
the stack is a path in the tree (`Linked`), and the lines drawn last are those of its page or
of one next to it; two such pages never show the same lines if these fill the screen
(`DifferentPages`), and no page is longer than the scroll bar counts (`LinesFit`), so the
window that a step of the cursor moves is the page's own.

Out of the prover's reach: liveness, `ENABLED`, induction over data.

## Only model-checked

Liveness (`EveryRequestApplied`, `FramesContinue`, `LinesExecuted`, `SessionEnds`,
`CalibrationEnds`, `FadeEnds`, `CoresStart`, `WatchdogBites`, `FrozenOnlyBySave`,
`PageSettles`): the prover does not treat fairness. `ImplementsConfigStore`: `ConfigFile`
folds over texts of any length, where a proof would be by induction over data. The sampling
properties for a PSoC beside an AD7147 and for a GTX312L: their invariant would be another one,
since a PSoC answers inside task0. `frozen_display` exhibits a behaviour, which is no
theorem.

## Not modelled

- Fonts, colours and drawing primitives; the start-up sequences of the display and of the
  port expander: output without state that anything reads.
- NeoPixel and PIO: nothing fills the regions the LightManager would send
  (`sync_mai2light_to_regions` and `set_region_color` have no caller).
- USB descriptors and TinyUSB, whose code is not in the repository; the endpoint and the
  serial port are part of `Keyboards` and `SerialLogs`.
- Generated board set-up and the CapSense library of the touch module.
- Two blocking accesses of both cores to one I2C controller at the same time: what happens
  is decided in the peripheral.
- Code without a caller: `emergency_shutdown`, `deinit_system`, `setSensitivityByDeviceName`,
  `enableMappedChannels`, `startAutoSerialBinding`, `confirmAutoSerialBinding`,
  `setHIDMapping`, `updateAutoCalibrationControl`, `read_async`, `write_async`, the
  `StreamingJsonSerializer`, the split screen.

What would extend the project: an invariant of sampling for PSoC modules; a composition of
`SamplingStages` with `DelayLine` through the frame they share, and of `Calibration` with the
settings page of the AD7147; the steps of `ConfigFile` that do not parse as steps of
`ConfigStore`.

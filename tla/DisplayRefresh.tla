--------------------------- MODULE DisplayRefresh ---------------------------
(***************************************************************************)
(* The display: core 1 sends the frame buffer to the ST7735S over SPI0     *)
(* about 30 times a second.  Five short writes set the window; the pixels  *)
(* then go out by DMA, and the interrupt at their end, taken by core 0,    *)
(* makes the display free again.  The other users of the DMA interrupt are *)
(* the transmitters of the UARTs.                                          *)
(*                                                                         *)
(* When core 0 saves the configuration it switches its interrupts off and  *)
(* holds core 1 wherever that is, for many times the length of a frame.    *)
(* Without that, core 1 needs microseconds to get out of write_buffer and  *)
(* the pixels 17 ms (25600 bytes at 12 MHz): they do not end before, and   *)
(* core 0's handler does not last until the next refresh.                  *)
(***************************************************************************)
EXTENDS Integers, Sequences, FiniteSets

CONSTANTS
  Uarts,         \* the channels of the UARTs' transmitters
  MaxSaves,      \* bound: configurations saved
  MaxSends       \* bound: transmissions of the UARTs

\* what is assumed of the constants
DisplayConstants ==
  /\ Uarts \subseteq 1..7 /\ IsFiniteSet(Uarts)
  /\ MaxSaves \in Nat /\ MaxSends \in Nat

\* the channel that SPI0, which is first, claims for its transmitter
Tft == 0
Channel == {Tft} \union Uarts

VARIABLES
  running,       \* the channels whose transfer is under way
  ints0,         \* those whose interrupt is raised
  shifting,      \* spi_is_busy: bytes are still in SPI0's FIFO
  halBusy,       \* dma_busy_ of each channel's driver: HAL_SPI0, HAL_UART0, HAL_UART1
  busy,          \* ST7735S::dma_busy_
  pins,          \* the pins CS (selected or not) and DC (command or data)
  heard,         \* what the display received since the last frame
  core1,         \* where core 1 is in write_buffer
  core0,         \* where core 0 is: its thread, the handler, a save
  saves, sends   \* bound counters

spi  == <<shifting, busy, pins, heard>>
vars == <<running, ints0, spi, halBusy, core1, core0, saves, sends>>

\* set_window: the commands and the coordinates of the whole screen
Window == <<"CASET", "columns", "RASET", "rows", "RAMWR">>
IsCommand(b) == b \in {"CASET", "RASET", "RAMWR"}

Init ==
  /\ running = {} /\ ints0 = {} /\ shifting = FALSE
  /\ halBusy = [ch \in Channel |-> FALSE]
  /\ busy = FALSE
  /\ pins = [selected |-> FALSE, data |-> FALSE]
  /\ heard = <<>>
  /\ core1 = [at |-> "loop", sent |-> 0]
  /\ core0 = [at |-> "thread", left |-> {}]
  /\ saves = 0 /\ sends = 0
----------------------------------------------------------------------------
(* ---------------------- core 1: refresh_task_30fps --------------------- *)

Held == core0.at = "flash"
IsDmaBusy == busy \/ halBusy[Tft]

\* mutant: write_buffer does not look whether the last frame is out
WriteBufferUnchecked ==
  /\ ~Held /\ core1.at = "loop"
  /\ core1' = [at |-> "window", sent |-> 0]
  /\ UNCHANGED <<running, ints0, spi, halBusy, core0, saves, sends>>

\* write_buffer: nothing while the last frame goes out
WriteBuffer ==
  /\ ~Held /\ core1.at = "loop" /\ ~IsDmaBusy
  /\ core1' = [at |-> "window", sent |-> 0]
  /\ UNCHANGED <<running, ints0, spi, halBusy, core0, saves, sends>>

\* write_command and write_data: select, send and wait, deselect; without a
\* trace when the display is busy
WriteByte ==
  /\ ~Held /\ core1.at = "window" /\ core1.sent < Len(Window) /\ ~shifting
  /\ core1' = [core1 EXCEPT !.sent = @ + 1]
  /\ LET b == Window[core1.sent + 1] IN
       IF IsDmaBusy THEN UNCHANGED <<heard, pins>>
       ELSE /\ heard' = Append(heard, b)
            /\ pins' = [selected |-> FALSE, data |-> ~IsCommand(b)]
  /\ UNCHANGED <<running, ints0, shifting, halBusy, busy, core0, saves, sends>>

SelectDataMode ==
  /\ ~Held /\ core1.at = "window" /\ core1.sent = Len(Window)
  /\ pins' = [selected |-> TRUE, data |-> TRUE]
  /\ core1' = [core1 EXCEPT !.at = "start"]
  /\ UNCHANGED <<running, ints0, shifting, halBusy, busy, heard, core0, saves, sends>>

\* start_dma_transfer: the driver's flag, then the transfer; a refusal deselects
StartDmaTransfer ==
  /\ ~Held /\ core1.at = "start"
  /\ IF halBusy[Tft] \/ shifting
       THEN /\ pins' = [pins EXCEPT !.selected = FALSE]
            /\ core1' = [core1 EXCEPT !.at = "loop"]
            /\ UNCHANGED <<halBusy, running>>
       ELSE /\ halBusy' = [halBusy EXCEPT ![Tft] = TRUE]
            /\ running' = running \union {Tft}
            /\ core1' = [core1 EXCEPT !.at = "mark"]
            /\ UNCHANGED pins
  /\ UNCHANGED <<ints0, shifting, busy, heard, core0, saves, sends>>

\* the display is marked busy only now
MarkBusy ==
  /\ ~Held /\ core1.at = "mark"
  /\ busy' = TRUE
  /\ core1' = [core1 EXCEPT !.at = "loop"]
  /\ UNCHANGED <<running, ints0, shifting, halBusy, pins, heard, core0, saves, sends>>

Refresh == WriteBuffer \/ WriteByte \/ SelectDataMode \/ StartDmaTransfer \/ MarkBusy

\* trigger_tx_dma of a UART, on either core
TriggerTxDma(ch) ==
  /\ sends < MaxSends /\ ~halBusy[ch]
  /\ halBusy' = [halBusy EXCEPT ![ch] = TRUE]
  /\ running' = running \union {ch}
  /\ sends' = sends + 1
  /\ UNCHANGED <<ints0, spi, core1, core0, saves>>
----------------------------------------------------------------------------
(* ------------------------------ the DMA -------------------------------- *)

\* the last byte is in the FIFO.  Unless it is held, core 1 is out of
\* write_buffer before the pixels have all been sent
TransferEnds(ch) ==
  /\ ch \in running
  /\ ch = Tft => core1.at # "mark" \/ Held
  /\ running' = running \ {ch}
  /\ ints0' = ints0 \union {ch}
  /\ IF ch = Tft THEN shifting' = TRUE /\ heard' = <<>> ELSE UNCHANGED <<shifting, heard>>
  /\ UNCHANGED <<halBusy, busy, pins, core1, core0, saves, sends>>

FifoEmpties ==
  /\ shifting /\ shifting' = FALSE
  /\ UNCHANGED <<running, ints0, halBusy, busy, pins, heard, core1, core0, saves, sends>>
----------------------------------------------------------------------------
(* ------------------ core 0: dma_irq0_handler, saves -------------------- *)

\* the handler reads the interrupts once
EnterHandler ==
  /\ core0.at = "thread" /\ ints0 # {}
  /\ core0' = [at |-> "handler", left |-> ints0]
  /\ UNCHANGED <<running, ints0, spi, halBusy, core1, saves, sends>>

\* the channels in order: acknowledge, then the callback
Lowest == CHOOSE ch \in core0.left : \A other \in core0.left : ch <= other

Acknowledge ==
  /\ core0.at = "handler" /\ core0.left # {}
  /\ ints0' = ints0 \ {Lowest}
  /\ core0' = [core0 EXCEPT !.at = "callback"]
  /\ UNCHANGED <<running, spi, halBusy, core1, saves, sends>>

\* mutant: on_dma_complete leaves ST7735S::dma_busy_ to the driver below it
OnDmaCompleteKeepsBusy == UNCHANGED busy /\ pins' = [pins EXCEPT !.selected = FALSE]

\* of the display; the FIFO may not be empty yet
OnDmaComplete == busy' = FALSE /\ pins' = [pins EXCEPT !.selected = FALSE]

\* mutant: the interrupt is acknowledged after the callback as well
CallbackAcknowledges ==
  /\ core0.at = "callback"
  /\ halBusy' = [halBusy EXCEPT ![Lowest] = FALSE]
  /\ IF Lowest = Tft THEN OnDmaComplete ELSE UNCHANGED <<busy, pins>>
  /\ ints0' = ints0 \ core0.left
  /\ core0' = [at |-> "handler", left |-> core0.left \ {Lowest}]
  /\ UNCHANGED <<running, shifting, heard, core1, saves, sends>>

\* spi0_dma_callback, uart0_tx_dma_callback and uart1_tx_dma_callback
Callback ==
  /\ core0.at = "callback"
  /\ halBusy' = [halBusy EXCEPT ![Lowest] = FALSE]
  /\ IF Lowest = Tft THEN OnDmaComplete ELSE UNCHANGED <<busy, pins>>
  /\ core0' = [at |-> "handler", left |-> core0.left \ {Lowest}]
  /\ UNCHANGED <<running, ints0, shifting, heard, core1, saves, sends>>

LeaveHandler ==
  /\ core0.at = "handler" /\ core0.left = {}
  /\ core0' = [core0 EXCEPT !.at = "thread"]
  /\ UNCHANGED <<running, ints0, spi, halBusy, core1, saves, sends>>

\* save_config_task: interrupts off, core 1 held; core 1 released, interrupts on
SaveBegins ==
  /\ core0.at = "thread" /\ saves < MaxSaves
  /\ core0' = [core0 EXCEPT !.at = "flash"] /\ saves' = saves + 1
  /\ UNCHANGED <<running, ints0, spi, halBusy, core1, sends>>

LockoutEnds ==
  /\ core0.at = "flash"
  /\ core0' = [core0 EXCEPT !.at = "released"]
  /\ UNCHANGED <<running, ints0, spi, halBusy, core1, saves, sends>>

InterruptsOn ==
  /\ core0.at = "released"
  /\ core0' = [core0 EXCEPT !.at = "thread"]
  /\ UNCHANGED <<running, ints0, spi, halBusy, core1, saves, sends>>

Handler == EnterHandler \/ Acknowledge \/ Callback \/ LeaveHandler
Save == LockoutEnds \/ InterruptsOn

Next ==
  \/ Refresh
  \/ \E ch \in Uarts : TriggerTxDma(ch)
  \/ \E ch \in Channel : TransferEnds(ch)
  \/ FifoEmpties
  \/ Handler \/ SaveBegins \/ Save

\* core 1 and the handler go on, transfers end
Fairness ==
  /\ WF_vars(Refresh) /\ WF_vars(FifoEmpties) /\ WF_vars(Handler) /\ WF_vars(Save)
  /\ \A ch \in Channel : WF_vars(TransferEnds(ch))

Spec == Init /\ [][Next]_vars /\ Fairness
----------------------------------------------------------------------------
\* While pixels go out the display is selected for data and has heard the whole
\* window and nothing after it: no command of the next refresh gets
\* between them, and a frame begins at its first pixel.
StreamUnbroken ==
  Tft \in running => /\ pins.selected /\ pins.data
                     /\ heard = Window

\* A driver that waits for its transfer is owed an interrupt: the handler loses
\* none when transfers end while it runs.
NoLostCompletion ==
  \A ch \in Channel : halBusy[ch] =>
    \/ ch \in running \union ints0
    \/ core0.at = "callback" /\ ch = Lowest

\* A save caught core 1 between the start of a frame and the mark, and the frame
\* ended meanwhile.
CaughtBySave == core1.at = "mark" /\ Tft \notin running

\* Frames go out for ever, but for this one race with a save.
FrozenOnlyBySave == []<>(core1.at = "mark") \/ <>CaughtBySave

\* "fail at once when the DMA is busy and let the caller try again later": a
\* refresh succeeds again and again.
RetrySucceeds == []<>(core1.at = "mark")
=============================================================================

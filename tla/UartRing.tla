------------------------------ MODULE UartRing ------------------------------
(***************************************************************************)
(* The receiving side of HAL_UART1 and its transmitter, as the light link  *)
(* uses them.  The UART interrupt is enabled by core 0 and runs there; the *)
(* ring is read by core 1 (LightManager::task).  data_count is changed by  *)
(* both with a plain load and store, so their updates interleave.          *)
(*                                                                         *)
(* A slot of the ring stands for a message (a packet or a text line); what *)
(* a slot holds is not followed: the updates that are lost make the reader *)
(* meet a message late, or an old one again.                               *)
(***************************************************************************)
EXTENDS Naturals

CONSTANTS Size,       \* RxBuffer::BUFFER_SIZE, 256 bytes
          ReadSize    \* the buffer of process_received_data, 32 bytes

ASSUME RingAssumption == Size \in Nat \ {0} /\ ReadSize \in Nat \ {0}

VARIABLES
  uartOpen,          \* HAL_UART1::initialized_
  dmaBusy,           \* dma_busy_: a transmission is under way
  count,             \* rx_buffer_.data_count
  isr, isrHeld,      \* core 0, handle_rx_irq: where it is, the count it has loaded
  rd, taken, rdHeld  \* core 1, read_from_rx_buffer: where it is, to_read, its count

ringVars == <<uartOpen, dmaBusy, count, isr, isrHeld, rd, taken, rdHeld>>
reading  == <<rd, taken, rdHeld>>

RingTypeOK ==
  /\ uartOpen \in BOOLEAN /\ dmaBusy \in BOOLEAN
  /\ count \in 0..Size /\ isrHeld \in 0..Size /\ rdHeld \in 0..Size
  /\ isr \in {"idle", "found"} /\ rd \in {"idle", "load", "store", "handle", "after"}
  /\ taken \in 0..ReadSize

\* HAL_UART1::init
RingInit ==
  /\ uartOpen = TRUE /\ dmaBusy = FALSE
  /\ count = 0
  /\ isr = "idle" /\ isrHeld = 0
  /\ rd = "idle" /\ taken = 0 /\ rdHeld = 0

-----------------------------------------------------------------------------
(* Core 0: one turn of the loop of handle_rx_irq.  A message that finds the
   ring full is dropped. *)
ArriveAlways ==         \* mutant: the interrupt stores without looking for room
  /\ uartOpen /\ isr = "idle"
  /\ isr' = "found" /\ isrHeld' = count
  /\ UNCHANGED <<uartOpen, dmaBusy, count, reading>>

Arrive ==
  /\ uartOpen /\ isr = "idle"
  /\ count < Size
  /\ isr' = "found" /\ isrHeld' = count
  /\ UNCHANGED <<uartOpen, dmaBusy, count, reading>>

\* the increment may load the count anew or use the one that was compared
Reload ==
  /\ isr = "found" /\ isrHeld' = count /\ isrHeld # count
  /\ UNCHANGED <<uartOpen, dmaBusy, count, isr, reading>>

Counted ==
  /\ isr = "found" /\ isr' = "idle"
  /\ count' = isrHeld + 1 /\ isrHeld' = 0
  /\ UNCHANGED <<uartOpen, dmaBusy, reading>>

-----------------------------------------------------------------------------
(* Core 1: read_from_rx_buffer, once in a pass of the task.  What it takes is
   counted off afterwards. *)
NothingToTake ==
  /\ rd = "idle" /\ (uartOpen => count = 0)
  /\ rd' = "after"
  /\ UNCHANGED <<uartOpen, dmaBusy, count, isr, isrHeld, taken, rdHeld>>

Take ==
  /\ uartOpen /\ rd = "idle" /\ count > 0
  /\ taken' = IF ReadSize > count THEN count ELSE ReadSize
  /\ rd' = "load"
  /\ UNCHANGED <<uartOpen, dmaBusy, count, isr, isrHeld, rdHeld>>

Load ==
  /\ rd = "load" /\ rd' = "store" /\ rdHeld' = count
  /\ UNCHANGED <<uartOpen, dmaBusy, count, isr, isrHeld, taken>>

Store ==
  /\ rd = "store" /\ rd' = "handle"
  /\ count' = rdHeld - taken /\ rdHeld' = 0
  /\ UNCHANGED <<uartOpen, dmaBusy, isr, isrHeld, taken>>

\* the caller has handled one of the messages it took
OneHandled ==
  /\ rd = "handle" /\ taken > 0 /\ taken' = taken - 1
  /\ rd' = IF taken = 1 THEN "after" ELSE rd
  /\ UNCHANGED <<uartOpen, count, isr, isrHeld, rdHeld>>

\* the rest of the pass
PassEnds ==
  /\ rd = "after" /\ rd' = "idle"
  /\ UNCHANGED <<uartOpen, dmaBusy, count, isr, isrHeld, taken, rdHeld>>

-----------------------------------------------------------------------------
(* write_to_tx_buffer: with a transmission under way the answer is dropped. *)
Transmit == dmaBusy' = TRUE

\* the completion interrupt, dispatched by global_irq while the channel has a callback
TxDone ==
  /\ dmaBusy /\ uartOpen /\ dmaBusy' = FALSE
  /\ UNCHANGED <<uartOpen, count, isr, isrHeld, reading>>

\* deinit disables the interrupts and gives the channels back.  What it leaves
\* in the ring and in dma_busy_ nothing reads any more: the model forgets it
Close ==
  /\ uartOpen' = FALSE
  /\ dmaBusy' = FALSE /\ count' = 0 /\ isr' = "idle" /\ isrHeld' = 0
  /\ UNCHANGED reading

-----------------------------------------------------------------------------
(* However the updates of the two cores interleave, the count that the
   interrupt compares with the size of the ring (hal_uart.cpp:636-648) is
   never more than it, and what core 1 counts off (line 584) never takes it
   below zero, where an unsigned count would say that the ring is full. *)
CountBounded == count \in 0..Size /\ (rd = "store" => rdHeld >= taken)
=============================================================================

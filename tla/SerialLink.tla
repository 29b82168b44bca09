----------------------------- MODULE SerialLink -----------------------------
(***************************************************************************)
(* The command side of the game's serial link.  Bytes from the host enter  *)
(* HAL_UART0's receive ring in the UART interrupt; process_commands, once  *)
(* per task0 on the same core, takes what the ring holds into Mai2Serial's *)
(* stream window, cuts commands out of it and executes them.  Answers and  *)
(* touch packets share the one transmit DMA, which keeps no queue.         *)
(*                                                                         *)
(* A command has Length bytes, its first and last are the braces; what is  *)
(* between them is abstracted to copies of its letter.  "/" stands for the *)
(* text "/help".  The host only sends whole commands and text lines.       *)
(***************************************************************************)
EXTENDS Naturals, Sequences, SequencesExt

CONSTANTS
  Size,         \* RxBuffer::BUFFER_SIZE, 256
  Length,       \* MAI2SERIAL_COMMAND_LENGTH, 6
  ReadSize,     \* the buffer of process_commands, 24
  StreamSize,   \* MAI2SERIAL_STREAM_BUFFER_SIZE, 24
  Commands,     \* the commands the host uses
  MaxCommands   \* bound: what the host sends in a behaviour

Controls == {"E", "L", "A"}            \* RSET, HALT, STAT
Queries  == {"r", "k"}                 \* RATIO, SENS
Help     == "help"

\* the bytes that cut the stream
Opening == "{"
Closing == "}"
LineEnd == "\n"
Slash   == "/"

ASSUME SizeAssumption ==
  /\ Size \in Nat /\ Length \in Nat /\ ReadSize \in Nat /\ StreamSize \in Nat
  /\ Size > 0 /\ Length > 2 /\ ReadSize > 0 /\ StreamSize >= Length
ASSUME CommandsAssumption == Commands \subseteq (Controls \cup Queries \cup {Help})
ASSUME BoundAssumption == MaxCommands \in Nat

VARIABLES
  out,                 \* the host: what is left of the line it is sending
  buffer, writePtr, readPtr, count,    \* rx_buffer_ of HAL_UART0
  pc, taken, held,     \* process_commands: where it is, to_read, the count it has read
  chunk, stream,       \* what it took out; rx_stream_buffer_
  serialOk,            \* serial_ok_
  dmaBusy,             \* dma_busy_ of the transmitter
  sent, executed,      \* history: the lines the host sent, those that were executed
  unread,              \* history: bytes stored and not yet taken
  lost,                \* history: an increment of the count was lost
  damaged              \* history: a byte was dropped or overwritten

rx      == <<buffer, writePtr, readPtr, count>>
reader  == <<pc, taken, held, chunk>>
history == <<unread, lost, damaged>>
vars    == <<out, buffer, writePtr, readPtr, count, pc, taken, held, chunk, stream,
             serialOk, dmaBusy, sent, executed, unread, lost, damaged>>

Byte == {Opening, Closing, Slash, LineEnd} \cup Controls \cup Queries

\* the bytes of a line
Frame(c) == <<Opening>> \o [i \in 1..(Length - 2) |-> c] \o <<Closing>>
BytesOf(line) == IF line = Help THEN <<Slash, LineEnd>> ELSE Frame(line)

Init ==
  /\ out = << >>
  /\ buffer = [i \in 0..(Size - 1) |-> LineEnd]
  /\ writePtr = 0 /\ readPtr = 0 /\ count = 0
  /\ pc = "idle" /\ taken = 0 /\ held = 0 /\ chunk = << >> /\ stream = << >>
  /\ serialOk = FALSE /\ dmaBusy = FALSE
  /\ sent = << >> /\ executed = << >>
  /\ unread = 0 /\ lost = FALSE /\ damaged = FALSE

-----------------------------------------------------------------------------
(* The host and the line. *)
SendLine ==
  /\ out = << >> /\ Len(sent) < MaxCommands
  /\ \E line \in Commands : out' = BytesOf(line) /\ sent' = Append(sent, line)
  /\ UNCHANGED <<rx, reader, stream, serialOk, dmaBusy, executed, history>>

(* One turn of the loop in handle_rx_irq, which core 0 does not interrupt: a
   byte goes into the ring unless its count says it is full.  An increment
   between the reader's load and store of the count is undone by that store. *)
Receive ==
  /\ out # << >> /\ out' = Tail(out)
  /\ IF count < Size
       THEN /\ buffer' = [buffer EXCEPT ![writePtr] = Head(out)]
            /\ writePtr' = (writePtr + 1) % Size
            /\ count' = count + 1
            /\ unread' = unread + 1
            /\ lost' = (lost \/ pc = "store")
            /\ damaged' = (damaged \/ unread >= Size)
       ELSE damaged' = TRUE /\ UNCHANGED <<buffer, writePtr, count, unread, lost>>
  /\ UNCHANGED <<readPtr, reader, stream, serialOk, dmaBusy, sent, executed>>

-----------------------------------------------------------------------------
(* Core 0: read_from_rx_buffer. *)

\* copies as many bytes as the count allows and moves the read pointer past them
Take ==
  /\ pc = "idle" /\ pc' = "load" /\ count > 0
  /\ taken' = IF ReadSize > count THEN count ELSE ReadSize
  /\ chunk' = [i \in 1..taken' |-> buffer[(readPtr + i - 1) % Size]]
  /\ readPtr' = (readPtr + taken') % Size
  /\ unread' = unread - taken'
  /\ UNCHANGED <<out, buffer, writePtr, count, held, stream, serialOk, dmaBusy, sent, executed,
                 lost, damaged>>

\* data_count -= to_read: a load, and a store
Load ==
  /\ pc = "load" /\ pc' = "store" /\ held' = count
  /\ UNCHANGED <<out, rx, taken, chunk, stream, serialOk, dmaBusy, sent, executed, history>>

Store ==
  /\ pc = "store" /\ pc' = "append" /\ count' = held - taken
  /\ taken' = 0 /\ held' = 0
  /\ UNCHANGED <<out, buffer, writePtr, readPtr, chunk, stream, serialOk, dmaBusy,
                 sent, executed, history>>

-----------------------------------------------------------------------------
(* Core 0: process_dma_received_data.  The window keeps the newest bytes. *)
Newest(s) == IF Len(s) > StreamSize THEN SubSeq(s, Len(s) - StreamSize + 1, Len(s)) ELSE s
After(n)  == SubSeq(stream, n + 1, Len(stream))

WindowChunk ==
  /\ pc = "append" /\ pc' = "parse"
  /\ stream' = Newest(stream \o chunk)
  /\ chunk' = << >>
  /\ damaged' = (damaged \/ Len(stream \o chunk) > StreamSize)
  /\ UNCHANGED <<out, rx, taken, held, serialOk, dmaBusy, sent, executed, unread, lost>>

\* write_to_tx_buffer: nothing is queued behind a running transfer
Answer(needed) == dmaBusy' = (dmaBusy \/ needed)

(* process_command_packet: only E, L and A change what is sent from now on. *)
WellFormed(packet) == packet[Length] = Closing /\ packet[Length - 1] \in Controls \cup Queries

Execute(packet) ==
  IF ~ WellFormed(packet) THEN UNCHANGED <<executed, serialOk, dmaBusy>>
  ELSE LET c == packet[Length - 1]
       IN /\ executed' = Append(executed, c)
          /\ serialOk' = IF c \in Controls THEN c = "A" ELSE serialOk
          /\ Answer(c \in Queries)

Parsing == pc = "parse" /\ UNCHANGED <<out, rx, taken, held, chunk, sent, history>>
Silent  == UNCHANGED <<serialOk, dmaBusy, executed>>

\* a command: waits for its bytes and, among them, for a closing brace
WholeAndMore ==            \* mutant: waits for a byte more than a command has
  Len(stream) > Length /\ \E i \in 2..Length : stream[i] = Closing

Whole == Len(stream) >= Length /\ \E i \in 2..Length : stream[i] = Closing

CutCommandEarly ==         \* mutant: leaves the closing brace in the window
  /\ Parsing /\ stream # << >> /\ Head(stream) = Opening
  /\ IF Whole
       THEN /\ Execute(SubSeq(stream, 1, Length)) /\ stream' = After(Length - 1)
            /\ UNCHANGED pc
       ELSE pc' = "idle" /\ Silent /\ UNCHANGED stream

CutCommand ==
  /\ Parsing /\ stream # << >> /\ Head(stream) = Opening
  /\ IF Whole
       THEN /\ Execute(SubSeq(stream, 1, Length)) /\ stream' = After(Length)
            /\ UNCHANGED pc
       ELSE pc' = "idle" /\ Silent /\ UNCHANGED stream

\* anything else is text, up to a line's end or to the next brace; an empty
\* line is skipped, and a brace only moves to the front: the call ends there
Marks == {i \in DOMAIN stream : stream[i] \in {LineEnd, Opening}}
CutText ==
  /\ Parsing /\ stream # << >> /\ Head(stream) # Opening
  /\ IF Marks = {} THEN pc' = "idle" /\ Silent /\ UNCHANGED stream
     ELSE LET m == CHOOSE i \in Marks : \A j \in Marks : i <= j
          IN IF stream[m] = Opening
               THEN stream' = After(m - 1) /\ pc' = "idle" /\ Silent
               ELSE /\ stream' = After(m) /\ UNCHANGED <<pc, serialOk>>
                    /\ Answer(stream[1] = Slash)
                    /\ executed' = IF stream[1] = Slash THEN Append(executed, Help) ELSE executed

Drained == Parsing /\ stream = << >> /\ pc' = "idle" /\ Silent /\ UNCHANGED stream

-----------------------------------------------------------------------------
\* the rest of task0 hands a touch packet to the transmitter, if it is free
SendTouch ==
  /\ pc = "idle" /\ serialOk /\ ~ dmaBusy
  /\ dmaBusy' = TRUE
  /\ UNCHANGED <<out, rx, reader, stream, serialOk, sent, executed, history>>

\* uart0_tx_dma_callback
TxDone ==
  /\ dmaBusy /\ dmaBusy' = FALSE
  /\ UNCHANGED <<out, rx, reader, stream, serialOk, sent, executed, history>>

Reader == Take \/ Load \/ Store \/ WindowChunk \/ CutCommand \/ CutText \/ Drained
Next   == SendLine \/ Receive \/ Reader \/ SendTouch \/ TxDone

Spec == Init /\ [][Next]_vars

\* the interrupt is taken and core 0 keeps looping
FairSpec == Spec /\ WF_vars(Receive) /\ WF_vars(Reader)

-----------------------------------------------------------------------------
\* Mai2Serial executes exactly the lines the host sent, in their order and
\* once each, however they were cut into reads and wherever the ring wrapped,
\* as long as no byte was dropped or overwritten for want of room.
CommandsInOrder == ~ damaged => IsPrefix(executed, sent)

\* The reader never takes a byte that has not arrived: a lost update of the
\* count can only make it too small.
CountNeverAhead ==
  (IF pc \in {"load", "store"} THEN count - taken ELSE count) <= unread

\* Every line is executed at some time, unless an update of the count was
\* lost or a byte was.
LinesExecuted ==
  \A n \in 1..MaxCommands :
    (Len(sent) >= n) ~> (Len(executed) >= n \/ lost \/ damaged)
=============================================================================

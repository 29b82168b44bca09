-------------------------- MODULE SerialModeProofs --------------------------
(***************************************************************************)
(* The two parts of the serial mode.                                       *)
(*                                                                         *)
(* The link, for a receive ring of any size and commands of any length.    *)
(* Although the reader's update of the count can undo an increment of the  *)
(* interrupt, the count never claims a byte that has not arrived; and the  *)
(* bytes in the window, the reader's buffer, the ring and on the line are  *)
(* at all times the lines sent and not yet executed, one after another.    *)
(*                                                                         *)
(* The binding, for any channels, any number of areas, any times, and a    *)
(* user who may press "start" while a session runs: types, one area per    *)
(* channel, and no area lit for the game when no session runs.  For a user *)
(* who does not: a channel is bound to the area the game was showing all   *)
(* the while.                                                              *)
(***************************************************************************)
EXTENDS SerialLink, SerialBinding, SequenceTheorems, TLAPS

-----------------------------------------------------------------------------
(* The link: the count of the ring.                                          *)

Counters ==
  /\ count \in 0..Size /\ held \in 0..Size /\ taken \in Nat /\ unread \in Nat
  /\ pc \in {"idle", "load", "store", "append", "parse"}

(* What the reader has taken was in the count, and, once it has read the
   count, in what it read. *)
TakenCounted ==
  /\ pc = "load" => taken <= count
  /\ pc = "store" => taken <= held /\ held <= count

(* Before the store, the bytes that wait are at least what is left of the
   count that the reader is about to store. *)
NeverAhead ==
  CASE pc = "load" -> count - taken <= unread
    [] pc = "store" -> count - taken <= unread /\ held - taken <= unread
    [] OTHER -> count <= unread

CountInv == Counters /\ TakenCounted /\ NeverAhead

-----------------------------------------------------------------------------
LEMMA InitCount == Init => CountInv
BY SizeAssumption DEF Init, CountInv, Counters, TakenCounted, NeverAhead

LEMMA ReceiveCount == CountInv /\ Receive => CountInv'
<1> SUFFICES ASSUME CountInv, Receive PROVE CountInv'
    OBVIOUS
<1> USE SizeAssumption DEF CountInv, Counters, reader
<1>1. CASE count < Size
  <2>1. count' = count + 1 /\ unread' = unread + 1 /\ UNCHANGED <<pc, taken, held>>
    BY <1>1 DEF Receive
  <2> QED
    BY <1>1, <2>1 DEF TakenCounted, NeverAhead
<1>2. CASE ~ (count < Size)
  <2>1. UNCHANGED <<count, unread, pc, taken, held>>
    BY <1>2 DEF Receive
  <2> QED
    BY <2>1 DEF TakenCounted, NeverAhead
<1> QED
    BY <1>1, <1>2

LEMMA TakeCount == CountInv /\ Take => CountInv'
<1> SUFFICES ASSUME CountInv, Take PROVE CountInv'
    OBVIOUS
<1>1. /\ pc = "idle" /\ pc' = "load" /\ count' = count /\ held' = held
      /\ taken' = IF ReadSize > count THEN count ELSE ReadSize
      /\ unread' = unread - taken'
    BY DEF Take
<1>2. taken' \in Nat /\ taken' <= count /\ count <= unread
    BY <1>1, SizeAssumption DEF CountInv, Counters, NeverAhead
<1> QED
    BY <1>1, <1>2, SizeAssumption DEF CountInv, Counters, TakenCounted, NeverAhead

LEMMA StepCount == CountInv /\ [Next]_vars => CountInv'
<1> SUFFICES ASSUME CountInv, [Next]_vars PROVE CountInv'
    OBVIOUS
<1> USE SizeAssumption DEF CountInv, Counters
<1>1. CASE Receive
    BY <1>1, ReceiveCount
<1>2. CASE Take
    BY <1>2, TakeCount
<1>3. CASE Load
    BY <1>3 DEF Load, rx, history, TakenCounted, NeverAhead
<1>4. CASE Store
    BY <1>4 DEF Store, history, TakenCounted, NeverAhead
<1>5. CASE WindowChunk
    BY <1>5 DEF WindowChunk, rx, TakenCounted, NeverAhead
<1>6. CASE CutCommand \/ CutText \/ Drained
  <2>1. pc = "parse" /\ pc' \in {"parse", "idle"} /\ UNCHANGED <<count, held, taken, unread>>
    BY <1>6 DEF CutCommand, CutText, Drained, Parsing, rx, history
  <2> QED
    BY <2>1 DEF TakenCounted, NeverAhead
<1>7. CASE SendLine \/ SendTouch \/ TxDone \/ UNCHANGED vars
  <2>1. UNCHANGED <<pc, count, held, taken, unread>>
    BY <1>7 DEF SendLine, SendTouch, TxDone, vars, rx, reader, history
  <2> QED
    BY <2>1 DEF TakenCounted, NeverAhead
<1> QED
    BY <1>1, <1>2, <1>3, <1>4, <1>5, <1>6, <1>7 DEF Next, Reader

(* HAL_UART0: whatever the interrupt and read_from_rx_buffer do to the count,
   it stays within the ring and within what has been received. *)
THEOREM Counted == Spec => []CountInv
BY InitCount, StepCount, PTL DEF Spec

(* The reader never takes a byte that has not arrived. *)
THEOREM NotAhead == Spec => []CountNeverAhead
<1>1. CountInv => CountNeverAhead
    BY DEF CountInv, NeverAhead, CountNeverAhead
<1> QED
    BY <1>1, Counted, PTL

-----------------------------------------------------------------------------
(* The bytes on their way, the next to be parsed first: those in the
   window, in the reader's buffer, in the ring and on the line. *)
Waiting == Len(stream) + Len(chunk) + unread + Len(out)

ByteAt(k) ==
  IF k <= Len(stream) THEN stream[k]
  ELSE IF k <= Len(stream) + Len(chunk) THEN chunk[k - Len(stream)]
  ELSE IF k <= Len(stream) + Len(chunk) + unread
    THEN buffer[(readPtr + (k - Len(stream) - Len(chunk)) - 1) % Size]
  ELSE out[k - Len(stream) - Len(chunk) - unread]

Bytes == [k \in 1..Waiting |-> ByteAt(k)]

Pending == Len(sent) - Len(executed)

(* They are the lines sent and not executed: the i-th of these ends at
   byte ends[i]. *)
LineSize(line) == IF line = Help THEN 2 ELSE Length
ByteOf(line, j) ==
  IF line = Help THEN IF j = 1 THEN Slash ELSE LineEnd
  ELSE IF j = 1 THEN Opening ELSE IF j = Length THEN Closing ELSE line

Ends(ends) ==
  /\ ends \in [0..Pending -> 0..Waiting]
  /\ ends[0] = 0 /\ ends[Pending] = Waiting
  /\ \A i, j \in 0..Pending : i <= j => ends[i] <= ends[j]
  /\ \A i \in 1..Pending : ends[i] = ends[i - 1] + LineSize(sent[Len(executed) + i])
  /\ \A i \in 1..Pending : \A j \in 1..LineSize(sent[Len(executed) + i]) :
       Bytes[ends[i - 1] + j] = ByteOf(sent[Len(executed) + i], j)

Executed ==
  /\ Len(executed) <= Len(sent)
  /\ \A i \in 1..Len(executed) : executed[i] = sent[i]

LinesWait == Executed /\ \E ends \in [0..Pending -> 0..Waiting] : Ends(ends)

(* The ring between its pointers holds what has not been taken, and the
   reader's buffer is empty before a read and after a parse. *)
RingInv ==
  /\ unread <= Size
  /\ writePtr = (readPtr + unread) % Size
  /\ pc \in {"idle", "parse"} => chunk = << >>

ByteTypes ==
  /\ out \in Seq(Byte) /\ chunk \in Seq(Byte) /\ stream \in Seq(Byte)
  /\ buffer \in [0..(Size - 1) -> Byte] /\ readPtr \in 0..(Size - 1) /\ writePtr \in 0..(Size - 1)
  /\ sent \in Seq(Commands) /\ executed \in Seq(Controls \cup Queries \cup {Help})

Intact == ByteTypes /\ RingInv /\ LinesWait
LinkInv == CountInv /\ (~ damaged => Intact)

-----------------------------------------------------------------------------
LEMMA Wrap ==
  ASSUME NEW x \in Nat, x < 2 * Size
  PROVE  x % Size = IF x < Size THEN x ELSE x - Size
<1>0. Size \in Nat /\ Size > 0
  BY SizeAssumption
<1>1. /\ x % Size \in 0..(Size - 1) /\ x \div Size \in Int
      /\ x = Size * (x \div Size) + (x % Size)
  BY <1>0
<1> DEFINE d == x \div Size
           r == x % Size
<1> HIDE DEF d, r
<1>2. r \in 0..(Size - 1) /\ d \in Int /\ x = Size * d + r
  BY <1>1 DEF d, r
<1>3. CASE d >= 2
  <2>1. Size * d = Size * 2 + Size * (d - 2) /\ Size * (d - 2) >= 0
    BY <1>0, <1>2, <1>3
  <2> QED
    BY <2>1, <1>0, <1>2
<1>4. CASE d <= -1
  <2>1. Size * d = Size * (d + 1) - Size /\ Size * (d + 1) <= 0
    BY <1>0, <1>2, <1>4
  <2> QED
    BY <2>1, <1>0, <1>2
<1>5. CASE d = 0 \/ d = 1
  BY <1>0, <1>2, <1>5 DEF r
<1> QED
  BY <1>2, <1>3, <1>4, <1>5

LEMMA Marked ==
  /\ {Opening, Closing, LineEnd, Slash} \subseteq Byte
  /\ Opening # Closing /\ Opening # LineEnd /\ Opening # Slash /\ Slash # LineEnd /\ Slash # Closing
  /\ \A c \in Controls \cup Queries : /\ c \in Byte /\ c # Help
                                     /\ c \notin {Opening, Closing, LineEnd, Slash}
BY Zenon DEF Opening, Closing, LineEnd, Slash, Byte, Controls, Queries, Help

LEMMA LineBytes ==
  ASSUME NEW line \in Commands
  PROVE  /\ BytesOf(line) \in Seq(Byte) /\ Len(BytesOf(line)) = LineSize(line)
         /\ LineSize(line) \in Nat /\ LineSize(line) >= 2
         /\ \A j \in 1..LineSize(line) : BytesOf(line)[j] = ByteOf(line, j)
<1>1. CASE line = Help
  BY <1>1, Marked DEF BytesOf, LineSize, ByteOf
<1>2. CASE line # Help
  <2> DEFINE m == [i \in 1..(Length - 2) |-> line]
  <2>0. Length \in Nat /\ Length > 2 /\ line \in Byte /\ Opening \in Byte /\ Closing \in Byte
    BY <1>2, SizeAssumption, CommandsAssumption, Marked
  <2>1. m \in Seq(Byte) /\ Len(m) = Length - 2 /\ \A i \in 1..(Length - 2) : m[i] = line
    <3>1. Length - 2 \in Nat /\ m \in [1..(Length - 2) -> Byte]
      BY <2>0
    <3>2. m \in Seq(Byte)
      BY <3>1, SeqDef
    <3>3. Len(m) = Length - 2
      BY <3>1, <3>2, LenProperties
    <3> QED
      BY <3>2, <3>3
  <2>2. BytesOf(line) = <<Opening>> \o m \o <<Closing>>
    BY <1>2 DEF BytesOf, Frame
  <2> HIDE DEF m
  <2>3. <<Opening>> \in Seq(Byte) /\ <<Closing>> \in Seq(Byte)
    BY <2>0
  <2>4. /\ (<<Opening>> \o m) \in Seq(Byte) /\ Len(<<Opening>> \o m) = Length - 1
        /\ \A j \in 1..(Length - 1) : (<<Opening>> \o m)[j] = IF j = 1 THEN Opening ELSE line
    BY <2>0, <2>1, <2>3
  <2>5. /\ BytesOf(line) \in Seq(Byte) /\ Len(BytesOf(line)) = Length
        /\ \A j \in 1..Length : BytesOf(line)[j] = IF j = Length THEN Closing ELSE (<<Opening>> \o m)[j]
    BY <2>0, <2>2, <2>3, <2>4
  <2>6. LineSize(line) = Length
    BY <1>2 DEF LineSize
  <2>7. \A j \in 1..Length : BytesOf(line)[j] = ByteOf(line, j)
    BY <1>2, <2>0, <2>4, <2>5 DEF ByteOf
  <2> QED
    BY <2>0, <2>5, <2>6, <2>7
<1> QED
  BY <1>1, <1>2

(* What the steps do to the lines that wait: nothing, one more, one less. *)
LEMMA Counts ==
  ASSUME ByteTypes, CountInv
  PROVE  /\ Waiting \in Nat /\ Len(sent) \in Nat /\ Len(executed) \in Nat
         /\ Len(stream) \in Nat /\ Len(chunk) \in Nat /\ Len(out) \in Nat /\ unread \in Nat
         /\ \A i \in 1..Len(sent) : sent[i] \in Commands
BY DEF ByteTypes, CountInv, Counters, Waiting

LEMMA SameLines ==
  ASSUME LinesWait, ByteTypes, CountInv, UNCHANGED <<sent, executed, Waiting>>,
         \A k \in 1..Waiting : Bytes'[k] = Bytes[k]
  PROVE  LinesWait'
<1>0. /\ Waiting \in Nat /\ Len(sent) \in Nat /\ Len(executed) \in Nat
      /\ \A i \in 1..Len(sent) : sent[i] \in Commands
  BY Counts
<1>1. Executed' /\ Pending' = Pending /\ Pending \in Nat
  BY <1>0 DEF LinesWait, Executed, Pending
<1>2. PICK ends \in [0..Pending -> 0..Waiting] : Ends(ends)
  BY DEF LinesWait
<1>3. ASSUME NEW i \in 1..Pending, NEW j \in 1..LineSize(sent[Len(executed) + i])
      PROVE  Bytes'[ends[i - 1] + j] = ByteOf(sent[Len(executed) + i], j)
  <2>1. sent[Len(executed) + i] \in Commands
    BY <1>0, <1>1, <1>3 DEF Pending
  <2>2. ends[i - 1] \in 0..Waiting /\ ends[i] \in 0..Waiting
    BY <1>1, <1>2, <1>3
  <2>3. ends[i] = ends[i - 1] + LineSize(sent[Len(executed) + i])
    BY <1>2, <1>3 DEF Ends
  <2>4. ends[i - 1] + j \in 1..Waiting
    BY <1>0, <1>3, <2>1, <2>2, <2>3, LineBytes, SMTT(20)
  <2>5. Bytes[ends[i - 1] + j] = ByteOf(sent[Len(executed) + i], j)
    BY <1>2, <1>3 DEF Ends
  <2> QED
    BY <2>4, <2>5
<1>4. Ends(ends)'
  BY <1>0, <1>1, <1>2, <1>3 DEF Ends
<1> QED
  BY <1>1, <1>2, <1>4 DEF LinesWait

LEMMA LineSent ==
  ASSUME Executed, ByteTypes, CountInv, NEW line \in Commands, NEW ends, Ends(ends),
         NEW w, w = Waiting, sent' = Append(sent, line), UNCHANGED executed, Waiting' = Waiting + LineSize(line),
         \A k \in 1..Waiting : Bytes'[k] = Bytes[k],
         \A j \in 1..LineSize(line) : Bytes'[w + j] = ByteOf(line, j)
  PROVE  LinesWait'
<1> PICK n : n = Pending
  OBVIOUS
<1> PICK e2 : e2 = [i \in 0..(n + 1) |-> IF i = n + 1 THEN w + LineSize(line) ELSE ends[i]]
  OBVIOUS
<1>0. /\ Waiting \in Nat /\ Len(sent) \in Nat /\ Len(executed) \in Nat /\ n \in Nat
      /\ LineSize(line) \in Nat /\ \A i \in 1..Len(sent) : sent[i] \in Commands
  BY Counts, LineBytes DEF Executed, Pending
<1>1. /\ Len(sent') = Len(sent) + 1 /\ Pending' = n + 1 /\ Waiting' \in Nat
      /\ \A i \in 1..Len(sent) : sent'[i] = sent[i]
      /\ sent'[Len(executed) + n + 1] = line
  BY <1>0 DEF ByteTypes, Pending
<1>2. Executed'
  BY <1>0, <1>1 DEF Executed
<1>3. \A i \in 1..n : sent'[Len(executed) + i] = sent[Len(executed) + i]
  BY <1>0, <1>1 DEF Pending
<1>4. /\ e2 \in [0..(n + 1) -> 0..Waiting'] /\ e2[n + 1] = Waiting'
      /\ \A i \in 0..n : e2[i] = ends[i] /\ ends[i] \in 0..Waiting
  BY <1>0 DEF Ends
<1>5. e2[0] = 0 /\ \A i, j \in 0..(n + 1) : i <= j => e2[i] <= e2[j]
  BY <1>0, <1>4 DEF Ends
<1>6. \A i \in 1..n : ends[i] = ends[i - 1] + LineSize(sent[Len(executed) + i])
  BY DEF Ends
<1>7. ends[n] = Waiting
  BY DEF Ends
<1>8. ASSUME NEW i \in 1..(n + 1)
      PROVE  /\ e2[i] = e2[i - 1] + LineSize(sent'[Len(executed) + i])
             /\ \A j \in 1..LineSize(sent'[Len(executed) + i]) :
                  Bytes'[e2[i - 1] + j] = ByteOf(sent'[Len(executed) + i], j)
  <2>1. CASE i = n + 1
    <3>1. i - 1 = n /\ Len(executed) + i = Len(executed) + n + 1 /\ n \in 0..n
      BY <1>0, <2>1
    <3>2. e2[i - 1] = w /\ e2[i] = w + LineSize(line)
      BY <1>0, <1>1, <1>4, <1>7, <2>1, <3>1
    <3>3. sent'[Len(executed) + i] = line
      BY <1>1, <3>1
    <3> QED
      BY <3>2, <3>3
  <2>2. CASE i # n + 1
    <3>1. i \in 1..n /\ i - 1 \in 0..n /\ e2[i] = ends[i] /\ e2[i - 1] = ends[i - 1]
      BY <1>0, <1>4, <2>2
    <3>2. sent[Len(executed) + i] \in Commands /\ sent'[Len(executed) + i] = sent[Len(executed) + i]
      BY <1>0, <1>3, <3>1 DEF Pending
    <3>3. LineSize(sent[Len(executed) + i]) \in Nat
      BY <3>2, LineBytes
    <3>4. ASSUME NEW j \in 1..LineSize(sent[Len(executed) + i])
          PROVE  Bytes'[ends[i - 1] + j] = ByteOf(sent[Len(executed) + i], j)
      <4>1. ends[i - 1] + j \in 1..Waiting
        <5>1. ends[i - 1] \in 0..Waiting /\ ends[i] \in 0..Waiting
          <6>1. i \in 0..n /\ i - 1 \in 0..n
            BY <1>0, <3>1
          <6>2. \A m \in 0..n : ends[m] \in 0..Waiting
            BY <1>4
          <6> QED
            BY <6>1, <6>2
        <5>2. ends[i] = ends[i - 1] + LineSize(sent[Len(executed) + i])
          BY <1>6, <3>1
        <5> DEFINE a == ends[i - 1]
                   c == ends[i]
                   s == LineSize(sent[Len(executed) + i])
        <5>3. a \in 0..Waiting /\ c \in 0..Waiting /\ c = a + s /\ s \in Nat /\ j \in 1..s /\ Waiting \in Nat
          BY <1>0, <3>3, <3>4, <5>1, <5>2
        <5> HIDE DEF a, c, s
        <5>4. a + j \in 1..Waiting
          BY <5>3
        <5> QED
          BY <5>4 DEF a
      <4>2. Bytes[ends[i - 1] + j] = ByteOf(sent[Len(executed) + i], j)
        BY <3>1 DEF Ends
      <4> QED
        BY <4>1, <4>2
    <3> QED
      BY <1>6, <3>1, <3>2, <3>4
  <2> QED
    BY <2>1, <2>2
<1>9. Ends(e2)'
  <2>1. Len(executed') = Len(executed) /\ Pending' = n + 1
    BY <1>1
  <2>2. \A i \in 1..Pending' : e2[i] = e2[i - 1] + LineSize(sent'[Len(executed') + i])
    BY <1>8, <2>1
  <2>3. \A i \in 1..Pending' : \A j \in 1..LineSize(sent'[Len(executed') + i]) :
          Bytes'[e2[i - 1] + j] = ByteOf(sent'[Len(executed') + i], j)
    <3> SUFFICES ASSUME NEW i \in 1..Pending', NEW j \in 1..LineSize(sent'[Len(executed') + i])
                 PROVE  Bytes'[e2[i - 1] + j] = ByteOf(sent'[Len(executed') + i], j)
      OBVIOUS
    <3>1. i \in 1..(n + 1) /\ Len(executed') + i = Len(executed) + i
      BY <2>1
    <3>2. \A k \in 1..LineSize(sent'[Len(executed) + i]) :
             Bytes'[e2[i - 1] + k] = ByteOf(sent'[Len(executed) + i], k)
      BY <1>8, <3>1
    <3> QED
      BY <3>1, <3>2
  <2>4. /\ e2 \in [0..Pending' -> 0..Waiting'] /\ e2[0] = 0 /\ e2[Pending'] = Waiting'
        /\ \A i, j \in 0..Pending' : i <= j => e2[i] <= e2[j]
    BY <1>4, <1>5, <2>1
  <2> QED
    BY <2>2, <2>3, <2>4 DEF Ends
<1>10. \E f \in [0..Pending' -> 0..Waiting'] : Ends(f)'
  BY <1>1, <1>4, <1>9
<1> QED
  BY <1>2, <1>10 DEF LinesWait

LEMMA LineDone ==
  ASSUME LinesWait, ByteTypes, CountInv, Pending > 0, NEW line,
         line = sent[Len(executed) + 1],
         executed' = Append(executed, line), UNCHANGED sent, Waiting' = Waiting - LineSize(line),
         \A k \in 1..(Waiting - LineSize(line)) : Bytes'[k] = Bytes[k + LineSize(line)]
  PROVE  LinesWait'
<1> PICK n : n = Pending
  OBVIOUS
<1>0. /\ Waiting \in Nat /\ Len(sent) \in Nat /\ Len(executed) \in Nat /\ n \in Nat \ {0}
      /\ \A i \in 1..Len(sent) : sent[i] \in Commands
      /\ line \in Commands /\ LineSize(line) \in Nat
  <2>1. /\ Waiting \in Nat /\ Len(sent) \in Nat /\ Len(executed) \in Nat
        /\ \A i \in 1..Len(sent) : sent[i] \in Commands
    BY Counts
  <2>2. n \in Nat \ {0} /\ Len(executed) + 1 \in 1..Len(sent)
    BY <2>1 DEF LinesWait, Executed, Pending
  <2>3. line \in Commands
    BY <2>1, <2>2
  <2> QED
    BY <2>1, <2>2, <2>3, LineBytes
<1>1. PICK ends \in [0..Pending -> 0..Waiting] : Ends(ends)
  BY DEF LinesWait
<1> PICK e2 : e2 = [i \in 0..(n - 1) |-> ends[i + 1] - LineSize(line)]
  OBVIOUS
<1>2. /\ Len(executed') = Len(executed) + 1 /\ Pending' = n - 1
      /\ \A i \in 1..Len(executed) : executed'[i] = executed[i]
      /\ executed'[Len(executed) + 1] = line
  BY <1>0 DEF ByteTypes, Pending
<1>3. Executed'
  BY <1>0, <1>2 DEF LinesWait, Executed, Pending
<1>4. \A i \in 0..n : ends[i] \in 0..Waiting
  BY <1>0, <1>1
<1>5. ends[1] = LineSize(line) /\ \A i \in 1..n : ends[1] <= ends[i]
  BY <1>0, <1>1 DEF Ends
<1>6. \A i \in 1..n : ends[i] = ends[i - 1] + LineSize(sent[Len(executed) + i])
  BY <1>1 DEF Ends
<1>7. ends[n] = Waiting /\ \A i, j \in 0..n : i <= j => ends[i] <= ends[j]
  BY <1>1 DEF Ends
<1>8. /\ e2 \in [0..(n - 1) -> 0..Waiting'] /\ e2[n - 1] = Waiting' /\ e2[0] = 0
      /\ \A i \in 0..(n - 1) : e2[i] = ends[i + 1] - LineSize(line)
  BY <1>0, <1>4, <1>5, <1>7
<1>9. \A i, j \in 0..(n - 1) : i <= j => e2[i] <= e2[j]
  <2> SUFFICES ASSUME NEW i \in 0..(n - 1), NEW j \in 0..(n - 1), i <= j PROVE e2[i] <= e2[j]
    OBVIOUS
  <2>1. i + 1 \in 0..n /\ j + 1 \in 0..n /\ i + 1 <= j + 1
    BY <1>0
  <2>2. ends[i + 1] <= ends[j + 1]
    BY <1>7, <2>1
  <2>3. /\ e2[i] = ends[i + 1] - LineSize(line) /\ e2[j] = ends[j + 1] - LineSize(line)
        /\ ends[i + 1] \in Int /\ ends[j + 1] \in Int
    BY <2>1, <1>4, <1>8
  <2> QED
    BY <2>2, <2>3, <1>0
<1>10. ASSUME NEW i \in 1..(n - 1)
       PROVE  /\ e2[i] = e2[i - 1] + LineSize(sent[Len(executed) + 1 + i])
              /\ \A j \in 1..LineSize(sent[Len(executed) + 1 + i]) :
                   Bytes'[e2[i - 1] + j] = ByteOf(sent[Len(executed) + 1 + i], j)
  <2>1. /\ i + 1 \in 1..n /\ i \in 1..n /\ (i + 1) - 1 = i /\ i - 1 \in 0..(n - 1) /\ (i - 1) + 1 = i
        /\ Len(executed) + (i + 1) = Len(executed) + 1 + i
    BY <1>0
  <2>2. sent[Len(executed) + 1 + i] \in Commands
    BY <1>0, <2>1 DEF Pending
  <2>3. LineSize(sent[Len(executed) + 1 + i]) \in Nat
    BY <2>2, LineBytes
  <2>4. ends[i + 1] = ends[i] + LineSize(sent[Len(executed) + 1 + i])
    BY <1>6, <2>1
  <2>5. ends[i] \in 0..Waiting /\ ends[i + 1] \in 0..Waiting /\ ends[i] >= LineSize(line)
    BY <1>0, <1>4, <1>5, <2>1
  <2>6. e2[i] = ends[i + 1] - LineSize(line) /\ e2[i - 1] = ends[i] - LineSize(line)
    BY <1>0, <1>8, <2>1
  <2>7. ASSUME NEW j \in 1..LineSize(sent[Len(executed) + 1 + i])
        PROVE  Bytes'[e2[i - 1] + j] = ByteOf(sent[Len(executed) + 1 + i], j)
    <3>1. /\ e2[i - 1] + j \in 1..(Waiting - LineSize(line))
          /\ e2[i - 1] + j + LineSize(line) = ends[i] + j
      <4> DEFINE a == e2[i - 1]
                 b == ends[i]
                 c == ends[i + 1]
                 m == LineSize(line)
                 s == LineSize(sent[Len(executed) + 1 + i])
      <4>1. /\ a = b - m /\ c = b + s /\ b \in 0..Waiting /\ c \in 0..Waiting /\ b >= m
            /\ m \in Nat /\ s \in Nat /\ j \in 1..s /\ Waiting \in Nat
        BY <1>0, <2>3, <2>4, <2>5, <2>6
      <4> HIDE DEF a, b, c, m, s
      <4>2. a + j \in 1..(Waiting - m) /\ a + j + m = b + j
        BY <4>1
      <4> QED
        BY <4>2 DEF a, b, m
    <3>2. Bytes[ends[i] + j] = ByteOf(sent[Len(executed) + 1 + i], j)
      <4>1. \A m \in 1..n : \A k \in 1..LineSize(sent[Len(executed) + m]) :
              Bytes[ends[m - 1] + k] = ByteOf(sent[Len(executed) + m], k)
        BY <1>1 DEF Ends
      <4> QED
        BY <4>1, <2>1
    <3>3. Bytes'[e2[i - 1] + j] = Bytes[e2[i - 1] + j + LineSize(line)]
      BY <3>1
    <3> QED
      BY <3>1, <3>2, <3>3
  <2>8. e2[i] = e2[i - 1] + LineSize(sent[Len(executed) + 1 + i])
    <3> DEFINE b == ends[i]
               c == ends[i + 1]
               m == LineSize(line)
               s == LineSize(sent[Len(executed) + 1 + i])
    <3>1. /\ e2[i] = c - m /\ e2[i - 1] = b - m /\ c = b + s /\ b \in 0..Waiting /\ c \in 0..Waiting
          /\ m \in Nat /\ s \in Nat /\ Waiting \in Nat
      BY <1>0, <2>3, <2>4, <2>5, <2>6
    <3> HIDE DEF b, c, m, s
    <3>2. e2[i] = e2[i - 1] + s
      BY <3>1
    <3> QED
      BY <3>2 DEF s
  <2> QED
    BY <2>7, <2>8
<1>11. Ends(e2)'
  <2>1. Len(executed') = Len(executed) + 1 /\ Pending' = n - 1 /\ sent' = sent
    BY <1>2
  <2>2. \A i \in 1..Pending' : e2[i] = e2[i - 1] + LineSize(sent'[Len(executed') + i])
    BY <1>10, <2>1
  <2>3. \A i \in 1..Pending' : \A j \in 1..LineSize(sent'[Len(executed') + i]) :
          Bytes'[e2[i - 1] + j] = ByteOf(sent'[Len(executed') + i], j)
    <3> SUFFICES ASSUME NEW i \in 1..Pending', NEW j \in 1..LineSize(sent'[Len(executed') + i])
                 PROVE  Bytes'[e2[i - 1] + j] = ByteOf(sent'[Len(executed') + i], j)
      OBVIOUS
    <3>1. i \in 1..(n - 1) /\ sent'[Len(executed') + i] = sent[Len(executed) + 1 + i]
      BY <2>1
    <3>2. \A k \in 1..LineSize(sent[Len(executed) + 1 + i]) :
             Bytes'[e2[i - 1] + k] = ByteOf(sent[Len(executed) + 1 + i], k)
      BY <1>10, <3>1
    <3> QED
      BY <3>1, <3>2
  <2>4. /\ e2 \in [0..Pending' -> 0..Waiting'] /\ e2[0] = 0 /\ e2[Pending'] = Waiting'
        /\ \A i, j \in 0..Pending' : i <= j => e2[i] <= e2[j]
    BY <1>8, <1>9, <2>1
  <2> QED
    BY <2>2, <2>3, <2>4 DEF Ends
<1>12. \E f \in [0..Pending' -> 0..Waiting'] : Ends(f)'
  BY <1>2, <1>8, <1>11
<1> QED
  BY <1>3, <1>12 DEF LinesWait

(* The front of the window is the first line that waits. *)
LEMMA FirstLine ==
  ASSUME LinesWait, ByteTypes, CountInv, stream # << >>
  PROVE  /\ Pending > 0 /\ sent[Len(executed) + 1] \in Commands
         /\ Waiting >= LineSize(sent[Len(executed) + 1])
         /\ \A j \in 1..LineSize(sent[Len(executed) + 1]) :
              j <= Len(stream) => stream[j] = ByteOf(sent[Len(executed) + 1], j)
<1>0. /\ Waiting \in Nat /\ Len(sent) \in Nat /\ Len(executed) \in Nat /\ Pending \in Nat
      /\ \A i \in 1..Len(sent) : sent[i] \in Commands
  <2>1. /\ Waiting \in Nat /\ Len(sent) \in Nat /\ Len(executed) \in Nat
        /\ \A i \in 1..Len(sent) : sent[i] \in Commands
    BY Counts
  <2> QED
    BY <2>1 DEF LinesWait, Executed, Pending
<1>1. /\ Len(stream) \in Nat /\ Len(stream) > 0 /\ Len(stream) <= Waiting
  <2>1. Len(stream) \in Nat /\ Len(stream) > 0
    BY DEF ByteTypes
  <2> QED
    BY <2>1, Counts DEF Waiting
<1>2. PICK ends \in [0..Pending -> 0..Waiting] : Ends(ends)
  BY DEF LinesWait
<1>3. Pending > 0
  BY <1>0, <1>1, <1>2 DEF Ends
<1>4. sent[Len(executed) + 1] \in Commands
  BY <1>0, <1>3 DEF Pending
<1>5. ends[0] = 0 /\ ends[1] \in 0..Waiting /\ ends[1] = ends[0] + LineSize(sent[Len(executed) + 1])
  <2>1. \A i \in 1..Pending : ends[i] = ends[i - 1] + LineSize(sent[Len(executed) + i])
    BY <1>2 DEF Ends
  <2>2. 1 \in 1..Pending /\ 1 \in 0..Pending /\ ends[0] = 0
    BY <1>0, <1>2, <1>3 DEF Ends
  <2> QED
    BY <1>2, <2>1, <2>2
<1>6. LineSize(sent[Len(executed) + 1]) \in 0..Waiting
  BY <1>0, <1>4, <1>5, LineBytes
<1>7. ASSUME NEW j \in 1..LineSize(sent[Len(executed) + 1]), j <= Len(stream)
      PROVE  stream[j] = ByteOf(sent[Len(executed) + 1], j)
  <2>1. j \in 1..Waiting
    BY <1>0, <1>6, <1>7
  <2>2. Bytes[j] = stream[j]
    BY <2>1, <1>7 DEF Bytes, ByteAt
  <2>3. \A i \in 1..Pending : \A k \in 1..LineSize(sent[Len(executed) + i]) :
          Bytes[ends[i - 1] + k] = ByteOf(sent[Len(executed) + i], k)
    BY <1>2 DEF Ends
  <2>4. Bytes[0 + j] = ByteOf(sent[Len(executed) + 1], j)
    BY <1>0, <1>3, <1>5, <1>7, <2>3
  <2> QED
    BY <2>1, <2>2, <2>4
<1> QED
  BY <1>0, <1>3, <1>4, <1>6, <1>7

-----------------------------------------------------------------------------
LEMMA InitLink == Init => LinkInv
<1> SUFFICES ASSUME Init PROVE LinkInv
  OBVIOUS
<1>1. ByteTypes
  BY SizeAssumption, Marked DEF Init, ByteTypes
<1>2. RingInv
  BY SizeAssumption, Wrap DEF Init, RingInv
<1>3. Waiting = 0 /\ Pending = 0 /\ Executed
  BY DEF Init, Waiting, Pending, Executed
<1>4. LinesWait
  <2>1. [i \in 0..0 |-> 0] \in [0..Pending -> 0..Waiting] /\ Ends([i \in 0..0 |-> 0])
    BY <1>3 DEF Ends
  <2> QED
    BY <1>3, <2>1 DEF LinesWait
<1> QED
  BY <1>1, <1>2, <1>4, InitCount DEF LinkInv, Intact

LEMMA Sizes ==
  ASSUME ByteTypes, CountInv
  PROVE  /\ Size \in Nat /\ Size > 0 /\ ReadSize \in Nat /\ ReadSize > 0 /\ StreamSize \in Nat
         /\ Length \in Nat /\ Length > 2 /\ count \in Nat /\ unread \in Nat
         /\ Len(stream) \in Nat /\ Len(chunk) \in Nat /\ Len(out) \in Nat
         /\ readPtr \in 0..(Size - 1) /\ writePtr \in 0..(Size - 1)
BY SizeAssumption, Counts DEF CountInv, Counters, ByteTypes

LEMMA SendLineLink ==
  ASSUME Intact, CountInv, SendLine PROVE Intact'
<1> USE DEF rx, reader, history
<1>1. PICK line \in Commands : out' = BytesOf(line) /\ sent' = Append(sent, line)
  BY DEF SendLine
<1>2. /\ out' \in Seq(Byte) /\ Len(out') = LineSize(line) /\ LineSize(line) \in Nat
      /\ \A j \in 1..LineSize(line) : out'[j] = ByteOf(line, j)
  BY <1>1, LineBytes
<1>3. /\ out = << >> /\ Len(out) = 0
      /\ UNCHANGED <<stream, chunk, buffer, unread, readPtr, writePtr, pc, executed>>
  BY DEF SendLine
<1>4. ByteTypes' /\ RingInv'
  BY <1>1, <1>2, <1>3 DEF Intact, ByteTypes, RingInv
<1>5. PICK w : w = Waiting
  OBVIOUS
<1>6. Waiting' = w + LineSize(line) /\ w \in Nat /\ w = Len(stream) + Len(chunk) + unread
  BY <1>2, <1>3, <1>5, Sizes DEF Intact, Waiting
<1>7. \A k \in 1..w : Bytes'[k] = Bytes[k]
  BY <1>2, <1>3, <1>5, <1>6, Sizes, SMTT(20) DEF Intact, Bytes, ByteAt
<1>8. ASSUME NEW j \in 1..LineSize(line) PROVE Bytes'[w + j] = ByteOf(line, j)
  <2>1. /\ Len(stream) \in Nat /\ Len(chunk) \in Nat /\ unread \in Nat
    BY Sizes DEF Intact
  <2> DEFINE k == w + j
  <2>2. /\ k \in 1..Waiting' /\ k > Len(stream) /\ k > Len(stream) + Len(chunk)
        /\ k > Len(stream) + Len(chunk) + unread
        /\ k - Len(stream) - Len(chunk) - unread = j
    BY <1>2, <1>6, <1>8, <2>1
  <2> HIDE DEF k
  <2>3. Bytes'[k] = out'[k - Len(stream) - Len(chunk) - unread]
    BY <1>3, <2>1, <2>2 DEF Bytes, ByteAt
  <2>4. Bytes'[k] = ByteOf(line, j)
    BY <1>2, <1>8, <2>2, <2>3
  <2> QED
    BY <2>4 DEF k
<1>9. LinesWait'
  <2>1. PICK ends \in [0..Pending -> 0..Waiting] : Ends(ends)
    BY DEF Intact, LinesWait
  <2> QED
    BY <2>1, <1>1, <1>3, <1>5, <1>6, <1>7, <1>8, LineSent DEF Intact, LinesWait
<1> QED
  BY <1>4, <1>9 DEF Intact

LEMMA ReceiveLink ==
  ASSUME Intact, CountInv, Receive, ~ damaged' PROVE Intact'
<1> USE DEF reader
<1>s. /\ Size \in Nat /\ Size > 0 /\ count \in Nat /\ unread \in Nat
      /\ Len(stream) \in Nat /\ Len(chunk) \in Nat /\ Len(out) \in Nat
      /\ readPtr \in 0..(Size - 1) /\ writePtr \in 0..(Size - 1)
  BY Sizes DEF Intact
<1>0. /\ count < Size /\ unread < Size /\ out # << >> /\ out' = Tail(out)
      /\ buffer' = [buffer EXCEPT ![writePtr] = Head(out)]
      /\ writePtr' = (writePtr + 1) % Size /\ unread' = unread + 1
      /\ UNCHANGED <<readPtr, chunk, stream, pc, sent, executed>>
  <2>1. CASE count < Size
    <3>1. ~ (unread >= Size)
      BY <2>1 DEF Receive
    <3> QED
      BY <2>1, <3>1, <1>s DEF Receive
  <2>2. CASE ~ (count < Size)
    BY <2>2 DEF Receive
  <2> QED
    BY <2>1, <2>2
<1>1. /\ Head(out) \in Byte /\ Head(out) = out[1] /\ out' \in Seq(Byte) /\ Len(out') = Len(out) - 1
      /\ \A i \in 1..(Len(out) - 1) : out'[i] = out[i + 1]
  BY <1>0, HeadTailProperties DEF Intact, ByteTypes
<1>2. ByteTypes'
  <2>1. (writePtr + 1) % Size \in 0..(Size - 1)
    BY <1>s
  <2>2. buffer' \in [0..(Size - 1) -> Byte]
    BY <1>0, <1>1 DEF Intact, ByteTypes
  <2> QED
    BY <1>0, <1>1, <2>1, <2>2 DEF Intact, ByteTypes
<1>3. RingInv'
  <2>1. writePtr = IF readPtr + unread < Size THEN readPtr + unread ELSE readPtr + unread - Size
    <3> DEFINE x == readPtr + unread
    <3>1. x \in Nat /\ x < 2 * Size
      BY <1>0, <1>s
    <3> HIDE DEF x
    <3>2. x % Size = IF x < Size THEN x ELSE x - Size
      BY <3>1, Wrap
    <3> QED
      BY <1>s, <3>2 DEF x, Intact, RingInv
  <2>2. writePtr' = IF writePtr + 1 < Size THEN writePtr + 1 ELSE writePtr + 1 - Size
    <3> DEFINE x == writePtr + 1
    <3>1. x \in Nat /\ x < 2 * Size
      BY <1>0, <1>s
    <3> HIDE DEF x
    <3>2. x % Size = IF x < Size THEN x ELSE x - Size
      BY <3>1, Wrap
    <3> QED
      BY <1>0, <1>s, <3>2 DEF x
  <2>3. (readPtr + (unread + 1)) % Size
          = IF readPtr + (unread + 1) < Size THEN readPtr + (unread + 1) ELSE readPtr + (unread + 1) - Size
    <3> DEFINE x == readPtr + (unread + 1)
    <3>1. x \in Nat /\ x < 2 * Size
      BY <1>0, <1>s
    <3> HIDE DEF x
    <3>2. x % Size = IF x < Size THEN x ELSE x - Size
      BY <3>1, Wrap
    <3> QED
      BY <1>s, <3>2 DEF x
  <2>4. writePtr' = (readPtr' + unread') % Size
    BY <1>0, <1>s, <2>1, <2>2, <2>3
  <2> QED
    BY <1>0, <1>s, <2>4 DEF Intact, RingInv
<1>4. Waiting' = Waiting
  BY <1>0, <1>1, <1>s DEF Waiting
<1>5. \A i \in 1..unread : buffer'[(readPtr + i - 1) % Size] = buffer[(readPtr + i - 1) % Size]
  <2> SUFFICES ASSUME NEW i \in 1..unread
               PROVE  buffer'[(readPtr + i - 1) % Size] = buffer[(readPtr + i - 1) % Size]
    OBVIOUS
  <2>1. writePtr = IF readPtr + unread < Size THEN readPtr + unread ELSE readPtr + unread - Size
    <3> DEFINE x == readPtr + unread
    <3>1. x \in Nat /\ x < 2 * Size
      BY <1>0, <1>s
    <3> HIDE DEF x
    <3>2. x % Size = IF x < Size THEN x ELSE x - Size
      BY <3>1, Wrap
    <3> QED
      BY <1>s, <3>2 DEF x, Intact, RingInv
  <2>2. (readPtr + i - 1) % Size
          = IF readPtr + i - 1 < Size THEN readPtr + i - 1 ELSE readPtr + i - 1 - Size
    <3> DEFINE x == readPtr + i - 1
    <3>1. x \in Nat /\ x < 2 * Size
      BY <1>0, <1>s
    <3> HIDE DEF x
    <3>2. x % Size = IF x < Size THEN x ELSE x - Size
      BY <3>1, Wrap
    <3> QED
      BY <1>s, <3>2 DEF x
  <2>3. (readPtr + i - 1) % Size \in 0..(Size - 1) /\ (readPtr + i - 1) % Size # writePtr
    BY <1>0, <1>s, <2>1, <2>2
  <2> QED
    BY <1>0, <2>3 DEF Intact, ByteTypes
<1>6. buffer'[(readPtr + (unread + 1) - 1) % Size] = out[1]
  <2>1. (readPtr + (unread + 1) - 1) % Size = writePtr
    BY <1>0, <1>s DEF Intact, RingInv
  <2> QED
    BY <1>0, <1>1, <2>1 DEF Intact, ByteTypes
<1>7. \A k \in 1..Waiting : Bytes'[k] = Bytes[k]
  <2> SUFFICES ASSUME NEW k \in 1..Waiting PROVE ByteAt(k)' = ByteAt(k)
    BY <1>4 DEF Bytes
  <2> DEFINE p == Len(stream) + Len(chunk)
  <2>0. k \in Nat /\ k >= 1 /\ k <= p + unread + Len(out) /\ p \in Nat
    BY <1>s DEF Waiting
  <2>1. CASE k <= p
    BY <1>0, <1>s, <2>0, <2>1 DEF ByteAt
  <2>2. CASE p < k /\ k <= p + unread
    <3>1. /\ ByteAt(k) = buffer[(readPtr + (k - Len(stream) - Len(chunk)) - 1) % Size]
          /\ ByteAt(k)' = buffer'[(readPtr + (k - Len(stream) - Len(chunk)) - 1) % Size]
      BY <1>0, <1>s, <2>0, <2>2 DEF ByteAt
    <3>2. k - Len(stream) - Len(chunk) \in 1..unread
      BY <1>s, <2>0, <2>2
    <3> QED
      BY <1>5, <3>1, <3>2
  <2>3. CASE k = p + (unread + 1)
    <3>1. /\ ByteAt(k) = out[1]
          /\ ByteAt(k)' = buffer'[(readPtr + (unread + 1) - 1) % Size]
      BY <1>0, <1>s, <2>0, <2>3, SMTT(20) DEF ByteAt
    <3> QED
      BY <1>6, <3>1
  <2>4. CASE k > p + unread + 1
    <3>1. ByteAt(k) = out[k - Len(stream) - Len(chunk) - unread]
      BY <1>0, <1>s, <2>0, <2>4 DEF ByteAt
    <3>2. ByteAt(k)' = out'[k - Len(stream) - Len(chunk) - (unread + 1)]
      BY <1>0, <1>s, <2>0, <2>4 DEF ByteAt
    <3> QED
      BY <1>1, <1>s, <2>0, <2>4, <3>1, <3>2
  <2> QED
    BY <1>s, <2>0, <2>1, <2>2, <2>3, <2>4
<1>8. LinesWait'
  BY <1>0, <1>4, <1>7, SameLines DEF Intact
<1> QED
  BY <1>2, <1>3, <1>8 DEF Intact

LEMMA TakeLink ==
  ASSUME Intact, CountInv, Take PROVE Intact'
<1>s. /\ Size \in Nat /\ Size > 0 /\ ReadSize \in Nat /\ count \in Nat /\ unread \in Nat
      /\ Len(stream) \in Nat /\ Len(out) \in Nat
      /\ readPtr \in 0..(Size - 1) /\ writePtr \in 0..(Size - 1)
      /\ unread <= Size
  BY Sizes DEF Intact, RingInv
<1>m. PICK m : m = taken'
  OBVIOUS
<1>r. PICK r : r = readPtr'
  OBVIOUS
<1>0. /\ m \in Nat /\ m <= count /\ count <= unread /\ unread' = unread - m
      /\ chunk' = [i \in 1..m |-> buffer[(readPtr + i - 1) % Size]]
      /\ readPtr' = r /\ r = (readPtr + m) % Size
      /\ pc = "idle" /\ pc' = "load" /\ chunk = << >> /\ Len(chunk) = 0
      /\ UNCHANGED <<out, buffer, writePtr, stream, sent, executed>>
  BY <1>s, <1>m, <1>r DEF Take, CountInv, Counters, NeverAhead, Intact, RingInv
<1>1. chunk' \in Seq(Byte) /\ Len(chunk') = m
  <2>1. \A i \in 1..m : (readPtr + i - 1) % Size \in 0..(Size - 1)
    BY <1>s, <1>0
  <2>2. chunk' \in [1..m -> Byte]
    BY <1>0, <2>1 DEF Intact, ByteTypes
  <2> QED
    BY <1>0, <2>2, SeqDef, LenProperties
<1>2. ByteTypes'
  <2>1. r \in 0..(Size - 1)
    BY <1>0, <1>s
  <2> QED
    BY <1>0, <1>1, <2>1 DEF Intact, ByteTypes
<1>3. ASSUME NEW i \in 0..(unread - m)
      PROVE  (r + i) % Size = (readPtr + (m + i)) % Size
  <2>1. r = IF readPtr + m < Size THEN readPtr + m ELSE readPtr + m - Size
    <3> DEFINE x == readPtr + m
    <3>1. x \in Nat /\ x < 2 * Size
      BY <1>0, <1>s
    <3> HIDE DEF x
    <3>2. x % Size = IF x < Size THEN x ELSE x - Size
      BY <3>1, Wrap
    <3> QED
      BY <1>0, <1>s, <3>2 DEF x
  <2>2. r + i \in Nat /\ r + i < 2 * Size
    BY <1>0, <1>s, <2>1, <1>3
  <2>3. (r + i) % Size = IF r + i < Size THEN r + i ELSE r + i - Size
    <3> DEFINE x == r + i
    <3> HIDE DEF x
    <3>2. x % Size = IF x < Size THEN x ELSE x - Size
      BY <2>2, Wrap DEF x
    <3> QED
      BY <1>0, <1>s, <1>3, <2>2, <3>2 DEF x
  <2>4. (readPtr + (m + i)) % Size = IF readPtr + (m + i) < Size THEN readPtr + (m + i)
                                           ELSE readPtr + (m + i) - Size
    <3> DEFINE x == readPtr + (m + i)
    <3>1. x \in Nat /\ x < 2 * Size
      BY <1>0, <1>s, <1>3
    <3> HIDE DEF x
    <3>2. x % Size = IF x < Size THEN x ELSE x - Size
      BY <3>1, Wrap
    <3> QED
      BY <1>0, <1>s, <3>2 DEF x
  <2> QED
    BY <1>0, <1>s, <1>3, <2>1, <2>3, <2>4
<1>4. RingInv'
  <2>1. unread - m \in 0..(unread - m) /\ m + (unread - m) = unread
    BY <1>0, <1>s
  <2>2. (r + unread') % Size = (readPtr + unread) % Size
    BY <1>0, <1>3, <2>1
  <2> QED
    BY <1>0, <1>s, <2>2 DEF Intact, RingInv
<1>5. Waiting' = Waiting
  BY <1>0, <1>1, <1>s DEF Waiting
<1>6. ASSUME NEW k \in 1..Waiting PROVE Bytes'[k] = Bytes[k]
  <2> SUFFICES ByteAt(k)' = ByteAt(k)
    BY <1>5 DEF Bytes
  <2>p. PICK p : p = Len(stream)
    OBVIOUS
  <2>0. k \in Nat /\ k >= 1 /\ k <= p + unread + Len(out) /\ p \in Nat
    BY <1>s, <1>0, <1>6, <2>p DEF Waiting
  <2>1. CASE k <= p
    BY <1>0, <1>s, <2>p, <2>0, <2>1 DEF ByteAt
  <2>2. CASE p < k /\ k <= p + unread
    <3>1. ByteAt(k) = buffer[(readPtr + (k - p) - 1) % Size]
      BY <1>0, <1>s, <2>p, <2>0, <2>2 DEF ByteAt
    <3>2. CASE k - p <= m
      <4>1. ByteAt(k)' = chunk'[k - p]
        BY <1>0, <1>1, <1>s, <2>p, <2>0, <2>2, <3>2 DEF ByteAt
      <4>2. k - p \in 1..m
        BY <1>0, <2>p, <2>0, <2>2, <3>2
      <4> QED
        BY <1>0, <3>1, <4>1, <4>2
    <3>3. CASE k - p > m
      <4> DEFINE i == k - p - m - 1
      <4>1. ByteAt(k)' = buffer[(r + (k - p - m) - 1) % Size]
        BY <1>0, <1>1, <1>s, <2>p, <2>0, <2>2, <3>3 DEF ByteAt
      <4>2. /\ i \in 0..(unread - m) /\ r \in Int
            /\ r + (k - p - m) - 1 = r + i
            /\ readPtr + (k - p) - 1 = readPtr + (m + i)
        BY <1>0, <1>2, <1>s, <2>p, <2>0, <2>2, <3>3 DEF ByteTypes
      <4>3. (r + i) % Size = (readPtr + (m + i)) % Size
        BY <4>2, <1>3
      <4> QED
        BY <3>1, <4>1, <4>2, <4>3
    <3> QED
      BY <1>0, <2>0, <3>2, <3>3
  <2>3. CASE k > p + unread
    <3>1. ByteAt(k) = out[k - p - unread]
      BY <1>0, <1>s, <2>p, <2>0, <2>3 DEF ByteAt
    <3>2. ByteAt(k)' = out[k - p - m - (unread - m)]
      BY <1>0, <1>1, <1>s, <2>p, <2>0, <2>3 DEF ByteAt
    <3> QED
      BY <1>0, <1>s, <2>0, <3>1, <3>2
  <2> QED
    BY <1>s, <2>0, <2>1, <2>2, <2>3
<1>7. LinesWait'
  BY <1>0, <1>5, <1>6, SameLines DEF Intact
<1> QED
  BY <1>2, <1>4, <1>7 DEF Intact

LEMMA WindowLink ==
  ASSUME Intact, CountInv, WindowChunk, ~ damaged' PROVE Intact'
<1> USE DEF rx
<1>s. Len(stream) \in Nat /\ Len(chunk) \in Nat /\ Len(out) \in Nat /\ unread \in Nat
      /\ StreamSize \in Nat
  BY Sizes DEF Intact
<1>1. stream \o chunk \in Seq(Byte) /\ Len(stream \o chunk) = Len(stream) + Len(chunk)
      /\ \A k \in 1..(Len(stream) + Len(chunk)) :
           (stream \o chunk)[k] = IF k <= Len(stream) THEN stream[k] ELSE chunk[k - Len(stream)]
  BY ConcatProperties DEF Intact, ByteTypes
<1>2. ~ (Len(stream \o chunk) > StreamSize)
  BY DEF WindowChunk
<1>3. /\ stream' = stream \o chunk /\ chunk' = << >> /\ Len(chunk') = 0 /\ pc' = "parse"
      /\ UNCHANGED <<out, buffer, readPtr, writePtr, unread, sent, executed>>
  BY <1>2 DEF WindowChunk, Newest
<1>4. ByteTypes' /\ RingInv'
  BY <1>1, <1>3 DEF Intact, ByteTypes, RingInv
<1>5. Waiting' = Waiting /\ Len(stream') = Len(stream) + Len(chunk)
  BY <1>1, <1>3, <1>s DEF Waiting
<1>6. ASSUME NEW k \in 1..Waiting PROVE Bytes'[k] = Bytes[k]
  <2>0. k \in Nat /\ k >= 1
    BY <1>s, <1>6 DEF Waiting
  <2>1. ByteAt(k)' = ByteAt(k)
    <3>1. CASE k <= Len(stream) + Len(chunk)
      BY <1>1, <1>3, <1>5, <1>s, <2>0, <3>1 DEF ByteAt
    <3>2. CASE k > Len(stream) + Len(chunk)
      BY <1>3, <1>5, <1>s, <2>0, <3>2 DEF ByteAt
    <3> QED
      BY <1>s, <2>0, <3>1, <3>2
  <2> QED
    BY <2>1, <1>5 DEF Bytes
<1>7. LinesWait'
  BY <1>3, <1>5, <1>6, SameLines DEF Intact
<1> QED
  BY <1>4, <1>7 DEF Intact

LEMMA AfterBytes ==
  ASSUME stream \in Seq(Byte), NEW n \in 0..Len(stream)
  PROVE  /\ After(n) \in Seq(Byte) /\ Len(After(n)) = Len(stream) - n
         /\ \A k \in 1..(Len(stream) - n) : After(n)[k] = stream[k + n]
BY DEF After

LEMMA CommandLink ==
  ASSUME Intact, CountInv, CutCommand PROVE Intact'
<1> USE DEF rx, history
<1>s. Len(stream) \in Nat /\ Len(chunk) \in Nat /\ Len(out) \in Nat /\ unread \in Nat
      /\ Length \in Nat /\ Length > 2 /\ stream \in Seq(Byte)
  BY Sizes DEF Intact, ByteTypes
<1>0. /\ stream # << >> /\ Head(stream) = Opening /\ pc = "parse" /\ pc' \in {"parse", "idle"}
      /\ UNCHANGED <<out, buffer, readPtr, writePtr, unread, chunk, sent>>
  BY DEF CutCommand, Parsing
<1>c. chunk = << >> /\ RingInv'
  BY <1>0 DEF Intact, RingInv
<1>1. CASE ~ Whole
  <2>1. UNCHANGED <<stream, executed>>
    BY <1>1 DEF CutCommand, Silent
  <2>2. Waiting' = Waiting /\ Bytes' = Bytes
    BY <1>0, <2>1 DEF Waiting, Bytes, ByteAt
  <2>3. LinesWait'
    BY <1>0, <2>1, <2>2, SameLines DEF Intact
  <2> QED
    BY <1>0, <1>c, <2>1, <2>3 DEF Intact, ByteTypes
<1>2. CASE Whole
  <2> PICK line : line = sent[Len(executed) + 1]
    OBVIOUS
  <2>1. /\ Pending > 0 /\ line \in Commands /\ Waiting >= LineSize(line)
        /\ \A j \in 1..LineSize(line) : j <= Len(stream) => stream[j] = ByteOf(line, j)
    BY <1>0, FirstLine DEF Intact
  <2>2. stream[1] = Opening /\ Len(stream) >= Length
    BY <1>0, <1>2, <1>s DEF Whole
  <2>3. line # Help /\ LineSize(line) = Length
    <3>1. LineSize(line) >= 2 /\ LineSize(line) \in Nat
      BY <2>1, LineBytes
    <3>2. ByteOf(line, 1) = Opening
      BY <1>s, <2>1, <2>2, <3>1
    <3> QED
      BY <3>2, Marked DEF ByteOf, LineSize
  <2>4. \A j \in 1..Length : stream[j] = ByteOf(line, j)
    BY <1>s, <2>1, <2>2, <2>3
  <2>5. line \in Controls \cup Queries
    BY <2>1, <2>3, CommandsAssumption
  <2>6. executed' = Append(executed, line)
    <3> DEFINE packet == SubSeq(stream, 1, Length)
    <3>1. \A j \in 1..Length : packet[j] = stream[j]
      BY <1>s, <2>2
    <3>2. packet[Length] = Closing /\ packet[Length - 1] = line
      BY <1>s, <2>3, <2>4, <3>1 DEF ByteOf
    <3>3. Execute(packet)
      BY <1>2 DEF CutCommand
    <3> HIDE DEF packet
    <3> QED
      BY <2>5, <3>2, <3>3 DEF Execute, WellFormed
  <2>7. /\ stream' \in Seq(Byte) /\ Len(stream') = Len(stream) - Length
        /\ \A k \in 1..(Len(stream) - Length) : stream'[k] = stream[k + Length]
    <3>1. stream' = After(Length)
      BY <1>2 DEF CutCommand
    <3>2. Length \in 0..Len(stream)
      BY <1>s, <2>2
    <3> QED
      BY <1>s, <3>1, <3>2, AfterBytes
  <2>8. ByteTypes'
    BY <1>0, <2>5, <2>6, <2>7 DEF Intact, ByteTypes
  <2>9. Waiting' = Waiting - LineSize(line)
    BY <1>0, <1>s, <2>3, <2>7 DEF Waiting
  <2>10. ASSUME NEW k \in 1..(Waiting - LineSize(line)) PROVE Bytes'[k] = Bytes[k + LineSize(line)]
    <3>1. k \in 1..(Waiting - Length) /\ k + Length \in 1..Waiting /\ k \in 1..Waiting' /\ k \in Nat
      BY <1>s, <2>3, <2>9, <2>10 DEF Waiting
    <3>2. ByteAt(k)' = ByteAt(k + Length)
      BY <1>0, <1>s, <2>2, <2>7, <3>1 DEF ByteAt, Waiting
    <3> QED
      BY <2>3, <3>1, <3>2 DEF Bytes
  <2>11. LinesWait'
    BY <1>0, <2>1, <2>6, <2>9, <2>10, LineDone DEF Intact
  <2> QED
    BY <1>c, <2>8, <2>11 DEF Intact
<1> QED
  BY <1>1, <1>2

LEMMA TextLink ==
  ASSUME Intact, CountInv, CutText PROVE Intact'
<1> USE DEF rx, history
<1>s. Len(stream) \in Nat /\ Len(chunk) \in Nat /\ Len(out) \in Nat /\ unread \in Nat
      /\ Length \in Nat /\ Length > 2 /\ stream \in Seq(Byte)
  BY Sizes DEF Intact, ByteTypes
<1>0. /\ stream # << >> /\ Head(stream) # Opening /\ pc = "parse" /\ pc' \in {"parse", "idle"}
      /\ UNCHANGED <<out, buffer, readPtr, writePtr, unread, chunk, sent>>
  BY DEF CutText, Parsing
<1>c. chunk = << >> /\ RingInv'
  BY <1>0 DEF Intact, RingInv
<1>1. CASE Marks = {}
  <2>1. UNCHANGED <<stream, executed>>
    BY <1>1 DEF CutText, Silent
  <2>2. Waiting' = Waiting /\ Bytes' = Bytes
    BY <1>0, <2>1 DEF Waiting, Bytes, ByteAt
  <2>3. LinesWait'
    BY <1>0, <2>1, <2>2, SameLines DEF Intact
  <2> QED
    BY <1>0, <1>c, <2>1, <2>3 DEF Intact, ByteTypes
<1>2. CASE Marks # {}
  <2> PICK line : line = sent[Len(executed) + 1]
    OBVIOUS
  <2>1. /\ Pending > 0 /\ line \in Commands /\ Waiting >= LineSize(line)
        /\ \A j \in 1..LineSize(line) : j <= Len(stream) => stream[j] = ByteOf(line, j)
    BY <1>0, FirstLine DEF Intact
  <2>2. stream[1] # Opening /\ Len(stream) >= 1
    BY <1>0, <1>s
  <2>3. line = Help /\ LineSize(line) = 2
    <3>1. LineSize(line) >= 2 /\ LineSize(line) \in Nat
      BY <2>1, LineBytes
    <3>2. ByteOf(line, 1) # Opening
      BY <1>s, <2>1, <2>2, <3>1
    <3> QED
      BY <3>2 DEF ByteOf, LineSize
  <2>4. stream[1] = Slash /\ (Len(stream) >= 2 => stream[2] = LineEnd)
    BY <1>s, <2>1, <2>2, <2>3 DEF ByteOf
  <2>5. Len(stream) >= 2 /\ Marks \subseteq 2..Len(stream) /\ 2 \in Marks
    <3>1. 1 \notin Marks
      BY <2>4, Marked DEF Marks
    <3> QED
      BY <1>2, <1>s, <2>4, <3>1 DEF Marks
  <2>6. (CHOOSE i \in Marks : \A j \in Marks : i <= j) = 2
    <3>1. \A i \in Marks : (\A j \in Marks : i <= j) <=> i = 2
      BY <1>s, <2>5
    <3> QED
      BY <2>5, <3>1
  <2>7. stream' = After(2) /\ executed' = Append(executed, line)
    <3> DEFINE m == CHOOSE i \in Marks : \A j \in Marks : i <= j
    <3>1. m = 2
      BY <2>6
    <3>2. IF stream[m] = Opening
            THEN stream' = After(m - 1) /\ pc' = "idle" /\ Silent
            ELSE /\ stream' = After(m)
                 /\ executed' = IF stream[1] = Slash THEN Append(executed, Help) ELSE executed
      BY <1>2 DEF CutText
    <3> HIDE DEF m
    <3> QED
      BY <2>3, <2>4, <2>5, <3>1, <3>2, Marked
  <2>8. /\ stream' \in Seq(Byte) /\ Len(stream') = Len(stream) - 2
        /\ \A k \in 1..(Len(stream) - 2) : stream'[k] = stream[k + 2]
    <3>1. stream' = After(2)
      BY <2>7
    <3>2. 2 \in 0..Len(stream)
      BY <1>s, <2>5
    <3> QED
      BY <1>s, <3>1, <3>2, AfterBytes
  <2>9. ByteTypes'
    BY <1>0, <2>3, <2>7, <2>8 DEF Intact, ByteTypes
  <2>10. Waiting' = Waiting - LineSize(line)
    BY <1>0, <1>s, <2>3, <2>8 DEF Waiting
  <2>11. ASSUME NEW k \in 1..(Waiting - LineSize(line)) PROVE Bytes'[k] = Bytes[k + LineSize(line)]
    <3>1. k \in 1..(Waiting - 2) /\ k + 2 \in 1..Waiting /\ k \in 1..Waiting' /\ k \in Nat
      BY <1>s, <2>3, <2>10, <2>11 DEF Waiting
    <3>2. ByteAt(k)' = ByteAt(k + 2)
      BY <1>0, <1>s, <2>5, <2>8, <3>1 DEF ByteAt, Waiting
    <3> QED
      BY <2>3, <3>1, <3>2 DEF Bytes
  <2>12. LinesWait'
    BY <1>0, <2>1, <2>7, <2>10, <2>11, LineDone DEF Intact
  <2> QED
    BY <1>c, <2>9, <2>12 DEF Intact
<1> QED
  BY <1>1, <1>2

LEMMA StepLink == LinkInv /\ [Next]_vars => LinkInv'
<1> SUFFICES ASSUME LinkInv, [Next]_vars PROVE LinkInv'
  OBVIOUS
<1>1. CountInv /\ CountInv'
  BY StepCount DEF LinkInv
<1> SUFFICES ASSUME ~ damaged' PROVE Intact'
  BY <1>1 DEF LinkInv
<1>2. Intact
  <2>1. ~ damaged
    BY DEF Next, Reader, SendLine, Receive, Take, Load, Store, WindowChunk, CutCommand, CutText,
           Drained, Parsing, SendTouch, TxDone, vars, history
  <2> QED
    BY <2>1 DEF LinkInv
<1>3. CASE Load \/ Store \/ Drained \/ SendTouch \/ TxDone \/ UNCHANGED vars
  <2>1. /\ UNCHANGED <<out, buffer, writePtr, readPtr, chunk, stream, sent, executed, unread>>
        /\ pc' \in {"idle", "parse"} => pc \in {"idle", "parse"}
    BY <1>3 DEF Load, Store, Drained, Parsing, Silent, SendTouch, TxDone, vars, rx, reader, history
  <2>2. Waiting' = Waiting /\ Bytes' = Bytes
    BY <2>1 DEF Waiting, Bytes, ByteAt
  <2>3. LinesWait'
    BY <1>1, <1>2, <2>1, <2>2, SameLines DEF Intact
  <2> QED
    BY <1>2, <2>1, <2>3 DEF Intact, ByteTypes, RingInv
<1> QED
  BY <1>1, <1>2, <1>3, SendLineLink, ReceiveLink, TakeLink, WindowLink, CommandLink, TextLink
  DEF Next, Reader

(* The bytes that wait are the lines that were sent and not executed, for
   as long as no byte was dropped or overwritten. *)
THEOREM LinkCorrect == Spec => []LinkInv
BY InitLink, StepLink, PTL DEF Spec

(* Mai2Serial executes exactly the lines the host sent, in their order and
   once each, however they were cut into reads and wherever the ring wrapped
   (process_dma_received_data, mai2serial.cpp:303-430). *)
THEOREM InOrder == Spec => []CommandsInOrder
<1>1. LinkInv => CommandsInOrder
  <2> SUFFICES ASSUME Intact, CountInv PROVE IsPrefix(executed, sent)
    BY DEF LinkInv, CommandsInOrder
  <2>1. /\ Len(executed) \in Nat /\ Len(sent) \in Nat /\ Len(executed) <= Len(sent)
        /\ \A i \in 1..Len(executed) : executed[i] = sent[i]
    BY Counts DEF Intact, LinesWait, Executed
  <2> DEFINE n == Len(executed)
             S == Controls \cup Queries \cup {Help}
             s == SubSeq(executed, 1, n)
             u == SubSeq(sent, 1, n)
  <2>2. /\ s \in Seq(S) /\ u \in Seq(S) /\ Len(s) = n /\ Len(u) = n
        /\ \A i \in 1..n : s[i] = executed[i] /\ u[i] = sent[i]
    <3>1. executed \in Seq(S) /\ sent \in Seq(S)
      BY CommandsAssumption DEF Intact, ByteTypes
    <3> HIDE DEF S
    <3> QED
      BY <2>1, <3>1
  <2> HIDE DEF n, S, s, u
  <2>3. s = u
    BY <2>1, <2>2, SeqEqual DEF n
  <2> QED
    BY <2>1, <2>3 DEF IsPrefix, n, s, u
<1> QED
  BY <1>1, LinkCorrect, PTL

-----------------------------------------------------------------------------
(* Binding: what holds at every step of both cores. *)


(* An area is left to bind whenever core 0 waits for its channel: the index
   only grows where it is compared with the number of areas. *)
AreaLeft ==
  /\ pc0 \in {"prepared", "chosen"} => index < Areas
  /\ state \in {"WAIT_TOUCH", "PROCESSING"} /\ pc0 \notin {"bound", "end"} => index < Areas

(* A channel has been chosen before it is bound. *)
ChannelChosen == pc0 = "chosen" \/ state = "PROCESSING" => chosen \in Channel

(* Only core 0 ends a session, and its turn with it, but for what it then
   resets. *)
Resetting == pc0 \in {"stop_state", "stop_ops", "stop_index", "stop_time", "dark"}
TurnInSession == pc0 # "idle" /\ ~ Resetting => active

IInv == TypeOK /\ AreaLeft /\ ChannelChosen /\ TurnInSession /\ NoGhostTouch /\ OneAreaPerChannel

-----------------------------------------------------------------------------
LEMMA InitIInv == BindingInit => IInv
<1> SUFFICES ASSUME BindingInit PROVE IInv
    OBVIOUS
<1>1. mapping \in [Area -> Channel \cup {None}] /\ holds \in [Channel -> (0..Hold) \cup {None}]
    BY DEF BindingInit
<1>2. /\ 0 \in 0..Areas /\ 0 \in 0..Hold /\ 0 \in 0..MaxStarts /\ 0 \in 0..MaxStops
    BY ConstantsAssumption
<1>3. TypeOK
    BY <1>1, <1>2 DEF BindingInit, TypeOK
<1> QED
    BY <1>3 DEF BindingInit, IInv, AreaLeft, ChannelChosen, TurnInSession, Resetting, NoGhostTouch, OneAreaPerChannel

(* The steps of the user, the page, the clock and core 1. *)
LEMMA OutsideCore0 ==
  IInv /\ (Touch \/ Tick \/ Render \/ PressStop \/ PressStart \/ Stores) => IInv'
<1> SUFFICES ASSUME IInv, Touch \/ Tick \/ Render \/ PressStop \/ PressStart \/ Stores
             PROVE IInv'
    OBVIOUS
<1> USE ConstantsAssumption DEF IInv
<1>1. CASE Touch
    BY <1>1 DEF Touch, fields, serial, page, TypeOK, AreaLeft, ChannelChosen, TurnInSession, Resetting,
                NoGhostTouch, OneAreaPerChannel
<1>2. CASE Tick
  <2>1. age' \in 0..(Timeout + 1) /\ litAge' \in 0..Hold
    BY <1>2 DEF Tick, Later, TypeOK
  <2>2. holds' \in [Channel -> (0..Hold) \cup {None}]
    BY <1>2 DEF Tick, Later, TypeOK
  <2> QED
    BY <1>2, <2>1, <2>2 DEF Tick, TypeOK, AreaLeft, ChannelChosen, TurnInSession, Resetting,
                NoGhostTouch, OneAreaPerChannel
<1>3. CASE Render
    BY <1>3 DEF Render, fields, serial, TypeOK, AreaLeft, ChannelChosen, TurnInSession, Resetting,
                NoGhostTouch, OneAreaPerChannel
<1>4. CASE PressStop
    BY <1>4 DEF PressStop, serial, TypeOK, AreaLeft, ChannelChosen, TurnInSession, Resetting,
                NoGhostTouch, OneAreaPerChannel
<1>5. CASE PressStart
  <2>1. starts' \in 0..MaxStarts
    BY <1>5 DEF PressStart, TypeOK
  <2>2. /\ active' = TRUE /\ pc1' = "state"
        /\ UNCHANGED <<state, index, age, ops, cancel, serial, pc0, touch, shown, drawn, stops>>
    BY <1>5 DEF PressStart
  <2>3. TypeOK'
    BY <2>1, <2>2 DEF serial, TypeOK
  <2>4. AreaLeft' /\ ChannelChosen' /\ TurnInSession' /\ NoGhostTouch'
    BY <2>2 DEF serial, AreaLeft, ChannelChosen, TurnInSession, Resetting, NoGhostTouch
  <2>5. OneAreaPerChannel'
    BY <2>2 DEF serial, OneAreaPerChannel
  <2> QED
    BY <2>3, <2>4, <2>5
<1>6. CASE Stores
  <2> USE DEF serial, page, TypeOK, AreaLeft, ChannelChosen, TurnInSession, Resetting, NoGhostTouch,
              OneAreaPerChannel
  <2>1. CASE StoreState
    BY <2>1 DEF StoreState
  <2>2. CASE StoreIndex
    BY <2>2 DEF StoreIndex
  <2>3. CASE StoreTime
    BY <2>3 DEF StoreTime
  <2>4. CASE StoreOps
    BY <2>4 DEF StoreOps
  <2> QED
    BY <1>6, <2>1, <2>2, <2>3, <2>4 DEF Stores
<1> QED
    BY <1>1, <1>2, <1>3, <1>4, <1>5, <1>6

(* The tests and stores of core 0 around processSerialBinding. *)
LEMMA SessionSteps ==
  IInv /\ (Check \/ Clear \/ Cleared \/ CheckCancel \/ CheckTimeout \/ Stop \/ Reset \/ Unknown) => IInv'
<1> SUFFICES ASSUME IInv,
                    Check \/ Clear \/ Cleared \/ CheckCancel \/ CheckTimeout \/ Stop \/ Reset \/ Unknown
             PROVE IInv'
    OBVIOUS
<1> USE ConstantsAssumption DEF IInv, At, fields, serial, page, TypeOK, AreaLeft, ChannelChosen,
                                TurnInSession, Resetting, NoGhostTouch, OneAreaPerChannel
<1>1. CASE Check
    BY <1>1 DEF Check
<1>2. CASE Clear
    BY <1>2 DEF Clear
<1>3. CASE Cleared
    BY <1>3 DEF Cleared
<1>4. CASE CheckCancel
    BY <1>4, ZenonT(30) DEF CheckCancel
<1>5. CASE CheckTimeout
    BY <1>5 DEF CheckTimeout
<1>6. CASE Stop
  <2>1. /\ pc0 = "stop" /\ active /\ active' = FALSE /\ pc0' = "stop_state"
        /\ UNCHANGED <<state, index, age, ops, cancel, serial, pc1, touch, page>>
    BY <1>6 DEF Stop
  <2> QED
    BY <2>1, ZenonT(30)
<1>7. CASE Unknown
    BY <1>7 DEF Unknown, Dispatch
<1>8. CASE StopState
    BY <1>8, ZenonT(30) DEF StopState
<1>9. CASE StopOps
    BY <1>9, ZenonT(30) DEF StopOps
<1>10. CASE StopIndex
  <2>1. /\ 0 \in 0..Areas /\ pc0 = "stop_index" /\ pc0' = "stop_time" /\ index' = 0
        /\ UNCHANGED <<active, state, age, ops, cancel, serial, pc1, touch, page>>
    BY <1>10 DEF StopIndex
  <2> QED
    BY <2>1, SMTT(20)
<1>11. CASE StopTime
  <2>1. /\ age' \in 0..(Timeout + 1) /\ pc0 = "stop_time" /\ pc0' = "dark"
        /\ UNCHANGED <<active, state, index, ops, cancel, serial, pc1, touch, page>>
    BY <1>11 DEF StopTime
  <2> QED
    BY <2>1
<1> QED
    BY <1>1, <1>2, <1>3, <1>4, <1>5, <1>6, <1>7, <1>8, <1>9, <1>10, <1>11 DEF Reset

(* A wait that chooses a channel chooses one that exists. *)
LEMMA WaitStep == IInv /\ Wait => IInv'
<1> SUFFICES ASSUME IInv, Wait PROVE IInv'
    OBVIOUS
<1> USE ConstantsAssumption DEF IInv
<1>1. holds' \in [Channel -> (0..Hold) \cup {None}]
    BY DEF Wait, TypeOK
<1>2. chosen' \in Channel \/ (chosen' = chosen /\ pc0' = "idle")
    BY DEF Wait, Held, At
<1>3. /\ state = "WAIT_TOUCH" /\ pc0 = "dispatch" /\ pc0' \in {"chosen", "idle"}
      /\ UNCHANGED <<fields, mapping, lit, litAge, pc1, touch, page>>
    BY DEF Wait, Dispatch, At
<1> QED
    BY <1>1, <1>2, <1>3 DEF fields, page, TypeOK, AreaLeft, ChannelChosen, TurnInSession, Resetting,
                            NoGhostTouch, OneAreaPerChannel

(* A binding adds one pair, of an area that is left and a channel that has
   none. *)
LEMMA BindStep == IInv /\ Bind => IInv'
<1> SUFFICES ASSUME IInv, Bind PROVE IInv'
    OBVIOUS
<1> USE ConstantsAssumption DEF IInv
<1>1. /\ state = "PROCESSING" /\ pc0 = "dispatch" /\ pc0' = "bound" /\ active
      /\ index \in 0..(Areas - 1) /\ chosen \in Channel
      /\ UNCHANGED <<active, state, age, ops, cancel, lit, holds, chosen, litAge, pc1, touch, page>>
    BY DEF Bind, Dispatch, At, TypeOK, AreaLeft, ChannelChosen, TurnInSession, Resetting
<1>2. CASE Mapped(chosen)
    BY <1>1, <1>2 DEF Bind, page, TypeOK, AreaLeft, ChannelChosen, TurnInSession, Resetting, NoGhostTouch,
                      OneAreaPerChannel
<1>3. CASE ~ Mapped(chosen)
  <2>1. mapping' = [mapping EXCEPT ![index + 1] = chosen] /\ index' = index + 1
    BY <1>3 DEF Bind
  <2>2. index + 1 \in Area /\ mapping \in [Area -> Channel \cup {None}]
    BY <1>1 DEF Area, TypeOK
  <2>3. mapping' \in [Area -> Channel \cup {None}]
    BY <1>1, <2>1, <2>2
  <2>4. OneAreaPerChannel'
    BY <1>1, <1>3, <2>1, <2>2 DEF OneAreaPerChannel, Mapped
  <2> QED
    BY <1>1, <2>1, <2>3, <2>4 DEF page, TypeOK, AreaLeft, ChannelChosen, TurnInSession, Resetting,
                                  NoGhostTouch
<1> QED
    BY <1>2, <1>3

(* The other steps of processSerialBinding. *)
LEMMA BindingSteps ==
  IInv /\ (Prepare \/ Prepared \/ Chosen \/ Another \/ LastBound \/ End \/ Ended \/ Dark) => IInv'
<1> SUFFICES ASSUME IInv,
                    Prepare \/ Prepared \/ Chosen \/ Another \/ LastBound \/ End \/ Ended \/ Dark
             PROVE IInv'
    OBVIOUS
<1> USE ConstantsAssumption DEF IInv, At, fields, serial, page, TypeOK, AreaLeft, ChannelChosen,
                                TurnInSession, Resetting, NoGhostTouch, OneAreaPerChannel
<1>1. CASE Prepare
    BY <1>1 DEF Prepare, Dispatch
<1>2. CASE Prepared
    BY <1>2 DEF Prepared
<1>3. CASE Chosen
    BY <1>3 DEF Chosen
<1>4. CASE Another
    BY <1>4 DEF Another
<1>5. CASE LastBound
    BY <1>5 DEF LastBound
<1>6. CASE End
    BY <1>6 DEF End
<1>7. CASE Ended
    BY <1>7, ZenonT(30) DEF Ended
<1>8. CASE Dark
    BY <1>8 DEF Dark
<1> QED
    BY <1>1, <1>2, <1>3, <1>4, <1>5, <1>6, <1>7, <1>8

LEMMA StepIInv == IInv /\ [BindingNext]_bindingVars => IInv'
<1> SUFFICES ASSUME IInv, [BindingNext]_bindingVars PROVE IInv'
    OBVIOUS
<1>1. CASE UNCHANGED bindingVars
    BY <1>1 DEF bindingVars, fields, serial, page, IInv, TypeOK, AreaLeft, ChannelChosen, TurnInSession, Resetting,
                NoGhostTouch, OneAreaPerChannel
<1>2. CASE Core0
    BY <1>2, SessionSteps, WaitStep, BindStep, BindingSteps DEF Core0
<1> QED
    BY <1>1, <1>2, OutsideCore0 DEF BindingNext

-----------------------------------------------------------------------------
(* The inductive invariant of a binding session between the two cores. *)
THEOREM Inductive == BindingSpec => []IInv
BY InitIInv, StepIInv, PTL DEF BindingSpec

(* processBinding's index stays in the table and the lit area is one of the
   game's. *)
THEOREM TypeCorrect == BindingSpec => []TypeOK
<1>1. IInv => TypeOK
    BY DEF IInv
<1> QED
    BY <1>1, Inductive, PTL

(* No channel is ever bound to two areas, so getSerialMapping has one answer. *)
THEOREM Injective == BindingSpec => []OneAreaPerChannel
<1>1. IInv => OneAreaPerChannel
    BY DEF IInv
<1> QED
    BY <1>1, Inductive, PTL

(* Out of a session no area is lit on the binding's behalf. *)
THEOREM NoGhost == BindingSpec => []NoGhostTouch
<1>1. IInv => NoGhostTouch
    BY DEF IInv
<1> QED
    BY <1>1, Inductive, PTL
-----------------------------------------------------------------------------
(* What a user who does not press "start" while a session runs can rely on.
   The area that is lit is the one whose channel is looked for; *)
LitForChannel ==
  pc0 \in {"prepared", "chosen"}
    \/ (state \in {"WAIT_TOUCH", "PROCESSING"} /\ pc0 \notin {"bound", "end", "stop_state"})
    => lit = index + 1

(* no hold is older than its light, so that a channel which has been held for
   long enough has been held since the area was lit; *)
HeldSinceLit ==
  /\ pc0 = "prepared" \/ state = "WAIT_TOUCH" =>
       \A c \in Channel : holds[c] # None => holds[c] <= litAge
  /\ pc0 = "chosen" \/ (state = "PROCESSING" /\ pc0 \notin {"bound", "end"}) => litAge >= Hold

(* a session that has ended and is reset leaves nothing half done, *)
AtRest ==
  /\ (~ active /\ pc0 # "stop_state")
       \/ pc0 \in {"ended", "dark", "stop_ops", "stop_index", "stop_time"} => state \in {"IDLE", "PREPARE"}
  /\ (~ active /\ pc0 \notin {"stop_state", "stop_ops", "stop_index"})
       \/ pc0 \in {"end", "ended", "stop_time"} => index \in {0, Areas}

(* and the stores of startSerialBinding, which all come within a tick, meet no
   area but the first and no channel that is chosen, unless they are yet to be
   reset. *)
Starting ==
  pc1 # "idle" =>
    /\ pc0 \notin {"chosen", "bound"}
    /\ pc0 \notin {"stop_state", "stop_ops", "stop_index"} => index \in {0, Areas}
    /\ pc0 # "stop_state" => state # "PROCESSING"
    /\ pc0 = "prepared" \/ (state = "WAIT_TOUCH" /\ pc0 # "stop_state") => litAge = 0

Patient == LitForChannel /\ HeldSinceLit /\ AtRest /\ Starting

LEMMA PatientSteps == ~ Impatient /\ IInv /\ Patient /\ [BindingNext]_bindingVars => Patient'
<1> SUFFICES ASSUME ~ Impatient, IInv, Patient, [BindingNext]_bindingVars PROVE Patient'
    OBVIOUS
<1> USE ConstantsAssumption
<1>1. CASE UNCHANGED bindingVars
    BY <1>1 DEF bindingVars, fields, serial, Patient, LitForChannel, HeldSinceLit, AtRest, Starting
<1>2. CASE Touch \/ Render \/ PressStop
    BY <1>2 DEF Touch, Render, PressStop, fields, serial, Patient, LitForChannel, HeldSinceLit,
                AtRest, Starting
<1>3. CASE Tick
  <2>1. /\ pc1 = "idle" /\ litAge \in 0..Hold /\ litAge' = Later(litAge, Hold)
        /\ holds \in [Channel -> (0..Hold) \cup {None}]
        /\ \A c \in Channel : holds'[c] = IF holds[c] = None THEN None ELSE Later(holds[c], Hold)
        /\ UNCHANGED <<active, state, index, lit, pc0, pc1>>
    BY <1>3 DEF Tick, IInv, TypeOK
  <2>2. litAge >= Hold => litAge' >= Hold
    BY <2>1 DEF Later
  <2>3. ASSUME NEW c \in Channel, holds[c] # None => holds[c] <= litAge, holds'[c] # None
        PROVE  holds'[c] <= litAge'
    BY <2>1, <2>3 DEF Later
  <2> QED
    BY <2>1, <2>2, <2>3 DEF Patient, LitForChannel, HeldSinceLit, AtRest, Starting
<1>4. CASE PressStart
  <2>1. /\ ~ active /\ active' = TRUE
        /\ UNCHANGED <<state, index, serial, pc0>>
    BY <1>4 DEF PressStart
  <2>2. pc0 \in {"idle", "dark", "stop_state", "stop_ops", "stop_index", "stop_time"}
    BY <2>1 DEF IInv, TurnInSession, Resetting, TypeOK
  <2> QED
    BY <2>1, <2>2 DEF serial, Patient, LitForChannel, HeldSinceLit, AtRest, Starting
<1>5. CASE Stores
  <2>1. /\ pc1 # "idle" /\ UNCHANGED <<active, serial, pc0>>
        /\ state' \in {state, "PREPARE"} /\ index' \in {index, 0}
    BY <1>5 DEF Stores, StoreState, StoreIndex, StoreTime, StoreOps
  <2>2. pc0 \notin {"stop_state", "stop_ops", "stop_index"} /\ index < Areas => index = 0
    BY <2>1 DEF Patient, Starting
  <2>3. pc0 = "prepared" \/ (state = "WAIT_TOUCH" /\ pc0 \notin {"bound", "end", "stop_state"}) => index = 0
    BY <2>2 DEF IInv, AreaLeft, Patient, AtRest
  <2> QED
    BY <2>1, <2>3 DEF serial, Patient, LitForChannel, HeldSinceLit, AtRest, Starting
<1>6. CASE Check \/ Clear \/ Cleared \/ CheckCancel \/ CheckTimeout \/ Unknown
  <2>1. /\ pc0 \in {"idle", "clear", "cleared", "cancel", "timeout", "dispatch"}
        /\ pc0' \in {"idle", "clear", "cleared", "cancel", "timeout", "dispatch", "stop"}
        /\ UNCHANGED <<active, state, index, lit, holds, litAge, pc1>>
    BY <1>6 DEF Check, Clear, Cleared, CheckCancel, CheckTimeout, Unknown, Dispatch, At, fields, serial
  <2> QED
    BY <2>1 DEF Patient, LitForChannel, HeldSinceLit, AtRest, Starting
<1>7. CASE Stop
  <2>1. /\ pc0 = "stop" /\ active /\ ~ active' /\ pc0' = "stop_state"
        /\ UNCHANGED <<state, index, serial, pc1>>
    BY <1>7 DEF Stop, At, IInv, TurnInSession, Resetting
  <2> QED
    BY <2>1 DEF serial, Patient, LitForChannel, HeldSinceLit, AtRest, Starting
<1>8. CASE StopState
  <2>1. /\ pc0 = "stop_state" /\ pc0' = "stop_ops" /\ state' = "IDLE"
        /\ UNCHANGED <<active, index, serial, pc1>>
    BY <1>8 DEF StopState, At
  <2> QED
    BY <2>1 DEF serial, Patient, LitForChannel, HeldSinceLit, AtRest, Starting
<1>9. CASE StopOps
  <2>1. /\ pc0 = "stop_ops" /\ pc0' = "stop_index" /\ UNCHANGED <<active, state, index, serial, pc1>>
    BY <1>9 DEF StopOps, At
  <2> QED
    BY <2>1 DEF serial, Patient, LitForChannel, HeldSinceLit, AtRest, Starting
<1>10. CASE StopIndex
  <2>1. /\ pc0 = "stop_index" /\ pc0' = "stop_time" /\ index' = 0
        /\ UNCHANGED <<active, state, serial, pc1>>
    BY <1>10 DEF StopIndex, At
  <2> QED
    BY <2>1 DEF serial, Patient, LitForChannel, HeldSinceLit, AtRest, Starting
<1>11. CASE StopTime
  <2>1. /\ pc0 = "stop_time" /\ pc0' = "dark" /\ UNCHANGED <<active, state, index, serial, pc1>>
    BY <1>11 DEF StopTime, At
  <2> QED
    BY <2>1 DEF serial, Patient, LitForChannel, HeldSinceLit, AtRest, Starting
<1>12. CASE Prepare
  <2>1. /\ pc0 = "dispatch" /\ state = "PREPARE" /\ active
        /\ UNCHANGED <<active, state, index, pc1>>
    BY <1>12 DEF Prepare, Dispatch, At, fields, IInv, TurnInSession, Resetting
  <2>2. CASE index < Areas
    <3>1. /\ pc0' = "prepared" /\ lit' = index + 1 /\ litAge' = 0
          /\ \A c \in Channel : holds'[c] = None
      BY <1>12, <2>2 DEF Prepare, At
    <3> QED
      BY <2>1, <3>1 DEF Patient, LitForChannel, HeldSinceLit, AtRest, Starting
  <2>3. CASE ~ (index < Areas)
    <3>1. pc0' = "end" /\ index = Areas
      BY <1>12, <2>3 DEF Prepare, At, IInv, TypeOK
    <3> QED
      BY <2>1, <3>1 DEF Patient, LitForChannel, HeldSinceLit, AtRest, Starting
  <2> QED
    BY <2>2, <2>3
<1>13. CASE Prepared
  <2>1. /\ pc0 = "prepared" /\ pc0' = "idle" /\ state' = "WAIT_TOUCH" /\ active
        /\ UNCHANGED <<active, index, serial, pc1>>
    BY <1>13 DEF Prepared, At, IInv, TurnInSession, Resetting
  <2> QED
    BY <2>1 DEF serial, Patient, LitForChannel, HeldSinceLit, AtRest, Starting
<1>14. CASE Wait
  <2>1. /\ pc0 = "dispatch" /\ state = "WAIT_TOUCH" /\ active /\ litAge \in 0..Hold
        /\ holds \in [Channel -> (0..Hold) \cup {None}]
        /\ UNCHANGED <<active, state, index, lit, litAge, pc1>>
    BY <1>14 DEF Wait, Dispatch, At, fields, IInv, TurnInSession, Resetting, TypeOK
  <2>2. \A c \in Channel : holds'[c] \in {None, 0, holds[c]}
    BY <1>14 DEF Wait
  <2>3. \A c \in Channel : holds'[c] # None => holds'[c] <= litAge
    BY <2>1, <2>2 DEF Patient, HeldSinceLit
  <2>4. pc0' = "idle" \/ (pc0' = "chosen" /\ \E c \in Channel : holds'[c] # None /\ holds'[c] >= Hold)
    BY <1>14 DEF Wait, Held, At
  <2>5. pc0' = "idle" \/ (pc0' = "chosen" /\ litAge >= Hold)
    <3>1. ASSUME NEW c \in Channel, holds'[c] # None, holds'[c] >= Hold
          PROVE  litAge >= Hold
      BY <2>1, <2>2, <2>3, <3>1
    <3> QED
      BY <2>4, <3>1
  <2>6. pc0' = "chosen" => pc1 = "idle"
    BY <2>1, <2>5 DEF Patient, Starting
  <2> QED
    BY <2>1, <2>3, <2>5, <2>6 DEF Patient, LitForChannel, HeldSinceLit, AtRest, Starting
<1>15. CASE Chosen
  <2>1. /\ pc0 = "chosen" /\ pc0' = "idle" /\ state' = "PROCESSING" /\ active
        /\ UNCHANGED <<active, index, serial, pc1>>
    BY <1>15 DEF Chosen, At, IInv, TurnInSession, Resetting
  <2> QED
    BY <2>1 DEF serial, Patient, LitForChannel, HeldSinceLit, AtRest, Starting
<1>16. CASE Bind
  <2>1. /\ pc0 = "dispatch" /\ state = "PROCESSING" /\ pc0' = "bound" /\ active
        /\ UNCHANGED <<active, state, pc1>>
    BY <1>16 DEF Bind, Dispatch, At, IInv, TurnInSession, Resetting
  <2> QED
    BY <2>1 DEF Patient, LitForChannel, HeldSinceLit, AtRest, Starting
<1>17. CASE Another
  <2>1. /\ pc0 = "bound" /\ pc0' = "idle" /\ state' = "PREPARE" /\ active
        /\ UNCHANGED <<active, index, pc1>>
    BY <1>17 DEF Another, At, IInv, TurnInSession, Resetting
  <2> QED
    BY <2>1 DEF Patient, LitForChannel, HeldSinceLit, AtRest, Starting
<1>18. CASE LastBound
  <2>1. /\ pc0 = "bound" /\ pc0' = "end" /\ index = Areas /\ active
        /\ UNCHANGED <<active, state, index, serial, pc1>>
    BY <1>18 DEF LastBound, At, fields, IInv, TurnInSession, Resetting, TypeOK
  <2> QED
    BY <2>1 DEF serial, Patient, LitForChannel, HeldSinceLit, AtRest, Starting
<1>19. CASE End
  <2>1. /\ pc0 = "end" /\ pc0' = "ended" /\ state' = "IDLE" /\ UNCHANGED <<active, index, pc1>>
    BY <1>19 DEF End, At
  <2> QED
    BY <2>1 DEF Patient, LitForChannel, HeldSinceLit, AtRest, Starting
<1>20. CASE Ended
  <2>1. /\ pc0 = "ended" /\ pc0' = "dark" /\ UNCHANGED <<state, index, pc1>>
    BY <1>20 DEF Ended, At
  <2> QED
    BY <2>1 DEF Patient, LitForChannel, HeldSinceLit, AtRest, Starting
<1>21. CASE Dark
  <2>1. /\ pc0 = "dark" /\ pc0' = "idle" /\ UNCHANGED <<active, state, index, pc1>>
    BY <1>21 DEF Dark, At, fields
  <2> QED
    BY <2>1 DEF Patient, LitForChannel, HeldSinceLit, AtRest, Starting
<1> QED
    BY <1>1, <1>2, <1>3, <1>4, <1>5, <1>6, <1>7, <1>8, <1>9, <1>10, <1>11, <1>12, <1>13, <1>14,
       <1>15, <1>16, <1>17, <1>18, <1>19, <1>20, <1>21 DEF BindingNext, Core0, Reset

(* For any channels, areas and times, as long as "start" is not pressed while a
   session runs: a channel is bound only to the area the game was showing, and
   only after that area has been lit for the whole of the hold.  (With such a
   press it does not hold: the page offers it between two areas.) *)
THEOREM ShownIsBound == ~ Impatient => (BindingSpec => BoundAsShown)
<1> SUFFICES ASSUME ~ Impatient PROVE BindingSpec => BoundAsShown
    OBVIOUS
<1> DEFINE Shown == \A a \in Area : mapping'[a] # None /\ mapping'[a] # mapping[a] =>
                      lit = a /\ litAge >= Hold
<1>1. BindingInit => Patient
    BY ConstantsAssumption DEF BindingInit, Patient, LitForChannel, HeldSinceLit, AtRest, Starting
<1>2. IInv /\ Patient /\ [BindingNext]_bindingVars => [Shown]_bindingVars
  <2> SUFFICES ASSUME IInv, Patient, BindingNext, mapping' # mapping,
                      NEW a \in Area, mapping'[a] # None, mapping'[a] # mapping[a]
               PROVE  lit = a /\ litAge >= Hold
    BY DEF bindingVars, serial
  <2>1. ~ Clear
    BY DEF Clear
  <2>2. Bind
    <3>1. ~ (Touch \/ Tick \/ Render \/ PressStop \/ PressStart \/ Stores)
      BY DEF Touch, Tick, Render, PressStop, PressStart, Stores, StoreState, StoreIndex, StoreTime,
             StoreOps, serial
    <3>2. ~ (Check \/ Cleared \/ CheckCancel \/ CheckTimeout \/ Stop \/ Reset \/ Unknown)
      BY DEF Check, Cleared, CheckCancel, CheckTimeout, Stop, Reset, StopState, StopOps, StopIndex, StopTime,
             Unknown, serial
    <3>3. ~ (Prepare \/ Prepared \/ Wait \/ Chosen \/ Another \/ LastBound \/ End \/ Ended \/ Dark)
      BY DEF Prepare, Prepared, Wait, Chosen, Another, LastBound, End, Ended, Dark, serial
    <3> QED
      BY <2>1, <3>1, <3>2, <3>3 DEF BindingNext, Core0
  <2>3. /\ state = "PROCESSING" /\ pc0 = "dispatch" /\ mapping \in [Area -> Channel \cup {None}]
        /\ mapping' = [mapping EXCEPT ![index + 1] = chosen]
    BY <2>2 DEF Bind, Dispatch, IInv, TypeOK
  <2>4. a = index + 1
    BY <2>3
  <2> QED
    BY <2>3, <2>4 DEF Patient, LitForChannel, HeldSinceLit
<1>3. BindingSpec => []Patient
    BY <1>1, PatientSteps, Inductive, PTL DEF BindingSpec
<1> QED
    BY <1>2, <1>3, Inductive, PTL DEF BindingSpec, BoundAsShown
=============================================================================

-------------------------- MODULE SensitivityQueue --------------------------
(***************************************************************************)
(* The path of a sensitivity change from the settings pages on core 1 to   *)
(* the touch sensors driven by core 0: InputManager::setSensitivity pushes *)
(* into SensitivityRequestBuffer, a ring without a lock whose head only    *)
(* core 1 writes and whose tail only core 0 writes;                        *)
(* processSensitivityRequests, first thing in every task0, pops and        *)
(* applies.  Each volatile access that the other core can observe is a     *)
(* step of its own, so the two cores interleave inside pushRequest and     *)
(* popRequest.                                                             *)
(***************************************************************************)
EXTENDS Integers, Sequences

CONSTANTS
  BufferSize,      \* BUFFER_SIZE, 32 in the code
  Channel,         \* the physical channels (device and channel number)
  Registered,      \* those of devices with a mapping and a sensor object
  Relative,        \* those of devices in relative sensitivity mode
  Sensitivity,     \* the int8_t values the pages may ask for
  Default,         \* DEFAULT_TOUCH_SENSITIVITY
  MaxRequests      \* bound: calls of setSensitivity in a behaviour

ASSUME BufferSizeAssumption == BufferSize \in Nat /\ BufferSize >= 2
ASSUME ChannelAssumption ==
  Channel # {} /\ Registered \subseteq Channel /\ Relative \subseteq Channel
ASSUME SensitivityAssumption == Sensitivity \subseteq -128..127 /\ Default \in 0..99
ASSUME MaxRequestsAssumption == MaxRequests \in Nat

VARIABLES
  requests, head, tail,   \* the ring
  pushPc, pushed,         \* core 1: where it is in pushRequest, and its argument
  popPc, request,         \* core 0: where it is in the pop loop, and its local copy
  mapping,                \* TouchDeviceMapping::sensitivity, what gets saved
  accepted,               \* history: the requests pushRequest said true to
  dropped,                \* history: how many it said false to
  delivered               \* history: the requests popRequest returned

ring    == <<requests, head, tail>>
history == <<accepted, dropped, delivered>>
vars    == <<requests, head, tail, pushPc, pushed, popPc, request, mapping,
             accepted, dropped, delivered>>

Slot == 0..(BufferSize - 1)

\* pushRequest takes a uint8_t: the int8_t of the caller keeps its eight bits
\* and loses its sign.
ToUint8(s) == s % 256

Asked   == [channel : Channel, sensitivity : -128..127]
Request == [channel : Channel, sensitivity : 0..255]

\* a slot that was never written holds the constructor's zeros
NoRequest == [channel |-> CHOOSE c \in Channel : TRUE, sensitivity |-> 0]

AsRequest(asked) ==
  [channel |-> asked.channel, sensitivity |-> ToUint8(asked.sensitivity)]

Clamp(low, high, x) == IF x < low THEN low ELSE IF x > high THEN high ELSE x

\* the limits of both setters: relative sensors take -127..127, the others 0..99
Limited(c, x) == IF c \in Relative THEN Clamp(-127, 127, x) ELSE Clamp(0, 99, x)

\* (i + 1) % BUFFER_SIZE
NextSlot(i) == (i + 1) % BufferSize

\* getDataCount
DataCount == IF head >= tail THEN head - tail ELSE BufferSize - tail + head

Init ==
  /\ requests = [i \in Slot |-> NoRequest]
  /\ head = 0 /\ tail = 0
  /\ pushPc = "idle" /\ pushed = [channel |-> NoRequest.channel, sensitivity |-> 0]
  /\ popPc = "check" /\ request = NoRequest
  /\ mapping = [c \in Registered |-> Default]
  /\ accepted = << >> /\ dropped = 0 /\ delivered = << >>

-----------------------------------------------------------------------------
(* Core 1: setSensitivity, that is pushRequest. *)

\* reads head, then tail; a full ring drops the request with a warning
PushCheckNoFullTest ==      \* mutant: the full test is gone
  /\ pushPc = "idle"
  /\ Len(accepted) + dropped < MaxRequests
  /\ \E c \in Channel, s \in Sensitivity :
       pushed' = [channel |-> c, sensitivity |-> s]
  /\ pushPc' = "write"
  /\ UNCHANGED <<ring, popPc, request, mapping, history>>

PushCheck ==
  /\ pushPc = "idle"
  /\ Len(accepted) + dropped < MaxRequests
  /\ \E c \in Channel, s \in Sensitivity :
       IF NextSlot(head) = tail
         THEN dropped' = dropped + 1 /\ UNCHANGED <<pushPc, pushed>>
         ELSE /\ pushed' = [channel |-> c, sensitivity |-> s]
              /\ pushPc' = "write"
              /\ UNCHANGED dropped
  /\ UNCHANGED <<ring, popPc, request, mapping, accepted, delivered>>

\* requests[head] = SensitivityRequest(...)
PushWrite ==
  /\ pushPc = "write"
  /\ requests' = [requests EXCEPT ![head] = AsRequest(pushed)]
  /\ pushPc' = "publish"
  /\ UNCHANGED <<head, tail, pushed, popPc, request, mapping, history>>

\* head = next_head: from here core 0 sees the request
PushPublish ==
  /\ pushPc = "publish"
  /\ head' = NextSlot(head)
  /\ accepted' = Append(accepted, pushed)
  /\ pushPc' = "idle"
  /\ UNCHANGED <<requests, tail, pushed, popPc, request, mapping, dropped, delivered>>

-----------------------------------------------------------------------------
(* Core 0: processSensitivityRequests, a loop over popRequest. *)

\* an empty ring ends the loop until the next task0
PopCheckNoWrap ==           \* mutant: a head that wrapped below tail looks empty
  /\ popPc = "check" /\ head > tail
  /\ popPc' = "copy"
  /\ UNCHANGED <<ring, pushPc, pushed, request, mapping, history>>

PopCheck ==
  /\ popPc = "check" /\ head # tail
  /\ popPc' = "copy"
  /\ UNCHANGED <<ring, pushPc, pushed, request, mapping, history>>

\* request = requests[tail]
PopCopy ==
  /\ popPc = "copy"
  /\ request' = requests[tail]
  /\ popPc' = "advance"
  /\ UNCHANGED <<ring, pushPc, pushed, mapping, history>>

\* tail = (tail + 1) % BUFFER_SIZE: from here core 1 may reuse the slot
PopAdvance ==
  /\ popPc = "advance"
  /\ tail' = NextSlot(tail)
  /\ delivered' = Append(delivered, request)
  /\ popPc' = "apply"
  /\ UNCHANGED <<requests, head, pushPc, pushed, request, mapping, accepted, dropped>>

\* limit the value to the sensor's mode and keep it in the mapping; the sensor
\* is then driven too, and what it answers is ignored
ApplyIfDriven ==            \* mutant: the mapping only follows a sensor that answered
  /\ popPc = "apply"
  /\ LET c == request.channel
     IN \/ /\ c \in Registered
           /\ mapping' = [mapping EXCEPT ![c] = Limited(c, request.sensitivity)]
        \/ UNCHANGED mapping
  /\ popPc' = "check"
  /\ UNCHANGED <<ring, pushPc, pushed, request, history>>

Apply ==
  /\ popPc = "apply"
  /\ LET c == request.channel
     IN mapping' = IF c \in Registered
                     THEN [mapping EXCEPT ![c] = Limited(c, request.sensitivity)]
                     ELSE mapping
  /\ popPc' = "check"
  /\ UNCHANGED <<ring, pushPc, pushed, request, history>>

-----------------------------------------------------------------------------
Core1 == PushCheck \/ PushWrite \/ PushPublish
Core0 == PopCheck \/ PopCopy \/ PopAdvance \/ Apply

Next == Core1 \/ Core0

Spec == Init /\ [][Next]_vars

\* core 0 never leaves its loop, and a call of pushRequest on core 1 returns
FairSpec == Spec /\ WF_vars(Core0) /\ WF_vars(PushWrite \/ PushPublish)

-----------------------------------------------------------------------------
(* Every variable stays within what its declaration can hold: the indices
   inside the array, the program counters of the two cores, and the values
   each side stores (SensitivityRequestBuffer and its callers). *)
TypeOK ==
  /\ requests \in [Slot -> Request]
  /\ head \in Slot /\ tail \in Slot
  /\ pushPc \in {"idle", "write", "publish"} /\ pushed \in Asked
  /\ popPc \in {"check", "copy", "advance", "apply"} /\ request \in Request
  /\ mapping \in [Registered -> -127..127]
  /\ accepted \in Seq(Asked) /\ dropped \in Nat /\ delivered \in Seq(Request)

(* Every request pushRequest accepted comes out of popRequest exactly once
   and in the order it went in, though neither core ever waits for the other
   and the indices wrap. *)
DeliveredInOrder ==
  /\ Len(accepted) = Len(delivered) + DataCount
  /\ \A i \in 1..Len(delivered) : delivered[i] = AsRequest(accepted[i])

(* Core 1 never writes the slot core 0 is copying: the three bytes of a
   request are not copied atomically, so such a pair of accesses would hand
   task0 a channel of one request with the value of another. *)
NoSlotRace ==
  ~ (pushPc = "write" /\ popPc \in {"copy", "advance"} /\ head = tail)

\* what the last of the first n accepted requests for c asked for
Latest(S) == CHOOSE i \in S : \A j \in S : j <= i
RequestsFor(c, n) == {i \in 1..n : accepted[i].channel = c}
LastAsked(c, n) ==
  IF RequestsFor(c, n) = {} THEN Default
  ELSE Limited(c, ToUint8(accepted[Latest(RequestsFor(c, n))].sensitivity))

(* Once core 0 has caught up, the sensitivity kept for saving is what the
   last accepted request of each channel asked for: no older request overtakes
   a newer one, and what the sensor answers when it is driven plays no part. *)
SettledToLastRequest ==
  (popPc = "check" /\ head = tail) => 
    \A c \in Registered : mapping[c] = LastAsked(c, Len(accepted))

\* the ring's contents, oldest first
SlotAt(i) == IF tail + i < BufferSize THEN tail + i ELSE tail + i - BufferSize
Contents  == [i \in 1..DataCount |-> requests[SlotAt(i - 1)]]

Fifo == INSTANCE BoundedFifo
          WITH Item <- Request, Capacity <- BufferSize - 1, queue <- Contents

(* The ring implements a bounded FIFO of BUFFER_SIZE - 1 requests. *)
ImplementsFifo == Fifo!Spec

(* No accepted request waits for ever: task0 applies it. *)
EveryRequestApplied ==
  \A n \in 1..MaxRequests :
    (Len(accepted) >= n) ~> (Len(delivered) >= n /\ popPc = "check")
=============================================================================

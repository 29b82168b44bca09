------------------------- MODULE InputManagerProofs -------------------------
(***************************************************************************)
(* Two parts of InputManager that both cores touch.                        *)
(*                                                                         *)
(* The sensitivity requests, for a ring of any size, any channels and any  *)
(* number of requests: the requests accepted by pushRequest leave          *)
(* popRequest in order, neither core touches the slot the other one is     *)
(* using, and the ring implements a bounded FIFO.                          *)
(*                                                                         *)
(* The keyboards, for any keys, buttons, mappings and number of keyboards: *)
(* a key that is down has a source that holds it, a mapping that triggers  *)
(* once does so once for a touch, and the batches of a change that was     *)
(* sent without a refusal reach the host.                                  *)
(***************************************************************************)
EXTENDS SensitivityQueue, Keyboards, FiniteSetTheorems, SequenceTheorems,
        WellFoundedInduction, TLAPS

(* Core 1 has seen a free slot and still has it: core 0 only frees more. *)
RoomForPush == pushPc \in {"write", "publish"} => NextSlot(head) # tail

(* Core 0 has seen a request and still has it: core 1 only adds more. *)
RequestForPop == popPc \in {"copy", "advance"} => head # tail

(* What each core has half done is still true when it goes on. *)
WrittenSlot == pushPc = "publish" => requests[head] = AsRequest(pushed)
CopiedSlot  == popPc = "advance" => request = requests[tail]

(* The occupied slots hold the accepted requests that were not delivered. *)
SlotsHoldAccepted ==
  \A i \in 0..(DataCount - 1) :
    requests[SlotAt(i)] = AsRequest(accepted[Len(delivered) + i + 1])

IInv == /\ TypeOK /\ DeliveredInOrder
        /\ RoomForPush /\ RequestForPop
        /\ WrittenSlot /\ CopiedSlot /\ SlotsHoldAccepted

-----------------------------------------------------------------------------
(* Successor of an index without the remainder. *)
LEMMA NextSlotValue ==
  ASSUME NEW i \in Slot
  PROVE  /\ NextSlot(i) \in Slot
         /\ NextSlot(i) = IF i = BufferSize - 1 THEN 0 ELSE i + 1
BY BufferSizeAssumption DEF NextSlot, Slot

(* The conversion to uint8_t yields something the ring can hold. *)
LEMMA Conversion ==
  ASSUME NEW asked \in Asked
  PROVE  AsRequest(asked) \in Request
BY DEF AsRequest, ToUint8, Asked, Request

(* Both modes limit a value to what the mapping can hold. *)
LEMMA LimitedRange ==
  ASSUME NEW c, NEW x \in Int
  PROVE  Limited(c, x) \in -127..127
BY DEF Limited, Clamp

(* Occupied slots are distinct from the slot head points to. *)
LEMMA OccupiedSlots ==
  ASSUME head \in Slot, tail \in Slot
  PROVE  /\ DataCount \in 0..(BufferSize - 1)
         /\ DataCount = 0 <=> head = tail
         /\ \A i \in 0..(DataCount - 1) : SlotAt(i) \in Slot /\ SlotAt(i) # head
         /\ SlotAt(0) = tail
BY BufferSizeAssumption DEF DataCount, SlotAt, Slot

-----------------------------------------------------------------------------
LEMMA InitIInv == Init => IInv
<1> SUFFICES ASSUME Init PROVE IInv
  OBVIOUS
<1>1. NoRequest \in Request /\ pushed \in Asked
  BY ChannelAssumption DEF NoRequest, Request, Asked, Init
<1>2. TypeOK
  BY <1>1, BufferSizeAssumption, SensitivityAssumption DEF Init, TypeOK, Slot
<1>3. DataCount = 0
  BY DEF Init, DataCount
<1>4. DeliveredInOrder /\ SlotsHoldAccepted
  BY <1>3 DEF Init, DeliveredInOrder, SlotsHoldAccepted
<1>5. RoomForPush /\ RequestForPop /\ WrittenSlot /\ CopiedSlot
  BY DEF Init, RoomForPush, RequestForPop, WrittenSlot, CopiedSlot
<1> QED BY <1>2, <1>4, <1>5 DEF IInv

LEMMA NextIInv == IInv /\ [Next]_vars => IInv'
<1> SUFFICES ASSUME IInv, [Next]_vars PROVE IInv'
  OBVIOUS
<1> USE DEF IInv
<1>1. CASE PushCheck
  <2>1. TypeOK'
    <3>1. pushed' \in Asked /\ pushPc' \in {"idle", "write", "publish"} /\ dropped' \in Nat
      <4>1. PICK c \in Channel, s \in Sensitivity :
              IF NextSlot(head) = tail
                THEN dropped' = dropped + 1 /\ UNCHANGED <<pushPc, pushed>>
                ELSE /\ pushed' = [channel |-> c, sensitivity |-> s]
                     /\ pushPc' = "write"
                     /\ UNCHANGED dropped
        BY <1>1 DEF PushCheck
      <4>2. s \in -128..127
        BY SensitivityAssumption
      <4>3. [channel |-> c, sensitivity |-> s] \in Asked
        BY <4>2 DEF Asked
      <4> QED BY <4>1, <4>3 DEF TypeOK
    <3> QED BY <1>1, <3>1 DEF PushCheck, TypeOK, ring
  <2>2. RoomForPush'
    BY <1>1 DEF PushCheck, RoomForPush, NextSlot, ring
  <2> QED
    BY <1>1, <2>1, <2>2 DEF PushCheck, ring, DeliveredInOrder, RequestForPop, WrittenSlot,
       CopiedSlot, SlotsHoldAccepted, DataCount, SlotAt
<1>2. CASE PushWrite
  <2>1. /\ requests' = [requests EXCEPT ![head] = AsRequest(pushed)]
        /\ pushPc = "write" /\ pushPc' = "publish"
        /\ UNCHANGED <<head, tail, pushed, popPc, request, mapping, accepted, dropped, delivered>>
    BY <1>2 DEF PushWrite, history
  <2>2. AsRequest(pushed) \in Request
    BY Conversion DEF TypeOK
  <2>3. TypeOK'
    BY <2>1, <2>2 DEF TypeOK
  <2>4. DataCount' = DataCount /\ \A i : SlotAt(i)' = SlotAt(i)
    BY <2>1 DEF DataCount, SlotAt
  <2>5. SlotsHoldAccepted'
    BY <2>1, <2>4, OccupiedSlots DEF SlotsHoldAccepted, TypeOK
  <2>6. CopiedSlot'
    BY <2>1 DEF CopiedSlot, RequestForPop, TypeOK
  <2>7. WrittenSlot'
    BY <2>1 DEF WrittenSlot, TypeOK
  <2>8. DeliveredInOrder' /\ RoomForPush' /\ RequestForPop'
    BY <2>1, <2>4 DEF DeliveredInOrder, RoomForPush, RequestForPop
  <2> QED BY <2>3, <2>5, <2>6, <2>7, <2>8
<1>3. CASE PushPublish
  <2>1. /\ head' = NextSlot(head) /\ accepted' = Append(accepted, pushed)
        /\ pushPc = "publish" /\ pushPc' = "idle"
        /\ UNCHANGED <<requests, tail, pushed, popPc, request, mapping, dropped, delivered>>
    BY <1>3 DEF PushPublish
  <2>2. /\ head \in Slot /\ tail \in Slot /\ head' \in Slot /\ head' # tail
        /\ head' = IF head = BufferSize - 1 THEN 0 ELSE head + 1
    BY <2>1, NextSlotValue DEF TypeOK, RoomForPush
  <2>3. TypeOK'
    <3>1. accepted' \in Seq(Asked)
      BY <2>1 DEF TypeOK
    <3> QED BY <2>1, <2>2, <3>1 DEF TypeOK
  <2>4. /\ DataCount' = DataCount + 1 /\ DataCount \in Nat
        /\ \A i : SlotAt(i)' = SlotAt(i)
        /\ SlotAt(DataCount) = head
    BY <2>1, <2>2, BufferSizeAssumption DEF DataCount, SlotAt, Slot
  <2>5. /\ Len(accepted') = Len(accepted) + 1
        /\ \A i \in 1..Len(accepted) : accepted'[i] = accepted[i]
        /\ accepted'[Len(accepted) + 1] = pushed
    BY <2>1 DEF TypeOK
  <2>6. DeliveredInOrder'
    BY <2>1, <2>4, <2>5 DEF DeliveredInOrder, TypeOK
  <2>7. SlotsHoldAccepted'
    <3> SUFFICES ASSUME NEW i \in 0..DataCount
                 PROVE  requests[SlotAt(i)] = AsRequest(accepted'[Len(delivered) + i + 1])
      <4>1. 0..(DataCount' - 1) = 0..DataCount
        BY <2>4
      <4> QED BY <2>1, <2>4, <4>1 DEF SlotsHoldAccepted
    <3>1. CASE i = DataCount
      BY <3>1, <2>1, <2>4, <2>5 DEF WrittenSlot, DeliveredInOrder, TypeOK
    <3>2. CASE i # DataCount
      <4>1. i \in 0..(DataCount - 1) /\ Len(delivered) + i + 1 \in 1..Len(accepted)
        BY <3>2, <2>4 DEF DeliveredInOrder, TypeOK
      <4> QED BY <4>1, <2>5 DEF SlotsHoldAccepted
    <3> QED BY <3>1, <3>2
  <2>8. RequestForPop'
    BY <2>1, <2>2 DEF RequestForPop
  <2>9. RoomForPush' /\ WrittenSlot' /\ CopiedSlot'
    BY <2>1 DEF RoomForPush, WrittenSlot, CopiedSlot
  <2> QED BY <2>3, <2>6, <2>7, <2>8, <2>9
<1>4. CASE PopCheck
  BY <1>4 DEF PopCheck, ring, history, TypeOK, DeliveredInOrder, RoomForPush, RequestForPop,
     WrittenSlot, CopiedSlot, SlotsHoldAccepted, DataCount, SlotAt
<1>5. CASE PopCopy
  BY <1>5 DEF PopCopy, ring, history, TypeOK, DeliveredInOrder, RoomForPush, RequestForPop,
     WrittenSlot, CopiedSlot, SlotsHoldAccepted, DataCount, SlotAt
<1>6. CASE PopAdvance
  <2>1. /\ tail' = NextSlot(tail) /\ delivered' = Append(delivered, request)
        /\ popPc = "advance" /\ popPc' = "apply"
        /\ UNCHANGED <<requests, head, pushPc, pushed, request, mapping, accepted, dropped>>
    BY <1>6 DEF PopAdvance
  <2>2. /\ head \in Slot /\ tail \in Slot /\ tail' \in Slot /\ head # tail
        /\ tail' = IF tail = BufferSize - 1 THEN 0 ELSE tail + 1
    BY <2>1, NextSlotValue DEF TypeOK, RequestForPop
  <2>3. TypeOK'
    <3>1. delivered' \in Seq(Request)
      BY <2>1 DEF TypeOK
    <3> QED BY <2>1, <2>2, <3>1 DEF TypeOK
  <2>4. /\ DataCount' = DataCount - 1 /\ DataCount \in Nat \ {0}
        /\ SlotAt(0) = tail
        /\ \A i \in 0..(DataCount - 2) : SlotAt(i)' = SlotAt(i + 1)
    BY <2>1, <2>2, BufferSizeAssumption DEF DataCount, SlotAt, Slot
  <2>5. /\ Len(delivered') = Len(delivered) + 1
        /\ \A i \in 1..Len(delivered) : delivered'[i] = delivered[i]
        /\ delivered'[Len(delivered) + 1] = request
    BY <2>1 DEF TypeOK
  <2>6. request = AsRequest(accepted[Len(delivered) + 1])
    BY <2>1, <2>4 DEF CopiedSlot, SlotsHoldAccepted, TypeOK
  <2>7. DeliveredInOrder'
    BY <2>1, <2>4, <2>5, <2>6 DEF DeliveredInOrder, TypeOK
  <2>8. SlotsHoldAccepted'
    <3> SUFFICES ASSUME NEW i \in 0..(DataCount - 2)
                 PROVE  requests[SlotAt(i + 1)]
                          = AsRequest(accepted[Len(delivered) + (i + 1) + 1])
      BY <2>1, <2>4, <2>5 DEF SlotsHoldAccepted, TypeOK
    <3>1. i + 1 \in 0..(DataCount - 1)
      BY <2>4
    <3> QED BY <3>1 DEF SlotsHoldAccepted
  <2>9. RoomForPush'
    <3>1. NextSlot(head) = IF head = BufferSize - 1 THEN 0 ELSE head + 1
      BY <2>2, NextSlotValue
    <3>2. NextSlot(head) # tail'
      BY <2>2, <3>1, BufferSizeAssumption DEF Slot
    <3> QED BY <2>1, <3>2 DEF RoomForPush, NextSlot
  <2>10. RequestForPop' /\ WrittenSlot' /\ CopiedSlot'
    BY <2>1 DEF RequestForPop, WrittenSlot, CopiedSlot
  <2> QED BY <2>3, <2>7, <2>8, <2>9, <2>10
<1>7. CASE Apply
  <2>1. TypeOK'
    <3>1. request.sensitivity \in Int
      <4>1. request \in Request
        BY DEF TypeOK
      <4>2. request.sensitivity \in 0..255
        BY <4>1 DEF Request
      <4> QED BY <4>2
    <3>2. mapping' \in [Registered -> -127..127]
      BY <1>7, <3>1, LimitedRange DEF Apply, TypeOK
    <3> QED BY <1>7, <3>2 DEF Apply, TypeOK, ring, history
  <2> QED
    BY <1>7, <2>1 DEF Apply, ring, history, DeliveredInOrder, RoomForPush, RequestForPop,
       WrittenSlot, CopiedSlot, SlotsHoldAccepted, DataCount, SlotAt
<1>8. CASE UNCHANGED vars
  BY <1>8 DEF vars, TypeOK, DeliveredInOrder, RoomForPush, RequestForPop,
     WrittenSlot, CopiedSlot, SlotsHoldAccepted, DataCount, SlotAt
<1> QED
  BY <1>1, <1>2, <1>3, <1>4, <1>5, <1>6, <1>7, <1>8 DEF Next, Core0, Core1

(* Every reachable state satisfies the inductive invariant. *)
THEOREM Inductive == Spec => []IInv
BY InitIInv, NextIInv, PTL DEF Spec

(* The indices stay inside the array, the program counters and the values in
   their ranges, for every ring size and every set of channels. *)
THEOREM TypeCorrect == Spec => []TypeOK
BY Inductive, PTL DEF IInv

(* Accepted requests are delivered once and in order: SensitivityRequestBuffer
   neither loses nor duplicates nor reorders, however the cores interleave. *)
THEOREM InOrder == Spec => []DeliveredInOrder
BY Inductive, PTL DEF IInv

(* The slot core 1 is writing is never the one core 0 is copying. *)
THEOREM RaceFree == Spec => []NoSlotRace
<1>1. IInv => NoSlotRace
  BY DEF IInv, NoSlotRace, RequestForPop
<1> QED BY <1>1, Inductive, PTL

-----------------------------------------------------------------------------
(* What a push and a pop do to the abstract queue. *)
LEMMA PublishPuts == IInv /\ PushPublish => Fifo!Put
<1> SUFFICES ASSUME IInv, PushPublish PROVE Fifo!Put
  OBVIOUS
<1> USE DEF IInv
<1>1. /\ head' = NextSlot(head) /\ pushPc = "publish"
      /\ UNCHANGED <<requests, tail, delivered>>
  BY DEF PushPublish
<1>2. /\ head \in Slot /\ tail \in Slot /\ head' # tail
      /\ head' = IF head = BufferSize - 1 THEN 0 ELSE head + 1
  BY <1>1, NextSlotValue DEF TypeOK, RoomForPush
<1>3. /\ DataCount' = DataCount + 1 /\ DataCount \in Nat /\ DataCount < BufferSize - 1
      /\ \A i : SlotAt(i)' = SlotAt(i)
      /\ SlotAt(DataCount) = head
  BY <1>1, <1>2, BufferSizeAssumption DEF DataCount, SlotAt, Slot
<1>4. requests[head] \in Request
  BY <1>2 DEF TypeOK
<1>5. Contents \in Seq(Request) /\ Len(Contents) = DataCount
  BY <1>2, <1>3, OccupiedSlots DEF Contents, TypeOK
<1>6. Contents' = Append(Contents, requests[head])
  BY <1>1, <1>3, <1>5 DEF Contents
<1> QED BY <1>1, <1>3, <1>4, <1>5, <1>6 DEF Fifo!Put

LEMMA AdvanceGets == IInv /\ PopAdvance => Fifo!Get
<1> SUFFICES ASSUME IInv, PopAdvance PROVE Fifo!Get
  OBVIOUS
<1> USE DEF IInv
<1>1. /\ tail' = NextSlot(tail) /\ popPc = "advance" /\ delivered' = Append(delivered, request)
      /\ UNCHANGED <<requests, head>>
  BY DEF PopAdvance
<1>2. /\ head \in Slot /\ tail \in Slot /\ head # tail /\ request = requests[tail]
      /\ tail' = IF tail = BufferSize - 1 THEN 0 ELSE tail + 1
  BY <1>1, NextSlotValue DEF TypeOK, RequestForPop, CopiedSlot
<1>3. /\ DataCount' = DataCount - 1 /\ DataCount \in Nat \ {0}
      /\ SlotAt(0) = tail
      /\ \A i \in 0..(DataCount - 2) : SlotAt(i)' = SlotAt(i + 1)
  BY <1>1, <1>2, BufferSizeAssumption DEF DataCount, SlotAt, Slot
<1>4. Contents \in Seq(Request) /\ Len(Contents) = DataCount
  BY <1>2, <1>3, OccupiedSlots DEF Contents, TypeOK
<1>5. Head(Contents) = request
  BY <1>2, <1>3, <1>4 DEF Contents
<1>6. Contents' = Tail(Contents)
  BY <1>1, <1>3, <1>4 DEF Contents
<1> QED BY <1>1, <1>3, <1>4, <1>5, <1>6 DEF Fifo!Get

(* The ring of the code implements the bounded FIFO of its specification. *)
THEOREM Refinement == Spec => ImplementsFifo
<1>1. Init => Fifo!Init
  BY DEF Init, Fifo!Init, Contents, DataCount
<1>2. IInv /\ [Next]_vars => [Fifo!Next]_(Fifo!vars)
  <2> SUFFICES ASSUME IInv, [Next]_vars PROVE [Fifo!Next]_(Fifo!vars)
    OBVIOUS
  <2>1. CASE PushPublish
    BY <2>1, PublishPuts DEF Fifo!Next
  <2>2. CASE PopAdvance
    BY <2>2, AdvanceGets DEF Fifo!Next
  <2>3. CASE PushWrite
    <3>1. /\ requests' = [requests EXCEPT ![head] = AsRequest(pushed)]
          /\ UNCHANGED <<head, tail, delivered>>
      BY <2>3 DEF PushWrite, history
    <3>2. DataCount' = DataCount /\ \A i : SlotAt(i)' = SlotAt(i)
      BY <3>1 DEF DataCount, SlotAt
    <3>3. Contents' = Contents
      BY <3>1, <3>2, OccupiedSlots DEF Contents, IInv, TypeOK
    <3> QED BY <3>1, <3>3 DEF Fifo!vars
  <2>4. CASE PushCheck \/ PopCheck \/ PopCopy \/ Apply \/ UNCHANGED vars
    <3>1. UNCHANGED <<requests, head, tail, delivered>>
      BY <2>4 DEF PushCheck, PopCheck, PopCopy, Apply, vars, ring, history
    <3> QED BY <3>1 DEF Fifo!vars, Contents, DataCount, SlotAt
  <2> QED BY <2>1, <2>2, <2>3, <2>4 DEF Next, Core0, Core1
<1> QED BY <1>1, <1>2, Inductive, PTL DEF Spec, Fifo!Spec, ImplementsFifo

-----------------------------------------------------------------------------
(* How many of the delivered requests have been applied: task0 applies one
   before it pops the next. *)
Applied == IF popPc = "apply" THEN Len(delivered) - 1 ELSE Len(delivered)

HasLast(c, n) ==
  RequestsFor(c, n) = {} \/ \E i \in RequestsFor(c, n) : \A j \in RequestsFor(c, n) : j <= i

MappingFollows ==
  /\ popPc = "apply" => delivered # << >> /\ request = delivered[Len(delivered)]
  /\ \A c \in Registered : HasLast(c, Applied) /\ mapping[c] = LastAsked(c, Applied)

(* One more request changes the last value asked for its own channel only. *)
LEMMA LastAskedStep ==
  ASSUME NEW c, NEW n \in Nat, HasLast(c, n)
  PROVE  /\ HasLast(c, n + 1)
         /\ LastAsked(c, n + 1) =
              IF accepted[n + 1].channel = c
                THEN Limited(c, ToUint8(accepted[n + 1].sensitivity))
                ELSE LastAsked(c, n)
<1>1. CASE accepted[n + 1].channel = c
  <2>1. n + 1 \in RequestsFor(c, n + 1) /\ \A j \in RequestsFor(c, n + 1) : j <= n + 1 /\ j \in Int
    BY <1>1 DEF RequestsFor
  <2>2. Latest(RequestsFor(c, n + 1)) = n + 1
    BY <2>1 DEF Latest
  <2> QED BY <1>1, <2>1, <2>2 DEF LastAsked, HasLast
<1>2. CASE accepted[n + 1].channel # c
  <2>1. RequestsFor(c, n + 1) = RequestsFor(c, n)
    BY <1>2 DEF RequestsFor
  <2> QED BY <1>2, <2>1 DEF LastAsked, HasLast
<1> QED BY <1>1, <1>2

LEMMA MappingStep == IInv /\ MappingFollows /\ [Next]_vars => MappingFollows'
<1> SUFFICES ASSUME IInv, MappingFollows, [Next]_vars PROVE MappingFollows'
  OBVIOUS
<1> USE DEF IInv
<1>1. accepted \in Seq(Asked) /\ delivered \in Seq(Request) /\ Len(delivered) <= Len(accepted)
  <2>1. DataCount \in Nat
    BY OccupiedSlots DEF TypeOK
  <2> QED BY <2>1 DEF TypeOK, DeliveredInOrder
<1>2. CASE PushPublish
  <2>1. /\ accepted' = Append(accepted, pushed)
        /\ UNCHANGED <<popPc, request, mapping, delivered>>
    BY <1>2 DEF PushPublish
  <2>2. Applied \in 0..Len(accepted) /\ Applied' = Applied
    BY <1>1, <2>1 DEF Applied, MappingFollows
  <2>3. \A i \in 1..Len(accepted) : accepted'[i] = accepted[i]
    BY <1>1, <2>1 DEF TypeOK
  <2>4. ASSUME NEW c \in Registered
        PROVE  HasLast(c, Applied)' /\ LastAsked(c, Applied)' = LastAsked(c, Applied)
    <3>1. \A i \in 1..Applied : accepted'[i] = accepted[i]
      BY <2>2, <2>3
    <3>2. RequestsFor(c, Applied)' = RequestsFor(c, Applied)
      BY <2>2, <3>1 DEF RequestsFor
    <3>3. HasLast(c, Applied)'
      BY <3>2, <2>2 DEF HasLast, MappingFollows
    <3>4. CASE RequestsFor(c, Applied) = {}
      BY <3>2, <3>3, <3>4 DEF LastAsked
    <3>5. CASE RequestsFor(c, Applied) # {}
      <4> DEFINE last == Latest(RequestsFor(c, Applied))
      <4>1. last \in 1..Applied
        <5>1. last \in RequestsFor(c, Applied)
          BY <3>5 DEF MappingFollows, HasLast, Latest
        <5> QED BY <5>1 DEF RequestsFor
      <4>2. LastAsked(c, Applied) = Limited(c, ToUint8(accepted[last].sensitivity))
        BY <3>5 DEF LastAsked
      <4>3. LastAsked(c, Applied)' = Limited(c, ToUint8(accepted'[last].sensitivity))
        BY <3>5, <3>2 DEF LastAsked
      <4>4. accepted'[last] = accepted[last]
        BY <4>1, <3>1
      <4> QED BY <4>2, <4>3, <4>4, <3>3
    <3> QED BY <3>3, <3>4, <3>5
  <2> QED BY <2>1, <2>4 DEF MappingFollows
<1>3. CASE PopAdvance
  <2>1. /\ popPc = "advance" /\ popPc' = "apply" /\ delivered' = Append(delivered, request)
        /\ UNCHANGED <<request, mapping, accepted>>
    BY <1>3 DEF PopAdvance
  <2>2. Len(delivered') = Len(delivered) + 1 /\ delivered'[Len(delivered')] = request
    BY <1>1, <2>1 DEF TypeOK
  <2>3. Applied' = Applied
    BY <1>1, <2>1, <2>2 DEF Applied
  <2>4. ASSUME NEW c \in Registered
        PROVE  HasLast(c, Applied)' /\ LastAsked(c, Applied)' = LastAsked(c, Applied)
    <3>1. RequestsFor(c, Applied)' = RequestsFor(c, Applied)
      BY <2>1, <2>3 DEF RequestsFor
    <3> QED BY <2>1, <3>1 DEF MappingFollows, HasLast, LastAsked
  <2>5. delivered' # << >>
    BY <2>1, <1>1, <2>2
  <2> QED BY <2>1, <2>2, <2>4, <2>5 DEF MappingFollows
<1>4. CASE Apply
  <2>1. /\ popPc = "apply" /\ popPc' = "check" /\ UNCHANGED <<request, accepted, delivered>>
        /\ mapping' = IF request.channel \in Registered
                        THEN [mapping EXCEPT ![request.channel] =
                                Limited(request.channel, request.sensitivity)]
                        ELSE mapping
    BY <1>4 DEF Apply, history
  <2>2. Applied \in Nat /\ Len(delivered) = Applied + 1 /\ Applied' = Applied + 1
    BY <1>1, <2>1 DEF Applied, MappingFollows
  <2>3. request = AsRequest(accepted[Applied + 1])
    BY <1>1, <2>1, <2>2 DEF MappingFollows, DeliveredInOrder
  <2>4. ASSUME NEW c \in Registered
        PROVE  HasLast(c, Applied + 1) /\ mapping'[c] = LastAsked(c, Applied + 1)
    <3>1. /\ HasLast(c, Applied + 1)
          /\ LastAsked(c, Applied + 1) =
               IF request.channel = c THEN Limited(c, request.sensitivity)
               ELSE LastAsked(c, Applied)
      BY <2>2, <2>3, LastAskedStep DEF AsRequest, MappingFollows
    <3> QED BY <2>1, <3>1 DEF MappingFollows, TypeOK
  <2>5. \A c : /\ LastAsked(c, Applied)' = LastAsked(c, Applied + 1)
               /\ HasLast(c, Applied)' = HasLast(c, Applied + 1)
    BY <2>1, <2>2 DEF LastAsked, HasLast, RequestsFor
  <2> QED BY <2>1, <2>4, <2>5 DEF MappingFollows
<1>5. CASE PushCheck \/ PushWrite \/ PopCheck \/ PopCopy \/ UNCHANGED vars
  <2>1. UNCHANGED <<mapping, accepted, delivered>>
    BY <1>5 DEF PushCheck, PushWrite, PopCheck, PopCopy, vars, history
  <2>2. \/ popPc' = popPc /\ request' = request
        \/ popPc # "apply" /\ popPc' # "apply"
    BY <1>5 DEF PushCheck, PushWrite, PopCheck, PopCopy, vars
  <2>3. Applied' = Applied
    BY <2>1, <2>2 DEF Applied
  <2>4. \A c : /\ LastAsked(c, Applied)' = LastAsked(c, Applied)
               /\ HasLast(c, Applied)' = HasLast(c, Applied)
    BY <2>1, <2>3 DEF LastAsked, HasLast, RequestsFor
  <2> QED BY <2>1, <2>2, <2>4 DEF MappingFollows
<1> QED BY <1>2, <1>3, <1>4, <1>5 DEF Next, Core0, Core1

(* A caught-up core 0 has left in the mapping what each channel was last
   asked for, however many requests there were. *)
THEOREM Settled == Spec => []SettledToLastRequest
<1>1. Init => MappingFollows
  BY DEF Init, MappingFollows, Applied, LastAsked, HasLast, RequestsFor
<1>2. IInv /\ MappingFollows => SettledToLastRequest
  <2> SUFFICES ASSUME IInv, MappingFollows, popPc = "check", head = tail
               PROVE  \A c \in Registered : mapping[c] = LastAsked(c, Len(accepted))
    BY DEF SettledToLastRequest
  <2>1. DataCount = 0 /\ Len(accepted) = Len(delivered) /\ Applied = Len(delivered)
    BY DEF IInv, DeliveredInOrder, DataCount, Applied, TypeOK, Slot
  <2> QED BY <2>1 DEF MappingFollows
<1> QED BY <1>1, <1>2, MappingStep, Inductive, PTL DEF Spec

-----------------------------------------------------------------------------
(* Induction, from the least element of a set of numbers: the theorem of the *)
(* library takes an operator, this one a set.                                *)
LEMMA Least ==
  ASSUME NEW T, T \subseteq Nat, T # {}
  PROVE  \E x \in T : \A y \in T : x <= y
<1> DEFINE R == {ss \in Nat \X Nat : ss[1] < ss[2]}
<1>1. IsWellFoundedOn(R, Nat)
  BY NatLessThanWellFounded, Zenon DEF OpToRel
<1> HIDE DEF R
<1>2. \E x \in T : \A y \in T : ~ (<<y, x>> \in R)
  BY <1>1, WFMin
<1>3. \A x, y \in Nat : x < y => <<x, y>> \in R
  BY DEF R
<1>4. PICK x \in T : \A y \in T : ~ (<<y, x>> \in R)
  BY <1>2
<1>5. ASSUME NEW y \in T PROVE x <= y
  <2>1. y < x => <<y, x>> \in R
    BY <1>3
  <2>2. ~ (y < x)
    BY <1>4, <2>1
  <2> QED BY <2>2
<1> QED BY <1>5

LEMMA Induct ==
  ASSUME NEW T, 0 \in T, \A n \in Nat : n \in T => n + 1 \in T
  PROVE  Nat \subseteq T
<1> SUFFICES ASSUME Nat \ T # {} PROVE FALSE
  OBVIOUS
<1>1. PICK x \in Nat \ T : \A y \in Nat \ T : x <= y
  BY Least
<1>2. x - 1 \in Nat /\ x - 1 \in T
  BY <1>1
<1> QED BY <1>1, <1>2

KeptUpTo(f, n, s, ks) ==
  f = [i \in 0..n |-> IF i = 0 THEN <<>>
                      ELSE IF s[i] \in ks THEN Append(f[i - 1], s[i]) ELSE f[i - 1]]

(* The recursion of Kept has a solution. *)
LEMMA KeptDefined ==
  ASSUME NEW S, NEW s \in Seq(S), NEW ks
  PROVE  \E f : KeptUpTo(f, Len(s), s, ks) /\ Kept(s, ks) = f[Len(s)]
<1> DEFINE f0 == CHOOSE f : KeptUpTo(f, Len(s), s, ks)
<1>1. Kept(s, ks) = f0[Len(s)]
  BY Zenon DEF Kept, KeptUpTo
<1>2. \E f : KeptUpTo(f, Len(s), s, ks)
  <2> DEFINE T == {n \in Nat : \E f : KeptUpTo(f, n, s, ks)}
  <2>1. 0 \in T
    <3>1. KeptUpTo([i \in 0..0 |-> <<>>], 0, s, ks)
      BY DEF KeptUpTo
    <3> QED BY <3>1
  <2>2. ASSUME NEW n \in Nat, n \in T PROVE n + 1 \in T
    <3>1. PICK f : KeptUpTo(f, n, s, ks)
      BY <2>2
    <3> DEFINE g == [i \in 0..(n + 1) |->
                       IF i = n + 1 THEN IF s[i] \in ks THEN Append(f[n], s[i]) ELSE f[n]
                       ELSE f[i]]
               Next1(h, i) == IF i = 0 THEN <<>>
                             ELSE IF s[i] \in ks THEN Append(h[i - 1], s[i]) ELSE h[i - 1]
    <3>2. f = [i \in 0..n |-> Next1(f, i)]
      BY <3>1, Zenon DEF KeptUpTo
    <3>3. ASSUME NEW i \in 0..(n + 1) PROVE g[i] = Next1(g, i)
      <4>1. CASE i = n + 1
        <5>1. g[n] = f[n] /\ i - 1 = n /\ i # 0
          BY <4>1
        <5> QED BY <4>1, <5>1
      <4>2. CASE i \in 1..n
        <5>1. g[i] = f[i] /\ g[i - 1] = f[i - 1] /\ i # 0
          BY <4>2
        <5>2. f[i] = Next1(f, i)
          <6> i \in 0..n
            BY <4>2
          <6> HIDE DEF g, Next1
          <6> QED BY <3>2
        <5> QED BY <5>1, <5>2
      <4>3. CASE i = 0
        BY <4>3, <3>2
      <4> QED BY <4>1, <4>2, <4>3
    <3>4. g = [i \in 0..(n + 1) |-> Next1(g, i)]
      <4>1. DOMAIN g = 0..(n + 1) /\ g = [i \in 0..(n + 1) |-> g[i]]
        OBVIOUS
      <4> HIDE DEF g, Next1
      <4> QED BY <3>3, <4>1
    <3>5. KeptUpTo(g, n + 1, s, ks)
      BY <3>4, Zenon DEF KeptUpTo
    <3> QED BY <3>5
  <2> HIDE DEF T
  <2>3. Len(s) \in T
    BY <2>1, <2>2, Induct
  <2> QED BY <2>3 DEF T
<1>3. KeptUpTo(f0, Len(s), s, ks)
  BY <1>2, Zenon
<1> QED BY <1>1, <1>3

NoRepeats(s) == \A a, b \in DOMAIN s : s[a] = s[b] => a = b

(* Kept keeps the elements that are in the set, and each as often as it was there. *)
LEMMA KeptElements ==
  ASSUME NEW S, NEW s \in Seq(S), NEW ks
  PROVE  /\ Kept(s, ks) \in Seq(S)
         /\ Range(Kept(s, ks)) = Range(s) \cap ks
         /\ NoRepeats(s) => NoRepeats(Kept(s, ks))
<1>1. PICK f : KeptUpTo(f, Len(s), s, ks) /\ Kept(s, ks) = f[Len(s)]
  BY KeptDefined
<1>2. \A i \in 0..Len(s) : f[i] = IF i = 0 THEN <<>>
         ELSE IF s[i] \in ks THEN Append(f[i - 1], s[i]) ELSE f[i - 1]
  BY <1>1 DEF KeptUpTo
<1> DEFINE Good(n) == /\ f[n] \in Seq(S)
                      /\ Range(f[n]) = {s[j] : j \in 1..n} \cap ks
                      /\ NoRepeats(s) => NoRepeats(f[n])
           T == {n \in Nat : n <= Len(s) => Good(n)}
<1>3. 0 \in T
  <2>1. f[0] = <<>>
    BY <1>2
  <2>2. f[0] \in Seq(S) /\ Range(f[0]) = {} /\ NoRepeats(f[0])
    BY <2>1 DEF Range, NoRepeats
  <2>3. {s[j] : j \in 1..0} = {}
    OBVIOUS
  <2> QED BY <2>2, <2>3
<1>4. ASSUME NEW n \in Nat, n \in T PROVE n + 1 \in T
  <2> SUFFICES ASSUME n + 1 <= Len(s) PROVE Good(n + 1)
    OBVIOUS
  <2>1. Good(n)
    BY <1>4
  <2>2. f[n + 1] = IF s[n + 1] \in ks THEN Append(f[n], s[n + 1]) ELSE f[n]
    BY <1>2
  <2>3. s[n + 1] \in S /\ \A j \in 1..n : j \in DOMAIN s /\ n + 1 \in DOMAIN s
    OBVIOUS
  <2>4. {s[j] : j \in 1..(n + 1)} = {s[j] : j \in 1..n} \cup {s[n + 1]}
    OBVIOUS
  <2> DEFINE p == f[n]
             x == s[n + 1]
  <2>5. CASE x \in ks
    <3>1. f[n + 1] = Append(p, x)
      BY <2>2, <2>5
    <3>2. p \in Seq(S) /\ Range(p) = {s[j] : j \in 1..n} \cap ks
      BY <2>1
    <3> HIDE DEF p
    <3>3. Append(p, x) \in Seq(S) /\ Range(Append(p, x)) = Range(p) \cup {x}
      <4>1. /\ Append(p, x) \in Seq(S) /\ Len(Append(p, x)) = Len(p) + 1
            /\ \A j \in 1..Len(p) : Append(p, x)[j] = p[j]
            /\ Append(p, x)[Len(p) + 1] = x
        BY <3>2, <2>3
      <4>2. DOMAIN Append(p, x) = DOMAIN p \cup {Len(p) + 1}
        BY <3>2, <4>1
      <4> QED BY <3>2, <4>1, <4>2 DEF Range
    <3>4. ASSUME NoRepeats(s) PROVE NoRepeats(Append(p, x))
      <4>1. NoRepeats(p)
        BY <3>4, <2>1 DEF p
      <4>2. x \notin Range(p)
        <5>1. \A j \in 1..n : s[j] # s[n + 1]
          BY <3>4, <2>3 DEF NoRepeats
        <5> QED BY <5>1, <3>2
      <4> QED BY <4>1, <4>2, <3>2, <2>3 DEF NoRepeats, Range
    <3> QED BY <3>1, <3>2, <3>3, <3>4, <2>4, <2>5
  <2>6. CASE x \notin ks
    <3>1. f[n + 1] = f[n]
      BY <2>2, <2>6
    <3> QED BY <3>1, <2>1, <2>4, <2>6
  <2> QED BY <2>5, <2>6
<1> HIDE DEF T
<1>5. Len(s) \in T
  BY <1>3, <1>4, Induct
<1>6. Good(Len(s))
  BY <1>5 DEF T
<1>7. {s[j] : j \in 1..Len(s)} = Range(s)
  BY DEF Range
<1> QED BY <1>1, <1>6, <1>7

-----------------------------------------------------------------------------
(* What the keyboard state of HID is: keys that are not modifiers, none twice. *)
KeyState == /\ keys \in Seq(Key \ Modifiers) /\ NoRepeats(keys)
            /\ mods \in SUBSET Modifiers /\ changed \in BOOLEAN

LEMMA KeysFinite ==
  /\ IsFiniteSet(Key) /\ NoRepeats(Supported)
  /\ \A s \in Seq(Key) : NoRepeats(s) => Len(s) <= Cardinality(Key)
<1>1. /\ Supported \in Seq(Key) /\ Range(Supported) = Key /\ Len(Supported) = Cardinality(Key)
  BY HidAssumption
<1>2. IsFiniteSet(1..Len(Supported)) /\ Cardinality(1..Len(Supported)) = Len(Supported)
  BY <1>1, FS_Interval
<1>3. Supported \in Surjection(1..Len(Supported), Key)
  BY <1>1 DEF Surjection, Range
<1>4. IsFiniteSet(Key) /\ Supported \in Injection(1..Len(Supported), Key)
  BY <1>1, <1>2, <1>3, FS_Surjection
<1>5. NoRepeats(Supported)
  BY <1>1, <1>4 DEF Injection, IsInjective, NoRepeats
<1>6. ASSUME NEW s \in Seq(Key), NoRepeats(s) PROVE Len(s) <= Cardinality(Key)
  <2>1. s \in Injection(1..Len(s), Key)
    BY <1>6 DEF Injection, IsInjective, NoRepeats
  <2>2. Cardinality(1..Len(s)) = Len(s)
    <3>1. Len(s) \in Nat /\ Len(s) \in Int /\ 1 \in Int
      OBVIOUS
    <3> HIDE <1>6
    <3> QED BY <3>1, FS_Interval, SMTT(20)
  <2> QED BY <2>1, <2>2, <1>4, FS_Injection
<1> QED BY <1>4, <1>5, <1>6

(* SetKeys does what its name says, and no key is cut off for want of room. *)
LEMMA SetKeysSets ==
  ASSUME KeyState, NEW d \in SUBSET Key, NEW u \in SUBSET Key, d \cap u = {}, SetKeys(d, u)
  PROVE  KeyState' /\ Pressed' = (Pressed \ u) \cup d
<1> DEFINE r == Remaining(u)
           a == Added(d)
           s == r \o a
           K == Key \ Modifiers
<1>1. r \in Seq(K) /\ Range(r) = Range(keys) \ u /\ NoRepeats(r)
  <2>1. Range(keys) \subseteq Key
    BY DEF KeyState, Range
  <2> QED BY <2>1, KeptElements DEF KeyState, Remaining
<1>2. a \in Seq(K) /\ Range(a) = (d \ Modifiers) \ Range(keys) /\ NoRepeats(a)
  <2>1. a \in Seq(Key) /\ Range(a) = (d \ Modifiers) \ Range(keys) /\ NoRepeats(a)
    BY HidAssumption, KeysFinite, KeptElements DEF Added, Plain
  <2>2. \A j \in 1..Len(a) : a[j] \in K
    <3>1. \A j \in 1..Len(a) : a[j] \in Range(a)
      BY <2>1 DEF Range
    <3> QED BY <3>1, <2>1
  <2> QED BY <2>1, <2>2
<1> HIDE DEF r, a
<1>3. s \in Seq(K) /\ Range(s) = Range(r) \cup Range(a) /\ NoRepeats(s)
  <2>1. /\ s \in Seq(K) /\ Len(s) = Len(r) + Len(a)
        /\ \A j \in 1..Len(s) : s[j] = IF j <= Len(r) THEN r[j] ELSE a[j - Len(r)]
    BY <1>1, <1>2
  <2>2. \A j \in 1..Len(r) : r[j] = s[j] /\ j \in 1..Len(s)
    BY <2>1, <1>1, <1>2
  <2>3. \A j \in 1..Len(a) : a[j] = s[j + Len(r)] /\ j + Len(r) \in 1..Len(s)
    BY <2>1, <1>1, <1>2
  <2>4. \A j \in 1..Len(s) : \/ j \in 1..Len(r) /\ s[j] = r[j]
                             \/ j - Len(r) \in 1..Len(a) /\ s[j] = a[j - Len(r)]
    BY <2>1, <1>1, <1>2
  <2>5. /\ DOMAIN s = 1..Len(s) /\ DOMAIN r = 1..Len(r) /\ DOMAIN a = 1..Len(a)
        /\ Len(s) \in Nat /\ Len(r) \in Nat /\ Len(a) \in Nat
    BY <2>1, <1>1, <1>2
  <2> HIDE DEF s
  <2>6. Range(s) = Range(r) \cup Range(a)
    BY <2>2, <2>3, <2>4, <2>5 DEF Range
  <2>7. Range(r) \cap Range(a) = {}
    BY <1>1, <1>2
  <2>8. \A i \in 1..Len(r), j \in 1..Len(a) : r[i] # a[j]
    BY <2>5, <2>7 DEF Range
  <2>9. ASSUME NEW i \in 1..Len(s), NEW j \in 1..Len(s), s[i] = s[j] PROVE i = j
    <3>1. CASE i \in 1..Len(r) /\ s[i] = r[i] /\ j \in 1..Len(r) /\ s[j] = r[j]
      BY <3>1, <2>9, <1>1, <2>5 DEF NoRepeats
    <3>2. CASE i - Len(r) \in 1..Len(a) /\ s[i] = a[i - Len(r)]
               /\ j - Len(r) \in 1..Len(a) /\ s[j] = a[j - Len(r)]
      <4>1. i - Len(r) = j - Len(r)
        BY <3>2, <2>9, <1>2, <2>5 DEF NoRepeats
      <4> QED BY <4>1, <2>5
    <3> QED BY <3>1, <3>2, <2>4, <2>8, <2>9
  <2> QED BY <2>1, <2>5, <2>6, <2>9 DEF NoRepeats
<1>4. Len(s) <= Capacity
  <2>1. s \in Seq(Key)
    BY <1>3
  <2>2. Len(s) <= Cardinality(Key) /\ Cardinality(Key) \in Nat
    BY <2>1, <1>3, KeysFinite, FS_CardinalityType
  <2> QED BY <2>1, <2>2, KeyboardsAssumption, HidAssumption DEF Capacity
<1>5. keys' = s
  <2>1. keys' = Fitting(s)
    BY DEF SetKeys, r, a
  <2>2. Len(s) \in Nat /\ Capacity \in Nat
    BY <1>3, HidAssumption DEF Capacity
  <2> HIDE DEF s
  <2> QED BY <2>1, <2>2, <1>4 DEF Fitting
<1>6. mods' = (mods \ u) \cup (d \cap Modifiers) /\ changed' \in BOOLEAN
  BY DEF SetKeys, KeyState
<1>7. mods' \subseteq Modifiers
  BY <1>6 DEF KeyState
<1>8. Range(keys') = (Range(keys) \ u) \cup (d \ Modifiers)
  <2>1. Range(keys') = (Range(keys) \ u) \cup ((d \ Modifiers) \ Range(keys))
    BY <1>1, <1>2, <1>3, <1>5
  <2> QED BY <2>1
<1>9. Pressed' = (Pressed \ u) \cup d
  BY <1>6, <1>8 DEF Pressed
<1> QED BY <1>3, <1>5, <1>6, <1>7, <1>9 DEF KeyState

-----------------------------------------------------------------------------
(* What the keys of each source are, and where the checks are. *)
SourceState ==
  /\ bitmap \subseteq {PinKey[p] : p \in Pin}
  /\ pressed \in [M -> BOOLEAN] /\ stage \in [M -> {"none", "press", "release"}]
  /\ stamp \in [M -> Nat] /\ clock \in Nat
  /\ next \in Nat /\ (pc = "touch" => next \in M)
  /\ \A m \in M : /\ stage[m] = "release" => ~ pressed[m]
                  /\ Mappings[m].once \/ stage[m] = "none"

OwnedInv == KeyState /\ SourceState /\ KeysOwned

LEMMA MappingIs == \A m \in M : Mappings[m].key \in Key /\ Mappings[m].once \in BOOLEAN
<1> SUFFICES ASSUME NEW m \in M PROVE Mappings[m].key \in Key /\ Mappings[m].once \in BOOLEAN
  OBVIOUS
<1> DEFINE R == [areas : SUBSET Areas, hold : Nat, key : Key, once : BOOLEAN]
<1>1. Mappings \in Seq(R)
  BY KeyboardsAssumption
<1> HIDE DEF R
<1>2. Mappings[m] \in R
  BY <1>1 DEF M
<1> QED BY <1>2 DEF R

(* A key that two buttons, two mappings or one of each stand for has more than one source. *)
LEMMA SharedKey ==
  ASSUME NEW k, Sources(k) = 1
  PROVE  /\ ~ (k \in {PinKey[p] : p \in Pin} /\ \E m \in M : Mappings[m].key = k)
         /\ \A m, n \in M : Mappings[m].key = k /\ Mappings[n].key = k => m = n
<1> DEFINE P == {p \in Pin : PinKey[p] = k}
           Q == {m \in M : Mappings[m].key = k}
<1>1. IsFiniteSet(P) /\ Cardinality(P) = (IF P = {} THEN 0 ELSE 1)
  <2>1. CASE P = {}
    BY <2>1, FS_EmptySet
  <2>2. CASE P # {}
    <3>1. PICK p : p \in P
      BY <2>2
    <3>2. \A q \in P : q = p
      BY <3>1, KeyboardsAssumption
    <3>3. P = {p}
      BY <3>1, <3>2
    <3> QED BY <2>2, <3>3, FS_Singleton, ZenonT(30)
  <2> QED BY <2>1, <2>2
<1>2. IsFiniteSet(Q) /\ Cardinality(Q) \in Nat
  <2>1. Len(Mappings) \in Nat /\ M = 1..Len(Mappings)
    BY KeyboardsAssumption DEF M
  <2>2. IsFiniteSet(1..Len(Mappings))
    BY <2>1, FS_Interval
  <2>3. Q \in SUBSET (1..Len(Mappings))
    BY <2>1
  <2> QED BY <2>2, <2>3, FS_Subset, FS_CardinalityType
<1>3. Sources(k) = Cardinality(P) + Cardinality(Q)
  BY DEF Sources
<1>4. Cardinality(P) \in Nat
  BY <1>1
<1> HIDE DEF P, Q
<1>5. Cardinality(P) = 0 \/ Cardinality(Q) = 0
  BY <1>2, <1>3, <1>4
<1>6. Cardinality(Q) <= 1
  BY <1>2, <1>3, <1>4
<1>7. P = {} \/ Q = {}
  BY <1>1, <1>2, <1>5, FS_EmptySet
<1>8. \A m, n \in Q : m = n
  <2>1. Cardinality(Q) = 0 \/ Cardinality(Q) = 1
    BY <1>2, <1>6
  <2>2. Q = {} \/ \E x : Q = {x}
    BY <1>2, <2>1, FS_EmptySet, FS_Singleton
  <2> QED BY <2>2
<1> QED BY <1>7, <1>8 DEF P, Q

LEMMA OwnedStart == KeyboardsInit => OwnedInv
<1> SUFFICES ASSUME KeyboardsInit PROVE OwnedInv
  OBVIOUS
<1>1. KeyState
  <2>1. keys = <<>> /\ mods = {} /\ changed = FALSE
    BY DEF KeyboardsInit, HidInit
  <2>2. <<>> \in Seq(Key \ Modifiers) /\ NoRepeats(<<>>)
    BY DEF NoRepeats
  <2> QED BY <2>1, <2>2 DEF KeyState
<1>2. SourceState
  BY DEF KeyboardsInit, SourceState
<1>3. Pressed = {} /\ bitmap = {} /\ ByTouch = {}
  BY DEF KeyboardsInit, HidInit, Pressed, ByTouch, Range
<1>4. KeysOwned
  BY <1>3 DEF KeysOwned
<1> QED BY <1>1, <1>2, <1>4 DEF OwnedInv

(* The buttons: a key changes in HID exactly when it changes in the bitmap. *)
LEMMA ButtonsOwned == OwnedInv /\ ProcessGPIOKeyboard => OwnedInv'
<1> SUFFICES ASSUME OwnedInv, ProcessGPIOKeyboard PROVE OwnedInv'
  OBVIOUS
<1> DEFINE d == NewBitmap \ bitmap
           u == bitmap \ NewBitmap
           PinKeys == {PinKey[p] : p \in Pin}
<1>1. /\ bitmap' = NewBitmap /\ SetKeys(d, u) /\ pc' = AfterButtons /\ next' = 1
      /\ UNCHANGED <<pressed, stage, stamp, clock>>
  BY DEF ProcessGPIOKeyboard
<1>2. NewBitmap \subseteq PinKeys /\ bitmap \subseteq PinKeys /\ PinKeys \subseteq Key
  <2>1. Flipped \subseteq Pin
    BY KeyboardsAssumption DEF Flipped
  <2> QED BY <2>1, KeyboardsAssumption DEF NewBitmap, OwnedInv, SourceState
<1>3. KeyState' /\ Pressed' = (Pressed \ u) \cup d
  <2>1. d \in SUBSET Key /\ u \in SUBSET Key /\ d \cap u = {}
    BY <1>2
  <2> HIDE DEF d, u
  <2> QED BY <1>1, <2>1, SetKeysSets DEF OwnedInv
<1>4. ByTouch' = ByTouch
  BY <1>1 DEF ByTouch
<1>5. SourceState'
  <2>1. pc' = "touch" => 1 \in M
    BY <1>1, KeyboardsAssumption DEF AfterButtons, M
  <2> QED BY <1>1, <1>2, <2>1 DEF OwnedInv, SourceState
<1>6. Pressed' \subseteq bitmap' \cup ByTouch'
  BY <1>1, <1>3, <1>4 DEF OwnedInv, KeysOwned
<1>7. ASSUME NEW k \in bitmap' \cup ByTouch', Sources(k) = 1 PROVE k \in Pressed'
  <2>1. CASE k \in NewBitmap
    BY <2>1, <1>3, <1>7 DEF OwnedInv, KeysOwned
  <2>2. CASE k \in ByTouch
    <3>1. k \in Pressed
      BY <2>2, <1>7 DEF OwnedInv, KeysOwned
    <3>2. \E m \in M : Mappings[m].key = k
      BY <2>2 DEF ByTouch
    <3>3. k \notin u
      BY <3>2, <1>2, <1>7, SharedKey
    <3> QED BY <3>1, <3>3, <1>3
  <2> QED BY <2>1, <2>2, <1>1, <1>4, <1>7
<1> QED BY <1>3, <1>5, <1>6, <1>7 DEF OwnedInv, KeysOwned

(* What the check of a mapping does to the keys of HID. *)
LEMMA PressOwned ==
  ASSUME OwnedInv, NEW m \in M, PressKey(m), bitmap' = bitmap,
         pressed' = [pressed EXCEPT ![m] = TRUE]
  PROVE  KeyState' /\ KeysOwned'
<1> DEFINE k0 == Mappings[m].key
<1>1. KeyState' /\ Pressed' = Pressed \cup {k0}
  <2>1. KeyState' /\ Pressed' = (Pressed \ {}) \cup {k0}
    BY MappingIs, SetKeysSets DEF OwnedInv, PressKey
  <2> QED BY <2>1
<1>2. ByTouch' = ByTouch \cup {k0}
  BY DEF ByTouch, OwnedInv, SourceState
<1> QED BY <1>1, <1>2 DEF OwnedInv, KeysOwned

LEMMA ReleaseOwned ==
  ASSUME OwnedInv, NEW m \in M, ReleaseKey(m), bitmap' = bitmap,
         pressed' = [pressed EXCEPT ![m] = FALSE]
  PROVE  KeyState' /\ KeysOwned'
<1> DEFINE k0 == Mappings[m].key
<1>1. KeyState' /\ Pressed' = Pressed \ {k0}
  <2>1. KeyState' /\ Pressed' = (Pressed \ {k0}) \cup {}
    BY MappingIs, SetKeysSets DEF OwnedInv, ReleaseKey
  <2> QED BY <2>1
<1>2. /\ ByTouch' \subseteq ByTouch
      /\ \A k \in ByTouch : k # k0 => k \in ByTouch'
      /\ \A k \in ByTouch' : \E n \in M : n # m /\ Mappings[n].key = k
  <2>1. \A n \in M : pressed'[n] = IF n = m THEN FALSE ELSE pressed[n]
    BY DEF OwnedInv, SourceState
  <2> QED BY <2>1 DEF ByTouch
<1>3. Pressed' \subseteq bitmap' \cup ByTouch'
  BY <1>1, <1>2 DEF OwnedInv, KeysOwned
<1>4. ASSUME NEW k \in bitmap' \cup ByTouch', Sources(k) = 1 PROVE k \in Pressed'
  <2>1. k \in Pressed
    BY <1>2, <1>4 DEF OwnedInv, KeysOwned
  <2>2. k # k0
    <3>1. CASE k \in bitmap
      BY <3>1, <1>4, SharedKey DEF OwnedInv, SourceState
    <3>2. CASE k \in ByTouch'
      BY <3>2, <1>2, <1>4, SharedKey
    <3> QED BY <3>1, <3>2, <1>4
  <2> QED BY <2>1, <2>2, <1>1
<1> QED BY <1>1, <1>3, <1>4 DEF KeysOwned

LEMMA CheckOwned == OwnedInv /\ CheckTouchKeyboardTrigger => OwnedInv'
<1> SUFFICES ASSUME OwnedInv, CheckTouchKeyboardTrigger PROVE OwnedInv'
  OBVIOUS
<1>1. /\ next \in M /\ CheckMapping(next) /\ bitmap' = bitmap /\ clock' = clock
      /\ IF next + 1 \in M THEN pc' = pc /\ next' = next + 1 ELSE pc' = "task" /\ next' = 1
  BY DEF CheckTouchKeyboardTrigger, OwnedInv, SourceState, inputs
<1>2. next' \in Nat /\ (pc' = "touch" => next' \in M)
  BY <1>1 DEF OwnedInv, SourceState
<1>3. stamp' \in [M -> Nat]
  BY <1>1 DEF CheckMapping, Left, Stamp, OwnedInv, SourceState
<1>4. CASE TriggerOnce(next) \/ TriggerHeld(next)
  <2>1. KeyState' /\ KeysOwned'
    BY <1>1, <1>4, PressOwned DEF TriggerOnce, TriggerHeld
  <2>2. /\ pressed' = [pressed EXCEPT ![next] = TRUE]
        /\ stage' = [stage EXCEPT ![next] = IF Mappings[next].once THEN "press" ELSE stage[next]]
        /\ Mappings[next].once => stage'[next] = "press"
        /\ ~ Mappings[next].once => stage[next] = "none"
    BY <1>1, <1>4 DEF TriggerOnce, TriggerHeld, OwnedInv, SourceState
  <2>3. SourceState'
    BY <1>1, <1>2, <1>3, <2>2 DEF OwnedInv, SourceState
  <2> QED BY <2>1, <2>3 DEF OwnedInv
<1>5. CASE FinishOnce(next)
  <2>1. KeyState' /\ KeysOwned'
    BY <1>1, <1>5, ReleaseOwned DEF FinishOnce
  <2>2. SourceState'
    BY <1>1, <1>2, <1>3, <1>5 DEF FinishOnce, OwnedInv, SourceState
  <2> QED BY <2>1, <2>2 DEF OwnedInv
<1>6. CASE SpentOnce(next) \/ Waiting(next)
  <2>1. pressed' = pressed /\ stage' = stage /\ KeepKeys
    BY <1>1, <1>6 DEF SpentOnce, Waiting, OwnedInv, SourceState
  <2>2. KeyState' /\ KeysOwned'
    BY <1>1, <2>1 DEF KeepKeys, OwnedInv, KeyState, KeysOwned, Pressed, ByTouch
  <2>3. SourceState'
    BY <1>1, <1>2, <1>3, <2>1 DEF OwnedInv, SourceState
  <2> QED BY <2>2, <2>3 DEF OwnedInv
<1>7. CASE Left(next)
  <2>1. KeyState' /\ KeysOwned'
    <3>1. CASE pressed[next]
      BY <1>1, <1>7, <3>1, ReleaseOwned DEF Left
    <3>2. CASE ~ pressed[next]
      <4>1. pressed' = pressed /\ KeepKeys
        BY <1>1, <1>7, <3>2 DEF Left, OwnedInv, SourceState
      <4> QED BY <1>1, <4>1 DEF KeepKeys, OwnedInv, KeyState, KeysOwned, Pressed, ByTouch
    <3> QED BY <3>1, <3>2
  <2>2. SourceState'
    BY <1>1, <1>2, <1>3, <1>7 DEF Left, OwnedInv, SourceState
  <2> QED BY <2>1, <2>2 DEF OwnedInv
<1> QED BY <1>1, <1>4, <1>5, <1>6, <1>7 DEF CheckMapping

LEMMA OwnedSteps == OwnedInv /\ [KeyboardsNext]_keyboardsVars => OwnedInv'
<1> SUFFICES ASSUME OwnedInv, [KeyboardsNext]_keyboardsVars PROVE OwnedInv'
  OBVIOUS
<1>1. CASE /\ UNCHANGED <<keys, mods, bitmap, pressed, stage, stamp>>
           /\ changed' \in BOOLEAN /\ clock' \in Nat
           /\ next' \in Nat /\ (pc' = "touch" => next' \in M)
  BY <1>1 DEF OwnedInv, KeyState, SourceState, KeysOwned, Pressed, ByTouch
<1>2. CASE RegisterKeys \/ SendHIDTouchData \/ SwitchTouchKeys \/ UNCHANGED keyboardsVars
  BY <1>1, <1>2 DEF RegisterKeys, SendHIDTouchData, SwitchTouchKeys, keyboardsVars, keyVars,
     inputs, hidVars, OwnedInv, KeyState, SourceState
<1>3. CASE Task \/ Send
  BY <1>1, <1>3 DEF Task, Send, HidTask, SendReport, inputs, OwnedInv, KeyState, SourceState
<1>4. CASE MoveFingers \/ HostPolls
  BY <1>1, <1>4 DEF MoveFingers, HostPolls, Poll, keyVars, inputs, hidVars, OwnedInv, KeyState,
     SourceState
<1>5. CASE Tick
  BY <1>1, <1>5 DEF Tick, keyVars, inputs, hidVars, OwnedInv, KeyState, SourceState
<1> QED
  BY <1>2, <1>3, <1>4, <1>5, ButtonsOwned, CheckOwned DEF KeyboardsNext, Task1

(* For any keys, buttons and mappings, every key that is down has a source   *)
(* that holds it, and a key with one source follows it.                      *)
THEOREM KeysFollowSources == KeyboardsSpec => []KeysOwned
<1>1. OwnedInv => KeysOwned
  BY DEF OwnedInv
<1> QED BY <1>1, OwnedStart, OwnedSteps, PTL DEF KeyboardsSpec

(* What a step may do to a mapping that triggers once. *)
LEMMA OnceStep ==
  ASSUME OwnedInv, [KeyboardsNext]_keyboardsVars, NEW m \in M, Mappings[m].once
  PROVE  /\ ~ Fresh(m) /\ Fresh(m)' => ~ Matched(m)
         /\ ~ pressed[m] /\ pressed'[m] => Fresh(m)
<1>1. CASE UNCHANGED <<pressed, stage>>
  BY <1>1 DEF Fresh
<1>2. CASE CheckTouchKeyboardTrigger
  <2>1. next \in M /\ CheckMapping(next)
    BY <1>2 DEF CheckTouchKeyboardTrigger, OwnedInv, SourceState
  <2>2. CASE next # m
    <3>1. pressed'[m] = pressed[m] /\ stage'[m] = stage[m]
      BY <2>1, <2>2 DEF CheckMapping, TriggerOnce, FinishOnce, SpentOnce, TriggerHeld, Waiting,
         Left, OwnedInv, SourceState
    <3> QED BY <3>1 DEF Fresh
  <2>3. CASE next = m
    BY <2>1, <2>3 DEF CheckMapping, TriggerOnce, FinishOnce, SpentOnce, TriggerHeld, Waiting,
       Left, OwnedInv, SourceState, Fresh
  <2> QED BY <2>2, <2>3
<1>3. CASE ~ CheckTouchKeyboardTrigger
  BY <1>1, <1>3 DEF KeyboardsNext, Task1, RegisterKeys, ProcessGPIOKeyboard, SendHIDTouchData,
     Task, Send, SwitchTouchKeys, MoveFingers, Tick, HostPolls, keyboardsVars, keyVars
<1> QED BY <1>2, <1>3

(* For any mappings: a mapping that triggers once presses once for a touch. *)
THEOREM TriggeredOnce == KeyboardsSpec => OncePerTouch
<1>1. OwnedInv /\ [KeyboardsNext]_keyboardsVars =>
        [\A m \in M : /\ Mappings[m].once /\ ~ Fresh(m) /\ Fresh(m)' => ~ Matched(m)
                      /\ Mappings[m].once /\ ~ pressed[m] /\ pressed'[m]
                           => Fresh(m)]_keyboardsVars
  BY OnceStep
<1> QED BY <1>1, OwnedStart, OwnedSteps, PTL DEF KeyboardsSpec, OncePerTouch

-----------------------------------------------------------------------------
(* Reports: what is handed over, what waits in the endpoint, what the host has. *)
ContactId == 0..255
Report == [board : Board, keys : SUBSET Key, mods : SUBSET Modifiers] \cup [contact : ContactId]
OfKeys(r) == "keys" \in DOMAIN r
Current(b) == KeyReport(b, BatchKeys(b))

ReportState ==
  /\ outbox \in Seq(Report) /\ endpoint \in Seq(Report) /\ Len(endpoint) <= 1
  /\ host \in [keys : [Board -> SUBSET Key], contacts : SUBSET ContactId]
  /\ points \in Seq(ContactId) /\ contact \in [Device -> SUBSET Channels]
  /\ refused \in BOOLEAN

(* A turn's reports are those of the keys as they are now, and gone when it ends. *)
OutboxCurrent ==
  /\ outbox # <<>> => pc = "send" /\ ~ changed
  /\ \A i \in DOMAIN outbox :
       OfKeys(outbox[i]) => outbox[i].board \in Board /\ outbox[i] = Current(outbox[i].board)

InOutbox(b)   == \E i \in DOMAIN outbox : outbox[i] = Current(b)
InEndpoint(b) == endpoint # <<>> /\ endpoint[1] = Current(b)
AtHost(b)     == /\ host.keys[b] = BatchKeys(b) \cup mods
                 /\ endpoint # <<>> /\ OfKeys(endpoint[1]) => endpoint[1].board # b

(* Each batch of an unrefused change is on its way, and nothing older of its keyboard *)
(* is still to come, or the host has it.                                              *)
BatchesArrive ==
  ~ changed /\ ~ refused =>
    \A b \in DOMAIN Batches : InOutbox(b) \/ InEndpoint(b) \/ AtHost(b)

ShownInv == OwnedInv /\ ReportState /\ OutboxCurrent /\ BatchesArrive

LEMMA DivBounds ==
  ASSUME NEW a \in Nat, NEW n \in Nat \ {0}
  PROVE  a \div n \in Nat /\ (a \div n) * n <= a /\ a < (a \div n) * n + n
OBVIOUS

LEMMA FactorLess ==
  ASSUME NEW a \in Nat, NEW b \in Nat, NEW n \in Nat \ {0}, a * n < b * n
  PROVE  a < b
OBVIOUS

LEMMA ReportKinds ==
  /\ \A b \in Board, ks \in SUBSET Key : mods \in SUBSET Modifiers =>
       /\ KeyReport(b, ks) \in Report /\ OfKeys(KeyReport(b, ks))
       /\ KeyReport(b, ks).board = b /\ KeyReport(b, ks).keys = ks /\ KeyReport(b, ks).mods = mods
  /\ \A id \in ContactId : TouchReport(id) \in Report /\ ~ OfKeys(TouchReport(id))
  /\ \A r \in Report : IF OfKeys(r) THEN /\ r.board \in Board /\ r.keys \in SUBSET Key
                                         /\ r.mods \in SUBSET Modifiers
                                    ELSE r.contact \in ContactId
<1> DEFINE KeyReports == [board : Board, keys : SUBSET Key, mods : SUBSET Modifiers]
           Touches == [contact : ContactId]
<1>1. \A r \in KeyReports : /\ OfKeys(r) /\ r.board \in Board /\ r.keys \in SUBSET Key
                            /\ r.mods \in SUBSET Modifiers
  BY DEF OfKeys
<1>2. \A r \in Touches : ~ OfKeys(r) /\ r.contact \in ContactId
  BY DEF OfKeys
<1>3. ASSUME NEW b \in Board, NEW ks \in SUBSET Key, mods \in SUBSET Modifiers
      PROVE  /\ KeyReport(b, ks) \in KeyReports /\ KeyReport(b, ks).board = b
             /\ KeyReport(b, ks).keys = ks /\ KeyReport(b, ks).mods = mods
  BY <1>3 DEF KeyReport
<1>4. ASSUME NEW id \in ContactId PROVE TouchReport(id) \in Touches
  BY DEF TouchReport
<1>5. Report = KeyReports \cup Touches
  BY DEF Report
<1> HIDE DEF KeyReports, Touches
<1> QED BY <1>1, <1>2, <1>3, <1>4, <1>5

(* The batches cover the keys, and there is a keyboard for each. *)
LEMMA BatchesCover ==
  ASSUME KeyState
  PROVE  /\ \E n \in 1..Boards : DOMAIN Batches = 1..n
         /\ Batches \in Seq(Report)
         /\ \A b \in DOMAIN Batches : b \in Board /\ Batches[b] = Current(b) /\ Current(b) \in Report
         /\ \A j \in DOMAIN keys : \E b \in DOMAIN Batches : keys[j] \in BatchKeys(b)
<1> DEFINE needed == (Len(keys) + Batch - 1) \div Batch
           n == IF needed = 0 THEN 1 ELSE IF needed > Boards THEN Boards ELSE needed
<1>1. Batches = [b \in 1..n |-> Current(b)]
  BY DEF Batches, Current
<1>2. Batch \in Nat \ {0} /\ Boards \in Nat \ {0} /\ Len(keys) \in Nat /\ DOMAIN keys = 1..Len(keys)
  BY HidAssumption DEF KeyState
<1>3. /\ needed \in Nat /\ needed * Batch <= Len(keys) + Batch - 1
      /\ Len(keys) + Batch - 1 < needed * Batch + Batch
  <2>1. Len(keys) + Batch - 1 \in Nat
    BY <1>2
  <2> QED BY <1>2, <2>1, DivBounds
<1>4. Len(keys) <= Boards * Batch
  <2>1. Len(keys) <= Cardinality(Key)
    BY KeysFinite DEF KeyState
  <2>2. Cardinality(Key) \in Nat /\ Cardinality(Key) <= Batch * Boards
    BY KeysFinite, FS_CardinalityType, KeyboardsAssumption DEF Capacity
  <2>3. Batch * Boards = Boards * Batch /\ Batch * Boards \in Nat
    BY <1>2
  <2> QED BY <1>2, <2>1, <2>2, <2>3
<1> HIDE DEF needed
<1>5. n \in 1..Boards
  BY <1>2, <1>3
<1>6. ASSUME NEW b \in 1..n PROVE b \in Board /\ Current(b) \in Report
  <2>1. BatchKeys(b) \in SUBSET Key
    BY DEF BatchKeys, KeyState
  <2>2. b \in Board
    BY <1>2, <1>5 DEF Board
  <2> QED BY <2>1, <2>2, ReportKinds DEF Current, KeyState
<1>7. ASSUME NEW j \in 1..Len(keys) PROVE \E b \in 1..n : keys[j] \in BatchKeys(b)
  <2> DEFINE q == (j - 1) \div Batch
  <2>1. q \in Nat /\ q * Batch <= j - 1 /\ j - 1 < q * Batch + Batch
    <3>1. j - 1 \in Nat
      BY <1>2
    <3> QED BY <1>2, <3>1, DivBounds
  <2> HIDE DEF q
  <2>2. q * Batch \in Nat /\ (q + 1) * Batch = q * Batch + Batch /\ needed * Batch \in Nat
    BY <1>2, <1>3, <2>1
  <2>3. q < needed
    <3>1. q * Batch < needed * Batch
      BY <1>2, <1>3, <2>1, <2>2
    <3> QED BY <1>2, <1>3, <2>1, <3>1, FactorLess
  <2>4. q < Boards
    <3>1. q * Batch < Boards * Batch
      BY <1>2, <1>4, <2>1, <2>2
    <3> QED BY <1>2, <2>1, <3>1, FactorLess
  <2>5. q + 1 \in 1..n
    BY <1>2, <1>3, <1>5, <2>1, <2>3, <2>4
  <2>6. j \in (((q + 1) - 1) * Batch + 1 .. (q + 1) * Batch) \cap DOMAIN keys
    <3>1. (q + 1) - 1 = q
      BY <2>1
    <3> QED BY <1>2, <2>1, <2>2, <3>1
  <2>7. keys[j] \in BatchKeys(q + 1)
    BY <2>6 DEF BatchKeys
  <2> QED BY <2>5, <2>7
<1> HIDE DEF n
<1>8. Batches \in Seq(Report) /\ DOMAIN Batches = 1..n
  BY <1>1, <1>5, <1>6
<1>9. \A b \in 1..n : Batches[b] = Current(b)
  BY <1>1
<1> QED BY <1>2, <1>5, <1>6, <1>7, <1>8, <1>9

LEMMA SameKeysSameReports ==
  ASSUME UNCHANGED <<keys, mods>>
  PROVE  /\ Batches' = Batches
         /\ \A b \in Board : BatchKeys(b)' = BatchKeys(b) /\ Current(b)' = Current(b)
BY DEF Batches, BatchKeys, Current, KeyReport

(* While the keys stay, a batch that was on its way or at the host still is. *)
LEMMA SameReportsStay ==
  ASSUME ShownInv, UNCHANGED <<keys, mods, outbox, endpoint, host>>,
         ~ changed' /\ ~ refused' => ~ changed /\ ~ refused
  PROVE  BatchesArrive'
<1>1. /\ Batches' = Batches
      /\ \A b \in Board : BatchKeys(b)' = BatchKeys(b) /\ Current(b)' = Current(b)
  BY SameKeysSameReports
<1>2. \A b \in DOMAIN Batches : b \in Board
  BY BatchesCover DEF ShownInv, OwnedInv
<1>3. ASSUME NEW b \in Board
      PROVE  /\ InOutbox(b) => InOutbox(b)'
             /\ InEndpoint(b) => InEndpoint(b)'
             /\ AtHost(b) => AtHost(b)'
  BY <1>1 DEF InOutbox, InEndpoint, AtHost
<1> QED BY <1>1, <1>2, <1>3 DEF ShownInv, BatchesArrive

LEMMA ShownStart == KeyboardsInit => ShownInv
<1> SUFFICES ASSUME KeyboardsInit PROVE ShownInv
  OBVIOUS
<1>1. /\ keys = <<>> /\ mods = {} /\ points = <<>> /\ outbox = <<>> /\ endpoint = <<>>
      /\ refused = FALSE /\ contact = [d \in Device |-> {}]
      /\ host = [keys |-> [b \in Board |-> {}], contacts |-> {}]
  BY DEF KeyboardsInit, HidInit
<1>2. ReportState
  <2>1. outbox \in Seq(Report) /\ endpoint \in Seq(Report) /\ Len(endpoint) <= 1
    BY <1>1
  <2>2. host \in [keys : [Board -> SUBSET Key], contacts : SUBSET ContactId]
    BY <1>1
  <2>3. points \in Seq(ContactId) /\ refused \in BOOLEAN
    <3>1. points \in Seq(ContactId)
      BY <1>1
    <3>2. refused \in BOOLEAN
      BY <1>1
    <3> QED BY <3>1, <3>2
  <2>4. contact \in [Device -> SUBSET Channels]
    BY <1>1
  <2> QED BY <2>1, <2>2, <2>3, <2>4 DEF ReportState
<1>3. OutboxCurrent
  BY <1>1 DEF OutboxCurrent
<1>4. OwnedInv
  BY OwnedStart
<1>5. \A b \in DOMAIN Batches : b \in Board
  BY <1>4, BatchesCover DEF OwnedInv
<1>6. \A b \in Board : AtHost(b)
  BY <1>1 DEF AtHost, BatchKeys
<1> QED BY <1>2, <1>3, <1>4, <1>5, <1>6 DEF ShownInv, BatchesArrive

(* The keys change between two sendings only. *)
LEMMA ShownKeys ==
  ASSUME ShownInv, pc # "send", UNCHANGED <<outbox, endpoint, host, points, contact, refused>>,
         KeepKeys \/ \E d, u : SetKeys(d, u)
  PROVE  ReportState' /\ OutboxCurrent' /\ BatchesArrive'
<1>1. ReportState'
  BY DEF ReportState, ShownInv
<1>2. outbox = <<>>
  BY DEF ShownInv, OutboxCurrent
<1>3. OutboxCurrent'
  BY <1>2 DEF OutboxCurrent
<1>4. ~ changed' => ~ changed /\ UNCHANGED <<keys, mods>>
  BY DEF KeepKeys, SetKeys, ShownInv, OwnedInv, KeyState
<1>5. ASSUME changed' PROVE BatchesArrive'
  BY <1>5 DEF BatchesArrive
<1>6. ASSUME ~ changed' PROVE BatchesArrive'
  BY <1>4, <1>6, SameReportsStay
<1> QED BY <1>1, <1>3, <1>5, <1>6

(* HID::task makes the reports of the turn. *)
LEMMA ShownTask == ShownInv /\ Task => ReportState' /\ OutboxCurrent' /\ BatchesArrive'
<1> SUFFICES ASSUME ShownInv, Task PROVE ReportState' /\ OutboxCurrent' /\ BatchesArrive'
  OBVIOUS
<1> DEFINE ks == IF changed THEN Batches ELSE <<>>
           ts == [i \in DOMAIN points |-> TouchReport(points[i])]
<1>1. /\ outbox' = ks \o ts /\ refused' = (refused /\ ~ changed)
      /\ changed' = FALSE /\ points' = <<>> /\ pc = "task"
      /\ pc' = IF outbox' = <<>> THEN "buttons" ELSE "send"
      /\ UNCHANGED <<keys, mods, endpoint, host, contact>>
  BY DEF Task, HidTask, inputs
<1>2. /\ Batches' = Batches
      /\ \A b \in Board : BatchKeys(b)' = BatchKeys(b) /\ Current(b)' = Current(b)
  BY <1>1, SameKeysSameReports
<1>3. /\ Batches \in Seq(Report)
      /\ \A b \in DOMAIN Batches : b \in Board /\ Batches[b] = Current(b) /\ Current(b) \in Report
  BY BatchesCover DEF ShownInv, OwnedInv
<1>4. ts \in Seq(Report) /\ \A i \in DOMAIN ts : ~ OfKeys(ts[i])
  <2>1. points \in Seq(ContactId)
    BY DEF ShownInv, ReportState
  <2>2. DOMAIN points = 1..Len(points) /\ \A i \in DOMAIN points : points[i] \in ContactId
    BY <2>1
  <2>3. \A i \in DOMAIN points : TouchReport(points[i]) \in Report /\ ~ OfKeys(TouchReport(points[i]))
    BY <2>2, ReportKinds
  <2> QED BY <2>1, <2>2, <2>3
<1>5. ks \in Seq(Report)
  BY <1>3
<1>6. /\ ks \o ts \in Seq(Report)
      /\ \A i \in DOMAIN (ks \o ts) : \/ i \in DOMAIN ks /\ (ks \o ts)[i] = ks[i]
                                      \/ ~ OfKeys((ks \o ts)[i])
      /\ \A i \in DOMAIN ks : i \in DOMAIN (ks \o ts) /\ (ks \o ts)[i] = ks[i]
  <2> HIDE DEF ks, ts
  <2>1. /\ ks \o ts \in Seq(Report) /\ Len(ks \o ts) = Len(ks) + Len(ts)
        /\ Len(ks) \in Nat /\ Len(ts) \in Nat
        /\ \A i \in 1..(Len(ks) + Len(ts)) :
             (ks \o ts)[i] = IF i <= Len(ks) THEN ks[i] ELSE ts[i - Len(ks)]
    BY <1>4, <1>5
  <2>2. /\ DOMAIN ks = 1..Len(ks) /\ DOMAIN ts = 1..Len(ts)
        /\ DOMAIN (ks \o ts) = 1..(Len(ks) + Len(ts))
    BY <1>4, <1>5, <2>1
  <2>3. ASSUME NEW i \in 1..(Len(ks) + Len(ts))
        PROVE  \/ i \in DOMAIN ks /\ (ks \o ts)[i] = ks[i]
               \/ ~ OfKeys((ks \o ts)[i])
    <3>1. CASE i <= Len(ks)
      BY <2>1, <2>2, <3>1
    <3>2. CASE i > Len(ks)
      <4>1. i - Len(ks) \in DOMAIN ts /\ (ks \o ts)[i] = ts[i - Len(ks)]
        BY <2>1, <2>2, <3>2
      <4> QED BY <1>4, <4>1
    <3> QED BY <2>1, <3>1, <3>2
  <2> QED BY <2>1, <2>2, <2>3
<1>7. \A i \in DOMAIN ks : \E b \in Board : ks[i] = Current(b) /\ Current(b).board = b
  <2>1. \A b \in Board : Current(b).board = b
    BY DEF Current, KeyReport
  <2> QED BY <1>3, <2>1
<1>8. ReportState'
  BY <1>1, <1>6 DEF ShownInv, ReportState
<1>9. OutboxCurrent'
  <2>1. outbox' # <<>> => pc' = "send" /\ ~ changed'
    BY <1>1
  <2>3. UNCHANGED <<keys, mods>>
    BY <1>1
  <2>2. ASSUME NEW i \in DOMAIN outbox', OfKeys(outbox'[i])
        PROVE  outbox'[i].board \in Board /\ outbox'[i] = Current(outbox'[i].board)
    <3> HIDE DEF ks, ts
    <3>1. i \in DOMAIN ks /\ outbox'[i] = ks[i]
      BY <1>1, <1>6, <2>2
    <3> QED BY <1>7, <3>1
  <2> QED BY <2>1, <2>2, <2>3 DEF OutboxCurrent, OfKeys, Current, KeyReport, BatchKeys
<1>10. BatchesArrive'
  <2> SUFFICES ASSUME ~ refused', NEW b \in DOMAIN Batches
               PROVE  InOutbox(b)' \/ InEndpoint(b)' \/ AtHost(b)'
    BY <1>2 DEF BatchesArrive
  <2>1. b \in Board
    BY <1>3
  <2>2. CASE changed
    <3>1. b \in DOMAIN ks /\ ks[b] = Current(b)
      BY <1>3, <2>2
    <3>2. b \in DOMAIN outbox' /\ outbox'[b] = Current(b)
      BY <1>1, <1>6, <3>1
    <3> QED BY <1>2, <2>1, <3>2 DEF InOutbox
  <2>3. CASE ~ changed
    <3>1. outbox = <<>>
      BY <1>1 DEF ShownInv, OutboxCurrent
    <3>2. ~ refused
      BY <1>1, <2>3 DEF ShownInv, ReportState
    <3>3. InEndpoint(b) \/ AtHost(b)
      BY <2>3, <3>1, <3>2 DEF ShownInv, BatchesArrive, InOutbox
    <3> QED BY <1>1, <1>2, <2>1, <3>3 DEF InEndpoint, AtHost
  <2> QED BY <2>2, <2>3 DEF ShownInv, OwnedInv, KeyState
<1> QED BY <1>8, <1>9, <1>10

(* A report is handed over, or refused. *)
LEMMA ShownSend == ShownInv /\ Send => ReportState' /\ OutboxCurrent' /\ BatchesArrive'
<1> SUFFICES ASSUME ShownInv, Send PROVE ReportState' /\ OutboxCurrent' /\ BatchesArrive'
  OBVIOUS
<1> DEFINE r == Head(outbox)
<1>1. /\ outbox # <<>> /\ outbox' = Tail(outbox) /\ pc = "send"
      /\ endpoint' = IF endpoint = <<>> THEN <<r>> ELSE endpoint
      /\ refused' = (refused \/ (endpoint # <<>> /\ OfKeys(r)))
      /\ pc' = IF outbox' = <<>> THEN "buttons" ELSE "send"
      /\ UNCHANGED <<keys, mods, changed, points, host, contact>>
  BY DEF Send, SendReport, inputs, OfKeys
<1>2. /\ Batches' = Batches
      /\ \A b \in Board : BatchKeys(b)' = BatchKeys(b) /\ Current(b)' = Current(b)
  BY <1>1, SameKeysSameReports
<1>3. /\ outbox \in Seq(Report) /\ r \in Report /\ r = outbox[1] /\ 1 \in DOMAIN outbox
      /\ Tail(outbox) \in Seq(Report)
      /\ \A i \in DOMAIN Tail(outbox) : i + 1 \in DOMAIN outbox /\ Tail(outbox)[i] = outbox[i + 1]
      /\ \A i \in DOMAIN outbox :
           i # 1 => i - 1 \in DOMAIN Tail(outbox) /\ Tail(outbox)[i - 1] = outbox[i]
  BY <1>1 DEF ShownInv, ReportState
<1>4. OfKeys(r) => r.board \in Board /\ r = Current(r.board)
  BY <1>3 DEF ShownInv, OutboxCurrent
<1> HIDE DEF r
<1>5. ReportState'
  <2>1. <<r>> \in Seq(Report) /\ Len(<<r>>) = 1
    BY <1>3
  <2> QED BY <1>1, <1>3, <2>1 DEF ShownInv, ReportState
<1>6. OutboxCurrent'
  <2>1. ~ changed
    BY <1>1 DEF ShownInv, OutboxCurrent
  <2>2. ASSUME NEW i \in DOMAIN outbox', OfKeys(outbox'[i])
        PROVE  outbox'[i].board \in Board /\ outbox'[i] = Current(outbox'[i].board)
    BY <1>1, <1>3, <2>2 DEF ShownInv, OutboxCurrent
  <2> QED BY <1>1, <2>1, <2>2 DEF OutboxCurrent, OfKeys, Current, KeyReport, BatchKeys
<1>7. BatchesArrive'
  <2> SUFFICES ASSUME ~ refused', ~ changed, NEW b \in DOMAIN Batches
               PROVE  InOutbox(b)' \/ InEndpoint(b)' \/ AtHost(b)'
    BY <1>1, <1>2 DEF BatchesArrive
  <2>1. b \in Board
    BY BatchesCover DEF ShownInv, OwnedInv
  <2>2. ~ refused /\ (endpoint = <<>> \/ ~ OfKeys(r))
    BY <1>1, <1>5 DEF ShownInv, ReportState
  <2>3. Current(b)' = Current(b) /\ BatchKeys(b)' = BatchKeys(b)
    BY <1>2, <2>1
  <2>4. OfKeys(Current(b)) /\ Current(b).board = b
    BY DEF Current, KeyReport, OfKeys
  <2>5. CASE InOutbox(b)
    <3>1. PICK i \in DOMAIN outbox : outbox[i] = Current(b)
      BY <2>5 DEF InOutbox
    <3>2. CASE i = 1
      <4>1. r = Current(b) /\ endpoint = <<>>
        BY <1>3, <2>2, <2>4, <3>1, <3>2
      <4>2. endpoint' # <<>> /\ endpoint'[1] = Current(b)
        BY <1>1, <4>1
      <4> QED BY <2>3, <4>2 DEF InEndpoint
    <3>3. CASE i # 1
      BY <1>1, <1>3, <2>3, <3>1, <3>3 DEF InOutbox
    <3> QED BY <3>2, <3>3
  <2>6. CASE InEndpoint(b)
    BY <1>1, <2>3, <2>6 DEF InEndpoint
  <2>7. CASE AtHost(b)
    <3>1. CASE endpoint # <<>>
      BY <1>1, <2>3, <2>7, <3>1 DEF AtHost, OfKeys
    <3>2. CASE endpoint = <<>>
      <4>1. endpoint' # <<>> /\ endpoint'[1] = r
        BY <1>1, <3>2
      <4>2. CASE OfKeys(r) /\ r.board = b
        BY <1>4, <2>3, <4>1, <4>2 DEF InEndpoint
      <4>3. CASE ~ (OfKeys(r) /\ r.board = b)
        BY <1>1, <2>3, <2>7, <4>1, <4>3 DEF AtHost, OfKeys
      <4> QED BY <4>2, <4>3
    <3> QED BY <3>1, <3>2
  <2> QED BY <2>2, <2>5, <2>6, <2>7 DEF ShownInv, BatchesArrive
<1> QED BY <1>5, <1>6, <1>7

(* The host takes what the endpoint holds. *)
LEMMA ShownPoll == ShownInv /\ HostPolls => ReportState' /\ OutboxCurrent' /\ BatchesArrive'
<1> SUFFICES ASSUME ShownInv, HostPolls PROVE ReportState' /\ OutboxCurrent' /\ BatchesArrive'
  OBVIOUS
<1> DEFINE r == endpoint[1]
<1>1. /\ endpoint # <<>> /\ endpoint' = <<>>
      /\ host' = IF OfKeys(r) THEN [host EXCEPT !.keys[r.board] = r.keys \cup r.mods]
                 ELSE [host EXCEPT !.contacts = @ \cup {r.contact}]
      /\ UNCHANGED <<keys, mods, changed, points, outbox, refused, contact, pc>>
  BY DEF HostPolls, Poll, inputs, keyVars, OfKeys
<1>2. /\ Batches' = Batches
      /\ \A b \in Board : BatchKeys(b)' = BatchKeys(b) /\ Current(b)' = Current(b)
  BY <1>1, SameKeysSameReports
<1>3. r \in Report
  BY <1>1 DEF ShownInv, ReportState
<1>4. /\ OfKeys(r) => r.board \in Board /\ r.keys \cup r.mods \in SUBSET Key
      /\ ~ OfKeys(r) => r.contact \in ContactId
  BY <1>3, ReportKinds, HidAssumption
<1> HIDE DEF r
<1>5. /\ host'.keys = IF OfKeys(r) THEN [host.keys EXCEPT ![r.board] = r.keys \cup r.mods]
                      ELSE host.keys
      /\ host' \in [keys : [Board -> SUBSET Key], contacts : SUBSET ContactId]
  <2> DEFINE KS == [Board -> SUBSET Key]
             CS == SUBSET ContactId
  <2>1. host \in [keys : KS, contacts : CS]
    BY DEF ShownInv, ReportState
  <2>2. OfKeys(r) => [host.keys EXCEPT ![r.board] = r.keys \cup r.mods] \in KS
    BY <1>4, <2>1
  <2>3. ~ OfKeys(r) => host.contacts \cup {r.contact} \in CS
    BY <1>4, <2>1
  <2> HIDE DEF KS, CS
  <2>4. host' \in [keys : KS, contacts : CS]
    BY <1>1, <2>1, <2>2, <2>3
  <2>5. host'.keys = IF OfKeys(r) THEN [host.keys EXCEPT ![r.board] = r.keys \cup r.mods]
                     ELSE host.keys
    BY <1>1, <2>1
  <2> QED BY <2>4, <2>5 DEF KS, CS
<1>6. ReportState'
  <2>1. UNCHANGED <<points, outbox, refused, contact>> /\ endpoint' = <<>>
    BY <1>1
  <2>2. <<>> \in Seq(Report) /\ Len(<<>>) = 0
    OBVIOUS
  <2> QED BY <1>5, <2>1, <2>2 DEF ShownInv, ReportState
<1>7. OutboxCurrent'
  BY <1>1 DEF ShownInv, OutboxCurrent, OfKeys, Current, KeyReport, BatchKeys
<1>8. BatchesArrive'
  <2> SUFFICES ASSUME ~ refused, ~ changed, NEW b \in DOMAIN Batches
               PROVE  InOutbox(b)' \/ InEndpoint(b)' \/ AtHost(b)'
    BY <1>1, <1>2 DEF BatchesArrive
  <2>1. b \in Board
    BY BatchesCover DEF ShownInv, OwnedInv
  <2>2. Current(b)' = Current(b) /\ BatchKeys(b)' = BatchKeys(b)
    BY <1>2, <2>1
  <2>3. CASE InOutbox(b)
    BY <1>1, <2>2, <2>3 DEF InOutbox
  <2>4. CASE InEndpoint(b)
    <3>1. r = Current(b)
      BY <2>4 DEF InEndpoint, r
    <3>2. OfKeys(r) /\ r.board = b /\ r.keys = BatchKeys(b) /\ r.mods = mods
      BY <3>1 DEF Current, KeyReport, OfKeys
    <3>3. host'.keys[b] = BatchKeys(b) \cup mods
      BY <1>5, <2>1, <3>2 DEF ShownInv, ReportState
    <3> QED BY <1>1, <2>2, <3>3 DEF AtHost
  <2>5. CASE AtHost(b)
    <3>1. OfKeys(r) => r.board # b
      BY <1>1, <2>5 DEF AtHost, r
    <3>2. host'.keys[b] = host.keys[b]
      BY <1>5, <2>1, <3>1 DEF ShownInv, ReportState
    <3> QED BY <1>1, <2>2, <2>5, <3>2 DEF AtHost
  <2> QED BY <2>3, <2>4, <2>5 DEF ShownInv, BatchesArrive
<1> QED BY <1>6, <1>7, <1>8

(* The points of a turn are numbers of one byte. *)
LEMMA PointsQueued ==
  ASSUME ShownInv, SendHIDTouchData
  PROVE  points' \in Seq(ContactId)
<1> DEFINE ids == UNION {ContactsOf(d) : d \in Device}
           all == points \o SetToSeq(ids)
<1>1. ids \subseteq ContactId
  <2>1. ASSUME NEW d \in Device PROVE ContactsOf(d) \subseteq ContactId
    <3>1. ASSUME NEW c \in contact[d] PROVE (64 * (d % 8) + c) % 256 \in ContactId
      <4>1. c \in Nat /\ d \in Nat
        BY KeyboardsAssumption DEF ShownInv, ReportState
      <4> QED BY <4>1 DEF ContactId
    <3> QED BY <3>1 DEF ContactsOf
  <2> QED BY <2>1
<1> HIDE DEF ids
<1>2. IsFiniteSet(ids)
  <2>1. IsFiniteSet(ContactId)
    <3>1. 0 \in Int /\ 255 \in Int
      OBVIOUS
    <3> QED BY <3>1, FS_Interval DEF ContactId
  <2>2. ids \in SUBSET ContactId
    BY <1>1
  <2> QED BY <2>1, <2>2, FS_Subset
<1>3. SetToSeq(ids) \in Seq(ContactId)
  <2>1. Cardinality(ids) \in Nat /\ \E f : f \in [1..Cardinality(ids) -> ids] /\ IsInjective(f)
    BY <1>2, FS_CardinalityType DEF ExistsBijection, Bijection, Injection
  <2>2. SetToSeq(ids) \in [1..Cardinality(ids) -> ids]
    BY <2>1, Zenon DEF SetToSeq
  <2> QED BY <1>1, <2>1, <2>2
<1>4. all \in Seq(ContactId)
  BY <1>3 DEF ShownInv, ReportState
<1>5. points' = SubSeq(all, 1, IF Len(all) > TouchSlots THEN TouchSlots ELSE Len(all))
  BY DEF SendHIDTouchData, QueuePoints, ids
<1> HIDE DEF all
<1> QED BY <1>4, <1>5, HidAssumption

LEMMA ShownSteps == ShownInv /\ [KeyboardsNext]_keyboardsVars => ShownInv'
<1> SUFFICES ASSUME ShownInv, [KeyboardsNext]_keyboardsVars PROVE ShownInv'
  OBVIOUS
<1>1. OwnedInv'
  BY OwnedSteps DEF ShownInv
<1>2. ASSUME UNCHANGED <<keys, mods, changed, outbox, endpoint, host, refused>>,
             pc' = pc \/ pc # "send",
             points' \in Seq(ContactId), contact' \in [Device -> SUBSET Channels]
      PROVE  ReportState' /\ OutboxCurrent' /\ BatchesArrive'
  <2>1. ReportState'
    BY <1>2 DEF ShownInv, ReportState
  <2>2. OutboxCurrent'
    BY <1>2 DEF ShownInv, OutboxCurrent, OfKeys, Current, KeyReport, BatchKeys
  <2> QED BY <1>2, <2>1, <2>2, SameReportsStay
<1>3. CASE RegisterKeys \/ SwitchTouchKeys \/ Tick \/ UNCHANGED keyboardsVars
  BY <1>1, <1>2, <1>3 DEF RegisterKeys, SwitchTouchKeys, Tick, keyboardsVars, keyVars, inputs,
     hidVars, ShownInv, ReportState
<1>4. CASE MoveFingers
  <2>1. contact' \in [Device -> SUBSET Channels]
    BY <1>4 DEF MoveFingers, ShownInv, ReportState
  <2> QED BY <1>1, <1>2, <1>4, <2>1 DEF MoveFingers, keyVars, hidVars, ShownInv, ReportState
<1>5. CASE SendHIDTouchData
  BY <1>1, <1>2, <1>5, PointsQueued DEF SendHIDTouchData, inputs, ShownInv, ReportState
<1>6. CASE ProcessGPIOKeyboard
  BY <1>1, <1>6, ShownKeys DEF ProcessGPIOKeyboard, inputs, ShownInv
<1>7. CASE CheckTouchKeyboardTrigger
  <2>1. KeepKeys \/ \E d, u : SetKeys(d, u)
    BY <1>7 DEF CheckTouchKeyboardTrigger, CheckMapping, TriggerOnce, FinishOnce, SpentOnce,
       TriggerHeld, Waiting, Left, PressKey, ReleaseKey
  <2> QED BY <1>1, <1>7, <2>1, ShownKeys DEF CheckTouchKeyboardTrigger, inputs, ShownInv
<1> QED
  BY <1>1, <1>3, <1>4, <1>5, <1>6, <1>7, ShownTask, ShownSend, ShownPoll
  DEF ShownInv, KeyboardsNext, Task1

(* For any number of keyboards and any size of a report: the keys of a       *)
(* change that was sent without a refusal are all at the host.               *)
THEOREM KeysReachHost == KeyboardsSpec => []PressedKeysShown
<1>1. ShownInv => PressedKeysShown
  <2> SUFFICES ASSUME ShownInv, pc = "buttons", ~ changed, ~ refused, endpoint = <<>>,
                      NEW k \in Pressed
               PROVE  k \in HostKeys
    BY DEF PressedKeysShown
  <2>1. outbox = <<>>
    BY DEF ShownInv, OutboxCurrent
  <2>2. \A b \in DOMAIN Batches : b \in Board /\ host.keys[b] = BatchKeys(b) \cup mods
    BY <2>1, BatchesCover DEF ShownInv, OwnedInv, BatchesArrive, InOutbox, InEndpoint, AtHost
  <2>3. CASE k \in Range(keys)
    <3>1. PICK j \in DOMAIN keys : k = keys[j]
      BY <2>3 DEF Range
    <3>2. PICK b \in DOMAIN Batches : k \in BatchKeys(b)
      BY <3>1, BatchesCover DEF ShownInv, OwnedInv
    <3> QED BY <2>2, <3>2 DEF HostKeys
  <2>4. CASE k \in mods
    <3>1. 1 \in DOMAIN Batches
      BY BatchesCover DEF ShownInv, OwnedInv
    <3> QED BY <2>2, <2>4, <3>1 DEF HostKeys
  <2> QED BY <2>3, <2>4 DEF Pressed
<1> QED BY <1>1, ShownStart, ShownSteps, PTL DEF KeyboardsSpec
=============================================================================

--------------------------- MODULE DelayLineProofs ---------------------------
(***************************************************************************)
(* The delay line for a ring of any size, any delays and windows, and any  *)
(* number of sampling rounds during a search.                              *)
(***************************************************************************)
EXTENDS DelayLine, FiniteSetTheorems, TLAPS

Slots == 0..(Size - 1)

Types ==
  /\ now \in Start..MaxTime /\ sampled \in BOOLEAN
  /\ ring \in [Slots -> Sample]
  /\ head \in Slots /\ count \in 0..Size
  /\ irq \in {"none", "head", "count"} /\ held \in 0..Size
  /\ irq = "head" => held \in Slots
  /\ lastHit \in Nat
  /\ cfg \in [delay : 0..Start, window : Nat, onChange : BOOLEAN, extra : Nat, limited : BOOLEAN]
  /\ uiPc \in {"idle", "head", "count"} /\ clears \in Nat
  /\ pc \in {"idle", "probe", "newer", "older", "pick", "vote", "send"}
  /\ idx \in Slots /\ offset \in Nat
  /\ best \in [idx : Slots, offset : Nat]
  /\ begun \in Start..now /\ asked \in 0..Start /\ interrupted \in Nat
  /\ picked \in Sample

(* Nothing in the ring is from the future.                                  *)
Past == \A i \in Slots : ring[i].at <= now

(* A slot that was looked at and found old enough is still, unless it was   *)
(* overwritten by a round that ended since the search began.                *)
LookedAt(i) ==
  \/ ring[i].at <= begun - asked
  \/ interrupted > 0 /\ ring[i].at >= begun

SearchInv ==
  /\ pc \in {"probe", "newer", "older"} => target = begun - asked
  /\ pc = "newer" => LookedAt(best.idx)
  /\ pc = "pick" => LookedAt(idx)

OldInv == Types /\ Past /\ SearchInv /\ OldEnough

-----------------------------------------------------------------------------
LEMMA Constants ==
  /\ Size \in Nat /\ Size > 1 /\ OffsetMod \in Nat /\ OffsetMod > Size
  /\ TimeMod \in Nat /\ Start \in Nat /\ MaxTime \in Nat /\ Start <= MaxTime /\ MaxTime < TimeMod
BY RingAssumption, TimeAssumption, ClockAssumption

(* While the clock has not wrapped a time is its stamp.                     *)
LEMMA StampIsTime ==
  ASSUME NEW t \in 0..MaxTime PROVE Stamp(t) = t
BY Constants DEF Stamp

LEMMA BehindInRing ==
  ASSUME NEW o \in Int, head \in Slots PROVE Behind(o) \in Slots
BY Constants DEF Behind, Slots

(* What is found old enough is as old as the delay.                         *)
LEMMA OldIsOld ==
  ASSUME Types, NEW i \in Slots, OldAt(i), target = begun - asked
  PROVE  ring[i].at <= begun - asked
<1>1. ring[i].at = Never \/ ring[i].at \in Start..MaxTime
  BY DEF Types, Sample
<1>2. begun - asked \in Nat
  BY Constants DEF Types
<1>3. CASE ring[i].at = Never
  BY <1>2, <1>3 DEF Never
<1>4. CASE ring[i].at \in Start..MaxTime
  <2>1. TimeOf(ring[i]) = ring[i].at
    BY <1>4, StampIsTime, Constants DEF TimeOf, Never
  <2> QED
    BY <2>1 DEF OldAt
<1> QED
  BY <1>1, <1>3, <1>4

-----------------------------------------------------------------------------
LEMMA OldInit == Init => OldInv
<1> SUFFICES ASSUME Init PROVE OldInv
  OBVIOUS
<1>1. cfg \in [delay : 0..Start, window : Nat, onChange : BOOLEAN, extra : Nat, limited : BOOLEAN]
  <2>1. cfg \in Configs
    BY DEF Init
  <2>2. cfg \in [delay : Nat, window : Nat, onChange : BOOLEAN, extra : Nat, limited : BOOLEAN]
    BY <2>1, ConfigAssumption
  <2>3. cfg.delay <= Start
    BY <2>1, <2>2, ClockAssumption, Constants
  <2>4. cfg.delay \in 0..Start
    BY <2>2, <2>3, Constants
  <2> QED
    BY <2>2, <2>4
<1>2. Types
  <2>1. Start \in Start..MaxTime /\ 0 \in 0..Start /\ 0 \in Slots /\ 0 \in 0..Size /\ Start \in Start..Start
    BY Constants DEF Slots
  <2>2. [at |-> Never, touch |-> 0] \in Sample
    BY DEF Sample, Touch
  <2>3. ring \in [Slots -> Sample]
    BY <2>2 DEF Init, Slots
  <2>4. best \in [idx : Slots, offset : Nat]
    BY <2>1 DEF Init
  <2> QED
    BY <1>1, <2>1, <2>2, <2>3, <2>4 DEF Init, Types
<1>3. Past
  BY Constants DEF Init, Past, Slots, Never
<1> QED
  BY <1>2, <1>3 DEF OldInv, Init, SearchInv, OldEnough, Chosen

(* Steps that leave the search and the ring alone.                          *)
Untouched ==
  UNCHANGED <<ring, idx, best, target, begun, asked, interrupted, picked, overtaken, pc, offset,
              lastHit>>

LEMMA Elsewhere ==
  ASSUME OldInv, Untouched, Types', now <= now'
  PROVE  OldInv'
<1>1. Past'
  <2>1. \A i \in Slots : ring[i].at \in Int
    BY Constants DEF OldInv, Types, Sample, Never
  <2>2. now \in Int /\ now' \in Int
    BY Constants DEF OldInv, Types
  <2> QED
    BY <2>1, <2>2 DEF OldInv, Past, Untouched
<1>2. SearchInv' /\ OldEnough'
  BY DEF OldInv, Untouched, SearchInv, LookedAt, OldEnough, Chosen
<1> QED
  BY <1>1, <1>2 DEF OldInv

(* Time, the transmitter, and the rest of the interrupt.                    *)
LEMMA QuietStep ==
  ASSUME OldInv, Tick \/ AdvanceHead \/ AdvanceCount \/ TxDone \/ ClearHead \/ ClearCount
                 \/ SetDelay \/ Send \/ UNCHANGED vars
  PROVE  OldInv'
<1> USE DEF buffer, search, settings, sending, clock, trace
<1>0. now \in Start..MaxTime /\ now <= now
  BY Constants DEF OldInv, Types
<1>1. CASE Tick
  <2>1. now' \in Start..MaxTime /\ now <= now'
    BY <1>0, <1>1, Constants DEF Tick
  <2>2. begun' \in Start..now'
    BY <2>1, <1>0, <1>1, Constants DEF Tick, OldInv, Types
  <2>3. Types'
    BY <1>1, <2>1, <2>2 DEF Tick, OldInv, Types
  <2> QED
    BY <1>1, <2>1, <2>3, Elsewhere DEF Tick, Untouched
<1>2. CASE AdvanceHead
  <2>1. head' \in Slots /\ held' \in 0..Size
    BY <1>2, Constants DEF AdvanceHead, OldInv, Types, Slots
  <2>2. Types'
    BY <1>2, <2>1 DEF AdvanceHead, OldInv, Types
  <2> QED
    BY <1>0, <1>2, <2>2, Elsewhere DEF AdvanceHead, Untouched
<1>3. CASE AdvanceCount
  <2>1. count' \in 0..Size
    BY <1>3, Constants DEF AdvanceCount, OldInv, Types
  <2>2. Types'
    BY <1>3, <2>1 DEF AdvanceCount, OldInv, Types
  <2> QED
    BY <1>0, <1>3, <2>2, Elsewhere DEF AdvanceCount, Untouched
<1>4. CASE TxDone \/ UNCHANGED vars
  <2>1. Types'
    BY <1>4 DEF TxDone, vars, OldInv, Types
  <2> QED
    BY <1>0, <1>4, <2>1, Elsewhere DEF TxDone, vars, Untouched
<1>5. CASE ClearHead \/ ClearCount
  <2>1. 0 \in Slots /\ 0 \in 0..Size
    BY Constants DEF Slots
  <2>2. Types'
    BY <1>5, <2>1 DEF ClearHead, ClearCount, OldInv, Types
  <2> QED
    BY <1>0, <1>5, <2>2, Elsewhere DEF ClearHead, ClearCount, Untouched
<1>6. CASE SetDelay
  <2>1. PICK d \in Delays : cfg' = [cfg EXCEPT !.delay = d]
    BY <1>6 DEF SetDelay
  <2>2. d \in 0..Start
    BY ConfigAssumption, ClockAssumption, Constants
  <2>3. Types'
    BY <1>6, <2>1, <2>2 DEF SetDelay, OldInv, Types
  <2> QED
    BY <1>0, <1>6, <2>3, Elsewhere DEF SetDelay, Untouched
<1>7. CASE Send
  <2>0. [idx |-> 0, offset |-> 0] \in [idx : Slots, offset : Nat] /\ [at |-> Never, touch |-> 0] \in Sample
    BY Constants DEF Slots, Sample, Touch
  <2>1. Types' /\ Past'
    BY <1>7, <2>0 DEF Send, OldInv, Types, Past
  <2>2. SearchInv' /\ OldEnough'
    BY <1>7 DEF Send, SearchInv, OldEnough, Chosen
  <2> QED
    BY <2>1, <2>2 DEF OldInv
<1> QED
  BY <1>1, <1>2, <1>3, <1>4, <1>5, <1>6, <1>7

(* A round that ends: what it overwrites may have been looked at.           *)
LEMMA StoreStep == ASSUME OldInv, Store PROVE OldInv'
<1> USE DEF search, settings, sending
<1>0. now \in Start..MaxTime /\ now \in Int /\ begun <= now /\ interrupted \in Nat
  BY Constants DEF OldInv, Types
<1>1. PICK touch \in Touch : ring' = [ring EXCEPT ![head] = [at |-> now, touch |-> touch]]
  BY DEF Store
<1>2. ring' \in [Slots -> Sample] /\ head \in Slots
  <2>1. [at |-> now, touch |-> touch] \in Sample
    BY <1>0 DEF Sample
  <2> QED
    BY <1>1, <2>1 DEF OldInv, Types
<1>3. \A i \in Slots : ring'[i] = ring[i] \/ ring'[i].at = now
  BY <1>1 DEF OldInv, Types
<1>4. Types'
  <2>1. held' \in Slots /\ held' \in 0..Size /\ interrupted' \in Nat
    BY <1>0, <1>2, Constants DEF Store, Slots
  <2> QED
    BY <1>2, <2>1 DEF Store, OldInv, Types
<1>5. Past'
  BY <1>0, <1>3 DEF Store, OldInv, Past
<1>6. SearchInv'
  <2>1. /\ idx' = idx /\ best' = best /\ pc' = pc /\ target' = target
        /\ begun' = begun /\ asked' = asked
    BY DEF Store, trace
  <2>2. ASSUME NEW i \in Slots, LookedAt(i), pc # "idle"
        PROVE  ring'[i].at <= begun - asked \/ (interrupted' > 0 /\ ring'[i].at >= begun)
    <3>1. interrupted' > 0
      BY <1>0, <2>2 DEF Store
    <3> QED
      BY <1>0, <1>3, <2>2, <3>1 DEF LookedAt
  <2>3. pc \in {"probe", "newer", "older"} => target = begun - asked
    BY DEF OldInv, SearchInv
  <2>4. pc = "newer" => /\ best.idx \in Slots /\ LookedAt(best.idx)
    BY DEF OldInv, SearchInv, Types
  <2>5. pc = "pick" => /\ idx \in Slots /\ LookedAt(idx)
    BY DEF OldInv, SearchInv, Types
  <2>6. pc = "newer" => ring'[best.idx].at <= begun - asked
                         \/ (interrupted' > 0 /\ ring'[best.idx].at >= begun)
    BY <2>2, <2>4
  <2>7. pc = "pick" => ring'[idx].at <= begun - asked \/ (interrupted' > 0 /\ ring'[idx].at >= begun)
    BY <2>2, <2>5
  <2> QED
    BY <2>1, <2>3, <2>6, <2>7 DEF SearchInv, LookedAt
<1>7. OldEnough'
  BY DEF Store, OldInv, OldEnough, Chosen
<1> QED
  BY <1>4, <1>5, <1>6, <1>7 DEF OldInv

(* A search begins: without delay at the newest sample, which is past.      *)
LEMMA BeginStep == ASSUME OldInv, Begin PROVE OldInv'
<1> USE DEF buffer, settings, sending, clock
<1>0. now \in Start..MaxTime /\ now \in 0..MaxTime /\ cfg.delay \in 0..Start /\ head \in Slots
  BY Constants DEF OldInv, Types
<1>1. ring' = ring /\ begun' = now /\ asked' = cfg.delay /\ now' = now /\ pc' \in {"probe", "pick"}
  BY DEF Begin
<1>2. Types'
  <2>1. begun' \in Start..now' /\ asked' \in 0..Start /\ interrupted' \in Nat
    BY <1>0, Constants DEF Begin
  <2>2. idx' \in Slots
    BY <1>0, BehindInRing DEF Begin, OldInv, Types
  <2>3. lastHit' \in Nat
    BY Constants DEF Begin, OldInv, Types
  <2> QED
    BY <2>1, <2>2, <2>3, <1>1 DEF Begin, OldInv, Types
<1>3. Past'
  BY <1>1 DEF OldInv, Past
<1>4. SearchInv'
  <2>1. pc' = "probe" => target' = begun' - asked'
    <3>1. ASSUME pc' = "probe" PROVE target' = (now - cfg.delay) % TimeMod
      BY <3>1, <1>0, StampIsTime DEF Begin
    <3>2. now - cfg.delay \in 0..(TimeMod - 1)
      BY <1>0, Constants
    <3>3. (now - cfg.delay) % TimeMod = now - cfg.delay
      BY <3>2, Constants
    <3> QED
      BY <3>1, <3>3, <1>1
  <2>2. pc' = "pick" => LookedAt(idx)'
    <3>1. ASSUME pc' = "pick" PROVE idx' = Behind(1) /\ asked' = 0
      BY <3>1 DEF Begin
    <3>2. Behind(1) \in Slots
      BY <1>0, BehindInRing
    <3>3. ring[Behind(1)].at <= now
      BY <3>2 DEF OldInv, Past
    <3> HIDE DEF Behind
    <3>4. ring[Behind(1)].at <= now - 0
      BY <3>3, <1>0
    <3> QED
      BY <1>1, <3>1, <3>4 DEF LookedAt
  <2> QED
    BY <1>1, <2>1, <2>2 DEF SearchInv
<1>5. OldEnough'
  BY <1>1 DEF OldEnough, Chosen
<1> QED
  BY <1>2, <1>3, <1>4, <1>5 DEF OldInv

(* The search keeps only what it found old enough.                          *)
LEMMA SearchStep == ASSUME OldInv, Probe \/ Newer \/ Older PROVE OldInv'
<1> USE DEF Searching, buffer, settings, sending, clock, trace
<1>0. /\ head \in Slots /\ lastHit \in Nat /\ offset \in Nat /\ target = begun - asked
      /\ Types
  BY DEF OldInv, Types, SearchInv, Probe, Newer, Older
<1>1. /\ UNCHANGED <<now, ring, target, begun, asked, interrupted, picked, overtaken, head, count>>
      /\ pc' \in {"idle", "newer", "older", "pick"}
  BY DEF Probe, Newer, Older
<1>2. \A i \in Slots : OldAt(i) => LookedAt(i)
  BY <1>0, OldIsOld DEF LookedAt
<1>3. \A o \in Int : Behind(o) \in Slots
  BY <1>0, BehindInRing
<1>4. /\ idx' \in Slots /\ offset' \in Nat /\ lastHit' \in Nat
      /\ best'.idx \in Slots /\ best' \in [idx : Slots, offset : Nat]
      /\ pc' = "newer" => LookedAt(best'.idx)
      /\ pc' = "pick" => LookedAt(idx')
  <2> HIDE DEF Behind, OldAt
  <2>0. /\ best \in [idx : Slots, offset : Nat] /\ idx \in Slots
        /\ pc = "newer" => LookedAt(best.idx)
    BY DEF OldInv, Types, SearchInv
  <2>1. CASE Probe
    <3>1. (lastHit - 1) % OffsetMod \in Nat /\ (lastHit + 1) % OffsetMod \in Nat
      BY <1>0, Constants
    <3>2. Behind(lastHit) \in Slots
      BY <1>0, <1>3
    <3>3. OldAt(idx') => OldAt(Behind(lastHit))
      BY <2>1 DEF Probe
    <3>4. CASE OldAt(Behind(lastHit))
      BY <2>1, <1>0, <1>2, <3>1, <3>2, <3>4 DEF Probe
    <3>5. CASE ~ OldAt(Behind(lastHit))
      BY <2>0, <2>1, <1>0, <3>1, <3>2, <3>5 DEF Probe
    <3> QED
      BY <3>4, <3>5
  <2>2. CASE Newer
    <3>1. CASE offset > 0 /\ OldAt(Behind(offset))
      BY <2>0, <2>2, <1>0, <1>2, <1>3, <3>1 DEF Newer
    <3>2. CASE ~ (offset > 0 /\ OldAt(Behind(offset)))
      BY <2>0, <2>2, <1>0, <3>2 DEF Newer
    <3> QED
      BY <3>1, <3>2
  <2>3. CASE Older
    <3>1. CASE offset > count
      BY <2>0, <2>3, <1>0, <3>1 DEF Older
    <3>2. CASE ~ (offset > count)
      <4>1. idx' = Behind(offset) /\ Behind(offset) \in Slots
        BY <2>3, <3>2, <1>0, <1>3 DEF Older
      <4>2. CASE OldAt(Behind(offset))
        BY <2>0, <2>3, <1>0, <1>2, <3>2, <4>1, <4>2 DEF Older
      <4>3. CASE ~ OldAt(Behind(offset))
        BY <2>0, <2>3, <1>0, <3>2, <4>1, <4>3 DEF Older
      <4> QED
        BY <4>2, <4>3
    <3> QED
      BY <3>1, <3>2
  <2> QED
    BY <2>1, <2>2, <2>3
<1>5. Types'
  BY <1>1, <1>4 DEF Probe, Newer, Older, OldInv, Types
<1>6. Past'
  BY <1>1 DEF OldInv, Past
<1>7. SearchInv'
  BY <1>0, <1>1, <1>4 DEF SearchInv, LookedAt
<1>8. OldEnough'
  BY <1>1 DEF OldEnough, Chosen
<1> QED
  BY <1>5, <1>6, <1>7, <1>8 DEF OldInv

(* What is chosen was looked at, or its slot was overwritten meanwhile.     *)
LEMMA ChoiceStep == ASSUME OldInv, Pick \/ Vote PROVE OldInv'
<1> USE DEF buffer, search, settings, sending, clock
<1>1. CASE Pick
  <2>1. picked' \in Sample /\ pc' \in {"vote", "send"}
    BY <1>1 DEF Pick, OldInv, Types
  <2>2. Types' /\ Past'
    BY <1>1, <2>1 DEF Pick, OldInv, Types, Past
  <2>3. SearchInv'
    BY <2>1 DEF SearchInv
  <2>4. OldEnough'
    <3>1. ring[idx].at \in Int /\ begun \in Int /\ asked \in Int
      BY Constants DEF OldInv, Types, Sample, Never
    <3>2. LookedAt(idx)
      BY <1>1 DEF Pick, OldInv, SearchInv
    <3>3. CASE ring[idx].at <= begun - asked
      BY <1>1, <3>3 DEF Pick, OldEnough
    <3>4. CASE ~ (ring[idx].at <= begun - asked)
      <4>1. interrupted > 0 /\ ring[idx].at >= begun /\ ring[idx].at > begun - asked
        BY <3>1, <3>2, <3>4 DEF LookedAt
      <4>2. overtaken'
        BY <1>1, <4>1 DEF Pick
      <4> QED
        BY <4>2 DEF OldEnough
    <3> QED
      BY <3>3, <3>4
  <2> QED
    BY <2>2, <2>3, <2>4 DEF OldInv
<1>2. CASE Vote
  BY <1>2 DEF Vote, OldInv, Types, Past, SearchInv, LookedAt, OldEnough, Chosen
<1> QED
  BY <1>1, <1>2

(* The host is never shown a touch state younger than the delay, with the   *)
(* one exception of a slot overwritten between its look and its use         *)
(* (processSerialModeWithDelay, input_manager.cpp:520-590).                 *)
THEOREM NeverTooYoung == Spec => []OldEnough
<1>1. OldInv /\ [Next]_vars => OldInv'
  BY QuietStep, StoreStep, BeginStep, SearchStep, ChoiceStep DEF Next, Interrupt, Core1, Task0
<1>2. OldInv => OldEnough
  BY DEF OldInv
<1> QED
  BY OldInit, <1>1, <1>2, PTL DEF Spec

-----------------------------------------------------------------------------
(* Remainders.                                                              *)
LEMMA Multiple ==
  ASSUME NEW n \in Nat, n > 0, NEW k \in Int, k >= 1 PROVE n * k >= n
<1>1. n * k = n + n * (k - 1) /\ n * (k - 1) >= 0
  OBVIOUS
<1> QED
  BY <1>1

LEMMA RemainderUnique ==
  ASSUME NEW n \in Nat, n > 0, NEW q \in Int, NEW p \in Int,
         NEW r \in 0..(n - 1), NEW s \in 0..(n - 1), n * q + r = n * p + s
  PROVE  r = s
<1>1. n * (q - p) = s - r /\ n * (p - q) = r - s
  OBVIOUS
<1>2. CASE q - p >= 1
  BY <1>1, <1>2, Multiple
<1>3. CASE p - q >= 1
  BY <1>1, <1>3, Multiple
<1>4. CASE q = p
  BY <1>1, <1>4
<1> QED
  BY <1>2, <1>3, <1>4

LEMMA Remainder ==
  ASSUME NEW n \in Nat, n > 0, NEW x \in Int
  PROVE  x % n \in 0..(n - 1) /\ x \div n \in Int /\ x = n * (x \div n) + (x % n)
OBVIOUS

LEMMA RemainderOf ==
  ASSUME NEW n \in Nat, n > 0, NEW q \in Int, NEW r \in 0..(n - 1)
  PROVE  (n * q + r) % n = r
<1> DEFINE x == n * q + r
<1>1. x \in Int
  OBVIOUS
<1>2. x % n \in 0..(n - 1) /\ x \div n \in Int /\ x = n * (x \div n) + (x % n)
  BY <1>1, Remainder
<1> QED
  BY <1>1, <1>2, RemainderUnique

LEMMA AddMultiple ==
  ASSUME NEW n \in Nat, n > 0, NEW q \in Int, NEW x \in Int
  PROVE  (x + n * q) % n = x % n
<1> DEFINE d == x \div n
           r == x % n
<1>1. r \in 0..(n - 1) /\ d \in Int /\ x = n * d + r
  BY Remainder
<1> HIDE DEF d, r
<1>2. x + n * q = n * (d + q) + r /\ d + q \in Int
  BY <1>1
<1>3. (n * (d + q) + r) % n = r
  BY <1>1, <1>2, RemainderOf
<1> QED
  BY <1>2, <1>3 DEF r

(* The slot after another, around the end of the ring.                      *)
After(i) == IF i = Size - 1 THEN 0 ELSE i + 1

LEMMA NextSlot ==
  ASSUME NEW x \in Int PROVE x % Size \in Slots /\ (x + 1) % Size = After(x % Size)
<1> DEFINE d == x \div Size
           r == x % Size
<1>0. Size \in Nat /\ Size > 1
  BY Constants
<1>1. r \in 0..(Size - 1) /\ d \in Int /\ x = Size * d + r
  BY <1>0, Remainder
<1> HIDE DEF d, r
<1>2. CASE r = Size - 1
  <2>1. x + 1 = Size * (d + 1) + 0 /\ d + 1 \in Int /\ 0 \in 0..(Size - 1)
    BY <1>0, <1>1, <1>2
  <2>2. (Size * (d + 1) + 0) % Size = 0
    BY <1>0, <2>1, RemainderOf
  <2> QED
    BY <1>1, <1>2, <2>1, <2>2 DEF r, After, Slots
<1>3. CASE r # Size - 1
  <2>1. x + 1 = Size * d + (r + 1) /\ r + 1 \in 0..(Size - 1)
    BY <1>0, <1>1, <1>3
  <2>2. (Size * d + (r + 1)) % Size = r + 1
    BY <1>0, <1>1, <2>1, RemainderOf
  <2> QED
    BY <1>1, <1>3, <2>1, <2>2 DEF r, After, Slots
<1> QED
  BY <1>2, <1>3

(* The remainder of what is less than one ring below.                       *)
LEMMA Around ==
  ASSUME NEW x \in Int, x >= -Size, x < Size
  PROVE  x % Size = IF x < 0 THEN x + Size ELSE x
<1>0. Size \in Nat /\ Size > 1
  BY Constants
<1>1. CASE x < 0
  <2>1. x = Size * (-1) + (x + Size)
    BY <1>0
  <2>2. CASE x + Size \in 0..(Size - 1)
    BY <1>0, <1>1, <2>1, <2>2, RemainderOf
  <2> QED
    BY <1>0, <1>1, <2>2
<1>2. CASE x >= 0
  <2>1. x = Size * 0 + x /\ x \in 0..(Size - 1)
    BY <1>0, <1>2
  <2> QED
    BY <1>0, <1>2, <2>1, RemainderOf
<1> QED
  BY <1>1, <1>2

-----------------------------------------------------------------------------
(* The ring while nobody changes the delay.  Front is the slot the next     *)
(* round goes to, Rank counts from the newest sample, Filled is the number  *)
(* of samples, all three as they are once the interrupt has returned.  Way  *)
(* counts the rounds from one slot to another, 1..Size.                     *)
Way(i, x) == IF i < x THEN x - i ELSE x - i + Size
Front == IF irq = "head" THEN After(head) ELSE head
Rank(i) == Way(i, Front)
Filled == IF irq = "none" \/ count = Size THEN count ELSE count + 1

(* A round takes a tick at least, so samples are as far apart in time as in *)
(* the ring.                                                                *)
Spaced ==
  /\ \A i \in Slots : ring[i].at # Never <=> Rank(i) <= Filled
  /\ \A i, j \in Slots : Rank(i) < Rank(j) /\ ring[j].at # Never =>
       ring[j].at + Rank(j) <= ring[i].at + Rank(i)
  /\ \A i \in Slots : ring[i].at # Never =>
       ring[i].at + Rank(i) <= (IF sampled THEN now + 1 ELSE now)

Registers ==
  /\ uiPc = "idle"
  /\ irq = "head" => held = head
  /\ irq = "count" => held = count
  /\ cfg.delay + cfg.window < Start

RingInv == Types /\ Registers /\ Spaced

LEMMA RanksInRing ==
  ASSUME head \in Slots
  PROVE  /\ Front \in Slots
         /\ \A i \in Slots : Rank(i) \in 1..Size
         /\ \A i, j \in Slots : Rank(i) = Rank(j) => i = j
BY Constants DEF Front, Rank, Way, After, Slots

LEMMA TimesInRing ==
  ASSUME Types
  PROVE  \A i \in Slots : /\ ring[i] \in Sample /\ ring[i].at \in Int
                          /\ ring[i].at = Never \/ ring[i].at \in Start..MaxTime
<1>1. \A i \in Slots : ring[i] \in Sample
  BY DEF Types
<1>2. \A s \in Sample : s.at \in Int /\ (s.at = Never \/ s.at \in Start..MaxTime)
  BY Constants DEF Sample, Never
<1> QED
  BY <1>1, <1>2

(* A round takes the first rank and moves the others up.                    *)
LEMMA StoreRanks ==
  ASSUME head \in Slots, Store
  PROVE  /\ head' = head
         /\ \A i \in Slots : /\ i = head => Rank(i) = Size /\ Rank(i)' = 1
                             /\ i # head => Rank(i)' = Rank(i) + 1
BY Constants DEF Store, Front, Rank, Way, After, Slots

LEMMA RingInit == Init => Registers /\ Spaced
<1> SUFFICES ASSUME Init PROVE Registers /\ Spaced
  OBVIOUS
<1>1. head \in Slots /\ count = 0 /\ irq = "none" /\ uiPc = "idle"
  BY Constants DEF Init, Slots
<1>2. \A i \in Slots : Rank(i) \in 1..Size /\ ring[i].at = Never
  BY <1>1, RanksInRing DEF Init, Slots
<1>3. Filled = 0
  BY <1>1 DEF Filled
<1>4. cfg.delay + cfg.window < Start
  BY ClockAssumption DEF Init
<1> QED
  BY <1>1, <1>2, <1>3, <1>4, Constants DEF Registers, Spaced

LEMMA RingStored ==
  ASSUME Types, Registers, Spaced, Store
  PROVE  Registers' /\ Spaced'
<1> USE DEF Types
<1>0. /\ head \in Slots /\ Size \in Nat /\ Size > 1 /\ now \in Int /\ now >= 0 /\ count \in 0..Size
  BY Constants
<1>1. PICK touch \in Touch : ring' = [ring EXCEPT ![head] = [at |-> now, touch |-> touch]]
  BY DEF Store
<1>2. /\ irq = "none" /\ irq' = "head" /\ ~ sampled /\ sampled' = TRUE
      /\ held' = head /\ now' = now /\ head' = head /\ count' = count /\ uiPc' = uiPc
      /\ cfg' = cfg
  BY DEF Store, settings
<1>3. ring'[head].at = now /\ \A i \in Slots \ {head} : ring'[i] = ring[i]
  BY <1>0, <1>1
<1>4. \A i \in Slots : /\ i = head => Rank(i) = Size /\ Rank(i)' = 1
                       /\ i # head => Rank(i)' = Rank(i) + 1
  BY <1>0, StoreRanks
<1>5. \A i \in Slots : Rank(i) \in 1..Size
  BY <1>0, RanksInRing
<1>6. \A i, j \in Slots : Rank(i) = Rank(j) => i = j
  BY <1>0, RanksInRing
<1>7. \A i \in Slots : ring[i].at \in Int
  BY TimesInRing
<1>8. Registers'
  BY <1>2 DEF Registers
<1>9. Filled' = IF count = Size THEN Size ELSE count + 1
  BY <1>2 DEF Filled
<1>10. Filled = count
  BY <1>2 DEF Filled
<1>11. ASSUME NEW i \in Slots PROVE ring'[i].at # Never <=> Rank(i)' <= Filled'
  <2>1. CASE i = head
    BY <2>1, <1>0, <1>3, <1>4, <1>9 DEF Never
  <2>2. CASE i # head
    <3>1. ring[i].at # Never <=> Rank(i) <= count
      BY <1>10 DEF Spaced
    <3>2. Rank(i) # Size
      BY <2>2, <1>0, <1>4, <1>6
    <3>3. ring'[i] = ring[i] /\ Rank(i)' = Rank(i) + 1
      BY <2>2, <1>3, <1>4
    <3> QED
      BY <3>1, <3>2, <3>3, <1>0, <1>5, <1>9
  <2> QED
    BY <2>1, <2>2
<1>12. ASSUME NEW i \in Slots, NEW j \in Slots, Rank(i)' < Rank(j)', ring'[j].at # Never
       PROVE  ring'[j].at + Rank(j)' <= ring'[i].at + Rank(i)'
  <2>1. j # head
    <3>1. Rank(i)' \in 1..Size
      BY RanksInRing, <1>0, <1>2, <1>4, <1>5
    <3> QED
      BY <3>1, <1>4, <1>12
  <2>2. ring'[j] = ring[j] /\ Rank(j)' = Rank(j) + 1
    BY <2>1, <1>3, <1>4
  <2>3. CASE i = head
    <3>1. ring[j].at + Rank(j) <= now
      BY <1>2, <1>12, <2>2 DEF Spaced
    <3> QED
      BY <3>1, <2>2, <2>3, <1>0, <1>3, <1>4, <1>5, <1>7
  <2>4. CASE i # head
    <3>1. ring'[i] = ring[i] /\ Rank(i)' = Rank(i) + 1
      BY <2>4, <1>3, <1>4
    <3>2. Rank(i) < Rank(j)
      BY <3>1, <2>2, <1>5, <1>12
    <3>3. ring[j].at + Rank(j) <= ring[i].at + Rank(i)
      BY <3>2, <2>2, <1>12 DEF Spaced
    <3> QED
      BY <3>1, <3>3, <2>2, <1>5, <1>7
  <2> QED
    BY <2>3, <2>4
<1>13. ASSUME NEW i \in Slots, ring'[i].at # Never PROVE ring'[i].at + Rank(i)' <= now + 1
  <2>1. CASE i = head
    BY <2>1, <1>0, <1>3, <1>4
  <2>2. CASE i # head
    <3>1. ring'[i] = ring[i] /\ Rank(i)' = Rank(i) + 1
      BY <2>2, <1>3, <1>4
    <3>2. ring[i].at + Rank(i) <= now
      BY <3>1, <1>2, <1>13 DEF Spaced
    <3> QED
      BY <3>1, <3>2, <1>0, <1>5, <1>7
  <2> QED
    BY <2>1, <2>2
<1>14. Spaced'
  BY <1>2, <1>11, <1>12, <1>13 DEF Spaced
<1> QED
  BY <1>8, <1>14

(* The rest of the interrupt and of the others leave ranks and times alone. *)
LEMMA RingKept ==
  ASSUME Types, Registers, Spaced, ~ Store, [Next]_vars, clears' = 0
  PROVE  /\ Registers' /\ Spaced' /\ ring' = ring /\ Front' = Front
         /\ \A i : Rank(i)' = Rank(i)
<1> USE DEF buffer, search, settings, sending, clock, trace
<1>0. /\ head \in Slots /\ count \in 0..Size /\ now \in Int /\ sampled \in BOOLEAN
      /\ Size \in Nat /\ Size > 1 /\ clears \in Nat /\ irq \in {"none", "head", "count"}
  BY Constants DEF Types
<1>1. ~ SetDelay /\ ~ ClearHead /\ ~ ClearCount
  BY <1>0 DEF SetDelay, ClearHead, ClearCount, Registers
<1>2. uiPc' = uiPc /\ ring' = ring /\ cfg' = cfg
  BY <1>1 DEF Next, Interrupt, Core1, Task0, Tick, AdvanceHead, AdvanceCount, TxDone, Begin, Probe,
              Newer, Older, Pick, Vote, Send, vars, Searching
<1>3. Registers' /\ Front' = Front /\ Filled' = Filled
  <2>1. CASE AdvanceHead
    <3>1. head' = After(head)
      <4>1. head' = (head + 1) % Size
        BY <2>1 DEF AdvanceHead, Registers
      <4>2. head % Size = head
        BY <1>0, Around DEF Slots
      <4>3. (head + 1) % Size = After(head % Size)
        <5>1. head \in Int
          BY <1>0 DEF Slots
        <5> QED
          BY <5>1, NextSlot
      <4> QED
        BY <4>1, <4>2, <4>3
    <3> QED
      BY <2>1, <3>1, <1>2 DEF AdvanceHead, Registers, Front, Filled
  <2>2. CASE AdvanceCount
    BY <2>2, <1>0, <1>2 DEF AdvanceCount, Registers, Front, Filled
  <2>3. CASE ~ AdvanceHead /\ ~ AdvanceCount
    <3>1. UNCHANGED <<head, count, irq, held>>
      BY <2>3, <1>1 DEF Next, Interrupt, Core1, Task0, Tick, TxDone, Begin, Probe,
              Newer, Older, Pick, Vote, Send, vars, Searching
    <3> QED
      BY <3>1, <1>2 DEF Registers, Front, Filled
  <2> QED
    BY <2>1, <2>2, <2>3
<1>4. \A i : Rank(i)' = Rank(i)
  BY <1>3 DEF Rank
<1>5. Spaced'
  <2>1. /\ \A i \in Slots : ring'[i].at # Never <=> Rank(i)' <= Filled'
        /\ \A i, j \in Slots : Rank(i)' < Rank(j)' /\ ring'[j].at # Never =>
              ring'[j].at + Rank(j)' <= ring'[i].at + Rank(i)'
    BY <1>2, <1>3, <1>4 DEF Spaced
  <2>2. (IF sampled THEN now + 1 ELSE now) <= (IF sampled' THEN now' + 1 ELSE now')
    <3>1. CASE Tick
      BY <3>1, <1>0 DEF Tick
    <3>2. CASE ~ Tick
      <4>1. UNCHANGED <<now, sampled>>
        BY <3>2, <1>1 DEF Next, Interrupt, Core1, Task0, AdvanceHead, AdvanceCount, TxDone, Begin,
              Probe, Newer, Older, Pick, Vote, Send, vars, Searching
      <4> QED
        BY <4>1, <1>0
    <3> QED
      BY <3>1, <3>2
  <2>3. now' \in Int
    BY <1>0 DEF Next, Interrupt, Core1, Task0, Tick, AdvanceHead, AdvanceCount, TxDone, Begin,
              Probe, Newer, Older, Pick, Vote, Send, vars, Searching, SetDelay, ClearHead, ClearCount,
              Store
  <2>4. ASSUME NEW i \in Slots, ring'[i].at # Never
        PROVE  ring'[i].at + Rank(i)' <= (IF sampled' THEN now' + 1 ELSE now')
    <3> DEFINE before == IF sampled THEN now + 1 ELSE now
               after == IF sampled' THEN now' + 1 ELSE now'
    <3>1. ring[i].at \in Int /\ Rank(i) \in Int /\ before \in Int /\ after \in Int
      BY <1>0, <2>3, TimesInRing, RanksInRing
    <3>2. ring[i].at + Rank(i) <= before
      BY <2>4, <1>2 DEF Spaced
    <3>3. before <= after
      BY <2>2
    <3> HIDE DEF before, after
    <3>4. ring'[i].at + Rank(i)' <= after
      BY <3>1, <3>2, <3>3, <1>2, <1>4
    <3> QED
      BY <3>4 DEF after
  <2> QED
    BY <2>1, <2>4 DEF Spaced
<1> QED
  BY <1>2, <1>3, <1>4, <1>5

-----------------------------------------------------------------------------
(* The search.                                                              *)

(* Of k slots at most the sample is newer than t and as old as e.           *)
Few(t, samples, k, e) ==
  \E Z \in SUBSET Slots :
    /\ IsFiniteSet(Z) /\ Cardinality(Z) <= k
    /\ \A i \in Slots \ Z : ~ (t < samples[i].at /\ samples[i].at <= e)

(* What a search knows of the samples that were there when it began.        *)
SinceInv ==
  pc # "idle" =>
    /\ asked = cfg.delay
    /\ asked > 0 => target = begun - asked
    /\ pc \in {"probe", "newer", "older"} => asked > 0
    /\ pc \in {"probe", "newer", "older", "pick"} => voted = {}
    /\ \A i \in Slots : ring[i].at # Never =>
         Rank(i) <= interrupted \/ ring[i].at + Rank(i) <= begun + interrupted + 1

(* The slot the search looks at next.                                       *)
Ahead == (Front - offset) % Size

(* Between what was last found and the slot ahead lie only samples that a   *)
(* round pushed past the search; behind the walk to older ones all are too  *)
(* young.                                                                   *)
WalkInv ==
  /\ pc = "probe" => lastHit < Size
  /\ pc = "newer" => Way(best.idx, Ahead) <= interrupted + 1
  /\ pc = "older" => /\ offset >= 1
                     /\ \A i \in Slots : Rank(i) < offset => ring[i].at > target

(* What was chosen is near the newest sample that is old enough.            *)
ChoiceInv ==
  /\ pc = "pick" => Few(ring[idx].at, ring, interrupted, begun - asked)
  /\ Chosen => Few(picked.at, ring, interrupted, begun - asked)
  /\ pc = "pick" \/ Chosen =>
       /\ Way(idx, Front) <= asked + 2 * interrupted + 1
       /\ asked = 0 => Way(idx, Front) <= interrupted + 1 /\ ring[idx].at # Never
  /\ Chosen => ring[idx] = picked \/ Size <= asked + 2 * interrupted

Settled == Registers /\ Spaced /\ SinceInv /\ WalkInv /\ ChoiceInv

-----------------------------------------------------------------------------
(* Slots on the way from one to another.                                    *)
Between(i, x) == {j \in Slots : IF i < x THEN i < j /\ j < x ELSE i < j \/ j < x}

LEMMA BetweenCount ==
  ASSUME NEW i \in Slots, NEW x \in Slots
  PROVE  IsFiniteSet(Between(i, x)) /\ Cardinality(Between(i, x)) = Way(i, x) - 1
<1>0. Size \in Nat /\ Size > 1 /\ i \in Int /\ x \in Int
  BY Constants DEF Slots
<1>1. CASE i < x
  <2>1. Between(i, x) = (i + 1)..(x - 1)
    BY <1>0, <1>1 DEF Between, Slots
  <2>2. /\ IsFiniteSet((i + 1)..(x - 1))
        /\ Cardinality((i + 1)..(x - 1)) = IF i + 1 > x - 1 THEN 0 ELSE (x - 1) - (i + 1) + 1
    BY <1>0, FS_Interval
  <2> QED
    BY <1>0, <1>1, <2>1, <2>2 DEF Way
<1>2. CASE ~ (i < x)
  <2> DEFINE A == (i + 1)..(Size - 1)
             B == 0..(x - 1)
  <2>1. Between(i, x) = A \cup B /\ A \cap B = {}
    BY <1>0, <1>2 DEF Between, Slots
  <2>2. IsFiniteSet(A) /\ Cardinality(A) = IF i + 1 > Size - 1 THEN 0 ELSE (Size - 1) - (i + 1) + 1
    BY <1>0, FS_Interval
  <2>3. IsFiniteSet(B) /\ Cardinality(B) = IF 0 > x - 1 THEN 0 ELSE (x - 1) - 0 + 1
    BY <1>0, FS_Interval
  <2> HIDE DEF A, B
  <2>4. IsFiniteSet(A \cup B) /\ Cardinality(A \cup B) = Cardinality(A) + Cardinality(B) - Cardinality({})
    BY <2>1, <2>2, <2>3, FS_Union
  <2>5. Cardinality({}) = 0
    BY FS_EmptySet
  <2>6. Cardinality(A) = Size - 1 - i /\ Cardinality(B) = x
    BY <1>0, <2>2, <2>3 DEF Slots
  <2> QED
    BY <1>0, <1>2, <2>1, <2>4, <2>5, <2>6 DEF Way
<1> QED
  BY <1>1, <1>2

LEMMA Ways ==
  ASSUME NEW i \in Slots, NEW x \in Slots
  PROVE  /\ Way(i, x) \in 1..Size
         /\ Way(i, After(x)) <= Way(i, x) + 1
         /\ Way(i, After(i)) = 1
         /\ After(x) \in Slots
BY Constants DEF Way, After, Slots

(* Who is older than i and newer than b, seen from the front.               *)
LEMMA BetweenRanks ==
  ASSUME head \in Slots, NEW b \in Slots, NEW i \in Slots, NEW x \in Slots
  PROVE  /\ Rank(x) < Rank(i) /\ Rank(i) < Rank(b) => i \in Between(b, x)
         /\ Rank(i) < Rank(b) => i \in Between(b, Front)
         /\ Rank(b) <= Rank(x) + Way(b, x)
<1>1. Front \in Slots
  BY RanksInRing
<1> QED
  BY <1>1, Constants DEF Rank, Way, Between, Slots

(* The slot that lies a number of rounds behind the head.                   *)
LEMMA BehindRank ==
  ASSUME head \in Slots, irq = "none", NEW o \in 0..Size
  PROVE  /\ Behind(o) \in Slots
         /\ Rank(Behind(o)) = IF o = 0 THEN Size ELSE o
<1>0. Size \in Nat /\ Size > 1 /\ head \in 0..(Size - 1) /\ Front = head
  BY Constants DEF Front, Slots
<1>1. Behind(o) = IF head - o < 0 THEN head - o + Size ELSE head - o
  BY <1>0, Around DEF Behind
<1> QED
  BY <1>0, <1>1 DEF Rank, Way, Slots

(* The slot ahead moves with the front and towards it with the offset.      *)
LEMMA AheadMoves ==
  ASSUME NEW f \in Slots, NEW o \in Int
  PROVE  /\ (f - o) % Size \in Slots
         /\ (After(f) - o) % Size = After((f - o) % Size)
         /\ (f - (o - 1)) % Size = After((f - o) % Size)
<1>0. Size \in Nat /\ Size > 1 /\ f \in Int
  BY Constants DEF Slots
<1>1. (f - o) % Size \in Slots /\ ((f - o) + 1) % Size = After((f - o) % Size)
  <2>1. f - o \in Int
    BY <1>0
  <2> QED
    BY <2>1, NextSlot
<1>2. f - (o - 1) = (f - o) + 1
  BY <1>0
<1>3. (After(f) - o) % Size = ((f - o) + 1) % Size
  <2>1. CASE f = Size - 1
    <3> DEFINE y == (f - o) + 1
               q == -1
    <3>1. After(f) - o = y + Size * q /\ y \in Int /\ q \in Int
      BY <1>0, <2>1 DEF After
    <3> HIDE DEF y, q
    <3>2. (y + Size * q) % Size = y % Size
      <4>1. Size \in Nat /\ Size > 0
        BY <1>0
      <4> QED
        BY <4>1, <3>1, AddMultiple, Zenon
    <3> QED
      BY <3>1, <3>2 DEF y
  <2>2. CASE f # Size - 1
    <3>1. After(f) - o = (f - o) + 1
      BY <1>0, <2>2 DEF After
    <3> QED
      BY <3>1
  <2> QED
    BY <2>1, <2>2
<1> QED
  BY <1>1, <1>2, <1>3

(* Newer than b comes first in rank.                                        *)
LEMMA NewerRank ==
  ASSUME Types, Spaced, NEW b \in Slots, NEW i \in Slots, ring[b].at < ring[i].at
  PROVE  Rank(i) < Rank(b)
<1>1. /\ head \in Slots /\ ring[b].at \in Int /\ ring[i].at \in Int /\ Rank(i) \in Int /\ Rank(b) \in Int
      /\ ring[b].at >= Never
  <2>1. head \in Slots
    BY DEF Types
  <2> QED
    BY <2>1, TimesInRing, RanksInRing, Constants DEF Never
<1>2. ring[i].at # Never
  BY <1>1 DEF Never
<1>3. ~ (Rank(b) < Rank(i))
  <2>1. ASSUME Rank(b) < Rank(i) PROVE FALSE
    <3>1. ring[i].at + Rank(i) <= ring[b].at + Rank(b)
      BY <1>2, <2>1 DEF Spaced
    <3> QED
      BY <1>1, <2>1, <3>1
  <2> QED
    BY <2>1
<1>4. Rank(b) # Rank(i)
  <2>1. ASSUME Rank(b) = Rank(i) PROVE FALSE
    <3>1. b = i
      BY <2>1, RanksInRing DEF Types
    <3> QED
      BY <3>1, <1>1
  <2> QED
    BY <2>1
<1> QED
  BY <1>1, <1>3, <1>4

(* Between b and a sample too young, or between b and the front, lies all   *)
(* that is newer than b and old enough.                                     *)
LEMMA FewBefore ==
  ASSUME Types, Spaced, NEW b \in Slots, NEW x \in Slots, NEW k \in Nat, NEW e \in Int,
         Way(b, x) <= k + 1, x = Front \/ ring[x].at > e
  PROVE  Few(ring[b].at, ring, k, e)
<1> DEFINE Z == Between(b, x)
<1>0. head \in Slots
  BY DEF Types
<1>1. IsFiniteSet(Z) /\ Cardinality(Z) = Way(b, x) - 1 /\ Z \in SUBSET Slots
  BY BetweenCount DEF Between
<1>2. Way(b, x) \in Int
  BY Ways
<1>3. Cardinality(Z) <= k
  BY <1>1, <1>2
<1>4. ASSUME NEW i \in Slots \ Z PROVE ~ (ring[b].at < ring[i].at /\ ring[i].at <= e)
  <2>1. ASSUME ring[b].at < ring[i].at, ring[i].at <= e PROVE i \in Z
    <3>1. Rank(i) < Rank(b)
      BY <2>1, NewerRank
    <3>2. CASE x = Front
      BY <3>1, <3>2, <1>0, BetweenRanks
    <3>3. CASE ring[x].at > e
      <4>1. ring[i].at < ring[x].at
        <5>1. ring[i].at \in Int /\ ring[x].at \in Int
          BY TimesInRing
        <5> QED
          BY <5>1, <2>1, <3>3
      <4>2. Rank(x) < Rank(i)
        BY <4>1, NewerRank
      <4> QED
        BY <3>1, <4>2, <1>0, BetweenRanks
    <3> QED
      BY <3>2, <3>3
  <2> QED
    BY <2>1
<1> HIDE DEF Z
<1> QED
  BY <1>1, <1>3, <1>4 DEF Few

(* A round adds one slot to them.                                           *)
LEMMA FewStored ==
  ASSUME Types, Store, NEW t, NEW k \in Nat, NEW e, Few(t, ring, k, e)
  PROVE  Few(t, ring', k + 1, e)
<1>1. PICK Z \in SUBSET Slots :
        /\ IsFiniteSet(Z) /\ Cardinality(Z) <= k
        /\ \A i \in Slots \ Z : ~ (t < ring[i].at /\ ring[i].at <= e)
  BY DEF Few
<1> DEFINE Y == Z \cup {head}
<1>2. IsFiniteSet(Y) /\ Y \in SUBSET Slots
  BY <1>1, FS_AddElement DEF Types
<1>3. Cardinality(Y) <= k + 1
  <2>1. Cardinality(Y) = IF head \in Z THEN Cardinality(Z) ELSE Cardinality(Z) + 1
    BY <1>1, FS_AddElement
  <2>2. Cardinality(Z) \in Nat
    BY <1>1, FS_CardinalityType
  <2> QED
    BY <1>1, <2>1, <2>2
<1>4. \A i \in Slots \ Y : ring'[i] = ring[i]
  BY DEF Store, Types
<1>5. \A i \in Slots \ Y : ~ (t < ring'[i].at /\ ring'[i].at <= e)
  BY <1>1, <1>4
<1> HIDE DEF Y
<1> QED
  BY <1>2, <1>3, <1>5 DEF Few

(* What the search finds too young is.                                      *)
LEMMA TooYoung ==
  ASSUME Types, SearchInv, pc \in {"probe", "newer", "older"}, NEW x \in Slots, ~ OldAt(x)
  PROVE  ring[x].at > begun - asked /\ ring[x].at # Never
<1>1. begun - asked \in Nat /\ target = begun - asked
  BY Constants DEF Types, SearchInv
<1>2. ring[x].at \in Int /\ (ring[x].at = Never \/ ring[x].at \in Start..MaxTime)
  BY TimesInRing
<1>3. CASE ring[x].at = Never
  BY <1>1, <1>3 DEF OldAt, TimeOf
<1>4. CASE ring[x].at # Never
  <2>1. TimeOf(ring[x]) = ring[x].at
    BY <1>2, <1>4, StampIsTime, Constants DEF TimeOf
  <2> QED
    BY <1>1, <1>2, <1>4, <2>1 DEF OldAt
<1> QED
  BY <1>3, <1>4

(* What is too young is near the front.                                     *)
LEMMA YoungNear ==
  ASSUME Types, SinceInv, pc # "idle", NEW x \in Slots,
         ring[x].at > begun - asked, ring[x].at # Never
  PROVE  Rank(x) <= asked + interrupted
<1>1. /\ ring[x].at \in Int /\ begun \in Int /\ asked \in Nat /\ interrupted \in Nat /\ Rank(x) \in Int
  <2>1. head \in Slots
    BY DEF Types
  <2> QED
    BY <2>1, TimesInRing, RanksInRing, Constants DEF Types
<1>2. Rank(x) <= interrupted \/ ring[x].at + Rank(x) <= begun + interrupted + 1
  BY DEF SinceInv
<1> QED
  BY <1>1, <1>2

-----------------------------------------------------------------------------
(* The steps of the search, while nobody changes the delay.                 *)

LEMMA BeginSettles ==
  ASSUME OldInv, Settled, Begin, irq = "none"
  PROVE  SinceInv' /\ WalkInv' /\ ChoiceInv'
<1> USE DEF buffer, settings, sending, clock
<1>0. /\ Types /\ head \in Slots /\ count \in 0..Size /\ now \in 0..MaxTime /\ cfg.delay \in 0..Start
      /\ Size \in Nat /\ Size > 1 /\ now \in Int /\ lastHit \in Nat /\ sampled \in BOOLEAN
  BY Constants DEF OldInv, Types
<1>1. /\ ring' = ring /\ begun' = now /\ asked' = cfg.delay /\ interrupted' = 0 /\ cfg' = cfg
      /\ voted' = {} /\ Front' = Front /\ head' = head /\ pc' \in {"probe", "pick"} /\ count # 0
      /\ pc' = "pick" <=> cfg.delay = 0
  BY DEF Begin, Front
<1>2. \A i \in Slots : Rank(i)' = Rank(i)
  BY <1>1 DEF Rank
<1>3. SinceInv'
  <2>1. asked' > 0 => target' = begun' - asked'
    <3>1. ASSUME asked' > 0 PROVE target' = (now - cfg.delay) % TimeMod
      BY <3>1, <1>0, <1>1, StampIsTime DEF Begin
    <3>2. (now - cfg.delay) % TimeMod = now - cfg.delay
      <4>1. now - cfg.delay \in 0..(TimeMod - 1)
        BY <1>0, Constants DEF OldInv, Types
      <4> QED
        BY <4>1, Constants
    <3> QED
      BY <3>1, <3>2, <1>1
  <2>2. pc' \in {"probe", "newer", "older"} => asked' > 0
    BY <1>0, <1>1
  <2>3. ASSUME NEW i \in Slots, ring'[i].at # Never
        PROVE  Rank(i)' <= interrupted' \/ ring'[i].at + Rank(i)' <= begun' + interrupted' + 1
    <3>1. ring[i].at + Rank(i) <= (IF sampled THEN now + 1 ELSE now)
      BY <2>3, <1>1 DEF Settled, Spaced
    <3>2. ring[i].at \in Int /\ Rank(i) \in Int
      BY <1>0, TimesInRing, RanksInRing
    <3>3. ring[i].at + Rank(i) <= now + 1
      BY <3>1, <3>2, <1>0
    <3> QED
      BY <3>3, <3>2, <1>0, <1>1, <1>2
  <2> QED
    BY <1>1, <2>1, <2>2, <2>3 DEF SinceInv
<1>4. WalkInv'
  <2>1. pc' = "probe" => lastHit' < Size
    <3>1. ASSUME pc' = "probe"
          PROVE  lastHit' = IF lastHit >= count THEN count \div 2 ELSE lastHit
      BY <3>1 DEF Begin
    <3>2. count \div 2 < count
      BY <1>0, <1>1
    <3> QED
      BY <3>1, <3>2, <1>0
  <2> QED
    BY <2>1, <1>1 DEF WalkInv
<1>5. ChoiceInv'
  <2>1. CASE pc' = "probe"
    BY <2>1 DEF ChoiceInv, Chosen
  <2>2. CASE pc' = "pick"
    <3>1. idx' = Behind(1) /\ asked' = 0
      BY <2>2, <1>1 DEF Begin
    <3>2. Behind(1) \in Slots /\ Rank(Behind(1)) = 1
      <4>1. 1 \in 0..Size
        BY <1>0
      <4> QED
        BY <1>0, <4>1, BehindRank
    <3> HIDE DEF Behind
    <3>3. ring[idx'].at # Never
      <4>1. Filled = count
        BY DEF Filled
      <4> QED
        BY <3>1, <3>2, <4>1, <1>0, <1>1 DEF Settled, Spaced
    <3>4. Few(ring[idx'].at, ring, 0, begun' - asked')
      <4>1. Way(idx', Front) <= 0 + 1 /\ Front \in Slots
        BY <3>1, <3>2, <1>0, RanksInRing DEF Rank
      <4>2. begun' - asked' \in Int
        BY <1>0, <1>1
      <4> QED
        BY <3>1, <3>2, <4>1, <4>2, <1>0, FewBefore DEF Settled
    <3>5. Way(idx', Front') = 1
      BY <3>1, <3>2, <1>1 DEF Rank
    <3> QED
      BY <2>2, <3>1, <3>3, <3>4, <3>5, <1>1 DEF ChoiceInv, Chosen
  <2> QED
    BY <2>1, <2>2, <1>1
<1> QED
  BY <1>3, <1>4, <1>5

LEMMA SearchSettles ==
  ASSUME OldInv, Settled, Probe \/ Newer \/ Older, irq = "none"
  PROVE  SinceInv' /\ Registers'
<1> USE DEF Searching, buffer, settings, sending, clock, trace
<1>1. /\ UNCHANGED <<ring, target, begun, asked, interrupted, cfg, head, irq, held, uiPc, count,
                  voted>>
      /\ pc \in {"probe", "newer", "older"}
  BY DEF Probe, Newer, Older
<1>2. Front' = Front
  BY <1>1 DEF Front
<1>3. asked > 0
  BY DEF Settled, SinceInv, Probe, Newer, Older
<1> QED
  BY <1>1, <1>2, <1>3 DEF Settled, SinceInv, Registers, Rank

LEMMA ProbeSettles ==
  ASSUME OldInv, Settled, Probe, irq = "none"
  PROVE  WalkInv' /\ ChoiceInv'
<1> USE DEF Searching, buffer, settings, sending, clock, trace
<1>0. /\ Types /\ head \in Slots /\ lastHit \in 0..(Size - 1) /\ lastHit \in 0..Size
      /\ Size \in Nat /\ Size > 1 /\ interrupted \in Nat
      /\ OffsetMod \in Nat /\ OffsetMod > Size /\ OffsetMod % Size = 0
  BY Constants, RingAssumption DEF OldInv, Types, Settled, WalkInv, Probe
<1>1. /\ UNCHANGED <<ring, target, begun, asked, interrupted, head, irq>> /\ pc = "probe"
      /\ idx' = Behind(lastHit) /\ Front = head /\ Front' = head
  BY DEF Probe, Front
<1>2. Behind(lastHit) \in Slots /\ Rank(Behind(lastHit)) = IF lastHit = 0 THEN Size ELSE lastHit
  BY <1>0, BehindRank
<1>3. ChoiceInv'
  BY DEF Probe, ChoiceInv, Chosen
<1>4. CASE OldAt(idx')
  <2>1. pc' = "newer" /\ best'.idx = Behind(lastHit) /\ offset' = (lastHit - 1) % OffsetMod
    BY <1>1, <1>4 DEF Probe
  <2>2. Ahead' = After(Behind(lastHit))
    <3>1. Ahead' = (head - offset') % Size
      BY <1>1 DEF Ahead
    <3>2. (head - (lastHit - 1)) % Size = After((head - lastHit) % Size)
      BY <1>0, AheadMoves
    <3>3. (head - offset') % Size = (head - (lastHit - 1)) % Size
      <4>1. CASE lastHit > 0
        <5>1. (lastHit - 1) % OffsetMod = lastHit - 1
          BY <1>0, <4>1
        <5> QED
          BY <5>1, <2>1
      <4>2. CASE lastHit = 0
        <5>1. offset' = OffsetMod - 1
          <6>1. -1 = OffsetMod * (-1) + (OffsetMod - 1) /\ OffsetMod - 1 \in 0..(OffsetMod - 1)
            BY <1>0
          <6>2. (OffsetMod * (-1) + (OffsetMod - 1)) % OffsetMod = OffsetMod - 1
            BY <1>0, <6>1, RemainderOf
          <6> QED
            BY <2>1, <4>2, <6>1, <6>2
        <5> DEFINE q == OffsetMod \div Size
                   m == - q
                   y == head + 1
        <5>2. q \in Int /\ OffsetMod = Size * q
          BY <1>0, Remainder
        <5>3. m \in Int /\ y \in Int /\ Size \in Nat /\ Size > 0
          BY <1>0, <5>2 DEF Slots
        <5>4. head - offset' = y + Size * m /\ head - (lastHit - 1) = y
          <6> HIDE DEF q
          <6>1. Size * m = - OffsetMod
            BY <1>0, <5>2
          <6>2. head \in Int /\ head - offset' = y - OffsetMod
            BY <1>0, <5>1 DEF Slots
          <6> HIDE DEF m
          <6> QED
            BY <1>0, <4>2, <6>1, <6>2
        <5> HIDE DEF q, m, y
        <5>5. (y + Size * m) % Size = y % Size
          BY <5>3, AddMultiple, Zenon
        <5> QED
          BY <5>4, <5>5
      <4> QED
        BY <4>1, <4>2, <1>0
    <3> QED
      BY <3>1, <3>2, <3>3 DEF Behind
  <2> HIDE DEF Behind
  <2>3. Way(best'.idx, Ahead') = 1
    BY <2>1, <2>2, <1>2, Ways
  <2> QED
    BY <1>0, <1>1, <1>3, <2>1, <2>3 DEF WalkInv
<1>5. CASE ~ OldAt(idx')
  <2> HIDE DEF Behind
  <2>1. pc' = "older" /\ offset' = lastHit + 1
    <3>1. (lastHit + 1) % OffsetMod = lastHit + 1
      BY <1>0
    <3> QED
      BY <1>1, <1>5, <3>1 DEF Probe
  <2> DEFINE x == Behind(lastHit)
  <2>2. ring[x].at > begun - asked /\ ring[x].at # Never /\ target = begun - asked
    <3>1. ~ OldAt(x)
      BY <1>1, <1>5
    <3> QED
      BY <3>1, <1>0, <1>1, <1>2, TooYoung DEF OldInv, SearchInv
  <2>3. ASSUME NEW i \in Slots, Rank(i)' < offset' PROVE ring'[i].at > target'
    <3>1. Rank(i)' = Rank(i) /\ Rank(i) \in 1..Size
      BY <1>0, <1>1, RanksInRing DEF Rank
    <3>2. Rank(i) <= Rank(x) /\ x \in Slots
      BY <2>1, <2>3, <3>1, <1>0, <1>2
    <3>3. ~ (ring[i].at < ring[x].at)
      <4>1. ASSUME ring[i].at < ring[x].at PROVE FALSE
        <5>1. Rank(x) < Rank(i)
          BY <4>1, <3>2, <1>0, NewerRank DEF Settled
        <5> QED
          BY <5>1, <3>1, <3>2, <1>0, RanksInRing
      <4> QED
        BY <4>1
    <3>4. ring[i].at \in Int /\ ring[x].at \in Int /\ begun \in Int /\ asked \in Int
      BY <1>0, <3>2, TimesInRing, Constants DEF Types
    <3> QED
      BY <3>3, <3>4, <2>2, <1>1
  <2> QED
    BY <2>1, <2>3, <1>0, <1>3 DEF WalkInv
<1> QED
  BY <1>4, <1>5

LEMMA NewerSettles ==
  ASSUME OldInv, Settled, Newer, irq = "none"
  PROVE  WalkInv' /\ ChoiceInv'
<1> USE DEF Searching, buffer, settings, sending, clock, trace
<1>0. /\ Types /\ head \in Slots /\ offset \in Nat /\ best.idx \in Slots
      /\ Size \in Nat /\ Size > 1 /\ interrupted \in Nat /\ asked \in Nat /\ begun - asked \in Nat
      /\ asked > 0 /\ Way(best.idx, Ahead) <= interrupted + 1
  BY Constants DEF OldInv, Types, Settled, SinceInv, WalkInv, Newer
<1>1. /\ UNCHANGED <<ring, target, begun, asked, interrupted, head, irq>> /\ pc = "newer"
      /\ Front = head /\ Front' = head /\ Ahead = Behind(offset)
  BY DEF Newer, Front, Ahead, Behind
<1>2. Behind(offset) \in Slots
  BY <1>0, BehindInRing
<1>3. CASE offset > 0 /\ OldAt(Behind(offset))
  <2>1. pc' = "newer" /\ best'.idx = Behind(offset) /\ offset' = offset - 1
    BY <1>1, <1>3 DEF Newer
  <2>2. Ahead' = After(Behind(offset))
    <3>1. Ahead' = (head - (offset - 1)) % Size
      BY <1>1, <2>1 DEF Ahead
    <3>2. (head - (offset - 1)) % Size = After((head - offset) % Size)
      BY <1>0, AheadMoves
    <3> QED
      BY <3>1, <3>2 DEF Behind
  <2> HIDE DEF Behind
  <2>3. Way(best'.idx, Ahead') = 1
    BY <2>1, <2>2, <1>2, Ways
  <2> QED
    BY <1>0, <1>1, <2>1, <2>3 DEF WalkInv, ChoiceInv, Chosen
<1>4. CASE ~ (offset > 0 /\ OldAt(Behind(offset)))
  <2> DEFINE b == best.idx
             x == Behind(offset)
  <2>0. pc' = "pick" /\ idx' = b
    BY <1>1, <1>4 DEF Newer
  <2>1. x = Front \/ (ring[x].at > begun - asked /\ ring[x].at # Never)
    <3>1. CASE offset = 0
      <4>1. Behind(0) = head
        <5>1. head % Size = head /\ head - 0 = head
          BY <1>0, Around DEF Slots
        <5> QED
          BY <5>1 DEF Behind
      <4> QED
        BY <3>1, <4>1, <1>1
    <3>2. CASE offset # 0
      <4>1. ~ OldAt(x)
        BY <3>2, <1>0, <1>4
      <4> QED
        BY <4>1, <1>0, <1>1, <1>2, TooYoung DEF OldInv
    <3> QED
      BY <3>1, <3>2
  <2>2. Way(b, x) <= interrupted + 1
    BY <1>0, <1>1
  <2> HIDE DEF x, b
  <2>3. b \in Slots /\ x \in Slots
    BY <1>0, <1>2 DEF b, x
  <2>4. Few(ring[b].at, ring, interrupted, begun - asked)
    BY <2>1, <2>2, <2>3, <1>0, FewBefore DEF Settled
  <2>5. Way(b, Front) <= asked + 2 * interrupted + 1
    <3>1. CASE x = Front
      BY <3>1, <2>2, <2>3, <1>0, Ways
    <3>2. CASE ring[x].at > begun - asked /\ ring[x].at # Never
      <4>1. Rank(x) <= asked + interrupted
        BY <3>2, <2>3, <1>0, <1>1, YoungNear DEF Settled
      <4>2. Rank(b) <= Rank(x) + Way(b, x)
        BY <2>3, <1>0, BetweenRanks
      <4>3. Rank(b) \in Int /\ Rank(x) \in Int /\ Way(b, x) \in Int
        BY <2>3, <1>0, RanksInRing, Ways
      <4>4. Rank(b) <= asked + 2 * interrupted + 1
        BY <4>1, <4>2, <4>3, <2>2, <1>0
      <4> QED
        BY <4>4 DEF Rank
    <3> QED
      BY <3>1, <3>2, <2>1
  <2> QED
    BY <2>0, <2>4, <2>5, <1>0, <1>1 DEF WalkInv, ChoiceInv, Chosen
<1> QED
  BY <1>3, <1>4

LEMMA OlderSettles ==
  ASSUME OldInv, Settled, Older, irq = "none"
  PROVE  WalkInv' /\ ChoiceInv'
<1> USE DEF Searching, buffer, settings, sending, clock, trace
<1>0. /\ Types /\ head \in Slots /\ offset \in Nat /\ offset >= 1 /\ count \in 0..Size
      /\ Size \in Nat /\ Size > 1 /\ interrupted \in Nat /\ asked \in Nat /\ begun - asked \in Nat
      /\ asked > 0 /\ target = begun - asked
      /\ \A i \in Slots : Rank(i) < offset => ring[i].at > target
  BY Constants DEF OldInv, Types, Settled, SinceInv, WalkInv, SearchInv, Older
<1>1. /\ UNCHANGED <<ring, target, begun, asked, interrupted, head, irq, count>> /\ pc = "older"
      /\ Front = head /\ Front' = head
  BY DEF Older, Front
<1>2. CASE offset > count
  BY <1>1, <1>2 DEF Older, WalkInv, ChoiceInv, Chosen
<1>3. CASE ~ (offset > count)
  <2> DEFINE x == Behind(offset)
  <2>1. x \in Slots /\ Rank(x) = offset /\ idx' = x
    <3>1. offset \in 0..Size
      BY <1>0, <1>3
    <3> QED
      BY <3>1, <1>0, <1>1, <1>3, BehindRank DEF Older
  <2>2. CASE OldAt(x)
    <3>0. pc' = "pick"
      BY <2>1, <2>2, <1>1, <1>3 DEF Older
    <3> HIDE DEF x
    <3>1. Few(ring[x].at, ring, interrupted, begun - asked)
      <4>1. ASSUME NEW i \in Slots PROVE ~ (ring[x].at < ring[i].at /\ ring[i].at <= begun - asked)
        <5>1. ASSUME ring[x].at < ring[i].at, ring[i].at <= begun - asked PROVE FALSE
          <6>1. Rank(i) < offset
            BY <5>1, <2>1, <1>0, NewerRank DEF Settled
          <6>2. ring[i].at \in Int
            BY <1>0, TimesInRing
          <6> QED
            BY <5>1, <6>1, <6>2, <1>0
        <5> QED
          BY <5>1
      <4>2. IsFiniteSet({}) /\ Cardinality({}) <= interrupted
        BY FS_EmptySet, <1>0
      <4> QED
        BY <4>1, <4>2 DEF Few
    <3>2. Way(x, Front) <= asked + 2 * interrupted + 1
      <4>1. CASE offset = 1
        BY <4>1, <2>1, <1>0 DEF Rank
      <4>2. CASE offset > 1
        <5> DEFINE y == Behind(offset - 1)
        <5>1. y \in Slots /\ Rank(y) = offset - 1
          <6>1. offset - 1 \in 0..Size
            BY <4>2, <1>0, <1>3
          <6> QED
            BY <6>1, <4>2, <1>0, <1>1, BehindRank
        <5> HIDE DEF y
        <5>2. ring[y].at > begun - asked
          BY <5>1, <4>2, <1>0
        <5>3. ring[y].at # Never
          BY <5>2, <1>0 DEF Never
        <5>4. Rank(y) <= asked + interrupted
          BY <5>1, <5>2, <5>3, <1>0, <1>1, YoungNear DEF Settled
        <5>5. Rank(x) <= asked + interrupted + 1
          BY <5>1, <5>4, <2>1, <1>0
        <5> QED
          BY <5>5, <2>1, <1>0 DEF Rank
      <4> QED
        BY <4>1, <4>2, <1>0
    <3> QED
      BY <3>0, <3>1, <3>2, <2>1, <1>0, <1>1 DEF WalkInv, ChoiceInv, Chosen
  <2>3. CASE ~ OldAt(x)
    <3>0. pc' = "older" /\ offset' = offset + 1
      BY <2>1, <2>3, <1>1, <1>3 DEF Older
    <3>1. ring[x].at > begun - asked
      BY <2>1, <2>3, <1>0, <1>1, TooYoung DEF OldInv
    <3> HIDE DEF x
    <3>2. ASSUME NEW i \in Slots, Rank(i)' < offset' PROVE ring'[i].at > target'
      <4>1. Rank(i)' = Rank(i) /\ Rank(i) \in 1..Size
        BY <1>0, <1>1, RanksInRing DEF Rank
      <4>2. CASE Rank(i) < offset
        BY <4>2, <1>0, <1>1
      <4>3. CASE Rank(i) = offset
        <5>1. i = x
          BY <4>3, <2>1, <1>0, RanksInRing
        <5> QED
          BY <5>1, <3>1, <1>0, <1>1
      <4> QED
        BY <4>1, <4>2, <4>3, <3>0, <3>2, <1>0
    <3> QED
      BY <3>0, <3>2, <1>0 DEF WalkInv, ChoiceInv, Chosen
  <2> QED
    BY <2>2, <2>3
<1> QED
  BY <1>2, <1>3

LEMMA ChoiceSettles ==
  ASSUME OldInv, Settled, Pick \/ Vote \/ Send, irq = "none"
  PROVE  Registers' /\ SinceInv' /\ WalkInv' /\ ChoiceInv'
<1> USE DEF buffer, search, settings, sending, clock, trace
<1>1. /\ UNCHANGED <<ring, target, begun, asked, interrupted, cfg, head, irq, held, uiPc, idx>>
      /\ pc \in {"pick", "vote", "send"} /\ pc' \in {"vote", "send", "idle"}
  BY DEF Pick, Vote, Send
<1>2. Front' = Front
  BY <1>1 DEF Front
<1>3. Registers' /\ SinceInv' /\ WalkInv'
  BY <1>1, <1>2 DEF Settled, SinceInv, Registers, Rank, WalkInv
<1>4. ASSUME Pick PROVE ChoiceInv'
  BY <1>1, <1>2, <1>4 DEF Pick, Settled, ChoiceInv, Chosen
<1>5. ASSUME Vote PROVE ChoiceInv'
  BY <1>1, <1>2, <1>5 DEF Vote, Settled, ChoiceInv, Chosen
<1>6. ASSUME Send PROVE ChoiceInv'
  BY <1>6 DEF Send, ChoiceInv, Chosen
<1> QED
  BY <1>3, <1>4, <1>5, <1>6

LEMMA StoreSettles ==
  ASSUME OldInv, Settled, Store
  PROVE  SinceInv' /\ WalkInv' /\ ChoiceInv'
<1> USE DEF search, settings, sending
<1>0. /\ Types /\ head \in Slots /\ idx \in Slots /\ Size \in Nat /\ Size > 1 /\ interrupted \in Nat
      /\ asked \in Nat /\ begun \in Int /\ now \in Int /\ now >= begun /\ now >= 0 /\ offset \in Nat
      /\ best.idx \in Slots
  BY Constants DEF OldInv, Types
<1>1. /\ UNCHANGED <<target, begun, asked, cfg, head, idx, best, offset, lastHit, pc, picked,
                  voted>>
      /\ irq = "none" /\ irq' = "head"
      /\ pc # "idle" => interrupted' = interrupted + 1
      /\ Front = head /\ Front' = After(head)
  BY DEF Store, Front
<1>2. /\ \A i \in Slots : i = head => ring'[i].at = now
      /\ \A i \in Slots : i # head => ring'[i] = ring[i]
  BY <1>0 DEF Store, Types
<1>3. \A i \in Slots : /\ i = head => Rank(i) = Size /\ Rank(i)' = 1
                       /\ i # head => Rank(i)' = Rank(i) + 1
  BY <1>0, StoreRanks
<1>4. \A i \in Slots : Rank(i) \in 1..Size /\ ring[i].at \in Int
  BY <1>0, RanksInRing, TimesInRing
<1>5. SinceInv'
  <2> SUFFICES ASSUME pc # "idle" PROVE SinceInv'
    BY <1>1 DEF SinceInv
  <2>1. ASSUME NEW i \in Slots, ring'[i].at # Never
        PROVE  Rank(i)' <= interrupted' \/ ring'[i].at + Rank(i)' <= begun + interrupted' + 1
    <3>1. CASE i = head
      BY <3>1, <1>0, <1>1, <1>3
    <3>2. CASE i # head
      <4>1. Rank(i) <= interrupted \/ ring[i].at + Rank(i) <= begun + interrupted + 1
        BY <2>1, <3>2, <1>2 DEF Settled, SinceInv
      <4>2. ring'[i] = ring[i] /\ Rank(i)' = Rank(i) + 1
        BY <3>2, <1>2, <1>3
      <4> QED
        BY <4>1, <4>2, <1>0, <1>1, <1>4
    <3> QED
      BY <3>1, <3>2
  <2> QED
    BY <2>1, <1>1 DEF Settled, SinceInv
<1>6. WalkInv'
  <2>1. CASE pc = "newer"
    <3>1. Ahead \in Slots /\ Ahead' = After(Ahead)
      <4>1. /\ (head - offset) % Size \in Slots
            /\ (After(head) - offset) % Size = After((head - offset) % Size)
        BY <1>0, AheadMoves
      <4> QED
        BY <4>1, <1>1 DEF Ahead
    <3>2. Way(best.idx, Ahead) <= interrupted + 1
      BY <2>1 DEF Settled, WalkInv
    <3>3. Way(best.idx, After(Ahead)) <= Way(best.idx, Ahead) + 1 /\ Way(best.idx, Ahead) \in Int
          /\ Way(best.idx, After(Ahead)) \in Int
      BY <3>1, <1>0, Ways
    <3>4. Way(best.idx, Ahead') <= interrupted + 2
      BY <3>1, <3>2, <3>3, <1>0
    <3> QED
      BY <2>1, <3>4, <1>0, <1>1 DEF WalkInv
  <2>2. CASE pc = "older"
    <3>1. target = begun - asked /\ asked > 0
      BY <2>2 DEF OldInv, SearchInv, Settled, SinceInv
    <3>2. ASSUME NEW i \in Slots, Rank(i)' < offset PROVE ring'[i].at > target
      <4>1. CASE i = head
        BY <4>1, <3>1, <1>0, <1>2
      <4>2. CASE i # head
        BY <4>2, <3>2, <2>2, <1>0, <1>2, <1>3, <1>4 DEF Settled, WalkInv
      <4> QED
        BY <4>1, <4>2
    <3> QED
      BY <2>2, <3>2, <1>1 DEF Settled, WalkInv
  <2>3. CASE pc \notin {"newer", "older"}
    BY <2>3, <1>1 DEF Settled, WalkInv
  <2> QED
    BY <2>1, <2>2, <2>3
<1>7. ChoiceInv'
  <2> SUFFICES ASSUME pc \in {"pick", "vote", "send"} PROVE ChoiceInv'
    BY <1>1 DEF ChoiceInv, Chosen
  <2>0. interrupted' = interrupted + 1 /\ begun' - asked' = begun - asked
    BY <1>1
  <2>1. pc = "pick" => Few(ring'[idx].at, ring', interrupted + 1, begun - asked)
    <3>1. ASSUME pc = "pick", idx # head PROVE Few(ring'[idx].at, ring', interrupted + 1, begun - asked)
      <4>1. Few(ring[idx].at, ring, interrupted, begun - asked)
        BY <3>1 DEF Settled, ChoiceInv
      <4>2. ring'[idx].at = ring[idx].at
        BY <3>1, <1>0, <1>2
      <4> QED
        BY <4>1, <4>2, <1>0, FewStored
    <3>2. ASSUME idx = head PROVE Few(ring'[idx].at, ring', interrupted + 1, begun - asked)
      <4>1. ring'[idx].at = now
        BY <3>2, <1>0, <1>2
      <4>2. \A i \in Slots : ~ (now < ring'[i].at)
        <5>1. \A i \in Slots : ring[i].at <= now
          BY DEF OldInv, Past
        <5> QED
          BY <5>1, <1>0, <1>2, <1>4
      <4>3. IsFiniteSet({}) /\ Cardinality({}) <= interrupted + 1
        BY FS_EmptySet, <1>0
      <4> QED
        BY <4>1, <4>2, <4>3 DEF Few
    <3> QED
      BY <3>1, <3>2
  <2>2. pc # "pick" => Few(picked.at, ring', interrupted + 1, begun - asked)
    <3>1. ASSUME pc # "pick" PROVE Few(picked.at, ring, interrupted, begun - asked)
      BY <3>1 DEF Settled, ChoiceInv, Chosen
    <3> QED
      BY <3>1, <1>0, FewStored
  <2>3. /\ Way(idx, Front) <= asked + 2 * interrupted + 1
        /\ asked = 0 => Way(idx, Front) <= interrupted + 1 /\ ring[idx].at # Never
    BY DEF Settled, ChoiceInv, Chosen
  <2>4. Way(idx, Front) = Rank(idx) /\ Way(idx, Front) \in Int
    BY <1>0, <1>4 DEF Rank
  <2>5. /\ idx = head => Way(idx, Front) = Size /\ Way(idx, Front') = 1 /\ ring'[idx].at # Never
        /\ idx # head => Way(idx, Front') = Way(idx, Front) + 1 /\ ring'[idx] = ring[idx]
    <3>1. \A i \in Slots : /\ i = head => Way(i, Front) = Size /\ Way(i, Front') = 1
                           /\ i # head => Way(i, Front') = Way(i, Front) + 1
      BY <1>3 DEF Rank
    <3> QED
      BY <3>1, <1>0, <1>2 DEF Never
  <2>6. /\ Way(idx, Front') <= asked + 2 * (interrupted + 1) + 1
        /\ asked = 0 => Way(idx, Front') <= (interrupted + 1) + 1 /\ ring'[idx].at # Never
    BY <2>3, <2>4, <2>5, <1>0
  <2>7. pc # "pick" => ring'[idx] = picked \/ Size <= asked + 2 * (interrupted + 1)
    <3>1. pc # "pick" => ring[idx] = picked \/ Size <= asked + 2 * interrupted
      BY DEF Settled, ChoiceInv, Chosen
    <3> QED
      BY <3>1, <2>3, <2>4, <2>5, <1>0
  <2> QED
    BY <2>0, <2>1, <2>2, <2>6, <2>7, <1>1 DEF ChoiceInv, Chosen
<1> QED
  BY <1>5, <1>6, <1>7

(* The other steps do not touch the search.                                 *)
Resting ==
  UNCHANGED <<pc, idx, best, offset, lastHit, target, begun, asked, interrupted, picked, voted, cfg>>

LEMMA RestSettles ==
  ASSUME OldInv, Settled, Resting, ring' = ring, Front' = Front
  PROVE  SinceInv' /\ WalkInv' /\ ChoiceInv'
BY DEF Resting, Settled, SinceInv, WalkInv, ChoiceInv, Rank, Ahead, Chosen

-----------------------------------------------------------------------------
(* The vote.                                                                *)

WindowFrom == (IF asked > 0 THEN begun - asked ELSE picked.at) - cfg.window

(* While everything fits, the chosen sample is where it was and the oldest  *)
(* sample of the ring is before the window.                                 *)
LEMMA WindowFits ==
  ASSUME OldInv, Settled, Chosen, FitsRing
  PROVE  /\ ring[idx] = picked /\ WindowFrom \in Nat \ {0}
         /\ \A x \in Slots : Rank(x) = Size /\ ring[x].at # Never => ring[x].at < WindowFrom
<1>0. /\ Types /\ head \in Slots /\ idx \in Slots /\ Size \in Nat /\ interrupted \in Nat
      /\ asked \in Nat /\ begun \in Int /\ begun >= Start /\ Start \in Nat
      /\ cfg.window \in Nat /\ cfg.delay \in Nat
      /\ cfg.delay + cfg.window < Start /\ asked = cfg.delay
      /\ asked + cfg.window + interrupted + 2 <= Size /\ asked + 2 * interrupted < Size
  BY Constants DEF OldInv, Types, Settled, Registers, SinceInv, Chosen, FitsRing
<1>1. ring[idx] = picked
  BY <1>0 DEF Settled, ChoiceInv
<1>2. asked = 0 => picked.at \in Start..MaxTime /\ Rank(idx) <= interrupted + 1
  <2>1. asked = 0 => ring[idx].at # Never /\ Way(idx, Front) <= interrupted + 1
    BY DEF Settled, ChoiceInv
  <2> QED
    BY <2>1, <1>0, <1>1, TimesInRing DEF Rank
<1>3. WindowFrom \in Nat \ {0}
  BY <1>0, <1>2, Constants DEF WindowFrom
<1>4. ASSUME NEW x \in Slots, Rank(x) = Size, ring[x].at # Never PROVE ring[x].at < WindowFrom
  <2>0. ring[x].at \in Int /\ Rank(idx) \in Int
    BY <1>0, TimesInRing, RanksInRing
  <2>1. CASE asked > 0
    <3>1. Rank(x) <= interrupted \/ ring[x].at + Rank(x) <= begun + interrupted + 1
      BY <1>4 DEF Settled, SinceInv, Chosen
    <3> QED
      BY <3>1, <2>0, <2>1, <1>0, <1>4 DEF WindowFrom
  <2>2. CASE asked = 0
    <3>1. Rank(idx) < Rank(x)
      BY <2>0, <2>2, <1>0, <1>2, <1>4
    <3>2. ring[x].at + Rank(x) <= ring[idx].at + Rank(idx)
      BY <3>1, <1>0, <1>4 DEF Settled, Spaced
    <3> QED
      BY <3>2, <2>0, <2>2, <1>0, <1>1, <1>2, <1>4, Constants DEF WindowFrom
  <2> QED
    BY <2>1, <2>2, <1>0
<1> QED
  BY <1>1, <1>3, <1>4

(* The walk back from a slot goes up the ranks and around.                  *)
Back(j) == (idx - j) % Size

LEMMA BackRank ==
  ASSUME head \in Slots, idx \in Slots, NEW j \in 0..(Size - 1)
  PROVE  /\ Back(j) \in Slots
         /\ Rank(Back(j)) = IF Rank(idx) + j <= Size THEN Rank(idx) + j ELSE Rank(idx) + j - Size
<1>0. Size \in Nat /\ Size > 1 /\ idx \in 0..(Size - 1) /\ Front \in 0..(Size - 1)
  BY Constants, RanksInRing DEF Slots
<1>1. Back(j) = IF idx - j < 0 THEN idx - j + Size ELSE idx - j
  BY <1>0, Around DEF Back
<1> QED
  BY <1>0, <1>1 DEF Rank, Way, Slots

InTime(x) == ring[x].at # Never /\ ring[x].at >= WindowFrom

LEMMA VoteWindow ==
  ASSUME OldInv, Settled, Vote, irq = "none", FitsRing
  PROVE  voted' = {s \in Stored : WindowFrom <= s.at /\ s.at <= picked.at}
<1>0. /\ Types /\ head \in Slots /\ idx \in Slots /\ Size \in Nat /\ Size > 1 /\ count \in 0..Size
      /\ cfg.window \in Nat /\ begun - asked \in Int /\ asked = cfg.delay /\ Chosen /\ pc = "vote"
      /\ asked \in Nat
  BY Constants DEF OldInv, Types, Settled, SinceInv, Vote, Chosen
<1>1. /\ ring[idx] = picked /\ WindowFrom \in Nat \ {0}
      /\ \A x \in Slots : Rank(x) = Size /\ ring[x].at # Never => ring[x].at < WindowFrom
  BY <1>0, WindowFits
<1>2. \A x \in Slots : /\ Rank(x) \in 1..Size /\ ring[x].at \in Int /\ ring[x] \in Sample
                       /\ ring[x].at = Never \/ ring[x].at \in Start..MaxTime
  BY <1>0, RanksInRing, TimesInRing
<1>3. \A x \in Slots : TimeOf(ring[x]) = IF ring[x].at = Never THEN 0 ELSE ring[x].at
  BY <1>2, StampIsTime, Constants DEF TimeOf
<1>4. WindowStart = WindowFrom
  <2>1. WindowEnd = IF asked > 0 THEN begun - asked ELSE picked.at
    <3>1. CASE asked > 0
      BY <3>1, <1>0 DEF WindowEnd, Settled, SinceInv
    <3>2. CASE asked = 0
      <4>1. ring[idx].at # Never
        BY <3>2, <1>0 DEF Settled, ChoiceInv
      <4> QED
        BY <4>1, <3>2, <1>0, <1>1, <1>3 DEF WindowEnd
    <3> QED
      BY <3>1, <3>2, <1>0
  <2>2. WindowEnd - cfg.window = WindowFrom /\ WindowEnd \in Int
    <3>1. picked.at \in Int
      BY <1>0, <1>1, <1>2
    <3> QED
      BY <2>1, <3>1, <1>0 DEF WindowFrom
  <2> HIDE DEF WindowEnd
  <2> QED
    BY <2>2, <1>0, <1>1 DEF WindowStart
<1>5. \A x \in Slots : TimeOf(ring[x]) >= WindowStart <=> InTime(x)
  BY <1>1, <1>2, <1>3, <1>4 DEF InTime
<1>6. \A j \in 0..(count - 1) :
        /\ Back(j) \in Slots
        /\ Rank(Back(j)) = IF Rank(idx) + j <= Size THEN Rank(idx) + j ELSE Rank(idx) + j - Size
  <2>1. \A j \in 0..(count - 1) : j \in 0..(Size - 1)
    BY <1>0
  <2> QED
    BY <2>1, <1>0, BackRank
<1>7. InWindow = {i \in 0..(count - 1) : \A j \in 0..i : InTime(Back(j))}
  <2>1. \A i \in 0..(count - 1) : \A j \in 0..i : j \in 0..(count - 1)
    BY <1>0
  <2>2. \A j \in 0..(count - 1) : TimeOf(ring[(idx - j) % Size]) >= WindowStart <=> InTime(Back(j))
    BY <1>5, <1>6 DEF Back
  <2> HIDE DEF WindowStart
  <2> QED
    BY <2>1, <2>2 DEF InWindow
<1>8. voted' = {ring[Back(i)] : i \in InWindow}
  BY DEF Vote, Back
<1> HIDE DEF Back, InWindow
<1>9. ASSUME NEW i \in InWindow
      PROVE  /\ ring[Back(i)] \in Stored
             /\ WindowFrom <= ring[Back(i)].at /\ ring[Back(i)].at <= picked.at
  <2>0. i \in 0..(count - 1) /\ \A j \in 0..i : InTime(Back(j))
    BY <1>7
  <2>1. Back(i) \in Slots /\ InTime(Back(i))
    BY <2>0, <1>6
  <2>2. ring[Back(i)] \in Stored /\ WindowFrom <= ring[Back(i)].at
    BY <2>1, <1>1, <1>2 DEF InTime, Stored, Slots
  <2>3. Rank(idx) + i <= Size
    <3>1. ASSUME Rank(idx) + i > Size PROVE FALSE
      <4> DEFINE j == Size - Rank(idx)
      <4>1. Rank(idx) \in 1..Size
        BY <1>0, <1>2
      <4>2. j \in 0..i /\ j \in 0..(count - 1) /\ Rank(idx) + j = Size
        BY <2>0, <3>1, <4>1, <1>0
      <4> HIDE DEF j
      <4>3. Back(j) \in Slots /\ Rank(Back(j)) = Size /\ InTime(Back(j))
        BY <2>0, <4>1, <4>2, <1>0, <1>6
      <4> QED
        BY <4>3, <1>1, <1>2 DEF InTime
    <3>2. Rank(idx) + i \in Int
      BY <2>0, <1>0, <1>2
    <3> QED
      BY <3>1, <3>2, <1>0
  <2>4. Rank(Back(i)) = Rank(idx) + i
    BY <2>0, <2>3, <1>6
  <2>5. ring[Back(i)].at <= picked.at
    <3>1. CASE i = 0
      <4>1. Back(i) = idx
        BY <3>1, <2>1, <2>4, <1>0, <1>2, RanksInRing
      <4> QED
        BY <4>1, <1>0, <1>1, <1>2
    <3>2. CASE i # 0
      <4>1. Rank(idx) < Rank(Back(i))
        BY <3>2, <2>0, <2>4, <1>0, <1>2
      <4>2. ring[Back(i)].at + Rank(Back(i)) <= ring[idx].at + Rank(idx)
        BY <4>1, <2>1, <1>0 DEF InTime, Settled, Spaced
      <4> QED
        BY <4>1, <4>2, <2>1, <1>0, <1>1, <1>2
    <3> QED
      BY <3>1, <3>2
  <2> QED
    BY <2>2, <2>5
<1>10. ASSUME NEW s \in Stored, WindowFrom <= s.at, s.at <= picked.at
       PROVE  \E i \in InWindow : ring[Back(i)] = s
  <2>1. PICK k \in Slots : ring[k] = s
    BY DEF Stored, Slots
  <2>2. ring[k].at # Never /\ ring[k].at \in Int /\ ring[idx].at # Never
    BY <2>1, <1>0, <1>1, <1>2, <1>10 DEF Never
  <2>3. Rank(idx) <= Rank(k)
    <3>1. ASSUME Rank(k) < Rank(idx) PROVE FALSE
      <4>1. ring[idx].at + Rank(idx) <= ring[k].at + Rank(k)
        BY <3>1, <2>1, <2>2, <1>0 DEF Settled, Spaced
      <4> QED
        BY <4>1, <3>1, <2>1, <2>2, <1>0, <1>1, <1>2, <1>10
    <3> QED
      BY <3>1, <1>0, <1>2
  <2>4. Rank(k) <= count
    BY <2>1, <2>2 DEF Settled, Spaced, Filled
  <2> DEFINE i == Rank(k) - Rank(idx)
  <2>5. i \in 0..(count - 1) /\ Rank(idx) + i = Rank(k)
    BY <2>3, <2>4, <1>0, <1>2
  <2> HIDE DEF i
  <2>6. Back(i) = k
    <3>1. Back(i) \in Slots /\ Rank(Back(i)) = Rank(k)
      BY <2>5, <1>0, <1>2, <1>6
    <3> QED
      BY <3>1, <1>0, RanksInRing
  <2>7. ASSUME NEW j \in 0..i PROVE InTime(Back(j))
    <3>1. j \in 0..(count - 1) /\ Rank(idx) + j <= Rank(k) /\ Rank(k) \in 1..Size /\ Rank(idx) \in 1..Size
      BY <2>5, <1>0, <1>2
    <3>2. Back(j) \in Slots /\ Rank(Back(j)) = Rank(idx) + j
      BY <3>1, <1>0, <1>6
    <3>3. CASE j = i
      BY <3>3, <2>1, <2>2, <2>6, <1>10 DEF InTime
    <3>4. CASE j # i
      <4>1. Rank(Back(j)) < Rank(k)
        BY <3>1, <3>2, <3>4, <2>5, <1>0
      <4>2. ring[k].at + Rank(k) <= ring[Back(j)].at + Rank(Back(j))
        BY <4>1, <3>2, <2>1, <2>2 DEF Settled, Spaced
      <4>3. ring[Back(j)].at \in Int /\ WindowFrom <= ring[k].at
        BY <3>2, <2>1, <1>2, <1>10
      <4>4. ring[Back(j)].at > WindowFrom
        BY <4>1, <4>2, <4>3, <3>1, <3>2, <2>2, <1>1
      <4> QED
        BY <4>3, <4>4, <1>1 DEF InTime, Never
    <3> QED
      BY <3>3, <3>4
  <2>8. i \in InWindow
    BY <2>5, <2>7, <1>7
  <2> QED
    BY <2>1, <2>6, <2>8
<1> QED
  BY <1>8, <1>9, <1>10

(* A round that ends before the packet goes out does not change the window. *)
LEMMA StoreWindow ==
  ASSUME OldInv, Settled, WindowRespected, clears = 0, Store
  PROVE  WindowRespected'
<1> USE DEF search, settings, sending
<1> SUFFICES ASSUME pc' = "send", voted' # {}, FitsRing'
             PROVE  voted' = {s \in Stored' : WindowFrom <= s.at /\ s.at <= picked.at}
  BY DEF WindowRespected, WindowFrom, Store
<1>0. /\ Types /\ head \in Slots /\ idx \in Slots /\ Size \in Nat /\ Size > 1 /\ interrupted \in Nat
      /\ asked \in Nat /\ cfg.window \in Nat /\ now \in Int /\ now >= 0
  BY Constants DEF OldInv, Types
<1>1. /\ pc = "send" /\ voted' = voted /\ interrupted' = interrupted + 1 /\ ~ sampled
      /\ asked' = asked /\ cfg' = cfg
  BY DEF Store
<1>2. FitsRing /\ Chosen
  BY <1>0, <1>1 DEF FitsRing, Chosen
<1>3. voted = {s \in Stored : WindowFrom <= s.at /\ s.at <= picked.at}
  BY <1>1, <1>2 DEF WindowRespected, WindowFrom
<1>4. /\ ring[idx] = picked
      /\ \A x \in Slots : Rank(x) = Size /\ ring[x].at # Never => ring[x].at < WindowFrom
  BY <1>2, WindowFits
<1>5. \A x \in Slots : Rank(x) \in 1..Size /\ ring[x].at \in Int
  BY <1>0, RanksInRing, TimesInRing
<1>6. picked.at < now
  <2>1. ring[idx].at # Never => ring[idx].at + Rank(idx) <= now
    BY <1>0, <1>1 DEF Settled, Spaced
  <2> QED
    BY <2>1, <1>0, <1>4, <1>5 DEF Never
<1>7. PICK touch \in Touch : ring' = [ring EXCEPT ![head] = [at |-> now, touch |-> touch]]
  BY DEF Store
<1>8. ring'[head].at = now /\ \A i \in Slots \ {head} : ring'[i] = ring[i]
  BY <1>0, <1>7 DEF Types
<1>9. ring[head].at = Never \/ ring[head].at < WindowFrom
  BY <1>0, <1>4, StoreRanks
<1>10. WindowFrom \in Int /\ picked.at \in Int
  <2>1. WindowFrom \in Nat \ {0}
    BY <1>2, WindowFits
  <2> QED
    BY <2>1, <1>0, <1>4, <1>5
<1>11. ASSUME NEW s, WindowFrom <= s.at, s.at <= picked.at
       PROVE  s \in Stored <=> s \in Stored'
  <2>1. ASSUME NEW i \in Slots, ring[i] = s, s.at # Never PROVE \E j \in Slots : ring'[j] = s
    <3>1. i # head
      BY <2>1, <1>0, <1>5, <1>9, <1>10, <1>11
    <3> QED
      BY <2>1, <3>1, <1>8
  <2>2. ASSUME NEW i \in Slots, ring'[i] = s PROVE \E j \in Slots : ring[j] = s
    <3>1. i # head
      BY <2>2, <1>0, <1>6, <1>8, <1>10, <1>11
    <3> QED
      BY <2>2, <3>1, <1>8
  <2>3. s \in Stored <=> (\E i \in Slots : ring[i] = s) /\ ~ (s \in Sample /\ s.at = Never)
    BY DEF Stored, Slots
  <2>4. s \in Stored' <=> (\E i \in Slots : ring'[i] = s) /\ ~ (s \in Sample /\ s.at = Never)
    BY DEF Stored, Slots
  <2>5. \A i \in Slots : ring[i] \in Sample
    BY <1>0 DEF Types
  <2> QED
    BY <2>1, <2>2, <2>3, <2>4, <2>5
<1> QED
  BY <1>1, <1>3, <1>11

-----------------------------------------------------------------------------
(* The delay line while nobody changes the delay.                           *)

LineInv == OldInv /\ (clears = 0 => Settled /\ WindowRespected)

LEMMA LineInit == Init => LineInv
<1> SUFFICES ASSUME Init PROVE LineInv
  OBVIOUS
<1>1. OldInv /\ Registers /\ Spaced
  BY OldInit, RingInit
<1>2. SinceInv /\ WalkInv /\ ChoiceInv /\ WindowRespected
  BY DEF Init, SinceInv, WalkInv, ChoiceInv, Chosen, WindowRespected
<1> QED
  BY <1>1, <1>2 DEF LineInv, Settled

LEMMA OldStep == OldInv /\ [Next]_vars => OldInv'
BY QuietStep, StoreStep, BeginStep, SearchStep, ChoiceStep DEF Next, Interrupt, Core1, Task0

LEMMA LineStep == LineInv /\ [Next]_vars => LineInv'
<1> SUFFICES ASSUME LineInv, [Next]_vars PROVE LineInv'
  OBVIOUS
<1>1. OldInv /\ OldInv'
  BY OldStep DEF LineInv
<1> SUFFICES ASSUME clears' = 0 PROVE Settled' /\ WindowRespected'
  BY <1>1 DEF LineInv
<1>2. clears = 0 /\ ~ SetDelay
  <2>1. clears \in Nat
    BY <1>1 DEF OldInv, Types
  <2>2. ~ SetDelay
    BY <2>1 DEF SetDelay
  <2> QED
    BY <2>2 DEF Next, Interrupt, Core1, Task0, Tick, Store, AdvanceHead, AdvanceCount, TxDone,
           ClearHead, ClearCount, Begin, Probe, Newer, Older, Pick, Vote, Send, vars, Searching, settings
<1>3. Settled /\ WindowRespected /\ Types
  BY <1>1, <1>2 DEF LineInv, OldInv
<1>4. CASE Store
  BY <1>1, <1>2, <1>3, <1>4, RingStored, StoreSettles, StoreWindow DEF Settled
<1>5. CASE ~ Store
  <2>0. /\ Registers' /\ Spaced' /\ ring' = ring /\ Front' = Front
    BY <1>3, <1>5, RingKept DEF Settled
  <2>1. CASE irq = "none" /\ Begin
    <3>1. WindowRespected'
      BY <2>1 DEF Begin, WindowRespected
    <3> QED
      BY <2>0, <2>1, <3>1, <1>1, <1>3, BeginSettles DEF Settled
  <2>2. CASE irq = "none" /\ (Probe \/ Newer \/ Older)
    <3>1. WindowRespected'
      BY <2>2 DEF Probe, Newer, Older, WindowRespected
    <3>2. SinceInv'
      BY <2>2, <1>1, <1>3, SearchSettles
    <3>3. WalkInv' /\ ChoiceInv'
      BY <2>2, <1>1, <1>3, ProbeSettles, NewerSettles, OlderSettles
    <3> QED
      BY <2>0, <3>1, <3>2, <3>3 DEF Settled
  <2>3. CASE irq = "none" /\ (Pick \/ Vote \/ Send)
    <3>1. WindowRespected'
      <4>1. CASE Pick
        <5>1. voted = {} /\ voted' = voted
          BY <4>1, <1>3 DEF Pick, Settled, SinceInv
        <5> QED
          BY <5>1 DEF WindowRespected
      <4>2. CASE Vote
        <5>1. FitsRing' = FitsRing /\ Stored' = Stored /\ WindowFrom' = WindowFrom /\ picked' = picked
          BY <4>2 DEF Vote, FitsRing, Stored, WindowFrom, settings, buffer
        <5>2. FitsRing' => voted' = {s \in Stored' : WindowFrom' <= s.at /\ s.at <= picked'.at}
          BY <5>1, <4>2, <2>3, <1>1, <1>3, VoteWindow
        <5> QED
          BY <5>2 DEF WindowRespected, WindowFrom
      <4>3. CASE Send
        BY <4>3 DEF Send, WindowRespected
      <4> QED
        BY <4>1, <4>2, <4>3, <2>3
    <3> QED
      BY <2>0, <2>3, <3>1, <1>1, <1>3, ChoiceSettles DEF Settled
  <2>4. CASE Tick \/ AdvanceHead \/ AdvanceCount \/ TxDone \/ ClearHead \/ ClearCount
             \/ UNCHANGED vars
    <3>1. Resting
      BY <2>4 DEF Tick, AdvanceHead, AdvanceCount, TxDone, ClearHead, ClearCount, vars, Resting,
                  search, settings, trace
    <3>2. WindowRespected'
      BY <3>1, <2>0, <1>2, <1>3 DEF Resting, WindowRespected, FitsRing, Stored
    <3> QED
      BY <2>0, <3>1, <3>2, <1>1, <1>3, RestSettles DEF Settled
  <2> QED
    BY <2>1, <2>2, <2>3, <2>4, <1>2, <1>5 DEF Next, Interrupt, Core1, Task0
<1> QED
  BY <1>4, <1>5

THEOREM LineCorrect == Spec => []LineInv
BY LineInit, LineStep, PTL DEF Spec

(* The state chosen is the newest that is old enough, except for at most    *)
(* one sample per round that ended during the search, which moves the head  *)
(* under it (processSerialModeWithDelay, input_manager.cpp:530-588).        *)
THEOREM NewestChosen == Spec => []NewestOldEnough
<1>1. ASSUME LineInv PROVE NewestOldEnough
  <2> SUFFICES ASSUME Chosen, clears = 0
               PROVE  Cardinality({s \in Stored : picked.at < s.at /\ s.at <= begun - asked}) <= interrupted
    BY DEF NewestOldEnough
  <2> DEFINE T == {s \in Stored : picked.at < s.at /\ s.at <= begun - asked}
  <2>1. Few(picked.at, ring, interrupted, begun - asked)
    BY <1>1 DEF LineInv, Settled, ChoiceInv
  <2>2. PICK Z \in SUBSET Slots :
          /\ IsFiniteSet(Z) /\ Cardinality(Z) <= interrupted
          /\ \A i \in Slots \ Z : ~ (picked.at < ring[i].at /\ ring[i].at <= begun - asked)
    BY <2>1 DEF Few
  <2> DEFINE Y == {i \in Z : ring[i] \in T}
             f == [i \in Y |-> ring[i]]
  <2>3. IsFiniteSet(Y) /\ Cardinality(Y) <= Cardinality(Z)
    BY <2>2, FS_Subset
  <2>4. f \in Surjection(Y, T)
    <3>1. \A s \in T : \E i \in Y : ring[i] = s
      BY <2>2 DEF Stored, Slots
    <3> QED
      BY <3>1 DEF Surjection
  <2> HIDE DEF f, Y, T
  <2>5. IsFiniteSet(T) /\ Cardinality(T) <= Cardinality(Y)
    BY <2>3, <2>4, FS_Surjection
  <2>6. Cardinality(T) \in Nat /\ Cardinality(Y) \in Nat /\ Cardinality(Z) \in Nat
    BY <2>2, <2>3, <2>5, FS_CardinalityType
  <2>7. interrupted \in Nat
    BY <1>1 DEF LineInv, OldInv, Types
  <2>8. Cardinality(T) <= interrupted
    BY <2>2, <2>3, <2>5, <2>6, <2>7
  <2> QED
    BY <2>8 DEF T
<1> QED
  BY LineCorrect, <1>1, PTL

(* The vote is taken over the window before the chosen state and nothing    *)
(* else, whatever rounds end while it is looked for and before the packet   *)
(* is sent (process_aggregation, input_manager.cpp:590-646).                *)
THEOREM VoteOverWindow == Spec => []WindowRespected
<1>1. LineInv => WindowRespected
  BY DEF LineInv, WindowRespected
<1> QED
  BY LineCorrect, <1>1, PTL
=============================================================================

----------------------------- MODULE DelayLine -----------------------------
(***************************************************************************)
(* The delayed serial output of InputManager.  A sampling round that       *)
(* completes in the I2C interrupt stores a timestamped touch state in a    *)
(* ring; task0 on the same core looks in the ring for the newest state     *)
(* that is at least the configured delay old, optionally votes over a      *)
(* window before it, and hands the result to Mai2Serial.  The interrupt    *)
(* can fire between any two steps of task0's search, and the settings page *)
(* on core 1 can change the delay at any moment.                           *)
(*                                                                         *)
(* Touch areas do not influence each other, so a touch state is one area's *)
(* bit.  Clock values are microseconds in a uint32_t; here they are ticks  *)
(* modulo TimeMod.  A sampling round takes at least one tick.              *)
(***************************************************************************)
EXTENDS Integers, FiniteSets

CONSTANTS
  Size,        \* DELAY_BUFFER_SIZE, 512
  OffsetMod,   \* range of the uint16_t search offsets, 65536
  TimeMod,     \* range of time_us_32, 2^32
  Start,       \* the time at which sampling begins, well after power-up
  LastRound,   \* bound: the time of the last sampling round
  MaxTime,     \* bound: the time at which a behaviour ends
  Configs,     \* the settings a behaviour may start with
  Delays,      \* the delays the settings page may choose
  MinInterval, \* min_interval_us_ of the rate limit
  TxTime,      \* packet_transmission_time_us_
  MaxPreempt,  \* bound: sampling rounds that end during one search, below Size
  MaxClears    \* bound: calls of setTouchResponseDelay

ASSUME RingAssumption ==
  Size \in Nat /\ Size > 1 /\ OffsetMod \in Nat /\ OffsetMod > Size /\ OffsetMod % Size = 0
ASSUME TimeAssumption ==
  TimeMod \in Nat /\ Start \in Nat /\ LastRound \in Nat /\ MaxTime \in Nat
  /\ MinInterval \in Nat /\ TxTime \in Nat
ASSUME ConfigAssumption ==
  /\ Delays \subseteq Nat /\ MaxClears \in Nat /\ MaxPreempt \in 0..(Size - 1)
  /\ Configs \subseteq [delay : Nat, window : Nat, onChange : BOOLEAN, extra : Nat, limited : BOOLEAN]

\* behaviours end before the clock wraps, and begin when every delay and window has
\* passed since power-up: the search compares time stamps as plain numbers
ASSUME ClockAssumption ==
  /\ Start <= MaxTime /\ MaxTime < TimeMod
  /\ \A d \in Delays : d <= Start
  /\ \A c \in Configs : c.delay + c.window < Start

VARIABLES
  now, sampled,           \* the true time, and whether a round ended in this tick
  ring, head, count,      \* delay_buffer_, delay_buffer_head_, delay_buffer_count_
  irq, held,              \* core 0's interrupt: where it is, the value it has read
  lastHit,                \* last_hit_offset
  cfg,                    \* the settings task0 reads
  uiPc,                   \* core 1: where it is in setTouchResponseDelay
  pc, target, idx, offset, best,      \* task0: where it is in processSerialModeWithDelay
  current, lastRate,                  \* its time stamps for the rate limit
  delayed,                            \* delayed_serial_state
  lastSent, remaining,                \* last_sent_serial_state_, remaining_extra_sends_
  nextSend, txBusy,       \* Mai2Serial's next_send_time_us_, the UART's transmit DMA
  begun, asked,           \* history: when this search began, and its delay
  interrupted,            \* history: the rounds stored since it began
  picked, voted,          \* history: the sample it chose, the samples that voted
  overtaken,              \* history: the chosen slot was overwritten during the search
  clears                  \* history: delay changes begun

buffer   == <<ring, head, count, irq, held>>
search   == <<target, idx, offset, best, lastHit>>
sending  == <<lastSent, remaining, lastRate, nextSend, txBusy>>
settings == <<cfg, uiPc, clears>>
clock    == <<now, sampled>>
trace    == <<begun, asked, interrupted, picked, voted, overtaken>>
vars     == <<now, sampled, ring, head, count, irq, held, lastHit, cfg, uiPc, pc, target, idx, offset, best,
              current, lastRate, delayed, lastSent, remaining, nextSend, txBusy,
              trace, clears>>

Touch == {0, 1}
Never == -1                \* the true time of a slot nothing was written to

\* timestamp_us of a slot; static storage starts as zeros
Stamp(t)    == t % TimeMod
TimeOf(slot) == IF slot.at = Never THEN 0 ELSE Stamp(slot.at)

\* (delay_buffer_head_ - offset) & (DELAY_BUFFER_SIZE - 1)
Behind(o) == (head - o) % Size
OldAt(i)  == TimeOf(ring[i]) <= target

Init ==
  /\ now = Start /\ sampled = FALSE
  /\ ring = [i \in 0..(Size - 1) |-> [at |-> Never, touch |-> 0]]
  /\ head = 0 /\ count = 0 /\ irq = "none" /\ held = 0 /\ lastHit = 0
  /\ cfg \in Configs /\ uiPc = "idle"
  /\ pc = "idle" /\ target = 0 /\ idx = 0 /\ offset = 0 /\ best = [idx |-> 0, offset |-> 0]
  /\ current = 0 /\ lastRate = 0
  /\ delayed = 0 /\ lastSent = 0 /\ remaining = 0
  /\ nextSend = 0 /\ txBusy = FALSE
  /\ begun = Start /\ asked = 0 /\ interrupted = 0
  /\ picked = [at |-> Never, touch |-> 0] /\ voted = {} /\ overtaken = FALSE
  /\ clears = 0

-----------------------------------------------------------------------------
Tick ==
  /\ now < MaxTime
  /\ now' = now + 1 /\ sampled' = FALSE
  /\ UNCHANGED <<buffer, search, settings, pc, current, delayed, sending, trace>>

(* The I2C interrupt of core 0: storeDelayedSerialState, once all sensors of
   the round have answered.  Nothing on core 0 runs until it returns; core 1
   may clear head and count between its reads and writes of them. *)
Store ==
  /\ irq = "none" /\ irq' = "head"
  /\ ~ sampled /\ now <= LastRound /\ sampled' = TRUE
  /\ pc # "idle" => interrupted < MaxPreempt
  /\ \E touch \in Touch :
       ring' = [ring EXCEPT ![head] = [at |-> now, touch |-> touch]]
  /\ held' = head
  /\ interrupted' = IF pc = "idle" THEN 0 ELSE interrupted + 1
  /\ UNCHANGED <<now, head, count, search, settings, pc, current, delayed, sending, begun,
                 asked, picked, voted, overtaken>>

AdvanceHead ==
  /\ irq = "head" /\ irq' = "count"
  /\ head' = (held + 1) % Size
  /\ held' = count
  /\ UNCHANGED <<clock, ring, count, search, settings, pc, current, delayed, sending,
                 trace>>

AdvanceCount ==
  /\ irq = "count" /\ irq' = "none"
  /\ count' = IF held < Size THEN held + 1 ELSE count
  /\ UNCHANGED <<clock, ring, head, held, search, settings, pc, current, delayed, sending,
                 trace>>

\* the UART's transmit DMA drains
TxDone ==
  /\ txBusy /\ txBusy' = FALSE
  /\ UNCHANGED <<clock, buffer, search, settings, pc, current, delayed, lastSent,
                 remaining, lastRate, nextSend, trace>>

-----------------------------------------------------------------------------
(* Core 1: setTouchResponseDelay, three stores that nothing orders against
   core 0. *)
SetDelay ==
  /\ uiPc = "idle" /\ clears < MaxClears
  /\ \E d \in Delays : cfg' = [cfg EXCEPT !.delay = d]
  /\ uiPc' = "head" /\ clears' = clears + 1
  /\ UNCHANGED <<clock, buffer, search, pc, current, delayed, sending, trace>>

ClearHead ==
  /\ uiPc = "head" /\ uiPc' = "count"
  /\ head' = 0
  /\ UNCHANGED <<clock, ring, count, irq, held, search, cfg, pc, current, delayed, sending,
                 clears, trace>>

ClearCount ==
  /\ uiPc = "count" /\ uiPc' = "idle"
  /\ count' = 0
  /\ UNCHANGED <<clock, ring, head, irq, held, search, cfg, pc, current, delayed, sending,
                 clears, trace>>

-----------------------------------------------------------------------------
(* Core 0: processSerialModeWithDelay. *)

\* an empty buffer, or a packet sent less than the minimum interval ago, ends
\* the call; without delay the newest state is taken; otherwise a last hit
\* that is out of range restarts from the middle
Begin ==
  /\ pc = "idle" /\ count # 0
  /\ cfg.limited => lastRate = 0 \/ (Stamp(now) - lastRate) % TimeMod >= MinInterval
  /\ current' = IF cfg.limited THEN Stamp(now) ELSE current
  /\ IF cfg.delay = 0
       THEN /\ idx' = Behind(1) /\ pc' = "pick"
            /\ UNCHANGED <<target, lastHit>>
       ELSE /\ target' = (Stamp(now) - cfg.delay) % TimeMod
            /\ lastHit' = IF lastHit >= count THEN count \div 2 ELSE lastHit
            /\ pc' = "probe" /\ UNCHANGED idx
  /\ begun' = now /\ asked' = cfg.delay /\ interrupted' = 0 /\ voted' = {}
  /\ UNCHANGED <<clock, buffer, settings, offset, best, delayed, sending, picked,
                 overtaken>>

Searching == UNCHANGED <<clock, buffer, settings, target, current, delayed, sending, trace>>

\* look at the last hit; both offsets are uint16_t
Probe ==
  /\ pc = "probe"
  /\ idx' = Behind(lastHit)
  /\ IF OldAt(idx')
       THEN /\ best' = [idx |-> idx', offset |-> lastHit]
            /\ offset' = (lastHit - 1) % OffsetMod
            /\ pc' = "newer"
       ELSE /\ offset' = (lastHit + 1) % OffsetMod
            /\ pc' = "older" /\ UNCHANGED best
  /\ Searching /\ UNCHANGED lastHit

\* towards newer samples, as far as they are old enough
NewerOverstepping ==       \* mutant: keeps the first sample that is too new
  /\ pc = "newer"
  /\ IF offset > 0 /\ OldAt(Behind(offset))
       THEN /\ best' = [idx |-> Behind(offset), offset |-> offset]
            /\ offset' = offset - 1
            /\ UNCHANGED <<idx, lastHit, pc>>
       ELSE /\ idx' = Behind(offset) /\ lastHit' = offset
            /\ pc' = "pick" /\ UNCHANGED <<best, offset>>
  /\ Searching

NewerAtHit ==              \* mutant: stays at the last hit
  /\ pc = "newer"
  /\ idx' = best.idx /\ lastHit' = best.offset
  /\ pc' = "pick" /\ UNCHANGED <<best, offset>>
  /\ Searching

Newer ==
  /\ pc = "newer"
  /\ IF offset > 0 /\ OldAt(Behind(offset))
       THEN /\ best' = [idx |-> Behind(offset), offset |-> offset]
            /\ offset' = offset - 1
            /\ UNCHANGED <<idx, lastHit, pc>>
       ELSE /\ idx' = best.idx /\ lastHit' = best.offset
            /\ pc' = "pick" /\ UNCHANGED <<best, offset>>
  /\ Searching

\* towards older samples, to the first that is old enough; if there is none
\* it is not yet time to send
Older ==
  /\ pc = "older"
  /\ IF offset > count
       THEN pc' = "idle" /\ UNCHANGED <<idx, lastHit, offset>>
       ELSE /\ idx' = Behind(offset)
            /\ IF OldAt(idx') THEN lastHit' = offset /\ pc' = "pick" /\ UNCHANGED offset
               ELSE offset' = offset + 1 /\ UNCHANGED <<lastHit, pc>>
  /\ Searching /\ UNCHANGED best

Pick ==
  /\ pc = "pick"
  /\ delayed' = ring[idx].touch /\ picked' = ring[idx]
  /\ overtaken' = (interrupted > 0 /\ ring[idx].at >= begun /\ ring[idx].at > begun - asked)
  /\ pc' = IF cfg.window > 0 THEN "vote" ELSE "send"
  /\ UNCHANGED <<clock, buffer, search, settings, current, sending, begun, asked,
                 interrupted, voted>>

\* the window ends at the target, or at the chosen sample when there is no
\* delay; the walk goes back from the chosen sample while samples are in it
WindowEnd   == IF cfg.delay > 0 THEN target ELSE TimeOf(ring[idx])
WindowStart == IF WindowEnd >= cfg.window THEN WindowEnd - cfg.window ELSE 0
InWindow    == {i \in 0..(count - 1) :
                  \A j \in 0..i : TimeOf(ring[(idx - j) % Size]) >= WindowStart}

\* accumulate and getVotingResult for one area: the majority, and on a tie
\* the opposite of what was last sent
VoteOver(n) ==
  LET ones == Cardinality({i \in n : ring[(idx - i) % Size].touch = 1})
      all  == Cardinality(n)
  IN IF all = 0 THEN delayed
     ELSE IF 2 * ones > all THEN 1
     ELSE IF 2 * ones < all THEN 0
     ELSE 1 - lastSent

VotePastWindow ==          \* mutant: the walk does not stop at the window's start
  /\ pc = "vote"
  /\ delayed' = VoteOver(0..(count - 1))
  /\ voted' = {ring[(idx - i) % Size] : i \in 0..(count - 1)}
  /\ pc' = "send"
  /\ UNCHANGED <<clock, buffer, search, settings, current, sending, begun, asked,
                 interrupted, picked, overtaken>>

Vote ==
  /\ pc = "vote"
  /\ delayed' = VoteOver(InWindow)
  /\ voted' = {ring[(idx - i) % Size] : i \in InWindow}
  /\ pc' = "send"
  /\ UNCHANGED <<clock, buffer, search, settings, current, sending, begun, asked,
                 interrupted, picked, overtaken>>

(* Mai2Serial::send_touch_data: refused while the game has not asked for touch
   data (SerialLink has its commands) or the port is closed, and until the
   previous packet's time is over; then refused by a busy UART (the packet's
   time is charged all the same), else sent.  It is a predicate on the outcome. *)
SendTouchData(serialOk, sent) ==
  IF ~ serialOk \/ nextSend > Stamp(now)
    THEN ~ sent /\ UNCHANGED <<nextSend, txBusy>>
    ELSE nextSend' = Stamp(now + TxTime) /\ sent = ~ txBusy /\ txBusy' = TRUE

\* whether to send, and how many extra sends that leaves
Changed    == delayed # lastSent
ShouldSend == ~ cfg.onChange \/ Changed \/ remaining > 0

Send ==
  /\ pc = "send" /\ pc' = "idle"
  /\ remaining' = IF Changed THEN cfg.extra
                  ELSE IF cfg.onChange /\ remaining > 0 THEN remaining - 1
                  ELSE remaining
  /\ IF ShouldSend
       THEN \E serialOk, sent \in BOOLEAN :
              /\ SendTouchData(serialOk, sent)
              /\ lastSent' = IF sent THEN delayed ELSE lastSent
              /\ lastRate' = IF sent /\ cfg.limited THEN current ELSE lastRate
       ELSE UNCHANGED <<lastSent, lastRate, nextSend, txBusy>>
  \* the call's own best_idx and best_offset, and its history, end with it
  /\ best' = [idx |-> 0, offset |-> 0]
  /\ picked' = [at |-> Never, touch |-> 0] /\ voted' = {} /\ overtaken' = FALSE
  /\ UNCHANGED <<clock, buffer, target, idx, offset, lastHit, settings, current, delayed, begun, asked,
                 interrupted>>

\* core 0 runs its loop only while its interrupt handler does not
Task0     == irq = "none" /\ (Begin \/ Probe \/ Newer \/ Older \/ Pick \/ Vote \/ Send)
Interrupt == Store \/ AdvanceHead \/ AdvanceCount
Core1     == SetDelay \/ ClearHead \/ ClearCount
Next      == Tick \/ Interrupt \/ TxDone \/ Core1 \/ Task0

Spec == Init /\ [][Next]_vars

-----------------------------------------------------------------------------
Sample == [at : {Never} \cup Start..MaxTime, touch : Touch]

Stored  == {ring[i] : i \in 0..(Size - 1)} \ {s \in Sample : s.at = Never}
Chosen  == pc \in {"vote", "send"}

\* With delay D the host is never shown a touch state younger than D, however
\* often the sampling interrupt moves the head under the search.  The one
\* exception is a slot that is overwritten between its look and its use.
OldEnough == Chosen => picked.at <= begun - asked \/ overtaken

\* The state chosen is the newest that is old enough, except for at most one
\* sample per sampling round that ended during the search: the delay the
\* player feels is the configured one, not more.
NewestOldEnough ==
  Chosen /\ clears = 0 /\ ~ overtaken =>
    Cardinality({s \in Stored : picked.at < s.at /\ s.at <= begun - asked})
      <= interrupted

\* The vote is taken over the window before the chosen state: no sample that
\* is too young or too old, and none in between left out, as long as the ring
\* holds the delay, the window and what was sampled during the search, and the
\* chosen slot was still there at the vote: each round of the search may move
\* the choice away from the newest sample twice.
FitsRing ==
  /\ asked + cfg.window + interrupted + 2 <= Size
  /\ asked + 2 * interrupted < Size
WindowRespected ==
  pc = "send" /\ clears = 0 /\ voted # {} /\ FitsRing =>
    LET end == IF asked > 0 THEN begun - asked ELSE picked.at
    IN voted = {s \in Stored : end - cfg.window <= s.at /\ s.at <= picked.at}

=============================================================================

--------------------------- MODULE SerialBinding ---------------------------
(***************************************************************************)
(* Binding of touch channels to the game's areas.  The settings page on    *)
(* core 1 starts a session and asks for its end; task0 on core 0 lights    *)
(* one area after the other for the game and gives it the one channel that *)
(* has been held for a second since.  The fields they share are written    *)
(* without a lock: a step of either core is one store, or the reads up to  *)
(* the next store.                                                         *)
(*                                                                         *)
(* Times are ages, counted in ticks of half a second and cut off where the *)
(* code stops telling them apart.  The page is drawn every 33 ms, and a    *)
(* call of either core takes less than a tick: Tick waits for both.        *)
(***************************************************************************)
EXTENDS Naturals, FiniteSets

CONSTANTS
  Channel,     \* the channels of every sensor
  None,        \* 0xFFFFFFFF, no channel; a channel that is not held
  Areas,       \* 34
  Hold,        \* a channel is chosen after so many ticks, 1000 ms
  Timeout,     \* binding_timeout_ms_, 30000 ms
  MaxStarts, MaxStops, \* bounds: how often the buttons are pressed
  Impatient    \* bound: whether "start" is pressed while a session runs

ASSUME ConstantsAssumption ==
  /\ None \notin Channel
  /\ Areas \in Nat \ {0} /\ Hold \in Nat \ {0, 1} /\ Timeout \in Nat
  /\ MaxStarts \in Nat /\ MaxStops \in Nat /\ Impatient \in BOOLEAN

VARIABLES
  active, state, index, age, ops, cancel,
               \* binding_active_, _state_, current_binding_index_, the age of
               \* binding_start_time_, _hardware_ops_pending_, _cancel_pending_
  mapping,     \* serial_mappings: area -> channel
  lit,         \* triggle_touch_data_: the area the game is shown, or 0
  holds,       \* the age of channel_hold_start_ms
  chosen,      \* binding_device_addr and binding_channel
  pc0, pc1,    \* where core 0 and core 1 are
  touch,       \* the channels touch_device_states_ reports
  shown,       \* the button the page shows
  drawn,       \* whether the page has been drawn in this tick
  litAge,      \* history: ticks since the area was lit
  starts, stops

fields == <<active, state, index, age, ops, cancel>>
serial == <<mapping, lit, holds, chosen, litAge>>
page   == <<shown, drawn, starts, stops>>
bindingVars == <<fields, serial, pc0, pc1, touch, page>>

Area == 1..Areas

BindingInit ==
  /\ active = FALSE /\ state = "IDLE" /\ index = 0 /\ age \in 0..(Timeout + 1)
  /\ ops = FALSE /\ cancel = FALSE
  /\ mapping = [a \in Area |-> None] /\ lit = 0
  /\ holds = [c \in Channel |-> None] /\ chosen = None /\ litAge = 0
  /\ pc0 = "idle" /\ pc1 = "idle" /\ touch = {}
  /\ shown = "start" /\ drawn = FALSE /\ starts = 0 /\ stops = 0

-----------------------------------------------------------------------------
(* The user, the sensors and the clock. *)
Touch ==
  /\ pc0 = "idle"
  /\ \E c \in Channel : touch' = IF c \in touch THEN touch \ {c} ELSE touch \cup {c}
  /\ UNCHANGED <<fields, serial, pc0, pc1, page>>

Later(n, most) == IF n < most THEN n + 1 ELSE n

Tick ==
  /\ pc0 = "idle" /\ pc1 = "idle" /\ drawn /\ drawn' = FALSE
  /\ age' = Later(age, Timeout + 1)
  /\ holds' = [c \in Channel |-> IF holds[c] = None THEN None ELSE Later(holds[c], Hold)]
  /\ litAge' = Later(litAge, Hold)
  /\ UNCHANGED <<active, state, index, ops, cancel, mapping, lit, chosen, pc0, pc1, touch,
                 shown, starts, stops>>

-----------------------------------------------------------------------------
(* Core 1: the settings page. *)
Render ==
  /\ pc1 = "idle"
  /\ shown' = IF state \in {"WAIT_TOUCH", "PROCESSING"} THEN "stop" ELSE "start"
  /\ drawn' = TRUE
  /\ UNCHANGED <<fields, serial, pc0, pc1, touch, starts, stops>>

PressStop ==
  /\ pc1 = "idle" /\ shown = "stop" /\ stops < MaxStops
  /\ cancel' = TRUE /\ stops' = stops + 1
  /\ UNCHANGED <<active, state, index, age, ops, serial, pc0, pc1, touch, shown, drawn, starts>>

(* startSerialBinding, store by store. *)
PressStart ==
  /\ pc1 = "idle" /\ shown = "start" /\ starts < MaxStarts /\ (Impatient \/ ~ active)
  /\ active' = TRUE /\ pc1' = "state"
  /\ starts' = starts + 1
  /\ UNCHANGED <<state, index, age, ops, cancel, serial, pc0, touch, shown, drawn, stops>>

StoreState ==
  /\ pc1 = "state" /\ pc1' = "index" /\ state' = "PREPARE"
  /\ UNCHANGED <<active, index, age, ops, cancel, serial, pc0, touch, page>>

StoreIndex ==
  /\ pc1 = "index" /\ pc1' = "time" /\ index' = 0
  /\ UNCHANGED <<active, state, age, ops, cancel, serial, pc0, touch, page>>

StoreTime ==
  /\ pc1 = "time" /\ pc1' = "ops" /\ age' = 0
  /\ UNCHANGED <<active, state, index, ops, cancel, serial, pc0, touch, page>>

StoreOps ==
  /\ pc1 = "ops" /\ pc1' = "idle" /\ ops' = TRUE
  /\ UNCHANGED <<active, state, index, age, cancel, serial, pc0, touch, page>>

-----------------------------------------------------------------------------
(* Core 0: the binding part of task0. *)
At(p, q) == pc0 = p /\ pc0' = q /\ UNCHANGED <<pc1, touch, page>>

Check ==
  /\ active /\ At("idle", IF ops THEN "clear" ELSE "cancel")
  /\ UNCHANGED <<fields, serial>>

Clear ==
  /\ At("clear", "cleared") /\ mapping' = [a \in Area |-> None]
  /\ UNCHANGED <<fields, lit, holds, chosen, litAge>>

Cleared ==
  /\ At("cleared", "cancel") /\ ops' = FALSE
  /\ UNCHANGED <<active, state, index, age, cancel, serial>>

CheckCancel ==
  /\ At("cancel", IF cancel THEN "stop" ELSE "timeout")
  /\ cancel' = FALSE
  /\ UNCHANGED <<active, state, index, age, ops, serial>>

CheckTimeoutUnlessWaiting ==  \* mutant: no timeout while it waits for a touch
  /\ At("timeout", IF age > Timeout /\ state # "WAIT_TOUCH" THEN "stop" ELSE "dispatch")
  /\ UNCHANGED <<fields, serial>>

CheckTimeout ==
  /\ At("timeout", IF age > Timeout THEN "stop" ELSE "dispatch")
  /\ UNCHANGED <<fields, serial>>

(* cancelBinding, store by store: the page may start a session in between. *)
Stop ==
  /\ At("stop", IF active THEN "stop_state" ELSE "idle") /\ active' = FALSE
  /\ UNCHANGED <<state, index, age, ops, cancel, serial>>

StopState ==
  /\ At("stop_state", "stop_ops") /\ state' = "IDLE"
  /\ UNCHANGED <<active, index, age, ops, cancel, serial>>

StopOps ==
  /\ At("stop_ops", "stop_index") /\ ops' = FALSE
  /\ UNCHANGED <<active, state, index, age, cancel, serial>>

StopIndex ==
  /\ At("stop_index", "stop_time") /\ index' = 0
  /\ UNCHANGED <<active, state, age, ops, cancel, serial>>

\* the start time goes back to zero, which may be long ago; then it gets dark
StopTime ==
  /\ At("stop_time", "dark") /\ age' \in age..(Timeout + 1)
  /\ UNCHANGED <<active, state, index, ops, cancel, serial>>

-----------------------------------------------------------------------------
(* Core 0: processSerialBinding. *)
Dispatch(s) == pc0 = "dispatch" /\ state = s

PrepareKeepsHolds ==       \* mutant: holds go on from the area before
  /\ Dispatch("PREPARE")
  /\ IF index < Areas
       THEN At("dispatch", "prepared") /\ lit' = index + 1 /\ litAge' = 0
       ELSE At("dispatch", "end") /\ UNCHANGED <<lit, litAge>>
  /\ UNCHANGED <<fields, mapping, holds, chosen>>

Prepare ==
  /\ Dispatch("PREPARE")
  /\ IF index < Areas
       THEN /\ At("dispatch", "prepared") /\ lit' = index + 1 /\ litAge' = 0
            /\ holds' = [c \in Channel |-> None]
       ELSE At("dispatch", "end") /\ UNCHANGED <<lit, litAge, holds>>
  /\ UNCHANGED <<fields, mapping, chosen>>

Prepared ==
  /\ At("prepared", "idle") /\ state' = "WAIT_TOUCH" /\ age' = 0
  /\ UNCHANGED <<active, index, ops, cancel, serial>>

\* a hold begins when the channel is first seen; only a single long hold chooses
Held == {c \in Channel : holds'[c] # None /\ holds'[c] >= Hold}
Wait ==
  /\ Dispatch("WAIT_TOUCH")
  /\ holds' = [c \in Channel |-> IF c \notin touch THEN None
                                 ELSE IF holds[c] = None THEN 0 ELSE holds[c]]
  /\ IF Cardinality(Held) = 1
       THEN At("dispatch", "chosen") /\ chosen' \in Held
       ELSE At("dispatch", "idle") /\ UNCHANGED chosen
  /\ UNCHANGED <<fields, mapping, lit, litAge>>

Chosen ==
  /\ At("chosen", "idle") /\ state' = "PROCESSING"
  /\ UNCHANGED <<active, index, age, ops, cancel, serial>>

Mapped(c) == \E a \in Area : mapping[a] = c
BindUnchecked ==           \* mutant: a channel may be bound again
  /\ Dispatch("PROCESSING") /\ At("dispatch", "bound")
  /\ mapping' = [mapping EXCEPT ![index + 1] = chosen] /\ index' = index + 1
  /\ UNCHANGED <<active, state, age, ops, cancel, lit, holds, chosen, litAge>>

Bind ==
  /\ Dispatch("PROCESSING") /\ At("dispatch", "bound")
  /\ IF Mapped(chosen) THEN UNCHANGED <<mapping, index>>
     ELSE mapping' = [mapping EXCEPT ![index + 1] = chosen] /\ index' = index + 1
  /\ UNCHANGED <<active, state, age, ops, cancel, lit, holds, chosen, litAge>>

Another ==
  /\ index < Areas /\ At("bound", "idle") /\ state' = "PREPARE"
  /\ UNCHANGED <<active, index, age, ops, cancel, serial>>

\* the last area is bound, or there was none left: state, activity, light
LastBound == index >= Areas /\ At("bound", "end") /\ UNCHANGED <<fields, serial>>
End ==
  /\ At("end", "ended") /\ state' = "IDLE"
  /\ UNCHANGED <<active, index, age, ops, cancel, serial>>
Ended ==
  /\ At("ended", "dark") /\ active' = FALSE
  /\ UNCHANGED <<state, index, age, ops, cancel, serial>>
Dark ==
  /\ At("dark", "idle") /\ lit' = 0
  /\ UNCHANGED <<fields, mapping, holds, chosen, litAge>>

\* a session whose state is not stored yet
Unknown == Dispatch("IDLE") /\ At("dispatch", "idle") /\ UNCHANGED <<fields, serial>>

-----------------------------------------------------------------------------
Reset == StopState \/ StopOps \/ StopIndex \/ StopTime
Core0 == Check \/ Clear \/ Cleared \/ CheckCancel \/ CheckTimeout \/ Stop \/ Reset \/ Prepare \/ Prepared
           \/ Wait \/ Chosen \/ Bind \/ Another \/ LastBound \/ End \/ Ended \/ Dark \/ Unknown
Stores == StoreState \/ StoreIndex \/ StoreTime \/ StoreOps
BindingNext == Touch \/ Tick \/ Render \/ PressStop \/ PressStart \/ Stores \/ Core0

BindingSpec == BindingInit /\ [][BindingNext]_bindingVars

\* both cores keep looping; time goes on although core 0 is at work most of it,
\* hence SF; no one has to press or to touch
FairBinding ==
  /\ BindingSpec
  /\ WF_bindingVars(Core0) /\ WF_bindingVars(Stores) /\ WF_bindingVars(Render)
  /\ SF_bindingVars(Tick)

-----------------------------------------------------------------------------
\* The index stays in the table and the lit area is one of the game's.
TypeOK ==
  /\ active \in BOOLEAN /\ state \in {"IDLE", "PREPARE", "WAIT_TOUCH", "PROCESSING"}
  /\ index \in 0..Areas /\ age \in 0..(Timeout + 1)
  /\ ops \in BOOLEAN /\ cancel \in BOOLEAN
  /\ mapping \in [Area -> Channel \cup {None}] /\ lit \in 0..Areas
  /\ holds \in [Channel -> (0..Hold) \cup {None}] /\ chosen \in Channel \cup {None}
  /\ pc0 \in {"idle", "clear", "cleared", "cancel", "timeout", "dispatch", "prepared", "chosen",
              "bound", "end", "ended", "dark",
              "stop", "stop_state", "stop_ops", "stop_index", "stop_time"}
  /\ pc1 \in {"idle", "state", "index", "time", "ops"}
  /\ touch \subseteq Channel /\ shown \in {"start", "stop"} /\ drawn \in BOOLEAN
  /\ litAge \in 0..Hold
  /\ starts \in 0..MaxStarts /\ stops \in 0..MaxStops

\* No channel is ever bound to two areas: getSerialMapping, which looks a
\* channel up, has one answer.
OneAreaPerChannel ==
  \A a, b \in Area : mapping[a] # None /\ mapping[a] = mapping[b] => a = b

\* A channel is bound only to the area the game was showing, and only after
\* that area has been lit for the whole of the hold.
BoundAsShown ==
  [][\A a \in Area : mapping'[a] # None /\ mapping'[a] # mapping[a] =>
       lit = a /\ litAge >= Hold]_bindingVars

\* Out of a session the game sees no area touched on the binding's behalf.
NoGhostTouch == ~ active /\ pc0 = "idle" => lit = 0

\* Once nothing is touched any more, a session that runs comes to its end: it
\* is cancelled or it times out.
SessionEnds == <>[](touch = {}) => []<>(~ active)
=============================================================================

---------------------------- MODULE HidReports -----------------------------
(* HID (protocol/hid) on top of the USB device (hal/usb): the keys and       *)
(* modifiers that are down, the touch points waiting to be reported, and the *)
(* reports that core 1 makes of them. A report of keys is cut into batches,  *)
(* one for each keyboard of the descriptor. All reports share one endpoint,  *)
(* which holds one report until the host polls it; a report that finds it    *)
(* taken is refused, and nobody looks at the answer.                         *)
EXTENDS Naturals, Sequences, SequencesExt, FiniteSets

CONSTANTS
  Key,         \* the key codes in use
  Modifiers,   \* the ones that are modifiers
  Supported,   \* supported_keys: the order in which changes are applied
  Batch,       \* keys in a report (6)
  Boards,      \* KEYBOARD_NUM (3)
  TouchSlots   \* TOUCH_LOCAL_NUM (64)

Capacity == Batch * Boards   \* KEYBOARD_SIMUL_PRESS

ASSUME HidAssumption ==
  /\ Batch \in Nat \ {0} /\ Boards \in Nat \ {0} /\ TouchSlots \in Nat \ {0}
  /\ Modifiers \subseteq Key
  /\ Supported \in Seq(Key) /\ Range(Supported) = Key /\ Len(Supported) = Cardinality(Key)

VARIABLES
  keys,      \* keyboard_state.key, in the order they were pressed
  mods,      \* keyboard_state.modifier_keys
  changed,   \* state_changed; keyboard_needs_send_ never differs from it
  points,    \* touch_state.touch_press: contacts to report
  outbox,    \* the reports of this turn not yet handed over
  refused,   \* history: a report of the last key change was refused
  endpoint,  \* the report in the endpoint: a sequence of at most one
  host       \* what the host holds: keys per keyboard, and contacts

hidVars == <<keys, mods, changed, points, outbox, refused, endpoint, host>>

Board == 1..Boards
KeyReport(b, ks) == [board |-> b, keys |-> ks, mods |-> mods]
TouchReport(id)  == [contact |-> id]

HidInit ==
  /\ keys = <<>> /\ mods = {} /\ changed = FALSE /\ points = <<>>
  /\ outbox = <<>> /\ refused = FALSE /\ endpoint = <<>>
  /\ host = [keys |-> [b \in Board |-> {}], contacts |-> {}]

(***************************************************************************)
(* press_key and release_key for a set of keys that go down and a set that *)
(* go up: a key that is down is not added again, and a key beyond the      *)
(* capacity is refused                                                     *)
(***************************************************************************)
\* the elements of s that are in the set ks, in their order (SelectSeq has no definition
\* a proof could use)
Kept(s, ks) ==
  LET kept[i \in 0..Len(s)] ==
        IF i = 0 THEN <<>> ELSE IF s[i] \in ks THEN Append(kept[i - 1], s[i]) ELSE kept[i - 1]
  IN  kept[Len(s)]

Plain(ks) == ks \ Modifiers
Added(down) == Kept(Supported, Plain(down) \ Range(keys))
Remaining(up) == Kept(keys, Key \ up)
Fitting(ks) == IF Len(ks) > Capacity THEN SubSeq(ks, 1, Capacity) ELSE ks

SetKeys(down, up) ==
  /\ keys' = Fitting(Remaining(up) \o Added(down))
  /\ mods' = (mods \ up) \cup (down \cap Modifiers)
  /\ changed' = (changed \/ keys' # keys \/ mods' # mods)

(***************************************************************************)
(* send_touch_report with press set: a point is queued while there is room *)
(***************************************************************************)
QueuePoints(ids) ==
  points' = LET all == points \o SetToSeq(ids)
            IN  SubSeq(all, 1, IF Len(all) > TouchSlots THEN TouchSlots ELSE Len(all))

(***************************************************************************)
(* report_keyboard: at least one report, then as many as the keys need and *)
(* there are keyboards for; a keyboard without a batch gets no report      *)
(***************************************************************************)
BatchKeys(i) == {keys[j] : j \in ((i - 1) * Batch + 1 .. i * Batch) \cap DOMAIN keys}
\* mutant: the keys that do not fill a report are left out
BatchesFull ==
  LET n == Len(keys) \div Batch IN [i \in 1..(IF n = 0 THEN 1 ELSE n) |-> KeyReport(i, BatchKeys(i))]
Batches ==
  LET needed == (Len(keys) + Batch - 1) \div Batch
      n      == IF needed = 0 THEN 1 ELSE IF needed > Boards THEN Boards ELSE needed
  IN  [i \in 1..n |-> KeyReport(i, BatchKeys(i))]

(***************************************************************************)
(* HID::task: a changed keyboard state and waiting points are made into    *)
(* reports, and both count as sent                                         *)
(***************************************************************************)
HidTask ==
  /\ outbox' = (IF changed THEN Batches ELSE <<>>) \o [i \in DOMAIN points |-> TouchReport(points[i])]
  /\ refused' = (refused /\ ~ changed)
  /\ changed' = FALSE /\ points' = <<>>
  /\ UNCHANGED <<keys, mods, endpoint, host>>

(***************************************************************************)
(* send_hid_report: handed to the endpoint when it is free; the answer is  *)
(* dropped                                                                 *)
(***************************************************************************)
SendReport ==
  /\ outbox # <<>>
  /\ outbox' = Tail(outbox)
  /\ endpoint' = IF endpoint = <<>> THEN <<Head(outbox)>> ELSE endpoint
  /\ refused' = (refused \/ (endpoint # <<>> /\ "keys" \in DOMAIN Head(outbox)))
  /\ UNCHANGED <<keys, mods, changed, points, host>>

(***************************************************************************)
(* The host polls the endpoint                                             *)
(***************************************************************************)
Poll ==
  /\ endpoint # <<>>
  /\ LET r == endpoint[1]
     IN  host' = IF "keys" \in DOMAIN r
                 THEN [host EXCEPT !.keys[r.board] = r.keys \cup r.mods]
                 ELSE [host EXCEPT !.contacts = @ \cup {r.contact}]
  /\ endpoint' = <<>>
  /\ UNCHANGED <<keys, mods, changed, points, outbox, refused>>

HostKeys == UNION {host.keys[b] : b \in Board}
=============================================================================

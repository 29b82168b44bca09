----------------------------- MODULE SerialLogs -----------------------------
(***************************************************************************)
(* The log over the USB serial port: a ring of blocks with two indices and *)
(* a count of the blocks in use.  Every part of the firmware adds to it,   *)
(* on both cores and in core 0's interrupts (whose adds meet those of      *)
(* core 0 as core 1's do); core 1 sends what it holds.                     *)
(* There is no lock: the indices and the count are volatile, and each of   *)
(* their changes is a load followed by a store.                            *)
(***************************************************************************)
EXTENDS Integers, Sequences

CONSTANTS
  Blocks,        \* USB_LOGS_BUFFER_BLOCKS
  CountMod,      \* size_t holds 0..CountMod-1
  MaxLogs        \* bound: lines logged

LogsConstants == Blocks \in Nat \ {0} /\ CountMod \in Nat /\ CountMod > Blocks /\ MaxLogs \in Nat

\* who runs add_to_queue; core 1 also runs flush
Writer == {"core0", "core1"}

VARIABLES
  ring,          \* read, write, used and the blocks (valid, and whose line they hold)
  actor,         \* of each writer: where it is, the value it loaded, its block
  usb,           \* whether the host takes what is written
  logged,        \* history: lines logged, numbered in the order they reach a block
  sent, dropped, \* history: lines sent; stats_.dropped_logs
  raced          \* history: two of them were in each other's way

hist == <<logged, sent, dropped>>
vars == <<ring, actor, usb, hist, raced>>

Idle == [at |-> "idle", held |-> 0, block |-> 0]

Init ==
  /\ ring = [read |-> 0, write |-> 0, used |-> 0,
             block |-> [b \in 0..Blocks - 1 |-> [valid |-> FALSE, line |-> 0]]]
  /\ actor = [w \in Writer |-> Idle]
  /\ usb = TRUE
  /\ logged = 0 /\ sent = <<>> /\ dropped = 0
  /\ raced = FALSE

At(w, place) == actor[w].at = place
Go(w, place) == actor' = [actor EXCEPT ![w] = [Idle EXCEPT !.at = place]]

IsFull == ring.used >= Blocks
Following(i) == (i + 1) % Blocks

\* a load of one of the indices or the count, and the store of its new value
Load(w, place, field, next) ==
  /\ At(w, place)
  /\ actor' = [actor EXCEPT ![w].at = next, ![w].held = ring[field]]
  /\ UNCHANGED <<ring, usb, hist, raced>>

Store(w, place, field, value, next) ==
  /\ At(w, place)
  /\ ring' = [ring EXCEPT ![field] = value]
  /\ Go(w, next)

\* somebody changed the field between the load and the store
Overtaken(w, field) == ring[field] # actor[w].held
\* somebody else is in add_to_queue
Adding(w) == \E v \in Writer \ {w} :
               actor[v].at \in {"evict", "evict+", "drop", "drop+", "mark", "fill", "write", "write+",
                               "room", "count", "count+"}
\* an add gives up the oldest block: the index has moved, the count has not
Evicting == \E w \in Writer : actor[w].at \in {"drop", "drop+"}
\* core 1 is sending a block
InBlock == actor["core1"].at \in {"take", "valid", "send", "void", "next", "next+", "less", "less+"}
----------------------------------------------------------------------------
(* ----------------------------- add_to_queue ---------------------------- *)

Begin(w) ==
  /\ At(w, "idle") /\ logged < MaxLogs
  /\ Go(w, IF IsFull THEN "evict" ELSE "mark")
  /\ raced' = (raced \/ Adding(w))
  /\ UNCHANGED <<ring, usb, hist>>

\* a line longer than a block is dropped
Oversized(w) ==
  /\ At(w, "idle") /\ logged < MaxLogs
  /\ logged' = logged + 1 /\ dropped' = dropped + 1
  /\ UNCHANGED <<ring, actor, usb, sent, raced>>

\* a full ring gives up its oldest block
LoadRead(w) == Load(w, "evict", "read", "evict+")
StoreRead(w) ==
  /\ Store(w, "evict+", "read", Following(actor[w].held), "drop")
  /\ raced' = (raced \/ InBlock \/ ~IsFull)
  /\ UNCHANGED <<usb, hist>>

LoadUsed(w) == Load(w, "drop", "used", "drop+")

\* mutant: the count keeps the block given up
StoreUsedKept(w) ==
  /\ Store(w, "drop+", "used", actor[w].held, "mark")
  /\ dropped' = dropped + 1
  /\ raced' = (raced \/ Overtaken(w, "used"))
  /\ UNCHANGED <<usb, logged, sent>>

StoreUsed(w) ==
  /\ Store(w, "drop+", "used", (actor[w].held - 1) % CountMod, "mark")
  /\ dropped' = dropped + 1
  /\ raced' = (raced \/ Overtaken(w, "used"))
  /\ UNCHANGED <<usb, logged, sent>>

\* the block at the write index is valid before it holds its line
MarkValid(w) ==
  /\ At(w, "mark")
  /\ ring' = [ring EXCEPT !.block[ring.write].valid = TRUE]
  /\ actor' = [actor EXCEPT ![w].at = "fill", ![w].block = ring.write]
  /\ UNCHANGED <<usb, hist, raced>>

Fill(w) ==
  /\ At(w, "fill")
  /\ ring' = [ring EXCEPT !.block[actor[w].block].line = logged + 1]
  /\ logged' = logged + 1
  /\ Go(w, "write")
  /\ UNCHANGED <<usb, sent, dropped, raced>>

LoadWrite(w) == Load(w, "write", "write", "write+")
StoreWrite(w) ==
  /\ Store(w, "write+", "write", Following(actor[w].held), "room")
  /\ UNCHANGED <<usb, hist, raced>>

\* the count goes up unless it says the ring is full
Room(w) ==
  /\ At(w, "room")
  /\ Go(w, IF IsFull THEN "idle" ELSE "count")
  /\ UNCHANGED <<ring, usb, hist, raced>>

LoadCount(w) == Load(w, "count", "used", "count+")
StoreCount(w) ==
  /\ Store(w, "count+", "used", (actor[w].held + 1) % CountMod, "idle")
  /\ raced' = (raced \/ Overtaken(w, "used"))
  /\ UNCHANGED <<usb, hist>>

AddToQueue(w) ==
  \/ Begin(w) \/ Oversized(w) \/ LoadRead(w) \/ StoreRead(w) \/ LoadUsed(w) \/ StoreUsed(w)
  \/ MarkValid(w) \/ Fill(w) \/ LoadWrite(w) \/ StoreWrite(w)
  \/ Room(w) \/ LoadCount(w) \/ StoreCount(w)
----------------------------------------------------------------------------
(* ---------------------------- core 1: flush ---------------------------- *)

\* task: the interval has passed and the host is there
Flush ==
  /\ At("core1", "idle") /\ usb
  /\ Go("core1", "look")
  /\ UNCHANGED <<ring, usb, hist, raced>>

IsEmpty ==
  /\ At("core1", "look")
  /\ Go("core1", IF ring.used = 0 THEN "idle" ELSE "take")
  /\ raced' = (raced \/ Evicting)
  /\ UNCHANGED <<ring, usb, hist>>

TakeBlock ==
  /\ At("core1", "take")
  /\ actor' = [actor EXCEPT !["core1"].at = "valid", !["core1"].block = ring.read]
  /\ UNCHANGED <<ring, usb, hist, raced>>

\* a block that is not valid is passed over
Sending == actor["core1"].block
Extract ==
  /\ At("core1", "valid")
  /\ actor' = [actor EXCEPT !["core1"].at = IF ring.block[Sending].valid THEN "send" ELSE "next",
                            !["core1"].held = ring.block[Sending].line]
  /\ UNCHANGED <<ring, usb, hist, raced>>

\* cdc_write: the host took the whole line, or flush ends with the block kept
CdcWrite ==
  /\ At("core1", "send")
  /\ IF usb THEN /\ sent' = Append(sent, actor["core1"].held)
                 /\ actor' = [actor EXCEPT !["core1"].at = "void", !["core1"].held = 0]
            ELSE Go("core1", "idle") /\ UNCHANGED sent
  /\ UNCHANGED <<ring, usb, logged, dropped, raced>>

MarkInvalid ==
  /\ At("core1", "void")
  /\ ring' = [ring EXCEPT !.block[Sending].valid = FALSE]
  /\ Go("core1", "next")
  /\ UNCHANGED <<usb, hist, raced>>

LoadNext == Load("core1", "next", "read", "next+")
StoreNext ==
  /\ Store("core1", "next+", "read", Following(actor["core1"].held), "less")
  /\ UNCHANGED <<usb, hist, raced>>

LoadLess == Load("core1", "less", "used", "less+")
StoreLess ==
  /\ Store("core1", "less+", "used", (actor["core1"].held - 1) % CountMod, "look")
  /\ raced' = (raced \/ Overtaken("core1", "used"))
  /\ UNCHANGED <<usb, hist>>

Task ==
  \/ Flush \/ IsEmpty \/ TakeBlock \/ Extract \/ CdcWrite \/ MarkInvalid
  \/ LoadNext \/ StoreNext \/ LoadLess \/ StoreLess

\* the host stops reading and reads again
Host == usb' = ~usb /\ UNCHANGED <<ring, actor, hist, raced>>

Next == (\E w \in Writer : AddToQueue(w)) \/ Task \/ Host

Spec == Init /\ [][Next]_vars
----------------------------------------------------------------------------
\* As long as no load and store of the count or an index was overtaken, no block
\* given up while it was being sent, and no two adds met on one block, lines
\* leave in the order they were logged, and whoever rests finds each of them
\* sent, waiting or counted as dropped.
LinesInOrder ==
  ~raced =>
    /\ \A i, j \in 1..Len(sent) : i < j => sent[i] < sent[j]
    /\ (\A w \in Writer : actor[w] = Idle) => logged = Len(sent) + dropped + ring.used
=============================================================================

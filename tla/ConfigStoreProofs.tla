------------------------- MODULE ConfigStoreProofs -------------------------
(***************************************************************************)
(* For any settings, any number of restarts and any failed writes: saves   *)
(* are all or nothing, a restart comes back with the last one, and a       *)
(* request that was served has saved what there was to save.               *)
(***************************************************************************)
EXTENDS ConfigStore, TLAPS

\* a set of settings with at most the keys that n starts have registered
Bounded(s, n) == s \in Content /\ s.keys <= Wired * n

\* Start-up works on what was saved before; the keys are added at its end.
KeysBounded ==
  /\ restarts \in 0..MaxRestarts
  /\ Bounded(runtime, restarts + 1) /\ Bounded(live, restarts + 1)
  /\ file # None => Bounded(file, restarts + 1)
  /\ copy # None => Bounded(copy, restarts + 1)
  /\ (Starting \/ pc = "load") /\ file # None => Bounded(file, restarts)
  /\ pc = "load" => Bounded(runtime, restarts)

Types ==
  /\ requested \in BOOLEAN /\ promised \in BOOLEAN
  /\ pc \in {"read", "format", "defaults", "load", "idle",
             "write", "assign", "clear", "lock", "flash"}
  /\ copy # None <=> pc \in {"write", "assign"}
  /\ pc = "defaults" => file = None
  /\ pc = "format" => file \notin Readable
  /\ ~ Starting /\ pc # "load" => live.keys # 0
  /\ copy # None => copy.keys # 0

\* the map m holds the settings l
Holds(m, l) ==
  /\ m.value = l.value /\ m.keys = l.keys
  /\ l.sens # None => m.sens = l.sens

\* How a promise is kept on the way from the press to the file.
OnTheWay ==
  promised =>
    /\ pc \in {"idle", "write", "assign", "clear", "lock", "flash"}
    /\ pc = "idle" => requested \/ (file # None /\ Holds(file, live))
    /\ pc \in {"write", "assign"} => copy = live
    /\ pc \in {"assign", "clear", "lock", "flash"} => Holds(runtime, live)

IInv == Types /\ KeysBounded /\ OnTheWay

-----------------------------------------------------------------------------
LEMMA MoreKeys ==
  ASSUME NEW n \in 0..MaxRestarts
  PROVE  /\ Wired * n \in Nat /\ Wired * n + Wired = Wired * (n + 1)
         /\ Wired * n <= Wired * (n + 1) /\ Wired * (n + 1) <= Wired * (MaxRestarts + 1)
BY WiredAssumption

LEMMA DefaultsFit == DefaultMap \in Content /\ \A n \in 0..(MaxRestarts + 1) : Bounded(DefaultMap, n)
BY ValueAssumption, WiredAssumption DEF DefaultMap, Content, Keys, Bounded

LEMMA InitIInv == Init => IInv
<1> SUFFICES ASSUME Init PROVE IInv
    OBVIOUS
<1>1. Types
  BY NoneAssumption DEF Init, Types, Starting, Readable
<1>2. KeysBounded
  <2>1. Bounded(DefaultMap, 0) /\ Bounded(DefaultMap, 0 + 1)
    BY DefaultsFit, WiredAssumption
  <2> QED
    BY <2>1, WiredAssumption DEF Init, KeysBounded, Starting
<1>3. OnTheWay
  BY DEF Init, OnTheWay
<1> QED
    BY <1>1, <1>2, <1>3 DEF IInv

-----------------------------------------------------------------------------
(* Start-up. *)
LEMMA SetUpStep == IInv /\ SetUp => IInv'
<1> SUFFICES ASSUME IInv, SetUp PROVE IInv'
    OBVIOUS
<1> USE DefaultsFit, MoreKeys, WiredAssumption DEF IInv
<1>1. CASE Read
  <2>1. file \in Readable => file # None
    BY NoneAssumption DEF Readable
  <2>2. \A s, n : Bounded(s, n) /\ n \in 0..MaxRestarts => Bounded(s, n + 1)
    BY DEF Bounded, Content, Keys
  <2> QED
    BY <1>1, <2>1, <2>2 DEF Read, Types, KeysBounded, OnTheWay, Starting
<1>2. CASE Format
  BY <1>2 DEF Format, Types, KeysBounded, OnTheWay, Starting
<1>3. CASE SaveDefaults
  BY <1>3 DEF SaveDefaults, Types, KeysBounded, OnTheWay, Starting
<1>4. CASE Load
  <2>1. PICK found \in BOOLEAN :
          live' = [value |-> runtime.value, sens |-> IF found THEN Default ELSE None,
                   keys |-> runtime.keys + Wired]
    BY <1>4 DEF Load
  <2>2. runtime \in Content /\ runtime.keys <= Wired * restarts
    BY <1>4 DEF Load, KeysBounded, Bounded
  <2>3. live'.keys = runtime.keys + Wired /\ live'.keys # 0 /\ live'.keys <= Wired * (restarts + 1)
    BY <2>1, <2>2 DEF KeysBounded, Content, Keys
  <2>4. live' \in Content
    BY <2>1, <2>2, <2>3, ValueAssumption DEF KeysBounded, Content, Keys
  <2>5. Bounded(live', restarts + 1)
    BY <2>3, <2>4 DEF Bounded
  <2>6. file # None => Bounded(file, restarts + 1)
    BY DEF KeysBounded
  <2> QED
    BY <1>4, <2>3, <2>5, <2>6 DEF Load, Types, KeysBounded, OnTheWay, Starting
<1> QED
    BY <1>1, <1>2, <1>3, <1>4 DEF SetUp

(* The pages, task0 and a restart. *)
LEMMA OutsideSave == IInv /\ (Change \/ Press \/ Apply \/ Restart) => IInv'
<1> SUFFICES ASSUME IInv, Change \/ Press \/ Apply \/ Restart PROVE IInv'
    OBVIOUS
<1> USE DefaultsFit, MoreKeys, WiredAssumption DEF IInv
<1>1. CASE Change
  <2>1. PICK v \in Value : live' = [live EXCEPT !.value = v]
    BY <1>1 DEF Change
  <2>2. live \in Content
    BY DEF KeysBounded, Bounded
  <2>3. live' \in Content /\ live'.keys = live.keys
    BY <2>1, <2>2 DEF Content
  <2> QED
    BY <1>1, <2>3 DEF Change, PagesRun, Types, KeysBounded, Bounded, OnTheWay, Starting
<1>2. CASE Press
  BY <1>2 DEF Press, PagesRun, settings, Types, KeysBounded, OnTheWay, Starting
<1>3. CASE Apply
  <2>1. PICK v \in Value : live' = [live EXCEPT !.sens = v]
    BY <1>3 DEF Apply
  <2>2. live \in Content
    BY DEF KeysBounded, Bounded
  <2>3. live' \in Content /\ live'.keys = live.keys
    BY <2>1, <2>2 DEF Content
  <2> QED
    BY <1>3, <2>3 DEF Apply, Types, KeysBounded, Bounded, OnTheWay, Starting
<1>4. CASE Restart
  <2>1. restarts' \in 0..MaxRestarts /\ restarts' = restarts + 1
    BY <1>4 DEF Restart, KeysBounded
  <2>2. Bounded(DefaultMap, restarts' + 1)
    BY <2>1
  <2>3. file # None => Bounded(file, restarts') /\ Bounded(file, restarts' + 1)
    BY <2>1 DEF KeysBounded, Bounded, Content, Keys
  <2>4. Types' /\ OnTheWay'
    BY <1>4 DEF Restart, Types, OnTheWay, Starting
  <2>5. KeysBounded'
    BY <1>4, <2>1, <2>2, <2>3 DEF Restart, KeysBounded, Starting
  <2> QED
    BY <2>4, <2>5
<1> QED
    BY <1>1, <1>2, <1>3, <1>4

(* save_config_task. *)
LEMMA Core0Step == IInv /\ Core0 => IInv'
<1> SUFFICES ASSUME IInv, Core0 PROVE IInv'
    OBVIOUS
<1> USE DEF IInv
<1>1. CASE Copy
  <2>1. live # None
    BY NoneAssumption DEF KeysBounded, Bounded
  <2> QED
    BY <1>1, <2>1 DEF Copy, Types, KeysBounded, OnTheWay, Starting
<1>2. CASE Write
  <2>1. copy # None /\ copy \in Content /\ runtime \in Content
    BY <1>2 DEF Write, Types, KeysBounded, Bounded
  <2>2. Written \in Content /\ Written.keys \in {copy.keys, runtime.keys}
    BY <2>1 DEF Written, Content
  <2>3. Bounded(Written, restarts + 1)
    BY <2>1, <2>2 DEF KeysBounded, Bounded
  <2>4. promised => Holds(Written, live)
    BY <1>2, <2>1 DEF Write, Written, Holds, OnTheWay, Types, Starting
  <2> QED
    BY <1>2, <2>3, <2>4 DEF Write, Types, KeysBounded, OnTheWay, Starting, Holds
<1>3. CASE Assign
  <2>1. Types'
    BY <1>3 DEF Assign, Types, KeysBounded, OnTheWay, Starting
  <2>2. KeysBounded'
    BY <1>3 DEF Assign, Types, KeysBounded, Starting
  <2>3. OnTheWay'
    BY <1>3 DEF Assign, OnTheWay, Holds
  <2> QED
    BY <2>1, <2>2, <2>3
<1>4. CASE Clear
  <2>1. Types'
    BY <1>4 DEF Clear, settings, Types, KeysBounded, OnTheWay, Starting
  <2>2. KeysBounded'
    BY <1>4 DEF Clear, settings, Types, KeysBounded, Starting
  <2>3. OnTheWay'
    BY <1>4 DEF Clear, settings, OnTheWay, Holds
  <2> QED
    BY <2>1, <2>2, <2>3
<1>5. CASE Lock
  BY <1>5 DEF Lock, settings, Types, KeysBounded, OnTheWay, Starting
<1>6. CASE Commit
  <2>1. runtime # None
    BY NoneAssumption DEF KeysBounded, Bounded
  <2> QED
    BY <1>6, <2>1 DEF Commit, Types, KeysBounded, OnTheWay, Starting, Holds
<1>7. CASE CommitFails
  <2>1. Types'
    BY <1>7 DEF CommitFails, settings, Types, KeysBounded, OnTheWay, Starting
  <2>2. KeysBounded'
    BY <1>7 DEF CommitFails, settings, Types, KeysBounded, Starting
  <2>3. OnTheWay'
    BY <1>7 DEF CommitFails, settings, OnTheWay, Holds
  <2> QED
    BY <2>1, <2>2, <2>3
<1> QED
    BY <1>1, <1>2, <1>3, <1>4, <1>5, <1>6, <1>7 DEF Core0

(* The inductive invariant of saving and restarting. *)
THEOREM Inductive == Spec => []IInv
<1>1. IInv /\ [Next]_vars => IInv'
  <2> SUFFICES ASSUME IInv, [Next]_vars PROVE IInv'
    OBVIOUS
  <2>1. CASE UNCHANGED vars
    BY <2>1 DEF vars, IInv, Types, KeysBounded, OnTheWay, Starting
  <2> QED
    BY <2>1, SetUpStep, OutsideSave, Core0Step DEF Next
<1> QED
    BY InitIInv, <1>1, PTL DEF Spec

-----------------------------------------------------------------------------
(* The maps are complete sets of settings, and each start has added the wired
   keys at most once. *)
THEOREM TypeCorrect == Spec => []TypeOK
<1>1. IInv => TypeOK
    BY MoreKeys DEF IInv, Types, KeysBounded, Bounded, TypeOK
<1> QED
    BY <1>1, Inductive, PTL

(* Once a request is served, what was set when "save" was pressed is in flash,
   however the cores interleave. *)
THEOREM Served == Spec => []RequestsServed
<1>1. IInv => RequestsServed
    BY DEF IInv, OnTheWay, RequestsServed, Saved, Holds
<1> QED
    BY <1>1, Inductive, PTL

(* Whatever fails and whenever it restarts, the firmware comes back with the
   settings saved last, or with the defaults if these cannot be read. *)
THEOREM Durable == Spec => ImplementsStore
<1>1. Init => Store!Init
    BY DEF Init, Store!Init, Stored, Starting
<1>2. IInv /\ IInv' /\ [Next]_vars => [Store!Next]_(Store!vars)
  <2> SUFFICES ASSUME IInv, IInv', [Next]_vars PROVE Store!Next \/ UNCHANGED Store!vars
    OBVIOUS
  <2> USE DEF Stored, Starting
  <2>1. CASE UNCHANGED vars
    BY <2>1 DEF vars, Store!vars
  <2>2. CASE Read
    BY <2>2, NoneAssumption DEF Read, Readable, Store!vars
  <2>3. CASE Format
    BY <2>3 DEF Format, IInv, Types, Store!Next, Store!GiveUp, Store!vars
  <2>4. CASE SaveDefaults
    BY <2>4 DEF SaveDefaults, IInv, Types, Store!vars
  <2>5. CASE Load \/ Change \/ Press \/ Apply \/ Copy \/ Assign \/ Clear \/ Lock \/ CommitFails
    BY <2>5 DEF Load, Change, Press, Apply, Copy, Assign, Clear, Lock, CommitFails, PagesRun,
       settings, Store!vars
  <2>6. CASE Write
    BY <2>6 DEF Write, IInv, KeysBounded, Bounded, Store!Next, Store!Update
  <2>7. CASE Commit
    <3>1. runtime # None
      BY NoneAssumption DEF IInv, KeysBounded, Bounded
    <3> QED
      BY <2>7, <3>1 DEF Commit, Store!Next, Store!Save
  <2>8. CASE Restart
    BY <2>8 DEF Restart, Store!Next, Store!Restart, Store!vars
  <2> QED
    BY <2>1, <2>2, <2>3, <2>4, <2>5, <2>6, <2>7, <2>8 DEF Next, SetUp, Core0
<1> QED
    BY <1>1, <1>2, Inductive, PTL DEF Spec, ImplementsStore, Store!Spec
=============================================================================

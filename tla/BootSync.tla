------------------------------ MODULE BootSync ------------------------------
(***************************************************************************)
(* How the two cores start.  Core 0 sets up the basic layer, launches core *)
(* 1, and both set up their hardware and protocols, each step behind flags *)
(* of init_sync; core 0 then sets up the services, for which core 1 waits. *)
(* The flags are bit-fields of one word, so a core sets one of them by     *)
(* loading the word and storing it.  The waits end at a timeout, whose     *)
(* error handler never returns; the watchdog restarts the device unless    *)
(* either core feeds it.                                                   *)
(***************************************************************************)
EXTENDS Naturals

CONSTANTS
  HalWait, ProtocolWait, ServiceWait,   \* the timeouts, 5, 30 and 5 s
  Limit,                                \* WATCHDOG_TIMEOUT_MS, 5 s
  MaxWork                               \* bound: seconds that one layer takes

ASSUME TimesAssumption ==
  {HalWait, ProtocolWait, ServiceWait, Limit, MaxWork} \subseteq Nat

Core    == {0, 1}
Hal     == {<<"hal", 0>>, <<"hal", 1>>}
Protocol == {<<"protocol", 0>>, <<"protocol", 1>>}
Service == <<"service", 0>>
Failed  == <<"failed", 1>>
Flag    == Hal \cup Protocol \cup {Service, Failed}

VARIABLES
  word,      \* init_sync, the flags that are set
  reg,       \* the word as a core has loaded it to set a flag
  pc,        \* where each core is
  age,       \* seconds it has been there, as far as it matters
  unfed,     \* seconds since the watchdog was fed
  done,      \* history: what was really reached since the restart
  lost,      \* history: a store has undone a flag of the other core
  broken     \* history: an initialisation failed or a loop hung

vars    == <<word, reg, pc, age, unfed, done, lost, broken>>
flags   == <<word, reg, done, lost>>

Working == {"basic", "hal", "protocol", "service"}
Waiting == {"waitHal", "waitProtocol", "waitService"}
Halted  == {"error", "hung"}
Label(c) ==
  Halted \cup {"hal", "setHal", "waitHal", "protocol", "setProtocol", "run"} \cup
    IF c = 0 THEN {"basic", "reboot", "check", "waitProtocol", "service", "setService"}
             ELSE {"off", "waitService", "setFailed"}

Start == [c \in Core |-> IF c = 0 THEN "basic" ELSE "off"]
Zero  == [c \in Core |-> 0]

Init ==
  /\ word = {} /\ reg = [c \in Core |-> {}] /\ pc = Start /\ age = Zero /\ unfed = 0
  /\ done = {} /\ lost = FALSE /\ broken = FALSE

-----------------------------------------------------------------------------
Goto(c, label) == pc' = [pc EXCEPT ![c] = label] /\ age' = [age EXCEPT ![c] = 0]

\* the two halves of init_sync.x = 1
Load(c, flag, label) ==
  /\ reg' = [reg EXCEPT ![c] = word] /\ done' = done \cup {flag} /\ Goto(c, label)
  /\ UNCHANGED <<word, lost, unfed, broken>>

Store(c, flag, label) ==
  /\ word' = reg[c] \cup {flag} /\ lost' = (lost \/ ~ (word \subseteq word')) /\ Goto(c, label)
  /\ UNCHANGED <<reg, done, unfed, broken>>

Continue(c, label) == Goto(c, label) /\ UNCHANGED <<flags, unfed, broken>>

(* setup: the watchdog is enabled again when core 1 is launched. *)
Launch ==
  /\ pc[0] = "basic" /\ pc' = [c \in Core |-> "hal"] /\ age' = Zero /\ unfed' = 0
  /\ UNCHANGED <<flags, broken>>

(* core0_init_hal_layer, core1_init_hal_layer. *)
HalDone(c) == pc[c] = "hal" /\ Load(c, <<"hal", c>>, "setHal")
SetHal(c)  == pc[c] = "setHal" /\ Store(c, <<"hal", c>>, "waitHal")

(* wait_for_both_hal and the protocol layers. *)
HalReadyEarly(c) ==         \* mutant: waits for the protocols
  pc[c] = "waitHal" /\ Protocol \subseteq word /\ Continue(c, "protocol")

HalReady(c) == pc[c] = "waitHal" /\ Hal \subseteq word /\ Continue(c, "protocol")

HalTimeout(c) ==
  /\ pc[c] = "waitHal" /\ ~ (Hal \subseteq word) /\ age[c] >= HalWait
  /\ Continue(c, "error")

ProtocolDone(c) == pc[c] = "protocol" /\ Load(c, <<"protocol", c>>, "setProtocol")
SetProtocol(c) ==
  /\ pc[c] = "setProtocol"
  /\ Store(c, <<"protocol", c>>, IF c = 0 THEN "check" ELSE "waitService")

(* Core 0: is_core1_failed, init_service_layer. *)
CheckStraight ==            \* mutant: goes on without waiting for the protocols
  /\ pc[0] = "check"
  /\ Continue(0, IF Failed \in word THEN "error" ELSE "service")

Check ==
  /\ pc[0] = "check"
  /\ Continue(0, IF Failed \in word THEN "error" ELSE "waitProtocol")

ProtocolReady == pc[0] = "waitProtocol" /\ Protocol \subseteq word /\ Continue(0, "service")

ProtocolTimeout ==
  /\ pc[0] = "waitProtocol" /\ ~ (Protocol \subseteq word) /\ age[0] >= ProtocolWait
  /\ Continue(0, "error")

ServiceDone == pc[0] = "service" /\ Load(0, Service, "setService")
SetService  == pc[0] = "setService" /\ Store(0, Service, "run")

(* Core 1: the wait for the services. *)
ServiceReady == pc[1] = "waitService" /\ Service \in word /\ Continue(1, "run")

ServiceTimeout ==
  /\ pc[1] = "waitService" /\ Service \notin word /\ age[1] >= ServiceWait
  /\ Load(1, Failed, "setFailed")

SetFailed == pc[1] = "setFailed" /\ Store(1, Failed, "error")

-----------------------------------------------------------------------------
(* Failures, time and the watchdog. *)

\* error_handler.  The basic layer reboots when USB fails; before there is a UIManager
\* the handler calls a null object, which hangs the core or does not
Fail(c) ==
  /\ pc[c] \in Working /\ broken' = TRUE
  /\ \E label \in IF pc[c] = "basic" THEN {"reboot", "error", "hung"} ELSE {"error"} :
       Goto(c, label)
  /\ UNCHANGED <<flags, unfed>>

Hang(c) ==
  /\ pc[c] = "run" /\ broken' = TRUE /\ Goto(c, "hung")
  /\ UNCHANGED <<flags, unfed>>

\* the watchdog, and watchdog_reboot
Restart ==
  /\ unfed = Limit \/ pc[0] = "reboot"
  /\ word' = {} /\ reg' = [c \in Core |-> {}] /\ pc' = Start /\ age' = Zero /\ unfed' = 0
  /\ done' = {} /\ lost' = FALSE /\ broken' = FALSE

\* the loops that call watchdog_feed
FeedsAlways(c) == pc[c] \in {"waitService", "run", "error", "hung"}   \* mutant: by a timer
Feeds(c) == pc[c] \in {"waitService", "run", "error"}

\* a core that may wait or work for a second more
Lasts(c) ==
  CASE pc[c] \in Working       -> age[c] < MaxWork
    [] pc[c] = "waitHal"       -> ~ (Hal \subseteq word) /\ age[c] < HalWait
    [] pc[c] = "waitProtocol"  -> ~ (Protocol \subseteq word) /\ age[c] < ProtocolWait
    [] pc[c] = "waitService"   -> Service \notin word /\ age[c] < ServiceWait
    [] OTHER                   -> pc[c] \in {"off", "run", "error", "hung"}

Tick ==
  /\ unfed < Limit /\ \A c \in Core : Lasts(c)
  /\ age' = [c \in Core |-> IF pc[c] \in Working \cup Waiting THEN age[c] + 1 ELSE 0]
  /\ unfed' = IF \E c \in Core : Feeds(c) THEN 0 ELSE unfed + 1
  /\ UNCHANGED <<flags, pc, broken>>

-----------------------------------------------------------------------------
Either(c) == HalDone(c) \/ SetHal(c) \/ HalReady(c) \/ HalTimeout(c) \/ ProtocolDone(c) \/ SetProtocol(c)
Core0 == Launch \/ Check \/ ProtocolReady \/ ProtocolTimeout \/ ServiceDone \/ SetService
Core1 == ServiceReady \/ ServiceTimeout \/ SetFailed

Next ==
  \/ Core0 \/ Core1 \/ Restart \/ Tick
  \/ \E c \in Core : Either(c) \/ Fail(c) \/ Hang(c)

Spec == Init /\ [][Next]_vars

\* the cores run, time passes, and the watchdog acts when it is due
FairSpec ==
  /\ Spec /\ WF_vars(Tick) /\ WF_vars(Restart)
  /\ WF_vars(Core0 \/ Either(0)) /\ WF_vars(Core1 \/ Either(1))

-----------------------------------------------------------------------------
\* The flags are flags, each core is somewhere in its own program, and core 1 is
\* not launched before the basic layer is there.
TypeOK ==
  /\ word \subseteq Flag /\ reg \in [Core -> SUBSET Flag] /\ done \subseteq Flag
  /\ pc \in [Core -> Label(0) \cup Label(1)] /\ age \in [Core -> Nat] /\ unfed \in 0..Limit
  /\ pc[0] \in Label(0) /\ pc[1] \in Label(1)
  /\ lost \in BOOLEAN /\ broken \in BOOLEAN
  /\ pc[0] = "basic" => pc[1] = "off"
  /\ pc[1] = "off" => pc[0] \in Halted \cup {"basic", "reboot"}

\* init_service_layer and core1_task, whose objects the other core has made: core 0
\* sets up the services only when both cores have set up their protocols, core 1
\* enters its loop only when the services are there, however the stores of the
\* flags undo each other.
ServicesInOrder ==
  /\ pc[0] \in {"service", "setService", "run"} => Protocol \subseteq done
  /\ pc[1] = "run" => Service \in done

\* setup and core1_main: both cores come to their loops, unless an initialisation
\* fails, a flag is lost or core 1 gives up waiting for slow services.
Starts ==
  []<>((\A c \in Core : pc[c] = "run") \/ lost \/ broken \/ Failed \in done)

\* watchdog_feed: when no core is alive, the device starts again.
WatchdogBites == (\A c \in Core : pc[c] \in {"hung", "off"}) ~> pc[0] = "basic"
=============================================================================

---------------------------- MODULE SensorStart ----------------------------
(***************************************************************************)
(* How the touch sensors are found and put into the sampling stages, up to *)
(* the sampling itself. HAL_I2C::init frees each bus from a module that    *)
(* the last run left in the middle of a byte. AutoRegisterTouchSensor      *)
(* scans bus 0, then bus 1: each address that answers is identified by its *)
(* range, its driver created and initialised, and kept if that succeeded;  *)
(* the sensors are registered with InputManager in that order; start()     *)
(* gives each the first free stage of the bus in its mask. Then the loop   *)
(* of core 0 begins.                                                       *)
(***************************************************************************)
EXTENDS SamplingStages, FiniteSets, Functions

CONSTANTS
  Installations,  \* sets of sensors that may be soldered to the two buses
  WiredTo,        \* the bus of each sensor
  Address,        \* its 7-bit address
  MaxSensors      \* scanAndRegisterAll's limit, and the size of the mapping table: 8

Mask(b, address) == 128 * b + address     \* generateModuleMask
BusInMask(m)     == m \div 128            \* extractI2CBusFromMask

\* identifyICType, over kTouchAddressRules; the GTX312L's rule is in 8-bit form
\* and no 7-bit address meets it
IdentifyICType(address) ==
  CASE address \in 8..14    -> "psoc"
    [] address \in 176..182 -> "gtx312l"
    [] address \in 44..47   -> "ad7147"
    [] OTHER                -> "unknown"

ASSUME WiringAssumption ==
  /\ WiredTo \in [Device -> Bus] /\ Address \in [Device -> 8..119]
  /\ \A d, e \in Device : WiredTo[d] = WiredTo[e] /\ Address[d] = Address[e] => d = e
  /\ \A d \in Device : IdentifyICType(Address[d]) \in {Kind[d], "unknown"}
\* a fifth sensor of a bus would find no stage, and no frame would ever be complete
ASSUME InstallationAssumption ==
  /\ MaxSensors \in Nat \ {0}
  /\ \A wired \in Installations :
       /\ wired \subseteq Device
       /\ \A b \in Bus : Cardinality({d \in wired : WiredTo[d] = b}) <= Stages

VARIABLES
  sending,       \* bits a module still holds its bus low for, after a restart in a transfer
  phase,         \* where setup() is; "run" once core 0's loop has begun
  wired,         \* the sensors there are
  answering,     \* addresses of the bus being scanned that are still to be identified
  found,         \* registered_sensors_ of TouchSensorManager
  devices        \* touch_sensor_devices_ and the mapping table of InputManager

startVars == <<sending, phase, wired, answering, found, devices>>
allVars   == <<vars, startVars>>

ModuleMask(d) == Mask(WiredTo[d], Address[d])

StartInit ==
  /\ AtRest /\ instances = [b \in Bus |-> [s \in 0..(Stages - 1) |-> None]]
  /\ phase = <<"unlock", 0>> /\ answering = <<>> /\ found = <<>> /\ devices = <<>>
  /\ wired \in Installations
  /\ sending \in [Bus -> {0, 1, 9}]

-----------------------------------------------------------------------------
\* unlock_bus: clocks until the data line is high, at most 18 times; the STOP it
\* then sends ends what is left of a byte on a free line
Unlocked(bits) == IF bits > 18 THEN bits - 18 ELSE 0

\* HAL_I2C::init, for each bus
UnlockBus(b) ==
  /\ phase = <<"unlock", b>>
  /\ phase' = IF b = 0 THEN <<"unlock", 1>> ELSE <<"scan", 0>>
  /\ sending' = [sending EXCEPT ![b] = Unlocked(@)]
  /\ UNCHANGED <<vars, wired, answering, found, devices>>

\* scan_devices: the addresses from 0x08 to 0x77 that acknowledge a read, in order
ByAddress(there) ==
  {s \in [1..Cardinality(there) -> there] :
     \A i, j \in DOMAIN s : i < j => Address[s[i]] < Address[s[j]]}

ScanDevices(b) ==
  /\ phase = <<"scan", b>> /\ phase' = <<"identify", b>>
  /\ \E there \in SUBSET {d \in wired : WiredTo[d] = b /\ sending[b] = 0} :
       answering' \in ByAddress(there)
  /\ UNCHANGED <<vars, sending, wired, found, devices>>

\* the drivers' init: an AD7147 must give an id that is not 0 and take its stages'
\* configuration, a GTX312L its id and its settings, a PSoC its control word, its
\* scan rate and its control word again
InitAd7147(idRead, id, stagesWritten) == idRead /\ id # 0 /\ stagesWritten
InitGtx312l(idRead, settingsWritten)  == idRead /\ settingsWritten
InitPsoc(reset, rateRead, configured) == reset /\ rateRead /\ configured

\* createSensor: the driver of the type, if its init succeeds
CreateSensor(type, created) ==
  \E x, y, z \in BOOLEAN :
    created = CASE type = "ad7147"  -> InitAd7147(x, IF y THEN 1 ELSE 0, z)
                [] type = "gtx312l" -> InitGtx312l(x, y)
                [] type = "psoc"    -> InitPsoc(x, y, z)

\* scanDevices, per address
Identify(b) ==
  /\ phase = <<"identify", b>> /\ answering # <<>>
  /\ LET d    == Head(answering)
         type == IdentifyICType(Address[d])
     IN  IF Len(found) >= MaxSensors
         THEN answering' = <<>> /\ UNCHANGED found
         ELSE /\ answering' = Tail(answering)
              /\ \/ type = "unknown" /\ UNCHANGED found
                 \/ type # "unknown" /\ CreateSensor(type, FALSE) /\ UNCHANGED found
                 \/ type # "unknown" /\ CreateSensor(type, TRUE) /\ found' = Append(found, d)
  /\ UNCHANGED <<vars, sending, phase, wired, devices>>

\* scanAndRegisterAll: bus 1 after bus 0, if there is room
BusScanned(b) ==
  /\ phase = <<"identify", b>> /\ answering = <<>>
  /\ phase' = IF b = 0 /\ Len(found) < MaxSensors THEN <<"scan", 1>> ELSE <<"register", 0>>
  /\ UNCHANGED <<vars, sending, wired, answering, found, devices>>

-----------------------------------------------------------------------------
\* AutoRegisterTouchSensor and registerTouchSensor, for the next sensor; a mask that
\* is in the table already is only marked as connected
Register ==
  /\ phase = <<"register", 0>> /\ found # <<>>
  /\ LET d == Head(found)
         known == \E e \in Range(devices) : ModuleMask(e) = ModuleMask(d)
     IN  devices' = IF Len(devices) >= MaxSensors \/ ModuleMask(d) = 0 \/ known THEN devices
                    ELSE Append(devices, d)
  /\ found' = Tail(found)
  /\ UNCHANGED <<vars, sending, phase, wired, answering>>

\* registerDeviceToStage: the stage of the bus in the mask
RegisterDeviceToStage(stages, s, d) == [stages EXCEPT ![BusInMask(ModuleMask(d))][s] = d]

\* the first free stage of the bus; no assignment of a stage is ever saved
AssignAtPosition(stages, d) ==   \* mutant: a stage by position in the list, free or not
  RegisterDeviceToStage(stages, (Len(devices) - 1) % Stages, d)

Assign(stages, d) ==
  LET free == {s \in 0..(Stages - 1) : stages[BusInMask(ModuleMask(d))][s] = None}
  IN  IF free = {} THEN stages
      ELSE RegisterDeviceToStage(stages, CHOOSE s \in free : \A t \in free : s <= t, d)

\* start(), once the sensors are registered: the loop over them
StartSampling ==
  /\ phase = <<"register", 0>> /\ found = <<>> /\ phase' = <<"start", 0>>
  /\ UNCHANGED <<vars, sending, wired, answering, found, devices>>

StageDevice ==
  /\ phase[1] = "start"
  /\ IF phase[2] < Len(devices)
       THEN /\ instances' = Assign(instances, devices[phase[2] + 1])
            /\ phase' = <<"start", phase[2] + 1>>
       ELSE phase' = <<"run", 0>> /\ UNCHANGED instances
  /\ UNCHANGED <<current, locked, frameVars, halVars, loopVars, statics, ui>>
  /\ UNCHANGED <<sending, wired, answering, found, devices>>

-----------------------------------------------------------------------------
SetUp ==
  \/ Register \/ StartSampling \/ StageDevice
  \/ \E b \in Bus : UnlockBus(b) \/ ScanDevices(b) \/ Identify(b) \/ BusScanned(b)

Running == phase = <<"run", 0>>
StartNext == SetUp \/ (Running /\ Next /\ UNCHANGED startVars)

StartSpec ==
  /\ StartInit /\ [][StartNext]_allVars /\ WF_allVars(SetUp)
  /\ \A b \in Bus :
       LET Run(A) == Running /\ A /\ UNCHANGED startVars IN
       /\ WF_allVars(Run(Task0(b)))
       /\ WF_allVars(Run(UiMask(b) \/ UiFlag(b) \/ UiTransfer(b)))
       /\ SF_allVars(Run(Irq(b, TRUE))) /\ SF_allVars(Run(Ready(b, TRUE)))
       /\ SF_allVars(Run(ReadPsoc(b, TRUE)))

-----------------------------------------------------------------------------
\* scanAndRegisterAll, registerTouchSensor and start(): the loop begins with every
\* registered sensor in exactly one stage, of the bus it is soldered to, and with no
\* other sensor; so the bitmap of answers it waits for can be reached.
StagedOnce ==
  Running =>
    /\ Registered = Range(devices)
    /\ \A d \in Registered : \E s \in 0..(Stages - 1) :
         {p \in Bus \X (0..(Stages - 1)) : instances[p[1]][p[2]] = d} = {<<WiredTo[d], s>>}
=============================================================================

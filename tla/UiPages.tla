------------------------------ MODULE UiPages ------------------------------
(***************************************************************************)
(* The pages of the settings display: which lines each shows for what it   *)
(* finds in the managers, and what its buttons and selectors do to that.   *)
(* A line is what the navigation tells apart: its kind, the page it jumps  *)
(* to or the callback or setting it carries, and its jump_str.             *)
(*                                                                         *)
(* An environment holds what the pages read: the managers' state and the   *)
(* static members of the pages themselves.  Constants are what does not    *)
(* change while the program runs.                                          *)
(***************************************************************************)
EXTENDS Naturals, Sequences, FiniteSets

CONSTANTS
  Serial,        \* getWorkMode() = SERIAL_MODE
  Calibratable,  \* hasCalibratableSensors()
  Devices,       \* get_device_count(), numbered 1..Devices
  Ad7147,        \* the connected devices of that type, the first ones
  Connected,     \* the other connected devices
  Channels,      \* the enabled channels of a device
  Zones,         \* 5, the area groups A to E
  ZoneAreas,     \* the areas of a group
  Registers,     \* 8, the values of a stage the AD7147 page adjusts
  Adjustable,    \* whether the bound sensors have a sensitivity of their own
  Saved          \* what earlier sessions may have saved of the settings

ASSUME PagesAssumption ==
  /\ Serial \in BOOLEAN /\ Calibratable \in BOOLEAN /\ Adjustable \in BOOLEAN
  /\ Devices \in Nat /\ Ad7147 \in 0..Devices /\ Connected \subseteq (Ad7147 + 1)..Devices
  /\ Channels \in Nat /\ Zones \in Nat \ {0} /\ ZoneAreas \in Nat \ {0} /\ Registers \in Nat

Areas == Zones * ZoneAreas
Area == 1..Areas
Device == 1..Devices

\* getZoneIndex: the places in a group that a set of areas fills, and the groups it reaches
AreaOf(z, i) == z * ZoneAreas + i
Places(z, areas) == {i \in 1..ZoneAreas : AreaOf(z, i) \in areas}
ZonesOf(areas) == {z \in 0..(Zones - 1) : Places(z, areas) # {}}

Page == {"main", "main_menu", "touch_settings_main", "touch_status", "zone_sensitivity",
         "area_sensitivity", "area_sensitivity_zone", "area_sensitivity_detail",
         "sensitivity_main", "sensitivity_device", "ad7147_custom_settings",
         "binding_settings", "binding_info", "general_settings", "communication_settings",
         "__error__", "__int_setting__"}

Environment ==
  [sampling : BOOLEAN,    \* getTouchSampleRate() is not 0
   calib : {"no", "running", "done"},
                          \* calibration_in_progress_; "done": the sensors have
                          \* finished and the flag still says otherwise
   binding : BOOLEAN,     \* getBindingState() is not IDLE
   bound : SUBSET Area,   \* the areas that have a channel
   zoneKnown : {"never", "no", "yes"},
                          \* s_zone_info_: not read yet, read as incomplete, complete
   areaKnown : SUBSET Area,
                          \* s_zone_infos_: bound, when "area_sensitivity" was drawn
   delay : 0..1, onlyChange : BOOLEAN, limit : BOOLEAN,
                          \* getTouchResponseDelay() > 0, getSendOnlyOnChange(),
                          \* getRateLimitEnabled()
   offset : BOOLEAN,      \* isAutoOffsetCalibrationActive()
   device : 0..Devices,   \* device_name_ of the two device pages, 0 for ""
   zone : 0..(Zones - 1), area : 1..Areas]
                          \* current_zone_index_, current_area_index_

\* what is saved: serial_mappings, and three of the settings of the protocol
Settings == [bound : SUBSET Area, delay : 0..1, onlyChange : BOOLEAN, limit : BOOLEAN]

ASSUME SavedAssumption == Saved \subseteq Settings

InitialEnvironment(s) ==
  [sampling |-> FALSE, calib |-> "no", binding |-> FALSE, bound |-> s.bound,
   zoneKnown |-> "never", areaKnown |-> {}, delay |-> s.delay, onlyChange |-> s.onlyChange,
   limit |-> s.limit, offset |-> FALSE, device |-> 0, zone |-> 0, area |-> 1]

-----------------------------------------------------------------------------
(* LineConfig. *)
Line(kind, what, arg) == [kind |-> kind, what |-> what, arg |-> arg]

Text            == Line("text", "", 0)
Bar             == Line("bar", "", 0)
Back            == Line("back", "", 0)
Menu(to)        == Line("menu", to, 0)
JumpStr(to, arg) == Line("menu", to, arg)
Button(id)      == Line("button", id, 0)
Selector(id)    == Line("selector", id, 0)
Number(id, n)   == Line("int", id, n)
\* LineConfig(), and a line of empty text: never chosen, never drawn
Blank           == Line("blank", "", 0)

If(test, lines) == IF test THEN lines ELSE <<>>
Repeat(n, line(_)) == [i \in 1..n |-> line(i)]

\* a line for each number of a set, the smallest first
Listed(S, line(_)) ==
  Repeat(Cardinality(S), LAMBDA n : line(CHOOSE x \in S : Cardinality({y \in S : y < x}) = n - 1))

Interactive(line) == line.kind \in {"menu", "int", "button", "back", "selector"}

-----------------------------------------------------------------------------
(* The pages. *)
MainPage(e) == IF e.sampling THEN <<Text, Text, Menu("main_menu")>> ELSE <<Text, Text>>

MainMenu == <<Back, Menu("touch_settings_main"), Menu("binding_settings"),
              Menu("communication_settings"), Menu("general_settings"), Button("save")>>

CalibrationLines(e) ==
  CASE e.calib = "running" -> <<Text, Bar>>
    [] e.calib = "done"    -> <<Text>>
    [] OTHER -> <<Selector("target"), Button("calibrate"), Menu("zone_sensitivity")>>

TouchSettingsMain(e) ==
  <<Back, Menu("touch_status")>> \o If(Calibratable, CalibrationLines(e))
    \o If(Serial, <<Menu("area_sensitivity")>>) \o <<Menu("sensitivity_main")>>

TouchStatus == <<Back>> \o (IF Devices = 0 THEN <<Text>> ELSE Repeat(Devices, LAMBDA i : Text))

ZoneSensitivity(e) ==
  IF ~Serial THEN <<Back, Text>>
  ELSE IF e.zoneKnown # "yes" THEN <<Back, Text, Text>>
  ELSE <<Back, Text>> \o Repeat(Zones, LAMBDA i : Selector("zone")) \o <<Button("special")>>

\* the groups with an area that is bound
AreaSensitivity(e) ==
  LET zones == ZonesOf(e.areaKnown) IN
  IF zones # {}
  THEN <<Back, Text>> \o Listed(zones, LAMBDA z : JumpStr("area_sensitivity_zone", z))
  ELSE <<Back, Text, Text>>

\* the areas of the group that are bound
AreaSensitivityZone(e) ==
  <<Back, Text>> \o Listed(Places(e.zone, e.areaKnown),
                          LAMBDA i : JumpStr("area_sensitivity_detail", AreaOf(e.zone, i)))

SupportsSensitivity(e) == Serial /\ e.area \in e.bound /\ Adjustable

AreaSensitivityDetail(e) ==
  IF SupportsSensitivity(e) THEN <<Back, Text, Text, Number("area", e.area)>>
  ELSE <<Back, Text, Text, Text, Text, Text>>

\* getDevicePageInfo
DevicePage(d) == IF d <= Ad7147 THEN "ad7147_custom_settings" ELSE "sensitivity_device"

SensitivityMain ==
  <<Back>> \o (IF Devices = 0 THEN <<Text>>
               ELSE Repeat(Devices, LAMBDA d : JumpStr(DevicePage(d), d)))

\* get_device_mapping, with init_cached_values: a device that answers
Mapped(d) == d \in 1..Ad7147 \cup Connected

SensitivityDevice(e) ==
  IF Mapped(e.device)
  THEN <<Back, Text>> \o Repeat(Channels, LAMBDA i : Number("channel", i))
  ELSE <<Back, Text>>

Ad7147CustomSettings(e) ==
  IF e.device \in 1..Ad7147
  THEN <<Back, IF e.offset THEN Bar ELSE Button("offset"), Selector("stage"),
         Selector("neg_afe"), Button("neg_swap"), Selector("pos_afe"), Button("pos_swap")>>
         \o Repeat(Registers, LAMBDA i : Selector("threshold"))
  ELSE <<Back, Text>>

BindingSettings(e) ==
  IF ~Serial THEN <<Back, Text, Text>>
  ELSE IF e.binding THEN <<Back, Bar, Text, Button("stop_binding")>>
  ELSE <<Back, Text>> \o If(e.bound = Area, <<Text>>)
         \o <<Button("start_binding"), Menu("binding_info")>>

BindingInfo == <<Back>> \o (IF Serial THEN Repeat(Areas, LAMBDA i : Text) ELSE <<Text, Text>>)

GeneralSettings == <<Back, Number("timeout", 0), Text, Bar, Number("brightness", 0)>>

CommunicationSettings(e) ==
  <<Back, Selector("baud"), Selector("light_baud"), Selector("delay"), Button("keyboard")>>
    \o If(Serial, <<Button("only_change")>>
                    \o If(e.delay > 0, <<Selector("aggregation")>>)
                    \o If(e.onlyChange, <<Selector("extra")>>)
                    \o <<Text, Button("limit")>>
                    \o If(e.limit, <<Selector("frequency")>>))

ErrorPage == <<Blank, Text, Blank, Text>>
IntSettingPage == <<Blank, Text, Text, Text>>

\* get_page(name)->render
Lines(page, e) ==
  CASE page = "main"                    -> MainPage(e)
    [] page = "main_menu"               -> MainMenu
    [] page = "touch_settings_main"     -> TouchSettingsMain(e)
    [] page = "touch_status"            -> TouchStatus
    [] page = "zone_sensitivity"        -> ZoneSensitivity(e)
    [] page = "area_sensitivity"        -> AreaSensitivity(e)
    [] page = "area_sensitivity_zone"   -> AreaSensitivityZone(e)
    [] page = "area_sensitivity_detail" -> AreaSensitivityDetail(e)
    [] page = "sensitivity_main"        -> SensitivityMain
    [] page = "sensitivity_device"      -> SensitivityDevice(e)
    [] page = "ad7147_custom_settings"  -> Ad7147CustomSettings(e)
    [] page = "binding_settings"        -> BindingSettings(e)
    [] page = "binding_info"            -> BindingInfo
    [] page = "general_settings"        -> GeneralSettings
    [] page = "communication_settings"  -> CommunicationSettings(e)
    [] page = "__error__"               -> ErrorPage
    [] page = "__int_setting__"         -> IntSettingPage

-----------------------------------------------------------------------------
(* What rendering reads into the pages' own members before it lists lines,  *)
(* and leaves behind: getCalibrationProgress clears the flag at 255.        *)
\* getZoneBindingInfo
ZoneBindingInfo(e) == [e EXCEPT !.zoneKnown =
                        IF ZonesOf(e.bound) = 0..(Zones - 1) THEN "yes" ELSE "no"]

\* loadAreaData
AreaData(e) == [e EXCEPT !.areaKnown = e.bound]

Load(page, e) ==
  CASE page = "zone_sensitivity" /\ Serial /\ e.zoneKnown = "never" -> ZoneBindingInfo(e)
    [] page = "area_sensitivity" -> AreaData(e)
    [] OTHER -> e

Leave(page, e) ==
  IF page = "touch_settings_main" /\ Calibratable /\ e.calib = "done"
  THEN [e EXCEPT !.calib = "no"] ELSE e

\* jump_str
Jumped(to, id, e) ==
  CASE to \in {"sensitivity_device", "ad7147_custom_settings"} -> [e EXCEPT !.device = id]
    [] to = "area_sensitivity_zone"   -> [e EXCEPT !.zone = id]
    [] to = "area_sensitivity_detail" -> [e EXCEPT !.area = id]
    [] OTHER -> e

\* click_callback.  Core 0 takes a request in its next pass, long before the
\* 50 ms that the next press takes.
CalibrateClicked(e) == [e EXCEPT !.calib = IF e.calib = "no" THEN "running" ELSE e.calib]
BindingClicked(e)   == [e EXCEPT !.binding = TRUE, !.bound = {}]
LimitToggled(e)     == [e EXCEPT !.limit = ~e.limit]

Clicked(id, e) ==
  CASE id \in {"calibrate", "special"} -> CalibrateClicked(e)
    [] id = "start_binding" -> BindingClicked(e)
    [] id = "only_change"   -> [e EXCEPT !.onlyChange = ~e.onlyChange]
    [] id = "limit"         -> LimitToggled(e)
    [] id = "offset"        -> [e EXCEPT !.offset = TRUE]
    [] OTHER -> e   \* save, stop_binding, keyboard, the swaps: no line depends on them

\* selector_callback
Selected(id, up, e) ==
  IF id = "delay" THEN [e EXCEPT !.delay = IF up THEN 1 ELSE 0] ELSE e

\* incrementSampleCounter
Sampled(e) == [e EXCEPT !.sampling = TRUE]

(* What core 0 does meanwhile: the first second of samples is counted, and   *)
(* never again 0; a calibration or an offset adjustment ends; a binding        *)
(* session, which takes the areas one by one, ends after some of them.        *)
Meanwhile(e, f) ==
  \/ ~e.sampling /\ f = Sampled(e)
  \/ e.calib = "running" /\ f = [e EXCEPT !.calib = "done"]
  \/ e.calib = "done" /\ f = [e EXCEPT !.calib = "no"]
  \/ e.offset /\ f = [e EXCEPT !.offset = FALSE]
  \/ e.binding /\ \E n \in 0..Areas : f = [e EXCEPT !.binding = FALSE, !.bound = 1..n]
=============================================================================

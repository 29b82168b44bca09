-------------------------- MODULE UiManagerProofs --------------------------
(***************************************************************************)
(* The settings display, for any number of sensors, channels, groups and   *)
(* areas whose lines the scroll bar can count: the buttons walk in the tree *)
(* of pages, a lock stays on the selector it was set on, and a step of the *)
(* cursor takes the window along.                                          *)
(***************************************************************************)
EXTENDS UiManager, FiniteSetTheorems, SequenceTheorems, WellFoundedInduction, TLAPS

-----------------------------------------------------------------------------
LEMMA Screen == Visible \in Nat /\ Visible = 4
BY DEF Visible

(* What the lines of a page may be.                                          *)

SelectorPages == {"touch_settings_main", "zone_sensitivity", "ad7147_custom_settings",
                  "communication_settings"}

Allowed(p, x) ==
  /\ x.kind = "menu" => x.what \in Below[p]
  /\ x.kind = "int" => x.what \in Numbers[p]
  /\ x.kind = "selector" =>
       /\ p \in SelectorPages
       /\ x.what = "delay" => p = "communication_settings"

AllAllowed(p, l) == \E T : l \in Seq(T) /\ \A x \in T : Allowed(p, x)

LEMMA AllowedConcat ==
  ASSUME NEW p, NEW l, NEW m, AllAllowed(p, l), AllAllowed(p, m) PROVE AllAllowed(p, l \o m)
<1>1. PICK T : l \in Seq(T) /\ \A x \in T : Allowed(p, x)
  BY DEF AllAllowed
<1>2. PICK U : m \in Seq(U) /\ \A x \in U : Allowed(p, x)
  BY DEF AllAllowed
<1>3. l \in Seq(T \cup U) /\ m \in Seq(T \cup U)
  BY <1>1, <1>2, SeqMonotonic
<1>4. l \o m \in Seq(T \cup U)
  BY <1>3
<1>5. \A x \in T \cup U : Allowed(p, x)
  BY <1>1, <1>2
<1> HIDE DEF Allowed
<1> QED BY <1>4, <1>5 DEF AllAllowed

LEMMA AllowedOf ==
  ASSUME NEW p, NEW T, NEW l \in Seq(T), \A x \in T : Allowed(p, x) PROVE AllAllowed(p, l)
BY DEF AllAllowed

(* A line repeated.                                                          *)
LEMMA AllowedRepeat ==
  ASSUME NEW p, NEW n \in Nat, NEW f, f = [i \in 1..n |-> f[i]], \A i \in 1..n : Allowed(p, f[i])
  PROVE  AllAllowed(p, f)
<1> DEFINE T == {f[i] : i \in 1..n}
<1>1. f \in Seq(T)
  OBVIOUS
<1>2. \A x \in T : Allowed(p, x)
  OBVIOUS
<1> HIDE DEF T
<1> QED BY <1>1, <1>2, AllowedOf

(* The tables, page by page.                                                 *)
LEMMA Tables ==
  /\ Below["main"] = {"main_menu"}
  /\ Below["main_menu"] = {"touch_settings_main", "binding_settings", "communication_settings",
                           "general_settings"}
  /\ Below["touch_settings_main"] = {"touch_status", "zone_sensitivity", "area_sensitivity",
                                     "sensitivity_main"}
  /\ Below["area_sensitivity"] = {"area_sensitivity_zone"}
  /\ Below["area_sensitivity_zone"] = {"area_sensitivity_detail"}
  /\ Below["sensitivity_main"] = {"ad7147_custom_settings", "sensitivity_device"}
  /\ Below["binding_settings"] = {"binding_info"}
  /\ \A p \in Page \ {"main", "main_menu", "touch_settings_main", "area_sensitivity",
                      "area_sensitivity_zone", "sensitivity_main", "binding_settings"} : Below[p] = {}
  /\ Numbers["general_settings"] = {"timeout", "brightness"}
  /\ Numbers["area_sensitivity_detail"] = {"area"}
  /\ Numbers["sensitivity_device"] = {"channel"}
  /\ \A p \in Page \ {"general_settings", "area_sensitivity_detail", "sensitivity_device"} :
       Numbers[p] = {}
BY DEF Below, Numbers, Page

LEMMA PlainLines ==
  ASSUME NEW p
  PROVE  /\ Allowed(p, Text) /\ Allowed(p, Bar) /\ Allowed(p, Back) /\ Allowed(p, Blank)
         /\ \A id : Allowed(p, Button(id))
BY DEF Allowed, Text, Bar, Back, Blank, Button, Line

LEMMA MenuLines ==
  ASSUME NEW p, NEW to \in Below[p]
  PROVE  Allowed(p, Menu(to)) /\ \A arg : Allowed(p, JumpStr(to, arg))
BY DEF Allowed, Menu, JumpStr, Line

LEMMA NumberLines ==
  ASSUME NEW p, NEW id \in Numbers[p] PROVE \A n : Allowed(p, Number(id, n))
BY DEF Allowed, Number, Line

LEMMA SelectorLines ==
  ASSUME NEW p \in SelectorPages
  PROVE  \A id : (id = "delay" => p = "communication_settings") => Allowed(p, Selector(id))
BY DEF Allowed, Selector, Line, SelectorPages

LEMMA NoLines == ASSUME NEW p PROVE AllAllowed(p, <<>>)
<1> DEFINE T == {}
<1>1. <<>> \in Seq(T)
  OBVIOUS
<1>2. \A x \in T : Allowed(p, x)
  OBVIOUS
<1> HIDE DEF T
<1> QED BY <1>1, <1>2, AllowedOf

LEMMA MainPageLines == ASSUME NEW e PROVE AllAllowed("main", MainPage(e))
<1> DEFINE T == {Text, Menu("main_menu")}
<1>1. \A x \in T : Allowed("main", x)
  BY PlainLines, MenuLines, Tables
<1>2. MainPage(e) = <<Text, Text>> \/ MainPage(e) = <<Text, Text, Menu("main_menu")>>
  BY DEF MainPage
<1>3. <<Text, Text>> \in Seq(T) /\ <<Text, Text, Menu("main_menu")>> \in Seq(T)
  OBVIOUS
<1> HIDE DEF T
<1> QED BY <1>1, <1>2, <1>3, AllowedOf, ZenonT(30)

LEMMA TouchSettingsLines ==
  ASSUME NEW e PROVE AllAllowed("touch_settings_main", TouchSettingsMain(e))
<1> DEFINE p == "touch_settings_main"
           T == {Back, Text, Bar, Selector("target"), Button("calibrate"), Menu("touch_status"),
                 Menu("zone_sensitivity"), Menu("area_sensitivity"), Menu("sensitivity_main")}
           a == <<Back, Menu("touch_status")>>
           b == If(Calibratable, CalibrationLines(e))
           c == If(Serial, <<Menu("area_sensitivity")>>)
           d == <<Menu("sensitivity_main")>>
<1>1. \A x \in T : Allowed(p, x)
  <2>1. \A to \in {"touch_status", "zone_sensitivity", "area_sensitivity", "sensitivity_main"} :
          Allowed(p, Menu(to))
    BY MenuLines, Tables
  <2>2. p \in SelectorPages
    BY DEF SelectorPages
  <2> QED BY <2>1, <2>2, PlainLines, SelectorLines
<1>2. /\ b \in {<<>>, <<Text, Bar>>, <<Text>>,
                <<Selector("target"), Button("calibrate"), Menu("zone_sensitivity")>>}
      /\ c \in {<<>>, <<Menu("area_sensitivity")>>}
  BY DEF If, CalibrationLines
<1>3. a \in Seq(T) /\ d \in Seq(T)
  OBVIOUS
<1>4. /\ <<>> \in Seq(T) /\ <<Text, Bar>> \in Seq(T) /\ <<Text>> \in Seq(T)
      /\ <<Selector("target"), Button("calibrate"), Menu("zone_sensitivity")>> \in Seq(T)
      /\ <<Menu("area_sensitivity")>> \in Seq(T)
  OBVIOUS
<1>5. TouchSettingsMain(e) = ((a \o b) \o c) \o d
  BY DEF TouchSettingsMain
<1> HIDE DEF T, a, b, c, d
<1>6. b \in Seq(T) /\ c \in Seq(T)
  BY <1>2, <1>4
<1>7. TouchSettingsMain(e) \in Seq(T)
  BY <1>3, <1>5, <1>6, ConcatProperties
<1> QED BY <1>1, <1>7, AllowedOf

LEMMA ShortPages ==
  /\ AllAllowed("main_menu", MainMenu)
  /\ AllAllowed("general_settings", GeneralSettings)
  /\ AllAllowed("__error__", ErrorPage)
  /\ AllAllowed("__int_setting__", IntSettingPage)
<1>1. AllAllowed("main_menu", MainMenu)
  <2> DEFINE T == {Back, Button("save"), Menu("touch_settings_main"), Menu("binding_settings"),
                   Menu("communication_settings"), Menu("general_settings")}
  <2>1. \A x \in T : Allowed("main_menu", x)
    <3>1. \A to \in {"touch_settings_main", "binding_settings", "communication_settings",
                      "general_settings"} : Allowed("main_menu", Menu(to))
      BY MenuLines, Tables
    <3> QED BY <3>1, PlainLines
  <2>2. MainMenu \in Seq(T)
    BY DEF MainMenu
  <2> HIDE DEF T
  <2> QED BY <2>1, <2>2, AllowedOf
<1>2. AllAllowed("general_settings", GeneralSettings)
  <2> DEFINE T == {Back, Text, Bar, Number("timeout", 0), Number("brightness", 0)}
  <2>1. \A x \in T : Allowed("general_settings", x)
    BY PlainLines, NumberLines, Tables
  <2>2. GeneralSettings \in Seq(T)
    BY DEF GeneralSettings
  <2> HIDE DEF T
  <2> QED BY <2>1, <2>2, AllowedOf
<1>3. \A p : AllAllowed(p, ErrorPage) /\ AllAllowed(p, IntSettingPage)
  <2> DEFINE T == {Blank, Text}
  <2>1. \A p : \A x \in T : Allowed(p, x)
    BY PlainLines
  <2>2. ErrorPage \in Seq(T) /\ IntSettingPage \in Seq(T)
    BY DEF ErrorPage, IntSettingPage
  <2> HIDE DEF T
  <2> QED BY <2>1, <2>2, AllowedOf
<1> QED BY <1>1, <1>2, <1>3

(* Pages that list something of which there is any number.                   *)
LEMMA ListPages ==
  /\ AllAllowed("touch_status", TouchStatus)
  /\ AllAllowed("binding_info", BindingInfo)
  /\ AllAllowed("sensitivity_main", SensitivityMain)
<1>0. Devices \in Nat /\ Areas \in Nat /\ Zones \in Nat
  BY PagesAssumption DEF Areas
<1>1. ASSUME NEW p, NEW n \in Nat PROVE AllAllowed(p, Repeat(n, LAMBDA i : Text))
  <2> DEFINE r == Repeat(n, LAMBDA i : Text)
  <2>1. r = [i \in 1..n |-> Text]
    BY DEF Repeat
  <2> HIDE DEF r
  <2>2. r \in Seq({Text})
    BY <2>1
  <2>3. \A x \in {Text} : Allowed(p, x)
    BY PlainLines
  <2>4. AllAllowed(p, r)
    BY <2>2, <2>3 DEF AllAllowed
  <2> QED BY <2>4 DEF r
<1>2. ASSUME NEW p
      PROVE  /\ AllAllowed(p, <<Back>>) /\ AllAllowed(p, <<Text>>) /\ AllAllowed(p, <<Text, Text>>)
             /\ AllAllowed(p, <<Back, Text>>) /\ AllAllowed(p, <<Back, Text, Text>>)
  <2> DEFINE T == {Back, Text}
  <2>1. \A x \in T : Allowed(p, x)
    BY PlainLines
  <2>2. /\ <<Back>> \in Seq(T) /\ <<Text>> \in Seq(T) /\ <<Text, Text>> \in Seq(T)
        /\ <<Back, Text>> \in Seq(T) /\ <<Back, Text, Text>> \in Seq(T)
    OBVIOUS
  <2> HIDE DEF T
  <2> QED BY <2>1, <2>2, AllowedOf
<1>3. AllAllowed("touch_status", TouchStatus)
  BY <1>0, <1>1, <1>2, AllowedConcat DEF TouchStatus
<1>4. AllAllowed("binding_info", BindingInfo)
  BY <1>0, <1>1, <1>2, AllowedConcat DEF BindingInfo
<1>5. AllAllowed("sensitivity_main", SensitivityMain)
  <2> DEFINE r == Repeat(Devices, LAMBDA d : JumpStr(DevicePage(d), d))
  <2>1. r = [d \in 1..Devices |-> JumpStr(DevicePage(d), d)]
    BY DEF Repeat
  <2>2. \A d \in 1..Devices : Allowed("sensitivity_main", JumpStr(DevicePage(d), d))
    <3>1. \A d : DevicePage(d) \in Below["sensitivity_main"]
      BY Tables DEF DevicePage
    <3> QED BY <3>1, MenuLines
  <2>3. SensitivityMain = <<Back>> \o (IF Devices = 0 THEN <<Text>> ELSE r)
    BY DEF SensitivityMain
  <2> HIDE DEF r
  <2>4. AllAllowed("sensitivity_main", r)
    BY <1>0, <2>1, <2>2, AllowedRepeat
  <2> QED BY <1>2, <2>3, <2>4, AllowedConcat
<1> QED BY <1>3, <1>4, <1>5

(* The pages of the areas list some of the groups and some of a group.       *)
LEMMA Counted ==
  ASSUME NEW m \in Nat, NEW S, S \subseteq 0..(m - 1) \/ S \subseteq 1..m
  PROVE  Cardinality(S) \in 0..m /\ (S # {} => Cardinality(S) > 0)
<1>1. \A T \in {0..(m - 1), 1..m} : IsFiniteSet(T) /\ Cardinality(T) = m
  <2>1. IsFiniteSet(0..(m - 1)) /\ Cardinality(0..(m - 1)) = m
    <3>1. m = 0 => 0..(m - 1) = {}
      OBVIOUS
    <3>2. m # 0 => Cardinality(0..(m - 1)) = (m - 1) - 0 + 1
      BY FS_Interval
    <3>3. IsFiniteSet(0..(m - 1))
      BY FS_Interval
    <3> QED BY <3>1, <3>2, <3>3, FS_EmptySet
  <2>2. IsFiniteSet(1..m) /\ Cardinality(1..m) = m
    <3>1. m = 0 => 1..m = {}
      OBVIOUS
    <3>2. m # 0 => Cardinality(1..m) = m - 1 + 1
      BY FS_Interval
    <3>3. IsFiniteSet(1..m)
      BY FS_Interval
    <3> QED BY <3>1, <3>2, <3>3, FS_EmptySet
  <2> QED BY <2>1, <2>2
<1>2. IsFiniteSet(S) /\ Cardinality(S) <= m
  BY <1>1, FS_Subset
<1>3. Cardinality(S) \in Nat /\ (Cardinality(S) = 0 <=> S = {})
  BY <1>2, FS_CardinalityType, FS_EmptySet
<1> QED BY <1>2, <1>3

IsList(f, n, to) ==
  f = [i \in 1..n |-> f[i]] /\ \A i \in 1..n : \E arg : f[i] = JumpStr(to, arg)

LEMMA ZoneList ==
  ASSUME NEW e
  PROVE  \/ AreaSensitivity(e) = <<Back, Text, Text>>
         \/ \E n \in 1..Zones : \E f :
              IsList(f, n, "area_sensitivity_zone") /\ AreaSensitivity(e) = <<Back, Text>> \o f
<1> DEFINE S == ZonesOf(e.areaKnown)
           n == Cardinality(S)
           arg(i) == CHOOSE x \in S : Cardinality({y \in S : y < x}) = i - 1
           f == [i \in 1..n |-> JumpStr("area_sensitivity_zone", arg(i))]
<1>1. AreaSensitivity(e) = IF S # {} THEN <<Back, Text>> \o f ELSE <<Back, Text, Text>>
  BY DEF AreaSensitivity, Listed, Repeat
<1>2. Zones \in Nat /\ S \subseteq 0..(Zones - 1)
  BY PagesAssumption DEF ZonesOf
<1> HIDE DEF S, arg
<1>3. S # {} => n \in 1..Zones
  <2>1. n \in 0..Zones /\ (S # {} => n > 0)
    BY <1>2, Counted
  <2> HIDE DEF n
  <2> QED BY <1>2, <2>1
<1>4. IsList(f, n, "area_sensitivity_zone")
  BY DEF IsList
<1> HIDE DEF n, f
<1> QED BY <1>1, <1>3, <1>4

LEMMA AreaList ==
  ASSUME NEW e
  PROVE  \E n \in 0..ZoneAreas : \E f :
           IsList(f, n, "area_sensitivity_detail") /\ AreaSensitivityZone(e) = <<Back, Text>> \o f
<1> DEFINE S == Places(e.zone, e.areaKnown)
           n == Cardinality(S)
           arg(i) == AreaOf(e.zone, CHOOSE x \in S : Cardinality({y \in S : y < x}) = i - 1)
           f == [i \in 1..n |-> JumpStr("area_sensitivity_detail", arg(i))]
<1>1. AreaSensitivityZone(e) = <<Back, Text>> \o f
  BY DEF AreaSensitivityZone, Listed, Repeat
<1>2. ZoneAreas \in Nat /\ S \subseteq 1..ZoneAreas
  BY PagesAssumption DEF Places
<1> HIDE DEF S, arg
<1>3. n \in 0..ZoneAreas
  BY <1>2, Counted
<1>4. IsList(f, n, "area_sensitivity_detail")
  BY DEF IsList
<1> HIDE DEF n, f
<1> QED BY <1>1, <1>3, <1>4

LEMMA AreaPages ==
  ASSUME NEW e
  PROVE  /\ AllAllowed("area_sensitivity", AreaSensitivity(e))
         /\ AllAllowed("area_sensitivity_zone", AreaSensitivityZone(e))
         /\ AllAllowed("area_sensitivity_detail", AreaSensitivityDetail(e))
<1>0. ZoneAreas \in Nat /\ Zones \in Nat
  BY PagesAssumption
<1>1. ASSUME NEW p
      PROVE  /\ AllAllowed(p, <<Back, Text>>) /\ AllAllowed(p, <<Back, Text, Text>>)
             /\ AllAllowed(p, <<Back, Text, Text, Text, Text, Text>>)
  <2> DEFINE T == {Back, Text}
  <2>1. \A x \in T : Allowed(p, x)
    BY PlainLines
  <2>2. /\ <<Back, Text>> \in Seq(T) /\ <<Back, Text, Text>> \in Seq(T)
        /\ <<Back, Text, Text, Text, Text, Text>> \in Seq(T)
    OBVIOUS
  <2> HIDE DEF T
  <2> QED BY <2>1, <2>2, AllowedOf
<1>2. AllAllowed("area_sensitivity", AreaSensitivity(e))
  <2>1. CASE AreaSensitivity(e) = <<Back, Text, Text>>
    BY <1>1, <2>1
  <2>2. ASSUME NEW n \in 1..Zones, NEW f, IsList(f, n, "area_sensitivity_zone"),
               AreaSensitivity(e) = <<Back, Text>> \o f
        PROVE  AllAllowed("area_sensitivity", AreaSensitivity(e))
    <3>1. \A arg : Allowed("area_sensitivity", JumpStr("area_sensitivity_zone", arg))
      BY Tables, MenuLines
    <3>2. n \in Nat /\ f = [i \in 1..n |-> f[i]] /\ \A i \in 1..n : Allowed("area_sensitivity", f[i])
      BY <1>0, <2>2, <3>1 DEF IsList
    <3>3. AllAllowed("area_sensitivity", f)
      BY <3>2, AllowedRepeat
    <3> QED BY <1>1, <2>2, <3>3, AllowedConcat
  <2> QED BY <2>1, <2>2, ZoneList
<1>3. AllAllowed("area_sensitivity_zone", AreaSensitivityZone(e))
  <2>1. PICK n \in 0..ZoneAreas : \E f :
          IsList(f, n, "area_sensitivity_detail") /\ AreaSensitivityZone(e) = <<Back, Text>> \o f
    BY AreaList
  <2>2. PICK f : IsList(f, n, "area_sensitivity_detail")
                   /\ AreaSensitivityZone(e) = <<Back, Text>> \o f
    BY <2>1
  <2>3. \A arg : Allowed("area_sensitivity_zone", JumpStr("area_sensitivity_detail", arg))
    BY Tables, MenuLines
  <2>4. n \in Nat /\ f = [i \in 1..n |-> f[i]] /\ \A i \in 1..n : Allowed("area_sensitivity_zone", f[i])
    BY <1>0, <2>2, <2>3 DEF IsList
  <2>5. AllAllowed("area_sensitivity_zone", f)
    BY <2>4, AllowedRepeat
  <2> QED BY <1>1, <2>2, <2>5, AllowedConcat
<1>4. AllAllowed("area_sensitivity_detail", AreaSensitivityDetail(e))
  <2> DEFINE n == Number("area", e.area)
             T == {Back, Text, n}
  <2>1. \A x \in T : Allowed("area_sensitivity_detail", x)
    <3>1. Allowed("area_sensitivity_detail", n)
      BY NumberLines, Tables
    <3> HIDE DEF n
    <3> QED BY <3>1, PlainLines
  <2>2. /\ AreaSensitivityDetail(e) = <<Back, Text, Text, n>>
           \/ AreaSensitivityDetail(e) = <<Back, Text, Text, Text, Text, Text>>
        /\ <<Back, Text, Text, n>> \in Seq(T)
    BY DEF AreaSensitivityDetail
  <2> HIDE DEF T, n
  <2>3. AllAllowed("area_sensitivity_detail", <<Back, Text, Text, n>>)
    BY <2>1, <2>2, AllowedOf
  <2> QED BY <1>1, <2>2, <2>3
<1> QED BY <1>2, <1>3, <1>4

LEMMA DevicePages ==
  ASSUME NEW e
  PROVE  /\ AllAllowed("sensitivity_device", SensitivityDevice(e))
         /\ AllAllowed("ad7147_custom_settings", Ad7147CustomSettings(e))
<1>0. Channels \in Nat /\ Registers \in Nat
  BY PagesAssumption
<1>1. ASSUME NEW p PROVE AllAllowed(p, <<Back, Text>>)
  <2> DEFINE T == {Back, Text}
  <2>1. \A x \in T : Allowed(p, x)
    BY PlainLines
  <2>2. <<Back, Text>> \in Seq(T)
    OBVIOUS
  <2> HIDE DEF T
  <2> QED BY <2>1, <2>2, AllowedOf
<1>2. AllAllowed("sensitivity_device", SensitivityDevice(e))
  <2> DEFINE r == Repeat(Channels, LAMBDA i : Number("channel", i))
  <2>1. r = [i \in 1..Channels |-> Number("channel", i)]
    BY DEF Repeat
  <2>2. \A n : Allowed("sensitivity_device", Number("channel", n))
    BY Tables, NumberLines
  <2>3. SensitivityDevice(e) = <<Back, Text>> \o r \/ SensitivityDevice(e) = <<Back, Text>>
    BY DEF SensitivityDevice
  <2> HIDE DEF r
  <2>4. AllAllowed("sensitivity_device", r)
    BY <1>0, <2>1, <2>2, AllowedRepeat
  <2> QED BY <1>1, <2>3, <2>4, AllowedConcat
<1>3. AllAllowed("ad7147_custom_settings", Ad7147CustomSettings(e))
  <2> DEFINE p == "ad7147_custom_settings"
             r == Repeat(Registers, LAMBDA i : Selector("threshold"))
             T == {Back, Bar, Button("offset"), Selector("stage"), Selector("neg_afe"),
                   Button("neg_swap"), Selector("pos_afe"), Button("pos_swap")}
             b == IF e.offset THEN Bar ELSE Button("offset")
             a == <<Back, b, Selector("stage"),
                    Selector("neg_afe"), Button("neg_swap"), Selector("pos_afe"), Button("pos_swap")>>
  <2>0. p \in SelectorPages
    BY DEF SelectorPages
  <2>1. r = [i \in 1..Registers |-> Selector("threshold")]
    BY DEF Repeat
  <2>2. \A id : id # "delay" => Allowed(p, Selector(id))
    BY <2>0, SelectorLines
  <2>3. Ad7147CustomSettings(e) = a \o r \/ Ad7147CustomSettings(e) = <<Back, Text>>
    BY DEF Ad7147CustomSettings
  <2> HIDE DEF r
  <2>4. AllAllowed(p, r)
    BY <1>0, <2>1, <2>2, AllowedRepeat
  <2>5. \A x \in T : Allowed(p, x)
    BY <2>2, PlainLines
  <2>6. b \in T
    OBVIOUS
  <2>7. a \in Seq(T)
    <3> HIDE DEF b
    <3> QED BY <2>6
  <2> HIDE DEF T, a, b
  <2>8. AllAllowed(p, a)
    BY <2>5, <2>7, AllowedOf
  <2> QED BY <1>1, <2>3, <2>4, <2>8, AllowedConcat
<1> QED BY <1>2, <1>3

LEMMA ZonePage == ASSUME NEW e PROVE AllAllowed("zone_sensitivity", ZoneSensitivity(e))
<1> DEFINE p == "zone_sensitivity"
           r == Repeat(Zones, LAMBDA i : Selector("zone"))
           T == {Back, Text, Button("special")}
<1>0. Zones \in Nat /\ p \in SelectorPages
  BY PagesAssumption DEF SelectorPages
<1>1. r = [i \in 1..Zones |-> Selector("zone")]
  BY DEF Repeat
<1>2. \A id : id # "delay" => Allowed(p, Selector(id))
  BY <1>0, SelectorLines
<1>3. \/ ZoneSensitivity(e) = (<<Back, Text>> \o r) \o <<Button("special")>>
      \/ ZoneSensitivity(e) = <<Back, Text>> \/ ZoneSensitivity(e) = <<Back, Text, Text>>
  BY DEF ZoneSensitivity
<1> HIDE DEF r
<1>4. AllAllowed(p, r)
  BY <1>0, <1>1, <1>2, AllowedRepeat
<1>5. \A x \in T : Allowed(p, x)
  BY PlainLines
<1>6. /\ <<Back, Text>> \in Seq(T) /\ <<Back, Text, Text>> \in Seq(T)
      /\ <<Button("special")>> \in Seq(T)
  OBVIOUS
<1> HIDE DEF T, p
<1>7. /\ AllAllowed(p, <<Back, Text>>) /\ AllAllowed(p, <<Back, Text, Text>>)
      /\ AllAllowed(p, <<Button("special")>>)
  BY <1>5, <1>6, AllowedOf
<1>8. AllAllowed(p, ZoneSensitivity(e))
  BY <1>3, <1>4, <1>7, AllowedConcat
<1> QED BY <1>8 DEF p

LEMMA BindingPage == ASSUME NEW e PROVE AllAllowed("binding_settings", BindingSettings(e))
<1> DEFINE p == "binding_settings"
           T == {Back, Text, Bar, Button("stop_binding"), Button("start_binding"),
                 Menu("binding_info")}
<1>1. \A x \in T : Allowed(p, x)
  <2>1. Allowed(p, Menu("binding_info"))
    BY MenuLines, Tables
  <2> QED BY <2>1, PlainLines
<1>2. BindingSettings(e) \in
        {<<Back, Text, Text>>, <<Back, Bar, Text, Button("stop_binding")>>,
         (<<Back, Text>> \o If(e.bound = Area, <<Text>>)) \o <<Button("start_binding"), Menu("binding_info")>>}
  BY DEF BindingSettings
<1>3. If(e.bound = Area, <<Text>>) \in {<<>>, <<Text>>}
  BY DEF If
<1>4. /\ <<Back, Text, Text>> \in Seq(T) /\ <<Back, Bar, Text, Button("stop_binding")>> \in Seq(T)
      /\ <<Back, Text>> \in Seq(T) /\ <<Button("start_binding"), Menu("binding_info")>> \in Seq(T)
      /\ <<>> \in Seq(T) /\ <<Text>> \in Seq(T)
  OBVIOUS
<1>5. CASE BindingSettings(e) \in {<<Back, Text, Text>>, <<Back, Bar, Text, Button("stop_binding")>>}
  <2> HIDE DEF T
  <2>1. BindingSettings(e) \in Seq(T)
    BY <1>4, <1>5
  <2> QED BY <1>1, <2>1, AllowedOf
<1>6. CASE BindingSettings(e) = (<<Back, Text>> \o If(e.bound = Area, <<Text>>))
                                  \o <<Button("start_binding"), Menu("binding_info")>>
  <2> HIDE DEF T
  <2>1. If(e.bound = Area, <<Text>>) \in Seq(T)
    BY <1>3, <1>4
  <2>2. BindingSettings(e) \in Seq(T)
    BY <1>4, <1>6, <2>1, ConcatProperties, SMTT(20)
  <2> QED BY <1>1, <2>2, AllowedOf
<1> QED BY <1>2, <1>5, <1>6

(* Sequences of at most n lines of a set.                                    *)
UpTo(T, n) == {s \in Seq(T) : Len(s) <= n}

LEMMA UpToConcat ==
  ASSUME NEW T, NEW m \in Nat, NEW n \in Nat, NEW s \in UpTo(T, m), NEW t \in UpTo(T, n)
  PROVE  s \o t \in UpTo(T, m + n)
<1>1. s \in Seq(T) /\ t \in Seq(T) /\ Len(s) \in Nat /\ Len(t) \in Nat
  BY DEF UpTo
<1>2. s \o t \in Seq(T) /\ Len(s \o t) = Len(s) + Len(t)
  BY <1>1
<1> QED BY <1>1, <1>2 DEF UpTo

LEMMA UpToIf ==
  ASSUME NEW T, NEW n \in Nat, NEW s \in UpTo(T, n), NEW test PROVE If(test, s) \in UpTo(T, n)
<1>1. <<>> \in Seq(T) /\ Len(<<>>) = 0
  OBVIOUS
<1>2. If(test, s) = s \/ If(test, s) = <<>>
  BY DEF If
<1>3. <<>> \in UpTo(T, n)
  BY <1>1 DEF UpTo
<1> QED BY <1>2, <1>3

CommunicationHead ==
  <<Back, Selector("baud"), Selector("light_baud"), Selector("delay"), Button("keyboard")>>

CommunicationTail == {Button("only_change"), Selector("aggregation"), Selector("extra"), Text,
                      Button("limit"), Selector("frequency")}

LEMMA CommunicationLines ==
  ASSUME NEW e
  PROVE  \E tail \in Seq(CommunicationTail) :
           CommunicationSettings(e) = CommunicationHead \o tail /\ Len(tail) <= 6
<1> DEFINE T == CommunicationTail
           a == <<Button("only_change")>>
           b == If(e.delay > 0, <<Selector("aggregation")>>)
           c == If(e.onlyChange, <<Selector("extra")>>)
           d == <<Text, Button("limit")>>
           f == If(e.limit, <<Selector("frequency")>>)
           all == (((a \o b) \o c) \o d) \o f
           tail == If(Serial, all)
<1>1. /\ <<Selector("aggregation")>> \in UpTo(T, 1) /\ <<Selector("extra")>> \in UpTo(T, 1)
      /\ <<Selector("frequency")>> \in UpTo(T, 1) /\ a \in UpTo(T, 1) /\ d \in UpTo(T, 2)
  BY DEF CommunicationTail, UpTo
<1>2. CommunicationSettings(e) = CommunicationHead \o tail
  BY DEF CommunicationSettings, CommunicationHead
<1> HIDE DEF T
<1>3. b \in UpTo(T, 1) /\ c \in UpTo(T, 1) /\ f \in UpTo(T, 1)
  BY <1>1, UpToIf
<1> HIDE DEF a, b, c, d, f
<1>4. a \o b \in UpTo(T, 1 + 1)
  BY <1>1, <1>3, UpToConcat
<1>5. (a \o b) \o c \in UpTo(T, 2 + 1)
  BY <1>3, <1>4, UpToConcat
<1>6. ((a \o b) \o c) \o d \in UpTo(T, 3 + 2)
  BY <1>1, <1>5, UpToConcat
<1>7. all \in UpTo(T, 5 + 1)
  BY <1>3, <1>6, UpToConcat
<1>8. tail \in UpTo(T, 6)
  BY <1>7, UpToIf
<1> QED BY <1>2, <1>8 DEF UpTo, T

LEMMA CommunicationPage ==
  ASSUME NEW e PROVE AllAllowed("communication_settings", CommunicationSettings(e))
<1> DEFINE p == "communication_settings"
           T == {Back, Selector("baud"), Selector("light_baud"), Selector("delay"), Button("keyboard")}
<1>1. p \in SelectorPages
  BY DEF SelectorPages
<1>2. \A id : Allowed(p, Selector(id)) /\ Allowed(p, Button(id)) /\ Allowed(p, Text) /\ Allowed(p, Back)
  BY <1>1, PlainLines, SelectorLines
<1>3. CommunicationHead \in Seq(T)
  BY DEF CommunicationHead
<1>4. (\A x \in T : Allowed(p, x)) /\ (\A x \in CommunicationTail : Allowed(p, x))
  BY <1>2 DEF CommunicationTail
<1> HIDE DEF T
<1>5. PICK tail \in Seq(CommunicationTail) : CommunicationSettings(e) = CommunicationHead \o tail
  BY CommunicationLines
<1>6. AllAllowed(p, CommunicationHead) /\ AllAllowed(p, tail)
  BY <1>3, <1>4, AllowedOf
<1> QED BY <1>5, <1>6, AllowedConcat

(* Every line of every page, whatever the page finds in the managers.        *)
LEMMA PageLines == ASSUME NEW p \in Page, NEW e PROVE AllAllowed(p, Lines(p, e))
<1>1. CASE p = "main"
  BY <1>1, MainPageLines DEF Lines
<1>2. CASE p \in {"main_menu", "general_settings", "__error__", "__int_setting__"}
  BY <1>2, ShortPages DEF Lines
<1>3. CASE p = "touch_settings_main"
  BY <1>3, TouchSettingsLines DEF Lines
<1>4. CASE p \in {"touch_status", "binding_info", "sensitivity_main"}
  BY <1>4, ListPages DEF Lines
<1>5. CASE p \in {"area_sensitivity", "area_sensitivity_zone", "area_sensitivity_detail"}
  BY <1>5, AreaPages DEF Lines
<1>6. CASE p \in {"sensitivity_device", "ad7147_custom_settings"}
  BY <1>6, DevicePages DEF Lines
<1>7. CASE p = "zone_sensitivity"
  BY <1>7, ZonePage DEF Lines
<1>8. CASE p = "binding_settings"
  BY <1>8, BindingPage DEF Lines
<1>9. CASE p = "communication_settings"
  BY <1>9, CommunicationPage DEF Lines
<1> QED
  BY <1>1, <1>2, <1>3, <1>4, <1>5, <1>6, <1>7, <1>8, <1>9 DEF Page

-----------------------------------------------------------------------------
(* Selectors: on which pages they are, and what makes them go away.          *)

Sel(p, e, i) == i + 1 \in DOMAIN Lines(p, e) /\ Lines(p, e)[i + 1].kind = "selector"

LEMMA NoSelectors ==
  ASSUME NEW T, NEW l \in Seq(T), \A x \in T : x.kind # "selector"
  PROVE  \A j \in DOMAIN l : l[j].kind # "selector"
<1> SUFFICES ASSUME NEW j \in DOMAIN l PROVE l[j].kind # "selector"
  OBVIOUS
<1>1. l[j] \in T
  OBVIOUS
<1> QED BY <1>1

LEMMA Kinds ==
  /\ Text.kind = "text" /\ Bar.kind = "bar" /\ Back.kind = "back" /\ Blank.kind = "blank"
  /\ \A id : Menu(id).kind = "menu" /\ Button(id).kind = "button" /\ Selector(id).kind = "selector"
BY DEF Text, Bar, Back, Blank, Menu, Button, Selector, Line

LEMMA Names ==
  Text.what = "" /\ Back.what = "" /\ \A id : Button(id).what = id /\ Selector(id).what = id
BY DEF Text, Back, Button, Selector, Line

(* Sequences of exactly n lines of a set.                                    *)
Exactly(T, n) == {s \in Seq(T) : Len(s) = n}

LEMMA ExactlyConcat ==
  ASSUME NEW T, NEW m \in Nat, NEW n \in Nat, NEW s \in Exactly(T, m), NEW t \in Exactly(T, n)
  PROVE  s \o t \in Exactly(T, m + n)
<1>1. s \in Seq(T) /\ t \in Seq(T) /\ Len(s) = m /\ Len(t) = n
  BY DEF Exactly
<1>2. s \o t \in Seq(T) /\ Len(s \o t) = Len(s) + Len(t)
  BY <1>1
<1> QED BY <1>1, <1>2 DEF Exactly

LEMMA ExactlyParts ==
  ASSUME NEW T, NEW m \in Nat, NEW n \in Nat, NEW s \in Exactly(T, m), NEW t \in Exactly(T, n)
  PROVE  /\ DOMAIN (s \o t) = 1..(m + n)
         /\ \A j \in 1..(m + n) : (s \o t)[j] = IF j <= m THEN s[j] ELSE t[j - m]
<1>1. s \in Seq(T) /\ t \in Seq(T) /\ Len(s) = m /\ Len(t) = n
  BY DEF Exactly
<1>2. s \o t \in Seq(T) /\ Len(s \o t) = m + n
  BY <1>1
<1>3. \A j \in 1..(Len(s) + Len(t)) : (s \o t)[j] = IF j <= Len(s) THEN s[j] ELSE t[j - Len(s)]
  BY <1>1, ConcatProperties, Zenon
<1> QED BY <1>1, <1>2, <1>3

LEMMA SelectorPage ==
  ASSUME NEW p \in Page, NEW e, NEW i \in Nat, Sel(p, e, i)
  PROVE  /\ p \in SelectorPages
         /\ Lines(p, e)[i + 1].what = "delay" => p = "communication_settings"
<1>1. PICK T : Lines(p, e) \in Seq(T) /\ \A x \in T : Allowed(p, x)
  BY PageLines DEF AllAllowed
<1>2. Lines(p, e)[i + 1] \in T
  BY <1>1 DEF Sel
<1> QED BY <1>1, <1>2 DEF Sel, Allowed

LEMMA TouchSelectors ==
  ASSUME NEW e, NEW i \in Nat, Sel("touch_settings_main", e, i)
  PROVE  /\ Calibratable /\ e.calib # "running" /\ e.calib # "done"
         /\ Len(Lines("touch_settings_main", e)) > 4
         /\ \A f : f.calib # "running" /\ f.calib # "done" => Sel("touch_settings_main", f, i)
<1> DEFINE p == "touch_settings_main"
           T == {Back, Text, Bar, Menu("touch_status"), Menu("area_sensitivity"),
                 Menu("sensitivity_main")}
           U == {Back, Text, Bar, Menu("touch_status"), Menu("area_sensitivity"),
                 Menu("sensitivity_main"), Selector("target"), Button("calibrate"),
                 Menu("zone_sensitivity")}
           a == <<Back, Menu("touch_status")>>
           b(f) == If(Calibratable, CalibrationLines(f))
           open == <<Selector("target"), Button("calibrate"), Menu("zone_sensitivity")>>
           c == If(Serial, <<Menu("area_sensitivity")>>)
           d == <<Menu("sensitivity_main")>>
           settled(f) == f.calib # "running" /\ f.calib # "done"
<1>1. \A x \in T : x.kind # "selector"
  BY Kinds
<1>2. \A f : Lines(p, f) = ((a \o b(f)) \o c) \o d
  BY DEF Lines, TouchSettingsMain
<1>3. c = <<>> \/ c = <<Menu("area_sensitivity")>>
  BY DEF If
<1>4. /\ a \in Seq(T) /\ d \in Seq(T) /\ <<>> \in Seq(T) /\ <<Menu("area_sensitivity")>> \in Seq(T)
      /\ <<Text, Bar>> \in Seq(T) /\ <<Text>> \in Seq(T)
  OBVIOUS
<1>5. ~ (Calibratable /\ settled(e)) => b(e) = <<>> \/ b(e) = <<Text, Bar>> \/ b(e) = <<Text>>
  BY DEF If, CalibrationLines
<1>6. Calibratable => \A f : settled(f) => b(f) = open
  BY DEF If, CalibrationLines
<1>7. /\ open \in Exactly(U, 3) /\ a \in Exactly(U, 2) /\ d \in Exactly(U, 1)
      /\ <<>> \in Exactly(U, 0) /\ <<Menu("area_sensitivity")>> \in Exactly(U, 1)
  BY DEF Exactly
<1> HIDE DEF T, U, a, b, c, d, open, settled
<1>8. c \in Seq(T) /\ (c \in Exactly(U, 0) \/ c \in Exactly(U, 1))
  <2>1. CASE c = <<>>
    BY <1>4, <1>7, <2>1
  <2>2. CASE c = <<Menu("area_sensitivity")>>
    BY <1>4, <1>7, <2>2
  <2> QED BY <1>3, <2>1, <2>2
<1>9. Calibratable /\ settled(e)
  <2> SUFFICES ASSUME ~ (Calibratable /\ settled(e)) PROVE FALSE
    OBVIOUS
  <2>1. b(e) \in Seq(T)
    BY <1>4, <1>5
  <2> DEFINE l == Lines(p, e)
             m == a \o b(e)
             n == m \o c
  <2>2. l = n \o d
    BY <1>2
  <2>3. m \in Seq(T)
    BY <1>4, <2>1
  <2> HIDE DEF l, m
  <2>4. n \in Seq(T)
    BY <1>8, <2>3
  <2> HIDE DEF n
  <2>5. l \in Seq(T)
    BY <1>4, <2>2, <2>4
  <2>6. \A j \in DOMAIN l : l[j].kind # "selector"
    BY <1>1, <2>5, NoSelectors
  <2> QED BY <2>6 DEF Sel, l
<1>10. \A f : settled(f) => Lines(p, f) = Lines(p, e)
  BY <1>2, <1>6, <1>9
<1>11. Len(Lines(p, e)) > 4
  <2>0. PICK k \in Nat : c \in Exactly(U, k)
    BY <1>8
  <2>1. a \o open \in Exactly(U, 2 + 3)
    BY <1>7, ExactlyConcat
  <2>2. (a \o open) \o c \in Exactly(U, 5 + k)
    BY <2>0, <2>1, ExactlyConcat
  <2>3. ((a \o open) \o c) \o d \in Exactly(U, (5 + k) + 1)
    <3>1. 5 + k \in Nat
      OBVIOUS
    <3> QED BY <1>7, <2>2, <3>1, ExactlyConcat
  <2>4. Lines(p, e) = ((a \o open) \o c) \o d
    BY <1>2, <1>6, <1>9
  <2> QED BY <2>3, <2>4 DEF Exactly
<1> QED BY <1>9, <1>10, <1>11 DEF Sel, settled

LEMMA ZoneSelectors ==
  ASSUME NEW e, NEW i \in Nat, Sel("zone_sensitivity", e, i)
  PROVE  /\ e.zoneKnown = "yes"
         /\ Len(Lines("zone_sensitivity", e)) > Visible
         /\ \A f : f.zoneKnown = "yes" => Sel("zone_sensitivity", f, i)
<1> DEFINE p == "zone_sensitivity"
           T == {Back, Text}
           U == {Back, Text, Selector("zone"), Button("special")}
           r == Repeat(Zones, LAMBDA n : Selector("zone"))
           b == <<Back, Text>>
           c == <<Button("special")>>
           long == <<Back, Text, Text>>
           all == (b \o r) \o c
<1>1. ~ (Serial /\ e.zoneKnown = "yes") => Lines(p, e) = b \/ Lines(p, e) = long
  BY DEF Lines, ZoneSensitivity
<1>2. Serial => \A f : f.zoneKnown = "yes" => Lines(p, f) = all
  BY DEF Lines, ZoneSensitivity
<1>3. r = [n \in 1..Zones |-> Selector("zone")]
  BY DEF Repeat
<1>4. b \in Seq(T) /\ long \in Seq(T)
  OBVIOUS
<1>5. \A x \in T : x.kind # "selector"
  BY Kinds
<1>6. b \in Exactly(U, 2) /\ c \in Exactly(U, 1) /\ Selector("zone") \in U
  BY DEF Exactly
<1> HIDE DEF T, U, r, b, c, long
<1>7. Serial /\ e.zoneKnown = "yes"
  <2> SUFFICES ASSUME ~ (Serial /\ e.zoneKnown = "yes") PROVE FALSE
    OBVIOUS
  <2> DEFINE l == Lines(p, e)
  <2>1. l \in Seq(T)
    BY <1>1, <1>4
  <2> HIDE DEF l
  <2>2. \A j \in DOMAIN l : l[j].kind # "selector"
    BY <1>5, <2>1, NoSelectors
  <2> QED BY <2>2 DEF Sel, l
<1>8. r \in Exactly(U, Zones) /\ Zones \in Nat
  BY <1>3, <1>6, PagesAssumption DEF Exactly
<1>9. Len(all) = 3 + Zones
  <2>1. b \o r \in Exactly(U, 2 + Zones)
    BY <1>6, <1>8, ExactlyConcat
  <2>2. all \in Exactly(U, (2 + Zones) + 1)
    BY <1>6, <1>8, <2>1, ExactlyConcat
  <2> QED BY <1>8, <2>2 DEF Exactly
<1>10. Lines(p, e) = all /\ \A f : f.zoneKnown = "yes" => Lines(p, f) = Lines(p, e)
  BY <1>2, <1>7
<1> QED BY <1>7, <1>8, <1>9, <1>10, TemplateAssumption, Screen DEF Sel

LEMMA Ad7147Selectors ==
  ASSUME NEW e, NEW i \in Nat, Sel("ad7147_custom_settings", e, i)
  PROVE  /\ Len(Lines("ad7147_custom_settings", e)) > Visible
         /\ \A f : f.device = e.device => Sel("ad7147_custom_settings", f, i)
<1> DEFINE p == "ad7147_custom_settings"
           T == {Back, Text}
           U == {Back, Bar, Button("offset"), Selector("stage"), Selector("neg_afe"),
                 Button("neg_swap"), Selector("pos_afe"), Button("pos_swap"), Selector("threshold")}
           r == Repeat(Registers, LAMBDA n : Selector("threshold"))
           second(f) == IF f.offset THEN Bar ELSE Button("offset")
           a(f) == <<Back, second(f), Selector("stage"), Selector("neg_afe"), Button("neg_swap"),
                     Selector("pos_afe"), Button("pos_swap")>>
<1>1. \A f : f.device \in 1..Ad7147 => Lines(p, f) = a(f) \o r
  BY DEF Lines, Ad7147CustomSettings
<1>2. e.device \notin 1..Ad7147 => Lines(p, e) = <<Back, Text>>
  BY DEF Lines, Ad7147CustomSettings
<1>3. r = [n \in 1..Registers |-> Selector("threshold")]
  BY DEF Repeat
<1>4. <<Back, Text>> \in Seq(T) /\ \A x \in T : x.kind # "selector"
  BY Kinds
<1>5. \A f : second(f) \in U /\ second(f).kind # "selector"
  BY Kinds
<1>6. ASSUME NEW f PROVE a(f) \in Exactly(U, 7) /\ a(f)[2] = second(f)
  <2>1. second(f) \in U
    BY <1>5
  <2> HIDE DEF second
  <2> QED BY <2>1 DEF Exactly
<1>7. \A f : \A j \in 1..7 : j # 2 => a(f)[j] = a(e)[j]
  <2> HIDE DEF second
  <2> QED OBVIOUS
<1>8. Selector("threshold") \in U
  OBVIOUS
<1> HIDE DEF T, U, r, second, a
<1>9. r \in Exactly(U, Registers) /\ Registers \in Nat
  BY <1>3, <1>8, PagesAssumption DEF Exactly
<1>10. e.device \in 1..Ad7147
  <2> SUFFICES ASSUME e.device \notin 1..Ad7147 PROVE FALSE
    OBVIOUS
  <2>1. \A j \in DOMAIN <<Back, Text>> : <<Back, Text>>[j].kind # "selector"
    BY <1>4, NoSelectors
  <2> QED BY <1>2, <2>1 DEF Sel
<1>11. ASSUME NEW f, f.device = e.device
       PROVE  /\ Len(Lines(p, f)) = 7 + Registers /\ DOMAIN Lines(p, f) = 1..(7 + Registers)
              /\ \A j \in 1..(7 + Registers) :
                   Lines(p, f)[j] = IF j <= 7 THEN a(f)[j] ELSE r[j - 7]
  <2>1. a(f) \in Exactly(U, 7)
    BY <1>6
  <2>2. Lines(p, f) = a(f) \o r
    BY <1>1, <1>10, <1>11
  <2>3. a(f) \o r \in Exactly(U, 7 + Registers)
    BY <1>9, <2>1, ExactlyConcat
  <2>4. /\ DOMAIN (a(f) \o r) = 1..(7 + Registers)
        /\ \A j \in 1..(7 + Registers) :
             (a(f) \o r)[j] = IF j <= 7 THEN a(f)[j] ELSE r[j - 7]
    BY <1>9, <2>1, ExactlyParts
  <2> QED BY <2>2, <2>3, <2>4 DEF Exactly
<1>12. i + 1 \in 1..(7 + Registers) /\ Lines(p, e)[i + 1].kind = "selector" /\ i + 1 # 2
  BY <1>5, <1>6, <1>9, <1>11 DEF Sel
<1>13. ASSUME NEW f, f.device = e.device PROVE Lines(p, f)[i + 1] = Lines(p, e)[i + 1]
  BY <1>7, <1>9, <1>11, <1>12, <1>13
<1> QED BY <1>9, <1>11, <1>12, <1>13, TemplateAssumption, Screen DEF Sel

LEMMA CommunicationSelectors ==
  ASSUME NEW e, NEW i \in Nat, Sel("communication_settings", e, i)
  PROVE  /\ Len(Lines("communication_settings", e)) > Visible
         /\ Lines("communication_settings", e)[i + 1].what = "delay" => i = 3
         /\ \A f : f.delay = e.delay /\ f.onlyChange = e.onlyChange /\ f.limit = e.limit =>
              Sel("communication_settings", f, i)
         /\ i = 3 => \A f : Sel("communication_settings", f, 3)
<1> DEFINE p == "communication_settings"
           U == {Back, Selector("baud"), Selector("light_baud"), Selector("delay"),
                 Button("keyboard")} \cup CommunicationTail
<1>1. /\ CommunicationHead \in Exactly(U, 5)
      /\ CommunicationHead[1] = Back /\ CommunicationHead[2] = Selector("baud")
      /\ CommunicationHead[3] = Selector("light_baud") /\ CommunicationHead[4] = Selector("delay")
      /\ CommunicationHead[5] = Button("keyboard")
  <2>1. CommunicationHead \in Seq(U) /\ Len(CommunicationHead) = 5
    BY DEF CommunicationHead
  <2> QED BY <2>1 DEF CommunicationHead, Exactly
<1>2. \A x \in CommunicationTail : x.what # "delay"
  BY Names DEF CommunicationTail
<1>3. ASSUME NEW f
      PROVE  /\ Len(Lines(p, f)) \in Nat /\ DOMAIN Lines(p, f) = 1..Len(Lines(p, f))
             /\ Len(Lines(p, f)) >= 5 /\ Lines(p, f)[4] = Selector("delay")
             /\ \A j \in DOMAIN Lines(p, f) : Lines(p, f)[j].what = "delay" => j = 4
  <2>1. PICK tail \in Seq(CommunicationTail) : Lines(p, f) = CommunicationHead \o tail
    BY CommunicationLines DEF Lines
  <2> DEFINE n == Len(tail)
  <2>2. tail \in Exactly(U, n) /\ n \in Nat /\ \A j \in 1..n : tail[j].what # "delay"
    BY <1>2 DEF Exactly
  <2> HIDE DEF U, n
  <2>3. /\ DOMAIN Lines(p, f) = 1..(5 + n)
        /\ \A j \in 1..(5 + n) :
             Lines(p, f)[j] = IF j <= 5 THEN CommunicationHead[j] ELSE tail[j - 5]
    <3>1. CommunicationHead \in Exactly(U, 5) /\ tail \in Exactly(U, n) /\ n \in Nat /\ 5 \in Nat
      BY <1>1, <2>2
    <3>2. /\ DOMAIN (CommunicationHead \o tail) = 1..(5 + n)
          /\ \A j \in 1..(5 + n) :
               (CommunicationHead \o tail)[j] = IF j <= 5 THEN CommunicationHead[j] ELSE tail[j - 5]
      BY <3>1, ExactlyParts
    <3> DEFINE l == CommunicationHead \o tail
    <3>3. l = Lines(p, f)
      BY <2>1
    <3>4. DOMAIN l = 1..(5 + n) /\ \A j \in 1..(5 + n) : l[j] = IF j <= 5 THEN CommunicationHead[j] ELSE tail[j - 5]
      BY <3>2
    <3> HIDE DEF l
    <3> QED BY <3>3, <3>4
  <2>4. Lines(p, f) \in Exactly(U, 5 + n)
    BY <1>1, <2>1, <2>2, ExactlyConcat
  <2>5. Lines(p, f)[4] = Selector("delay")
    BY <1>1, <2>2, <2>3
  <2>6. ASSUME NEW j \in 1..(5 + n), Lines(p, f)[j].what = "delay" PROVE j = 4
    <3>0. j <= 5 => Lines(p, f)[j] = CommunicationHead[j] /\ j \in 1..5
      BY <2>2, <2>3
    <3>1. CASE j <= 5
      <4>1. /\ CommunicationHead[1].what = "" /\ CommunicationHead[2].what = "baud"
            /\ CommunicationHead[3].what = "light_baud" /\ CommunicationHead[5].what = "keyboard"
        BY <1>1, Names, Zenon
      <4>2. j \in {1, 2, 3, 4, 5} /\ CommunicationHead[j].what = "delay"
        BY <2>6, <3>0, <3>1
      <4> QED BY <4>1, <4>2
    <3>2. CASE j > 5
      <4>1. j - 5 \in 1..n /\ Lines(p, f)[j] = tail[j - 5]
        BY <2>2, <2>3, <3>2
      <4> QED BY <2>2, <2>6, <4>1
    <3> QED BY <2>2, <3>1, <3>2
  <2> QED BY <2>2, <2>3, <2>4, <2>5, <2>6 DEF Exactly
<1>4. \A f : f.delay = e.delay /\ f.onlyChange = e.onlyChange /\ f.limit = e.limit =>
        Lines(p, f) = Lines(p, e)
  BY DEF Lines, CommunicationSettings
<1>5. ASSUME NEW f PROVE Sel(p, f, 3)
  <2>1. /\ Len(Lines(p, f)) \in Nat /\ DOMAIN Lines(p, f) = 1..Len(Lines(p, f))
        /\ Len(Lines(p, f)) >= 5 /\ Lines(p, f)[4] = Selector("delay")
    BY <1>3
  <2>2. 4 \in DOMAIN Lines(p, f) /\ Selector("delay").kind = "selector" /\ 3 + 1 = 4
    BY <2>1, Kinds
  <2> QED BY <2>1, <2>2 DEF Sel
<1> QED BY <1>3, <1>4, <1>5, TemplateAssumption, Screen DEF Sel

-----------------------------------------------------------------------------
(* What the pages read, as a record with the fields of Environment.          *)
IsEnvironment(e) ==
  e = [sampling |-> e.sampling, calib |-> e.calib, binding |-> e.binding, bound |-> e.bound,
       zoneKnown |-> e.zoneKnown, areaKnown |-> e.areaKnown, delay |-> e.delay,
       onlyChange |-> e.onlyChange, limit |-> e.limit, offset |-> e.offset,
       device |-> e.device, zone |-> e.zone, area |-> e.area]

SameSelectors(e, f) ==
  /\ f.device = e.device /\ f.zoneKnown = e.zoneKnown
  /\ f.delay = e.delay /\ f.onlyChange = e.onlyChange /\ f.limit = e.limit
  /\ e.calib # "running" /\ e.calib # "done" => f.calib = e.calib

LEMMA MeanwhileKeeps ==
  ASSUME NEW e, NEW f, IsEnvironment(e), Meanwhile(e, f)
  PROVE  IsEnvironment(f) /\ SameSelectors(e, f)
<1>1. CASE ~e.sampling /\ f = Sampled(e)
  BY <1>1 DEF IsEnvironment, SameSelectors, Sampled
<1>2. CASE e.calib = "running" /\ f = [e EXCEPT !.calib = "done"]
  BY <1>2 DEF IsEnvironment, SameSelectors
<1>3. CASE e.calib = "done" /\ f = [e EXCEPT !.calib = "no"]
  BY <1>3 DEF IsEnvironment, SameSelectors
<1>4. CASE e.offset /\ f = [e EXCEPT !.offset = FALSE]
  BY <1>4 DEF IsEnvironment, SameSelectors
<1>5. CASE e.binding /\ \E n \in 0..Areas : f = [e EXCEPT !.binding = FALSE, !.bound = 1..n]
  BY <1>5 DEF IsEnvironment, SameSelectors
<1> QED BY <1>1, <1>2, <1>3, <1>4, <1>5 DEF Meanwhile

(* A selector stays a selector while core 0 changes what it may.             *)
LEMMA SelectorStays ==
  ASSUME NEW p \in Page, NEW e, NEW f, NEW i \in Nat, Sel(p, e, i), SameSelectors(e, f)
  PROVE  Sel(p, f, i)
<1>1. p \in SelectorPages
  BY SelectorPage
<1>2. CASE p = "touch_settings_main"
  BY <1>2, TouchSelectors DEF SameSelectors
<1>3. CASE p = "zone_sensitivity"
  BY <1>3, ZoneSelectors DEF SameSelectors
<1>4. CASE p = "ad7147_custom_settings"
  BY <1>4, Ad7147Selectors DEF SameSelectors
<1>5. CASE p = "communication_settings"
  BY <1>5, CommunicationSelectors DEF SameSelectors
<1> QED BY <1>1, <1>2, <1>3, <1>4, <1>5 DEF SelectorPages

(* A page with a selector is too long for the screen, and drawing it leaves  *)
(* what it reads as it was.                                                  *)
LEMMA SelectorDrawn ==
  ASSUME NEW p \in Page, NEW e, NEW i \in Nat, Sel(p, e, i)
  PROVE  /\ Len(Lines(p, e)) > Visible /\ Load(p, e) = e /\ Leave(p, e) = e
         /\ Lines(p, e)[i + 1].what = "delay" => p = "communication_settings" /\ i = 3
<1>1. p \in SelectorPages /\ (Lines(p, e)[i + 1].what = "delay" => p = "communication_settings")
  BY SelectorPage
<1>2. CASE p = "touch_settings_main"
  BY <1>1, <1>2, TouchSelectors, TemplateAssumption, Screen DEF Load, Leave
<1>3. CASE p = "zone_sensitivity"
  BY <1>1, <1>3, ZoneSelectors DEF Load, Leave
<1>4. CASE p = "ad7147_custom_settings"
  BY <1>1, <1>4, Ad7147Selectors DEF Load, Leave
<1>5. CASE p = "communication_settings"
  BY <1>1, <1>5, CommunicationSelectors DEF Load, Leave
<1> QED BY <1>1, <1>2, <1>3, <1>4, <1>5 DEF SelectorPages

LEMMA PageReads ==
  ASSUME NEW p, NEW e, IsEnvironment(e)
  PROVE  IsEnvironment(Load(p, e)) /\ IsEnvironment(Leave(p, e))
<1>1. Load(p, e) \in {e, ZoneBindingInfo(e), AreaData(e)}
  BY DEF Load
<1>2. IsEnvironment(ZoneBindingInfo(e)) /\ IsEnvironment(AreaData(e))
  BY DEF IsEnvironment, ZoneBindingInfo, AreaData
<1>3. IsEnvironment([e EXCEPT !.calib = "no"])
  BY DEF IsEnvironment
<1> QED BY <1>1, <1>2, <1>3 DEF Leave

-----------------------------------------------------------------------------
(* The view, as a record, and what the drawing of lines makes of it.         *)
IsView(v) ==
  /\ v = [lines |-> v.lines, scrollable |-> v.scrollable, start |-> v.start, known |-> v.known]
  /\ v.scrollable \in BOOLEAN /\ v.start \in Nat /\ v.known \in Nat

Laid(l) == IF Len(l) > Visible THEN l
           ELSE [i \in 1..Visible |-> IF i <= Len(l) THEN l[i] ELSE Blank]

HoldsLines(v, l) ==
  /\ v.lines = Laid(l) /\ (v.scrollable <=> Len(l) > Visible)
  /\ Len(l) > Visible => v.known = Smaller(Len(l), MaxLines)

Shaped(v) ==
  v = [lines |-> v.lines, scrollable |-> v.scrollable, start |-> v.start, known |-> v.known]

LEMMA SetLines ==
  ASSUME NEW v, IsView(v), NEW T, NEW l \in Seq(T)
  PROVE  /\ IsView(SetAllLines(Flushed(v), l)) /\ HoldsLines(SetAllLines(Flushed(v), l), l)
         /\ SetAllLines(Flushed(v), l).start = v.start
<1> DEFINE u == Flushed(v)
           w == SetAllLines(u, l)
           n == Smaller(Len(l), MaxLines)
           laid == Laid(l)
           u1 == [u EXCEPT !.known = n]
           u2 == [u1 EXCEPT !.lines = l]
           yes == TRUE
           no == FALSE
           u3 == [u2 EXCEPT !.scrollable = yes]
           v1 == [u EXCEPT !.lines = laid]
           v2 == [v1 EXCEPT !.scrollable = no]
<1>1. n \in Nat
  BY TemplateAssumption, Screen DEF Smaller
<1>2. Shaped(u) /\ u.start = v.start /\ u.known = v.known /\ v.start \in Nat /\ v.known \in Nat
  BY DEF Flushed, IsView, Shaped
<1>3. Len(l) > Visible => w = u3 /\ laid = l
  BY DEF SetAllLines, SetUpScroll, Laid
<1>4. ~ (Len(l) > Visible) => w = v2
  BY DEF SetAllLines, Laid
<1>5. (IsView(w) /\ HoldsLines(w, l) /\ w.start = v.start) =>
        /\ IsView(SetAllLines(Flushed(v), l)) /\ HoldsLines(SetAllLines(Flushed(v), l), l)
        /\ SetAllLines(Flushed(v), l).start = v.start
  OBVIOUS
<1> SUFFICES IsView(w) /\ HoldsLines(w, l) /\ w.start = v.start
  BY <1>5
<1>6. CASE Len(l) > Visible
  <2> HIDE DEF u, w, n, laid, yes, no
  <2>1. Shaped(u1) /\ u1.start = v.start /\ u1.known = n
    BY <1>2 DEF Shaped
  <2> HIDE DEF u1
  <2>2. Shaped(u2) /\ u2.start = v.start /\ u2.known = n /\ u2.lines = l
    BY <2>1 DEF Shaped
  <2> HIDE DEF u2
  <2>3. Shaped(u3) /\ u3.start = v.start /\ u3.known = n /\ u3.lines = l /\ u3.scrollable = yes
    BY <2>2 DEF Shaped
  <2> HIDE DEF u3
  <2> QED BY <1>1, <1>2, <1>3, <1>6, <2>3 DEF IsView, Shaped, HoldsLines, laid, n, yes
<1>7. CASE ~ (Len(l) > Visible)
  <2> HIDE DEF u, w, n, laid, yes, no
  <2>1. Shaped(v1) /\ v1.start = v.start /\ v1.known = v.known /\ v1.lines = laid
    BY <1>2 DEF Shaped
  <2> HIDE DEF v1
  <2>2. Shaped(v2) /\ v2.start = v.start /\ v2.known = v.known /\ v2.lines = laid /\ v2.scrollable = no
    BY <2>1 DEF Shaped
  <2> HIDE DEF v2
  <2> QED BY <1>2, <1>4, <1>7, <2>2 DEF IsView, Shaped, HoldsLines, laid, no
<1> QED BY <1>6, <1>7

LEMMA LaidLines ==
  ASSUME NEW T, NEW l \in Seq(T)
  PROVE  /\ Laid(l) \in Seq(T \cup {Blank})
         /\ Len(l) > Visible => Len(Laid(l)) > Visible /\ Laid(l) = l
         /\ ~ (Len(l) > Visible) => Len(Laid(l)) = Visible
         /\ \A i \in 1..Len(Laid(l)) : i <= Len(l) => Laid(l)[i] = l[i]
         /\ \A i \in 1..Len(Laid(l)) : i > Len(l) => Laid(l)[i] = Blank
<1>0. Len(l) \in Nat /\ Visible \in Nat
  BY TemplateAssumption, Screen
<1>1. CASE Len(l) > Visible
  BY <1>0, <1>1, SeqMonotonic DEF Laid
<1>2. CASE ~ (Len(l) > Visible)
  <2> DEFINE m == [i \in 1..Visible |-> IF i <= Len(l) THEN l[i] ELSE Blank]
             U == T \cup {Blank}
  <2>1. \A i \in 1..Visible : (IF i <= Len(l) THEN l[i] ELSE Blank) \in U
    BY <1>0
  <2> HIDE DEF U
  <2>2. m \in Seq(U) /\ Len(m) = Visible
    BY <1>0, <2>1
  <2>3. Laid(l) = m
    BY <1>2 DEF Laid
  <2> QED BY <1>0, <1>2, <2>2, <2>3 DEF U
<1> QED BY <1>1, <1>2

LEMMA LaidAllowed ==
  ASSUME NEW p, NEW l, AllAllowed(p, l) PROVE AllAllowed(p, Laid(l))
<1>1. PICK T : l \in Seq(T) /\ \A x \in T : Allowed(p, x)
  BY DEF AllAllowed
<1> DEFINE U == T \cup {Blank}
<1>2. \A x \in U : Allowed(p, x)
  BY <1>1, PlainLines
<1>3. Laid(l) \in Seq(U)
  BY <1>1, LaidLines
<1> HIDE DEF U
<1> QED BY <1>2, <1>3, AllowedOf

-----------------------------------------------------------------------------
(* The line of an item: among finitely many, one has n before it.            *)
LEMMA LeastOf ==
  ASSUME NEW T, T \subseteq Nat, T # {}
  PROVE  \E x \in T : \A y \in T : x <= y
<1> DEFINE R == {ss \in Nat \X Nat : ss[1] < ss[2]}
<1>1. IsWellFoundedOn(R, Nat)
  BY NatLessThanWellFounded, Zenon DEF OpToRel
<1> HIDE DEF R
<1>2. \E x \in T : \A y \in T : ~ (<<y, x>> \in R)
  BY <1>1, WFMin
<1>3. \A x, y \in Nat : x < y => <<x, y>> \in R
  BY DEF R
<1>4. PICK x \in T : \A y \in T : ~ (<<y, x>> \in R)
  BY <1>2
<1>5. ASSUME NEW y \in T PROVE x <= y
  <2>1. ~ (y < x)
    BY <1>3, <1>4
  <2> QED BY <2>1
<1> QED BY <1>5

Before(S, i) == {j \in S : j < i}

LEMMA WithBefore ==
  ASSUME NEW m \in Nat, NEW S, S \subseteq 0..(m - 1), NEW n \in Nat, n < Cardinality(S)
  PROVE  \E i \in S : Cardinality(Before(S, i)) = n
<1> DEFINE B(i) == Before(S, i)
           T == {i \in 1..m : Cardinality(B(i)) > n}
<1>0. \A j \in S : j \in Nat /\ j < m
  <2>1. \A j \in 0..(m - 1) : j \in Nat /\ j < m
    OBVIOUS
  <2> QED BY <2>1
<1>1. IsFiniteSet(S) /\ \A i : IsFiniteSet(B(i)) /\ Cardinality(B(i)) \in Nat
  <2>1. IsFiniteSet(0..(m - 1))
    <3>1. 0 \in Int /\ m - 1 \in Int
      OBVIOUS
    <3> QED BY <3>1, FS_Interval
  <2>2. IsFiniteSet(S)
    BY <2>1, FS_Subset
  <2>3. \A i : B(i) \subseteq S
    BY DEF Before
  <2> HIDE DEF B
  <2> QED BY <2>2, <2>3, FS_Subset, FS_CardinalityType
<1>2. B(0) = {} /\ B(m) = S
  <2>1. \A j \in S : ~ (j < 0) /\ j < m
    BY <1>0
  <2> QED BY <2>1 DEF Before
<1>3. Cardinality(B(0)) = 0
  BY <1>2, FS_EmptySet
<1>4. m \in T
  <2>1. Cardinality(B(m)) > n
    BY <1>1, <1>2, FS_CardinalityType
  <2>2. m # 0
    BY <1>3, <2>1
  <2> QED BY <2>1, <2>2
<1>5. PICK x \in T : \A y \in T : x <= y
  <2>0. 1..m \subseteq Nat /\ T \subseteq 1..m
    OBVIOUS
  <2>1. T \subseteq Nat /\ T # {}
    BY <1>4, <2>0
  <2> HIDE DEF T
  <2> QED BY <2>1, LeastOf
<1>6. x \in 1..m /\ Cardinality(B(x)) > n /\ x - 1 \in Nat
  OBVIOUS
<1>7. ~ (Cardinality(B(x - 1)) > n)
  <2>1. CASE x = 1
    BY <1>3, <2>1
  <2>2. CASE x # 1
    BY <1>5, <1>6, <2>2
  <2> QED BY <2>1, <2>2
<1>8. x - 1 \in S
  <2> SUFFICES ASSUME x - 1 \notin S PROVE FALSE
    OBVIOUS
  <2>0. \A j \in S : j < x <=> j < x - 1
    BY <1>0, <1>6
  <2>1. B(x) = B(x - 1)
    BY <2>0 DEF Before
  <2> QED BY <1>6, <1>7, <2>1
<1>9. B(x) = B(x - 1) \cup {x - 1} /\ x - 1 \notin B(x - 1)
  <2>1. \A j \in S : j < x <=> j < x - 1 \/ j = x - 1
    BY <1>0, <1>6
  <2>2. ~ (x - 1 < x - 1)
    BY <1>6
  <2> QED BY <1>8, <2>1, <2>2 DEF Before
<1>10. Cardinality(B(x)) = Cardinality(B(x - 1)) + 1
  <2> HIDE DEF B
  <2> QED BY <1>1, <1>9, FS_AddElement
<1>11. Cardinality(B(x - 1)) = n
  <2> HIDE DEF B
  <2> QED BY <1>1, <1>6, <1>7, <1>10
<1> QED BY <1>8, <1>11

LEMMA ItemsOfView ==
  ASSUME NEW v, Len(v.lines) \in Nat
  PROVE  /\ Cardinality(Items(v)) \in Nat
         /\ Items(v) # {} => Cardinality(Items(v)) > 0
         /\ \A n \in Nat : n < Cardinality(Items(v)) =>
              /\ ItemLine(v, n) \in 0..(Len(v.lines) - 1)
              /\ ItemLine(v, n) \in Items(v)
<1> DEFINE S == Items(v)
           m == Len(v.lines)
<1>1. S \subseteq 0..(m - 1)
  BY DEF Items
<1>2. IsFiniteSet(S)
  <2>1. 0 \in Int /\ m - 1 \in Int
    OBVIOUS
  <2>2. IsFiniteSet(0..(m - 1))
    BY <2>1, FS_Interval
  <2> QED BY <1>1, <2>2, FS_Subset
<1>3. Cardinality(S) \in Nat /\ (S # {} => Cardinality(S) > 0)
  <2>1. Cardinality(S) \in Nat /\ (Cardinality(S) = 0 <=> S = {})
    BY <1>2, FS_CardinalityType, FS_EmptySet
  <2> HIDE DEF S
  <2> QED BY <2>1
<1>4. ASSUME NEW n \in Nat, n < Cardinality(S) PROVE ItemLine(v, n) \in S
  <2>1. \E i \in S : Cardinality(Before(S, i)) = n
    <3>1. m \in Nat
      OBVIOUS
    <3> HIDE DEF S, m
    <3> QED BY <1>1, <1>4, <3>1, WithBefore
  <2> QED BY <2>1 DEF ItemLine, Before
<1> QED BY <1>1, <1>3, <1>4

-----------------------------------------------------------------------------
(* The invariant of the page stack and of the view.                          *)
Plain  == Page \ {"__int_setting__"}
Entry  == [page : Plain, cursor : Nat, scroll : Nat]
Caller == [page : Plain, index : Nat]

TypeInv ==
  /\ page \in Page /\ index \in Nat /\ history \in Seq(Entry)
  /\ popup \in Caller \cup {None}
  /\ IsView(view) /\ IsEnvironment(env) /\ shown \in Page \cup {None}
  /\ buttons \in [ButtonName -> {"up", "down", "seen"}]

ViewInv ==
  /\ shown = None => index = 0 /\ \A b \in ButtonName : buttons[b] # "seen"
  /\ shown # None => \E e : HoldsLines(view, Lines(shown, e))
  /\ buttons["confirm"] = "seen" => shown = page

\* how far below the main page a page is
Depth ==
  [p \in Page |->
     IF p = "main" THEN 0
     ELSE IF p = "main_menu" THEN 1
     ELSE IF p \in {"touch_settings_main", "binding_settings", "communication_settings",
                    "general_settings"} THEN 2
     ELSE IF p \in {"touch_status", "zone_sensitivity", "area_sensitivity", "sensitivity_main",
                    "binding_info"} THEN 3
     ELSE IF p \in {"area_sensitivity_zone", "ad7147_custom_settings", "sensitivity_device"} THEN 4
     ELSE 5]

Current == IF popup = None THEN page ELSE popup.page

WalkInv ==
  /\ \A i \in DOMAIN history : Depth[history[i].page] = i - 1
  /\ Depth[Current] = Len(history)
  /\ Editing <=> popup # None
  /\ Editing <=> setting # None

StackInv == TypeInv /\ ViewInv /\ WalkInv

LEMMA Deeper ==
  ASSUME NEW p \in Page, NEW q \in Below[p]
  PROVE  q \in Plain /\ Depth[q] = Depth[p] + 1
<1>1. CASE p \in {"main", "main_menu"}
  BY <1>1, Tables DEF Depth, Page, Plain
<1>2. CASE p \in {"touch_settings_main", "binding_settings"}
  BY <1>2, Tables DEF Depth, Page, Plain
<1>3. CASE p \in {"area_sensitivity", "sensitivity_main", "area_sensitivity_zone"}
  BY <1>3, Tables DEF Depth, Page, Plain
<1>4. CASE p \notin {"main", "main_menu", "touch_settings_main", "binding_settings",
                     "area_sensitivity", "sensitivity_main", "area_sensitivity_zone"}
  BY <1>4, Tables
<1> QED BY <1>1, <1>2, <1>3, <1>4

LEMMA NumberNames ==
  ASSUME NEW p \in Page, NEW n \in Numbers[p] PROVE n \in {"timeout", "brightness", "area", "channel"}
<1>1. CASE p \in {"general_settings", "area_sensitivity_detail", "sensitivity_device"}
  BY <1>1, Tables
<1>2. CASE p \notin {"general_settings", "area_sensitivity_detail", "sensitivity_device"}
  BY <1>2, Tables
<1> QED BY <1>1, <1>2

(* A view that shows the same lines through another window.                  *)
SameLines(v, w) ==
  IsView(w) /\ w.lines = v.lines /\ w.scrollable = v.scrollable /\ w.known = v.known

LEMMA SmallerNat ==
  ASSUME NEW a \in Nat, NEW b \in Nat
  PROVE  Smaller(a, b) \in Nat /\ Smaller(a, b) <= a /\ Smaller(a, b) <= b
BY DEF Smaller

LEMMA StartAtKeeps ==
  ASSUME NEW v, IsView(v), NEW n \in Nat
  PROVE  SameLines(v, StartAt(v, n)) /\ StartAt(v, n).start = Smaller(n, MaxStart(v))
<1>1. MaxStart(v) \in Nat
  BY TemplateAssumption, Screen DEF IsView, MaxStart
<1>2. Smaller(n, MaxStart(v)) \in Nat
  BY <1>1, SmallerNat
<1> HIDE DEF Smaller, MaxStart
<1> QED BY <1>2 DEF IsView, SameLines, StartAt

LEMMA EndLineKeeps ==
  ASSUME NEW v, IsView(v), Len(v.lines) \in Nat, v.scrollable => Len(v.lines) > Visible,
         NEW target \in Nat
  PROVE  SameLines(v, SetVisibleEndLine(v, target))
<1>0. SameLines(v, v)
  BY DEF SameLines
<1> DEFINE n == IF target < Visible THEN 0
                ELSE Smaller(target - Visible + 1, Len(v.lines) - Visible)
<1>1. CASE ~v.scrollable \/ target >= Len(v.lines)
  BY <1>0, <1>1 DEF SetVisibleEndLine
<1>2. CASE ~ (~v.scrollable \/ target >= Len(v.lines))
  <2>1. n \in Nat
    BY <1>2, TemplateAssumption, Screen DEF Smaller
  <2>2. SetVisibleEndLine(v, target) = StartAt(v, n)
    BY <1>2 DEF SetVisibleEndLine
  <2> HIDE DEF n
  <2> QED BY <2>1, <2>2, StartAtKeeps
<1> QED BY <1>1, <1>2

LEMMA ScrollKeeps ==
  ASSUME NEW v, IsView(v), NEW n \in Nat PROVE SameLines(v, SetScrollPosition(v, n))
<1>1. SameLines(v, v)
  BY DEF SameLines
<1>2. SetScrollPosition(v, n) \in {v, StartAt(v, n)}
  BY DEF SetScrollPosition
<1> QED BY <1>1, <1>2, StartAtKeeps

LEMMA Held ==
  ASSUME NEW v, IsView(v), NEW p \in Page, NEW e, HoldsLines(v, Lines(p, e))
  PROVE  /\ Len(v.lines) \in Nat /\ DOMAIN v.lines = 1..Len(v.lines)
         /\ \A i \in 1..Len(v.lines) : Allowed(p, v.lines[i])
         /\ v.scrollable => Len(v.lines) > Visible /\ v.lines = Lines(p, e)
         /\ ~v.scrollable => Len(v.lines) = Visible
<1> DEFINE l == Lines(p, e)
<1>1. PICK T : l \in Seq(T) /\ \A x \in T : Allowed(p, x)
  BY PageLines DEF AllAllowed
<1>2. v.lines = Laid(l) /\ (v.scrollable <=> Len(l) > Visible)
  BY DEF HoldsLines
<1> HIDE DEF l
<1>3. AllAllowed(p, Laid(l))
  BY <1>1, AllowedOf, LaidAllowed
<1>4. PICK U : Laid(l) \in Seq(U) /\ \A x \in U : Allowed(p, x)
  BY <1>3 DEF AllAllowed
<1>5. \A i \in 1..Len(Laid(l)) : Laid(l)[i] \in U
  BY <1>4
<1>6. Len(Laid(l)) \in Nat /\ DOMAIN Laid(l) = 1..Len(Laid(l))
  BY <1>4
<1>7. /\ Len(l) > Visible => Len(Laid(l)) > Visible /\ Laid(l) = l
      /\ ~ (Len(l) > Visible) => Len(Laid(l)) = Visible
  BY <1>1, LaidLines
<1> HIDE DEF Allowed
<1> QED BY <1>2, <1>4, <1>5, <1>6, <1>7 DEF l

(* What a button acts on.                                                    *)
LEMMA ChosenOf ==
  ASSUME StackInv, shown = page, HasLine
  PROVE  /\ ChosenLine(view, index) \in 0..(Len(view.lines) - 1)
         /\ Allowed(page, Chosen)
<1> DEFINE k == ChosenLine(view, index)
<1>1. page \in Page /\ page # None /\ index \in Nat /\ IsView(view)
  BY UiAssumption DEF StackInv, TypeInv
<1>2. PICK e : HoldsLines(view, Lines(page, e))
  BY <1>1 DEF StackInv, ViewInv
<1>3. Len(view.lines) \in Nat /\ \A i \in 1..Len(view.lines) : Allowed(page, view.lines[i])
  BY <1>1, <1>2, Held
<1>4. CASE view.scrollable
  <2>1. k = index /\ index < Len(view.lines)
    BY <1>4 DEF HasLine, ChosenLine
  <2> QED BY <1>1, <1>3, <2>1 DEF Chosen, LineAt
<1>5. CASE ~view.scrollable
  <2>1. k = ItemLine(view, index) /\ index < Cardinality(Items(view))
    BY <1>5 DEF HasLine, ChosenLine
  <2>2. k \in 0..(Len(view.lines) - 1)
    BY <1>1, <1>3, <2>1, ItemsOfView
  <2>3. k + 1 \in 1..Len(view.lines)
    BY <1>3, <2>2
  <2> HIDE DEF k
  <2> QED BY <1>3, <2>2, <2>3 DEF Chosen, LineAt, k
<1> QED BY <1>4, <1>5

-----------------------------------------------------------------------------
(* The path from the main page.                                              *)
PathOf(h, p) == [i \in DOMAIN h |-> h[i].page] \o <<p>>

LEMMA PathIs ==
  ASSUME NEW h \in Seq(Entry), NEW p \in Page
  PROVE  /\ PathOf(h, p) \in Seq(Page) /\ Len(PathOf(h, p)) = Len(h) + 1 /\ Len(h) \in Nat
         /\ \A i \in 1..Len(h) : PathOf(h, p)[i] = h[i].page
         /\ PathOf(h, p)[Len(h) + 1] = p
         /\ Walk!Last(PathOf(h, p)) = p
<1> DEFINE t == [i \in 1..Len(h) |-> h[i].page]
<1>1. Len(h) \in Nat /\ DOMAIN h = 1..Len(h) /\ \A i \in 1..Len(h) : h[i] \in Entry
  OBVIOUS
<1>2. \A i \in 1..Len(h) : h[i].page \in Page
  BY <1>1 DEF Entry, Plain
<1>3. t \in Seq(Page) /\ Len(t) = Len(h) /\ \A i \in 1..Len(h) : t[i] = h[i].page
  BY <1>1, <1>2
<1>4. PathOf(h, p) = t \o <<p>>
  BY <1>1 DEF PathOf
<1> HIDE DEF t
<1>5. /\ t \o <<p>> \in Seq(Page) /\ Len(t \o <<p>>) = Len(h) + 1
      /\ \A i \in 1..Len(h) : (t \o <<p>>)[i] = t[i]
      /\ (t \o <<p>>)[Len(h) + 1] = p
  BY <1>1, <1>3
<1> QED BY <1>1, <1>3, <1>4, <1>5 DEF Walk!Last

LEMMA PathDown ==
  ASSUME NEW h \in Seq(Entry), NEW e \in Entry, NEW q \in Page
  PROVE  PathOf(Append(h, e), q) = Append(PathOf(h, e.page), q)
<1>1. e.page \in Page
  BY DEF Entry, Plain
<1> DEFINE g == Append(h, e)
           a == PathOf(g, q)
           b == PathOf(h, e.page)
<1>2. g \in Seq(Entry) /\ Len(g) = Len(h) + 1 /\ Len(h) \in Nat
      /\ (\A i \in 1..Len(h) : g[i] = h[i]) /\ g[Len(h) + 1] = e
  OBVIOUS
<1> HIDE DEF g
<1>3. /\ a \in Seq(Page) /\ Len(a) = Len(g) + 1
      /\ (\A i \in 1..Len(g) : a[i] = g[i].page) /\ a[Len(g) + 1] = q
  BY <1>2, PathIs
<1>4. /\ b \in Seq(Page) /\ Len(b) = Len(h) + 1
      /\ (\A i \in 1..Len(h) : b[i] = h[i].page) /\ b[Len(h) + 1] = e.page
  BY <1>1, PathIs
<1> HIDE DEF a, b
<1>5. Append(b, q) \in Seq(Page) /\ Len(Append(b, q)) = Len(h) + 2
  BY <1>2, <1>4
<1>6. ASSUME NEW i \in 1..(Len(h) + 2) PROVE a[i] = Append(b, q)[i]
  <2>1. CASE i = Len(h) + 2
    BY <1>2, <1>3, <1>4, <2>1
  <2>2. CASE i = Len(h) + 1
    <3>1. a[i] = e.page
      BY <1>2, <1>3, <2>2
    <3>2. Append(b, q)[i] = b[i]
      BY <1>2, <1>4, <2>2
    <3> QED BY <1>4, <2>2, <3>1, <3>2
  <2>3. CASE i \in 1..Len(h)
    <3>1. a[i] = h[i].page
      BY <1>2, <1>3, <2>3
    <3>2. Append(b, q)[i] = b[i]
      BY <1>2, <1>4, <2>3
    <3> QED BY <1>4, <2>3, <3>1, <3>2
  <2>4. i = Len(h) + 2 \/ i = Len(h) + 1 \/ i \in 1..Len(h)
    BY <1>2
  <2> QED BY <2>1, <2>2, <2>3, <2>4
<1>7. a = Append(b, q)
  BY <1>2, <1>3, <1>5, <1>6, SeqEqual
<1> QED BY <1>7 DEF a, b, g

LEMMA PathUp ==
  ASSUME NEW h \in Seq(Entry), h # <<>>, NEW p \in Page
  PROVE  /\ Top(h) \in Entry /\ Pop(h) \in Seq(Entry) /\ Len(Pop(h)) = Len(h) - 1
         /\ \A i \in 1..(Len(h) - 1) : Pop(h)[i] = h[i]
         /\ PathOf(Pop(h), Top(h).page) = Walk!Front(PathOf(h, p))
         /\ Len(PathOf(h, p)) > 1
<1> DEFINE g == Pop(h)
           q == Top(h).page
           a == PathOf(g, q)
           b == PathOf(h, p)
<1>1. Len(h) \in Nat \ {0} /\ Top(h) \in Entry
  BY DEF Top
<1>2. g \in Seq(Entry) /\ Len(g) = Len(h) - 1 /\ \A i \in 1..(Len(h) - 1) : g[i] = h[i]
  <2> DEFINE m == Len(h) - 1
  <2>1. m \in Nat /\ \A i \in 1..m : h[i] \in Entry
    BY <1>1
  <2> HIDE DEF m
  <2>2. /\ SubSeq(h, 1, m) \in Seq(Entry) /\ Len(SubSeq(h, 1, m)) = m
        /\ \A i \in 1..m : SubSeq(h, 1, m)[i] = h[i]
    BY <2>1, SubSeqProperties
  <2> QED BY <2>2 DEF Pop, m
<1>3. q \in Page
  BY <1>1 DEF Entry, Plain
<1>4. /\ b \in Seq(Page) /\ Len(b) = Len(h) + 1 /\ \A i \in 1..Len(h) : b[i] = h[i].page
  BY PathIs
<1> HIDE DEF g
<1>5. /\ a \in Seq(Page) /\ Len(a) = Len(g) + 1
      /\ (\A i \in 1..Len(g) : a[i] = g[i].page) /\ a[Len(g) + 1] = q
  BY <1>2, <1>3, PathIs
<1> HIDE DEF a, b, q
<1> DEFINE c == SubSeq(b, 1, Len(h))
<1>6. c \in Seq(Page) /\ Len(c) = Len(h) /\ \A i \in 1..Len(h) : c[i] = b[i]
  <2>1. 1 \in 1..(Len(b) + 1) /\ Len(h) \in (1 - 1)..Len(b)
    BY <1>1, <1>4
  <2> QED BY <1>1, <1>4, <2>1, SubSeqProperties
<1> HIDE DEF c
<1>7. ASSUME NEW i \in 1..Len(h) PROVE a[i] = c[i]
  <2>1. CASE i = Len(h)
    <3>1. a[i] = q /\ q = h[Len(h)].page
      BY <1>1, <1>2, <1>5, <2>1 DEF q, Top
    <3> QED BY <1>4, <1>6, <2>1, <3>1
  <2>2. CASE i # Len(h)
    <3>1. a[i] = h[i].page
      BY <1>1, <1>2, <1>5, <2>2
    <3> QED BY <1>4, <1>6, <3>1
  <2> QED BY <2>1, <2>2
<1>8. a = c
  BY <1>1, <1>2, <1>5, <1>6, <1>7, SeqEqual
<1>9. Len(b) - 1 = Len(h)
  BY <1>1, <1>4
<1>10. a = Walk!Front(b)
  BY <1>8, <1>9 DEF c, Walk!Front
<1>11. Len(b) > 1
  BY <1>1, <1>4
<1> QED BY <1>1, <1>2, <1>10, <1>11 DEF a, b, g, q

-----------------------------------------------------------------------------
(* The steps, as far as the stack and the view are concerned.                *)
LEMMA ButtonReads ==
  ASSUME NEW e, IsEnvironment(e)
  PROVE  /\ \A id : IsEnvironment(Clicked(id, e))
         /\ \A id, up : IsEnvironment(Selected(id, up, e))
         /\ \A to, id : IsEnvironment(Jumped(to, id, e))
<1>1. ASSUME NEW id PROVE IsEnvironment(Clicked(id, e))
  <2>1. Clicked(id, e) \in
          {e, CalibrateClicked(e), BindingClicked(e), [e EXCEPT !.onlyChange = ~e.onlyChange],
           LimitToggled(e), [e EXCEPT !.offset = TRUE]}
    BY DEF Clicked
  <2>2. ASSUME NEW x
        PROVE  /\ IsEnvironment([e EXCEPT !.calib = x])
               /\ IsEnvironment([e EXCEPT !.limit = x]) /\ IsEnvironment([e EXCEPT !.offset = x])
               /\ IsEnvironment([e EXCEPT !.onlyChange = x])
    BY DEF IsEnvironment
  <2>3. IsEnvironment(CalibrateClicked(e)) /\ IsEnvironment(LimitToggled(e))
    BY <2>2, Zenon DEF CalibrateClicked, LimitToggled
  <2>5. ASSUME NEW f, f = [e EXCEPT !.binding = TRUE, !.bound = {}] PROVE IsEnvironment(f)
    BY <2>5 DEF IsEnvironment
  <2>6. IsEnvironment(BindingClicked(e))
    BY <2>5, Zenon DEF BindingClicked
  <2>4. /\ IsEnvironment([e EXCEPT !.onlyChange = ~e.onlyChange])
        /\ IsEnvironment([e EXCEPT !.offset = TRUE])
    BY <2>2, Zenon
  <2> QED BY <2>1, <2>3, <2>4, <2>6
<1>2. ASSUME NEW id, NEW up PROVE IsEnvironment(Selected(id, up, e))
  BY DEF IsEnvironment, Selected
<1>3. ASSUME NEW to, NEW id PROVE IsEnvironment(Jumped(to, id, e))
  <2>1. Jumped(to, id, e) \in
          {e, [e EXCEPT !.device = id], [e EXCEPT !.zone = id], [e EXCEPT !.area = id]}
    BY DEF Jumped
  <2>2. /\ IsEnvironment([e EXCEPT !.device = id]) /\ IsEnvironment([e EXCEPT !.zone = id])
        /\ IsEnvironment([e EXCEPT !.area = id])
    BY DEF IsEnvironment
  <2> QED BY <2>1, <2>2
<1> QED BY <1>1, <1>2, <1>3

LEMMA DrawFacts ==
  ASSUME StackInv, Draw
  PROVE  /\ shown' = page /\ IsView(view') /\ IsEnvironment(env') /\ view'.start = view.start
         /\ HoldsLines(view', Lines(page, Load(page, env)))
         /\ env' = Leave(page, Load(page, env))
         /\ index' = index \/ index' = 0
         /\ view'.scrollable /\ index < Len(view'.lines) => index' = index
<1> DEFINE loaded == Load(page, env)
           l == Lines(page, loaded)
           drawn == SetAllLines(Flushed(view), l)
           most == IF drawn.scrollable THEN Len(drawn.lines) ELSE Cardinality(Items(drawn))
<1>1. page \in Page /\ index \in Nat /\ IsView(view) /\ IsEnvironment(env)
  BY DEF StackInv, TypeInv
<1>2. /\ view' = drawn /\ shown' = page /\ env' = Leave(page, loaded)
      /\ index' = IF index >= most THEN 0 ELSE index
  BY DEF Draw
<1>3. PICK T : l \in Seq(T)
  BY <1>1, PageLines DEF AllAllowed
<1>4. IsView(drawn) /\ HoldsLines(drawn, l) /\ drawn.start = view.start
  BY <1>1, <1>3, SetLines
<1>5. IsEnvironment(env')
  BY <1>1, <1>2, PageReads
<1> HIDE DEF drawn, l, loaded
<1>6. (index' = index \/ index' = 0)
      /\ (drawn.scrollable /\ index < Len(drawn.lines) /\ Len(drawn.lines) \in Nat => index' = index)
  BY <1>1, <1>2
<1>7. Len(drawn.lines) \in Nat
  BY <1>1, <1>4, Held DEF l
<1> QED BY <1>2, <1>4, <1>5, <1>6, <1>7 DEF l, loaded

ButtonStates == [ButtonName -> {"up", "down", "seen"}]

LEMMA DrawKeeps ==
  ASSUME StackInv, Draw, UNCHANGED <<page, history, popup, setting>>, buttons' \in ButtonStates
  PROVE  StackInv' /\ UNCHANGED <<Path, setting>>
<1>1. page \in Page /\ index \in Nat /\ page # None
  BY UiAssumption DEF StackInv, TypeInv
<1>2. TypeInv'
  BY <1>1, DrawFacts DEF StackInv, TypeInv, ButtonStates
<1>3. ViewInv'
  BY <1>1, DrawFacts DEF ViewInv
<1>4. WalkInv' /\ UNCHANGED <<Path, setting>>
  BY DEF StackInv, WalkInv, Current, Path, Editing
<1> QED BY <1>2, <1>3, <1>4 DEF StackInv

LEMMA HeldStays ==
  ASSUME NEW v, NEW w, NEW l, HoldsLines(v, l), SameLines(v, w) PROVE HoldsLines(w, l)
BY DEF HoldsLines, SameLines

(* A step that stays on its page, and one on which confirm is released.      *)
LEMMA StackStays ==
  ASSUME StackInv, UNCHANGED <<page, history, popup, setting, shown>>, shown # None,
         index' \in Nat, SameLines(view, view'), IsEnvironment(env'), buttons' \in ButtonStates,
         buttons'["confirm"] = "seen" => buttons["confirm"] = "seen"
  PROVE  StackInv' /\ UNCHANGED <<Path, setting>>
<1>1. TypeInv'
  BY DEF StackInv, TypeInv, ButtonStates, SameLines
<1>2. PICK e : HoldsLines(view, Lines(shown, e))
  BY DEF StackInv, ViewInv
<1>3. HoldsLines(view', Lines(shown', e))
  BY <1>2, HeldStays
<1>4. ViewInv'
  BY <1>3 DEF StackInv, ViewInv
<1>5. WalkInv' /\ UNCHANGED <<Path, setting>>
  BY DEF StackInv, WalkInv, Current, Path, Editing
<1> QED BY <1>1, <1>4, <1>5 DEF StackInv

LEMMA StackMoves ==
  ASSUME StackInv, UNCHANGED shown, shown # None, SameLines(view, view'), IsEnvironment(env'),
         buttons' \in ButtonStates, buttons'["confirm"] # "seen",
         page' \in Page, index' \in Nat, history' \in Seq(Entry), popup' \in Caller \cup {None},
         WalkInv'
  PROVE  StackInv'
<1>1. TypeInv'
  BY DEF StackInv, TypeInv, ButtonStates, SameLines
<1>2. PICK e : HoldsLines(view, Lines(shown, e))
  BY DEF StackInv, ViewInv
<1>3. HoldsLines(view', Lines(shown', e))
  BY <1>2, HeldStays
<1>4. ViewInv'
  BY <1>3 DEF StackInv, ViewInv
<1> QED BY <1>1, <1>4 DEF StackInv

LEMMA NavigateFacts ==
  ASSUME StackInv, shown # None, NEW up, Navigate(up)
  PROVE  index' \in Nat /\ SameLines(view, view')
<1>1. index \in Nat /\ IsView(view) /\ shown \in Page
  BY DEF StackInv, TypeInv
<1>2. PICK e : HoldsLines(view, Lines(shown, e))
  BY DEF StackInv, ViewInv
<1>3. Len(view.lines) \in Nat /\ (view.scrollable => Len(view.lines) > Visible)
  BY <1>1, <1>2, Held
<1>4. \A most \in Nat : Step(index, most, up) \in Nat
  BY <1>1 DEF Step
<1>5. SameLines(view, view)
  BY <1>1 DEF SameLines
<1>6. CASE UNCHANGED <<index, view>>
  BY <1>1, <1>5, <1>6
<1>7. CASE /\ view.scrollable
           /\ index' = Step(index, Len(view.lines) - 1, up)
           /\ view' = SetVisibleEndLine(view, index')
  <2>1. Len(view.lines) - 1 \in Nat
    BY <1>3, <1>7, TemplateAssumption, Screen
  <2>2. index' \in Nat
    BY <1>4, <1>7, <2>1
  <2> QED BY <1>1, <1>3, <1>7, <2>2, EndLineKeeps
<1>8. CASE /\ ~view.scrollable /\ UNCHANGED view
           /\ index' = IF Items(view) = {} THEN index
                       ELSE Step(index, Cardinality(Items(view)) - 1, up)
  <2>1. Cardinality(Items(view)) \in Nat /\ (Items(view) # {} => Cardinality(Items(view)) > 0)
    BY <1>3, ItemsOfView
  <2>2. Items(view) # {} => Cardinality(Items(view)) - 1 \in Nat
    BY <2>1
  <2>3. index' \in Nat
    BY <1>1, <1>4, <1>8, <2>2
  <2> QED BY <1>5, <1>8, <2>3
<1> QED BY <1>6, <1>7, <1>8 DEF Navigate

WalkNext == Walk!Down \/ Walk!Up \/ Walk!Edit \/ Walk!Finish

WalkStep == WalkNext \/ UNCHANGED <<Path, setting>>

(* What Release needs of the state it finds.                                 *)
LEMMA Released ==
  ASSUME StackInv, NEW b \in ButtonName, Release(b)
  PROVE  /\ page \in Page /\ index \in Nat /\ shown # None /\ shown \in Page /\ shown' = shown
         /\ IsView(view) /\ SameLines(view, view) /\ IsEnvironment(env)
         /\ buttons' \in ButtonStates
         /\ buttons'["confirm"] = "seen" => buttons["confirm"] = "seen"
         /\ b = "confirm" => shown = page /\ buttons'["confirm"] # "seen"
<1>1. TypeInv /\ ViewInv /\ buttons[b] = "seen" /\ buttons' = [buttons EXCEPT ![b] = "up"] /\ shown' = shown
  BY DEF StackInv, Release
<1>2. buttons' \in ButtonStates
  BY <1>1 DEF TypeInv, ButtonStates
<1>3. "confirm" \in ButtonName
  BY DEF ButtonName
<1>4. /\ buttons'["confirm"] = "seen" => buttons["confirm"] = "seen"
      /\ b = "confirm" => buttons'["confirm"] # "seen"
  BY <1>1, <1>3 DEF TypeInv
<1>5. shown # None /\ (b = "confirm" => shown = page)
  BY <1>1 DEF ViewInv
<1> QED BY <1>1, <1>2, <1>4, <1>5 DEF TypeInv, SameLines

LEMMA MenuJumpStep ==
  ASSUME StackInv, Release("confirm"), ~Editing, HasLine, Chosen.kind = "menu", MenuJump(Chosen)
  PROVE  StackInv' /\ WalkStep
<1> DEFINE e == [page |-> page, cursor |-> index, scroll |-> view.start]
           q == Chosen.what
<1>0. "confirm" \in ButtonName
  BY DEF ButtonName
<1>1. /\ page \in Page /\ index \in Nat /\ shown # None /\ shown' = shown /\ IsView(view)
      /\ IsEnvironment(env) /\ buttons' \in ButtonStates /\ shown = page
      /\ buttons'["confirm"] # "seen"
  BY <1>0, Released
<1>2. Allowed(page, Chosen)
  BY <1>1, ChosenOf
<1>3. q \in Below[page]
  BY <1>2 DEF Allowed
<1>4. q \in Plain /\ Depth[q] = Depth[page] + 1
  BY <1>1, <1>3, Deeper
<1>5. /\ history' = Push(history, e) /\ page' = q /\ index' = 0
      /\ view' = SetVisibleEndLine(view, 0) /\ env' = Jumped(q, Chosen.arg, env)
      /\ UNCHANGED <<popup, setting>>
  BY DEF MenuJump, SwitchToPage
<1>6. /\ history \in Seq(Entry) /\ popup = None /\ setting = None /\ Depth[page] = Len(history)
      /\ \A i \in DOMAIN history : Depth[history[i].page] = i - 1
  BY DEF StackInv, TypeInv, WalkInv, Current
<1>7. e \in Entry
  BY <1>1 DEF Entry, Plain, Editing, IsView
<1>8. page \notin Pages(history)
  <2>1. \A i \in DOMAIN history : i \in Nat /\ i - 1 < Len(history) /\ Len(history) \in Nat
    BY <1>6
  <2>2. \A i \in DOMAIN history : Depth[history[i].page] # Depth[page]
    BY <1>6, <2>1
  <2> QED BY <2>2 DEF Pages
<1>9. history' = Append(history, e)
  BY <1>5, <1>8 DEF Push
<1>10. SameLines(view, view')
  <2>1. PICK f : HoldsLines(view, Lines(page, f))
    BY <1>1 DEF StackInv, ViewInv
  <2>2. Len(view.lines) \in Nat /\ (view.scrollable => Len(view.lines) > Visible)
    BY <1>1, <2>1, Held
  <2> QED BY <1>1, <1>5, <2>2, EndLineKeeps
<1>11. IsEnvironment(env')
  BY <1>1, <1>5, ButtonReads
<1> HIDE DEF e, q
<1>12. history' \in Seq(Entry) /\ Len(history') = Len(history) + 1
       /\ \A i \in DOMAIN history' : \/ i \in DOMAIN history /\ history'[i] = history[i]
                                     \/ i = Len(history) + 1 /\ history'[i] = e
  BY <1>6, <1>7, <1>9
<1>13. WalkInv'
  <2>1. Len(history) \in Nat /\ e.page = page
    BY <1>6 DEF e
  <2>2. ASSUME NEW i \in DOMAIN history' PROVE Depth[history'[i].page] = i - 1
    BY <1>6, <1>12, <2>1
  <2>3. Depth[Current'] = Len(history') /\ (Editing' <=> popup' # None) /\ (Editing' <=> setting' # None)
    BY <1>4, <1>5, <1>6, <1>12 DEF Current, Editing, Plain
  <2> QED BY <2>2, <2>3 DEF WalkInv
<1>14. Path = PathOf(history, page) /\ Path' = PathOf(Append(history, e), q)
  BY <1>5, <1>6, <1>9 DEF Path, PathOf
<1>15. Path' = Append(Path, q) /\ Walk!Last(Path) = page
  <2>1. e.page = page /\ q \in Page
    BY <1>4 DEF e, Plain
  <2> QED BY <1>1, <1>6, <1>7, <1>14, <2>1, PathDown, PathIs
<1>16. Walk!Down
  BY <1>3, <1>5, <1>6, <1>15 DEF Walk!Down, q
<1>17. q \in Page /\ index' \in Nat
  BY <1>4, <1>5 DEF Plain
<1> QED BY <1>1, <1>5, <1>6, <1>10, <1>11, <1>12, <1>13, <1>16, <1>17, StackMoves DEF WalkStep, WalkNext, StackInv, TypeInv

LEMMA BackStep ==
  ASSUME StackInv, Release("confirm"), ~Editing, BackItem
  PROVE  StackInv' /\ WalkStep
<1>0. "confirm" \in ButtonName
  BY DEF ButtonName
<1>1. /\ page \in Page /\ index \in Nat /\ shown # None /\ shown' = shown /\ IsView(view)
      /\ IsEnvironment(env) /\ buttons' \in ButtonStates /\ SameLines(view, view)
      /\ buttons'["confirm"] # "seen"
  BY <1>0, Released
<1>2. /\ history \in Seq(Entry) /\ popup = None /\ setting = None /\ Depth[page] = Len(history)
      /\ \A i \in DOMAIN history : Depth[history[i].page] = i - 1
  BY DEF StackInv, TypeInv, WalkInv, Current
<1>3. UNCHANGED <<popup, setting, env>>
  BY DEF BackItem, world
<1>4. CASE history = <<>>
  <2>1. UNCHANGED <<page, index, history, view>>
    BY <1>4 DEF BackItem
  <2> QED BY <1>1, <1>3, <2>1, StackStays DEF WalkStep
<1>5. CASE history # <<>>
  <2> DEFINE h == history
  <2>1. /\ Top(h) \in Entry /\ Pop(h) \in Seq(Entry) /\ Len(Pop(h)) = Len(h) - 1
        /\ \A i \in 1..(Len(h) - 1) : Pop(h)[i] = h[i]
        /\ PathOf(Pop(h), Top(h).page) = Walk!Front(PathOf(h, page))
        /\ Len(PathOf(h, page)) > 1
    BY <1>1, <1>2, <1>5, PathUp
  <2>2. /\ page' = Top(h).page /\ index' = Top(h).cursor /\ history' = Pop(h)
        /\ view' = SetScrollPosition(view, Top(h).scroll)
    BY <1>5 DEF BackItem
  <2>3. Top(h).page \in Plain /\ index' \in Nat /\ Top(h).scroll \in Nat
    BY <2>1, <2>2 DEF Entry
  <2>4. SameLines(view, view')
    BY <1>1, <2>2, <2>3, ScrollKeeps
  <2>5. WalkInv'
    <3>1. Len(h) \in Nat \ {0} /\ DOMAIN h = 1..Len(h) /\ DOMAIN history' = 1..(Len(h) - 1)
      BY <1>2, <1>5, <2>1, <2>2
    <3>2. ASSUME NEW i \in DOMAIN history' PROVE Depth[history'[i].page] = i - 1
      BY <1>2, <2>1, <2>2, <3>1
    <3>3. Depth[page'] = Len(history')
      BY <1>2, <2>1, <2>2, <3>1 DEF Top
    <3> QED BY <1>2, <1>3, <2>2, <2>3, <3>2, <3>3 DEF WalkInv, Current, Editing, Plain
  <2>6. Path = PathOf(history, page) /\ Path' = PathOf(Pop(h), Top(h).page)
    BY <1>2, <1>3, <2>2 DEF Path, PathOf
  <2>7. Walk!Up
    BY <1>2, <1>3, <2>1, <2>6 DEF Walk!Up
  <2>8. StackInv'
    BY <1>1, <1>2, <1>3, <2>1, <2>2, <2>3, <2>4, <2>5, StackMoves DEF Plain
  <2> QED BY <2>7, <2>8 DEF WalkStep, WalkNext
<1> QED BY <1>4, <1>5

LEMMA IntSettingStep ==
  ASSUME StackInv, Release("confirm"), ~Editing, HasLine, Chosen.kind = "int", IntSetting(Chosen)
  PROVE  StackInv' /\ WalkStep
<1>0. "confirm" \in ButtonName
  BY DEF ButtonName
<1>1. /\ page \in Page /\ index \in Nat /\ shown # None /\ shown' = shown /\ IsView(view)
      /\ IsEnvironment(env) /\ buttons' \in ButtonStates /\ SameLines(view, view)
      /\ buttons'["confirm"] # "seen" /\ shown = page
  BY <1>0, Released
<1>2. /\ history \in Seq(Entry) /\ popup = None /\ setting = None /\ Depth[page] = Len(history)
      /\ \A i \in DOMAIN history : Depth[history[i].page] = i - 1
  BY DEF StackInv, TypeInv, WalkInv, Current
<1>3. /\ popup' = [page |-> page, index |-> index] /\ setting' = Chosen.what
      /\ page' = "__int_setting__" /\ UNCHANGED <<index, history, view, env>>
  BY DEF IntSetting, world
<1>4. page \in Plain
  BY <1>1 DEF Editing, Plain
<1>5. popup' \in Caller /\ popup'.page = page /\ popup' \in [page : Page, index : Nat]
  BY <1>1, <1>3, <1>4 DEF Caller
<1>6. popup' # None
  BY <1>5, UiAssumption
<1>7. setting' \in Numbers[page] /\ setting' # None
  <2>1. Allowed(page, Chosen)
    BY <1>1, ChosenOf
  <2>2. setting' \in Numbers[page]
    BY <1>3, <2>1 DEF Allowed
  <2> QED BY <1>1, <2>2, NumberNames, UiAssumption
<1>8. WalkInv'
  <2>1. Current' = page
    BY <1>5, <1>6 DEF Current
  <2> QED BY <1>2, <1>3, <1>6, <1>7, <2>1 DEF WalkInv, Editing
<1>9. Path = PathOf(history, page) /\ UNCHANGED Path
  BY <1>2, <1>3, <1>5, <1>6 DEF Path, PathOf
<1>10. Walk!Last(Path) = page
  BY <1>1, <1>2, <1>9, PathIs
<1>11. Walk!Edit
  BY <1>2, <1>7, <1>9, <1>10 DEF Walk!Edit
<1>12. "__int_setting__" \in Page
  BY DEF Page
<1>13. StackInv'
  BY <1>1, <1>2, <1>3, <1>5, <1>8, <1>12, StackMoves
<1> QED BY <1>11, <1>13 DEF WalkStep, WalkNext

LEMMA CompleteStep ==
  ASSUME StackInv, Release("confirm"), Editing, Complete
  PROVE  StackInv' /\ WalkStep
<1>0. "confirm" \in ButtonName
  BY DEF ButtonName
<1>1. /\ page \in Page /\ index \in Nat /\ shown # None /\ shown' = shown /\ IsView(view)
      /\ IsEnvironment(env) /\ buttons' \in ButtonStates /\ SameLines(view, view)
      /\ buttons'["confirm"] # "seen"
  BY <1>0, Released
<1>2. /\ history \in Seq(Entry) /\ popup \in Caller /\ popup # None /\ setting # None
      /\ Depth[popup.page] = Len(history)
      /\ \A i \in DOMAIN history : Depth[history[i].page] = i - 1
  BY DEF StackInv, TypeInv, WalkInv, Current
<1>3. /\ page' = popup.page /\ index' = popup.index /\ popup' = None /\ setting' = None
      /\ UNCHANGED <<history, view, env>>
  BY DEF Complete, world
<1>4. page' \in Plain /\ index' \in Nat
  BY <1>2, <1>3 DEF Caller
<1>5. WalkInv'
  BY <1>2, <1>3, <1>4 DEF WalkInv, Current, Editing, Plain
<1>6. UNCHANGED Path
  BY <1>2, <1>3 DEF Path
<1>7. Walk!Finish
  BY <1>2, <1>3, <1>6 DEF Walk!Finish
<1>8. StackInv'
  BY <1>1, <1>2, <1>3, <1>4, <1>5, StackMoves DEF Plain
<1> QED BY <1>7, <1>8 DEF WalkStep, WalkNext

(* A release acts in one of these ways.                                      *)
LEMMA ReleaseCases ==
  ASSUME NEW b \in ButtonName, Release(b)
  PROVE  \/ Editing /\ b # "confirm" /\ Adjust(b = "up")
         \/ Editing /\ b = "confirm" /\ Complete
         \/ ~Editing /\ OnLockedSelector /\ SelectorInput(b)
         \/ ~Editing /\ ~OnLockedSelector /\ b # "confirm" /\ Navigate(b = "up")
         \/ /\ ~Editing /\ ~OnLockedSelector /\ b = "confirm"
            /\ \/ UNCHANGED <<stack, view, locked, world, values>>
               \/ HasLine /\ Chosen.kind = "menu" /\ MenuJump(Chosen)
               \/ HasLine /\ Chosen.kind = "int" /\ IntSetting(Chosen)
               \/ HasLine /\ Chosen.kind = "selector" /\ SelectorItem
               \/ HasLine /\ Chosen.kind = "back" /\ BackItem
               \/ HasLine /\ Chosen.kind = "button" /\ ButtonItem(Chosen)
BY DEF Release, Joystick, Special, Confirm

LEMMA ReleaseStep ==
  ASSUME StackInv, NEW b \in ButtonName, Release(b)
  PROVE  StackInv' /\ WalkStep
<1>1. /\ page \in Page /\ index \in Nat /\ shown # None /\ shown' = shown /\ IsView(view)
      /\ SameLines(view, view) /\ IsEnvironment(env) /\ buttons' \in ButtonStates
      /\ buttons'["confirm"] = "seen" => buttons["confirm"] = "seen"
  BY Released
<1>2. CASE Editing /\ b # "confirm" /\ Adjust(b = "up")
  <2>1. UNCHANGED <<page, index, history, popup, setting, view, env>>
    BY <1>2 DEF Adjust, stack, world
  <2> QED BY <1>1, <2>1, StackStays DEF WalkStep
<1>3. CASE Editing /\ b = "confirm" /\ Complete
  BY <1>3, CompleteStep
<1>4. CASE SelectorInput(b)
  <2>1. /\ UNCHANGED <<page, index, history, popup, setting, view>>
        /\ env' = env \/ env' = Selected(LineAt(view, index).what, b = "up", env)
    BY <1>4 DEF SelectorInput, stack, world, Becomes
  <2>2. IsEnvironment(env')
    BY <1>1, <2>1, ButtonReads
  <2> QED BY <1>1, <2>1, <2>2, StackStays DEF WalkStep
<1>5. CASE b # "confirm" /\ Navigate(b = "up")
  <2>1. UNCHANGED <<page, history, popup, setting, env>>
    BY <1>5 DEF Navigate, world
  <2>2. index' \in Nat /\ SameLines(view, view')
    BY <1>1, <1>5, NavigateFacts
  <2> QED BY <1>1, <2>1, <2>2, StackStays DEF WalkStep
<1>6. CASE /\ ~Editing /\ ~OnLockedSelector /\ b = "confirm"
           /\ \/ UNCHANGED <<stack, view, locked, world, values>>
              \/ HasLine /\ Chosen.kind = "menu" /\ MenuJump(Chosen)
              \/ HasLine /\ Chosen.kind = "int" /\ IntSetting(Chosen)
              \/ HasLine /\ Chosen.kind = "selector" /\ SelectorItem
              \/ HasLine /\ Chosen.kind = "back" /\ BackItem
              \/ HasLine /\ Chosen.kind = "button" /\ ButtonItem(Chosen)
  <2>1. CASE UNCHANGED <<stack, view, locked, world, values>>
    <3>1. UNCHANGED <<page, index, history, popup, setting, view, env>>
      BY <2>1 DEF stack, world
    <3> QED BY <1>1, <3>1, StackStays DEF WalkStep
  <2>2. CASE HasLine /\ Chosen.kind = "menu" /\ MenuJump(Chosen)
    BY <1>6, <2>2, MenuJumpStep
  <2>3. CASE HasLine /\ Chosen.kind = "int" /\ IntSetting(Chosen)
    BY <1>6, <2>3, IntSettingStep
  <2>4. CASE SelectorItem
    <3>1. UNCHANGED <<page, index, history, popup, setting, view, env>>
      BY <2>4 DEF SelectorItem, stack, world
    <3> QED BY <1>1, <3>1, StackStays DEF WalkStep
  <2>5. CASE BackItem
    BY <1>6, <2>5, BackStep
  <2>6. CASE ButtonItem(Chosen)
    <3>1. /\ UNCHANGED <<page, index, history, popup, setting, view>>
          /\ env' = Clicked(Chosen.what, env)
      BY <2>6 DEF ButtonItem, stack, Becomes
    <3>2. IsEnvironment(env')
      BY <1>1, <3>1, ButtonReads
    <3> QED BY <1>1, <3>1, <3>2, StackStays DEF WalkStep
  <2> QED BY <1>6, <2>1, <2>2, <2>3, <2>4, <2>5, <2>6
<1> QED BY <1>2, <1>3, <1>4, <1>5, <1>6, ReleaseCases

LEMMA StackInit == Init => StackInv
<1> SUFFICES ASSUME Init PROVE StackInv
  OBVIOUS
<1>1. TypeInv
  <2>1. page \in Page /\ index \in Nat /\ history \in Seq(Entry) /\ popup \in Caller \cup {None}
        /\ shown \in Page \cup {None}
    BY DEF Init, Page
  <2>2. IsView(view)
    BY DEF Init, EmptyView, IsView
  <2>3. IsEnvironment(env)
    BY DEF Init, InitialEnvironment, IsEnvironment
  <2>4. buttons \in [ButtonName -> {"up", "down", "seen"}]
    BY DEF Init
  <2> QED BY <2>1, <2>2, <2>3, <2>4 DEF TypeInv
<1>2. ViewInv
  BY DEF Init, ViewInv, ButtonName
<1>3. WalkInv
  <2>1. "main" \in Page /\ Current = "main"
    BY DEF Init, Page, Current
  <2> QED BY <2>1 DEF Init, WalkInv, Depth, Editing
<1> QED BY <1>1, <1>2, <1>3 DEF StackInv

LEMMA StackStep ==
  ASSUME StackInv, [Next]_vars
  PROVE  StackInv' /\ WalkStep
<1>0. /\ page \in Page /\ index \in Nat /\ IsView(view) /\ IsEnvironment(env)
      /\ SameLines(view, view) /\ buttons \in ButtonStates
  BY DEF StackInv, TypeInv, SameLines, ButtonStates
<1>1. ASSUME UNCHANGED <<page, index, history, popup, setting, view, shown>>,
             IsEnvironment(env'), buttons' \in ButtonStates,
             \A b \in ButtonName : buttons'[b] = "seen" => buttons[b] = "seen"
      PROVE  StackInv' /\ WalkStep
  <2>1. TypeInv'
    BY <1>1 DEF StackInv, TypeInv, ButtonStates
  <2>2. ViewInv'
    BY <1>1 DEF StackInv, ViewInv, ButtonName
  <2>3. WalkInv' /\ UNCHANGED <<Path, setting>>
    BY <1>1 DEF StackInv, WalkInv, Current, Path, Editing
  <2> QED BY <2>1, <2>2, <2>3 DEF StackInv, WalkStep
<1>2. ASSUME NEW b \in ButtonName, Press(b) PROVE StackInv' /\ WalkStep
  <2>1. /\ buttons' = [buttons EXCEPT ![b] = "down"] /\ UNCHANGED <<page, history, popup, setting>>
        /\ IF dark THEN Draw ELSE UNCHANGED <<index, view, shown, env>>
    BY <1>2 DEF Press
  <2>2. /\ buttons' \in ButtonStates
        /\ \A c \in ButtonName : buttons'[c] = "seen" => buttons[c] = "seen"
    BY <1>0, <2>1 DEF ButtonStates
  <2>3. CASE dark
    BY <2>1, <2>2, <2>3, DrawKeeps DEF WalkStep
  <2>4. CASE ~dark
    BY <1>0, <1>1, <2>1, <2>2, <2>4
  <2> QED BY <2>3, <2>4
<1>3. ASSUME NEW b \in ButtonName, ReleaseIgnored(b) PROVE StackInv' /\ WalkStep
  <2>1. /\ buttons' = [buttons EXCEPT ![b] = "up"]
        /\ UNCHANGED <<page, index, history, popup, setting, view, shown, env>>
    BY <1>3 DEF ReleaseIgnored, stack, world
  <2>2. /\ buttons' \in ButtonStates
        /\ \A c \in ButtonName : buttons'[c] = "seen" => buttons[c] = "seen"
    BY <1>0, <2>1 DEF ButtonStates
  <2> QED BY <1>0, <1>1, <2>1, <2>2
<1>4. CASE ScreenTimeout
  BY <1>0, <1>1, <1>4 DEF ScreenTimeout, stack, world
<1>5. CASE Frame
  <2>1. /\ Draw /\ UNCHANGED <<page, history, popup, setting>>
        /\ buttons' = [b \in ButtonName |-> IF b \in Down THEN "seen" ELSE "up"]
    BY <1>5 DEF Frame
  <2>2. buttons' \in ButtonStates
    BY <2>1 DEF ButtonStates
  <2> QED BY <2>1, <2>2, DrawKeeps DEF WalkStep
<1>6. CASE Core0
  <2>1. /\ Meanwhile(env, env')
        /\ UNCHANGED <<page, index, history, popup, setting, view, shown, buttons>>
    BY <1>6 DEF Core0, stack, keys
  <2>2. IsEnvironment(env')
    BY <1>0, <2>1, MeanwhileKeeps
  <2> QED BY <1>0, <1>1, <2>1, <2>2
<1>7. CASE UNCHANGED vars
  <2>1. UNCHANGED <<page, index, history, popup, setting, view, shown, env, buttons>>
    BY <1>7 DEF vars, stack, world, keys
  <2> QED BY <1>0, <1>1, <2>1
<1> QED BY <1>2, <1>3, <1>4, <1>5, <1>6, <1>7, ReleaseStep DEF Next

THEOREM StackKept == Spec => []StackInv
<1>1. StackInv /\ [Next]_vars => StackInv'
  BY StackStep
<1> QED BY <1>1, StackInit, PTL DEF Spec

(* Every button press is one step in the tree of pages.                      *)
THEOREM MenuImplemented == Spec => ImplementsMenu
<1>1. Init => Walk!Init
  <2> SUFFICES ASSUME Init PROVE Walk!Init
    OBVIOUS
  <2>1. history = <<>> /\ popup = None /\ page = "main" /\ setting = None
    BY DEF Init
  <2>2. Path = [i \in DOMAIN <<>> |-> <<>>[i].page] \o <<"main">>
    BY <2>1 DEF Path
  <2>3. Path = <<"main">>
    BY <2>2
  <2> QED BY <2>1, <2>3 DEF Walk!Init
<1>2. StackInv /\ [Next]_vars => [Walk!Down \/ Walk!Up \/ Walk!Edit \/ Walk!Finish]_<<Path, setting>>
  BY StackStep DEF WalkStep, WalkNext
<1> QED BY <1>1, <1>2, StackKept, PTL DEF Spec, ImplementsMenu, Walk!Spec

-----------------------------------------------------------------------------
(* The lock.  What would make of a line a selector for good: the page shows  *)
(* it from what core 1 and core 0 do meanwhile, too, and scrolls.            *)
IsSelector(i) == i < Len(view.lines) /\ LineAt(view, i).kind = "selector"

Lasts(i) ==
  /\ view.scrollable /\ Sel(page, env, i)
  /\ LineAt(view, i).what = "delay" => page = "communication_settings" /\ i = 3

LockInv ==
  /\ locked => shown = page /\ IsSelector(index) /\ Lasts(index)
  /\ ~locked /\ buttons["confirm"] = "seen" => \A i \in Nat : IsSelector(i) => Lasts(i)

LEMMA LockDrawn ==
  ASSUME StackInv, Draw, UNCHANGED page
  PROVE  /\ \A i \in Nat : IsSelector(i)' => Lasts(i)'
         /\ \A i \in Nat : Sel(page, env, i) =>
              view'.scrollable /\ IsSelector(i)' /\ Sel(page, env, i)'
<1> DEFINE loaded == Load(page, env)
           l == Lines(page, loaded)
<1>1. page \in Page
  BY DEF StackInv, TypeInv
<1>2. IsView(view') /\ HoldsLines(view', l) /\ env' = Leave(page, loaded)
  BY DrawFacts
<1>3. PICK T : l \in Seq(T)
  BY <1>1, PageLines DEF AllAllowed
<1>4. /\ view'.lines = Laid(l) /\ (view'.scrollable <=> Len(l) > Visible)
      /\ Len(l) \in Nat /\ DOMAIN l = 1..Len(l)
  BY <1>2, <1>3 DEF HoldsLines
<1>5. /\ Len(l) > Visible => Laid(l) = l
      /\ ~ (Len(l) > Visible) => Len(Laid(l)) = Visible
      /\ \A i \in 1..Len(Laid(l)) : i <= Len(l) => Laid(l)[i] = l[i]
      /\ \A i \in 1..Len(Laid(l)) : i > Len(l) => Laid(l)[i] = Blank
      /\ Len(Laid(l)) \in Nat
  <2> HIDE DEF l
  <2>1. Laid(l) \in Seq(T \cup {Blank})
    BY <1>3, LaidLines
  <2> QED BY <1>3, <2>1, LaidLines
<1> HIDE DEF l, loaded
<1>6. ASSUME NEW i \in Nat, IsSelector(i)' PROVE Lasts(i)'
  <2>1. i < Len(Laid(l)) /\ Laid(l)[i + 1].kind = "selector"
    BY <1>4, <1>6 DEF IsSelector, LineAt
  <2>2. i + 1 \in 1..Len(Laid(l))
    BY <1>5, <2>1
  <2>3. i + 1 <= Len(l)
    BY <1>4, <1>5, <2>1, <2>2, Kinds
  <2>4. Sel(page, loaded, i) /\ Laid(l)[i + 1] = l[i + 1]
    BY <1>4, <1>5, <2>1, <2>2, <2>3 DEF Sel, l
  <2>5. /\ Len(l) > Visible /\ env' = loaded
        /\ l[i + 1].what = "delay" => page = "communication_settings" /\ i = 3
    BY <1>1, <1>2, <2>4, SelectorDrawn DEF l
  <2> QED BY <1>4, <2>4, <2>5 DEF Lasts, LineAt
<1>7. ASSUME NEW i \in Nat, Sel(page, env, i)
      PROVE  view'.scrollable /\ IsSelector(i)' /\ Sel(page, env, i)'
  <2>1. Len(Lines(page, env)) > Visible /\ loaded = env /\ Leave(page, env) = env
    BY <1>1, <1>7, SelectorDrawn DEF loaded
  <2>2. env' = env /\ l = Lines(page, env) /\ Laid(l) = l
    BY <1>2, <1>5, <2>1 DEF l
  <2>3. i + 1 \in DOMAIN l /\ l[i + 1].kind = "selector"
    BY <1>7, <2>2 DEF Sel
  <2>4. view'.lines = l /\ view'.scrollable
    BY <1>4, <2>1, <2>2
  <2>5. i < Len(l)
    BY <1>4, <2>3
  <2> QED BY <1>7, <2>2, <2>3, <2>4, <2>5 DEF IsSelector, LineAt
<1> QED BY <1>6, <1>7

LEMMA LockOnLine ==
  ASSUME StackInv, LockInv, locked PROVE OnLockedSelector
<1>1. index < Len(view.lines) /\ LineAt(view, index).kind = "selector"
  BY DEF LockInv, IsSelector
<1> QED BY <1>1 DEF OnLockedSelector

LEMMA LockStep ==
  ASSUME StackInv, LockInv, [Next]_vars
  PROVE  LockInv'
<1>0. /\ page \in Page /\ index \in Nat /\ IsView(view) /\ IsEnvironment(env)
      /\ buttons \in ButtonStates
  BY DEF StackInv, TypeInv, ButtonStates
<1>1. ASSUME UNCHANGED <<page, index, view, shown, locked>>,
             buttons'["confirm"] = "seen" => buttons["confirm"] = "seen",
             \A i \in Nat : Sel(page, env, i) => Sel(page, env, i)'
      PROVE  LockInv'
  BY <1>0, <1>1 DEF LockInv, IsSelector, Lasts
<1>2. ASSUME Draw, UNCHANGED <<page, locked>>
      PROVE  LockInv'
  <2>1. /\ \A i \in Nat : IsSelector(i)' => Lasts(i)'
        /\ \A i \in Nat : Sel(page, env, i) =>
             view'.scrollable /\ IsSelector(i)' /\ Sel(page, env, i)'
    BY <1>2, LockDrawn
  <2>2. ASSUME locked PROVE shown' = page' /\ IsSelector(index)' /\ Lasts(index)'
    <3>1. Sel(page, env, index)
      BY <2>2 DEF LockInv, Lasts
    <3>2. IsSelector(index)' = (index' < Len(view'.lines) /\ LineAt(view', index').kind = "selector")
      BY DEF IsSelector
    <3>3. view'.scrollable /\ index < Len(view'.lines)
      BY <1>0, <2>1, <3>1 DEF IsSelector
    <3>4. index' = index /\ shown' = page'
      BY <1>2, <3>3, DrawFacts
    <3>5. index < Len(view'.lines) /\ LineAt(view', index).kind = "selector"
      BY <1>0, <2>1, <3>1 DEF IsSelector
    <3>6. Lasts(index)'
      <4>1. view'.scrollable /\ Sel(page', env', index)
        BY <1>0, <1>2, <2>1, <3>1 DEF Sel
      <4>2. LineAt(view', index).what = "delay" => page' = "communication_settings" /\ index = 3
        BY <1>0, <2>1, <3>5 DEF Lasts, IsSelector
      <4> QED BY <3>4, <4>1, <4>2 DEF Lasts
    <3> QED BY <3>4, <3>5, <3>6 DEF IsSelector
  <2> QED BY <1>2, <2>1, <2>2 DEF LockInv
<1>3. ASSUME NEW b \in ButtonName, Press(b) PROVE LockInv'
  <2>1. /\ buttons' = [buttons EXCEPT ![b] = "down"] /\ UNCHANGED <<page, locked>>
        /\ IF dark THEN Draw ELSE UNCHANGED <<index, view, shown, env>>
    BY <1>3 DEF Press
  <2>2. buttons'["confirm"] = "seen" => buttons["confirm"] = "seen"
    BY <1>0, <2>1 DEF ButtonStates, ButtonName
  <2> QED BY <1>1, <1>2, <2>1, <2>2 DEF Sel
<1>4. ASSUME NEW b \in ButtonName, ReleaseIgnored(b) PROVE LockInv'
  <2>1. /\ buttons' = [buttons EXCEPT ![b] = "up"]
        /\ UNCHANGED <<page, index, view, shown, env, locked>>
    BY <1>4 DEF ReleaseIgnored, stack, world
  <2>2. buttons'["confirm"] = "seen" => buttons["confirm"] = "seen"
    BY <1>0, <2>1 DEF ButtonStates, ButtonName
  <2> QED BY <1>1, <2>1, <2>2 DEF Sel
<1>5. CASE ScreenTimeout
  BY <1>1, <1>5 DEF ScreenTimeout, stack, world, Sel
<1>6. CASE Frame
  BY <1>2, <1>6 DEF Frame
<1>7. CASE Core0
  <2>1. /\ Meanwhile(env, env') /\ UNCHANGED <<page, index, view, shown, buttons, locked>>
    BY <1>7 DEF Core0, stack, keys
  <2>2. SameSelectors(env, env')
    BY <1>0, <2>1, MeanwhileKeeps
  <2>3. \A i \in Nat : Sel(page, env, i) => Sel(page, env, i)'
    <3>1. \A i \in Nat : Sel(page, env, i) => Sel(page, env', i)
      BY <1>0, <2>2, SelectorStays
    <3> QED BY <2>1, <3>1 DEF Sel
  <2> QED BY <1>1, <2>1, <2>3
<1>8. CASE UNCHANGED vars
  BY <1>1, <1>8 DEF vars, stack, world, keys, Sel
<1>9. ASSUME NEW b \in ButtonName, Release(b) PROVE LockInv'
  <2>1. /\ shown' = shown /\ SameLines(view, view)
        /\ buttons'["confirm"] = "seen" => buttons["confirm"] = "seen"
        /\ b = "confirm" => shown = page /\ buttons'["confirm"] # "seen" /\ buttons["confirm"] = "seen"
    <3>1. b = "confirm" => buttons["confirm"] = "seen"
      BY <1>9 DEF Release
    <3> QED BY <1>9, <3>1, Released
  <2>2. CASE Editing /\ b # "confirm" /\ Adjust(b = "up")
    <3>1. UNCHANGED <<page, index, view, env, locked>>
      BY <2>2 DEF Adjust, stack, world
    <3> QED BY <1>1, <2>1, <3>1 DEF Sel
  <2>3. CASE ~OnLockedSelector /\ b = "confirm" /\ UNCHANGED locked
    BY <2>1, <2>3, LockOnLine DEF LockInv
  <2>4. CASE Editing /\ b = "confirm" /\ Complete
    <3>1. UNCHANGED locked
      BY <2>4 DEF Complete
    <3>2. ~locked
      <4>1. page \notin SelectorPages
        BY <2>4 DEF Editing, SelectorPages
      <4> QED BY <1>0, <4>1, SelectorPage DEF LockInv, Lasts
    <3> QED BY <2>1, <2>4, <3>1, <3>2 DEF LockInv
  <2>5. CASE ~Editing /\ OnLockedSelector /\ SelectorInput(b)
    <3>1. UNCHANGED <<page, index, view>> /\ locked' = (b # "confirm")
      BY <2>5 DEF SelectorInput, stack
    <3>2. CASE b = "confirm"
      BY <2>1, <3>1, <3>2 DEF LockInv
    <3>3. CASE b # "confirm"
      <4>1. locked /\ shown = page /\ IsSelector(index) /\ Lasts(index)
        BY <2>5 DEF OnLockedSelector, LockInv
      <4>2. env' = Selected(LineAt(view, index).what, b = "up", env)
        BY <2>5, <3>3 DEF SelectorInput, Becomes
      <4>3. Sel(page, env', index)
        <5>1. CASE LineAt(view, index).what = "delay"
          BY <4>1, <5>1, CommunicationSelectors DEF Lasts
        <5>2. CASE LineAt(view, index).what # "delay"
          BY <4>1, <4>2, <5>2 DEF Lasts, Selected
        <5> QED BY <5>1, <5>2
      <4>4. IsSelector(index)' /\ Lasts(index)'
        BY <3>1, <4>1, <4>3 DEF IsSelector, Lasts, Sel
      <4> QED BY <2>1, <3>1, <3>3, <4>1, <4>4 DEF LockInv
    <3> QED BY <3>2, <3>3
  <2>6. CASE ~Editing /\ ~OnLockedSelector /\ b # "confirm" /\ Navigate(b = "up")
    <3>1. UNCHANGED <<page, locked, env>> /\ ~locked
      BY <2>6, LockOnLine DEF Navigate, world
    <3>2. SameLines(view, view')
      BY <1>9, <2>6, Released, NavigateFacts
    <3>3. \A i \in Nat : (IsSelector(i)' => IsSelector(i)) /\ (Lasts(i) => Lasts(i)')
      BY <3>1, <3>2 DEF IsSelector, Lasts, SameLines, LineAt, Sel
    <3> QED BY <2>1, <3>1, <3>3 DEF LockInv
  <2>7. CASE ~Editing /\ ~OnLockedSelector /\ b = "confirm" /\ HasLine
             /\ Chosen.kind = "selector" /\ SelectorItem
    <3>1. UNCHANGED <<page, index, view, env>> /\ ~locked
      BY <2>7, LockOnLine DEF SelectorItem, stack, world
    <3> DEFINE k == ChosenLine(view, index)
    <3>2. k \in 0..(Len(view.lines) - 1)
      BY <2>1, <2>7, ChosenOf
    <3>3. k \in Nat /\ k < Len(view.lines)
      <4>1. PICK e : HoldsLines(view, Lines(page, e))
        BY <1>9, <2>1, <2>7, Released DEF StackInv, ViewInv
      <4>2. Len(view.lines) \in Nat
        BY <1>0, <4>1, Held
      <4> HIDE DEF k
      <4> QED BY <3>2, <4>2
    <3>4. IsSelector(k)
      BY <2>7, <3>3 DEF IsSelector, Chosen
    <3>5. Lasts(k)
      BY <2>1, <2>7, <3>1, <3>3, <3>4 DEF LockInv
    <3>6. k = index
      BY <3>5 DEF Lasts, ChosenLine
    <3>7. IsSelector(index)' /\ Lasts(index)'
      BY <3>1, <3>4, <3>5, <3>6 DEF IsSelector, Lasts, Sel
    <3>8. locked' = TRUE
      BY <2>7 DEF SelectorItem
    <3> QED BY <2>1, <2>7, <3>1, <3>7, <3>8 DEF LockInv
  <2>8. CASE /\ ~Editing /\ ~OnLockedSelector /\ b = "confirm"
             /\ \/ UNCHANGED <<stack, view, locked, world, values>>
                \/ HasLine /\ Chosen.kind = "menu" /\ MenuJump(Chosen)
                \/ HasLine /\ Chosen.kind = "int" /\ IntSetting(Chosen)
                \/ HasLine /\ Chosen.kind = "back" /\ BackItem
                \/ HasLine /\ Chosen.kind = "button" /\ ButtonItem(Chosen)
    <3>1. UNCHANGED locked
      BY <2>8 DEF MenuJump, IntSetting, BackItem, ButtonItem
    <3> QED BY <2>3, <2>8, <3>1
  <2> QED BY <1>9, <2>2, <2>4, <2>5, <2>6, <2>7, <2>8, ReleaseCases
<1> QED BY <1>3, <1>4, <1>5, <1>6, <1>7, <1>8, <1>9 DEF Next

(* The lock is on a selector of the page the display shows.                  *)
THEOREM LockStaysOnSelector == Spec => []LockOnSelector
<1>1. Init => LockInv
  BY DEF Init, LockInv, ButtonName
<1>2. StackInv /\ LockInv /\ [Next]_vars => LockInv'
  BY LockStep
<1>3. StackInv /\ LockInv => LockOnSelector
  BY DEF LockInv, IsSelector, LockOnSelector
<1> QED BY <1>1, <1>2, <1>3, StackKept, PTL DEF Spec
-----------------------------------------------------------------------------
(* The cursor.  How many lines the pages have, and which of them lead on.    *)
Short(l, n) == \E T : l \in UpTo(T, n)

LEMMA ShortConcat ==
  ASSUME NEW m \in Nat, NEW n \in Nat, NEW l, NEW k, Short(l, m), Short(k, n)
  PROVE  Short(l \o k, m + n)
<1>1. PICK T : l \in UpTo(T, m)
  BY DEF Short
<1>2. PICK U : k \in UpTo(U, n)
  BY DEF Short
<1>3. l \in UpTo(T \cup U, m) /\ k \in UpTo(T \cup U, n)
  BY <1>1, <1>2, SeqMonotonic DEF UpTo
<1>4. l \o k \in UpTo(T \cup U, m + n)
  BY <1>3, UpToConcat
<1> QED BY <1>4 DEF Short

LEMMA ShortMore ==
  ASSUME NEW m \in Nat, NEW n \in Nat, m <= n, NEW l, Short(l, m) PROVE Short(l, n)
<1>1. PICK T : l \in UpTo(T, m)
  BY DEF Short
<1>2. Len(l) \in Nat
  BY <1>1 DEF UpTo
<1>3. l \in UpTo(T, n)
  BY <1>1, <1>2 DEF UpTo
<1> QED BY <1>3 DEF Short

LEMMA ShortIf ==
  ASSUME NEW n \in Nat, NEW l, Short(l, n), NEW test PROVE Short(If(test, l), n)
<1>1. PICK T : l \in UpTo(T, n)
  BY DEF Short
<1>2. If(test, l) \in UpTo(T, n)
  BY <1>1, UpToIf
<1> QED BY <1>2 DEF Short

LEMMA ShortRepeat ==
  ASSUME NEW n \in Nat, NEW l, l = [i \in 1..n |-> l[i]] PROVE Short(l, n)
<1> DEFINE T == {l[i] : i \in 1..n}
<1>1. \A i \in 1..n : l[i] \in T
  OBVIOUS
<1> HIDE DEF T
<1>2. l \in Seq(T) /\ Len(l) = n
  BY <1>1
<1> QED BY <1>2 DEF Short, UpTo

LEMMA ShortLiterals ==
  ASSUME NEW a, NEW b, NEW c, NEW d, NEW f, NEW g, NEW h
  PROVE  /\ Short(<<a>>, 1) /\ Short(<<a, b>>, 2) /\ Short(<<a, b, c>>, 3)
         /\ Short(<<a, b, c, d>>, 4) /\ Short(<<a, b, c, d, f>>, 5)
         /\ Short(<<a, b, c, d, f, g>>, 6) /\ Short(<<a, b, c, d, f, g, h>>, 7)
<1> DEFINE T == {a, b, c, d, f, g, h}
<1>1. a \in T /\ b \in T /\ c \in T /\ d \in T /\ f \in T /\ g \in T /\ h \in T
  OBVIOUS
<1> HIDE DEF T
<1>2. /\ <<a>> \in Seq(T) /\ <<a, b>> \in Seq(T) /\ <<a, b, c>> \in Seq(T)
      /\ <<a, b, c, d>> \in Seq(T) /\ <<a, b, c, d, f>> \in Seq(T)
      /\ <<a, b, c, d, f, g>> \in Seq(T) /\ <<a, b, c, d, f, g, h>> \in Seq(T)
  BY <1>1
<1>3. /\ <<a>> \in UpTo(T, 1) /\ <<a, b>> \in UpTo(T, 2) /\ <<a, b, c>> \in UpTo(T, 3)
      /\ <<a, b, c, d>> \in UpTo(T, 4) /\ <<a, b, c, d, f>> \in UpTo(T, 5)
      /\ <<a, b, c, d, f, g>> \in UpTo(T, 6) /\ <<a, b, c, d, f, g, h>> \in UpTo(T, 7)
  BY <1>2 DEF UpTo
<1> QED BY <1>3 DEF Short

LEMMA Room ==
  /\ MaxLines \in Nat /\ Zones \in Nat /\ ZoneAreas \in Nat /\ Areas \in Nat /\ Devices \in Nat
  /\ Channels \in Nat /\ Registers \in Nat
  /\ 11 <= MaxLines /\ Zones + 3 <= MaxLines /\ ZoneAreas + 2 <= MaxLines /\ Areas + 1 <= MaxLines
  /\ Devices + 1 <= MaxLines /\ Channels + 2 <= MaxLines /\ Registers + 7 <= MaxLines
<1>1. /\ MaxLines \in Nat /\ Zones \in Nat /\ ZoneAreas \in Nat /\ Areas \in Nat /\ Devices \in Nat
      /\ Channels \in Nat /\ Registers \in Nat
  BY TemplateAssumption, PagesAssumption DEF Areas
<1> QED BY <1>1, PagesFit

LEMMA LinesFit == ASSUME NEW p \in Page, NEW e PROVE Short(Lines(p, e), MaxLines)
<1> DEFINE texts(n) == Repeat(n, LAMBDA i : Text)
<1>0. \A n \in Nat : Short(texts(n), n)
  <2> TAKE n \in Nat
  <2> DEFINE r == texts(n)
  <2>1. r = [i \in 1..n |-> Text]
    BY DEF Repeat
  <2>2. r = [i \in 1..n |-> r[i]]
    BY <2>1
  <2> HIDE DEF r
  <2>3. Short(r, n)
    BY <2>2, ShortRepeat
  <2> QED BY <2>3 DEF r
<1> HIDE DEF texts
<1>1. ASSUME NEW n \in 1..11, Short(Lines(p, e), n) PROVE Short(Lines(p, e), MaxLines)
  BY <1>1, ShortMore, Room
<1>2. CASE p = "main"
  <2>1. Lines(p, e) = <<Text, Text, Menu("main_menu")>> \/ Lines(p, e) = <<Text, Text>>
    BY <1>2 DEF Lines, MainPage
  <2>2. Short(Lines(p, e), 3) \/ Short(Lines(p, e), 2)
    BY <2>1, ShortLiterals
  <2> QED BY <1>1, <2>2
<1>3. CASE p = "main_menu"
  <2>1. Lines(p, e) = MainMenu
    BY <1>3 DEF Lines
  <2>2. Short(MainMenu, 6)
    BY ShortLiterals DEF MainMenu
  <2> QED BY <1>1, <2>1, <2>2
<1>4. CASE p = "touch_settings_main"
  <2> DEFINE a == <<Back, Menu("touch_status")>>
             b == If(Calibratable, CalibrationLines(e))
             c == If(Serial, <<Menu("area_sensitivity")>>)
             d == <<Menu("sensitivity_main")>>
  <2>1. Lines(p, e) = ((a \o b) \o c) \o d
    BY <1>4 DEF Lines, TouchSettingsMain
  <2>2. Short(a, 2) /\ Short(d, 1) /\ Short(c, 1)
    BY ShortLiterals, ShortIf
  <2>3. Short(b, 3)
    <3>1. \/ CalibrationLines(e) = <<Text, Bar>> \/ CalibrationLines(e) = <<Text>>
          \/ CalibrationLines(e) = <<Selector("target"), Button("calibrate"), Menu("zone_sensitivity")>>
      BY DEF CalibrationLines
    <3>2. \/ Short(CalibrationLines(e), 2) \/ Short(CalibrationLines(e), 1)
          \/ Short(CalibrationLines(e), 3)
      BY <3>1, ShortLiterals
    <3>3. Short(CalibrationLines(e), 3)
      BY <3>2, ShortMore
    <3> QED BY <3>3, ShortIf
  <2> HIDE DEF a, b, c, d
  <2>4. Short(a \o b, 2 + 3)
    BY <2>2, <2>3, ShortConcat
  <2>5. Short((a \o b) \o c, 5 + 1)
    BY <2>2, <2>4, ShortConcat
  <2>6. Short(((a \o b) \o c) \o d, 6 + 1)
    BY <2>2, <2>5, ShortConcat
  <2>7. Short(Lines(p, e), 7)
    BY <2>1, <2>6
  <2> QED BY <1>1, <2>7
<1>5. CASE p = "touch_status"
  <2> DEFINE r == texts(Devices)
             t == IF Devices = 0 THEN <<Text>> ELSE r
  <2>1. Lines(p, e) = <<Back>> \o t
    BY <1>5 DEF Lines, TouchStatus, texts
  <2>2. Short(<<Back>>, 1) /\ Short(<<Text>>, 1) /\ Short(r, Devices)
    BY <1>0, Room, ShortLiterals
  <2> HIDE DEF r
  <2>3. t = <<Text>> \/ t = r
    OBVIOUS
  <2> HIDE DEF t
  <2>4. Short(<<Back>> \o t, 1 + 1) \/ Short(<<Back>> \o t, 1 + Devices)
    BY <2>2, <2>3, Room, ShortConcat
  <2>5. 1 + 1 <= MaxLines /\ 1 + Devices <= MaxLines /\ 1 + 1 \in Nat /\ 1 + Devices \in Nat
    BY Room
  <2> QED BY <2>1, <2>4, <2>5, Room, ShortMore
<1>6. CASE p = "zone_sensitivity"
  <2> DEFINE r == Repeat(Zones, LAMBDA i : Selector("zone"))
             l == (<<Back, Text>> \o r) \o <<Button("special")>>
  <2>1. Lines(p, e) = l \/ Lines(p, e) = <<Back, Text>> \/ Lines(p, e) = <<Back, Text, Text>>
    BY <1>6 DEF Lines, ZoneSensitivity
  <2>2. Short(<<Back, Text>>, 2) /\ Short(<<Back, Text, Text>>, 3) /\ Short(<<Button("special")>>, 1)
    BY ShortLiterals
  <2>3. Short(r, Zones)
    <3>1. r = [i \in 1..Zones |-> Selector("zone")]
      BY DEF Repeat
    <3>2. r = [i \in 1..Zones |-> r[i]]
      BY <3>1
    <3> HIDE DEF r
    <3> QED BY <3>2, Room, ShortRepeat
  <2> HIDE DEF r
  <2>4. Short(<<Back, Text>> \o r, 2 + Zones)
    BY <2>2, <2>3, Room, ShortConcat
  <2>5. 2 + Zones \in Nat /\ (2 + Zones) + 1 \in Nat /\ (2 + Zones) + 1 <= MaxLines
    BY Room
  <2>6. Short(l, (2 + Zones) + 1)
    BY <2>2, <2>4, <2>5, ShortConcat
  <2>7. Short(l, MaxLines)
    BY <2>5, <2>6, Room, ShortMore
  <2> HIDE DEF l
  <2> QED BY <1>1, <2>1, <2>2, <2>7
<1>7. CASE p \in {"area_sensitivity", "area_sensitivity_zone"}
  <2>1. \/ Lines(p, e) = <<Back, Text, Text>>
        \/ \E n \in Nat : \E f : \E to :
             /\ IsList(f, n, to) /\ n + 2 <= MaxLines
             /\ Lines(p, e) = <<Back, Text>> \o f
    <3>1. CASE p = "area_sensitivity"
      <4>1. Lines(p, e) = AreaSensitivity(e)
        BY <3>1 DEF Lines
      <4>2. \A n \in 1..Zones : n \in Nat /\ n + 2 <= MaxLines
        BY Room
      <4> QED BY <4>1, <4>2, ZoneList
    <3>2. CASE p = "area_sensitivity_zone"
      <4>1. Lines(p, e) = AreaSensitivityZone(e)
        BY <3>2 DEF Lines
      <4>2. \A n \in 0..ZoneAreas : n \in Nat /\ n + 2 <= MaxLines
        BY Room
      <4> QED BY <4>1, <4>2, AreaList
    <3> QED BY <1>7, <3>1, <3>2
  <2>2. Short(<<Back, Text>>, 2) /\ Short(<<Back, Text, Text>>, 3)
    BY ShortLiterals
  <2>3. ASSUME NEW n \in Nat, NEW f, NEW to, IsList(f, n, to), n + 2 <= MaxLines,
               Lines(p, e) = <<Back, Text>> \o f
        PROVE  Short(Lines(p, e), MaxLines)
    <3>1. Short(f, n)
      BY <2>3, ShortRepeat DEF IsList
    <3>2. Short(<<Back, Text>> \o f, 2 + n)
      BY <2>2, <3>1, ShortConcat
    <3>3. 2 + n \in Nat /\ 2 + n <= MaxLines
      BY <2>3, Room
    <3> DEFINE x == <<Back, Text>> \o f
    <3>4. Short(x, 2 + n)
      BY <3>2
    <3> HIDE DEF x
    <3>5. Short(x, MaxLines)
      BY <3>3, <3>4, Room, ShortMore
    <3> QED BY <2>3, <3>5 DEF x
  <2>4. CASE Lines(p, e) = <<Back, Text, Text>>
    <3>1. Short(Lines(p, e), 3)
      BY <2>2, <2>4
    <3> QED BY <1>1, <3>1
  <2> QED BY <1>1, <2>1, <2>3, <2>4
<1>8. CASE p = "area_sensitivity_detail"
  <2>1. \/ Lines(p, e) = <<Back, Text, Text, Number("area", e.area)>>
        \/ Lines(p, e) = <<Back, Text, Text, Text, Text, Text>>
    BY <1>8 DEF Lines, AreaSensitivityDetail
  <2>2. Short(Lines(p, e), 4) \/ Short(Lines(p, e), 6)
    BY <2>1, ShortLiterals
  <2> QED BY <1>1, <2>2
<1>9. CASE p = "sensitivity_main"
  <2> DEFINE r == Repeat(Devices, LAMBDA d : JumpStr(DevicePage(d), d))
             t == IF Devices = 0 THEN <<Text>> ELSE r
  <2>1. Lines(p, e) = <<Back>> \o t
    BY <1>9 DEF Lines, SensitivityMain
  <2>2. Short(<<Back>>, 1) /\ Short(<<Text>>, 1)
    BY ShortLiterals
  <2>3. Short(r, Devices)
    <3>1. r = [d \in 1..Devices |-> JumpStr(DevicePage(d), d)]
      BY DEF Repeat
    <3>2. r = [i \in 1..Devices |-> r[i]]
      BY <3>1
    <3> HIDE DEF r
    <3> QED BY <3>2, Room, ShortRepeat
  <2> HIDE DEF r
  <2>4. t = <<Text>> \/ t = r
    OBVIOUS
  <2> HIDE DEF t
  <2>5. Short(<<Back>> \o t, 1 + 1) \/ Short(<<Back>> \o t, 1 + Devices)
    BY <2>2, <2>3, <2>4, Room, ShortConcat
  <2>6. 1 + 1 <= MaxLines /\ 1 + Devices <= MaxLines /\ 1 + 1 \in Nat /\ 1 + Devices \in Nat
    BY Room
  <2> QED BY <2>1, <2>5, <2>6, Room, ShortMore
<1>10. CASE p = "sensitivity_device"
  <2> DEFINE r == Repeat(Channels, LAMBDA i : Number("channel", i))
  <2>1. Lines(p, e) = <<Back, Text>> \o r \/ Lines(p, e) = <<Back, Text>>
    BY <1>10 DEF Lines, SensitivityDevice
  <2>2. Short(<<Back, Text>>, 2)
    BY ShortLiterals
  <2>3. Short(r, Channels)
    <3>1. r = [i \in 1..Channels |-> Number("channel", i)]
      BY DEF Repeat
    <3>2. r = [i \in 1..Channels |-> r[i]]
      BY <3>1
    <3> HIDE DEF r
    <3> QED BY <3>2, Room, ShortRepeat
  <2> HIDE DEF r
  <2>4. Short(<<Back, Text>> \o r, 2 + Channels)
    BY <2>2, <2>3, Room, ShortConcat
  <2>5. 2 + Channels \in Nat /\ 2 + Channels <= MaxLines
    BY Room
  <2>6. Short(<<Back, Text>> \o r, MaxLines)
    BY <2>4, <2>5, Room, ShortMore
  <2> DEFINE x == <<Back, Text>> \o r
             y == <<Back, Text>>
  <2>7. Short(y, 2) /\ Short(x, MaxLines)
    BY <2>2, <2>6
  <2>8. Lines(p, e) = x \/ Lines(p, e) = y
    BY <2>1
  <2> HIDE DEF x, y
  <2> QED BY <1>1, <2>7, <2>8
<1>11. CASE p = "ad7147_custom_settings"
  <2> DEFINE r == Repeat(Registers, LAMBDA i : Selector("threshold"))
             b == IF e.offset THEN Bar ELSE Button("offset")
             a == <<Back, b, Selector("stage"),
                    Selector("neg_afe"), Button("neg_swap"), Selector("pos_afe"), Button("pos_swap")>>
  <2>1. Lines(p, e) = a \o r \/ Lines(p, e) = <<Back, Text>>
    BY <1>11 DEF Lines, Ad7147CustomSettings
  <2> HIDE DEF b
  <2>2. Short(a, 7) /\ Short(<<Back, Text>>, 2)
    BY ShortLiterals
  <2>3. Short(r, Registers)
    <3>1. r = [i \in 1..Registers |-> Selector("threshold")]
      BY DEF Repeat
    <3>2. r = [i \in 1..Registers |-> r[i]]
      BY <3>1
    <3> HIDE DEF r
    <3> QED BY <3>2, Room, ShortRepeat
  <2> HIDE DEF r, a
  <2>4. Short(a \o r, 7 + Registers)
    BY <2>2, <2>3, Room, ShortConcat
  <2>5. 7 + Registers \in Nat /\ 7 + Registers <= MaxLines
    BY Room
  <2>6. Short(a \o r, MaxLines)
    BY <2>4, <2>5, Room, ShortMore
  <2> DEFINE x == a \o r
             y == <<Back, Text>>
  <2>7. Short(y, 2) /\ Short(x, MaxLines)
    BY <2>2, <2>6
  <2>8. Lines(p, e) = x \/ Lines(p, e) = y
    BY <2>1
  <2> HIDE DEF x, y
  <2> QED BY <1>1, <2>7, <2>8
<1>12. CASE p = "binding_settings"
  <2> DEFINE a == <<Back, Text>>
             b == If(e.bound = Area, <<Text>>)
             c == <<Button("start_binding"), Menu("binding_info")>>
  <2>1. \/ Lines(p, e) = <<Back, Text, Text>>
        \/ Lines(p, e) = <<Back, Bar, Text, Button("stop_binding")>>
        \/ Lines(p, e) = (a \o b) \o c
    BY <1>12 DEF Lines, BindingSettings
  <2>2. Short(a, 2) /\ Short(b, 1) /\ Short(c, 2)
    BY ShortLiterals, ShortIf
  <2>3. Short(<<Back, Text, Text>>, 3) /\ Short(<<Back, Bar, Text, Button("stop_binding")>>, 4)
    BY ShortLiterals
  <2> HIDE DEF a, b, c
  <2>4. Short(a \o b, 2 + 1)
    BY <2>2, ShortConcat
  <2>5. Short((a \o b) \o c, 3 + 2)
    BY <2>2, <2>4, ShortConcat
  <2> DEFINE x == <<Back, Text, Text>>
             y == <<Back, Bar, Text, Button("stop_binding")>>
             z == (a \o b) \o c
  <2>6. Short(x, 3) /\ Short(y, 4) /\ Short(z, 3 + 2)
    BY <2>3, <2>5
  <2>7. Lines(p, e) = x \/ Lines(p, e) = y \/ Lines(p, e) = z
    BY <2>1
  <2> HIDE DEF x, y, z
  <2>8. Short(Lines(p, e), 3) \/ Short(Lines(p, e), 4) \/ Short(Lines(p, e), 5)
    BY <2>6, <2>7
  <2> QED BY <1>1, <2>8
<1>13. CASE p = "binding_info"
  <2> DEFINE r == texts(Areas)
             t == IF Serial THEN r ELSE <<Text, Text>>
  <2>1. Lines(p, e) = <<Back>> \o t
    BY <1>13 DEF Lines, BindingInfo, texts
  <2>2. Short(<<Back>>, 1) /\ Short(<<Text, Text>>, 2) /\ Short(r, Areas)
    BY <1>0, Room, ShortLiterals
  <2> HIDE DEF r
  <2>3. t = <<Text, Text>> \/ t = r
    OBVIOUS
  <2> HIDE DEF t
  <2>4. Short(<<Back>> \o t, 1 + 2) \/ Short(<<Back>> \o t, 1 + Areas)
    BY <2>2, <2>3, Room, ShortConcat
  <2>5. 1 + 2 <= MaxLines /\ 1 + Areas <= MaxLines /\ 1 + 2 \in Nat /\ 1 + Areas \in Nat
    BY Room
  <2> QED BY <2>1, <2>4, <2>5, Room, ShortMore
<1>14. CASE p = "general_settings"
  <2>1. Lines(p, e) = GeneralSettings
    BY <1>14 DEF Lines
  <2>2. Short(GeneralSettings, 5)
    BY ShortLiterals DEF GeneralSettings
  <2> QED BY <1>1, <2>1, <2>2
<1>15. CASE p = "communication_settings"
  <2>1. PICK tail \in Seq(CommunicationTail) :
          CommunicationSettings(e) = CommunicationHead \o tail /\ Len(tail) <= 6
    BY CommunicationLines
  <2>2. Short(tail, 6)
    BY <2>1 DEF Short, UpTo
  <2>3. Short(CommunicationHead, 5)
    BY ShortLiterals DEF CommunicationHead
  <2>4. Short(CommunicationHead \o tail, 5 + 6)
    BY <2>2, <2>3, ShortConcat
  <2>5. Lines(p, e) = CommunicationHead \o tail
    BY <1>15, <2>1 DEF Lines
  <2> HIDE DEF CommunicationHead
  <2>6. Short(Lines(p, e), 11)
    BY <2>4, <2>5
  <2> QED BY <1>1, <2>6
<1>16. CASE p \in {"__error__", "__int_setting__"}
  <2>1. Lines(p, e) = ErrorPage \/ Lines(p, e) = IntSettingPage
    BY <1>16 DEF Lines
  <2>2. Short(ErrorPage, 4) /\ Short(IntSettingPage, 4)
    BY ShortLiterals DEF ErrorPage, IntSettingPage
  <2> QED BY <1>1, <2>1, <2>2
<1> QED
  BY <1>2, <1>3, <1>4, <1>5, <1>6, <1>7, <1>8, <1>9, <1>10, <1>11, <1>12, <1>13, <1>14, <1>15, <1>16
  DEF Page
HasMenu(l) == \E i \in DOMAIN l : l[i].kind = "menu"

LEMMA MenuConcat ==
  ASSUME NEW m \in Nat, NEW n \in Nat, NEW l, NEW k, Short(l, m), Short(k, n), HasMenu(k)
  PROVE  HasMenu(l \o k)
<1>1. PICK T : l \in UpTo(T, m)
  BY DEF Short
<1>2. PICK U : k \in UpTo(U, n)
  BY DEF Short
<1>3. l \in Seq(T \cup U) /\ k \in Seq(T \cup U)
  BY <1>1, <1>2, SeqMonotonic DEF UpTo
<1>4. PICK i \in DOMAIN k : k[i].kind = "menu"
  BY DEF HasMenu
<1>5. /\ DOMAIN k = 1..Len(k) /\ Len(k) \in Nat /\ Len(l) \in Nat
      /\ DOMAIN (l \o k) = 1..(Len(l) + Len(k))
      /\ \A j \in 1..Len(k) : (l \o k)[Len(l) + j] = k[j]
  BY <1>3
<1>6. Len(l) + i \in DOMAIN (l \o k) /\ (l \o k)[Len(l) + i] = k[i]
  BY <1>4, <1>5
<1> QED BY <1>4, <1>6 DEF HasMenu

LEMMA ShortLen == ASSUME NEW n \in Nat, NEW l, Short(l, n) PROVE Len(l) \in Nat /\ Len(l) <= n
BY DEF Short, UpTo

LEMMA MenuKind == ASSUME NEW to, NEW arg PROVE Menu(to).kind = "menu" /\ JumpStr(to, arg).kind = "menu"
BY DEF Menu, JumpStr, Line

LEMMA MenuRepeat ==
  ASSUME NEW n \in Nat \ {0}, NEW l, l = [i \in 1..n |-> l[i]], l[1].kind = "menu" PROVE HasMenu(l)
<1>1. 1 \in DOMAIN l
  OBVIOUS
<1> QED BY <1>1 DEF HasMenu

LEMMA MenuLiterals ==
  ASSUME NEW a, NEW b, NEW c, NEW d, NEW f, NEW to
  PROVE  /\ HasMenu(<<Menu(to)>>) /\ HasMenu(<<a, Menu(to)>>)
         /\ HasMenu(<<a, Menu(to), b, c, d, f>>)
<1> DEFINE m == Menu(to)
           x == <<m>>
           y == <<a, m>>
           z == <<a, m, b, c, d, f>>
<1>1. m.kind = "menu"
  BY MenuKind
<1> HIDE DEF m
<1>2. 1 \in DOMAIN x /\ x[1] = m
  OBVIOUS
<1>3. 2 \in DOMAIN y /\ y[2] = m
  OBVIOUS
<1>4. 2 \in DOMAIN z /\ z[2] = m
  OBVIOUS
<1> HIDE DEF x, y, z
<1>5. HasMenu(x) /\ HasMenu(y) /\ HasMenu(z)
  BY <1>1, <1>2, <1>3, <1>4 DEF HasMenu
<1> QED BY <1>5 DEF x, y, z, m

(* A page that leads on and has more lines than the screen has a line to     *)
(* lead on with.                                                             *)
LEMMA LeadsOn ==
  ASSUME NEW p \in Page, NEW e, Below[p] # {}, Len(Lines(p, e)) > 4
  PROVE  HasMenu(Lines(p, e))
<1>1. CASE p = "main"
  <2> DEFINE x == <<Text, Text, Menu("main_menu")>>
             y == <<Text, Text>>
  <2>1. Short(x, 3) /\ Short(y, 2)
    BY ShortLiterals
  <2>2. Lines(p, e) = x \/ Lines(p, e) = y
    BY <1>1 DEF Lines, MainPage
  <2> HIDE DEF x, y
  <2>3. Short(Lines(p, e), 3) \/ Short(Lines(p, e), 2)
    BY <2>1, <2>2
  <2>4. Len(Lines(p, e)) \in Nat /\ Len(Lines(p, e)) <= 3
    BY <2>3, ShortLen
  <2> QED BY <2>4
<1>2. CASE p = "main_menu"
  BY <1>2, MenuLiterals DEF Lines, MainMenu
<1>3. CASE p = "touch_settings_main"
  <2> DEFINE a == <<Back, Menu("touch_status")>>
             x == CalibrationLines(e)
             b == If(Calibratable, x)
             s == <<Menu("area_sensitivity")>>
             c == If(Serial, s)
             d == <<Menu("sensitivity_main")>>
  <2>1. Lines(p, e) = ((a \o b) \o c) \o d
    BY <1>3 DEF Lines, TouchSettingsMain
  <2>2. Short(a, 2) /\ Short(s, 1) /\ Short(d, 1) /\ HasMenu(d)
    BY ShortLiterals, MenuLiterals
  <2>3. Short(x, 3)
    <3> DEFINE f == <<Text, Bar>>
               g == <<Text>>
               h == <<Selector("target"), Button("calibrate"), Menu("zone_sensitivity")>>
    <3>1. Short(f, 2) /\ Short(g, 1) /\ Short(h, 3)
      BY ShortLiterals
    <3>2. x = f \/ x = g \/ x = h
      BY DEF CalibrationLines
    <3> HIDE DEF f, g, h, x
    <3> QED BY <3>1, <3>2, ShortMore
  <2> HIDE DEF a, x, s, d
  <2>4. Short(b, 3) /\ Short(c, 1)
    BY <2>2, <2>3, ShortIf
  <2> HIDE DEF b, c
  <2>5. Short(a \o b, 2 + 3)
    BY <2>2, <2>4, ShortConcat
  <2>6. Short((a \o b) \o c, 5 + 1)
    BY <2>4, <2>5, ShortConcat
  <2>7. HasMenu(((a \o b) \o c) \o d)
    BY <2>2, <2>6, MenuConcat
  <2> QED BY <2>1, <2>7
<1>4. CASE p \in {"area_sensitivity", "area_sensitivity_zone"}
  <2> DEFINE a == <<Back, Text>>
             y == <<Back, Text, Text>>
  <2>1. Short(a, 2) /\ Short(y, 3)
    BY ShortLiterals
  <2>2. Lines(p, e) = y
        \/ \E n \in Nat : \E f : \E to : IsList(f, n, to) /\ Lines(p, e) = a \o f
    <3>1. CASE p = "area_sensitivity"
      <4>1. Lines(p, e) = AreaSensitivity(e) /\ \A n \in 1..Zones : n \in Nat
        BY <3>1 DEF Lines
      <4> QED BY <4>1, ZoneList
    <3>2. CASE p = "area_sensitivity_zone"
      <4>1. Lines(p, e) = AreaSensitivityZone(e) /\ \A n \in 0..ZoneAreas : n \in Nat
        BY <3>2 DEF Lines
      <4> QED BY <4>1, AreaList
    <3> QED BY <1>4, <3>1, <3>2
  <2> HIDE DEF a, y
  <2>3. CASE Lines(p, e) = y
    <3>1. Len(Lines(p, e)) \in Nat /\ Len(Lines(p, e)) <= 3
      BY <2>1, <2>3, ShortLen
    <3> QED BY <3>1
  <2>4. ASSUME NEW n \in Nat, NEW f, NEW to, IsList(f, n, to), Lines(p, e) = a \o f
        PROVE  HasMenu(Lines(p, e))
    <3>1. Short(f, n) /\ f = [i \in 1..n |-> f[i]]
      BY <2>4, ShortRepeat DEF IsList
    <3>2. CASE n = 0
      <4>1. Short(Lines(p, e), 2 + n)
        BY <2>1, <2>4, <3>1, ShortConcat
      <4>2. Len(Lines(p, e)) \in Nat /\ Len(Lines(p, e)) <= 2 + n
        BY <4>1, ShortLen
      <4>3. n = 0
        BY <3>2
      <4> QED BY <4>2, <4>3
    <3>3. CASE n # 0
      <4>1. f[1].kind = "menu"
        BY <2>4, <3>3, MenuKind DEF IsList
      <4>2. HasMenu(f)
        BY <3>1, <3>3, <4>1, MenuRepeat
      <4> QED BY <2>1, <2>4, <3>1, <4>2, MenuConcat
    <3> QED BY <3>2, <3>3
  <2> QED BY <2>2, <2>3, <2>4
<1>6. CASE p = "sensitivity_main"
  <2> DEFINE r == Repeat(Devices, LAMBDA d : JumpStr(DevicePage(d), d))
             a == <<Back>>
             s == <<Text>>
             x == a \o r
             y == a \o s
  <2>1. Lines(p, e) = (IF Devices = 0 THEN y ELSE x)
    BY <1>6 DEF Lines, SensitivityMain
  <2>2. Short(a, 1) /\ Short(s, 1)
    BY ShortLiterals
  <2>3. Devices # 0 => Short(r, Devices) /\ HasMenu(r)
    <3> SUFFICES ASSUME Devices # 0 PROVE Short(r, Devices) /\ HasMenu(r)
      OBVIOUS
    <3>1. r = [d \in 1..Devices |-> JumpStr(DevicePage(d), d)]
      BY DEF Repeat
    <3>2. Devices \in Nat \ {0} /\ r = [i \in 1..Devices |-> r[i]]
      BY <3>1, PagesAssumption
    <3>3. r[1] = JumpStr(DevicePage(1), 1)
      BY <3>1, <3>2
    <3> HIDE DEF r
    <3>4. r[1].kind = "menu"
      BY <3>3, MenuKind
    <3> QED BY <3>2, <3>4, ShortRepeat, MenuRepeat
  <2> HIDE DEF a, r, s
  <2>4. Devices # 0 => HasMenu(x)
    BY <2>2, <2>3, Room, MenuConcat
  <2>5. Short(y, 1 + 1)
    BY <2>2, ShortConcat
  <2> HIDE DEF x, y
  <2>6. Devices = 0 => Len(Lines(p, e)) \in Nat /\ Len(Lines(p, e)) <= 2
    BY <2>1, <2>5, ShortLen
  <2> QED BY <2>1, <2>4, <2>6
<1>7. CASE p = "binding_settings"
  <2> DEFINE a == <<Back, Text>>
             t == <<Text>>
             b == If(e.bound = Area, t)
             c == <<Button("start_binding"), Menu("binding_info")>>
             x == <<Back, Text, Text>>
             y == <<Back, Bar, Text, Button("stop_binding")>>
             z == (a \o b) \o c
  <2>1. Lines(p, e) = x \/ Lines(p, e) = y \/ Lines(p, e) = z
    BY <1>7 DEF Lines, BindingSettings
  <2>2. Short(a, 2) /\ Short(t, 1) /\ Short(c, 2) /\ HasMenu(c) /\ Short(x, 3) /\ Short(y, 4)
    BY ShortLiterals, MenuLiterals
  <2> HIDE DEF a, t, c, x, y
  <2>3. Short(b, 1)
    BY <2>2, ShortIf
  <2> HIDE DEF b
  <2>4. Short(a \o b, 2 + 1)
    BY <2>2, <2>3, ShortConcat
  <2>5. HasMenu(z)
    BY <2>2, <2>4, MenuConcat
  <2> HIDE DEF z
  <2>6. Short(Lines(p, e), 3) \/ Short(Lines(p, e), 4) \/ HasMenu(Lines(p, e))
    BY <2>1, <2>2, <2>5
  <2>7. HasMenu(Lines(p, e)) \/ (Len(Lines(p, e)) \in Nat /\ Len(Lines(p, e)) <= 4)
    BY <2>6, ShortLen
  <2> QED BY <2>7
<1>8. CASE p \notin {"main", "main_menu", "touch_settings_main", "area_sensitivity",
                     "area_sensitivity_zone", "sensitivity_main", "binding_settings"}
  BY <1>8, Tables
<1> QED BY <1>1, <1>2, <1>3, <1>4, <1>6, <1>7, <1>8

LEMMA NeverScrolls ==
  ASSUME NEW p \in {"main", "__int_setting__"}, NEW e
  PROVE  Len(Lines(p, e)) \in Nat /\ Len(Lines(p, e)) <= 4
<1> DEFINE x == <<Text, Text, Menu("main_menu")>>
           y == <<Text, Text>>
           z == <<Blank, Text, Text, Text>>
<1>1. Short(x, 3) /\ Short(y, 2) /\ Short(z, 4)
  BY ShortLiterals
<1>2. Lines(p, e) = x \/ Lines(p, e) = y \/ Lines(p, e) = z
  BY DEF Lines, MainPage, IntSettingPage
<1> HIDE DEF x, y, z
<1>3. Short(Lines(p, e), 3) \/ Short(Lines(p, e), 2) \/ Short(Lines(p, e), 4)
  BY <1>1, <1>2
<1>4. Short(Lines(p, e), 4)
  BY <1>3, ShortMore
<1> QED BY <1>4, ShortLen

LEMMA DepthNat == \A p \in Page : Depth[p] \in Nat
BY DEF Depth

(* A page and one it leads to never show the same long list.                 *)
LEMMA DifferentPages ==
  ASSUME NEW p \in Page, NEW q \in Page, p \in Below[q], NEW e, NEW f,
         Lines(p, e) = Lines(q, f), Len(Lines(q, f)) > 4
  PROVE  FALSE
<1> DEFINE l == Lines(q, f)
<1>1. HasMenu(l)
  BY LeadsOn
<1>2. AllAllowed(p, l) /\ AllAllowed(q, l)
  BY PageLines
<1> HIDE DEF l
<1>3. PICK i \in DOMAIN l : l[i].kind = "menu"
  BY <1>1 DEF HasMenu
<1>4. Allowed(p, l[i]) /\ Allowed(q, l[i])
  <2>1. PICK T : l \in Seq(T) /\ \A x \in T : Allowed(p, x)
    BY <1>2 DEF AllAllowed
  <2>2. PICK U : l \in Seq(U) /\ \A x \in U : Allowed(q, x)
    BY <1>2 DEF AllAllowed
  <2>3. l[i] \in T /\ l[i] \in U
    BY <1>3, <2>1, <2>2
  <2> HIDE DEF Allowed
  <2> QED BY <2>1, <2>2, <2>3
<1>5. l[i].what \in Below[p] /\ l[i].what \in Below[q]
  BY <1>3, <1>4 DEF Allowed
<1>6. Depth[l[i].what] = Depth[p] + 1 /\ Depth[l[i].what] = Depth[q] + 1 /\ Depth[p] = Depth[q] + 1
  BY <1>5, Deeper
<1> QED BY <1>6, DepthNat

-----------------------------------------------------------------------------
(* The lines drawn last are those of the page, or of one next to it in the   *)
(* menu; and on the page's own lines the cursor is on one of them.           *)
Linked == \A i \in 1..(Len(Path) - 1) : Path[i + 1] \in Below[Path[i]]

NextTo(p, q) == p \in Below[q] \/ q \in Below[p] \/ "__int_setting__" \in {p, q}

CursorInv ==
  /\ Linked
  /\ shown = None => page = "main"
  /\ shown \in Page /\ shown # page => NextTo(page, shown)
  /\ shown = page /\ view.scrollable => index = 0 \/ index < Len(view.lines)

LEMMA PathOfStack ==
  ASSUME StackInv
  PROVE  /\ Path \in Seq(Page) /\ Len(Path) = Len(history) + 1 /\ Len(history) \in Nat
         /\ Path[Len(Path)] = Current /\ Walk!Last(Path) = Current
         /\ \A i \in 1..Len(history) : Path[i] = history[i].page
<1>1. history \in Seq(Entry) /\ Current \in Page
  BY DEF StackInv, TypeInv, Current, Caller, Plain
<1>2. Path = PathOf(history, Current)
  BY DEF Path, PathOf, Current
<1> QED BY <1>1, <1>2, PathIs

LEMMA LinkedStep ==
  ASSUME StackInv, Linked, WalkStep PROVE Linked'
<1>1. Path \in Seq(Page) /\ Len(Path) \in Nat \ {0} /\ Walk!Last(Path) = Path[Len(Path)]
  BY PathOfStack DEF Walk!Last
<1> DEFINE t == Path
           u == Path'
<1>2. \A i \in 1..(Len(t) - 1) : t[i + 1] \in Below[t[i]]
  BY DEF Linked
<1>3. CASE u = t
  BY <1>2, <1>3 DEF Linked
<1>4. CASE Walk!Down
  <2>1. PICK p \in Below[t[Len(t)]] : u = Append(t, p)
    BY <1>1, <1>4 DEF Walk!Down
  <2> HIDE DEF t, u
  <2>2. t \in Seq(Page) /\ Len(t) \in Nat \ {0}
    BY <1>1 DEF t
  <2>3. /\ Len(u) = Len(t) + 1 /\ u[Len(t) + 1] = p
        /\ \A i \in 1..Len(t) : u[i] = t[i]
    <3>1. t \in Seq(Page \cup {p})
      BY <2>2, SeqMonotonic
    <3> QED BY <2>1, <2>2, <3>1
  <2>4. ASSUME NEW i \in 1..(Len(u) - 1) PROVE u[i + 1] \in Below[u[i]]
    <3>1. i \in 1..Len(t) /\ (i # Len(t) => i \in 1..(Len(t) - 1) /\ i + 1 \in 1..Len(t))
      BY <2>2, <2>3
    <3>2. CASE i = Len(t)
      BY <2>1, <2>3, <3>1, <3>2
    <3>3. CASE i # Len(t)
      BY <1>2, <2>3, <3>1, <3>3
    <3> QED BY <3>2, <3>3
  <2> QED BY <2>4 DEF Linked, u
<1>5. CASE Walk!Up
  <2>1. u = Walk!Front(t) /\ Len(t) > 1
    BY <1>5 DEF Walk!Up
  <2> HIDE DEF t, u
  <2>2. t \in Seq(Page) /\ Len(t) \in Nat \ {0}
    BY <1>1 DEF t
  <2>3. u = SubSeq(t, 1, Len(t) - 1)
    BY <2>1 DEF Walk!Front
  <2>4. Len(u) = Len(t) - 1 /\ \A i \in 1..(Len(t) - 1) : u[i] = t[i]
    BY <2>1, <2>2, <2>3
  <2>5. ASSUME NEW i \in 1..(Len(u) - 1) PROVE u[i + 1] \in Below[u[i]]
    <3>1. i \in 1..(Len(t) - 1) /\ i + 1 \in 1..(Len(t) - 1)
      BY <2>2, <2>4
    <3> QED BY <1>2, <2>4, <3>1
  <2> QED BY <2>5 DEF Linked, u
<1> QED BY <1>3, <1>4, <1>5 DEF WalkStep, WalkNext, Walk!Edit, Walk!Finish

(* Where a frame leaves the cursor of a list it had drawn before.            *)
LEMMA DrawStill ==
  ASSUME StackInv, CursorInv, Draw, UNCHANGED page, view'.scrollable, view'.lines = view.lines
  PROVE  index' = index
<1> DEFINE e == Load(page, env)
           l == Lines(page, e)
<1>1. page \in Page /\ index \in Nat /\ IsView(view) /\ shown \in Page \cup {None}
  BY DEF StackInv, TypeInv
<1>2. /\ IsView(view') /\ HoldsLines(view', l) /\ (index' = index \/ index' = 0)
      /\ index < Len(view'.lines) => index' = index
  BY DrawFacts
<1> HIDE DEF e
<1>3. view.lines = l /\ Len(l) > 4 /\ Len(l) \in Nat
  BY <1>1, <1>2, Held, Screen
<1>4. page \notin {"main", "__int_setting__"}
  BY <1>3, NeverScrolls
<1>5. shown # None
  BY <1>4 DEF CursorInv
<1>6. PICK f : HoldsLines(view, Lines(shown, f))
  BY <1>5 DEF StackInv, ViewInv
<1>7. shown \in Page
  BY <1>1, <1>5
<1>8. view.scrollable /\ view.lines = Lines(shown, f)
  BY <1>1, <1>3, <1>6, <1>7, Held, Screen
<1>9. CASE shown = page
  BY <1>2, <1>8, <1>9 DEF CursorInv
<1>10. CASE shown # page
  <2>1. l = Lines(shown, f)
    BY <1>3, <1>8
  <2>2. shown \notin {"main", "__int_setting__"}
    BY <1>3, <2>1, NeverScrolls
  <2>3. page \in Below[shown] \/ shown \in Below[page]
    BY <1>4, <1>7, <1>10, <2>2 DEF CursorInv, NextTo
  <2> QED BY <1>1, <1>3, <1>7, <2>1, <2>3, DifferentPages
<1> QED BY <1>9, <1>10

LEMMA EndLineShows ==
  ASSUME NEW v, IsView(v), v.scrollable, Len(v.lines) \in Nat, Len(v.lines) > Visible,
         v.known = Len(v.lines), NEW t \in Nat, t < Len(v.lines)
  PROVE  LET w == SetVisibleEndLine(v, t) IN
         w.scrollable /\ LineInRow(w, CursorRow(w, t)) = ChosenLine(w, t)
<1> DEFINE n == IF t < Visible THEN 0 ELSE Smaller(t - Visible + 1, Len(v.lines) - Visible)
           w == SetVisibleEndLine(v, t)
<1>1. n \in Nat /\ n <= t /\ t <= n + 3 /\ n <= Len(v.lines) - Visible
  BY Screen DEF Smaller
<1>2. w = StartAt(v, n)
  BY DEF SetVisibleEndLine
<1>3. MaxStart(v) = Len(v.lines) - Visible
  BY DEF MaxStart
<1> HIDE DEF n, w
<1>4. w.scrollable /\ w.start = Smaller(n, MaxStart(v))
  BY <1>1, <1>2, StartAtKeeps DEF SameLines
<1>5. Smaller(n, MaxStart(v)) = n
  BY <1>1, <1>3, Screen DEF Smaller
<1>6. w.start = n
  BY <1>4, <1>5
<1>7. CursorRow(w, t) = t - n
  BY <1>1, <1>4, <1>6, Screen DEF CursorRow, Smaller
<1>8. LineInRow(w, CursorRow(w, t)) = t /\ ChosenLine(w, t) = t
  BY <1>1, <1>4, <1>6, <1>7 DEF LineInRow, ChosenLine
<1> QED BY <1>4, <1>8 DEF w

OnCursor(v, i) == LineInRow(v, CursorRow(v, i)) = ChosenLine(v, i)

(* A page that fits on the screen shows the cursor's line in its own row.    *)
LEMMA RowOfItem == ASSUME NEW v, NEW i, ~v.scrollable PROVE OnCursor(v, i)
BY DEF OnCursor, LineInRow, CursorRow, ChosenLine

LEMMA NavigateShows ==
  ASSUME StackInv, shown # None, NEW up, Navigate(up)
  PROVE  /\ index' # index => OnCursor(view', index')
         /\ view'.scrollable => (UNCHANGED <<index, view>> \/ index' < Len(view'.lines))
<1>1. index \in Nat /\ IsView(view) /\ shown \in Page
  BY DEF StackInv, TypeInv
<1>2. PICK e : HoldsLines(view, Lines(shown, e))
  BY DEF StackInv, ViewInv
<1>3. /\ Len(view.lines) \in Nat
      /\ view.scrollable => Len(view.lines) > Visible /\ view.lines = Lines(shown, e)
  BY <1>1, <1>2, Held
<1>4. view.scrollable => view.known = Len(view.lines)
  <2> SUFFICES ASSUME view.scrollable PROVE view.known = Len(view.lines)
    OBVIOUS
  <2>1. Short(Lines(shown, e), MaxLines)
    BY <1>1, LinesFit
  <2>2. /\ Len(Lines(shown, e)) <= MaxLines /\ Len(Lines(shown, e)) > Visible
        /\ Len(Lines(shown, e)) \in Nat /\ MaxLines \in Nat
    BY <1>3, <2>1, ShortLen, Room
  <2>3. view.known = Smaller(Len(Lines(shown, e)), MaxLines)
    BY <1>2, <2>2 DEF HoldsLines
  <2> QED BY <1>3, <2>2, <2>3 DEF Smaller
<1>5. CASE UNCHANGED <<index, view>>
  BY <1>5
<1>6. CASE /\ view.scrollable
           /\ index' = Step(index, Len(view.lines) - 1, up)
           /\ view' = SetVisibleEndLine(view, index')
  <2>1. index' \in Nat /\ index' < Len(view.lines)
    BY <1>1, <1>3, <1>6, Screen DEF Step
  <2>2. view'.scrollable /\ OnCursor(view', index')
    BY <1>1, <1>3, <1>4, <1>6, <2>1, EndLineShows DEF OnCursor
  <2>3. view'.lines = view.lines
    BY <1>1, <1>3, <1>6, <2>1, EndLineKeeps DEF SameLines
  <2> QED BY <2>1, <2>2, <2>3
<1>7. CASE ~view.scrollable /\ UNCHANGED view
  BY <1>7, RowOfItem
<1> QED BY <1>5, <1>6, <1>7 DEF Navigate

ShownCursor ==
  page' = page /\ view'.lines = view.lines /\ index' # index /\ ~dark
    => LineInRow(view', CursorRow(view', index')) = ChosenLine(view', index')

LEMMA CursorStep ==
  ASSUME StackInv, CursorInv, [Next]_vars
  PROVE  CursorInv' /\ ShownCursor
<1>0. /\ page \in Page /\ index \in Nat /\ IsView(view) /\ shown \in Page \cup {None}
      /\ page # None
  BY UiAssumption DEF StackInv, TypeInv
<1>1. Linked' /\ StackInv'
  BY StackStep, LinkedStep DEF CursorInv
<1>2. ASSUME UNCHANGED <<page, index, view, shown>>
      PROVE  CursorInv' /\ ShownCursor
  BY <1>1, <1>2 DEF CursorInv, ShownCursor, NextTo
<1>3. ASSUME Draw, UNCHANGED page
      PROVE  CursorInv' /\ ShownCursor
  <2>1. /\ shown' = page' /\ shown' # None
        /\ view'.scrollable => index' = 0 \/ index' < Len(view'.lines)
    <3>1. /\ shown' = page /\ IsView(view') /\ HoldsLines(view', Lines(page, Load(page, env)))
          /\ index' = index \/ index' = 0
          /\ view'.scrollable /\ index < Len(view'.lines) => index' = index
      BY <1>3, DrawFacts
    <3>2. view'.scrollable /\ ~ (index < Len(view'.lines)) => index' = 0
      <4>1. Len(view'.lines) \in Nat
        BY <1>0, <3>1, Held
      <4> QED BY <1>0, <1>3, <4>1 DEF Draw
    <3> QED BY <1>0, <1>3, <3>1, <3>2
  <2>2. CursorInv'
    BY <1>1, <2>1 DEF CursorInv
  <2>3. CASE view'.scrollable
    BY <1>3, <2>2, <2>3, DrawStill DEF ShownCursor
  <2>4. CASE ~view'.scrollable
    BY <2>2, <2>4, RowOfItem DEF ShownCursor, OnCursor
  <2> QED BY <2>2, <2>3, <2>4
<1>4. ASSUME NEW b \in ButtonName, Press(b) PROVE CursorInv' /\ ShownCursor
  <2>1. UNCHANGED page /\ IF dark THEN Draw ELSE UNCHANGED <<index, view, shown>>
    BY <1>4 DEF Press
  <2> QED BY <1>2, <1>3, <2>1
<1>5. ASSUME NEW b \in ButtonName, ReleaseIgnored(b) PROVE CursorInv' /\ ShownCursor
  BY <1>2, <1>5 DEF ReleaseIgnored, stack
<1>6. CASE ScreenTimeout
  BY <1>2, <1>6 DEF ScreenTimeout, stack
<1>7. CASE Frame
  BY <1>3, <1>7 DEF Frame
<1>8. CASE Core0
  BY <1>2, <1>8 DEF Core0, stack
<1>9. CASE UNCHANGED vars
  BY <1>2, <1>9 DEF vars, stack
<1>10. ASSUME NEW b \in ButtonName, Release(b) PROVE CursorInv' /\ ShownCursor
  <2>1. /\ shown' = shown /\ shown # None /\ shown \in Page
        /\ b = "confirm" => shown = page
    BY <1>10, Released
  <2>2. ASSUME UNCHANGED <<page, index, view>> PROVE CursorInv' /\ ShownCursor
    BY <1>2, <2>1, <2>2
  <2>3. ASSUME page' \in Page, page' # shown, NextTo(page', shown), page' # page
        PROVE  CursorInv' /\ ShownCursor
    BY <1>1, <2>1, <2>3 DEF CursorInv, ShownCursor
  <2>4. CASE Editing /\ b # "confirm" /\ Adjust(b = "up")
    BY <2>2, <2>4 DEF Adjust, stack
  <2>5. CASE Editing /\ b = "confirm" /\ Complete
    <3>1. popup \in Caller /\ page' = popup.page
      BY <2>5 DEF Complete, StackInv, TypeInv, WalkInv
    <3>2. page' \in Page /\ page' # "__int_setting__"
      BY <3>1 DEF Caller, Plain
    <3> QED BY <2>1, <2>3, <2>5, <3>2 DEF Editing, NextTo
  <2>6. CASE ~Editing /\ OnLockedSelector /\ SelectorInput(b)
    BY <2>2, <2>6 DEF SelectorInput, stack
  <2>7. CASE ~Editing /\ ~OnLockedSelector /\ b # "confirm" /\ Navigate(b = "up")
    <3>1. /\ index' # index => OnCursor(view', index')
          /\ view'.scrollable => UNCHANGED <<index, view>> \/ index' < Len(view'.lines)
      BY <2>1, <2>7, NavigateShows
    <3>2. UNCHANGED page
      BY <2>7 DEF Navigate
    <3>3. CursorInv'
      BY <1>1, <2>1, <3>1, <3>2 DEF CursorInv
    <3> QED BY <3>1, <3>3 DEF ShownCursor, OnCursor
  <2>8. CASE ~Editing /\ b = "confirm" /\ HasLine /\ Chosen.kind = "menu" /\ MenuJump(Chosen)
    <3>1. Chosen.what \in Below[page]
      BY <2>1, <2>8, ChosenOf DEF Allowed
    <3>2. page' = Chosen.what
      BY <2>8 DEF MenuJump, SwitchToPage
    <3>3. page' \in Page /\ Depth[page'] = Depth[page] + 1
      BY <1>0, <3>1, <3>2, Deeper DEF Plain
    <3>4. page' # page
      BY <1>0, <3>3, DepthNat
    <3> QED BY <2>1, <2>3, <2>8, <3>1, <3>2, <3>3, <3>4 DEF NextTo
  <2>9. CASE ~Editing /\ b = "confirm" /\ HasLine /\ Chosen.kind = "int" /\ IntSetting(Chosen)
    <3>1. page' = "__int_setting__" /\ page # "__int_setting__"
      BY <2>9 DEF IntSetting, Editing
    <3> QED BY <2>1, <2>3, <2>9, <3>1 DEF NextTo, Page
  <2>10. CASE ~Editing /\ b = "confirm" /\ BackItem
    <3>1. CASE history = <<>>
      BY <2>2, <2>10, <3>1 DEF BackItem
    <3>2. CASE history # <<>>
      <4>1. history \in Seq(Entry) /\ Current = page
        BY <2>10 DEF StackInv, TypeInv, WalkInv, Current
      <4>2. page' = history[Len(history)].page
        BY <2>10, <3>2 DEF BackItem, Top
      <4>3. Len(history) \in 1..(Len(Path) - 1) /\ Len(history) \in 1..Len(history)
        <5>1. Len(history) # 0 /\ Len(history) \in Nat
          BY <3>2, <4>1
        <5> QED BY <5>1, PathOfStack
      <4>4. page \in Below[page']
        BY <4>1, <4>2, <4>3, PathOfStack DEF CursorInv, Linked
      <4>5. page' \in Page
        BY <1>1 DEF StackInv, TypeInv
      <4>6. Depth[page] = Depth[page'] + 1
        BY <4>4, <4>5, Deeper
      <4>7. page' # page
        BY <1>0, <4>6, DepthNat
      <4> QED BY <2>1, <2>3, <2>10, <4>4, <4>5, <4>7 DEF NextTo
    <3> QED BY <3>1, <3>2
  <2>11. CASE UNCHANGED <<stack, view>>
    BY <2>2, <2>11 DEF stack
  <2>12. SelectorItem \/ ButtonItem(Chosen) => UNCHANGED <<stack, view>>
    BY DEF SelectorItem, ButtonItem
  <2> QED
    BY <1>10, <2>4, <2>5, <2>6, <2>7, <2>8, <2>9, <2>10, <2>11, <2>12, ReleaseCases
<1> QED BY <1>4, <1>5, <1>6, <1>7, <1>8, <1>9, <1>10 DEF Next

(* A step of the cursor shows the line it goes to.                           *)
THEOREM CursorIsFollowed == Spec => CursorFollowed
<1>1. Init => CursorInv
  <2> SUFFICES ASSUME Init PROVE CursorInv
    OBVIOUS
  <2>1. history = <<>> /\ Len(Path) = 1
    BY StackInit, PathOfStack DEF Init
  <2>2. Linked
    BY <2>1 DEF Linked
  <2>3. page = "main" /\ shown = None /\ page \in Page /\ None \notin Page
    BY UiAssumption DEF Init, Page
  <2> QED BY <2>2, <2>3 DEF CursorInv
<1>2. StackInv /\ CursorInv /\ [Next]_vars => CursorInv' /\ ShownCursor
  BY CursorStep
<1>3. StackInv /\ CursorInv /\ [Next]_vars
        => [page' = page /\ view'.lines = view.lines /\ index' # index /\ ~dark
             => LineInRow(view', CursorRow(view', index')) = ChosenLine(view', index')]_vars
  BY <1>2 DEF ShownCursor
<1> QED BY <1>1, <1>2, <1>3, StackKept, PTL DEF Spec, CursorFollowed

=============================================================================

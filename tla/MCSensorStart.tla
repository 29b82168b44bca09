--------------------------- MODULE MCSensorStart ---------------------------
(* Instances of SensorStart and SamplingStages: two stages per bus.  AD7147 *)
(* modules on both buses; a PSoC beside one on bus 0; a GTX312L, which is   *)
(* not identified.                                                          *)
EXTENDS SensorStart

CONSTANTS a1, a2, a3, a4, g1, p1

MCKind == [d \in {a1, a2, a3, a4, g1, p1} |->
             CASE d = p1 -> "psoc" [] d = g1 -> "gtx312l" [] OTHER -> "ad7147"]
MCWiredTo == [d \in {a1, a2, a3, a4, g1, p1} |-> IF d \in {a3, a4} THEN 1 ELSE 0]
MCAddress == [d \in {a1, a2, a3, a4, g1, p1} |->
                CASE d = a1 -> 45 [] d = a2 -> 44 [] d = a3 -> 44 [] d = a4 -> 47
                  [] d = g1 -> 88 [] d = p1 -> 8]
MCInstallations == {{a1, a2, a3, a4}, {p1, a1}, {a3, g1}}

Layout(bus0, bus1) == [b \in Bus |-> IF b = 0 THEN bus0 ELSE bus1]
MCLayouts == {Layout(<<a2, a1>>, <<a3, a4>>), Layout(<<p1, a1>>, <<>>)}
=============================================================================

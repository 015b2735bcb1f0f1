------------------------------ MODULE Signals ------------------------------
(***************************************************************************)
(* The vocabulary of a two-phase intersection: contracts/enums.py and the  *)
(* lookup tables at the head of control/phase.py.                          *)
(***************************************************************************)

NorthSouth == "north_south"
EastWest   == "east_west"
Axes       == {NorthSouth, EastWest}
NoAxis     == "none"           \* SignalPhase.axis of the all-red clearance

AllRed == "all_red"
Phases == {"ns_green", "ns_yellow", "ew_green", "ew_yellow", AllRed}

GreenFor(a)  == IF a = NorthSouth THEN "ns_green" ELSE "ew_green"
YellowFor(a) == IF a = NorthSouth THEN "ns_yellow" ELSE "ew_yellow"

OtherAxis(a) == IF a = NorthSouth THEN EastWest ELSE NorthSouth

AxisOf(p) == IF p \in {"ns_green", "ns_yellow"} THEN NorthSouth
             ELSE IF p \in {"ew_green", "ew_yellow"} THEN EastWest ELSE NoAxis

IsGreen(p)  == p \in {"ns_green", "ew_green"}
IsYellow(p) == p \in {"ns_yellow", "ew_yellow"}

\* The aspect a phase shows to an axis (SignalColor).
ColourOf(p, a) ==
  IF p = GreenFor(a) THEN "green" ELSE IF p = YellowFor(a) THEN "yellow" ELSE "red"
=============================================================================

-------------------------- MODULE SafeIntersection --------------------------
(***************************************************************************)
(* What a signal controller promises to the road, whatever decides and     *)
(* however it is built (docstring of control/phase.py): a green lasts at   *)
(* least MinGreen, a yellow at least YellowTime, no axis turns green while *)
(* the other is not red or within YellowTime + AllRedTime of the other's   *)
(* green, and no axis is left waiting longer than MaxWait.                 *)
(*                                                                         *)
(* light[a]  the aspect shown to axis a                                    *)
(* held      the time since an aspect last changed                         *)
(* wait[a]   the time since axis a's latest green ended; it keeps its last *)
(*           value through the first interval of the next green            *)
(***************************************************************************)
EXTENDS Signals, Integers

CONSTANTS MinGreen, YellowTime, AllRedTime, MaxWait,
          MaxDt   \* the longest interval between two looks at the lights

VARIABLES light, held, wait
vars == <<light, held, wait>>

OnlyGreen(a) == [b \in Axes |-> IF b = a THEN "green" ELSE "red"]

Init ==
  /\ held = 0
  /\ \E a \in Axes :
       /\ light = OnlyGreen(a)
       /\ wait = [b \in Axes |-> IF b = a THEN 0 ELSE YellowTime + AllRedTime]

\* dt passes with the lights as they are; no wait may outgrow MaxWait.
TimePasses(dt) ==
  /\ wait' = [a \in Axes |-> IF light[a] = "green" THEN 0 ELSE wait[a] + dt]
  /\ \A a \in Axes : wait'[a] <= MaxWait

Hold(dt) ==
  /\ TimePasses(dt)
  /\ held' = held + dt
  /\ UNCHANGED light

Change(a, colour, dt) ==
  /\ TimePasses(dt)
  /\ light' = [light EXCEPT ![a] = colour]
  /\ held' = 0

EndGreen(a, dt) ==
  /\ light[a] = "green"
  /\ held + dt >= MinGreen
  /\ Change(a, "yellow", dt)

EndYellow(a, dt) ==
  /\ light[a] = "yellow"
  /\ held + dt >= YellowTime
  /\ Change(a, "red", dt)

StartGreen(a, dt) ==
  /\ \A b \in Axes : light[b] = "red"
  /\ wait[OtherAxis(a)] + dt >= YellowTime + AllRedTime
  /\ Change(a, "green", dt)

Next ==
  \E dt \in 1..MaxDt :
    \/ Hold(dt)
    \/ \E a \in Axes : EndGreen(a, dt) \/ EndYellow(a, dt) \/ StartGreen(a, dt)

Spec == Init /\ [][Next]_vars
=============================================================================

--------------------------- MODULE UnitLifecycle ---------------------------
(***************************************************************************)
(* What the device link promises about one stimulation unit, whatever the  *)
(* goroutines above it do: a unit is taken at level zero, an arm window    *)
(* opens at level zero, the level rises by one step at a time and only     *)
(* inside an open window, and outside one it can only fall.                *)
(***************************************************************************)
EXTENDS Naturals

CONSTANT LevelTop     \* the unit's own level cap (Capabilities.LevelMax), a natural number

VARIABLES
  phase,              \* "absent", "shut" or "open": no unit, no window, a window
  level               \* the intensity the unit was last told

vars == <<phase, level>>

Levels == 0 .. LevelTop

TypeOK ==
  /\ phase \in {"absent", "shut", "open"}
  /\ level \in Levels

Init ==
  /\ phase = "absent"
  /\ level = 0

\* A connection starts released.
Take ==
  /\ phase = "absent"
  /\ phase' = "shut"
  /\ level' = 0

\* A window opens, or opens again, over a unit at zero.
Open ==
  /\ phase # "absent"
  /\ phase' = "open"
  /\ level' = 0

Raise ==
  /\ phase = "open"
  /\ level < LevelTop
  /\ level' = level + 1
  /\ UNCHANGED phase

Lower ==
  /\ phase = "open"
  /\ level' \in 0 .. level
  /\ UNCHANGED phase

\* The window closes or a release is made with none open: a release that
\* got through leaves zero, one that failed leaves the level it was at.
Shut ==
  /\ phase # "absent"
  /\ phase' = "shut"
  /\ level' \in {0, level}

\* The unit is let go or given up on.
Drop ==
  /\ phase # "absent"
  /\ phase' = "absent"
  /\ level' \in {0, level}

Next == Take \/ Open \/ Raise \/ Lower \/ Shut \/ Drop

Spec == Init /\ [][Next]_vars
=============================================================================

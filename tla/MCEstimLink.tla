---------------------------- MODULE MCEstimLink ----------------------------
(* The device link on small instances: one or two sessions, a unit with     *)
(* three levels, one power range or two.                                    *)
EXTENDS EstimLink, FiniteSets

CONSTANT MaxUnderWay  \* goroutines under way at once, in a run that bounds them

MCDefault == [range |-> "normal", max |-> 1]
MCOffered == {[range |-> "normal", max |-> 1]}

\* The safety run: a default over the unit's own top, and half of its range
\* offered, so that a change of settings may find it above the new maximum.
MCDefaultTop == [range |-> "normal", max |-> 3]

\* The last of them only beside an actuation.
MCUnderWay ==
  LET underWay == {p \in Procs : pc[p] \notin {"idle", "stopped"}} IN
  Cardinality(underWay) + (IF "command" \in underWay THEN 0 ELSE 1) <= MaxUnderWay

\* What the goroutines' locals say once they are idle is dead, and the
\* properties of the passing runs say nothing of the settings asked for.
MCView ==
  <<sess, rt, unit, stop, pc, risen,
    IF pc["session"] = "idle" THEN NoSession ELSE doomed,
    IF pc["command"] \in {"want", "check", "write"} THEN goal ELSE 0,
    {<<w, req[w]>> : w \in {v \in Workers : pc[v] # "idle"}},
    IF pc["arm"] = "hold" THEN armRange ELSE FoundRange>>
=============================================================================

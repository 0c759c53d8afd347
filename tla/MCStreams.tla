----------------------------- MODULE MCStreams -----------------------------
(***************************************************************************)
(* Streams for TLC: the camera turned on twice, three ffmpegs, one rate    *)
(* below the ceiling.  Beside them the path of the same server on which    *)
(* the phone's picture comes in: the two share nothing, so that one rests  *)
(* while the other is at work.                                             *)
(***************************************************************************)
EXTENDS Streams, Share

NeverOn == \A r \in Runs : run[r].pc = "none"
NeverShared ==
  /\ setting = Settled /\ \A s \in Servers : server[s] = NoServer
  /\ \A v \in Visits : visit[v] = NoVisit

\* Bound: with all steps of the Adapter taken, which is what two handovers of one
\* run need, the camera does not come on for the last time.
FewReshapes == reshapes = MaxReshapes => run[MaxRuns].pc = "none"

MCNext ==
  \/ NeverShared /\ Next /\ UNCHANGED shareVars /\ FewReshapes'
  \/ NeverOn /\ ShareNext /\ UNCHANGED vars

MCInit == Init /\ ShareInit

MCSpec == MCInit /\ [][MCNext]_<<vars, shareVars>>
=============================================================================

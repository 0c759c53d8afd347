------------------------------- MODULE MCMux -------------------------------
(* Small instances of Mux. *)
EXTENDS Mux

MCData == [e \in Ends |-> IF e = "gateway" THEN 1 ELSE 2]
\* What is still read of notify, opened, both and answer.
MCNotify ==
  {x \in Refs : /\ notify[x] /\ ~done[x[1]]
                /\ reader[x] \in {"read", "wait"} \/ (reader[x] = "off" /\ user[x] # "done")}
MCOpened ==
  [i \in Ids |-> IF user[<<"gateway", i>>] \in {"open", "wait"} THEN opened[<<"gateway", i>>] ELSE "no"]
MCBoth == {x \in Refs : both[x] /\ user[x] = "close"}
MCAnswer == [e \in Ends |-> IF loop[e] = "write" THEN answer[e] ELSE F("RESET", 0)]
MCTable == [e \in Ends |-> IF done[e] THEN {} ELSE table[e]]
MCLoop == [e \in Ends |-> IF done[e] THEN "gone" ELSE loop[e]]
MCView ==
  <<session, wire, MCTable, nextID, accept, MCLoop, MCAnswer, queue, peerClosed, writeClosed, dead,
    MCNotify, MCOpened, user, reader, MCBoth, written, got>>

\* Three scopes: one stream that ends in any way; one whose session fails, with
\* one data frame and nothing amiss at the local connections; and two streams,
\* the first of which carries nothing.
MCFailed == lost \/ \E e \in Ends : err[e]
MCSound(x) ==
  /\ written[x] <= 1 /\ (x[1] = "gateway" => written[x] = 0)
  /\ user[x] = "done" => reader[x] \notin {"read", "wait"}
  /\ reader[x] = "error" => dead[x]
MCScope ==
  /\ MCFailed => \A x \in Refs : MCSound(x)
  /\ lost => \A x \in Refs : written[x] = 0 /\ user[x] \notin {"abort", "refuse"}
  /\ nextID = 2 =>
       /\ ~MCFailed
       /\ \A i \in Ids : reader[<<"gateway", i>>] = "off"
       /\ \A x \in Refs : MCSound(x) /\ written[x] = 0
=============================================================================

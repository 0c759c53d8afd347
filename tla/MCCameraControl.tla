-------------------------- MODULE MCCameraControl --------------------------
(* The camera and its tunnels on small instances. *)
EXTENDS CameraControl, TLC

\* What a run's locals say once they are dead, and history no property of the
\* safety run reads.
MCView ==
  <<tunnels, pc, sess, origin, ticket, cancelled, newest, sent,
    [r \in Runs |-> pc[r] \notin {"none", "done"} /\ ended[r]],
    [r \in Runs |-> pc[r] \in {"detach", "off", "after"} /\ reset[r]],
    tunnel, on, allowed, pending, gen, fired, started, mustStop,
    overtaken \cap ({pending} \cup fired), source, woken, switches, main>>

\* Either one dial that is not ended, with what the window and the face may do
\* during it, or several, for the camera behind alone and with one stream.
MCScope ==
  LET opened == Cardinality({s \in Streams : streams[s] # "none"}) IN
  \/ sent <= 1 /\ main = "up" /\ (\A r \in Runs : ~ended[r]) /\ opened + switches <= 3
  \/ switches = 0 /\ opened <= 1 /\ \A c \in started : c[1] = "body"

MCSymmetry ==
  Permutations(Sessions) \cup Permutations(Runs) \cup Permutations(Origins) \cup Permutations(Streams)
=============================================================================

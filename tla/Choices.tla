------------------------------ MODULE Choices ------------------------------
(***************************************************************************)
(* The choice of cameras: cmd's set_source (apply.go) on the camera, the   *)
(* front-facing camera and the phone's picture.                            *)
(*                                                                         *)
(* A choice is made under srcMu, held over the probing of devices, the     *)
(* write of source.json and the report to the service; a camera goes on    *)
(* and off under camControl.mu meanwhile.  A choice for a camera that is   *)
(* on waits in manager.pending for a goroutine that onOff starts.  How the *)
(* service learns of the offers is Uplink's.                               *)
(*                                                                         *)
(* A part of the configuration is a number, 0 as it was at the start (no   *)
(* front-facing camera, nothing shared).  Left out: the flags that cannot  *)
(* go together, substitutes for devices not connected, the secret in the   *)
(* share's address.                                                        *)
(***************************************************************************)
EXTENDS Naturals, FiniteSets, TLC

CONSTANTS
  Asks,       \* the choices a person may make, functions on a set of Parts
  MaxAsks, MaxStarts, MaxFaults, \* bounds
  Nothing

Views == {"body", "face"}
Parts == Views \cup {"share"}

ASSUME ChoicesAssumption ==
  /\ \A c \in Asks : \E parts \in SUBSET Parts \ {{}} : c \in [parts -> Nat]
  /\ {MaxAsks, MaxStarts, MaxFaults} \subseteq Nat
  /\ Nothing \notin [cfg : [Parts -> Nat], parts : SUBSET Parts]

VARIABLES
  cfg,      \* manager.cfg
  saved,    \* source.json
  offer,    \* camControl.offer, camControl.face, manager.shared
  on,       \* camControl.on, faceOn
  pending,  \* manager.pending, or Nothing
  apply,    \* applyLocked under way, with the parts it has still to set
  wakes,    \* goroutines started by onOff that wait for srcMu
  promise,  \* history: the parts said to be applied when the camera lets go
  kept,     \* history: the last choice applied went through, file included
  asks, starts, faults

inForce == <<cfg, saved, offer>>
history == <<promise, kept>>
bounds == <<asks, starts, faults>>
choiceVars == <<inForce, on, pending, apply, wakes, history, bounds>>

AsBefore == [p \in Parts |-> 0]
Busy(parts) == \E v \in Views \cap parts : on[v]

ChoiceTypeOK ==
  LET Config == [Parts -> Nat]
      Change == [cfg : Config, parts : SUBSET Parts]
  IN /\ {cfg, saved, offer} \subseteq Config
     /\ on \in [Views -> BOOLEAN]
     /\ pending \in Change \cup {Nothing}
     /\ apply \in Change \cup {Nothing}
     /\ kept \in BOOLEAN /\ wakes \in Nat

ChoiceInit ==
  /\ cfg = AsBefore /\ saved = AsBefore /\ offer = AsBefore
  /\ on = [v \in Views |-> FALSE]
  /\ pending = Nothing /\ apply = Nothing /\ wakes = 0
  /\ promise = <<>> /\ kept = TRUE
  /\ asks = 0 /\ starts = 0 /\ faults = 0

Without(f, parts) == [p \in DOMAIN f \ parts |-> f[p]]

-----------------------------------------------------------------------------
(* apply.go. *)

\* mergeSourceConfig: what the choice names is its own, the rest stays.
Merged(c) == [p \in Parts |-> IF p \in DOMAIN c THEN c[p] ELSE cfg[p]]

\* applySource: a choice for a camera that is on waits; any other is applied
\* now, and is the last word.
Ask(c) ==
  /\ apply = Nothing /\ asks < MaxAsks
  /\ asks' = asks + 1
  /\ LET change == [cfg |-> Merged(c), parts |-> DOMAIN c] IN
     IF Busy(DOMAIN c)
     THEN /\ pending' = change /\ promise' = c @@ promise
          /\ UNCHANGED apply
     ELSE /\ pending' = Nothing /\ apply' = change
          /\ promise' = Without(promise, DOMAIN c)
  /\ UNCHANGED <<inForce, on, wakes, kept, starts, faults>>

\* applyPending, in a goroutine of its own each time a camera has gone off.
ApplyPending ==
  /\ wakes > 0 /\ apply = Nothing
  /\ wakes' = wakes - 1
  /\ IF pending = Nothing \/ Busy(Views)
     THEN UNCHANGED <<pending, apply>>
     ELSE pending' = Nothing /\ apply' = pending
  /\ UNCHANGED <<inForce, on, history, bounds>>

\* The parts are set in this order.
NextPart(p) ==
  /\ apply # Nothing /\ p \in apply.parts
  /\ p = "face" => "body" \notin apply.parts
  /\ p = "share" => apply.parts = {"share"}

\* buildOffer, then setOffer (buildFaceOffer, setFace): the camera may have
\* come on while the devices were probed.
SetOffer(v) ==
  /\ NextPart(v) /\ ~on[v]
  /\ offer' = [offer EXCEPT ![v] = apply.cfg[v]]
  /\ apply' = [apply EXCEPT !.parts = @ \ {v}]
  /\ UNCHANGED <<cfg, saved, on, pending, wakes, history, bounds>>

\* errCameraBusy: "the change is applied when it lets go".
OfferBusy(v) ==
  /\ NextPart(v) /\ on[v]
  /\ apply' = Nothing /\ kept' = FALSE
  /\ promise' = [p \in apply.parts |-> apply.cfg[p]] @@ promise
  /\ UNCHANGED <<inForce, on, pending, wakes, bounds>>

\* A device is not there, or the share's port is taken: the person is told,
\* and what was set before stays set.
PartFails(p) ==
  /\ NextPart(p) /\ faults < MaxFaults
  /\ p # "body" => apply.cfg[p] # 0
  /\ p = "share" => apply.cfg[p] # offer[p]
  /\ faults' = faults + 1
  /\ apply' = Nothing /\ kept' = FALSE
  /\ offer' = IF p = "share" THEN [offer EXCEPT !.share = 0] ELSE offer
  /\ promise' = Without(promise, apply.parts)
  /\ UNCHANGED <<cfg, saved, on, pending, wakes, asks, starts>>

SetShared ==
  /\ NextPart("share")
  /\ offer' = [offer EXCEPT !.share = apply.cfg.share]
  /\ apply' = [apply EXCEPT !.parts = {}]
  /\ UNCHANGED <<cfg, saved, on, pending, wakes, history, bounds>>

\* Bug: the choice is remembered, not what came of it and of those before.
RememberedChoice == apply.cfg

\* rememberedConfig: the cameras as the offers in force name them.
Remembered == [offer EXCEPT !.share = apply.cfg.share]

\* A file that cannot be written is only logged.
Save ==
  /\ apply # Nothing /\ apply.parts = {}
  /\ cfg' = Remembered
  /\ \/ saved' = cfg' /\ kept' = TRUE /\ UNCHANGED faults
     \/ /\ faults < MaxFaults /\ faults' = faults + 1
        /\ kept' = FALSE /\ UNCHANGED saved
  /\ apply' = Nothing
  /\ UNCHANGED <<offer, on, pending, wakes, promise, asks, starts>>

-----------------------------------------------------------------------------
(* The cameras, as the sessions and the window's switches have them.       *)

CameraOn(v) ==
  /\ starts < MaxStarts /\ ~on[v] /\ (v = "face" => offer.face # 0)
  /\ starts' = starts + 1 /\ on' = [on EXCEPT ![v] = TRUE]
  /\ UNCHANGED <<inForce, pending, apply, wakes, history, asks, faults>>

\* Bug: only the camera's own going off is looked at.
CameraOffBody(views) ==
  /\ views # {} /\ \A v \in views : on[v]
  /\ on' = [v \in Views |-> on[v] /\ v \notin views]
  /\ wakes' = IF "body" \in views THEN wakes + 1 ELSE wakes
  /\ UNCHANGED <<inForce, pending, apply, history, bounds>>

\* stopSomeLocked: either camera, or both; onOff runs after.
CameraOff(views) ==
  /\ views # {} /\ \A v \in views : on[v]
  /\ on' = [v \in Views |-> on[v] /\ v \notin views]
  /\ wakes' = wakes + 1
  /\ UNCHANGED <<inForce, pending, apply, history, bounds>>

-----------------------------------------------------------------------------
Apply == SetShared \/ \E v \in Views : SetOffer(v) \/ OfferBusy(v)

ChoiceStep ==
  \/ \E c \in Asks : Ask(c)
  \/ ApplyPending \/ Apply
  \/ \E p \in Parts : PartFails(p)
  \/ \E v \in Views : CameraOn(v)
  \/ \E views \in SUBSET Views : CameraOff(views)

ChoiceSpec == ChoiceInit /\ [][ChoiceStep \/ Save]_choiceVars

-----------------------------------------------------------------------------
(* Properties. *)

\* camControl.busy: "an offer cannot be replaced while a session reads it",
\* although it is asked long before the offer is replaced.
OfferHeld == [][\A v \in Views : on[v] => offer'[v] = offer[v]]_choiceVars

\* Once a choice has gone through, source.json names the cameras served,
\* even where an earlier choice had failed half-way.
FileNamesCameras ==
  kept /\ apply = Nothing => \A v \in Views : saved[v] = offer[v] /\ cfg[v] = offer[v]

\* What waits for a camera is taken up once no camera is on.
PendingTaken == pending # Nothing ~> pending = Nothing

\* What the person was told is applied when the camera lets go is waiting, is
\* being applied or is in force (apply.go:44, ipc.go:742).
ChoiceKept ==
  \A p \in DOMAIN promise :
    \/ offer[p] = promise[p]
    \/ pending # Nothing /\ p \in pending.parts /\ pending.cfg[p] = promise[p]
    \/ apply # Nothing /\ p \in apply.parts /\ apply.cfg[p] = promise[p]
=============================================================================

----------------------------- MODULE NetCamera -----------------------------
(***************************************************************************)
(* A camera on the person's network: internal/camera, with the offer that  *)
(* is built of it (source.go, buildOffer) and the stream it publishes into *)
(* (internal/serve).                                                       *)
(*                                                                         *)
(* A Source is built and probed, offered, started and stopped; each start  *)
(* is a run that connects, checks the certificate, publishes, plays, and   *)
(* begins again after a pause, until it finds its context cancelled, which *)
(* it does not while it connects.  A certificate is pinned by the person,  *)
(* or trusted the first time and saved.  A step is what is done under      *)
(* Source.mu or Stream.mu, or a call that can fail.                        *)
(*                                                                         *)
(* The machine that answers at the camera's address is external.  Left     *)
(* out: the parsing of the link, credentials, the packets, the length of   *)
(* the pause, and cameras of other addresses.                              *)
(***************************************************************************)
EXTENDS Naturals, FiniteSets

CONSTANTS
  Certs,      \* certificates
  Builds,    \* bound: Builds built, numbered from 1
  Pulls,      \* bound: starts of a Source, numbered from 1
  MaxUpsets,  \* bound: calls that fail, changes of the machine, restarts
  Nobody      \* no certificate; no machine answers

Torn == "torn"

ASSUME NetCameraAssumption ==
  /\ Builds \subseteq Nat \ {0} /\ Pulls \subseteq Nat \ {0} /\ MaxUpsets \in Nat
  /\ Nobody \notin Certs /\ Torn \notin Certs \cup {Nobody}

VARIABLES
  at,        \* the certificate of the machine at the camera's address
  store,     \* the store's entry for the camera, or Torn
  src,       \* each Source
  building,  \* the Source buildOffer is at, or 0
  offer,     \* the Source of camControl.offer, or 0
  pull,      \* each run: where it is, its Source, the certificate it accepted
  cut,       \* runs whose context is cancelled
  feeds,     \* the run that publishes into the stream, or 0
  first,     \* history: the certificate trusted first
  unsaved,   \* history: a certificate trusted could not be saved
  upsets

offers == <<building, offer>>
trust == <<store, first, unsaved>>
camVars == <<at, trust, src, offers, pull, cut, feeds, upsets>>

Unbuilt == [pc |-> "none", given |-> Nobody, pinned |-> Nobody, ready |-> FALSE,
            cancel |-> 0, publishing |-> FALSE]
NoPull == [pc |-> "none", of |-> 0, cert |-> Nobody]

CamTypeOK ==
  LET Cert == Certs \cup {Nobody} IN
  /\ {at, first} \subseteq Cert /\ store \in Cert \cup {Torn} /\ unsaved \in BOOLEAN
  /\ src \in [Builds -> [pc : {"none", "new", "probed", "gone"}, given : Cert, pinned : Cert,
                          ready : BOOLEAN, cancel : {0} \cup Pulls, publishing : BOOLEAN]]
  /\ {building, offer} \subseteq {0} \cup Builds
  /\ pull \in [Pulls -> [pc : {"none", "connect", "publish", "play", "stream", "unset", "close",
                               "pause", "done"},
                         of : {0} \cup Builds, cert : Cert]]
  /\ cut \subseteq Pulls /\ feeds \in {0} \cup Pulls /\ upsets \in 0 .. MaxUpsets

CamInit ==
  /\ at \in Certs \cup {Nobody} /\ store = Nobody /\ first = Nobody /\ unsaved = FALSE
  /\ src = [s \in Builds |-> Unbuilt] /\ building = 0 /\ offer = 0
  /\ pull = [r \in Pulls |-> NoPull] /\ cut = {} /\ feeds = 0 /\ upsets = 0

Upset == upsets < MaxUpsets /\ upsets' = upsets + 1

-----------------------------------------------------------------------------
(* The certificate: verify and save, under Source.mu. *)

Shows(s) == at # Nobody /\ src[s].pinned \in {Nobody, at}

Pins(s) == src[s].pinned = Nobody

\* The first certificate seen is trusted, saved or not; another is refused.
Verified(s) ==
  /\ Shows(s)
  /\ IF Pins(s)
     THEN /\ first' = IF first = Nobody THEN at ELSE first
          /\ \/ store' = at /\ UNCHANGED <<unsaved, upsets>>
             \/ unsaved' = TRUE /\ Upset /\ UNCHANGED store
     ELSE UNCHANGED <<trust, upsets>>

\* A call that fails, by itself or for what answers.
Failed(s) ==
  /\ IF Shows(s) THEN Upset ELSE UNCHANGED upsets
  /\ UNCHANGED trust

-----------------------------------------------------------------------------
(* The offer: New, Probe, setOffer. *)

\* Bug: the store is written and never read.
PinForgotten(given) == given

\* The pin the person gave, or the one saved.
Pin(given) == IF given # Nobody THEN given ELSE store

\* A store that cannot be read is an error.
New(given) ==
  /\ building = 0 /\ (given = Nobody => store # Torn)
  /\ \E s \in Builds :
       /\ src[s].pc = "none" /\ \A x \in Builds : x < s => src[x].pc # "none"
       /\ src' = [src EXCEPT ![s].pc = "new", ![s].given = given, ![s].pinned = Pin(given)]
       /\ building' = s
  /\ UNCHANGED <<at, trust, offer, pull, cut, feeds, upsets>>

Probe(s) ==
  /\ building = s /\ src[s].pc = "new"
  /\ \/ /\ Verified(s)
        /\ src' = [src EXCEPT ![s].pc = "probed", ![s].pinned = at, ![s].ready = TRUE]
     \/ /\ Failed(s) /\ src' = [src EXCEPT ![s].pc = "probed"]
  /\ UNCHANGED <<at, offers, pull, cut, feeds>>

On == offer # 0 /\ src[offer].cancel # 0

\* setOffer: refused while the camera is on, and the Source is dropped.
Offer(s) ==
  /\ building = s /\ src[s].pc = "probed" /\ building' = 0
  /\ IF On THEN src' = [src EXCEPT ![s].pc = "gone"] /\ UNCHANGED offer
     ELSE offer' = s /\ UNCHANGED src
  /\ UNCHANGED <<at, trust, pull, cut, feeds, upsets>>

-----------------------------------------------------------------------------
(* Start and Stop. *)

\* An offer that is not ready is not started.
StartCamera ==
  /\ offer # 0 /\ src[offer].ready /\ ~On
  /\ \E r \in Pulls :
       /\ pull[r].pc = "none" /\ \A x \in Pulls : x < r => pull[x].pc # "none"
       /\ pull' = [pull EXCEPT ![r] = [pc |-> "connect", of |-> offer, cert |-> Nobody]]
       /\ src' = [src EXCEPT ![offer].cancel = r]
  /\ UNCHANGED <<at, trust, offers, cut, feeds, upsets>>

\* Stop, which then waits for the run; the camera may be started meanwhile.
StopCamera ==
  /\ On /\ cut' = cut \cup {src[offer].cancel}
  /\ src' = [src EXCEPT ![offer].cancel = 0]
  /\ UNCHANGED <<at, trust, offers, pull, feeds, upsets>>

-----------------------------------------------------------------------------
(* A run: run and pull. *)

Goes(r, pc) == pull' = [pull EXCEPT ![r].pc = pc]

\* Where a run goes on when pull returns: only here and in its pause it finds
\* itself cancelled, and while it plays.
After(r) == IF r \in cut THEN "done" ELSE "pause"
GivesUp(r) == pull' = [pull EXCEPT ![r].pc = After(r), ![r].cert = Nobody]

ConnectCamera(r) ==
  /\ pull[r].pc = "connect"
  /\ LET s == pull[r].of IN
     \/ /\ Verified(s) /\ pull' = [pull EXCEPT ![r].pc = "publish", ![r].cert = at]
        /\ src' = [src EXCEPT ![s].pinned = at]
     \/ Failed(s) /\ GivesUp(r) /\ UNCHANGED src
  /\ UNCHANGED <<at, offers, cut, feeds>>

\* Stream.Publish: one source at a time.
Publish(r) ==
  /\ pull[r].pc = "publish"
  /\ IF feeds = 0 THEN feeds' = r /\ Goes(r, "play") ELSE GivesUp(r) /\ UNCHANGED feeds
  /\ UNCHANGED <<at, trust, src, offers, cut, upsets>>

Play(r) ==
  /\ pull[r].pc = "play" /\ at = pull[r].cert /\ Goes(r, "stream")
  /\ src' = [src EXCEPT ![pull[r].of].publishing = TRUE]
  /\ UNCHANGED <<at, trust, offers, cut, feeds, upsets>>

\* Bug: the publication is closed only once it has played.
PlayFailsOpen(r) ==
  /\ pull[r].pc = "play" /\ GivesUp(r)
  /\ IF at = pull[r].cert THEN Upset ELSE UNCHANGED upsets
  /\ UNCHANGED <<at, trust, src, offers, cut, feeds>>

PlayFails(r) ==
  /\ pull[r].pc = "play" /\ Goes(r, "close")
  /\ IF at = pull[r].cert THEN Upset ELSE UNCHANGED upsets
  /\ UNCHANGED <<at, trust, src, offers, cut, feeds>>

\* The camera is gone, or the context is cancelled.
StreamEnds(r) ==
  /\ pull[r].pc = "stream" /\ (r \in cut \/ at # pull[r].cert) /\ Goes(r, "unset")
  /\ UNCHANGED <<at, trust, src, offers, cut, feeds, upsets>>

\* The deferred calls, the last one first.
SetPublishing(r) ==
  /\ pull[r].pc = "unset" /\ Goes(r, "close")
  /\ src' = [src EXCEPT ![pull[r].of].publishing = FALSE]
  /\ UNCHANGED <<at, trust, offers, cut, feeds, upsets>>

ClosePublication(r) ==
  /\ pull[r].pc = "close" /\ GivesUp(r) /\ feeds' = 0
  /\ UNCHANGED <<at, trust, src, offers, cut, upsets>>

Pause(r) ==
  /\ pull[r].pc = "pause" /\ Goes(r, IF r \in cut THEN "done" ELSE "connect")
  /\ UNCHANGED <<at, trust, src, offers, cut, feeds, upsets>>

-----------------------------------------------------------------------------
(* The world. *)

\* Another machine answers at the address, or none.
MachineChanges ==
  /\ Upset /\ at' \in (Certs \cup {Nobody}) \ {at}
  /\ UNCHANGED <<trust, src, offers, pull, cut, feeds>>

\* The program starts anew, maybe in the middle of the store's write.
StartsAnew ==
  /\ Upset
  /\ src' = [s \in Builds |-> IF src[s].pc = "none" THEN Unbuilt ELSE [Unbuilt EXCEPT !.pc = "gone"]]
  /\ pull' = [r \in Pulls |-> IF pull[r].pc = "none" THEN NoPull ELSE [NoPull EXCEPT !.pc = "done"]]
  /\ building' = 0 /\ offer' = 0 /\ cut' = {} /\ feeds' = 0
  /\ \/ UNCHANGED store
     \/ /\ building # 0 /\ src[building].pc = "new" /\ Shows(building) /\ Pins(building)
        /\ store' = Torn
  /\ UNCHANGED <<at, first, unsaved>>

OfPull(r) ==
  \/ ConnectCamera(r) \/ Publish(r) \/ Play(r) \/ PlayFails(r)
  \/ StreamEnds(r) \/ SetPublishing(r) \/ ClosePublication(r) \/ Pause(r)

CamNext ==
  \/ \E given \in Certs \cup {Nobody} : New(given)
  \/ \E s \in Builds : Probe(s) \/ Offer(s)
  \/ StartCamera \/ StopCamera
  \/ \E r \in Pulls : OfPull(r)
  \/ MachineChanges \/ StartsAnew

CamSpec == CamInit /\ [][CamNext]_camVars

\* Every run goes on: each of its calls has a timeout.
CamFair == \A r \in Pulls : WF_camVars(OfPull(r))

-----------------------------------------------------------------------------
(* Properties. *)

\* What is played is of the machine the person pinned or, without a pin, of the
\* one that was trusted first, whatever answered since, through offers built
\* anew and restarts ("the one seen first, saved in...", PROTOCOL.md:434), as
\* long as it could be saved.
TrustedOnly ==
  \A r \in Pulls :
    pull[r].cert # Nobody =>
      LET given == src[pull[r].of].given IN
      pull[r].cert = IF given # Nobody THEN given ELSE IF unsaved THEN pull[r].cert ELSE first

\* A camera that is on and answers comes to be published, and is said to be,
\* whatever failed and although the run before it was still at its end
\* ("keeps at it (with backoff) until Stop").
ComesOn ==
  <>[](On /\ at = src[offer].pinned)
    => <>[](On => src[offer].publishing /\ feeds = src[offer].cancel)
=============================================================================

--------------------------- MODULE CameraControl ---------------------------
(***************************************************************************)
(* The sessions' tunnels and the camera they turn on: the manager of       *)
(* cmd/masseuse-camlink/main.go (OnDial, OnClear, closeAll, run), the      *)
(* camera's switch in source.go (camControl), the waiting change of source *)
(* of apply.go, and the part of internal/tunnel that answers a stream.     *)
(*                                                                         *)
(* The goroutines: the rendezvous reader (OnDial, OnClear: one at a time), *)
(* one per run of a session's tunnel, one per stream the enclave opens,    *)
(* one per grace timer that fires, the window's reader of commands, one    *)
(* per change that waited, and main on its way out.                        *)
(*                                                                         *)
(* A step is a section under manager.mu, camControl.mu or manager.srcMu,   *)
(* or the return of a call that waits on the network or on ffmpeg.         *)
(* stopSomeLocked lets mu go before it stops the sources: what it has yet  *)
(* to stop is in mustStop, and its caller goes on only when that is empty. *)
(*                                                                         *)
(* Left out: what is shown and reported, the order of attestation and      *)
(* handshake inside Dialer.Dial, camControl's own copy of the backlog (the *)
(* console's), and how long anything takes.  The restart of ffmpeg inside  *)
(* a started capture is not told apart from its running, and every offer   *)
(* is one that could be resolved (ready).                                  *)
(***************************************************************************)
EXTENDS Naturals, FiniteSets

CONSTANTS
  Sessions,     \* session ids
  Origins,      \* enclaves the service may send a session to
  Views,        \* the cameras served: "body", and "face" when there is one
  Inputs,       \* what reaches the program from outside, of AllInputs
  Runs,         \* the runs OnDial may ever start
  None,         \* no run, session or enclave
  Streams,      \* the streams the enclave may ever open
  MaxDials,     \* bound: dials the service sends
  MaxGraces,    \* bound: grace timers ever started
  MaxOffers,    \* bound: offers ever built for a view, the first included
  MaxSwitches   \* bound: set_camera and set_source commands

AllInputs == {"clear", "switch", "source", "describe", "shutdown"}

ASSUME CameraAssumption ==
  /\ "body" \in Views /\ Views \subseteq {"body", "face"}
  /\ Inputs \subseteq AllInputs
  /\ None \notin Runs \cup Sessions \cup Origins
  /\ {MaxDials, MaxGraces, MaxSwitches} \subseteq Nat
  /\ MaxOffers \in Nat \ {0}

Tickets == 1 .. MaxDials
Graces == 1 .. MaxGraces
Captures == Views \X (1 .. MaxOffers)   \* a capture source per offer

\* Who calls stopSomeLocked.
RunOf(r) == <<"run", r>>
GraceOf(g) == <<"grace", g>>
Window == <<"window", 0>>
Main == <<"main", 0>>
Actors == {RunOf(r) : r \in Runs} \cup {GraceOf(g) : g \in Graces} \cup {Window, Main}

VARIABLES
  tunnels,     \* manager: session -> its run, or None
  pc,          \* where each run is
  sess, origin,\* the session and the enclave of each run's dial
  ticket,      \* active.dial: the ticket its next attempt carries
  dialed,      \* the ticket of its latest attempt
  cancelled,   \* its context has ended
  ended,       \* active.ended
  reset,       \* its last tunnel ended by a ResetError
  backlog,     \* the run whose tunnel the stream's backlog is read from, or None
  main,        \* "up", "closed" (closeAll done), "dark" (off(false) begun)
  streams,     \* where each stream's handler is
  carrier,     \* the run whose tunnel carries the stream, None once either has ended
  on, allowed, \* camControl: on/faceOn; not cameraOff/not faceOff
  pending,     \* camControl: the grace running, 0 for none
  gen,         \* camControl: pendingGen
  fired,       \* graces whose timer has fired, graceOver not yet run
  started,     \* captures started and not stopped
  mustStop,    \* what each caller of stopSomeLocked has yet to stop
  offer,       \* camControl: the offer served for each view
  waiting,     \* manager.pending: the view whose change waits, or "none"
  building,    \* srcMu is held to build an offer for: a view, or "none"
  woken,       \* goroutines of applyPending that have not run
  sent,        \* dials the service has sent
  switches,    \* commands the window has sent
  newest,      \* history: the ticket last sent for each session
  overtaken    \* history: graces during which a stream was opened

runs == <<tunnels, pc, sess, origin, ticket, dialed, cancelled, ended, reset, newest, sent>>
tunnel == <<backlog, streams, carrier>>
camera == <<on, pending, gen, started, mustStop, overtaken>>
source == <<offer, waiting, building>>
vars == <<runs, tunnel, camera, allowed, fired, source, woken, switches, main>>

Locations ==
  {"none", "top", "dial", "attach", "serve", "detach", "off", "after", "final", "done"}

TypeOK ==
  /\ tunnels \in [Sessions -> Runs \cup {None}]
  /\ pc \in [Runs -> Locations]
  /\ sess \in [Runs -> Sessions \cup {None}] /\ origin \in [Runs -> Origins \cup {None}]
  /\ ticket \in [Runs -> Tickets \cup {0}] /\ dialed \in [Runs -> Tickets \cup {0}]
  /\ cancelled \in [Runs -> BOOLEAN] /\ ended \in [Runs -> BOOLEAN]
  /\ reset \in [Runs -> BOOLEAN]
  /\ backlog \in Runs \cup {None}
  /\ main \in {"up", "closed", "dark"}
  /\ streams \in [Streams -> {"none", "accepted", "relaying", "closed"}]
  /\ carrier \in [Streams -> Runs \cup {None}]
  /\ on \in [Views -> BOOLEAN] /\ allowed \in [Views -> BOOLEAN]
  /\ pending \in Graces \cup {0} /\ gen \in Graces \cup {0} /\ fired \subseteq Graces
  /\ started \subseteq Captures
  /\ mustStop \in [Actors -> SUBSET Captures]
  /\ offer \in [Views -> 1 .. MaxOffers]
  /\ waiting \in Views \cup {"none"} /\ building \in Views \cup {"none"}
  /\ woken \in Nat
  /\ sent \in Tickets \cup {0} /\ switches \in 0 .. MaxSwitches
  /\ newest \in [Sessions -> Tickets \cup {0}] /\ overtaken \subseteq Graces

Init ==
  /\ tunnels = [s \in Sessions |-> None]
  /\ pc = [r \in Runs |-> "none"]
  /\ sess = [r \in Runs |-> None] /\ origin = [r \in Runs |-> None]
  /\ ticket = [r \in Runs |-> 0] /\ dialed = [r \in Runs |-> 0]
  /\ cancelled = [r \in Runs |-> FALSE] /\ ended = [r \in Runs |-> FALSE]
  /\ reset = [r \in Runs |-> FALSE]
  /\ backlog = None /\ main = "up"
  /\ streams = [s \in Streams |-> "none"] /\ carrier = [s \in Streams |-> None]
  /\ on = [v \in Views |-> FALSE] /\ allowed = [v \in Views |-> TRUE]
  /\ pending = 0 /\ gen = 0 /\ fired = {}
  /\ started = {} /\ mustStop = [a \in Actors |-> {}]
  /\ offer = [v \in Views |-> 1]
  /\ waiting = "none" /\ building = "none" /\ woken = 0
  /\ sent = 0 /\ switches = 0
  /\ newest = [s \in Sessions |-> 0] /\ overtaken = {}

-----------------------------------------------------------------------------
(* The rendezvous reader. *)

\* active.finished: run has returned from its deferred off and closed done.
Finished(r) == pc[r] = "done" /\ mustStop[RunOf(r)] = {}
Begun == {r \in Runs : pc[r] # "none"}
Entered == {tunnels[s] : s \in Sessions} \ {None}

\* The runs a dial for s ends: its own, and any other session's.
ReplacedOwnOnly(s) == {tunnels[s]} \ {None}
Replaced(s) == Entered

\* active.take: the next attempt carries it.
Take(r, t) == ticket' = [ticket EXCEPT ![r] = t]

\* A dial for the session's own run, at the same enclave, is kept as the one
\* the next attempt carries.
Keeps(s, o) ==
  tunnels[s] # None /\ origin[tunnels[s]] = o /\ ~Finished(tunnels[s])

OnDial(s, o) ==
  /\ main = "up" /\ sent < MaxDials
  /\ sent' = sent + 1
  /\ newest' = [newest EXCEPT ![s] = sent']
  /\ IF Keeps(s, o)
       THEN /\ Take(tunnels[s], sent')
            /\ UNCHANGED <<tunnels, pc, sess, origin, cancelled>>
       ELSE \E r \in Runs \ Begun :
            /\ cancelled' = [q \in Runs |-> cancelled[q] \/ q \in Replaced(s)]
            /\ tunnels' = [t \in Sessions |-> IF t = s THEN r ELSE None]
            /\ pc' = [pc EXCEPT ![r] = "top"]
            /\ sess' = [sess EXCEPT ![r] = s]
            /\ origin' = [origin EXCEPT ![r] = o]
            /\ ticket' = [ticket EXCEPT ![r] = sent']
  /\ UNCHANGED <<dialed, ended, reset, tunnel, camera, allowed, fired, source, woken, switches, main>>

OnClear(s) ==
  /\ main = "up" /\ tunnels[s] # None
  /\ tunnels' = [tunnels EXCEPT ![s] = None]
  /\ ended' = [ended EXCEPT ![tunnels[s]] = TRUE]
  /\ cancelled' = [cancelled EXCEPT ![tunnels[s]] = TRUE]
  /\ UNCHANGED <<pc, sess, origin, ticket, dialed, reset, newest, sent,
                 tunnel, camera, allowed, fired, source, woken, switches, main>>

-----------------------------------------------------------------------------
(* camControl: off, and what it shares with the grace and the window. *)

Lit == {v \in Views : on[v]}

\* stopSomeLocked: the views go off under mu, their captures are a's to stop.
StopSome(a, views) ==
  /\ on' = [v \in Views |-> on[v] /\ v \notin views]
  /\ mustStop' = [mustStop EXCEPT ![a] = {<<v, offer[v]>> : v \in views \cap Lit}]
  /\ UNCHANGED <<gen, started, overtaken>>

OffOnlyLater(a, later) ==
  IF Lit = {} \/ pending # 0 THEN UNCHANGED camera
  ELSE /\ gen < MaxGraces
       /\ gen' = gen + 1 /\ pending' = gen'
       /\ UNCHANGED <<on, started, mustStop, overtaken>>

\* off(later): at once, or by a grace; one that runs is left to run.
Off(a, later) ==
  IF Lit = {} THEN UNCHANGED camera
  ELSE IF ~later THEN StopSome(a, Lit) /\ pending' = 0
  ELSE IF pending # 0 THEN UNCHANGED camera
  ELSE /\ gen < MaxGraces
       /\ gen' = gen + 1 /\ pending' = gen'
       /\ UNCHANGED <<on, started, mustStop, overtaken>>

StopCaptureFaceSilent(a) ==
  \E c \in mustStop[a] :
    /\ c[1] = "body" \/ \A d \in mustStop[a] : d[1] # "body"
    /\ started' = started \ {c}
    /\ mustStop' = [mustStop EXCEPT ![a] = @ \ {c}]
    /\ woken' = IF c[1] = "body" THEN woken + 1 ELSE woken
    /\ UNCHANGED <<runs, tunnel, on, pending, gen, overtaken, allowed, fired, source, switches, main>>

\* offer.stop, one capture after the other, the camera behind first; after
\* the last, onOff starts applyPending.
StopCapture(a) ==
  \E c \in mustStop[a] :
    /\ c[1] = "body" \/ \A d \in mustStop[a] : d[1] # "body"
    /\ started' = started \ {c}
    /\ mustStop' = [mustStop EXCEPT ![a] = @ \ {c}]
    /\ woken' = IF mustStop'[a] = {} THEN woken + 1 ELSE woken
    /\ UNCHANGED <<runs, tunnel, on, pending, gen, overtaken, allowed, fired, source, switches, main>>

\* The grace's time passes: its timer's goroutine starts.
GraceFires ==
  /\ pending # 0 /\ pending \notin fired
  /\ fired' = fired \cup {pending}
  /\ UNCHANGED <<runs, tunnel, camera, allowed, source, woken, switches, main>>

CountsAny(g) == pending # 0 /\ Lit # {}
Counts(g) == pending = g /\ Lit # {}

GraceOver(g) ==
  /\ g \in fired
  /\ fired' = fired \ {g}
  /\ IF Counts(g) THEN StopSome(GraceOf(g), Lit) /\ pending' = 0
                  ELSE UNCHANGED camera
  /\ UNCHANGED <<runs, tunnel, allowed, source, woken, switches, main>>

-----------------------------------------------------------------------------
(* One run: dial, serve, and again. *)

\* What r does next, when it has nothing left to stop.
At(r, l) == pc[r] = l /\ mustStop[RunOf(r)] = {}
Move(r, l) == pc' = [pc EXCEPT ![r] = l]

NewAttempt(r) ==
  /\ At(r, "top")
  /\ IF cancelled[r] THEN Move(r, "final") /\ UNCHANGED dialed
     ELSE Move(r, "dial") /\ dialed' = [dialed EXCEPT ![r] = ticket[r]]
  /\ UNCHANGED <<tunnels, sess, origin, ticket, cancelled, ended, reset, newest, sent,
                 tunnel, camera, allowed, fired, source, woken, switches, main>>

\* Dialer.Dial: attached (the handshake itself does not watch the context),
\* refused (401 or 403), or failed some other way, to be tried again.
DialReturns(r) ==
  /\ At(r, "dial")
  /\ \/ Move(r, "attach")
     \/ Move(r, "final")
     \/ ~cancelled[r] /\ Move(r, "top")
  /\ UNCHANGED <<tunnels, sess, origin, ticket, dialed, cancelled, ended, reset, newest, sent,
                 tunnel, camera, allowed, fired, source, woken, switches, main>>

Attach(r) ==
  /\ At(r, "attach")
  /\ Move(r, "serve") /\ backlog' = r
  /\ reset' = [reset EXCEPT ![r] = FALSE]
  /\ UNCHANGED <<tunnels, sess, origin, ticket, dialed, cancelled, ended, newest, sent, streams,
                 carrier, camera, allowed, fired, source, woken, switches, main>>

\* Tunnel.Serve returns: its context has ended, the connection was lost, or
\* (closed) the enclave closed the link.
ServeReturns(r, closed) ==
  /\ At(r, "serve")
  /\ Move(r, "detach")
  /\ reset' = [reset EXCEPT ![r] = closed]
  /\ carrier' = [s \in Streams |-> IF carrier[s] = r THEN None ELSE carrier[s]]
  /\ UNCHANGED <<tunnels, sess, origin, ticket, dialed, cancelled, ended, newest, sent, backlog,
                 streams, camera, allowed, fired, source, woken, switches, main>>

Detach(r) ==
  /\ At(r, "detach")
  /\ Move(r, "off") /\ backlog' = None
  /\ UNCHANGED <<tunnels, sess, origin, ticket, dialed, cancelled, ended, reset, newest, sent,
                 streams, carrier, camera, allowed, fired, source, woken, switches, main>>

TunnelOff(r) ==
  /\ At(r, "off")
  /\ Move(r, "after") /\ Off(RunOf(r), ~ended[r])
  /\ UNCHANGED <<tunnels, sess, origin, ticket, dialed, cancelled, ended, reset, newest, sent,
                 tunnel, allowed, fired, source, woken, switches, main>>

\* Two seconds later, or at once when there is nothing to dial for.
AfterTunnel(r) ==
  /\ At(r, "after")
  /\ Move(r, IF cancelled[r] \/ reset[r] THEN "final" ELSE "top")
  /\ UNCHANGED <<tunnels, sess, origin, ticket, dialed, cancelled, ended, reset, newest, sent,
                 tunnel, camera, allowed, fired, source, woken, switches, main>>

\* The deferred off, then close(done).
FinalOff(r) ==
  /\ At(r, "final")
  /\ Move(r, "done") /\ Off(RunOf(r), ~ended[r])
  /\ UNCHANGED <<tunnels, sess, origin, ticket, dialed, cancelled, ended, reset, newest, sent,
                 tunnel, allowed, fired, source, woken, switches, main>>

-----------------------------------------------------------------------------
(* The streams the enclave opens over a tunnel, for the connector's own      *)
(* target.                                                                   *)

\* Tunnel.Serve accepts an OPEN and starts its handler.
Open(s) ==
  /\ streams[s] = "none"
  /\ \E r \in Runs :
       /\ At(r, "serve")
       /\ carrier' = [carrier EXCEPT ![s] = r]
  /\ streams' = [streams EXCEPT ![s] = "accepted"]
  /\ UNCHANGED <<runs, backlog, camera, allowed, fired, source, woken, switches, main>>

\* dialLocal: refused while the window has the camera switched off; else it
\* takes back a grace, turns the camera on, and the stream is relayed.
DialLocal(s) ==
  /\ streams[s] = "accepted"
  /\ IF ~allowed["body"]
       THEN /\ streams' = [streams EXCEPT ![s] = "closed"]
            /\ carrier' = [carrier EXCEPT ![s] = None]
            /\ UNCHANGED camera
       ELSE /\ streams' = [streams EXCEPT ![s] = "relaying"]
            /\ on' = [on EXCEPT !["body"] = TRUE]
            /\ started' = IF on["body"] THEN started ELSE started \cup {<<"body", offer["body"]>>}
            /\ pending' = 0
            /\ overtaken' = overtaken \cup (Graces \cap (1 .. gen))
            /\ UNCHANGED <<carrier, gen, mustStop>>
  /\ UNCHANGED <<runs, backlog, allowed, fired, source, woken, switches, main>>

DescribeAnyway(s) ==
  /\ streams[s] = "relaying"
  /\ "face" \in Views /\ ~on["face"]
  /\ on' = [on EXCEPT !["face"] = TRUE]
  /\ started' = started \cup {<<"face", offer["face"]>>}
  /\ UNCHANGED <<runs, tunnel, pending, gen, mustStop, overtaken, allowed, fired, source, woken, switches, main>>

\* startFace, at the enclave's DESCRIBE of the face over a stream.
Describe(s) ==
  /\ streams[s] = "relaying"
  /\ "face" \in Views /\ allowed["face"] /\ ~on["face"]
  /\ on' = [on EXCEPT !["face"] = TRUE]
  /\ started' = started \cup {<<"face", offer["face"]>>}
  /\ UNCHANGED <<runs, tunnel, pending, gen, mustStop, overtaken, allowed, fired, source, woken, switches, main>>

\* mux.Relay returns: the enclave closed the stream, or its tunnel has ended.
CloseStream(s) ==
  /\ streams[s] = "relaying"
  /\ streams' = [streams EXCEPT ![s] = "closed"]
  /\ carrier' = [carrier EXCEPT ![s] = None]
  /\ UNCHANGED <<runs, backlog, camera, allowed, fired, source, woken, switches, main>>

-----------------------------------------------------------------------------
(* The window's commands, one at a time, and the change of source that waits. *)

WindowReads ==
  /\ main = "up" /\ switches < MaxSwitches /\ mustStop[Window] = {}
  /\ switches' = switches + 1

\* setEnabled: off also takes the camera down, and with the camera behind a
\* grace that has nothing else to keep on.
SetEnabled(v, enabled) ==
  /\ WindowReads
  /\ allowed' = [allowed EXCEPT ![v] = enabled]
  /\ IF enabled \/ ~on[v] THEN UNCHANGED camera
     ELSE /\ StopSome(Window, {v})
          /\ pending' = IF v = "body" /\ Lit = {"body"} THEN 0 ELSE pending
  /\ UNCHANGED <<runs, tunnel, fired, source, woken, main>>

\* applySource for one view: its change waits while a session has that view.
SetSource(v) ==
  /\ WindowReads /\ building = "none"
  /\ IF on[v] THEN waiting' = v /\ UNCHANGED building
              ELSE waiting' = "none" /\ building' = v
  /\ UNCHANGED <<runs, tunnel, camera, allowed, fired, offer, woken, main>>

\* applyPending takes srcMu: nothing waits, a camera is on, or the change is
\* taken to be applied.
ApplyPending ==
  /\ woken > 0 /\ building = "none"
  /\ woken' = woken - 1
  /\ IF waiting = "none" \/ Lit # {} THEN UNCHANGED <<waiting, building>>
     ELSE waiting' = "none" /\ building' = waiting
  /\ UNCHANGED <<runs, tunnel, camera, allowed, fired, offer, switches, main>>

SetOfferAnyway ==
  /\ building # "none" /\ offer[building] < MaxOffers
  /\ offer' = [offer EXCEPT ![building] = @ + 1]
  /\ building' = "none"
  /\ UNCHANGED <<runs, tunnel, camera, allowed, fired, waiting, woken, switches, main>>

\* setOffer, setFace: the offer built replaces the one served, unless a
\* session turned the camera on meanwhile (errCameraBusy).
SetOffer ==
  /\ building # "none"
  /\ \/ on[building] /\ UNCHANGED offer
     \/ /\ ~on[building] /\ offer[building] < MaxOffers
        /\ offer' = [offer EXCEPT ![building] = @ + 1]
  /\ building' = "none"
  /\ UNCHANGED <<runs, tunnel, camera, allowed, fired, waiting, woken, switches, main>>

-----------------------------------------------------------------------------
(* main on its way out: closeAll, then off(false). *)

CloseAll ==
  /\ main = "up"
  /\ main' = "closed"
  /\ ended' = [r \in Runs |-> ended[r] \/ r \in Entered]
  /\ cancelled' = [r \in Runs |-> cancelled[r] \/ r \in Entered]
  /\ tunnels' = [s \in Sessions |-> None]
  /\ UNCHANGED <<pc, sess, origin, ticket, dialed, reset, newest, sent,
                 tunnel, camera, allowed, fired, source, woken, switches>>

MainOff ==
  /\ main = "closed"
  /\ main' = "dark" /\ Off(Main, FALSE)
  /\ UNCHANGED <<runs, tunnel, allowed, fired, source, woken, switches>>

-----------------------------------------------------------------------------
Rendezvous ==
  \/ \E s \in Sessions, o \in Origins : OnDial(s, o)
  \/ "clear" \in Inputs /\ \E s \in Sessions : OnClear(s)

Run(r) ==
  \/ NewAttempt(r) \/ DialReturns(r) \/ Attach(r)
  \/ \E closed \in BOOLEAN : ServeReturns(r, closed)
  \/ Detach(r) \/ TunnelOff(r) \/ AfterTunnel(r) \/ FinalOff(r)

Enclave(s) ==
  \/ Open(s) \/ DialLocal(s) \/ CloseStream(s)
  \/ "describe" \in Inputs /\ Describe(s)

WindowCommand ==
  \/ "switch" \in Inputs /\ \E v \in Views, b \in BOOLEAN : SetEnabled(v, b)
  \/ "source" \in Inputs /\ \E v \in Views : SetSource(v)

Background ==
  \/ GraceFires \/ \E g \in Graces : GraceOver(g)
  \/ \E a \in Actors : StopCapture(a)
  \/ ApplyPending \/ SetOffer

Exit == "shutdown" \in Inputs /\ (CloseAll \/ MainOff)

Next ==
  \/ Rendezvous \/ \E r \in Runs : Run(r) \/ \E s \in Streams : Enclave(s)
  \/ WindowCommand \/ Background \/ Exit

Spec == Init /\ [][Next]_vars

-----------------------------------------------------------------------------
(* Properties. *)

\* One session at a time: of all the runs ever started at most one may still
\* dial and attach; whatever replaces it ends it first (OnDial).
OneTunnel == Cardinality({r \in Begun : ~cancelled[r] /\ ~Finished(r)}) <= 1

\* The ticket a live run's next attempt carries is the last the service sent
\* for its session: the enclave expects no other (OnDial, active.take).
HoldsNewest == \A r \in Begun : ~cancelled[r] => ticket[r] = newest[sess[r]]

\* No capture runs unanswered for: it is the offer in force of a view that is
\* on, or somebody is under way to stop it (setOffer, stopSomeLocked).
CaptureAccounted ==
  \A c \in started :
    (on[c[1]] /\ offer[c[1]] = c[2]) \/ \E a \in Actors : c \in mustStop[a]

\* A view switched off in the window is off, whatever a stream or a DESCRIBE
\* asks and however it races with the switch (dialLocal, startFace).
SwitchedOffIsOff == \A v \in Views : on[v] => allowed[v]

\* A change of source that waits is not forgotten: a view is still on, or
\* being let go, or applyPending is about to look (applySource, onOff).
WaitingIsWoken ==
  waiting # "none" =>
    Lit # {} \/ woken > 0 \/ \E a \in Actors : mustStop[a] # {}

\* A grace during which a stream was opened never takes the camera, even when
\* its timer had fired by then and another grace runs now (pendingGen).
FullGrace ==
  [][\A g \in overtaken : mustStop[GraceOf(g)] = {} => mustStop'[GraceOf(g)] = {}]_vars

\* Video is never dropped by the backlog of a tunnel that is gone: the stream
\* reads that of a run that serves, or is about to take it back (attach).
BacklogLives == backlog # None => pc[backlog] \in {"serve", "detach"}

\* A run that ends after its session has leaves nothing on: its last look at
\* the camera turns it off at once, grace or not (run's deferred off).
EndedRunGoesDark ==
  [][\A r \in Runs :
       ended[r] /\ pc[r] # "done" /\ pc'[r] = "done" => Lit' = {}]_vars

\* What the comments and the documents say, and the code does not keep.

\* source.go, cameraGrace: "A session's end turns the camera off at once."  Once
\* every session has ended and every run has returned, with no stream left, no
\* grace keeps a view on.
EndLeavesNoGrace ==
  (/\ \A r \in Begun : ended[r] /\ Finished(r)
   /\ \A s \in Streams : streams[s] \in {"none", "closed"}) => pending = 0 \/ Lit = {}

\* main.go, OnDial: a ticket kept while the run is at its enclave is "the one
\* the next dial carries"; a refusal "is final for this ticket".  A run never
\* gives up with a ticket the enclave has not been asked about.
RefusalIsForItsTicket ==
  \A r \in Begun : Finished(r) /\ ~cancelled[r] /\ ~reset[r] => dialed[r] = ticket[r]

\* source.go, camControl: off "when its tunnel has been down for cameraGrace
\* with no stream opened since".  The grace never takes the camera from a
\* stream relayed over the tunnel of the run in force.
Watched ==
  \E s \in Streams : streams[s] = "relaying" /\ carrier[s] \in {r \in Runs : ~cancelled[r]}

GraceSparesLive ==
  [][\A g \in Graces :
       mustStop[GraceOf(g)] = {} /\ mustStop'[GraceOf(g)] # {} => ~Watched]_vars
=============================================================================

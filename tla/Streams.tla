------------------------------ MODULE Streams ------------------------------
(***************************************************************************)
(* The computer's own camera and the stream it publishes into:             *)
(* internal/capture (Source, intake, Adapter) and internal/serve (Stream,  *)
(* Publication).                                                           *)
(*                                                                         *)
(* A run of the Source keeps an ffmpeg going; each ffmpeg announces itself *)
(* to the run's intake, which publishes into the stream.  The Adapter      *)
(* restarts the encoder at another rate, the publication being handed over *)
(* to the replacement.  The camera goes off and on again while the old run *)
(* is still at its end.  A step is what is done in one hold of a mutex:    *)
(* Source.mu, intake.mu, Publication.mu, Stream.mu.  So a replacement asks *)
(* whether a handover is armed in one step and joins in another, and the   *)
(* close of a publication is decided, takes the grace off and takes the    *)
(* publication off in three.                                               *)
(*                                                                         *)
(* Left out: the packets (module Gate has them), the devices and the       *)
(* arguments, what is said when the camera delivers no picture, the        *)
(* Adapter's samples (it steps whenever it likes), the front-facing        *)
(* camera, which is another Stream and Source, and the server's own end.   *)
(***************************************************************************)
EXTENDS Naturals, FiniteSets

CONSTANTS
  MaxRuns,     \* bound: times the camera is turned on
  MaxProcs,    \* bound: ffmpegs started
  MaxReshapes, \* bound: steps of the Adapter
  Rungs,       \* the bit rates below the ceiling, which is 0
  Breaks       \* an ffmpeg may exit by itself, unasked and not refused

Runs == 1 .. MaxRuns
Procs == 1 .. MaxProcs

ASSUME StreamsAssumption ==
  /\ MaxRuns \in Nat /\ MaxProcs \in Nat /\ MaxReshapes \in Nat
  /\ Rungs \in Nat /\ Breaks \in BOOLEAN

VARIABLES
  cancel,     \* the run that Source.cancel ends, or 0
  ended,      \* runs whose context is cancelled
  srcIn, procCancel, reshaping, bitrate, \* Source
  run,        \* each run: where it is and its ffmpeg
  proc,       \* each ffmpeg: where it is, its run and rate
  asked,      \* ffmpegs whose context is cancelled
  sess,       \* its session at the intake, and the publication taken from it
  intake,     \* by run, intake.pub and the ffmpeg whose session is intake.sess
  pub,        \* Stream.pub, NoPub when none; with the generation in which its close
              \* was decided, and whether that has had Publication.mu
  made,       \* publications made
  firing,     \* generations whose grace timer fired and waits for the mutex
  adapter,    \* by run, where the Adapter's goroutine is, with what Reshape read
  reshapes

camera == <<cancel, ended>>
source == <<srcIn, procCancel, reshaping, bitrate>>
procs == <<run, proc, asked>>
stream == <<pub, made, firing>>
adapt == <<adapter, reshapes>>
vars == <<camera, source, procs, sess, intake, stream, adapt>>

NoPub == [id |-> 0, armed |-> "no", timer |-> "none", released |-> FALSE,
          owed |-> 0, gen |-> 0, feeder |-> 0, doomed |-> 0, cleared |-> FALSE]
NoTake == [pub |-> 0, proc |-> 0]
Asleep == [pc |-> "idle", in |-> 0, proc |-> 0, pub |-> 0]

TypeOK ==
  /\ cancel \in {0} \cup Runs /\ ended \subseteq Runs
  /\ srcIn \in {0} \cup Runs /\ procCancel \in {0} \cup Procs
  /\ reshaping \in BOOLEAN /\ bitrate \in 0 .. Rungs
  /\ run \in [Runs -> [proc : {0} \cup Procs,
                       pc : {"none", "start", "top", "proc", "reset", "close",
                             "done"}]]
  /\ proc \in [Procs -> [pc : {"none", "run", "gone"}, run : {0} \cup Runs,
                         rate : 0 .. Rungs]]
  /\ asked \subseteq Procs
  /\ sess \in [Procs -> [pc : {"none", "joins", "open", "refused", "left", "closes",
                               "gone"}, pub : Nat]]
  /\ intake \in [Runs -> [pub : Nat, proc : {0} \cup Procs]]
  /\ pub \in [id : Nat, armed : {"no", "yes", "late"},
              timer : {"none", "set", "due"}, released : BOOLEAN,
              owed : 0 .. MaxProcs, gen : 0 .. MaxProcs, feeder : {0} \cup Procs,
              doomed : 0 .. MaxProcs, cleared : BOOLEAN]
  /\ made \in Nat /\ firing \subseteq 1 .. MaxProcs
  /\ reshapes \in 0 .. MaxReshapes
  /\ adapter \in [Runs -> [pc : {"idle", "take", "arm", "cancel"},
                           in : {0} \cup Runs, proc : {0} \cup Procs, pub : Nat]]

Init ==
  /\ cancel = 0 /\ ended = {}
  /\ srcIn = 0 /\ procCancel = 0 /\ reshaping = FALSE /\ bitrate = 0
  /\ run = [r \in Runs |-> [pc |-> "none", proc |-> 0]]
  /\ proc = [p \in Procs |-> [pc |-> "none", run |-> 0, rate |-> 0]]
  /\ asked = {} /\ sess = [p \in Procs |-> [pc |-> "none", pub |-> 0]]
  /\ intake = [r \in Runs |-> NoTake]
  /\ pub = NoPub /\ made = 0 /\ firing = {}
  /\ adapter = [r \in Runs |-> Asleep] /\ reshapes = 0

Step(r, pc) == run' = [run EXCEPT ![r].pc = pc]
Turn(r, pc) == adapter' = [adapter EXCEPT ![r].pc = pc]

-----------------------------------------------------------------------------
(* The camera goes on and off: Source.Start and Source.Stop. *)

\* The camera comes on again, maybe with the last run still at its end.
Start ==
  /\ cancel = 0
  /\ \E r \in Runs : /\ run[r].pc = "none" /\ \A x \in 1 .. r - 1 : run[x].pc # "none"
                     /\ cancel' = r /\ Step(r, "start")
  /\ UNCHANGED <<ended, source, proc, asked, sess, intake, stream, adapt>>

\* Stop as far as its wait for the run's end; the Adapter's context was
\* cancelled, which a step of it under way does not notice.
Stop ==
  /\ cancel # 0 /\ cancel' = 0 /\ ended' = ended \cup {cancel} /\ bitrate' = 0
  /\ UNCHANGED <<srcIn, procCancel, reshaping, procs, sess, intake, stream, adapt>>

-----------------------------------------------------------------------------
(* A run of the Source. *)

Intake(r) ==
  /\ run[r].pc = "start"
  /\ Step(r, "top") /\ srcIn' = r
  /\ UNCHANGED <<camera, procCancel, reshaping, bitrate, proc, asked, sess, intake,
                 stream, adapt>>

NextProc == CHOOSE p \in Procs : /\ proc[p].pc = "none"
                                 /\ \A q \in 1 .. p - 1 : proc[q].pc # "none"

\* The ffmpeg's own context is made, for Reshape to end it with; runFFmpeg reads
\* the rate in force and starts the program.
Top(r) ==
  /\ run[r].pc = "top" /\ \E p \in Procs : proc[p].pc = "none"
  /\ run' = [run EXCEPT ![r] = [pc |-> "proc", proc |-> NextProc]]
  /\ proc' = [proc EXCEPT ![NextProc] = [pc |-> "run", run |-> r, rate |-> bitrate]]
  /\ procCancel' = NextProc
  /\ UNCHANGED <<camera, srcIn, reshaping, bitrate, asked, sess, intake, stream,
                 adapt>>

\* The pause is cut short, or an ffmpeg that starts is told to finish at once.
TopEnded(r) ==
  /\ run[r].pc = "top" /\ r \in ended /\ Step(r, "reset")
  /\ procCancel' = 0 /\ reshaping' = FALSE
  /\ UNCHANGED <<camera, srcIn, bitrate, proc, asked, sess, intake, stream, adapt>>

\* Its context or the run's is over: it is told to finish, then killed.
Told(p) == p \in asked \/ proc[p].run \in ended

Exits(p) ==
  /\ proc[p].pc = "run" /\ run[proc[p].run] = [pc |-> "proc", proc |-> p]
  /\ Told(p) \/ sess[p].pc = "refused" \/ Breaks
  /\ proc' = [proc EXCEPT ![p] = [@ EXCEPT !.pc = "gone", !.rate = 0]]
  /\ asked' = asked \ {p}
  /\ UNCHANGED <<camera, source, run, sess, intake, stream, adapt>>

\* The ffmpeg is gone: the camera is off, or there is another, at once (a reshape
\* asked for it, or the encoder was changed) or after a pause.
Ended(r) ==
  /\ run[r].pc = "proc" /\ proc[run[r].proc].pc = "gone"
  /\ procCancel' = 0 /\ reshaping' = FALSE
  /\ Step(r, IF r \in ended THEN "reset" ELSE "top")
  /\ UNCHANGED <<camera, srcIn, bitrate, proc, asked, sess, intake, stream, adapt>>

\* The deferred calls of run, but for the intake's end and the last.
Reset(r) ==
  /\ run[r].pc = "reset" /\ Step(r, "close")
  /\ srcIn' = 0 /\ procCancel' = 0 /\ reshaping' = FALSE
  /\ UNCHANGED <<camera, bitrate, proc, asked, sess, intake, stream, adapt>>

-----------------------------------------------------------------------------
(* The stream: Publish, join, Release and Close. *)

\* Nobody is between asking for a handover and joining it: Publish holds Stream.mu
\* throughout, and OnAnnounce the intake's mutex.
StreamFree == \A q \in Procs : sess[q].pc # "joins"
IntakeFree(r) == \A q \in Procs : proc[q].run = r => sess[q].pc # "joins"

\* The next publication, by p.
Opened(p) ==
  /\ pub' = [NoPub EXCEPT !.id = made + 1, !.gen = 1, !.feeder = p]
  /\ made' = made + 1 /\ UNCHANGED firing

\* Bug: the release that is still to come is not counted.
JoinedFree(p) ==
  /\ pub' = [pub EXCEPT !.armed = "no", !.timer = "none", !.released = FALSE,
                        !.gen = @ + 1, !.feeder = p]
  /\ UNCHANGED <<made, firing>>

\* join: the replaced publisher's release, if still to come, is owed.
Joined(p) ==
  /\ pub' = [pub EXCEPT !.armed = "no", !.timer = "none", !.released = FALSE,
                        !.owed = @ + (IF pub.released THEN 0 ELSE 1),
                        !.gen = @ + 1, !.feeder = p]
  /\ UNCHANGED <<made, firing>>

Joinable == pub.id # 0 /\ pub.armed = "yes"

Takes(p) ==
  /\ sess' = [sess EXCEPT ![p].pc = "open"]
  /\ intake' = [intake EXCEPT ![proc[p].run] = [pub |-> pub'.id, proc |-> p]]

\* intake.OnAnnounce as far as handoverArmed: the session publishes, is refused, or
\* is to join what is published.
Announce(p) ==
  /\ proc[p].pc = "run" /\ run[proc[p].run] = [pc |-> "proc", proc |-> p]
  /\ sess[p].pc = "none" /\ StreamFree
  /\ \/ pub.id = 0 /\ Opened(p) /\ Takes(p)
     \/ /\ pub.id # 0
        /\ sess' = [sess EXCEPT ![p].pc = IF Joinable THEN "joins" ELSE "refused"]
        /\ UNCHANGED <<stream, intake>>
  /\ UNCHANGED <<camera, source, procs, adapt>>

\* Its join, whatever has become of the handover since; one whose medias differ is
\* refused.
Joins(p) ==
  /\ sess[p].pc = "joins"
  /\ \/ Joined(p) /\ Takes(p)
     \/ sess' = [sess EXCEPT ![p].pc = "refused"] /\ UNCHANGED <<stream, intake>>
  /\ UNCHANGED <<camera, source, procs, adapt>>

\* The session's connection is over, or the intake's server closes.
Over(p) == proc[p].pc = "gone" \/ Told(p) \/ run[proc[p].run].pc = "close"

\* intake.OnSessionClose, in two holds: a session the intake knows no more is
\* ignored, of another the publication is released.
Leave(p) ==
  LET r == proc[p].run IN
  /\ sess[p].pc \in {"open", "refused"} /\ Over(p) /\ IntakeFree(r)
  /\ IF intake[r].proc = p
     THEN /\ sess' = [sess EXCEPT ![p] = [pc |-> "left", pub |-> intake[r].pub]]
          /\ intake' = [intake EXCEPT ![r] = NoTake]
     ELSE /\ sess' = [sess EXCEPT ![p].pc = "gone"] /\ UNCHANGED intake
  /\ UNCHANGED <<camera, source, procs, stream, adapt>>

\* A publisher that was replaced before it left has its release to come.
Owed == pub.owed > 0

\* Close will be called: what is decided is decided for the publisher of now.
Doom == [pub EXCEPT !.doomed = IF @ = 0 THEN pub.gen ELSE @]

\* Publication.Release as far as its one hold of the mutex; of a publication closed
\* before nothing comes.
Release(p) ==
  /\ sess[p].pc = "left"
  /\ \/ /\ sess[p].pub = pub.id /\ ~Owed /\ pub.armed # "yes"
        /\ pub' = Doom /\ sess' = [sess EXCEPT ![p].pc = "closes"]
     \/ /\ sess[p].pub = pub.id => Owed \/ pub.armed = "yes"
        /\ sess' = [sess EXCEPT ![p] = [pc |-> "gone", pub |-> 0]]
        /\ pub' = CASE sess[p].pub # pub.id -> pub
                    [] sess[p].pub = pub.id /\ Owed -> [pub EXCEPT !.owed = @ - 1]
                    [] OTHER -> [pub EXCEPT !.released = TRUE, !.timer = "set"]
  /\ UNCHANGED <<camera, source, procs, intake, made, firing, adapt>>

\* Close, once: in a hold of Publication.mu the grace and the handover are off.
CloseGrace ==
  /\ pub.doomed # 0 /\ ~pub.cleared
  /\ pub' = [pub EXCEPT !.cleared = TRUE, !.armed = "no", !.timer = "none"]
  /\ UNCHANGED <<camera, source, procs, sess, intake, made, firing, adapt>>

\* In one of Stream.mu the publication is gone, whoever joined it meanwhile.  What
\* still fires finds it closed.
CloseStream ==
  /\ pub.cleared /\ StreamFree
  /\ pub' = NoPub /\ firing' = {}
  /\ UNCHANGED <<camera, source, procs, sess, intake, made, adapt>>

\* The release that called Close returns.
Closed(p) ==
  /\ sess[p].pc = "closes" /\ sess[p].pub # pub.id
  /\ sess' = [sess EXCEPT ![p] = [pc |-> "gone", pub |-> 0]]
  /\ UNCHANGED <<camera, source, procs, intake, stream, adapt>>

\* intake.Close: the server waits for its sessions, then what is left published
\* is to close.
CloseIntake(r) ==
  /\ run[r].pc = "close"
  /\ \A p \in Procs : proc[p].run = r => sess[p].pc \in {"none", "gone"}
  /\ Step(r, "done") /\ intake' = [intake EXCEPT ![r] = NoTake]
  /\ pub' = IF intake[r].pub # 0 /\ intake[r].pub = pub.id THEN Doom ELSE pub
  /\ UNCHANGED <<camera, source, proc, asked, sess, made, firing, adapt>>

\* The moment the replacement was due by passes.
Late ==
  /\ pub.armed = "yes"
  /\ pub' = [pub EXCEPT !.armed = "late", !.timer = IF @ = "set" THEN "due" ELSE @]
  /\ UNCHANGED <<camera, source, procs, sess, intake, made, firing, adapt>>

\* The grace timer fires: its function waits for Publication.mu.
Fire ==
  /\ pub.timer = "due" /\ pub' = [pub EXCEPT !.timer = "none"]
  /\ firing' = firing \cup {pub.gen}
  /\ UNCHANGED <<camera, source, procs, sess, intake, made, adapt>>

\* A replacement came after all.
Overtaken(g) == pub.armed = "no" \/ pub.gen # g

\* Its function decides, and lets the mutex go before it calls Close.
GraceOver(g) ==
  /\ g \in firing /\ firing' = firing \ {g}
  /\ pub' = IF Overtaken(g) THEN pub ELSE Doom
  /\ UNCHANGED <<camera, source, procs, sess, intake, made, adapt>>

-----------------------------------------------------------------------------
(* The Adapter: Evaluate and the Reshape it calls. *)

\* Evaluate: while something is published, the samples may call for a step.
StepDue(r) ==
  r = cancel /\ adapter[r].pc = "idle" /\ pub.id # 0 /\ reshapes < MaxReshapes

\* Bug: an ffmpeg that has not announced yet is not replaced.
ReshapePublished(r) ==
  /\ StepDue(r)
  /\ reshapes' = reshapes + 1 /\ bitrate' \in (0 .. Rungs) \ {bitrate}
  /\ LET live == /\ procCancel # 0
                 /\ srcIn # 0 /\ intake[srcIn].proc = procCancel IN
     /\ reshaping' = (reshaping \/ live)
     /\ adapter' = [adapter EXCEPT ![r] =
          IF live THEN [pc |-> "take", in |-> srcIn, proc |-> procCancel, pub |-> 0]
          ELSE Asleep]
  /\ UNCHANGED <<camera, srcIn, procCancel, procs, sess, intake, stream>>

\* The Adapter steps to another rung; Reshape only sets the next start's rate, or
\* has an ffmpeg to replace.
Reshape(r) ==
  /\ StepDue(r)
  /\ reshapes' = reshapes + 1 /\ bitrate' \in (0 .. Rungs) \ {bitrate}
  /\ LET live == procCancel # 0 IN
     /\ reshaping' = (reshaping \/ live)
     /\ adapter' = [adapter EXCEPT ![r] =
          IF live /\ srcIn # 0
          THEN [pc |-> "take", in |-> srcIn, proc |-> procCancel, pub |-> 0]
          ELSE Asleep]
  /\ UNCHANGED <<camera, srcIn, procCancel, procs, sess, intake, stream>>

\* intake.armHandover: the intake's publication, then ArmHandover.
TakePub(r) ==
  /\ adapter[r].pc = "take" /\ IntakeFree(adapter[r].in)
  /\ adapter' = [adapter EXCEPT ![r].pub = intake[adapter[r].in].pub, ![r].pc = "arm"]
  /\ UNCHANGED <<camera, source, procs, sess, intake, stream, reshapes>>

ArmHandover(r) ==
  /\ adapter[r].pc = "arm" /\ Turn(r, "cancel")
  /\ IF adapter[r].pub # 0 /\ adapter[r].pub = pub.id
     THEN pub' = [pub EXCEPT !.armed = "yes",
                             !.timer = IF @ = "set" THEN "due" ELSE @]
     ELSE UNCHANGED pub
  /\ UNCHANGED <<camera, source, procs, sess, intake, made, firing,
                 reshapes>>

CancelProc(r) ==
  /\ adapter[r].pc = "cancel"
  /\ asked' = asked \cup {p \in {adapter[r].proc} : proc[p].pc = "run"}
  /\ adapter' = [adapter EXCEPT ![r] = Asleep]
  /\ UNCHANGED <<camera, source, run, proc, sess, intake, stream, reshapes>>

-----------------------------------------------------------------------------
OfRun(r) ==
  \/ Intake(r) \/ Top(r) \/ TopEnded(r) \/ Ended(r) \/ Reset(r) \/ CloseIntake(r)
  \/ Reshape(r) \/ TakePub(r) \/ ArmHandover(r) \/ CancelProc(r)

OfProc(p) ==
  Exits(p) \/ Announce(p) \/ Joins(p) \/ Leave(p) \/ Release(p) \/ Closed(p)

Next ==
  \/ Start \/ Stop \/ Late \/ Fire \/ CloseGrace \/ CloseStream
  \/ \E r \in Runs : OfRun(r)
  \/ \E p \in Procs : OfProc(p)
  \/ \E g \in firing : GraceOver(g)

Spec == Init /\ [][Next]_vars

-----------------------------------------------------------------------------
(* Properties. *)

\* The readers' stream is closed under a publisher that is still there only when
\* that close was decided before this publisher joined: neither the grace of a
\* handover nor the late release of an ffmpeg that was replaced is turned against
\* the replacement (serve.go, Release and join).
PublisherKept ==
  [][pub.id # 0 /\ pub'.id # pub.id =>
       sess[pub.feeder].pc # "open" \/ pub.doomed < pub.gen]_vars

\* A replacement that has joined keeps the readers ("joins it without the readers
\* noticing. If none comes, it closes", serve.go:519-521).  It does not hold: what a
\* grace or a late release decided before the join is done after it.
JoinKeepsReaders ==
  [][pub.id # 0 /\ pub'.id # pub.id => sess[pub.feeder].pc # "open"]_vars

\* Undisturbed: running, with no one about to end it.
Undisturbed(p) ==
  /\ proc[p].pc = "run" /\ ~Told(p)
  /\ \A r \in Runs : adapter[r].proc # p

\* An ffmpeg that the Source knows to be its own has the rate in force, or is
\* about to be replaced: a step of the Adapter reaches the one that is starting
\* as well as the one that publishes (source.go, Reshape and run).
ReachedRate ==
  \A p \in Procs :
    Undisturbed(p) /\ procCancel = p /\ srcIn = proc[p].run => proc[p].rate = bitrate

\* Releases owed are those of publishers already replaced that are still to
\* leave (serve.go:441).  It does not hold: the intake ignores the close of a
\* session that was replaced, and its release never comes.
OwedIsDue ==
  pub.owed <= Cardinality({p \in Procs : p # pub.feeder /\
    \/ sess[p].pc = "left" /\ sess[p].pub = pub.id
    \/ sess[p].pc = "open" /\ intake[proc[p].run] = [pub |-> pub.id, proc |-> p]})

\* An ffmpeg that runs undisturbed has the rate in force, while the camera is on
\* (source.go, Reshape).  It does not hold: the end of a run forgets the intake
\* and the ffmpeg of the next.
RateInForce ==
  \A p \in Procs : Undisturbed(p) => proc[p].rate = bitrate
=============================================================================

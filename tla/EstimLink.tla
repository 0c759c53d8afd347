----------------------------- MODULE EstimLink -----------------------------
(***************************************************************************)
(* The stimulation device link: internal/estim/session.go (the companion   *)
(* protocol for the one attached session) over internal/estim/runtime.go   *)
(* (one unit held fail-closed), with the goroutines the program starts on  *)
(* them:                                                                   *)
(*                                                                         *)
(*   "events"   the rendezvous reader: Handle and sessionCleared, serially *)
(*   "console"  the unit picker of the console or the window               *)
(*   "session"  Session.Run: heartbeats and flushes                        *)
(*   "runtime"  Runtime.Run: the health tick                               *)
(*   "arm"      the goroutine of autoArm; Session.arming says it runs      *)
(*   "command"  the goroutine of one device_command; Session.busy says so  *)
(*   "release"  the goroutine of one release command                       *)
(*   Workers    the goroutines of device_settings controls                 *)
(*                                                                         *)
(* A step is what one goroutine does between two points where another one  *)
(* can be seen: a section under Session.mu or Runtime.st, one store to the *)
(* latch, one device operation under Runtime.dev.  Runtime.dev is held     *)
(* over several steps by an arming ("hold") and by a ramp ("check",        *)
(* "write"), so DevFree is read from their program counters.               *)
(*                                                                         *)
(* Left out: what is only reported (the outbox, the descriptor, telemetry  *)
(* and its counters), the unit's own buttons, and what a driver does below *)
(* one level write.  A program change (set_mode) is a ramp back to the     *)
(* level it had.                                                           *)
(***************************************************************************)
EXTENDS Naturals

CONSTANTS
  Sessions,           \* live session ids the service may attach
  NoSession,          \* the empty session id
  LevelTop,           \* the unit's own cap (Capabilities.LevelMax)
  Ranges,             \* power ranges
  FoundRange,         \* the range a unit is found in
  DefaultSettings,    \* DefaultSettingsFor the unit: [range, max]
  Offered,            \* the settings the service may send
  Targets,            \* the levels it may command
  Workers,            \* goroutines applying device_settings
  Pickers,            \* who selects units: a subset of {"events", "console"}
  Inputs,             \* what reaches the link from outside, of AllInputs
  Faults              \* whether the link to the unit may fail

Threads == {"events", "console", "session", "runtime", "arm", "command", "release"}
Procs == Threads \cup Workers
Levels == 0 .. LevelTop
AllSettings == [range : Ranges, max : Nat]
AllInputs ==
  {"ack", "hello", "detach", "settings", "command", "status", "release",
   "gone", "lapse", "expiry", "stop"}

ASSUME LinkAssumption ==
  /\ NoSession \notin Sessions
  /\ LevelTop \in Nat
  /\ FoundRange \in Ranges
  /\ DefaultSettings \in AllSettings
  /\ Offered \subseteq AllSettings
  /\ Targets \subseteq Nat
  /\ Workers \cap Threads = {}
  /\ Pickers \subseteq {"events", "console"}
  /\ Inputs \subseteq AllInputs
  /\ Faults \in BOOLEAN

VARIABLES
  attached, sid,      \* Session: whether a session is attached, and which
  stale,              \* Session: lastAck is more than AckStale ago
  held,               \* Runtime: device # nil
  cancel,             \* Runtime: the cancellation latch
  deadline,           \* Runtime: armDeadline: "none" (zero), "live", "expired"
  seen,               \* Runtime: the level of lastStatus, 0 when it has none
  settings,           \* Runtime: the settings in force
  level, range,       \* the unit: its intensity and its power range
  stop,               \* the program's context has ended
  pc,                 \* where each goroutine is
  doomed,             \* "session": whom its detach was decided for
  goal,               \* "command": the level asked for
  req,                \* Workers: the settings to apply, and for whom
  armRange,           \* "arm": the range read before arming
  risen,              \* history: level writes upward since the latch was set
  asked               \* history: the settings last accepted for the session

sess == <<attached, sid, stale>>
rt == <<held, cancel, deadline, seen, settings>>
unit == <<level, range>>
locals == <<doomed, goal, req, armRange>>
history == <<risen, asked>>
vars == <<sess, rt, unit, stop, pc, locals, history>>

Requests == [settings : AllSettings, sid : Sessions \cup {NoSession}]

Locations ==
  {"idle", "stopped",
   "fresh", "greet",                                   \* an attach
   "mark", "cancel", "latch", "run", "reset", "wait",  \* a detach, a release
   "open", "expiry", "close", "select",                \* supervision, selection
   "want", "hold",                                     \* an arming
   "status", "check", "write",                         \* a command
   "apply", "after"}                                   \* a change of settings

TypeOK ==
  /\ attached \in BOOLEAN
  /\ sid \in Sessions \cup {NoSession}
  /\ stale \in BOOLEAN
  /\ held \in BOOLEAN
  /\ cancel \in BOOLEAN
  /\ deadline \in {"none", "live", "expired"}
  /\ seen \in Levels
  /\ settings \in AllSettings
  /\ level \in Levels
  /\ range \in Ranges
  /\ stop \in BOOLEAN
  /\ pc \in [Procs -> Locations]
  /\ doomed \in Sessions \cup {NoSession}
  /\ goal \in Nat
  /\ req \in [Workers -> Requests]
  /\ armRange \in Ranges
  /\ risen \in Nat
  /\ asked \in AllSettings

Init ==
  /\ attached = FALSE /\ sid = NoSession /\ stale = FALSE
  /\ held = FALSE /\ cancel = FALSE /\ deadline = "none" /\ seen = 0
  /\ settings = DefaultSettings
  /\ level = 0 /\ range = FoundRange
  /\ stop = FALSE
  /\ pc = [p \in Procs |-> IF p = "runtime" THEN "open" ELSE "idle"]
  /\ doomed = NoSession /\ goal = 0
  /\ req = [w \in Workers |-> [settings |-> DefaultSettings, sid |-> NoSession]]
  /\ armRange = FoundRange
  /\ risen = 0 /\ asked = DefaultSettings

-----------------------------------------------------------------------------
(* What the goroutines share. *)

\* Runtime.Armed.
Armed == held /\ deadline = "live" /\ ~cancel

\* Nobody is inside a section of Runtime.dev that spans several steps.
DevFree == pc["arm"] # "hold" /\ pc["command"] \notin {"check", "write"}

\* What the unit and the settings allow a command to reach (LevelMaxFor).
Cap == IF settings.max < LevelTop THEN settings.max ELSE LevelTop

Goto(p, from, to) ==
  /\ pc[p] = from
  /\ pc' = [pc EXCEPT ![p] = to]

\* Session.autoArm, called by p on its way to `to`; `connected` is
\* Runtime.Connected at that point.
AutoArm(p, to, connected) ==
  pc' = IF attached /\ pc["arm"] = "idle" /\ ~Armed /\ connected
        THEN [pc EXCEPT ![p] = to, !["arm"] = "want"]
        ELSE [pc EXCEPT ![p] = to]

\* A device operation that fails may have got as far as zeroing the output.
LevelAfterFailure == level' \in {0, level}

\* An operation on the unit may fail: the link, or the context it runs under.
MayFail == Faults \/ stop

\* Runtime.fault: the unit is forgotten, the latch set, every reading unknown.
Fault ==
  /\ held' = FALSE /\ cancel' = TRUE /\ deadline' = "none" /\ seen' = 0
  /\ LevelAfterFailure
  /\ UNCHANGED <<settings, range>>

\* The unit answers a release: output at zero, the range it was found in.
UnitReleased == level' = 0 /\ range' = FoundRange /\ seen' = 0

-----------------------------------------------------------------------------
(* The release every loss of trust ends in: Session.detach is mark, cancel, *)
(* Runtime.Release (latch, run) and reset; the other callers start at latch.*)

\* detach: the session is forgotten, whichever is attached by now.
DetachMark(p) ==
  /\ p \in {"events", "console", "session"}
  /\ Goto(p, "mark", "cancel")
  /\ attached' = FALSE
  /\ UNCHANGED <<sid, stale, rt, unit, stop, locals, history>>

\* Slip: the latch alone is taken for the release.
DetachWithoutRelease(p) ==
  /\ Goto(p, "cancel", "reset")
  /\ cancel' = TRUE
  /\ UNCHANGED <<sess, held, deadline, seen, settings, unit, stop, locals, history>>

\* detach: Runtime.RequestCancel.
DetachCancel(p) ==
  /\ Goto(p, "cancel", "latch")
  /\ cancel' = TRUE
  /\ UNCHANGED <<sess, held, deadline, seen, settings, unit, stop, locals, history>>

\* Runtime.Release sets the latch before it waits for the unit.
ReleaseLatch(p) ==
  /\ Goto(p, "latch", "run")
  /\ cancel' = TRUE
  /\ UNCHANGED <<sess, held, deadline, seen, settings, unit, stop, locals, history>>

\* Where each caller of Runtime.Release goes on.
AfterRelease(p) ==
  CASE p \in {"events", "console", "session"} -> "reset"
    [] p \in Workers -> "after"
    [] OTHER -> "idle"

\* Runtime.Release with the unit to itself: the window cleared, the output to
\* zero.  A unit that fails it is given up on, except while the program is
\* stopping, when Run's exit closes it; the stopping session's own release
\* (connector_stopped) runs under a context of its own.
ReleaseRun(p) ==
  /\ DevFree
  /\ Goto(p, "run", AfterRelease(p))
  /\ \/ /\ ~held
        /\ deadline' = "none"
        /\ UNCHANGED <<held, cancel, seen, settings, unit>>
     \/ /\ held
        /\ deadline' = "none"
        /\ UnitReleased
        /\ UNCHANGED <<held, cancel, settings>>
     \/ /\ held /\ Faults
        /\ ~stop \/ (p = "session" /\ doomed = NoSession)
        /\ Fault
     \/ /\ held /\ stop
        /\ ~(p = "session" /\ doomed = NoSession)
        /\ deadline' = "none"
        /\ LevelAfterFailure
        /\ UNCHANGED <<held, cancel, seen, settings, range>>
  /\ UNCHANGED <<sess, stop, locals, history>>

\* detach: Runtime.ResetSettings, whoever the settings belong to by now.
DetachReset(p) ==
  /\ Goto(p, "reset",
          IF p = "session" /\ doomed = NoSession THEN "wait" ELSE "idle")
  /\ settings' = DefaultSettings
  /\ UNCHANGED <<sess, held, cancel, deadline, seen, unit, stop, locals, history>>

-----------------------------------------------------------------------------
(* Messages from the service: Session.Handle, and the program's             *)
(* sessionCleared.                                                          *)

\* companion_attached: the session is taken over in one section of mu...
ServiceAttach(s) ==
  LET fresh == ~attached \/ sid # s
  IN /\ Goto("events", "idle", IF fresh THEN "fresh" ELSE "greet")
     /\ sid' = s /\ attached' = TRUE /\ stale' = FALSE
     /\ asked' = IF fresh THEN DefaultSettings ELSE asked
     /\ UNCHANGED <<rt, unit, stop, locals, risen>>

\* ...the settings of another session are dropped in one of st...
AttachFresh ==
  /\ Goto("events", "fresh", "greet")
  /\ settings' = DefaultSettings
  /\ UNCHANGED <<sess, held, cancel, deadline, seen, unit, stop, locals, history>>

\* ...and the unit is armed.
AttachGreet ==
  /\ pc["events"] = "greet"
  /\ AutoArm("events", "idle", held)
  /\ UNCHANGED <<sess, rt, unit, stop, locals, history>>

\* heartbeat_ack: any acknowledgment proves the service alive; one for the
\* attached session extends the window (ExtendArm, a live one stays live) or
\* arms again.
ServiceAck(s) ==
  /\ pc["events"] = "idle"
  /\ stale' = FALSE
  /\ IF s \in {NoSession, sid} THEN AutoArm("events", "idle", held) ELSE UNCHANGED pc
  /\ UNCHANGED <<attached, sid, rt, unit, stop, locals, history>>

\* After every hello the program repeats the device report (reportDevice),
\* which arms a unit that is held and not armed.
ServiceHello ==
  /\ pc["events"] = "idle"
  /\ AutoArm("events", "idle", held)
  /\ UNCHANGED <<sess, rt, unit, stop, locals, history>>

\* A detach or a clear of the attached session.
ServiceDetach(s) ==
  /\ attached /\ s \in {NoSession, sid}
  /\ Goto("events", "idle", "mark")
  /\ UNCHANGED <<sess, rt, unit, stop, locals, history>>

\* device_settings for the attached session: a goroutine of its own.
ServiceSettings(st, w) ==
  /\ pc["events"] = "idle" /\ attached
  /\ Goto(w, "idle", "apply")
  /\ req' = [req EXCEPT ![w] = [settings |-> st, sid |-> sid]]
  /\ asked' = st
  /\ UNCHANGED <<sess, rt, unit, stop, doomed, goal, armRange, risen>>

\* device_command, an actuation: one at a time (Session.busy).
ServiceCommand(n) ==
  /\ pc["events"] = "idle" /\ attached
  /\ Goto("command", "idle", "want")
  /\ goal' = n
  /\ UNCHANGED <<sess, rt, unit, stop, doomed, req, armRange, history>>

ServiceStatus ==
  /\ pc["events"] = "idle" /\ attached
  /\ Goto("command", "idle", "status")
  /\ UNCHANGED <<sess, rt, unit, stop, locals, history>>

\* A release command: the latch at once, then Execute ("want"), or
\* Runtime.Release when it has no command id.  Taken whatever else runs.
ServiceRelease ==
  /\ pc["events"] = "idle" /\ attached
  /\ \E to \in {"want", "latch"} : Goto("release", "idle", to)
  /\ cancel' = TRUE
  /\ UNCHANGED <<sess, held, deadline, seen, settings, unit, stop, locals, history>>

\* device_select, the console's number or the window's pick: refused while
\* armed (estimLink.selectUnit, Runtime.SelectUnit).
Select(p) ==
  /\ p \in Pickers /\ ~Armed
  /\ Goto(p, "idle", "select")
  /\ UNCHANGED <<sess, rt, unit, stop, locals, history>>

\* Another unit is held (let go: Close latches first) or none is.
SelectUnit(p) ==
  \/ /\ held
     /\ Goto(p, "select", "close")
     /\ cancel' = TRUE
     /\ UNCHANGED <<sess, held, deadline, seen, settings, unit, stop, locals, history>>
  \/ /\ Goto(p, "select", "open")
     /\ UNCHANGED <<sess, rt, unit, stop, locals, history>>

-----------------------------------------------------------------------------
(* Session.Run. *)

\* heartbeat: the acknowledgments stopped; what is detached is decided on
\* the session read here.
HeartbeatStale ==
  /\ attached /\ stale
  /\ Goto("session", "idle", "mark")
  /\ doomed' = sid
  /\ UNCHANGED <<sess, rt, unit, stop, goal, req, armRange, history>>

\* Flush: the service answered that it no longer has the session.
FlushGone ==
  /\ attached
  /\ Goto("session", "idle", "mark")
  /\ doomed' = sid
  /\ UNCHANGED <<sess, rt, unit, stop, goal, req, armRange, history>>

\* The context has ended: detach (connector_stopped) or just return.
SessionStop ==
  /\ stop
  /\ Goto("session", "idle", IF attached THEN "mark" ELSE "stopped")
  /\ doomed' = NoSession
  /\ UNCHANGED <<sess, rt, unit, stop, goal, req, armRange, history>>

\* Session.Wait: every goroutine it started has returned.
SessionWait ==
  /\ \A p \in {"arm", "command", "release"} \cup Workers : pc[p] = "idle"
  /\ Goto("session", "wait", "stopped")
  /\ UNCHANGED <<sess, rt, unit, stop, locals, history>>

-----------------------------------------------------------------------------
(* Session.applySettings. *)

\* Runtime.SetSettings: one section of st, judging by the last full reading
\* of the level; a change the unit cannot take in place releases it.
ApplySettings(w) ==
  LET new == req[w].settings
      inPlace == new = settings \/ ~Armed \/ (new.range = settings.range /\ seen <= new.max)
  IN /\ w \in Workers
     /\ Goto(w, "apply", IF inPlace THEN "idle" ELSE "latch")
     /\ settings' = new
     /\ UNCHANGED <<sess, held, cancel, deadline, seen, unit, stop, locals, history>>

\* Released: arm again, for the session still attached.
RearmAfterSettings(w) ==
  /\ pc[w] = "after"
  /\ IF sid = req[w].sid THEN AutoArm(w, "idle", held)
                         ELSE pc' = [pc EXCEPT ![w] = "idle"]
  /\ UNCHANGED <<sess, rt, unit, stop, locals, history>>

-----------------------------------------------------------------------------
(* Session.runCommand and Runtime.Execute. *)

\* A status read; a failure releases.
StatusRun ==
  /\ DevFree
  /\ \/ /\ held
        /\ Goto("command", "status", "idle")
        /\ seen' = level
     \/ /\ ~held \/ MayFail
        /\ Goto("command", "status", "latch")
        /\ UNCHANGED seen
  /\ UNCHANGED <<sess, held, cancel, deadline, settings, unit, stop, locals, history>>

\* No unit, no window, the latch, or a level over the bounds (CheckCaps).
CommandRefused ==
  /\ DevFree
  /\ ~Armed \/ goal > Cap
  /\ Goto("command", "want", "latch")
  /\ UNCHANGED <<sess, rt, unit, stop, locals, history>>

\* A level at or under the one the unit is at is one write.
LowerLevel ==
  /\ DevFree /\ Armed /\ goal <= Cap /\ goal <= level
  /\ \/ /\ Goto("command", "want", "idle")
        /\ level' = goal /\ seen' = goal
     \/ /\ MayFail
        /\ Goto("command", "want", "latch")
        /\ level' \in {goal, level}
        /\ UNCHANGED seen
  /\ UNCHANGED <<sess, held, cancel, deadline, settings, range, stop, locals, history>>

\* A higher one is a ramp: the unit is held for the whole of it.
RampBegin ==
  /\ DevFree /\ Armed /\ goal <= Cap /\ goal > level
  /\ Goto("command", "want", "check")
  /\ UNCHANGED <<sess, rt, unit, stop, locals, history>>

\* Slip: the latch is polled before the ramp only.
RampUnchecked ==
  /\ Goto("command", "check", "write")
  /\ UNCHANGED <<sess, rt, unit, stop, locals, history>>

\* The latch is polled between steps.
RampCheck ==
  /\ Goto("command", "check", IF cancel THEN "latch" ELSE "write")
  /\ UNCHANGED <<sess, rt, unit, stop, locals, history>>

\* One step up, read back; the last one is followed by a full reading.
RampWrite ==
  /\ \/ /\ Goto("command", "write", IF level + 1 = goal THEN "idle" ELSE "check")
        /\ level' = level + 1
        /\ seen' = IF level + 1 = goal THEN goal ELSE seen
     \/ /\ MayFail
        /\ Goto("command", "write", "latch")
        /\ level' \in {level, level + 1}
        /\ UNCHANGED seen
  /\ risen' = IF cancel THEN risen + (level' - level) ELSE risen
  /\ UNCHANGED <<sess, held, cancel, deadline, settings, range, stop, locals, asked>>

\* Slip: Execute asks for an armed device before it looks at the verb.
ExecuteReleaseIfArmed ==
  /\ DevFree
  /\ Goto("release", "want", "idle")
  /\ IF Armed THEN deadline' = "none" /\ UnitReleased ELSE UNCHANGED <<deadline, seen, unit>>
  /\ UNCHANGED <<sess, held, cancel, settings, stop, locals, history>>

\* Execute of a release command: the window is revoked and the unit zeroed;
\* the latch was set when the command was taken.
ExecuteRelease ==
  /\ DevFree
  /\ \/ /\ held
        /\ Goto("release", "want", "idle")
        /\ deadline' = "none"
        /\ UnitReleased
     \/ /\ held /\ MayFail
        /\ Goto("release", "want", "latch")
        /\ deadline' = "none"
        /\ LevelAfterFailure
        /\ UNCHANGED <<seen, range>>
     \/ /\ ~held
        /\ Goto("release", "want", "latch")
        /\ UNCHANGED <<deadline, seen, unit>>
  /\ UNCHANGED <<sess, held, cancel, settings, stop, locals, history>>

-----------------------------------------------------------------------------
(* Runtime.Arm, in the goroutine of autoArm. *)

\* No unit any more: the arming is deferred.
ArmDeferred ==
  /\ DevFree /\ ~held
  /\ Goto("arm", "want", "idle")
  /\ UNCHANGED <<sess, rt, unit, stop, locals, history>>

\* The range is the settings' of this moment; the latch is cleared before
\* the unit is touched.
ArmBegin ==
  /\ DevFree /\ held
  /\ Goto("arm", "want", "hold")
  /\ armRange' = settings.range
  /\ cancel' = FALSE
  /\ risen' = 0
  /\ UNCHANGED <<sess, held, deadline, seen, settings, unit, stop, doomed, goal, req, asked>>

\* Slip: a failed arming leaves the latch it cleared.
ArmEndUnlatched ==
  /\ Goto("arm", "hold", "idle")
  /\ \/ /\ level' = 0 /\ range' = armRange /\ seen' = 0
        /\ deadline' = "live"
     \/ /\ MayFail
        /\ deadline' = "none"
        /\ LevelAfterFailure
        /\ UNCHANGED <<seen, range>>
  /\ UNCHANGED <<sess, held, cancel, settings, stop, locals, history>>

\* Outputs zeroed, the range set, the window opened; a failure latches and
\* leaves no window.
ArmEnd ==
  /\ Goto("arm", "hold", "idle")
  /\ \/ /\ level' = 0 /\ range' = armRange /\ seen' = 0
        /\ deadline' = "live"
        /\ UNCHANGED cancel
     \/ /\ MayFail
        /\ cancel' = TRUE
        /\ deadline' = "none"
        /\ LevelAfterFailure
        /\ UNCHANGED <<seen, range>>
  /\ UNCHANGED <<sess, held, settings, stop, locals, history>>

-----------------------------------------------------------------------------
(* Runtime.Run, and the selection's Close and Open. *)

\* The tick's HealthCheck: a unit busy with a command or an arming counts as
\* healthy; one that stopped answering is forgotten, except while the
\* program is stopping.
HealthTick ==
  /\ \/ /\ ~DevFree
        /\ Goto("runtime", "idle", "expiry")
        /\ UNCHANGED <<rt, unit>>
     \/ /\ DevFree /\ ~held
        /\ Goto("runtime", "idle", "open")
        /\ UNCHANGED <<rt, unit>>
     \/ /\ DevFree /\ held
        /\ Goto("runtime", "idle", "expiry")
        /\ seen' = level
        /\ UNCHANGED <<held, cancel, deadline, settings, unit>>
     \/ /\ DevFree /\ held /\ Faults /\ ~stop
        /\ Goto("runtime", "idle", "open")
        /\ Fault
  /\ UNCHANGED <<sess, stop, locals, history>>

\* Slip: a fresh connection is trusted to be at zero.
OpenUnreleased(p) ==
  LET to == IF p = "runtime" THEN "expiry" ELSE "idle"
  IN /\ DevFree
     /\ pc[p] = "open"
     /\ ~held /\ ~stop
     /\ held' = TRUE /\ seen' = level
     /\ AutoArm(p, to, TRUE)
     /\ UNCHANGED <<sess, cancel, deadline, settings, unit, stop, locals, history>>

\* Runtime.Open: every fresh connection starts released, and is announced
\* (DeviceChanged), which arms it for the session attached.
OpenRun(p) ==
  LET to == IF p = "runtime" THEN "expiry" ELSE "idle"
  IN /\ DevFree
     /\ pc[p] = "open"
     /\ \/ /\ ~held /\ ~stop
           /\ held' = TRUE
           /\ UnitReleased
           /\ AutoArm(p, to, TRUE)
        \/ /\ pc' = [pc EXCEPT ![p] = to]
           /\ UNCHANGED <<held, seen, unit>>
     /\ UNCHANGED <<sess, cancel, deadline, settings, stop, locals, history>>

\* The tick's ReleaseIfArmExpired.
ExpiryTick ==
  /\ Goto("runtime", "expiry", IF deadline = "expired" THEN "latch" ELSE "idle")
  /\ UNCHANGED <<sess, rt, unit, stop, locals, history>>

\* The context has ended: Close, which latches first.
RuntimeStop ==
  /\ stop
  /\ Goto("runtime", "idle", "close")
  /\ cancel' = TRUE
  /\ UNCHANGED <<sess, held, deadline, seen, settings, unit, stop, locals, history>>

\* Slip: a unit whose release fails is kept.
CloseUnlessFailed(p) ==
  /\ DevFree
  /\ Goto(p, "close", IF p = "runtime" THEN "stopped" ELSE "open")
  /\ \/ held' = FALSE /\ deadline' = "none" /\ seen' = 0 /\ level' = 0
     \/ MayFail /\ UNCHANGED <<held, deadline, seen, level>>
  /\ UNCHANGED <<sess, cancel, settings, range, stop, locals, history>>

\* Runtime.Close: the unit is released and let go; a link that fails is let
\* go all the same.
CloseRun(p) ==
  /\ DevFree
  /\ Goto(p, "close", IF p = "runtime" THEN "stopped" ELSE "open")
  /\ IF held THEN /\ held' = FALSE /\ deadline' = "none" /\ seen' = 0
                  /\ IF MayFail THEN LevelAfterFailure ELSE level' = 0
             ELSE UNCHANGED <<held, deadline, seen, level>>
  /\ UNCHANGED <<sess, cancel, settings, range, stop, locals, history>>

-----------------------------------------------------------------------------
(* The world around: time passes, the program is asked to stop. *)

\* AckStale passes without an acknowledgment.
AckLapses ==
  /\ attached /\ ~stale
  /\ stale' = TRUE
  /\ UNCHANGED <<attached, sid, rt, unit, stop, pc, locals, history>>

\* ArmWindow passes without a renewal.
WindowRunsOut ==
  /\ deadline = "live"
  /\ deadline' = "expired"
  /\ UNCHANGED <<sess, held, cancel, seen, settings, unit, stop, pc, locals, history>>

Stop ==
  /\ ~stop
  /\ stop' = TRUE
  /\ UNCHANGED <<sess, rt, unit, pc, locals, history>>

-----------------------------------------------------------------------------
Service ==
  \/ \E s \in Sessions : ServiceAttach(s)
  \/ "ack" \in Inputs /\ \E s \in Sessions \cup {NoSession} : ServiceAck(s)
  \/ "detach" \in Inputs /\ \E s \in Sessions \cup {NoSession} : ServiceDetach(s)
  \/ "settings" \in Inputs /\ \E st \in Offered, w \in Workers : ServiceSettings(st, w)
  \/ "command" \in Inputs /\ \E n \in Targets : ServiceCommand(n)
  \/ "hello" \in Inputs /\ ServiceHello
  \/ "status" \in Inputs /\ ServiceStatus
  \/ "release" \in Inputs /\ ServiceRelease

\* What a goroutine does once it is under way, in any of them...
Shared(p) ==
  \/ DetachMark(p) \/ DetachCancel(p) \/ ReleaseLatch(p) \/ ReleaseRun(p) \/ DetachReset(p)
  \/ SelectUnit(p) \/ OpenRun(p) \/ CloseRun(p)
  \/ ApplySettings(p) \/ RearmAfterSettings(p)

\* ...and in one of them.
Own(p) ==
  \/ p = "events" /\ (AttachFresh \/ AttachGreet)
  \/ p = "session" /\ (HeartbeatStale \/ SessionStop \/ SessionWait)
  \/ p = "runtime" /\ (HealthTick \/ ExpiryTick \/ RuntimeStop)
  \/ p = "arm" /\ (ArmDeferred \/ ArmBegin \/ ArmEnd)
  \/ p = "release" /\ ExecuteRelease
  \/ p = "command" /\
       \/ StatusRun \/ CommandRefused \/ LowerLevel
       \/ RampBegin \/ RampCheck \/ RampWrite

World ==
  \/ "gone" \in Inputs /\ FlushGone
  \/ "lapse" \in Inputs /\ AckLapses
  \/ "expiry" \in Inputs /\ WindowRunsOut
  \/ "stop" \in Inputs /\ Stop

Next ==
  \/ Service
  \/ \E p \in Pickers : Select(p)
  \/ \E p \in Procs : Shared(p) \/ Own(p)
  \/ World

Spec == Init /\ [][Next]_vars

\* Every goroutine under way goes on.  It gets Runtime.dev although others
\* keep taking it, since sync.Mutex hands itself to a waiter it has starved;
\* a select that finds its context ended among its tickers takes each with
\* the same probability.  The service, the link and the passing of time owe
\* nothing.
Fairness ==
  /\ \A p \in Procs : SF_vars(Shared(p) \/ Own(p))
  /\ SF_vars(RuntimeStop) /\ SF_vars(SessionStop)

FairSpec == Spec /\ Fairness
-----------------------------------------------------------------------------
(* Properties. *)

\* A ramp only ever runs on a unit that is held, with its window not cleared
\* and no arming on it: release, health check, close and arming wait for it.
RampOwnsUnit ==
  pc["command"] \in {"check", "write"} =>
    held /\ deadline # "none" /\ pc["arm"] # "hold"

\* "A running ramp stops at its next step": at most one level write upward
\* between a latch set and the arming that clears it, whoever set it.
OneRiseAfterLatch == risen <= 1

\* A unit driven above zero with no window is latched, or its release is
\* on the way: nothing drives it that nobody is about to stop.
NoDriveWithoutWindow ==
  held /\ level > 0 /\ deadline = "none" =>
    cancel \/ stop \/ pc["release"] \in {"latch", "run"} \/ pc["arm"] = "hold"

\* Once Run has returned, no unit is held, whatever was selected, armed or
\* commanded meanwhile.
StoppedHoldsNothing == pc["runtime"] = "stopped" => ~held

\* The device link as the unit sees it.
Phase == IF ~held THEN "absent" ELSE IF deadline = "none" THEN "shut" ELSE "open"

Unit == INSTANCE UnitLifecycle WITH phase <- Phase

UnitSafe == Unit!Spec

\* A service that has gone quiet does not leave the unit driven: it speaks
\* again or the unit is brought to zero.
QuietServiceReleases == attached /\ stale ~> ~stale \/ ~held \/ level = 0

\* A window that ran out does not stay: the unit is released or armed anew.
ExpiryEndsWindow == deadline = "expired" ~> deadline # "expired"

\* A release command reaches the unit whatever command, arming or selection
\* it has to wait for.
ReleaseReachesUnit ==
  pc["release"] # "idle" /\ held /\ level > 0 ~> ~held \/ level = 0

\* Asked to stop, Session.Run and Runtime.Run both return, whatever they and
\* the goroutines they wait for are in the middle of.
StopReturns == stop ~> pc["runtime"] = "stopped" /\ pc["session"] = "stopped"

\* PROTOCOL.md 7.2: the connector "revokes the arm when the session
\* detaches".  Once a detach's release is through, nothing is armed.
DetachRevokesArm ==
  Armed => attached \/ \E p \in Procs : pc[p] \in {"mark", "cancel", "latch", "run"}

\* SetSettings: a range or a maximum the unit cannot take in place releases
\* it, so an armed unit nobody is acting on is in the range, and at or under
\* the maximum, last accepted for the attached session.
Quiet == \A p \in Procs \ {"runtime"} : pc[p] = "idle"

SettingsBoundUnit ==
  Armed /\ attached /\ Quiet => range = asked.range /\ level <= asked.max
=============================================================================

# masseuse-camlink: specification and proofs

TLA+ models of the connector (`cmd/masseuse-camlink`, `internal/...`), checked
with TLC on small instances, and theorems about them checked with TLAPS for
every value of the constants. Every definition is translated from the Go
source; `PROJECT.json` maps each one to its lines.

## 1. The system

`masseuse-camlink` runs on a computer in the room. It keeps an event stream
open to the masseuse.ai service (the *rendezvous*), opens an attested tunnel to
the one video enclave a session uses, serves its own camera (or a network
camera) through that tunnel, and drives at most one stimulation unit for the
attached session.

| Part | State it keeps | Operations | Interacts with |
|---|---|---|---|
| Device session (`internal/estim/session.go`) | attached session, last acknowledgment, outbox, `arming`, `busy` | `Handle` (attach, ack, detach, clear, settings, command, release, select), `Run` (heartbeat, flush, telemetry), `detach`, `autoArm`, `runCommand`, `applySettings` | the runtime; the uplink (HTTP); the rendezvous reader |
| Device runtime (`internal/estim/runtime.go`) | the unit held, the cancellation latch, the arm window, settings in force, last status | `Open`, `Close`, `Arm`, `ExtendArm`, `Release`, `Execute`, `HealthCheck`, `SelectUnit`, `Run` | the driver; `DeviceChanged` back into the session |
| Mastago driver (`internal/estim/mastago`) | link, last program and level | `Connect`, `Arm`, `Execute` (ramps), `Release`, `Status`, `Close` | Bluetooth or a serial port |
| Driver helpers (`internal/estim/helper`) | a child process and its pending calls | request/answer frames, link relay, restart | a child process |
| Tunnel manager and camera control (`cmd/masseuse-camlink/main.go`, `source.go`) | one run per session, the latest ticket, camera on/off, grace timer, switches | `OnDial`, `OnClear`, `run`, `dialLocal`, `off`, `graceOver`, `setEnabled`, `setOffer` | dialer, stream server, window |
| Tunnel (`internal/tunnel`) | attested connection, single-target lock, backlog probe | `Dial`, `Serve`, `handle`, `probe` | mux, attestation, own streams |
| Stream multiplexer (`internal/mux`, `internal/frame`) | streams, receive queues, half-closes | `Open`, `Accept`, `Refuse`, `Write`, `CloseWrite`, `Reset`, `Relay` | one ordered connection |
| Gateway (`internal/gateway`) | the one expected connector, its tunnel, the ticket | `expect`, handshake, loopback accept, replacement | mux, the enclave's RTSP server |
| Own streams (`internal/serve`) | publications, readers, handover, frame gate | `Publish`, `Dial`, `ArmHandover`, gate | capture, tunnel |
| Capture (`internal/capture`), network camera (`internal/camera`) | one child or one upstream connection, bit rate, the camera's certificate | `Start`, `Stop`, `Reshape`, adapt | own streams |
| Rendezvous (`internal/rendezvous`) | the event stream, backoff | hello, events, heartbeat | the service |
| Attestation (`internal/attest`), provenance (`internal/provenance`, `internal/oci`) | policy floors, caches | `Verify` | the tunnel |
| Updater (`internal/update`, `cmd/.../update.go`, `apply.go`) | phases on disk | check, stage, apply, prove or roll back | the whole program |
| Window (`desktop`, `cmd/.../ipc.go`) | the child connector | commands and reports | the connector |
| Phone's picture (`internal/share`) | the loopback server, its picture and readers | `New`, `Publish`, `Close` | the phone path of own streams, other programs |
| Identity, BLE, serial, awake, packaging tools | files, system handles | | |

What is hard to get right here:

* **Interleaving.** Every device operation of the link can be asked for by the
  rendezvous reader, the session's loop, the runtime's loop, a command, an
  arming, a settings goroutine or the console. The camera can be turned on by a
  stream the enclave opens while a session ends, is replaced or is switched off.
* **Stale decisions.** Most operations read under a mutex, release it, and act:
  arm, detach, apply settings, select a unit, redial, admit a target.
* **Partial failure.** A device operation can fail having zeroed the output or
  not; a ramp can fail between two writes; an arming has cleared the latch by
  the time it fails.
* **Timeouts.** Acknowledgments stop (15 s), windows run out (30 min), graces
  expire, probes are answered late.
* **Restarts.** An update, a helper that dies, a connector that is replaced.
* **Bounds.** The outbox, the stream receive queue, the accept backlog.

`PROJECT.json` lists these as hazards, each at its line, with the properties
that would catch it going wrong or the reason why there is none yet.

What makes each part correct, in a sentence: the device link never drives a
unit outside an arm window for longer than it takes to release it, and a
release always gets through; the tunnel manager has one session's tunnel up at
a time, dials with the newest ticket and leaves the camera on only while a
session can be watching; the multiplexer delivers each stream's bytes in order
or resets it, and never lets one stream stall another; the tunnel reaches one
network target; the gateway serves exactly one connector; the updater leaves a
program that runs, whenever it is interrupted; the floors of the attestation
policy never go down.

## 2. What is modelled

### `EstimLink`: the device link

One module for the session and the runtime, because the properties are about
how their goroutines interleave. A step is what one goroutine does between two
points at which another can be seen: a section under `Session.mu` or
`Runtime.st`, one store to the latch, one device operation under `Runtime.dev`.

| Model | Code |
|---|---|
| `attached`, `sid`, `stale` | `Session.attached`, `sessionID`, and `now - lastAck > AckStale` |
| `held`, `cancel`, `deadline`, `seen`, `settings` | `Runtime.device != nil`, the latch, `armDeadline` (zero, ahead, passed), the level in `lastStatus`, the settings in force |
| `level`, `range` | the unit itself |
| `pc[p]` | where goroutine `p` is; `pc["arm"] # "idle"` is `Session.arming`, `pc["command"] # "idle"` is `Session.busy` |
| `doomed`, `goal`, `req`, `armRange` | locals read before an unlock and used after it |
| `risen`, `asked` | history: upward writes since the latch was set; the settings last accepted |

`Runtime.dev` is held across several steps only by an arming (`"hold"`: range
read and latch cleared, unit not yet armed) and by a ramp (`"check"`,
`"write"`: the latch is polled, then one level is written), so `DevFree` is a
predicate on their program counters, and every other device operation is one
step guarded by it. A device operation may fail, and then the output may have
been zeroed or not (`LevelAfterFailure`); while the program stops an operation
may fail because its context has ended (`MayFail`).

Detach is four steps (mark, cancel, release latch, release) and a fifth
(`DetachReset`), because other goroutines run between them. The release of a
command, of an expiry, of changed settings and of a detach share `ReleaseLatch`
and `ReleaseRun`; `AfterRelease` says where each caller goes on.

Left out: what is only reported (the outbox is in `Uplink`; telemetry and its
counters), the unit's own buttons and the driver's wire protocol. A program
change (`set_mode`) is a ramp back to the level it had. Time is abstract:
`AckLapses` and `WindowRunsOut` may happen whenever their clocks run, which
includes every real timing.

### `UnitLifecycle`: what the link promises about a unit

The abstract specification: a unit is taken at zero, a window opens at zero,
the level rises by one and only inside an open window, outside one it can only
fall, and it is dropped. `EstimLink` implements it under the mapping

    phase <- IF ~held THEN "absent" ELSE IF deadline = "none" THEN "shut" ELSE "open"

(`UnitSafe`, checked by TLC and proved).

### `CameraControl`: the tunnels and the camera

The manager's runs, `camControl` and the change of source that waits, because
what can go wrong is between them: a run that winds down late, a stream that is
answered late, a timer that fires late all act on the one camera.

| Model | Code |
|---|---|
| `tunnels`, `pc[r]`, `sess`, `origin`, `ticket`, `dialed`, `cancelled`, `ended`, `reset` | `manager.tunnels`; where `run` is; the fields of `active`, the ticket of the attempt under way, the context, `ended`, and whether `Serve` returned a `ResetError` |
| `streams`, `carrier` | where the handler of each stream is, and the run whose tunnel carries it |
| `on`, `allowed`, `offer` per view | `on`/`faceOn`, `!cameraOff`/`!faceOff`, `offer`/`face` |
| `pending`, `gen`, `fired` | the grace timer, `pendingGen`, timers whose goroutine waits for `mu` |
| `started`, `mustStop[a]` | captures between `Start` and `Stop`; what caller `a` of `stopSomeLocked` has yet to stop, `mu` released |
| `waiting`, `building`, `woken` | `manager.pending`, the offer being built under `srcMu`, goroutines of `applyPending` |
| `main` | `closeAll` and `off(false)` on the way out |

`Off(a, later)`, `StopSome` and `StopCapture` are shared by a run's two calls of
`off`, the grace, the window and main; a caller that has something to stop goes
on only when it has (`At`). A dial may succeed although its context has ended:
`Dialer.prove` watches a deadline, not the context. `OnClear` marks and cancels
in one step, and `off(!ended)` reads `ended` in the step that takes the mutex:
neither gap is more than two instructions, and both only add the outcomes that
`EndLeavesNoGrace` shows anyway.

Left out: what is shown, `camControl`'s own copy of the backlog (for the
console), the phone's picture of a change of source, the time anything takes.
Offers are ready.

### `Mux` and `Pipe`: relayed streams

Both ends of one session, because what can go wrong needs both: the order of a
CLOSE against a CLOSE, a RESET against data on its way, an end that fails while
the other writes.

| Model | Code |
|---|---|
| `wire[e]` | frames in the connection from `e`: written whole under `Writer.mu`, at most `MaxWire`, so a writer waits |
| `err`, `failing`, `done`, `table`, `nextID`, `accept` | `Session.err`, the streams `fail` has yet to mark, `Session.done`, `streams`, `nextID`, `accept` |
| `loop`, `answer` | the read loop, and the RESET or REFUSE it writes itself |
| `queue`, `peerClosed`, `writeClosed`, `dead`, `notify`, `opened` | the fields of `Stream`, for the `Stream` of either end |
| `user[x]`, `both`, `written` | the goroutine that opened or accepted `x`, then copies to it in `Relay`; `CloseWrite`'s local; how much it has written |
| `reader[x]`, `got` | `Relay`'s goroutine that copies from `x`; what it has read |

`fail` is three kinds of step (mark the session, mark each stream, close `done`
and the connection). `Reset`, `CloseWrite` and `Refuse` are two each: what they
change, then the frame they write. A stream id is counted by one, not by two.

Left out: reasons, the codec, how a read splits a frame, and the frames only a
foreign peer sends (`protocolError`).

`Pipe` is the abstract specification, for one direction of one stream: what is
read is 1, 2, ... of what was written, the end is read only after all of it, and
nothing is written after a close. `Pipes` says that every direction of every
stream implements it.

### `Updater`: the program replacing itself

| Model | Code |
|---|---|
| `root`, `prev`, `stage`, `got` | by file, the release of the install, of the install moved aside, of what was unpacked; the verified download |
| `disk`, `mem` | `update.json` and `updater.state` |
| `mode`, `pc`, `tag` | `applyStaged`, `once` or `updateNow`, and the call or rename it is at (`undo`, `back`: of `swapFiles`' undo and of `updater.undo`) |
| `todo`, `half` | the files `swapFiles` has yet to move, or its undo to put back; those moved aside whose successor is not in place |
| `prover` | the goroutine `proven` starts at the service's first answer, whenever that comes |
| `torn`, `lost` | history: a run was cut between two renames; a file that was to go back would not, or was aside no more |

A crash loses what is not on disk, at any step. Every call may fail, and then
takes the code's way back (`SwapFails`, `RestartFails`): file by file
(`MoveBack`), each of which may fail unheard (`MoveBackFails`), after which what
is still aside is removed (`SwapUndone`, `RestartUndone`). `State.Save` is only
logged when it fails, so it may not happen. Left out: what a release looks like
and how it is verified (`Trust` has that of images), free space, what is said.

### `Trust`: what a tunnel may be dialed to

Policies, enclaves and records are records of small sets; `Tightened` is
`Floors.Apply`, `Meets` is `checkClaims` with the token, `Proved` and `CheckRecords` the
records of an image and the result cache. A dial (`dial[d]`) is the sequence of calls of
`policyAttester` and `Dialer`, at each of which another machine may be at the origin.
What it keeps across them, the policy and the key it pinned, is what may be
stale. Time lets the policy and the results age. Cryptography answers truly.
Left out: the key set cache, the trust root, the blobs of the updater, `verify`.

### `NetCamera`: a camera on the network

| Model | Code |
|---|---|
| `src[s]` | a `camera.Source`: built and probed (`building`), offered (`offer`, `camControl.offer`); `pinned`, `cancel`, `publishing`, and the offer's `ready` |
| `pull[r]`, `cut` | each run of a Source between two calls that can fail; runs whose context is cancelled |
| `feeds` | the run that publishes into the stream, which takes one |
| `at`, `store` | the certificate of the machine at the camera's address (external); the entry of `cameras.json`, or torn |
| `first`, `unsaved` | history: the certificate trusted first; one that could not be saved |

`Stop` waits for its run, but lets the camera be started meanwhile: two runs, one
at its end. Left out: the link's parsing, credentials, packets, the pause's length.

### `Gateway`: one expected connector

Both ends, with the producer and the local connections between them: what
`Expect`, `SetTarget`, `Clear` and a WebSocket do under `Server.mu`, and what
they do after letting go of it.

| Model | Code |
|---|---|
| `exps`, `expect` | the expectations made, a ticket being its index; `Server.expect` |
| `attached`, `closing`, `clearing` | `Server.attached`; sessions taken out under the mutex and not closed yet; `handleClear` between its two holds |
| `conn[c]` | the handler of a WebSocket, with the expectation it looked up before the handshake |
| `relay[r]`, `locked[c]` | a local connection, with the target read at accept; `targetPolicy.locked` of the tunnel |
| `holds[k]` | the ticket a connector was last told of; it redials by itself |

### `Streams` and `Gate`: the computer's own camera

`Streams` is `Source`, `intake` and `Adapter` of `capture` with `Stream` and
`Publication` of `serve`: a run of the camera keeps an ffmpeg going, each ffmpeg
publishes, and a step of the adapter hands the publication over to an ffmpeg at
another rate. A step of the model is one hold of one of their mutexes (`Source.mu`,
`intake.mu`, `Publication.mu`, `Stream.mu`). `Publish` asks `handoverArmed` in one and joins
in another (`Announce`, `Joins`), with `Stream.mu` and the intake's held across both
(`StreamFree`, `IntakeFree`). A close is three: a grace, a release past the deadline or the
end of the intake decides (`pub.doomed` keeps the generation it decided for), `Close` takes
the grace off, and `Close` takes the publication off (`GraceOver` or `Release`, `CloseGrace`,
`CloseStream`).
`StepDue` is what `Adapter.Evaluate` decides. `Gate` is one video track of the
publication, packet by packet: `TimedWriter` holds packets until the clock is
known, the gate drops whole frames while congested and opens at a keyframe, and
the timestamps carry on over a change of publisher. `decoder` and `seen` are the reader:
what it can still decode, and the order it was given.

Left out of these two: audio, other codecs, sequence numbers, bytes; device discovery;
the sessions of the RTSP server.

### `Share`: the phone's picture on this computer

`setting` is where `setShareLocked` and the report after it are; `server[s]` is each
loopback `share.Server` with the picture it holds; `visit[v]` is each session in which
the enclave publishes, with the receiver it read before its `Publish`; `telling` are the
goroutines that tell the window of a picture, and `window` is what it was last told.
Left out: the readers, the secret of the path, packets.

### `Uplink` and `Choices`: what the service learns

`Choices` is the choice of cameras: `cfg`, `source.json`, the offers in force, and
the choice that waits until a camera is let go of (`pending`), applied one view
at a time while each may fail. `Uplink` adds the rendezvous client (hello, report
of the offers, attach, event stream, backoff), the session's outbox with
`Flush`, and what the service knows (`svc`, external). A message is its number,
whom it is for, and whether it is telemetry, a device report or one the service
refuses. `hand` is `Flush`'s local batch, which a failure puts back in front.

### `Window`: the window and its connector

The connector's reporter, the shell's relay and the page that folds events, with
the shell starting, stopping and killing connectors. Four kinds of event stand
for all. The lock, pipes, signals and the toolkit (which keeps order) are
external. `broken` is a shell that was killed: its pipes have no reader, and on
Unix a write to them ends the connector.

### `Helper`: a unit driver helper

The `Host` in the connector and `Serve` in the program, with the pipes between.
`pc`, `op`, `what` are a caller's progress through `ensure`, `hello`, the repeat
of the selection and `call`; `pending`, `nextID` and `cur` are the host's; `run[p]` is
what a process has to read or is doing. A process may crash, its calls may be
given up, and it is started again. The callers are the holder of `Runtime.dev` and the
goroutines that call without it (`Others`): each may list or select, the rendezvous reader and
the window's or the console's among them, and no mutex orders two selections. `Select`
remembers the unit in one hold of `Host.mu` and looks at the program in another (`Look`);
`wish` is the unit the caller asked for, `arg` that of the request under way. An answer is read where it is written; `describe`, the cancel notification and
`ExitGrace` are left out.

## 3. The runs

| Run | Instance | What it shows |
|---|---|---|
| `link` | one session id, one range, levels 0..2 with the default maximum 3 and settings of 1, one settings goroutine, the console picker, every input, failures, stop | the invariants and the refinement `UnitSafe`, over every interleaving of up to three goroutines under way |
| `link_live` | levels 0..1, ack, command, release, lapse, no failures | `QuietServiceReleases`, `ReleaseReachesUnit` under `FairSpec` |
| `camera` | two sessions, two enclaves, two runs, two dials, two streams, both views, two graces, two commands of the window, shutdown | `OneTunnel`, `CaptureAccounted`, `SwitchedOffIsOff`, `WaitingIsWoken`, `FullGrace`, `EndedRunGoesDark` |
| `mux` | two streams, one data frame from the gateway and two from the connector, queues, backlog and connection of one, every input | `ReaderWoken`, `NoneLeft`, and the refinement `Pipes` |
| `updater` | two files, three releases, three faults or crashes, of undoing too, three days, the command, a state file not written, a first answer at any moment | `ComesBack`; `NewestInstalled` under `FairSpec` |
| `trust` | floors and 21 served policies, nine machines, records of one image whole and of another by halves, two dials; and a camera with two certificates, two Sources, two runs, three upsets | `MeetsBoth`, `RecordsHold`, `TrustedOnly`; `ComesOn` under `CamFair` |
| `gateway` | two connectors, one camera, two connections, one local connection, two expectations, one drop | `OneConnector` (`ExpectedOnly` and `NoOrphan`), `TargetSurvives`; `Attaches` under `FairSpec` |
| `streams` | the camera on twice, three ffmpegs, two steps of the adapter or both times the camera comes on (`FewReshapes`), one rate below the ceiling; and the phone's path with two loopback servers, two ports, two sessions | `ReachedRate`, `PublisherKept`, `OffMeansOff` |
| `gate` | two publishers of three access units, a hold of two packets | `Watchable` (`Decodable` and `Playable`) |
| `uplink` | one session, an outbox of two, four events, or three with choices among them (two choices, two starts of a camera, one failure) | `OutboxKept` (`Accounted` and `Ordered`), `FileNamesCameras`; `Unblocked`, `ServiceLearns`, `PendingTaken` under `FairSpec` |
| `window` | two runs of the connector, three starts, two events said, four of these together | `PageCatchesUp`; `EndsWithWindow`, `EndIsShown` under `FairSpec` |
| `helper` | two processes, two units, two goroutines that select, four starts and operations, one mishap | `AnswerIsOwn`, `NothingLeftOpen`, `SelectionServed`; `EveryCallEnds` under `FairSpec` |

Beside these, each module states its type invariant and a few more properties
that TLC has confirmed on these instances (or, for liveness, on smaller ones)
without a standing run: `RampOwnsUnit`, `HoldsNewest`, `BacklogLives`, `FailedRests`, `OfferHeld`
and `HelloFirst`, which are proved, and `ExpiryEndsWindow`, `StopReturns`, which are liveness.

Bounds of `link`. `MaxUnderWay = 3` limits how many goroutines are past their first step
at once, the third only beside an actuation; every pairwise race is inside it,
and every three-way race with a ramp in it. It is a state constraint of the
`link` run only, the proofs do not need it. Two levels give a
ramp with a poll between its writes; the default maximum of
3 is over the unit's top, so that a target of 3 is refused by the unit's bound
alone; the maximum of 1 a session may set lies under a level the unit may be at,
which the settings have to release. One session id is enough
for the invariants, which do not compare ids; a second attach of the same id
after a detach is a fresh session. `MCView` forgets locals that are dead once
their goroutine is idle, which no property of the run reads.

The `camera` run joins two scopes (`MCScope`): one dial that is not ended, with
up to three streams and window commands in any mix, and two dials with ends and
shutdown for the camera behind and one stream. The first has every race of the
window, the face and the graces; the second every race of two runs. Runs,
streams, sessions and enclaves are interchangeable, hence the symmetry; no
property of the run is a liveness property. Two graces are what a timer that
fires late needs to meet another; two offers what a change needs to be seen.

The `mux` run joins three scopes (`MCScope`): one stream that ends in any way,
one whose session is closed or lost with a data frame on its way, and two streams
of which the first never opens (refused as busy, cancelled) while the second
follows. Bounds of one make every limit be met: a queue that overflows with two
frames, a full backlog with two OPENs, a connection that makes each writer wait.
`MCView` forgets signals, answers and locals that nothing reads any more.

The others. Three releases are what a failed one, its successor, and the one
returned to need; three days outlast what is remembered of a failed release, so that only the
code and not the bound keeps it out. Two dials share one cache, and the records of the second
image lack one each way. Two connections are one that overlaps its successor; a
second camera adds nothing to one tunnel, whose policy compares for equality.
Three ffmpegs are the replaced one, its replacement and one of the next run.
Two slices and a supplemental unit per frame are every place at which congestion can
come within one; three access units are a keyframe, a frame to drop and what
follows. An outbox of two overflows with three messages; one event more than in the run has been
checked by hand. Two processes are the one that died and the one
started for it, or the two started at once. `Selections` names the goroutine of the first
selection and its unit, the goroutines and units being interchangeable, and lets each selection
ask for another unit than the one before; without it the invariants have been checked by hand
(1.4 million states). A handover takes its replacement, a close that is
decided too late a second handover, so two steps of the adapter, in one run of the camera; with
one step it comes on twice (`FewReshapes`). Two steps with two runs have been checked by hand
(7.3 million states), as has an ffmpeg that exits unasked (`Breaks`). `MCTrust` and `MCStreams`
each join two modules that share no state: one rests while the other is at work, and the
interleavings of the two would add nothing. Three upsets are a store that is not written, a
restart, and another machine at the address.

The last word of a bound is said in the module that names it (`Max...`).
`CHECK_DEADLOCK FALSE` is everywhere but in the device link: with its bounded
inputs used up each of the other systems rests, as an idle program does.

`OneRiseAfterLatch` allows one write: the latch is polled before a level is
written, not together with it. `NoDriveWithoutWindow` counts as "somebody is
about to stop it" the latch itself, a stop, a release command past its latch,
and an arming that holds the unit (it zeroes it first). `PageCatchesUp` excepts a run that spoke
while its predecessor was still relayed (`mixed`), `EveryCallEnds` a program
started twice (`doubled`), `SelectionServed` a selection that met its own repeat
or another selection, or whose request outlived its caller, until the next one made alone
(`crossed`), `NothingLeftOpen` overlapping finds (`overlap`), `ComesBack` and `NewestInstalled` a run
cut between two renames (`torn`) and a file that did not go back (`lost`), `PublisherKept` a close
decided before the publisher joined (`doomed`), `FileNamesCameras` a choice that failed half-way
(`kept`), `ServiceLearns` a report of the offers that failed or was of older ones (`missed`):
what happens then is in section 4. `Watchable` excepts what the reader is given once a packet of
a replaced publisher, looked up before the change, was written after it (`stray`): the gate takes
it for the first of the new publisher, whose clock and keyframe it is not (section 4).

Fairness. In the device link, `FairSpec` is strong fairness for each goroutine that is under way.
It is strong because a goroutine waiting for `Runtime.dev` sees it taken and
released again by others, and `sync.Mutex` hands itself to a waiter it has
starved for a millisecond. `RuntimeStop` and `SessionStop` get strong fairness
of their own: in a `select` with several ready cases Go picks uniformly, so a
context that has ended is not passed over for ever by tickers. Nothing is
assumed of the service, of the link to the unit or of time.

Elsewhere it is weak fairness of each goroutine that has a step to take: the
client, the flusher and the announcers (`uplink`), the reporters, relays, the
shell and the page (`window`), callers and helper processes, with the ten seconds a
hello may take (`helper`), the handlers of connections and relays, and a
connector that redials (`gateway`). Strong fairness stands where a goroutine needs
a lock or a moment others keep taking: `ApplyPending` (`srcMu`) and `Idle` of
the updater. Of the world it assumes only what the properties need and name: that
sessions end and days pass, that a camera in use is let go of in the
end, and that a program that ended is opened again (`updater`). `ServiceLearns`
is conditional on the network staying up, which the bound on events provides.
`CamFair` is weak fairness of each run of the network camera, whose calls have timeouts;
`ComesOn` is of a camera that comes to stay on and to answer with the certificate pinned.
`gate`, `streams`, `camera` and `mux` have no liveness property.

## 4. Where code and documentation disagree

Stated as a property, and refuted by TLC on a small instance. None is a standing
run, because the steps take turns no test of the repository provokes; the
definitions stay in their modules.

* **A detach does not always revoke the arm** (`DetachRevokesArm`). `autoArm` checks
  that a session is attached, then arms in a goroutine of its own, and
  `Runtime.Arm` clears the latch whoever set it. If the detach's release gets the
  unit first, the unit is armed, at level zero, for no session, until the window
  runs out. `docs/PROTOCOL.md` 7.2 says the connector revokes the arm when the
  session detaches.
* **Settings can be applied to the wrong window** (`SettingsBoundUnit`). `SetSettings`
  takes a runtime that is in the middle of an arming for one that is not armed,
  and applies a changed range silently; the arming then opens its window in the
  range it had read before.
* **A session's end may leave the camera on for the grace** (`EndLeavesNoGrace`). When
  the enclave closed the link before the service cleared the session, the run has
  returned and started its grace; `OnClear` has nobody to turn the camera off.
* **A fresh ticket may be thrown away with the old one** (`RefusalIsForItsTicket`). A
  ticket that arrives while the run is dialing with the one before it is kept for
  the next attempt; when the attempt under way is refused there is none.
* **A replaced run may take the camera from its successor** (`GraceSparesLive`). A
  run replaced during its handshake ends up to twenty seconds later, and its
  `off(true)` starts a grace under the tunnel that replaced it.
* **The two read loops can wait for each other** (`LoopsMove`). `deliver` resets
  an overflowing stream from the read loop, which writes the RESET before it reads
  on. With both directions full and an overflow at each end neither loop reads
  again, until a ping of the tunnel or the gateway times out and ends the session.
  The package comment says streams "cannot deadlock each other through the shared
  connection".
* **A killed window does not let the connector shut down** (`InputEndIsShutdown`,
  seven states). The connector's line "standard input ended; stopping"
  (`ipc.go:611`) goes to a pipe nobody reads any more (`connector.go:636`); on Unix
  Go ends a program by SIGPIPE at descriptors 1 and 2, and `main.go:99` does not
  ask for that signal. It ends before the camera and the unit are let go of.
  `docs/DESKTOP.md:227`, `README.md:171-173`, `ipc.go:27-28` say it is a shutdown.
* **Two targets can be admitted** (`OneTarget`). `targetPolicy.allow` resolves the
  name with its mutex free; `PROTOCOL.md:312-330` says one target per tunnel.
* **The previous install may not come back** (`PreviousReturns`). What a swap or a
  hand-over has moved aside is lost in two ways: `proven`, which the service's first
  answer starts at any moment, removes the directory it lies in (`update.go:236-255`),
  and the renames back ignore each error and then remove what is still aside
  (`install.go:243-248`, `update.go:521-532`). `README.md:138-143`: "if a new version would
  not start, the previous one is put back"; `install.go:285-286`: "still whole on disk as
  the previous install". `ComesBack` is what holds: with nothing lost the program
  that tried is back, whole.
* **A replacement may join a stream that is about to close** (`JoinKeepsReaders`, 18
  states). `Publish` asks `handoverArmed` in one hold of `Publication.mu` and joins in
  another (`serve.go:353-354`), and a grace (`serve.go:553-561`) or a release past the
  deadline (`serve.go:542-545`) lets that mutex go between deciding to close and
  `Close`. A replacement that asked before the deadline, or after a handover armed again,
  and joins in between has the stream ended under it. `serve.go:519-521` says it "joins it without the
  readers noticing. If none comes, it closes". `PublisherKept` is what holds: what
  is decided after the join does not end the stream.
* **Two selections may leave a helper another unit than its Host** (`LastSelected`, 19
  states). The rendezvous reader (`session.go:534-550`, `estim.go:121-132`) and the window or
  the console (`ipc.go:648-659`, `estim.go:195-211`) both call `Host.Select` without a common
  mutex: the Host remembers the units in one order (`host.go:431-434`), and the requests are
  written, or served by their goroutines (`guest.go:73-77`), in the other. A request given up may
  be served after the next one, too. `host.go:428-430`: the Host "remembers the last
  selection". `SelectionServed` is what holds of a last selection made alone.
* **A waiting choice may be forgotten** (`ChoiceKept`). `applySource` clears
  `pending` whenever another choice is applied (`apply.go:47`), and a camera found
  busy by `setOffer` leaves nothing waiting, though `ipc.go:742` and `apply.go:44`
  say it will be applied.
* **The count of dropped frames starts over** (`CountsAll`). `gate.go:112` resets
  it at each episode; `serve.go:387-388` says it counts the publication's.
* **A rate owed may wait for ever, or be put back** (`OwedIsDue`, `RateInForce`). A
  handover refused as busy leaves its release owed (`serve.go:441`); an old run's
  deferred reset falls on the rate of a new one, and a step that comes after
  `Stop` sets a rate the next run starts with (`adapt.go:108-110`: "the ceiling
  whenever the camera comes on").

* **The window may show the phone's picture wrong** (`ShownIsSo`). `OnChange` is called
  in goroutines of their own, which may tell `true` and `false` in either order, and with the
  address of a server that was replaced; a port that is taken fails the choice with
  the old server closed and nothing reported (`apply.go:140`). `docs/DESKTOP.md:186`: sent again
  "whenever any of it changes, the phone's picture arriving included".
* **A picture does not follow the port** (`ServesWhatArrives`). When the person chooses
  another port the reception ends with its server, while the enclave's session goes on
  publishing into it. `PROTOCOL.md:455`: "The
  connector serves what arrives".

Met while reading, and only described:

* Link: a stream whose OPEN is read while `fail` is under way is never marked
  dead, although `Session.Close` says every stream fails. `PROTOCOL.md` 7.2's "a
  release sets a latch that only the next attach clears": any arming clears it, and a
  heartbeat acknowledgment arms. A late detach resets the settings of the
  session that attached meanwhile (`session.go:310`); settings goroutines may
  apply out of order (`session.go:490`); a heartbeat found stale detaches
  whichever session is attached (`session.go:367`); a selection may close a unit
  armed since it looked (`cmd` `estim.go:121`), and one made while `Open` runs is
  not applied until the unit is lost (`runtime.go:446`).
* Camera: a stream accepted just before its session ended turns the camera on
  again (`source.go:518`), and a grace already fired stays pending (`source.go:613`).
* Outbox: a failed flush puts its messages back in front, the comment says behind
  (`session.go:212`); a message the service refuses takes its batch with it; a flush cut
  by the stop loses its batch, and an unattached connector makes no last flush.
* Offers and device: hello reads the offers without `srcMu` and may report older
  ones (`missed`); a choice that failed half-way leaves its first half unreported and not in
  the file (`kept`; `PROTOCOL.md` 2.3); `reportDevice` queues what it read before.
* Window: `start` lets go of the mutex before it sets `proc`, so two clicks start
  two; an old relay's reset falls on a new run's link; the page never clears
  `blocked` (`store.tsx:246-249`), so it stays on that screen after "Start again";
  `already-running` is overwritten by `connector-stopped`; `cmd.Wait` beside the
  scanner may lose the last lines; `ipc.go` emits a switch's standing in a second
  hold; a reconnect and arming within a second leave the shell thinking unarmed.
* Helper: two calls may start two programs, and the end of the first fails the
  calls of the second, or leaves one waiting for ever; a find may go before the
  selection is repeated; overlapping finds open two devices (`guest.go`: "One
  device is open at a time"); a cancel told before its execute registers is lost;
  `ExitGrace` is 20 s and `Host.Close` kills after 2 s (`host.go:110-129`); a pick
  opens a bus that the runtime may be scanning (`runtime.go:876`).
* Stream: a packet of a replaced publisher that has looked up its track before the
  join is written after it (`gate.go`, `stray`): the new publisher's timestamps are then
  carried on from another's clock, and a frame of it may be without its references.
* Updater: `idle` is asked before the swap, so a session that begins meanwhile is cut
  off (`README.md:117-119`); a crash between two renames leaves mixed
  files or none; a release rests for a day after a network error too.
* Gateway: the target is read at accept and the tunnel later; a connector attached between
  `handleClear`'s two holds is dropped (it redials).

## 5. The proofs

`EstimLinkProofs` extends `EstimLink`. From `LinkAssumption` alone (any number of
session ids and settings goroutines, any levels, ranges and targets) it proves:

* `LinkInvariant`: `Spec => []IInv`, the inductive invariant;
* `LatchStopsRamp`, `DriveNeedsWindow`, `StopReleases`: the invariants the `link`
  run checks, with `TypeCorrect` and `RampExclusive`;
* `LinkImplementsUnit`: `Spec => UnitSafe`, the refinement.

The invariants are not inductive as they stand. `Control` adds to
`RampOwnsUnit` that an arming that holds the unit, and a window, imply a unit,
and that a ramp is below its goal and its goal within the unit's levels: without
the last two the level's type is not preserved by a ramp's write, which adds one.
`Latched` adds that a write that has been polled for follows a latch not yet
counted. `Closing` adds that `Runtime.Run` closes for good only once stopping,
since a picker goroutine reaches the same `"close"` to go on to `"open"`.
`NoDriveWithoutWindow` is inductive relative to `Control`.

Each step lemma (`TypeStep`, `ControlStep`, `LatchedStep`, `DriveStep`,
`ClosingStep`, `UnitStep`) has one step per group of actions of `Next`; actions
that touch nothing the invariant reads are grouped.

`CameraControlProofs` extends `CameraControl`. From `CameraAssumption` alone (any
sessions, enclaves, runs and streams, any bounds) it proves `Spec => []IInv`
(`CameraInvariant`) and from it every property the `camera` run checks
(`OneTunnelAtATime`, `CapturesAccounted`, `SwitchedOffStaysOff`, `WaitingChangeKept`,
and the action properties `OvertakenGraceNeverActs` and `EndedRunTurnsOff`), with
`CameraTyped`, `NewestTicketHeld` and `BacklogOfLiveTunnel`. Two parts strengthen
them:

* `Entries`: one session has an entry in `manager.tunnels`, and a run no entry
  names has been ended. `OneTunnel` is the consequence (the runs that may still
  attach are all the one entry's), and `HoldsNewest` needs it, since a ticket is
  kept for the run the entry names and for no other.
* `Graceful`: whoever begins to stop views has nothing left to stop. For a run
  and the window that is their own program order; for a grace it is that a
  generation is taken once (`pending <= gen`, and a generation not used yet has
  stopped nothing), for main that it is dark once. Without it `StopSome` could
  overwrite what a caller has yet to stop, and a capture would run on for ever.
  It also says that an overtaken grace is not the one pending, which is what
  `FullGrace` rests on.

`RunsSteps`, `CameraSteps` and `StopStarts` say once what a step may do to the
entries, to what is on, and to the lists of captures to stop; the step lemmas
split on them.

`TrustProofs` extends `Trust`, `NetCamera`, `Gateway` and `Updater`, each under its own
specification.

* For a tunnel: `MeetsBothHolds`, `RecordsHoldThroughout`. `TightenedIsStricter` is
  the promise of `Floors.Apply`: who meets a policy as tightened meets the policy and
  the floors. It needs `NoDigestFloor` (the floors compiled in name no digest,
  `floors.go`), since `Apply` takes the policy's digests as they are. `Checked` says
  what a dial has established at each of its calls, of the machine it saw and under
  the policy it kept; `KeptIsProved` that a check in the result cache was one, which
  takes a key that stands for one image (`OneKeyEach`).
* For the network camera: `TrustedOnlyHolds`. `Pinning` relates the store and every
  Source's pin to the certificate trusted first, which an unsaved one puts out of
  force; `Probed` and `Accepted` relate the offers and the runs to that pin.
* For the gateway: `OneConnectorHolds` and the action property `TargetSurvivesHolds`, every
  safety property of its run, with `GatewayTyped`. `Dialed` ties a connection to the key of the
  expectation it dialed with, `Held` says that the session the gateway holds has not been given
  back: without it a later dial could take the place of a connection that `Server.attached`
  still names, and `NoOrphan` is not inductive.
* For the updater, whatever the inputs, `FailedRestsHolds`: a release that failed is never
  at its hands again for its day, since nothing failed stays staged in memory or in
  `update.json`, although a save may not happen (`Resting`). `InstallInvariant` and
  `ComesBackHolds`, as long as no run was torn and nothing lost: among the renames each file is
  the running program's, or that is aside, and what is not moved is still unpacked (`Among`); a
  hand-over has the program aside (`AfterMoves`); while the moves are undone, each file has gone
  back or has yet to (`GoingBack`). What is aside is the program's own, never what an earlier update
  left, and may be missing only after the service's first answer (`IsAside`). A crash that is not
  between two renames leaves the install whole.

`StreamsProofs` extends `Streams`, `Share` and `Gate`, each under its own specification.

* `ReachedRateHolds` is inductive with `RunsKnown`: a run that has begun is the one
  `Stop` would end or was ended, and an ffmpeg is of a run that has begun.
* `PublisherKeptHolds` is an action property: `FeederKnown` says which session feeds
  the publication, `Counted` that no more sessions have a release to come than are owed
  (by cardinality), `GraceForReleased` that a grace that is armed, or has fired and not
  yet run, is of a publication already released, `Joining` that what is being joined stays
  published until it is, and `Decided` that a close is decided with no publisher there: one
  that is there when it is done has joined since, which is what the property excepts.
  `CloseIntakeQuiet` shows on the way that the branch of `intake.close` that closes
  what is still published never has anything to close: its server's `Close` has
  waited for the sessions by then.
* `OffMeansOffHolds`: `Chosen`, `Found` and `Fed` relate the server shared, the one a
  session found, and the one a picture is on, at each place of `setShareLocked`.
* `WatchableHolds` follows from `GateInvariant`. `Source`, `Hold` and `Line` say that what
  a publisher gives comes one packet right after the other (`Follows`), from the access
  unit begun, through the packets held and those on their way, to the last one looked
  up; another publisher's begin with a keyframe's (`First`). `Unmixed` says that until a
  packet of a replaced publisher is written, the gate and the decoder are `Ready` for
  the packet in hand or for every one that could be next: it is of the access unit the
  gate is in or begins one, a frame let through finds its references and a second slice
  the first. An episode of dropping can therefore only end at a keyframe's first slice.
* `StreamsTyped` bounds the releases owed: `Tally` says that each generation of a publication
  has had another ffmpeg, of those whose session was ever opened.

`MuxProofs` extends `Mux` and proves all that the `mux` run checks, for any number
of streams, any bounds and any inputs.

* `ReaderWokenHolds` is inductive with the types.
* `NoneLeftHolds`: a stream id is opened once (`OpenedOnce`: one OPEN of it is to be
  sent, on the way, or taken), the backlog has each waiting stream once (`Waiting`), and
  `Each` relates where the user of a stream is, how the stream is closed and whether it
  is in the table or still to be marked by `fail`.
* `PipesHold`: `Spec => Pipes`, the refinement. `FlowInv` says what lies between the two
  ends: the DATA of a direction is in rising order and none is behind the CLOSE
  (`Rising`); while frames find the stream (`Intact`: in the table, not dead, the session not
  done) all that was written and not yet taken is on the way (`Whole`), and otherwise
  nothing more is taken; before the connector has taken the OPEN nothing is written and
  the gateway knows of no ACCEPT (`Unknown`). `TailNext` then gives the step of `Pipe`:
  the first DATA on the way is the successor of the last one taken. The end is read as
  the end only when `Taken = Written`, which needs that a CLOSE overtakes nothing.
  Lemmas about a frame put behind or taken from a sequence (`AppendOther`, `AppendNext`,
  `TailMoves`, `TailOther`) carry the rest.

`HelperProofs` extends `Helper` and proves its three invariants. `Numbers` says that a
number stands for one call and what a process has under it was written to that process
(`AnswerIsOwn`); `Device` that what is open is the driver's or about to be closed
(`NothingLeftOpen`); `Asked`, `Shut` and `Chosen` who has still to tell a program of the
selection (`SelectionServed`, for any number of goroutines that select; its proof showed that it
needs no exception for a program started twice): while the last one was made alone, a request to
select or repeat it is of the unit remembered, its caller waits for it, and a program without that
unit has one to come. Finitely many processes are assumed, as there are.
`HelperTyped` rests on `Owned`: a number that has served (`Spent`) is not given again, so what a
close has in hand is never the driver a later find has opened.

`UplinkProofs` extends `Uplink` and proves the safety of the `uplink` run, for any number of
sessions, choices and events and any bound of the outbox.

* `ChoicesImplemented`: `Spec => ChoiceSpec`. A step of the client changes the choice of cameras as
  `Choices` allows or not at all, so that what is proved of `ChoiceSpec` holds of `Uplink`:
  `FileNamesCamerasHolds`, inductive with the types, and the action property `OffersHeld`.
* `OutboxKeptHolds`. A flush takes the outbox in its hand and may put it back in front, so the
  hand and the outbox are taken as one sequence, `ToSend`. Its numbers rise (`Rising`), over both
  sessions and over what has no session, which is more than the order `Ordered` asks for each
  addressee and is what makes it inductive: a message is counted as it is queued, and what comes
  behind is greater. `Due` says that what has arrived is before all that is to be sent, but
  for a batch whose answer was lost (`again`). Trimming, refusing and sending leave a part of
  the sequence in its order (`Within`), which keeps both. That `Trim` leaves `MaxOutbox` messages
  at most is `TrimWithin`: going before one another is an order of the messages, so no two have
  the same number before them (`Kept`).

`WindowProofs` extends `Window` and proves `PageCatchesUpHolds` and `HelloFirstHolds`, for any
number of connectors. An event goes by the reporter's wait, the pipe, the relay's hand, the
snapshot and the page's queue; the invariant has one part for each stage, which says that it ends
with what the one before has passed on: `SaidOnWay` (what was said last of a kind is the last
of its kind up to the end of the pipe), `InHandLast`, `PageLast` (for a page that has asked, read or
is live, `Base` being what it will show). The lemmas of `Fold` say what one event more, in front or
behind, makes of what is shown. `Apart` is what the lock is for: two runs that both speak would
overwrite each other's, which is the case `mixed` excepts. `HelloFirstHolds` rests on
`Greeting`: until the shell has heard a run, the pipe begins with its hello, or holds at most the
notice of its end.

All these proofs are for any values of the constants the modules' assumptions allow; in
`Window`, `NoneIsNoEvent` says that the mark of an empty hand is no event. The theorems of
`Trust`, `NetCamera`, `Gateway` and `Updater`, and of `Streams`, `Share` and `Gate`, are about each
module's own specification. `MCTrust` checks the first two in turn, `MCStreams` `Streams` and
`Share`. Every invariant and every action property that a run checks is proved, and both
refinements.

Only model-checked: the liveness properties and whatever speaks of ENABLED, which are out of the
proof system's reach (`QuietServiceReleases`, `ReleaseReachesUnit`, `NewestInstalled`, `ComesOn`,
`Attaches`, `Unblocked`, `ServiceLearns`, `PendingTaken`, `EndsWithWindow`, `EndIsShown`,
`EveryCallEnds`).

## 6. The plan

All modules are written, and every safety property of the runs is proved. What is left is
breadth: the parts of section 7 that have behaviour of their own, and the three hazards that
no property covers yet (`PROJECT.json`).

## 7. Not modelled

* **Identity and pairing**: files and signatures behind one mutex.
* **Bluetooth, serial ports, sleep, platform code**: operating system calls, whose
  outcomes the link's driver has as failures.
* **Packages, signatures, reproducible builds**: sequential code on file formats,
  compared byte for byte by its tests.
* **Cryptography**: tokens, Sigstore, TLS and signatures answer truly.
* **The window's pages**, beyond how events are folded: layout and texts.
* **The RTSP sessions** of the readers, certificates, audio, device discovery.
* **Of the device link**: the telemetry ring and the renewal of the device's own
  countdown, which report and prolong without changing what the properties relate.

------------------------------ MODULE Updater ------------------------------
(***************************************************************************)
(* The program updating itself: internal/update and cmd's updater.         *)
(*                                                                         *)
(* What outlives a run is the install (root), the install moved aside      *)
(* (prev), the verified download (got), what it unpacks to (stage) and     *)
(* update.json (disk); a crash loses the rest.  The goroutines are the     *)
(* update loop, which main is until it has looked for a staged download,   *)
(* and the one proven starts when the service first answers; both write    *)
(* updater.state.  A step of the loop is a call that can fail, or one      *)
(* rename; what is put back is put back file by file, each may not go      *)
(* back, and nobody is told.                                               *)
(*                                                                         *)
(* Left out: what a release looks like and how it is verified (Check,      *)
(* Download and Stage answer, or refuse), free space, the lines said.      *)
(* Releases are numbered; the program begins as release 1.                 *)
(***************************************************************************)
EXTENDS Naturals

CONSTANTS
  Files,      \* what an update replaces: the bundle, or the files
  Bundle,     \* LayoutBundle
  MaxTag,     \* bound: releases
  MaxFaults,  \* bound: calls that fail, and crashes
  MaxDays,    \* bound: days that pass over a failed release
  Inputs      \* what else may happen, of AllInputs

AllInputs == {"fault", "crash", "command", "unsaved"}

ASSUME UpdaterAssumption ==
  /\ Files # {} /\ Bundle \in BOOLEAN
  /\ MaxTag \in Nat \ {0} /\ MaxFaults \in Nat /\ MaxDays \in Nat
  /\ Inputs \subseteq AllInputs

VARIABLES
  latest,    \* the newest release
  root, prev, stage, \* by file the release it is of, 0 for no such file
  got,       \* the verified download, or 0
  disk,      \* update.json
  ver,       \* the running program's release, 0 when none runs
  mem,       \* updater.state
  mode,      \* "launch" (applyStaged), "loop" (once), "hand" (updateNow)
  pc, tag,   \* where the updater is, and the release it is at
  half,      \* files moved aside whose successor is not in place yet
  todo,      \* files Swap has yet to move, or that have yet to go back
  prover,    \* proven's goroutine is at work
  online,    \* the service has answered this run
  session,   \* a session uses the computer (manager.idle is false)
  torn,      \* history: a run ended between two renames
  lost,      \* history: a file that was to go back did not, or was not aside any more
  faults, days

install == <<root, prev, stage, got>>
run == <<ver, mem, mode, pc, tag, half, todo, prover, online, session>>
updaterVars == <<latest, install, disk, run, torn, lost, faults, days>>

Tags == 1 .. MaxTag
NoFiles == [f \in Files |-> 0]
Whole(t) == [f \in Files |-> t]

State == [staged : {0} \cup Tags, failed : SUBSET Tags, previous : BOOLEAN,
          installed : {0} \cup Tags]
Empty == [staged |-> 0, failed |-> {}, previous |-> FALSE, installed |-> 0]

PCs == {"off", "check", "download", "stage", "idle", "swap", "moving", "undo", "restart", "back"}

UpdaterTypeOK ==
  /\ latest \in Tags
  /\ {root, prev, stage} \subseteq [Files -> {0} \cup Tags]
  /\ got \in {0} \cup Tags /\ {disk, mem} \subseteq State
  /\ ver \in {0} \cup Tags /\ tag \in {0} \cup Tags
  /\ mode \in {"launch", "loop", "hand"} /\ pc \in PCs
  /\ half \subseteq Files /\ todo \subseteq Files /\ half \subseteq todo
  /\ {prover, online, session, torn, lost} \subseteq BOOLEAN
  /\ faults \in 0 .. MaxFaults /\ days \in 0 .. MaxDays

UpdaterInit ==
  /\ latest = 1 /\ root = Whole(1) /\ prev = NoFiles /\ stage = NoFiles
  /\ got = 0 /\ disk = Empty /\ ver = 0 /\ mem = Empty
  /\ mode = "loop" /\ pc = "off" /\ tag = 0 /\ half = {} /\ todo = {}
  /\ prover = FALSE /\ online = FALSE /\ session = FALSE
  /\ torn = FALSE /\ lost = FALSE /\ faults = 0 /\ days = 0

-----------------------------------------------------------------------------
Fault == faults < MaxFaults /\ faults' = faults + 1

\* State.Save, whose failure is only logged.
Save(s) == mem' = s /\ (disk' = s \/ ("unsaved" \in Inputs /\ UNCHANGED disk))

\* A staged download the launch finds still there.
StagedThere == mem.staged # 0 /\ mem.staged = got

\* announce: what the last update did is said once.
Announced(s) == [s EXCEPT !.installed = 0]

\* The program is up when it has read the state.
Start(m) ==
  /\ ver = 0 /\ \A f \in Files : root[f] # 0
  /\ \E f \in Files : ver' = root[f]
  /\ mode' = m /\ pc' = "check" /\ tag' = 0
  /\ Save(IF m = "launch" THEN Announced(disk) ELSE disk)
  /\ UNCHANGED <<latest, install, half, todo, prover, online, session, torn, lost, faults, days>>

\* updateNow: the `update` command looks, installs and ends, starting nothing.
ByHand == "command" \in Inputs /\ Start("hand")

\* A run is over, however that comes.
Ended ==
  /\ ver' = 0 /\ pc' = "off" /\ tag' = 0 /\ half' = {} /\ todo' = {}
  /\ prover' = FALSE /\ online' = FALSE /\ session' = FALSE

\* Some files are moved, or put back, and others not.
Between == half # {} \/ (pc = "undo" /\ todo # {}) \/ todo \notin {{}, Files}

Crash ==
  /\ "crash" \in Inputs /\ ver # 0 /\ Fault
  /\ torn' = (torn \/ Between)
  /\ Ended
  /\ UNCHANGED <<latest, install, disk, mem, mode, lost, days>>

\* The updater has nothing (more) to do now: the loop waits for its next look,
\* the launch goes on to the loop, the command ends.
Rest ==
  IF mode = "hand" THEN Ended /\ UNCHANGED mode
  ELSE /\ pc' = "check" /\ mode' = "loop" /\ tag' = 0 /\ half' = {} /\ todo' = {}
       /\ UNCHANGED <<ver, prover, online, session>>

GoesTo(p) ==
  pc' = p /\ UNCHANGED <<ver, mode, prover, online, session>>

-----------------------------------------------------------------------------
(* Finding a release: Client.Check, Download, Prune. *)

\* The release is not newer than the program.
UpToDate ==
  /\ pc = "check" /\ latest <= ver /\ (mode = "launch" => StagedThere)
  /\ IF mode = "hand" THEN UNCHANGED <<mem, disk, got, stage>>
     ELSE Save([mem EXCEPT !.staged = 0]) /\ got' = 0 /\ stage' = NoFiles
  /\ Rest
  /\ UNCHANGED <<latest, root, prev, torn, lost, faults, days>>

\* At launch: nothing staged, its file gone, another release by now.
NotStaged ==
  /\ pc = "check" /\ mode = "launch"
  /\ \/ mem.staged = 0 /\ UNCHANGED <<mem, disk>>
     \/ mem.staged # got /\ Save([mem EXCEPT !.staged = 0])
     \/ StagedThere /\ latest > ver /\ latest # got /\ UNCHANGED <<mem, disk>>
  /\ Rest
  /\ UNCHANGED <<latest, install, torn, lost, faults, days>>

\* The release could not be looked up, or did not verify.
CheckFails ==
  /\ pc = "check" /\ (mode = "launch" => StagedThere) /\ Fault
  /\ IF mode = "loop" THEN Save(mem) ELSE UNCHANGED <<mem, disk>>
  /\ Rest
  /\ UNCHANGED <<latest, install, torn, lost, days>>

\* The release is newer and, for the loop, has not failed today; Prune.
Newer ==
  /\ pc = "check" /\ latest > ver
  /\ mode = "launch" => StagedThere /\ got = latest
  /\ mode = "loop" => latest \notin mem.failed
  /\ IF mode = "loop"
       THEN /\ got' = (IF got = latest THEN got ELSE 0)
            /\ stage' = (IF got = latest THEN stage ELSE NoFiles)
       ELSE UNCHANGED <<got, stage>>
  /\ tag' = latest /\ GoesTo("download")
  /\ UNCHANGED <<latest, root, prev, disk, mem, half, todo, torn, lost, faults, days>>

\* refused: the release has failed, and is not staged.
Refused ==
  /\ IF mode = "hand" THEN UNCHANGED <<mem, disk>>
     ELSE Save([mem EXCEPT !.failed = @ \cup {tag}, !.staged = 0])
  /\ Rest

Download ==
  /\ pc = "download"
  /\ got' = tag
  /\ IF mode = "loop" THEN Save([mem EXCEPT !.staged = tag]) ELSE UNCHANGED <<mem, disk>>
  /\ GoesTo("stage")
  /\ UNCHANGED <<latest, root, prev, stage, tag, half, todo, torn, lost, faults, days>>

\* A download that fails to verify, or is not whole, is removed; one that could
\* not be looked at leaves what was there.
DownloadFails ==
  /\ pc = "download" /\ Fault
  /\ got' \in {got, 0}
  /\ Refused
  /\ UNCHANGED <<latest, root, prev, stage, torn, lost, days>>

-----------------------------------------------------------------------------
(* Putting it in place: Installer.Stage, Swap. *)

\* Unpacked beside the download, verified, and its --version is the tag.
Stage ==
  /\ pc = "stage"
  /\ stage' = Whole(tag)
  /\ GoesTo(IF mode = "loop" THEN "idle" ELSE "swap")
  /\ UNCHANGED <<latest, root, prev, got, disk, mem, tag, half, todo, torn, lost, faults, days>>

StageFails ==
  /\ pc = "stage" /\ Fault
  /\ stage' = NoFiles
  /\ Refused
  /\ UNCHANGED <<latest, root, prev, got, torn, lost, days>>

\* The loop applies a staged release once no session uses the computer.
Idle ==
  /\ pc = "idle" /\ ~session
  /\ GoesTo("swap")
  /\ UNCHANGED <<latest, install, disk, mem, tag, half, todo, torn, lost, faults, days>>

SwapBegins ==
  /\ pc = "swap"
  /\ prev' = NoFiles /\ todo' = Files
  /\ GoesTo("moving")
  /\ UNCHANGED <<latest, root, stage, got, disk, mem, tag, half, torn, lost, faults, days>>

Aside(f) ==
  /\ pc = "moving" /\ half = {} /\ f \in todo
  /\ prev' = [prev EXCEPT ![f] = root[f]]
  /\ root' = [root EXCEPT ![f] = 0]
  /\ half' = {f}
  /\ UNCHANGED <<latest, stage, got, disk, ver, mem, mode, pc, tag, todo, prover, online, session,
                 torn, lost, faults, days>>

InPlace(f) ==
  /\ pc = "moving" /\ f \in half
  /\ root' = [root EXCEPT ![f] = stage[f]]
  /\ stage' = [stage EXCEPT ![f] = 0]
  /\ half' = {} /\ todo' = todo \ {f}
  /\ UNCHANGED <<latest, prev, got, disk, ver, mem, mode, pc, tag, prover, online, session,
                 torn, lost, faults, days>>

\* Bug: the file moved aside when its successor failed is not put back.
MovedThrough == Files \ todo

\* What Swap has moved aside.
Moved == (Files \ todo) \cup half

\* The moves made so far are to be undone (swapFiles' undo, swapBundle).
SwapFails ==
  /\ pc = "moving" /\ todo # {} /\ Fault
  /\ todo' = Moved /\ half' = {} /\ GoesTo("undo")
  /\ UNCHANGED <<latest, install, disk, mem, tag, torn, lost, days>>

\* What came in makes way, and what was there is renamed back, if it still is
\* aside.
MoveBack(f) ==
  /\ pc \in {"undo", "back"} /\ f \in todo /\ todo' = todo \ {f}
  /\ root' = [root EXCEPT ![f] = prev[f]] /\ prev' = [prev EXCEPT ![f] = 0]
  /\ lost' = (lost \/ prev[f] = 0)
  /\ UNCHANGED <<latest, stage, got, disk, ver, mem, mode, pc, tag, half, prover, online, session,
                 torn, faults, days>>

\* It does not go back, and nobody is told.
MoveBackFails(f) ==
  /\ pc \in {"undo", "back"} /\ f \in todo /\ Fault /\ todo' = todo \ {f}
  /\ \E t \in {0, root[f]} : root' = [root EXCEPT ![f] = t]
  /\ lost' = TRUE
  /\ UNCHANGED <<latest, prev, stage, got, disk, ver, mem, mode, pc, tag, half, prover, online,
                 session, torn, days>>

\* Of the files what is left aside is removed, gone back or not; a bundle stays.
RemoveAside == prev' = IF Bundle THEN prev ELSE NoFiles

SwapUndone ==
  /\ pc = "undo" /\ todo = {}
  /\ RemoveAside /\ Refused
  /\ UNCHANGED <<latest, root, stage, got, torn, lost, faults, days>>

\* Swap has returned: the state says so, the download goes, and what the
\* program holds is let go, so that no session is left (handOver).
SwapEnds ==
  /\ pc = "moving" /\ todo = {}
  /\ Save([mem EXCEPT !.previous = TRUE, !.installed = tag, !.staged = 0])
  /\ got' = 0 /\ stage' = NoFiles
  /\ IF mode = "hand" THEN Ended /\ UNCHANGED mode
     ELSE /\ pc' = "restart" /\ session' = FALSE
          /\ UNCHANGED <<ver, mode, tag, half, todo, prover, online>>
  /\ UNCHANGED <<latest, root, prev, torn, lost, faults, days>>

-----------------------------------------------------------------------------
(* Handing over: Restart, undo; and proven. *)

Restart ==
  /\ pc = "restart" /\ Ended
  /\ UNCHANGED <<latest, install, disk, mem, mode, torn, lost, faults, days>>

\* undo: the bundle, or of the files those it finds aside.
RestartFails ==
  /\ pc = "restart" /\ Fault
  /\ todo' = {f \in Files : Bundle \/ prev[f] # 0}
  /\ lost' = (lost \/ todo' # Files)
  /\ GoesTo("back")
  /\ UNCHANGED <<latest, install, disk, mem, tag, half, torn, days>>

RestartUndone ==
  /\ pc = "back" /\ todo = {}
  /\ RemoveAside
  /\ Save([mem EXCEPT !.previous = FALSE, !.installed = 0, !.failed = @ \cup {tag}])
  /\ Ended
  /\ UNCHANGED <<latest, root, stage, got, mode, torn, lost, faults, days>>

\* The service answers for the first time.  It may be while the new program is
\* put in place, handed over to or put back, since the client runs until the end.
Online ==
  /\ ver # 0 /\ mode = "loop" /\ ~online
  /\ online' = TRUE /\ prover' = mem.previous
  /\ UNCHANGED <<latest, install, disk, ver, mem, mode, pc, tag, half, todo, session, torn,
                 lost, faults, days>>

\* State.RemovePrevious, which may be refused for a while with some files gone:
\* the directory is the one Swap moves to.
RemoveSome(f) ==
  /\ prover /\ mem.previous
  /\ prev' = [prev EXCEPT ![f] = 0]
  /\ UNCHANGED <<latest, root, stage, got, disk, run, torn, lost, faults, days>>

\* It forgets the directory afterwards, with what came aside since.
RemovePrevious ==
  /\ prover
  /\ prover' = FALSE
  /\ \/ UNCHANGED prev
     \/ mem.previous /\ prev' = NoFiles
  /\ Save([mem EXCEPT !.previous = FALSE])
  /\ UNCHANGED <<latest, root, stage, got, ver, mode, pc, tag, half, todo, online, session, torn,
                 lost, faults, days>>

-----------------------------------------------------------------------------
(* The world. *)

NewRelease ==
  /\ latest < MaxTag /\ latest' = latest + 1
  /\ UNCHANGED <<install, disk, run, torn, lost, faults, days>>

\* A session may begin between the look (idle) and the swap.
Session(on) ==
  /\ ver # 0 /\ mode = "loop" /\ session # on
  /\ session' = on
  /\ UNCHANGED <<latest, install, disk, ver, mem, mode, pc, tag, half, todo, prover, online, torn,
                 lost, faults, days>>

\* Bug: a failure is held against a release for good.
DayPassesNot ==
  /\ days < MaxDays /\ mem.failed \cup disk.failed # {} /\ days' = days + 1
  /\ UNCHANGED <<latest, install, disk, run, torn, lost, faults>>

\* FailedRecently: what failed is forgotten after a day.
DayPasses ==
  /\ days < MaxDays /\ mem.failed \cup disk.failed # {} /\ days' = days + 1
  /\ mem' = [mem EXCEPT !.failed = {}] /\ disk' = [disk EXCEPT !.failed = {}]
  /\ UNCHANGED <<latest, install, ver, mode, pc, tag, half, todo, prover, online, session,
                 torn, lost, faults>>

Finding == UpToDate \/ NotStaged \/ Newer \/ Download
Placing ==
  \/ Stage \/ Idle \/ SwapBegins \/ SwapEnds \/ Restart
  \/ \E f \in Files : Aside(f) \/ InPlace(f)
Undoing == SwapUndone \/ RestartUndone \/ \E f \in Files : MoveBack(f)
Failing ==
  /\ "fault" \in Inputs
  /\ \/ CheckFails \/ DownloadFails \/ StageFails \/ SwapFails \/ RestartFails
     \/ \E f \in Files : MoveBackFails(f)

UpdaterNext ==
  \/ Start("launch") \/ ByHand
  \/ Finding \/ Placing \/ Undoing \/ Failing \/ Crash
  \/ Online \/ RemovePrevious \/ \E f \in Files : RemoveSome(f)
  \/ NewRelease \/ DayPasses \/ \E on \in BOOLEAN : Session(on)

UpdaterSpec == UpdaterInit /\ [][UpdaterNext]_updaterVars

\* The updater goes on while its program runs; people open a program that has
\* ended, and sessions end, so that a look for the idle computer finds one.
UpdaterFairSpec ==
  /\ UpdaterSpec
  /\ WF_updaterVars(Finding) /\ WF_updaterVars(Placing) /\ WF_updaterVars(Undoing)
  /\ WF_updaterVars(Start("launch"))
  /\ WF_updaterVars(DayPasses) /\ WF_updaterVars(Session(FALSE)) /\ SF_updaterVars(Idle)

-----------------------------------------------------------------------------
(* Properties. *)

\* What cannot be put in place, or would not start, leaves the program that
\* tried it, whole (README.md: "If a new version would not start, the previous
\* one is put back"; Swap: "On any failure the moves made so far are undone"),
\* whichever file failed, whatever an earlier update left aside and proven
\* removes meanwhile: unless a file to go back was gone or would not go.
ComesBack ==
  [][(SwapUndone \/ RestartUndone) /\ ~torn /\ ~lost => root' = Whole(ver)]_updaterVars

\* The same, whatever goes back ("the old one, which is still whole on disk",
\* install.go:285-286).  It does not hold: a rename back may fail, and what is aside
\* may be removed.
PreviousReturns == [][(SwapUndone \/ RestartUndone) /\ ~torn => root' = Whole(ver)]_updaterVars

\* A release that failed is left alone for its day, at the next launch too,
\* except by the person's own command (FailedRecently).
FailedRests ==
  pc \in {"swap", "moving", "restart"} /\ mode # "hand" => tag \notin mem.failed

\* The newest release gets in, whatever failed on the way, unless a run was
\* cut off between two renames or a file did not go back.
NewestInstalled == <>[](torn \/ lost \/ root = Whole(latest))
=============================================================================

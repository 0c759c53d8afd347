------------------------------- MODULE Helper -------------------------------
(***************************************************************************)
(* A unit driver helper: the connector's Host (host.go) and the helper     *)
(* program's Serve (guest.go), which speak over the helper's pipes.        *)
(*                                                                         *)
(* Goroutines of the connector call the Host: the holder of the Runtime's  *)
(* dev mutex (find, use, close), and others without it: Run's lists, the   *)
(* rendezvous reader and the window or the console each select.  A call    *)
(* starts the program where it is not running, greets it and repeats the   *)
(* selection; it takes a number, is written, and waits for its answer, for *)
(* the program's end or for its own context.  The program reads requests   *)
(* in order and serves each in a goroutine of its own.                     *)
(*                                                                         *)
(* A driver stands as the number of the find that opened it; the calls of  *)
(* a driver that change nothing here (release, arm, status, execute...)    *)
(* stand as "use".  Left out: what a call carries, the notification that   *)
(* cancels an execute, ExitGrace (the Host kills long before), describe.   *)
(***************************************************************************)
EXTENDS Naturals, FiniteSets

CONSTANTS
  Others,     \* the goroutines that call the Host without dev
  Procs,      \* bound: starts of the program, numbered from 1
  Units,      \* what may be selected
  MaxSteps,   \* bound: operations asked of the Host, and starts
  MaxMishaps, \* bound: mishaps of the program, and requests given up
  None

ASSUME HelperAssumption ==
  /\ Procs \subseteq Nat \ {0} /\ IsFiniteSet(Procs) /\ MaxSteps \in Nat /\ MaxMishaps \in Nat
  /\ None \notin Nat \cup Units

Callers == {"holder"} \cup Others

VARIABLES
  \* A caller.
  pc,        \* "idle", "look" (before ensure's), "start" (past it), "call", "send", "wait"
  op, what,  \* the operation, and the request of it under way
  wish, arg, \* the unit of its select, and of the request of it under way
  mine,      \* the process it started and greets
  id, watch, \* of its request: its number, the process whose end it hears
  sentTo,    \* history: the process its request was written to
  got,       \* its channel: None, or an answer
  holds,     \* the driver the holder has, or None
  \* The Host.
  proc,      \* h.proc
  cur,       \* the process of h.exited and h.writer
  pending, nextID, selection, \* of the Host; pending by number
  \* A process.
  up,        \* "none", "up", "drain" (its stdin has ended), "gone"
  cut,       \* it crashed or was killed
  shut,      \* its stdin is closed
  ended,     \* its readStdout has ended, and closed exited
  run,       \* its requests, in the pipe or under way
  driver, opened, selected, \* of the guest; opened: the devices it has open
  doubled,   \* history: a program was started beside a running one
  overlap,   \* history: by process, two finds looked at once
  crossed,   \* history: since one was made alone, a selection met another, or outlived its caller
  wants, mishaps

request == <<id, watch, sentTo, got>>
caller == <<pc, op, what, wish, arg, mine, request, holds>>
host == <<proc, cur, pending, nextID, selection>>
device == <<driver, opened, selected>>
program == <<up, cut, run, device>>
pipes == <<shut, ended>>
history == <<doubled, overlap, crossed>>
bounds == <<wants, mishaps>>
vars == <<caller, host, program, pipes, history, bounds>>

Request == [id : Nat, what : {"hello", "repeat", "select", "find", "use", "close", "list"},
            unit : Units \cup {None}]
Lost == [id |-> 0, proc |-> 0, val |-> None]

TypeOK ==
  /\ pc \in [Callers -> {"idle", "look", "start", "call", "send", "wait"}]
  /\ {proc, cur} \subseteq Procs \cup {None} /\ pending \subseteq 1..nextID
  /\ selection \in Units \cup {None} /\ holds \in Nat \cup {None}
  /\ up \in [Procs -> {"none", "up", "drain", "gone"}]
  /\ \A p \in Procs : \A r \in run[p] : r.req \in Request
  /\ \A p \in Procs : driver[p] \in opened[p] \cup {None}

Init ==
  /\ pc = [t \in Callers |-> "idle"]
  /\ op = [t \in Callers |-> "idle"] /\ what = [t \in Callers |-> "idle"]
  /\ wish \in [Callers -> {None}] /\ arg \in [Callers -> {None}] /\ mine \in [Callers -> {None}]
  /\ id = [t \in Callers |-> 0] /\ watch \in [Callers -> {None}]
  /\ sentTo = [t \in Callers |-> 0] /\ got \in [Callers -> {None}] /\ holds = None
  /\ proc = None /\ cur = None /\ pending = {} /\ nextID = 0 /\ selection = None
  /\ up = [p \in Procs |-> "none"] /\ cut = [p \in Procs |-> FALSE]
  /\ shut = [p \in Procs |-> FALSE] /\ ended = [p \in Procs |-> FALSE]
  /\ run = [p \in Procs |-> {}] /\ driver \in [Procs -> {None}]
  /\ opened = [p \in Procs |-> {}] /\ selected \in [Procs -> {None}]
  /\ doubled = FALSE /\ overlap = [p \in Procs |-> FALSE] /\ crossed = FALSE
  /\ wants = 0 /\ mishaps = 0

-----------------------------------------------------------------------------
(* The Host: its callers. *)

Started == {p \in Procs : up[p] # "none"}
Running == proc # None /\ ~ended[cur]

Want(t, o, u, at) ==
  /\ pc[t] = "idle" /\ wants + Cardinality(Started) < MaxSteps /\ wants' = wants + 1
  /\ op' = [op EXCEPT ![t] = o] /\ what' = [what EXCEPT ![t] = o]
  /\ wish' = [wish EXCEPT ![t] = u] /\ arg' = [arg EXCEPT ![t] = u] /\ pc' = [pc EXCEPT ![t] = at]
  /\ UNCHANGED <<mine, request, holds, proc, cur, pending, nextID, program, pipes,
                 doubled, overlap, mishaps>>

\* ensure looks whether the program runs, and lets go of the mutex.
Ensured == IF Running THEN "call" ELSE "start"

Find == holds = None /\ Want("holder", "find", None, Ensured) /\ UNCHANGED <<selection, crossed>>

\* The listing is Run's goroutine's.
List(t) ==
  /\ \A s \in Callers : op[s] # "list"
  /\ Want(t, "list", None, Ensured) /\ UNCHANGED <<selection, crossed>>

\* No other selection is on its way, nor the repeat of one.
Alone ==
  /\ \A t \in Callers : op[t] # "select" /\ what[t] # "repeat"
  /\ \A p \in Procs : \A r \in run[p] : r.req.what \notin {"select", "repeat"}

\* Remembered in one hold of the mutex, before ensure looks in another: two
\* goroutines may be here at once.
Select(t, u) ==
  Want(t, "select", u, "look") /\ selection' = u /\ crossed' = ~Alone

Look(t) ==
  /\ pc[t] = "look" /\ pc' = [pc EXCEPT ![t] = Ensured]
  /\ UNCHANGED <<op, what, wish, arg, mine, request, holds, host, program, pipes, history, bounds>>

\* A driver's calls do not start the program.
Use == holds # None /\ Want("holder", "use", None, "call") /\ UNCHANGED <<selection, crossed>>

CloseDriver ==
  holds # None /\ Want("holder", "close", None, "call") /\ UNCHANGED <<selection, crossed>>

\* Bug: a process started counts its requests from one again.
CountAgain == 0

\* Numbers go on across processes.
CountOn == nextID

\* The program starts, and is the Host's from here on; its hello is due.
Start(t, p) ==
  /\ wants + Cardinality(Started) < MaxSteps
  /\ pc[t] = "start" /\ up[p] = "none" /\ \A q \in Procs : q < p => up[q] # "none"
  /\ up' = [up EXCEPT ![p] = "up"] /\ doubled' = (doubled \/ Running)
  /\ proc' = p /\ cur' = p /\ pending' = {} /\ nextID' = CountOn
  /\ mine' = [mine EXCEPT ![t] = p]
  /\ what' = [what EXCEPT ![t] = "hello"] /\ pc' = [pc EXCEPT ![t] = "call"]
  /\ UNCHANGED <<op, wish, arg, request, holds, selection, cut, run, device, pipes, overlap, crossed, bounds>>

Idle(t) ==
  /\ pc' = [pc EXCEPT ![t] = "idle"]
  /\ op' = [op EXCEPT ![t] = "idle"] /\ what' = [what EXCEPT ![t] = "idle"]
  /\ wish' = [wish EXCEPT ![t] = None] /\ arg' = [arg EXCEPT ![t] = None]
  /\ mine' = [mine EXCEPT ![t] = None]

StartFails(t) ==
  /\ pc[t] = "start" /\ Idle(t)
  /\ UNCHANGED <<request, holds, host, program, pipes, history, bounds>>

\* call takes its number, its channel and exited in one hold of the mutex.
Register(t) ==
  /\ pc[t] = "call" /\ pc' = [pc EXCEPT ![t] = "send"]
  /\ nextID' = nextID + 1 /\ pending' = pending \cup {nextID + 1}
  /\ id' = [id EXCEPT ![t] = nextID + 1] /\ watch' = [watch EXCEPT ![t] = cur]
  /\ UNCHANGED <<op, what, wish, arg, mine, sentTo, got, holds, proc, cur, selection, program,
                 pipes, history, bounds>>

\* A lost unit is forgotten.
Finish(t, ok, val) ==
  /\ Idle(t)
  /\ holds' = CASE op[t] = "find" /\ ok -> val
                [] op[t] = "close" \/ (op[t] = "use" /\ ~ok) -> None
                [] OTHER -> holds

\* What it had open stays as it was left.
Kill(p) ==
  IF up[p] \in {"up", "drain"}
  THEN /\ up' = [up EXCEPT ![p] = "gone"] /\ cut' = [cut EXCEPT ![p] = TRUE]
       /\ run' = [run EXCEPT ![p] = {}] /\ driver' = [driver EXCEPT ![p] = None]
       /\ opened' = [opened EXCEPT ![p] = {}] /\ selected' = [selected EXCEPT ![p] = None]
  ELSE UNCHANGED program

GoOn(t, request_, unit) ==
  /\ what' = [what EXCEPT ![t] = request_] /\ arg' = [arg EXCEPT ![t] = unit]
  /\ pc' = [pc EXCEPT ![t] = "call"] /\ UNCHANGED <<op, wish, mine, holds>>

\* Bug: a program started again does not hear the selection.
ThenAsked(t) == GoOn(t, op[t], wish[t])

\* The selection is repeated to a program just greeted.
ThenRepeat(t) ==
  IF selection # None THEN GoOn(t, "repeat", selection) ELSE GoOn(t, op[t], wish[t])

\* Its request outlives it, where it was written.
LeavesSelect(t) ==
  what[t] \in {"select", "repeat"} /\ \E p \in Procs : \E r \in run[p] : r.req.id = id[t]

\* The end of a request: after the hello the selection, then what was asked;
\* a program without a hello is killed.
Over(t, ok, val) ==
  /\ id' = [id EXCEPT ![t] = 0] /\ watch' = [watch EXCEPT ![t] = None]
  /\ sentTo' = [sentTo EXCEPT ![t] = 0] /\ got' = [got EXCEPT ![t] = None]
  /\ crossed' = (crossed \/ LeavesSelect(t))
  /\ \/ what[t] = "hello" /\ ok /\ ThenRepeat(t) /\ UNCHANGED program
     \/ what[t] = "hello" /\ ~ok /\ Finish(t, FALSE, None) /\ Kill(mine[t])
     \/ what[t] = "repeat" /\ GoOn(t, op[t], wish[t]) /\ UNCHANGED program
     \/ what[t] = op[t] /\ Finish(t, ok, val) /\ UNCHANGED program

\* send: to the process whose stdin is the writer now.
Send(t) ==
  /\ pc[t] = "send" /\ up[cur] = "up" /\ ~shut[cur]
  /\ run' = [run EXCEPT ![cur] = @ \cup
       {[req |-> [id |-> id[t], what |-> what[t], unit |-> arg[t]], at |-> "read", has |-> None]}]
  /\ sentTo' = [sentTo EXCEPT ![t] = cur] /\ pc' = [pc EXCEPT ![t] = "wait"]
  /\ UNCHANGED <<op, what, wish, arg, mine, id, watch, got, holds, host, up, cut, device, pipes,
                 history, bounds>>

SendFails(t) ==
  /\ pc[t] = "send" /\ (up[cur] # "up" \/ shut[cur])
  /\ pending' = pending \ {id[t]} /\ Over(t, FALSE, None)
  /\ UNCHANGED <<proc, cur, nextID, selection, pipes, doubled, overlap, bounds>>

Hear(t) ==
  /\ pc[t] = "wait" /\ got[t] # None
  /\ Over(t, got[t].val # None, got[t].val)
  /\ UNCHANGED <<host, pipes, doubled, overlap, bounds>>

\* Bug: a call hears of the end through its channel only.
HearsNoEnd(t) == FALSE

\* exited is closed.
HearsEnd(t) == ended[watch[t]]

HearExit(t) ==
  /\ pc[t] = "wait" /\ HearsEnd(t) /\ Over(t, FALSE, None)
  /\ UNCHANGED <<host, pipes, doubled, overlap, bounds>>

\* Its context ends.
GiveUp(t) ==
  /\ pc[t] = "wait" /\ pending' = pending \ {id[t]} /\ Over(t, FALSE, None)
  /\ UNCHANGED <<proc, cur, nextID, selection, pipes, doubled, overlap, wants>>

\* readStdout comes to the end of the pipe: whoever waits is told.
ReadEnd(p) ==
  /\ up[p] = "gone" /\ ~ended[p]
  /\ ended' = [ended EXCEPT ![p] = TRUE]
  /\ got' = [t \in Callers |-> IF id[t] \in pending THEN Lost ELSE got[t]]
  /\ pending' = {}
  /\ UNCHANGED <<pc, op, what, wish, arg, mine, id, watch, sentTo, holds, proc, cur, nextID,
                 selection, program, shut, history, bounds>>

\* Close, once the Runtime and the session have ended.
CloseHost ==
  /\ \A t \in Callers : pc[t] = "idle"
  /\ proc # None /\ proc' = None /\ shut' = [shut EXCEPT ![proc] = TRUE]
  /\ wants' = MaxSteps
  /\ UNCHANGED <<caller, cur, pending, nextID, selection, program, ended, history, mishaps>>

\* closeGrace is over.
KillLate(p) ==
  /\ shut[p] /\ up[p] \in {"up", "drain"} /\ Kill(p)
  /\ UNCHANGED <<caller, host, pipes, history, bounds>>

-----------------------------------------------------------------------------
(* The guest. *)

Crash(p) ==
  /\ up[p] \in {"up", "drain"} /\ Kill(p)
  /\ UNCHANGED <<caller, host, pipes, history, wants>>

\* The requests written have been read, each into a goroutine of its own.
Drain(p) ==
  /\ up[p] = "up" /\ shut[p] /\ up' = [up EXCEPT ![p] = "drain"]
  /\ UNCHANGED <<caller, host, cut, run, device, pipes, history, bounds>>

\* The answer is written, and goes to whoever waits under its number.
Answer(p, r, val) ==
  /\ run' = [run EXCEPT ![p] = @ \ {r}]
  /\ got' = [t \in Callers |->
               IF id[t] = r.req.id /\ r.req.id \in pending
               THEN [id |-> r.req.id, proc |-> p, val |-> val] ELSE got[t]]
  /\ pending' = pending \ {r.req.id}

Becomes(p, r, next) ==
  run' = [run EXCEPT ![p] = (@ \ {r}) \cup {next}] /\ UNCHANGED <<got, pending>>

\* dispatch: what needs no device; the answer 0 says it is done.
Plain(p, r) ==
  /\ r.req.what \in {"hello", "list"} /\ Answer(p, r, 0) /\ UNCHANGED <<device, overlap>>

Selects(p, r) ==
  /\ r.req.what \in {"select", "repeat"} /\ Answer(p, r, 0)
  /\ selected' = [selected EXCEPT ![p] = r.req.unit] /\ UNCHANGED <<driver, opened, overlap>>

\* find closes a device still open, then looks.
FindLooks(p, r) ==
  /\ r.req.what = "find" /\ r.at = "read" /\ Becomes(p, r, [r EXCEPT !.at = "looks"])
  /\ driver' = [driver EXCEPT ![p] = None] /\ opened' = [opened EXCEPT ![p] = @ \ {driver[p]}]
  /\ overlap' = [overlap EXCEPT ![p] = @ \/ \E q \in run[p] : q.at = "looks"]
  /\ UNCHANGED selected

Finds(p, r) ==
  /\ r.req.what = "find" /\ r.at = "looks" /\ Answer(p, r, r.req.id)
  /\ driver' = [driver EXCEPT ![p] = r.req.id]
  /\ opened' = [opened EXCEPT ![p] = @ \cup {r.req.id}]
  /\ UNCHANGED <<selected, overlap>>

FindsNone(p, r) ==
  r.req.what = "find" /\ r.at = "looks" /\ Answer(p, r, None) /\ UNCHANGED <<device, overlap>>

\* The driver open, whoever found it.
Current(p) == driver[p]

\* release, arm, renewArm, status, telemetry, execute: each of the current driver.
Uses(p, r) == r.req.what = "use" /\ Answer(p, r, Current(p)) /\ UNCHANGED <<device, overlap>>

CloseTakes(p, r) ==
  /\ r.req.what = "close" /\ r.at = "read"
  /\ Becomes(p, r, [r EXCEPT !.at = "closes", !.has = driver[p]])
  /\ driver' = [driver EXCEPT ![p] = None] /\ UNCHANGED <<opened, selected, overlap>>

Closes(p, r) ==
  /\ r.req.what = "close" /\ r.at = "closes" /\ Answer(p, r, 0)
  /\ opened' = [opened EXCEPT ![p] = @ \ {r.has}] /\ UNCHANGED <<driver, selected, overlap>>

Dispatch(p) ==
  /\ up[p] \in {"up", "drain"}
  /\ \E r \in run[p] :
       \/ Plain(p, r) \/ Selects(p, r) \/ FindLooks(p, r) \/ Finds(p, r) \/ FindsNone(p, r)
       \/ Uses(p, r) \/ CloseTakes(p, r) \/ Closes(p, r)
  /\ UNCHANGED <<pc, op, what, wish, arg, mine, id, watch, sentTo, holds, proc, cur, nextID,
                 selection, up, cut, pipes, doubled, crossed, bounds>>

\* Bug: the end does not wait for the requests under way.
Whenever(p) == TRUE

\* The requests under way have finished.
Finished(p) == run[p] = {}

\* A device left open is closed on the way out.
LetsGo(p) ==
  /\ up[p] = "drain" /\ Finished(p) /\ up' = [up EXCEPT ![p] = "gone"]
  /\ driver' = [driver EXCEPT ![p] = None] /\ opened' = [opened EXCEPT ![p] = @ \ {driver[p]}]
  /\ UNCHANGED <<caller, host, cut, run, selected, pipes, history, bounds>>

-----------------------------------------------------------------------------
Wants ==
  \/ Find \/ Use \/ CloseDriver
  \/ \E t \in Others : List(t) \/ \E u \in Units : Select(t, u)
Goes(t) ==
  \/ Look(t)
  \/ \E p \in Procs : Start(t, p)
  \/ StartFails(t) \/ Register(t) \/ Send(t) \/ SendFails(t) \/ Hear(t) \/ HearExit(t)
HelloTimesOut(t) == what[t] = "hello" /\ GiveUp(t) /\ UNCHANGED mishaps
Guest(p) == Drain(p) \/ Dispatch(p) \/ LetsGo(p)
Mishap == mishaps < MaxMishaps /\ mishaps' = mishaps + 1

Next ==
  \/ \E t \in Callers :
       Goes(t) \/ HelloTimesOut(t) \/ (Mishap /\ what[t] # "hello" /\ GiveUp(t))
  \/ \E p \in Procs : ReadEnd(p) \/ Guest(p) \/ KillLate(p) \/ (Mishap /\ Crash(p))
  \/ Wants \/ CloseHost

Spec == Init /\ [][Next]_vars

\* Everybody goes on; a hello has ten seconds.
FairSpec ==
  /\ Spec /\ \A t \in Callers : WF_vars(Goes(t) \/ HelloTimesOut(t))
  /\ \A p \in Procs : WF_vars(ReadEnd(p)) /\ WF_vars(Guest(p))

-----------------------------------------------------------------------------
(* Properties. *)

\* An answer reaches the call it answers, of the process that call was
\* written to, also with two processes at once and callers that gave up.
AnswerIsOwn ==
  \A t \in Callers :
    pc[t] = "wait" /\ got[t] \notin {None, Lost} => got[t].id = id[t] /\ got[t].proc = sentTo[t]

\* A call ends, without a context to end it: by its answer or by the end of
\* the program, also one written to a successor ("a call outstanding when
\* it exits fails with ErrExited", host.go).
EveryCallEnds ==
  \A t \in Callers : pc[t] = "wait" ~> pc[t] # "wait" \/ doubled

\* A program that ends by the end of its stdin leaves no device open, were
\* a close under way or its find given up ("leave no current flowing
\* behind", guest.go).
NothingLeftOpen ==
  \A p \in Procs : up[p] = "gone" /\ ~cut[p] /\ ~overlap[p] => opened[p] = {}

\* With nobody calling and nothing under way, a running program has the
\* Host's selection, also one that was started again ("the Host remembers
\* the last selection and repeats it after a restart", host.go), where the
\* last selection was made alone: of two that overlap the Host may remember
\* one and the program have the other.
SelectionServed ==
  (\A t \in Callers : pc[t] = "idle") /\ Running /\ up[cur] = "up" /\ run[cur] = {}
    /\ ~crossed
    => selected[cur] = selection

\* The same of every selection (host.go:428-430).  It does not hold.
LastSelected ==
  (\A t \in Callers : pc[t] = "idle") /\ Running /\ up[cur] = "up" /\ run[cur] = {}
    => selected[cur] = selection
=============================================================================

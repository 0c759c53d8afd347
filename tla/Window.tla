------------------------------- MODULE Window -------------------------------
(***************************************************************************)
(* The desktop window and the connector it runs: cmd's reporter and        *)
(* commands (ipc.go), the shell (desktop/connector.go) and the page's fold *)
(* of events (WailsBridge.ts, store.tsx).                                  *)
(*                                                                         *)
(* A connector writes events; the shell's relay takes note of each, then   *)
(* hands it to the page; a page that mounts asks for the last of each kind *)
(* and queues what comes meanwhile.  The shell starts, asks to stop and    *)
(* kills connectors; a connector stops when its standard input ends.       *)
(*                                                                         *)
(* Four kinds of event stand for all: the hello, the link, the device and  *)
(* blocked.  The operating system (the lock, pipes, signals) and the       *)
(* window toolkit are external; the toolkit hands events over in order.    *)
(* Left out: texts, menus, media permissions, what commands ask for but    *)
(* quitting, the length of the grace.                                      *)
(***************************************************************************)
EXTENDS Naturals, Sequences

CONSTANTS
  Runs,        \* bound: runs of the connector
  MaxStarts,   \* bound: calls of start
  MaxSays,     \* bound: events of the link and the device
  MaxSteps,    \* bound: both together
  None

ASSUME WindowAssumption ==
  /\ Runs \subseteq Nat /\ {MaxStarts, MaxSays, MaxSteps} \subseteq Nat

VARIABLES
  \* The connector.
  pc,        \* where main is; the lock is held from "start" to its end
  stop,      \* how it ended: None, "clean", "relaunch", "exit", or "cut"
  ready, pending, \* of the reporter
  out,       \* standard output
  \* The shell.
  shell,     \* "up", "stopping" (ServiceShutdown), "gone"
  starting,  \* calls of start past their check
  proc, asked, \* ConnectorService.proc; the runs told to quit
  target,    \* the process ServiceShutdown waits for
  stopping, last, linkActive, armed, forced, \* of ConnectorService; forceQuit
  relay,     \* by run where relay is
  inHand,    \* and the event taken and not yet emitted, or None
  \* The page.
  page,      \* "none", "asked" (a snapshot), "read" (it is on its way), "live"
  view, queue, snap,
  broken,    \* nobody reads the pipes, and a write to them is a signal (Unix)
  says,      \* history: what each run emitted last, of each kind
  heard,     \* history: the runs whose hello was relayed
  mixed,     \* history: a run spoke while an ended one was still relayed
  starts, said

reporter == <<ready, pending, out, says, said>>
conn == <<pc, stop, reporter>>
quitting == <<shell, target, forced, broken>>
busy == <<linkActive, armed>>
service == <<quitting, starting, proc, asked, stopping, last, busy, relay, inHand, heard>>
pageVars == <<page, view, queue, snap>>
vars == <<conn, service, pageVars, mixed, starts>>

Kinds == {"hello", "link", "device", "blocked"}
Values == {None, "hello", "on", "off", "none", "held", "armed", "running", "stopped"}
Event == [kind : Kinds, val : Values]
Ev(kind, val) == [kind |-> kind, val |-> val]
ASSUME NoneIsNoEvent == None \notin Event
Nothing == [k \in Kinds |-> None]

TypeOK ==
  /\ pc \in [Runs -> {"none", "lock", "start", "up", "down", "dead"}]
  /\ stop \in [Runs -> {None, "clean", "relaunch", "exit", "cut"}]
  /\ ready \in [Runs -> BOOLEAN]
  /\ pending \in [Runs -> Seq(Event)] /\ out \in [Runs -> Seq(Event)]
  /\ inHand \in [Runs -> Event \cup {None}] /\ queue \in Seq(Event)
  /\ shell \in {"up", "stopping", "gone"} /\ {proc, target} \subseteq Runs \cup {None}
  /\ relay \in [Runs -> {"none", "read", "ended", "done"}]
  /\ page \in {"none", "asked", "read", "live"}
  /\ {last, view, snap} \subseteq [Kinds -> Values]

Init ==
  /\ pc = [r \in Runs |-> "none"] /\ stop = [r \in Runs |-> None]
  /\ ready = [r \in Runs |-> FALSE]
  /\ pending = [r \in Runs |-> <<>>] /\ out = [r \in Runs |-> <<>>]
  /\ says = [r \in Runs |-> Nothing]
  /\ shell = "up" /\ starting = 0 /\ proc = None /\ asked = {} /\ target = None
  /\ stopping = FALSE /\ last = Nothing /\ linkActive = FALSE /\ armed = FALSE /\ forced = FALSE
  /\ relay = [r \in Runs |-> "none"] /\ inHand = [r \in Runs |-> None]
  /\ page = "none" /\ view = Nothing /\ queue = <<>> /\ snap = Nothing
  /\ broken = FALSE /\ heard = {} /\ mixed = FALSE
  /\ starts = 0 /\ said = 0

-----------------------------------------------------------------------------
(* The connector. *)

Die(r, how) ==
  /\ pc' = [pc EXCEPT ![r] = "dead"] /\ stop' = [stop EXCEPT ![r] = how]

\* emit: before Ready it is kept for after the hello.
Emit(r, ev) ==
  IF ready[r] THEN out' = [out EXCEPT ![r] = Append(@, ev)] /\ UNCHANGED pending
  ELSE pending' = [pending EXCEPT ![r] = Append(@, ev)] /\ UNCHANGED out

\* lockInstance: one connector per state directory.
Locked == \E r \in Runs : pc[r] \in {"start", "up", "down"}

TakeLock(r) ==
  /\ pc[r] = "lock" /\ ~Locked
  /\ pc' = [pc EXCEPT ![r] = "start"]
  /\ mixed' = (mixed \/ \E q \in Runs : pc[q] = "dead" /\ relay[q] # "done")
  /\ UNCHANGED <<stop, reporter, service, pageVars, starts>>

\* Blocked goes out at once, hello or not; exit code 1.
AlreadyRunning(r) ==
  /\ pc[r] = "lock" /\ Locked
  /\ Die(r, "exit")
  /\ out' = [out EXCEPT ![r] = Append(@, Ev("blocked", "running"))]
  /\ UNCHANGED <<ready, pending, says, said, service, pageVars, mixed, starts>>

\* The hello, then what waited for it.
HelloThenPending(r) ==
  out' = [out EXCEPT ![r] = @ \o <<Ev("hello", "hello")>> \o pending[r]]

\* From here on commands are read and the unit is watched.
Ready(r) ==
  /\ pc[r] = "start"
  /\ IF broken
     THEN Die(r, "cut") /\ UNCHANGED <<ready, pending, out, says>>
     ELSE /\ pc' = [pc EXCEPT ![r] = "up"] /\ UNCHANGED stop
          /\ ready' = [ready EXCEPT ![r] = TRUE] /\ pending' = [pending EXCEPT ![r] = <<>>]
          /\ HelloThenPending(r) /\ says' = [says EXCEPT ![r].hello = "hello"]
  /\ UNCHANGED <<said, service, pageVars, mixed, starts>>

Says(r, ev) ==
  /\ shell = "gone" => broken
  /\ said < MaxSays /\ starts + said < MaxSteps /\ said' = said + 1
  /\ IF ev.val \in {"off", "none"} THEN says[r][ev.kind] \notin {None, ev.val}
     ELSE says[r][ev.kind] # ev.val
  /\ IF broken
     THEN Die(r, "cut") /\ UNCHANGED <<pending, out, says>>
     ELSE /\ Emit(r, ev) /\ says' = [says EXCEPT ![r][ev.kind] = ev.val]
          /\ UNCHANGED <<pc, stop>>
  /\ UNCHANGED <<ready, service, pageVars, mixed, starts>>

\* A session begins or ends.
SaysLink(r, val) == pc[r] = "up" /\ Says(r, Ev("link", val))

\* The runtime's goroutine or watchDevice, each with what it has read before.
SaysDevice(r, val) == pc[r] \in {"start", "up"} /\ Says(r, Ev("device", val))

\* Bug: only a quit ends it.
Told(r) == r \in asked

\* Quit, or standard input has ended.
InputEnds(r) == r \in asked \/ shell = "gone"

\* Both are logged first, and the log is a pipe to the shell too.
StdinEnds(r) ==
  /\ pc[r] = "up" /\ InputEnds(r)
  /\ IF broken THEN Die(r, "cut")
     ELSE pc' = [pc EXCEPT ![r] = "down"] /\ UNCHANGED stop
  /\ UNCHANGED <<reporter, service, pageVars, mixed, starts>>

\* main's way out: the tunnels, the camera, the unit.
WindsDown(r) ==
  /\ pc[r] = "down"
  /\ Die(r, "clean") \/ (broken /\ Die(r, "cut"))
  /\ UNCHANGED <<reporter, service, pageVars, mixed, starts>>

\* It ends of itself: an error, or an update in place (while idle).
Ends(r, how) ==
  /\ pc[r] \in {"start", "up"} /\ shell # "gone"
  /\ how = "relaunch" => says[r].link # "on"
  /\ Die(r, how)
  /\ UNCHANGED <<reporter, service, pageVars, mixed, starts>>

-----------------------------------------------------------------------------
(* The page: a live event, and what the shell hands it. *)

Fold(state, evs) ==
  LET Of(k) == {i \in DOMAIN evs : evs[i].kind = k} IN
  [k \in Kinds |-> IF Of(k) = {} THEN state[k]
                   ELSE evs[CHOOSE i \in Of(k) : \A j \in Of(k) : j <= i].val]

\* Live events are queued until the snapshot has been read.
Deliver(ev) ==
  /\ CASE page = "none" -> UNCHANGED <<view, queue>>
       [] page = "live" -> view' = Fold(view, <<ev>>) /\ UNCHANGED queue
       [] OTHER -> queue' = Append(queue, ev) /\ UNCHANGED view
  /\ UNCHANGED <<page, snap>>

Subscribe ==
  /\ shell # "gone" /\ page = "none"
  /\ page' = "asked"
  /\ UNCHANGED <<conn, service, view, queue, snap, mixed, starts>>

Snapshot ==
  /\ shell # "gone" /\ page = "asked"
  /\ page' = "read" /\ snap' = last
  /\ UNCHANGED <<conn, service, view, queue, mixed, starts>>

\* Bug: what came meanwhile is dropped with the queue.
SnapshotOnly == view' = snap

\* The snapshot, then the queue.
SnapshotThenQueue == view' = Fold(snap, queue)

Mount ==
  /\ shell # "gone" /\ page = "read"
  /\ page' = "live" /\ SnapshotThenQueue /\ queue' = <<>> /\ snap' = Nothing
  /\ UNCHANGED <<conn, service, mixed, starts>>

-----------------------------------------------------------------------------
(* The shell. *)

Done == proc # None => pc[proc] = "dead"

\* start: one running stays; the mutex is let go of before one is started.
Start ==
  /\ Done /\ starting' = starting + 1 /\ stopping' = FALSE
  /\ shell # "gone" /\ starts < MaxStarts /\ starts + said < MaxSteps /\ starts' = starts + 1
  /\ UNCHANGED <<conn, quitting, proc, asked, last, busy, relay, inHand, heard, pageVars, mixed>>

ServiceStartup == starts = 0 /\ Start

\* "Start again", on the screen of what stopped; it looks whether one runs too.
Restart == view.blocked # None /\ Start

\* The connector is started, and becomes proc.
Launch(r) ==
  /\ shell # "gone" /\ starting > 0 /\ starting' = starting - 1
  /\ pc[r] = "none" /\ pc' = [pc EXCEPT ![r] = "lock"]
  /\ relay' = [relay EXCEPT ![r] = "read"]
  /\ proc' = r /\ last' = [last EXCEPT !.blocked = None]
  /\ UNCHANGED <<stop, reporter, quitting, asked, stopping, busy, inHand, heard, pageVars,
                 mixed, starts>>

\* There is none, or it will not start.
LaunchFails ==
  /\ shell # "gone" /\ starting > 0 /\ starting' = starting - 1
  /\ last' = [last EXCEPT !.blocked = "stopped"] /\ Deliver(Ev("blocked", "stopped"))
  /\ UNCHANGED <<conn, quitting, proc, asked, stopping, busy, relay, inHand, heard, mixed, starts>>

\* Wait closes the pipe once the process has ended, whatever is in it.
LoseTail(r) ==
  /\ pc[r] = "dead" /\ out[r] # <<>>
  /\ out' = [out EXCEPT ![r] = <<>>]
  /\ UNCHANGED <<pc, stop, ready, pending, says, said, service, pageVars, mixed, starts>>

\* take: what the shell itself needs, and the last of each kind.
Take(r, ev) ==
  /\ inHand' = [inHand EXCEPT ![r] = ev]
  /\ last' = [last EXCEPT ![ev.kind] = ev.val]
  /\ linkActive' = IF ev.kind = "link" THEN ev.val = "on" ELSE linkActive
  /\ armed' = IF ev.kind = "device" THEN ev.val = "armed" ELSE armed

\* report: take, then emit.
RelayTake(r) ==
  /\ relay[r] = "read" /\ inHand[r] = None /\ out[r] # <<>>
  /\ Take(r, Head(out[r])) /\ out' = [out EXCEPT ![r] = Tail(@)]
  /\ heard' = IF Head(out[r]).kind = "hello" THEN heard \cup {r} ELSE heard
  /\ UNCHANGED <<pc, stop, ready, pending, says, said, quitting, starting, proc, asked,
                 stopping, relay, pageVars, mixed, starts>>

RelayEmit(r) ==
  /\ inHand[r] # None
  /\ Deliver(inHand[r]) /\ inHand' = [inHand EXCEPT ![r] = None]
  /\ UNCHANGED <<conn, quitting, starting, proc, asked, stopping, last, busy, relay, heard, mixed,
                 starts>>

\* Bug: an end before the hello counts as a failed start, said elsewhere.
SaysEndHeard(r) == r \in heard /\ ~stopping /\ stop[r] # "relaunch"

\* The run's end is said, but where it was asked for or is an update's.
SaysEnd(r) == ~stopping /\ stop[r] # "relaunch"

\* The lines have ended, and so has the process; for an update the program
\* quits, to be started again.
RelayEnd(r) ==
  /\ relay[r] = "read" /\ inHand[r] = None /\ pc[r] = "dead" /\ out[r] = <<>>
  /\ linkActive' = FALSE /\ armed' = FALSE
  /\ relay' = [relay EXCEPT ![r] = IF SaysEnd(r) THEN "ended" ELSE "done"]
  /\ forced' = (forced \/ stop[r] = "relaunch")
  /\ UNCHANGED <<conn, shell, target, broken, starting, proc, asked, stopping, last, inHand, heard,
                 pageVars, mixed, starts>>

RelayStopped(r) ==
  /\ relay[r] = "ended" /\ relay' = [relay EXCEPT ![r] = "done"]
  /\ Take(r, Ev("blocked", "stopped"))
  /\ UNCHANGED <<conn, quitting, starting, proc, asked, stopping, heard, pageVars, mixed, starts>>

\* shouldQuit asks while a session has the camera or the unit is armed; the
\* person may quit anyway.
QuitAnyway ==
  /\ shell = "up" /\ ~forced /\ (linkActive \/ armed)
  /\ forced' = TRUE
  /\ UNCHANGED <<conn, shell, target, broken, starting, proc, asked, stopping, last, busy, relay,
                 inHand, heard, pageVars, mixed, starts>>

\* A quit on the connector's standard input, and its end.
ServiceShutdown ==
  /\ shell = "up" /\ starts > 0 /\ (forced \/ ~(linkActive \/ armed))
  /\ shell' = "stopping" /\ stopping' = TRUE /\ target' = proc
  /\ asked' = asked \cup ({proc} \ {None})
  /\ UNCHANGED <<conn, forced, broken, starting, proc, last, busy, relay, inHand, heard, pageVars,
                 mixed, starts>>

\* The shell's process ends, and with it the relays and the page; on Unix a
\* write to its pipes is a signal from now on.
Gone ==
  /\ shell' = "gone" /\ broken' \in BOOLEAN
  /\ starting' = 0 /\ last' = Nothing
  /\ relay' = [r \in Runs |-> "done"] /\ inHand' = [r \in Runs |-> None]
  /\ out' = [r \in Runs |-> <<>>]
  /\ page' = "none" /\ view' = Nothing /\ queue' = <<>> /\ snap' = Nothing
  /\ linkActive' = FALSE /\ armed' = FALSE /\ forced' = FALSE /\ stopping' = FALSE
  /\ pending' = out' /\ says' = [r \in Runs |-> Nothing]
  /\ proc' = None /\ target' = None /\ heard' = {} /\ mixed' = FALSE /\ said' = 0 /\ starts' = 0
  /\ UNCHANGED <<ready, asked>>

\* The connector has ended, or the grace has and it is killed.
ShellEnds ==
  /\ shell = "stopping" /\ Gone
  /\ IF target # None /\ pc[target] # "dead" THEN Die(target, "cut") ELSE UNCHANGED <<pc, stop>>

ShellKilled == shell # "gone" /\ starts > 0 /\ Gone /\ UNCHANGED <<pc, stop>>

-----------------------------------------------------------------------------
Connector(r) ==
  TakeLock(r) \/ AlreadyRunning(r) \/ Ready(r) \/ StdinEnds(r) \/ WindsDown(r)
Relay(r) == RelayTake(r) \/ RelayEmit(r) \/ RelayEnd(r) \/ RelayStopped(r)
Page == Subscribe \/ Snapshot \/ Mount

Next ==
  \/ \E r \in Runs :
       \/ Connector(r) \/ Relay(r) \/ LoseTail(r)
       \/ \E v \in {"on", "off"} : SaysLink(r, v)
       \/ \E v \in {"none", "armed"} : SaysDevice(r, v)
       \/ \E how \in {"relaunch", "exit"} : Ends(r, how)
       \/ (\A q \in Runs : q < r => pc[q] # "none") /\ Launch(r)
  \/ ServiceStartup \/ Restart \/ LaunchFails \/ QuitAnyway \/ ServiceShutdown
  \/ ShellEnds \/ ShellKilled \/ Page

Spec == Init /\ [][Next]_vars

\* Everybody goes on; the grace ends.
FairSpec ==
  /\ Spec
  /\ \A r \in Runs : WF_vars(Connector(r)) /\ WF_vars(Relay(r))
  /\ WF_vars(Page) /\ WF_vars(ShellEnds)

-----------------------------------------------------------------------------
(* Properties. *)

\* The first line of a run is its hello, unless it is its last word, and the
\* facts of its start come after ("the window's first line is always the
\* hello", ipc.go).
HelloFirst ==
  \A r \in Runs :
    LET spoken == {i \in DOMAIN out[r] : out[r][i].kind # "blocked"} IN
    shell # "gone" /\ r \notin heard /\ spoken # {}
    => out[r][CHOOSE i \in spoken : \A j \in spoken : i <= j].kind = "hello"

\* What a running connector has said, the page shows once everything said
\* has been passed on: through the reporter's wait for the hello, the pipe,
\* the relay, the snapshot and the page's queue, whenever the page mounts.
PageCatchesUp ==
  \A r \in Runs :
    pc[r] = "up" /\ ~mixed /\ shell = "up" /\ page = "live"
      /\ (\A q \in Runs : out[q] = <<>> /\ inHand[q] = None)
    => \A k \in {"hello", "link", "device"} : says[r][k] # None => view[k] = says[r][k]

\* "The connector never outlives a shell that was killed" (DESKTOP.md), nor
\* one that was quit, were it started in the very act.
EndsWithWindow == shell = "gone" ~> \A r \in Runs : pc[r] \in {"none", "dead"}

\* A connector that stops of itself leaves the page the screen that says so
\* and can start it again.
EndIsShown ==
  \A r \in Runs :
    proc = r /\ pc[r] = "dead" ~> proc # r \/ forced \/ shell # "up" \/ view.blocked # None

\* The end of standard input "is a shutdown, like the terminal window
\* closing" (DESKTOP.md), on which main lets go of the camera and the unit;
\* only a run that was told to quit is killed, once its grace has ended.
InputEndIsShutdown == \A r \in Runs : ready[r] /\ r \notin asked => stop[r] # "cut"
=============================================================================

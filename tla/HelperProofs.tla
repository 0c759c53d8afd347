---------------------------- MODULE HelperProofs ----------------------------
(***************************************************************************)
(* Proofs about Helper, for any number of goroutines that call, of starts  *)
(* of the program, of units, of operations and of mishaps: an answer       *)
(* reaches the call it answers (AnswerIsOwn), a program that ends by       *)
(* itself leaves no device open (NothingLeftOpen), and a program at rest   *)
(* has the Host's selection where that was made alone (SelectionServed).   *)
(* What each rests on is an invariant of its own.                          *)
(***************************************************************************)
EXTENDS Helper, FiniteSetTheorems, TLAPS

At == {"idle", "look", "start", "call", "send", "wait"}
Ops == {"idle", "find", "list", "select", "use", "close"}
Whats == Ops \cup {"hello", "repeat"}
Asks == {"select", "repeat"}

\* A request of a program: read, or its find looking, or its close under way; and
\* what a call's channel holds.
Doing == [req : Request, at : {"read", "looks", "closes"}, has : Nat \cup {None}]
Reply == {None, Lost} \cup [id : Nat, proc : Procs, val : Nat \cup {None}]

CallerType ==
  /\ pc \in [Callers -> At] /\ op \in [Callers -> Ops] /\ what \in [Callers -> Whats]
  /\ wish \in [Callers -> Units \cup {None}] /\ arg \in [Callers -> Units \cup {None}]
  /\ mine \in [Callers -> Procs \cup {None}]
  /\ id \in [Callers -> Nat] /\ sentTo \in [Callers -> Procs \cup {0}]
  /\ got \in [Callers -> Reply]

HostType ==
  /\ proc \in Procs \cup {None} /\ cur \in Procs \cup {None} /\ (proc # None => proc = cur)
  /\ nextID \in Nat /\ pending \subseteq 1 .. nextID /\ selection \in Units \cup {None}

ProgramType ==
  /\ up \in [Procs -> {"none", "up", "drain", "gone"}] /\ cut \in [Procs -> BOOLEAN]
  /\ shut \in [Procs -> BOOLEAN] /\ ended \in [Procs -> BOOLEAN]
  /\ run \in [Procs -> SUBSET Doing]
  /\ driver \in [Procs -> Nat \cup {None}] /\ opened \in [Procs -> SUBSET Nat]
  /\ selected \in [Procs -> Units \cup {None}]
  /\ overlap \in [Procs -> BOOLEAN] /\ doubled \in BOOLEAN /\ crossed \in BOOLEAN
  /\ wants \in Nat

HelperType == CallerType /\ HostType /\ ProgramType

\* A caller's step and what it asks for.
Stage(t) ==
  /\ (pc[t] = "idle" <=> what[t] = "idle") /\ (pc[t] = "idle" <=> op[t] = "idle")
  /\ pc[t] \in {"look", "start"} => what[t] = op[t]
  /\ pc[t] \in {"call", "send", "wait"} => cur # None
  /\ what[t] = "hello" => mine[t] \in Procs
  /\ what[t] \in {op[t], "hello", "repeat"}

\* A driver is of a program that was started.
Stages == (\A t \in Callers : Stage(t)) /\ (holds # None => cur # None)

\* A number stands for one call; what a program has under it is of the process
\* the call was written to, and so is the answer that has come.
Number(t) ==
  /\ pc[t] \notin {"send", "wait"} => id[t] = 0 /\ got[t] = None
  /\ pc[t] \in {"send", "wait"} => id[t] \in 1 .. nextID
  /\ \A s \in Callers : s # t /\ id[s] = id[t] => id[t] = 0
  /\ \A p \in Procs : \A r \in run[p] :
       r.req.id = id[t] => pc[t] = "wait" /\ sentTo[t] = p
  /\ got[t] \notin {None, Lost} =>
       pc[t] = "wait" /\ got[t].id = id[t] /\ got[t].proc = sentTo[t]

Numbers ==
  /\ \A t \in Callers : Number(t)
  /\ \A p \in Procs : \A r \in run[p] : r.req.id \in 1 .. nextID

\* The device of a program: what is open is the driver's or a close's, and while
\* a find looks there is no other and no driver.
Device(p) ==
  /\ \A r \in run[p] : /\ r.at = "closes" => r.req.what = "close"
                       /\ r.at = "looks" => r.req.what = "find"
  /\ up[p] \in {"none", "gone"} => run[p] = {}
  /\ ~overlap[p] => \A r \in run[p] : r.at = "looks" =>
       driver[p] = None /\ \A q \in run[p] : q.at = "looks" => q = r
  /\ ~cut[p] /\ ~overlap[p] =>
       /\ \A d \in opened[p] : d = driver[p] \/ \E r \in run[p] : r.at = "closes" /\ r.has = d
       /\ up[p] = "gone" => opened[p] = {}

\* A number that has served: no request has it, nor will one.
Spent(p, d) ==
  /\ d \in 1 .. nextID /\ \A q \in run[p] : q.req.id # d
  /\ \A t \in Callers : pc[t] = "send" => id[t] # d

\* The driver is open, and is not what a close has in hand; a find opens another.
Owned(p) ==
  /\ \A q, r \in run[p] : q.req.id = r.req.id => q = r
  /\ driver[p] # None => driver[p] \in opened[p] /\ Spent(p, driver[p])
  /\ \A r \in run[p] : r.at = "closes" /\ r.has # None => Spent(p, r.has) /\ r.has # driver[p]

\* Who asks a program to select asks for the Host's selection, and waits while the
\* program has the request; who is to ask will ask for it.
Asked ==
  /\ ~crossed => \A t \in Callers : op[t] = "select" => wish[t] = selection
  /\ ~crossed => \A t \in Callers : what[t] \in Asks => arg[t] = selection
  /\ ~crossed => \A p \in Procs : \A r \in run[p] : r.req.what \in Asks =>
       \E t \in Callers : id[t] = r.req.id /\ what[t] = r.req.what /\ arg[t] = r.req.unit

\* A program that has not the Host's selection is to be asked, or greeted.
Due ==
  \/ \E r \in run[cur] : r.req.what \in Asks
  \/ \E t \in Callers : what[t] = "hello" /\ mine[t] = cur
  \/ \E t \in Callers : what[t] \in Asks /\ pc[t] \in {"look", "call", "send"}

\* Close shuts the stdin, and nothing is started after it.
Shut == \A p \in Procs : shut[p] => proc = None /\ wants = MaxSteps

Chosen ==
  /\ \A p \in Procs : up[p] = "none" => selected[p] = None
  /\ ~crossed /\ selection = None => \A p \in Procs : selected[p] = None
  /\ Running /\ up[cur] = "up" /\ ~crossed /\ selected[cur] # selection => Due

IInv ==
  /\ HelperType /\ Stages /\ Numbers
  /\ (\A p \in Procs : Device(p)) /\ Asked /\ Shut /\ Chosen
  /\ (\A p \in Procs : Owned(p)) /\ holds \in Nat \cup {None}

-----------------------------------------------------------------------------
(* What a step does to the callers and to the programs. *)

\* A program that is left as it is, and one that is killed.
Stays(p) ==
  /\ up'[p] = up[p] /\ cut'[p] = cut[p] /\ run'[p] = run[p]
  /\ driver'[p] = driver[p] /\ opened'[p] = opened[p] /\ selected'[p] = selected[p]
Killed(p) ==
  /\ up[p] \in {"up", "drain"} /\ up'[p] = "gone" /\ cut'[p] = TRUE /\ run'[p] = {}
  /\ driver'[p] = None /\ opened'[p] = {} /\ selected'[p] = None

\* The variables of a program that only it and its end change.
States == <<up, cut, run, driver, opened, selected>>

StatesType ==
  /\ up \in [Procs -> {"none", "up", "drain", "gone"}] /\ cut \in [Procs -> BOOLEAN]
  /\ run \in [Procs -> SUBSET Doing]
  /\ driver \in [Procs -> Nat \cup {None}] /\ opened \in [Procs -> SUBSET Nat]
  /\ selected \in [Procs -> Units \cup {None}]

\* A kill is of one program that runs, or of none.
LEMMA KillStep ==
  ASSUME StatesType, NEW p \in Procs, Kill(p)
  PROVE  /\ StatesType'
         /\ \A q \in Procs : Stays(q) \/ (q = p /\ Killed(q))
         /\ up[p] \in {"up", "drain"} => Killed(p)
<1>1. CASE up[p] \in {"up", "drain"}
  <2>1. Killed(p)
    BY <1>1 DEF Kill, Killed, StatesType
  <2>2. \A q \in Procs : q # p => Stays(q)
    BY <1>1 DEF Kill, Stays, StatesType
  <2>3. StatesType'
    BY <1>1 DEF Kill, StatesType
  <2> QED
    BY <2>1, <2>2, <2>3
<1>2. CASE up[p] \notin {"up", "drain"}
  BY <1>2 DEF Kill, Stays, StatesType, program, device
<1> QED
  BY <1>1, <1>2

\* A caller that stays where it is, with the request it has.
Rests(s) ==
  /\ pc'[s] = pc[s] /\ op'[s] = op[s] /\ what'[s] = what[s]
  /\ wish'[s] = wish[s] /\ arg'[s] = arg[s] /\ mine'[s] = mine[s] /\ id'[s] = id[s] /\ sentTo'[s] = sentTo[s] /\ got'[s] = got[s]

\* A caller that goes on with a request, or is done.
GoesOn(t, request_, unit) ==
  /\ pc'[t] = "call" /\ op'[t] = op[t] /\ what'[t] = request_ /\ arg'[t] = unit
  /\ wish'[t] = wish[t] /\ mine'[t] = mine[t]
Done(t) == pc'[t] = "idle" /\ op'[t] = "idle" /\ what'[t] = "idle" /\ arg'[t] = None

\* After a request a caller goes on with the next, or is done; only a hello that failed
\* ends a program.
AfterRequest(t) ==
  /\ CallerType' /\ StatesType'
  /\ \A s \in Callers : s # t => Rests(s)
  /\ id'[t] = 0 /\ got'[t] = None
  /\ crossed' = (crossed \/ LeavesSelect(t))
  /\ \/ /\ what[t] = "hello" /\ selection # None /\ GoesOn(t, "repeat", selection)
        /\ UNCHANGED States
     \/ /\ what[t] = "hello" /\ selection = None /\ GoesOn(t, op[t], wish[t])
        /\ UNCHANGED States
     \/ /\ what[t] = "hello" /\ Done(t) /\ Kill(mine[t])
     \/ /\ what[t] = "repeat" /\ UNCHANGED States
        /\ GoesOn(t, op[t], wish[t])
     \/ /\ what[t] = op[t] /\ Done(t) /\ UNCHANGED States

\* The end of a request, whatever it is, leaves its caller so.
LEMMA OverStep ==
  ASSUME CallerType, StatesType, selection \in Units \cup {None}, NEW t \in Callers, Stage(t),
         NEW ok, NEW val, Over(t, ok, val)
  PROVE  AfterRequest(t)
<1> USE DEF AfterRequest
<1>1. /\ id'[t] = 0 /\ got'[t] = None /\ id' \in [Callers -> Nat]
      /\ sentTo' \in [Callers -> Procs \cup {0}] /\ got' \in [Callers -> Reply]
      /\ \A s \in Callers : s # t => id'[s] = id[s] /\ sentTo'[s] = sentTo[s] /\ got'[s] = got[s]
  BY DEF Over, CallerType, Reply
<1>2. ASSUME NEW w \in Whats, NEW u \in Units \cup {None}, GoOn(t, w, u)
      PROVE  /\ GoesOn(t, w, u) /\ CallerType'
             /\ \A s \in Callers : s # t => Rests(s)
  BY <1>1, <1>2 DEF GoOn, GoesOn, Rests, CallerType, At
<1>3. ASSUME Finish(t, ok, val)
      PROVE  /\ Done(t) /\ CallerType'
             /\ \A s \in Callers : s # t => Rests(s)
  <2>1. Idle(t)
    BY <1>3 DEF Finish
  <2> QED
    BY <1>1, <2>1 DEF Idle, Done, Rests, CallerType, At, Ops, Whats
<1>4. /\ op[t] \in Whats /\ wish[t] \in Units \cup {None} /\ "repeat" \in Whats /\ None \in Units \cup {None}
  BY DEF CallerType, Whats
<1>5. UNCHANGED program => UNCHANGED States /\ StatesType'
  BY DEF program, device, States, StatesType
<1>6. CASE what[t] = "hello" /\ ok /\ ThenRepeat(t) /\ UNCHANGED program
  BY <1>1, <1>2, <1>4, <1>5, <1>6 DEF ThenRepeat, Over
<1>7. CASE what[t] = "hello" /\ ~ok /\ Finish(t, FALSE, None) /\ Kill(mine[t])
  <2>1. mine[t] \in Procs
    BY <1>7 DEF Stage
  <2>2. StatesType'
    BY <1>7, <2>1, KillStep
  <2>3. Idle(t)
    BY <1>7 DEF Finish
  <2>4. /\ Done(t) /\ CallerType'
        /\ \A s \in Callers : s # t => Rests(s)
    BY <1>1, <2>3 DEF Idle, Done, Rests, CallerType, At, Ops, Whats
  <2> QED
    BY <1>1, <1>7, <2>2, <2>4 DEF Over
<1>8. CASE what[t] = "repeat" /\ GoOn(t, op[t], wish[t]) /\ UNCHANGED program
  BY <1>1, <1>2, <1>4, <1>5, <1>8 DEF Over
<1>9. CASE what[t] = op[t] /\ Finish(t, ok, val) /\ UNCHANGED program
  BY <1>1, <1>3, <1>5, <1>9 DEF Over
<1> QED
  BY <1>6, <1>7, <1>8, <1>9 DEF Over

\* The ends of a request.
Ending(t) == SendFails(t) \/ Hear(t) \/ HearExit(t) \/ GiveUp(t)

\* They touch the caller, what is pending, and after a hello the program.
LEMMA EndingStep ==
  ASSUME HelperType, NEW t \in Callers, Stage(t), Ending(t)
  PROVE  /\ AfterRequest(t) /\ HelperType' /\ pending' \subseteq pending
         /\ UNCHANGED <<proc, cur, nextID, selection, shut, ended, overlap, wants>>
         /\ \/ pc[t] = "wait"
            \/ pc[t] = "send" /\ (up[cur] # "up" \/ shut[cur])
<1>1. CallerType /\ StatesType /\ HostType /\ selection \in Units \cup {None}
  BY DEF HelperType, HostType, ProgramType, StatesType
<1>2. \E ok, val : Over(t, ok, val)
  BY DEF Ending, SendFails, Hear, HearExit, GiveUp
<1>3. AfterRequest(t)
  BY <1>1, <1>2, OverStep
<1>4. /\ pending' \subseteq pending
      /\ UNCHANGED <<proc, cur, nextID, selection, shut, ended, doubled, overlap, wants>>
      /\ \/ pc[t] = "wait"
         \/ pc[t] = "send" /\ (up[cur] # "up" \/ shut[cur])
  BY DEF Ending, SendFails, Hear, HearExit, GiveUp, host, pipes, bounds
<1>5. CallerType' /\ StatesType' /\ crossed' \in BOOLEAN
  BY <1>1, <1>3 DEF AfterRequest, HelperType, ProgramType, LeavesSelect
<1>6. HostType'
  BY <1>1, <1>4 DEF HostType
<1>7. ProgramType'
  BY <1>4, <1>5 DEF HelperType, ProgramType, StatesType
<1> QED
  BY <1>3, <1>4, <1>5, <1>6, <1>7 DEF HelperType

\* What is served is answered, or goes on as the same request.
Serves(p, r) ==
  \/ r.req.what \in Asks /\ Answer(p, r, 0) /\ selected'[p] = r.req.unit
  \/ /\ r.req.what \notin Asks /\ selected'[p] = selected[p]
     /\ \/ \E val \in Nat \cup {None} : Answer(p, r, val)
        \/ \E n \in Doing : n.req = r.req /\ Becomes(p, r, n)

\* A dispatch serves one request of a program that runs, and leaves the others alone.
LEMMA DispatchStep ==
  ASSUME HelperType, NEW p \in Procs, Dispatch(p)
  PROVE  /\ HelperType'
         /\ \A q \in Procs : q # p => Stays(q) /\ overlap'[q] = overlap[q]
         /\ up[p] \in {"up", "drain"} /\ up'[p] = up[p] /\ cut'[p] = cut[p]
         /\ \E r \in run[p] : Serves(p, r)
         /\ UNCHANGED <<pc, op, what, wish, arg, mine, id, watch, sentTo, proc, cur, nextID, selection,
                        shut, ended, crossed, wants>>
<1>1. PICK r \in run[p] :
        \/ Plain(p, r) \/ Selects(p, r) \/ FindLooks(p, r) \/ Finds(p, r) \/ FindsNone(p, r)
        \/ Uses(p, r) \/ CloseTakes(p, r) \/ Closes(p, r)
  BY DEF Dispatch
<1>2. /\ UNCHANGED <<pc, op, what, wish, arg, mine, id, watch, sentTo, proc, cur, nextID, selection,
                     shut, ended, crossed, wants, up, cut, doubled>>
      /\ up[p] \in {"up", "drain"}
  BY DEF Dispatch, pipes, bounds
<1>3. CallerType /\ HostType /\ ProgramType /\ StatesType
  BY DEF HelperType, ProgramType, StatesType
<1>4. r \in Doing /\ r.req \in Request /\ r.req.id \in Nat /\ r.req.unit \in Units \cup {None}
  BY <1>3 DEF StatesType, Doing, Request
<1>5. /\ [r EXCEPT !.at = "looks"] \in Doing /\ [r EXCEPT !.at = "looks"].req = r.req
      /\ [r EXCEPT !.at = "closes", !.has = driver[p]] \in Doing
      /\ [r EXCEPT !.at = "closes", !.has = driver[p]].req = r.req
  BY <1>3, <1>4 DEF StatesType, Doing
<1>6. driver[p] \in Nat \cup {None} /\ 0 \in Nat /\ None \in Nat \cup {None} /\ r.req.id \in Nat \cup {None}
  BY <1>3, <1>4 DEF StatesType
<1>7. Serves(p, r)
  <2>1. CASE Plain(p, r)
    BY <1>6, <2>1 DEF Plain, Serves, Asks, device
  <2>2. CASE Selects(p, r)
    BY <1>3, <2>2 DEF Selects, Serves, Asks, StatesType
  <2>3. CASE FindLooks(p, r) \/ CloseTakes(p, r)
    BY <1>5, <2>3 DEF FindLooks, CloseTakes, Serves, Asks
  <2>4. CASE Finds(p, r) \/ FindsNone(p, r) \/ Uses(p, r) \/ Closes(p, r)
    BY <1>6, <2>4 DEF Finds, FindsNone, Uses, Current, Closes, Serves, Asks, device
  <2> QED
    BY <1>1, <2>1, <2>2, <2>3, <2>4
<1>8. /\ \A q \in Procs : q # p => run'[q] = run[q]
      /\ run' \in [Procs -> SUBSET Doing] /\ got' \in [Callers -> Reply] /\ pending' \subseteq pending
  <2>1. CASE \E val \in Nat \cup {None} : Answer(p, r, val)
    <3>1. PICK val \in Nat \cup {None} : Answer(p, r, val)
      BY <2>1
    <3>2. [id |-> r.req.id, proc |-> p, val |-> val] \in Reply
      BY <1>4 DEF Reply
    <3> QED
      BY <1>3, <3>1, <3>2 DEF Answer, CallerType, StatesType
  <2>2. CASE \E n \in Doing : n.req = r.req /\ Becomes(p, r, n)
    BY <1>3, <2>2 DEF Becomes, CallerType, StatesType
  <2> QED
    BY <1>6, <1>7, <2>1, <2>2 DEF Serves
<1>9. /\ \A q \in Procs : q # p => /\ driver'[q] = driver[q] /\ opened'[q] = opened[q]
                                   /\ selected'[q] = selected[q] /\ overlap'[q] = overlap[q]
      /\ driver' \in [Procs -> Nat \cup {None}] /\ opened' \in [Procs -> SUBSET Nat]
      /\ selected' \in [Procs -> Units \cup {None}] /\ overlap' \in [Procs -> BOOLEAN]
  <2> USE <1>3, <1>4, <1>6 DEF StatesType, ProgramType
  <2>1. CASE Plain(p, r) \/ FindsNone(p, r) \/ Uses(p, r)
    BY <2>1 DEF Plain, FindsNone, Uses, device
  <2>2. CASE Selects(p, r)
    BY <2>2 DEF Selects
  <2>3. CASE FindLooks(p, r)
    BY <2>3 DEF FindLooks
  <2>4. CASE Finds(p, r)
    BY <2>4 DEF Finds
  <2>5. CASE CloseTakes(p, r) \/ Closes(p, r)
    BY <2>5 DEF CloseTakes, Closes
  <2> QED
    BY <1>1, <2>1, <2>2, <2>3, <2>4, <2>5
<1>10. CallerType' /\ HostType' /\ ProgramType'
  BY <1>2, <1>3, <1>8, <1>9 DEF CallerType, HostType, ProgramType
<1> QED
  BY <1>2, <1>7, <1>8, <1>9, <1>10 DEF HelperType, Stays

\* An operation begun: its caller goes to a call, or first to a start; a selection is
\* remembered, and has still to look.
Begins(t, o, u) ==
  /\ pc[t] = "idle" /\ \A s \in Callers : s # t => Rests(s)
  /\ op'[t] = o /\ what'[t] = o /\ wish'[t] = u /\ arg'[t] = u
  /\ mine'[t] = mine[t] /\ id'[t] = id[t] /\ sentTo'[t] = sentTo[t] /\ got'[t] = got[t]
  /\ pc'[t] \in {"look", "start", "call"} /\ (pc'[t] = "call" => cur # None)
  /\ wants + Cardinality(Started) < MaxSteps /\ wants' = wants + 1
  /\ \/ o = "select" /\ pc'[t] = "look" /\ u \in Units /\ selection' = u /\ crossed' = ~Alone
     \/ o \in {"find", "list", "use", "close"} /\ UNCHANGED <<selection, crossed>>
  /\ UNCHANGED <<proc, cur, pending, nextID, States, shut, ended, overlap, holds>>

\* Each operation asked of the Host begins so.
LEMMA WantsStep ==
  ASSUME HelperType, Stages, Wants
  PROVE  HelperType' /\ \E t \in Callers, o \in Ops \ {"idle"}, u \in Units \cup {None} : Begins(t, o, u)
<1>1. ASSUME NEW t \in Callers, NEW o \in Ops \ {"idle"}, NEW u \in Units \cup {None},
             NEW at \in {"look", "start", "call"}, Want(t, o, u, at),
             at = "call" => cur # None,
             \/ o = "select" /\ at = "look" /\ u \in Units /\ selection' = u /\ crossed' = ~Alone
             \/ o \in {"find", "list", "use", "close"} /\ UNCHANGED <<selection, crossed>>
      PROVE  HelperType' /\ Begins(t, o, u)
  <2>1. CallerType' /\ \A s \in Callers : s # t => Rests(s)
    BY <1>1 DEF Want, Rests, HelperType, CallerType, request, At, Whats
  <2>2. /\ UNCHANGED <<proc, cur, pending, nextID, States, shut, ended, overlap, holds, doubled>>
        /\ wants' = wants + 1
    BY <1>1 DEF Want, program, device, pipes, States
  <2>3. HostType' /\ ProgramType'
    <3>1. selection' \in Units \cup {None}
      BY <1>1 DEF HelperType, HostType
    <3>2. crossed' \in BOOLEAN
      BY <1>1 DEF HelperType, ProgramType, Alone
    <3>3. HostType'
      BY <2>2, <3>1 DEF HelperType, HostType
    <3>4. ProgramType'
      BY <2>2, <3>2 DEF HelperType, ProgramType, States
    <3> QED
      BY <3>3, <3>4
  <2>4. Begins(t, o, u)
    BY <1>1, <2>1, <2>2 DEF Want, Begins, request, HelperType, CallerType
  <2> QED
    BY <2>1, <2>3, <2>4 DEF HelperType
<1>2. Ensured \in {"look", "start", "call"} /\ (Ensured = "call" => cur # None)
  BY DEF Ensured, Running, HelperType, HostType
<1>3. CASE Find
  BY <1>1, <1>2, <1>3 DEF Find, Callers, Ops
<1>4. ASSUME NEW t \in Others, List(t) PROVE HelperType' /\ Begins(t, "list", None)
  BY <1>1, <1>2, <1>4 DEF List, Callers, Ops
<1>5. CASE Use
  BY <1>1, <1>5 DEF Use, Callers, Ops, Stages
<1>6. CASE CloseDriver
  BY <1>1, <1>6 DEF CloseDriver, Callers, Ops, Stages
<1>7. ASSUME NEW t \in Others, NEW u \in Units, Select(t, u)
      PROVE  HelperType' /\ Begins(t, "select", u)
  BY <1>1, <1>2, <1>7 DEF Select, Callers, Ops
<1> QED
  BY <1>3, <1>4, <1>5, <1>6, <1>7 DEF Wants, Callers, Ops

\* ensure's look sends its caller to a call, or first to a start.
Looked(t) ==
  /\ pc[t] = "look" /\ pc' = [pc EXCEPT ![t] = Ensured] /\ pc'[t] \in {"start", "call"}
  /\ pc'[t] = "call" => cur # None
  /\ pc'[t] = "start" => ~Running

\* Each look of a selection ends so.
LEMMA LookStep ==
  ASSUME HelperType, NEW t \in Callers, Look(t)
  PROVE  Looked(t)
  BY DEF Look, Looked, Ensured, Running, HelperType, CallerType, HostType

\* A start: the program is the Host's, and its hello is due.
Begun(t, p) ==
  /\ pc[t] = "start" /\ up[p] = "none" /\ up'[p] = "up"
  /\ \A s \in Callers : s # t => Rests(s)
  /\ \A q \in Procs : q # p => Stays(q)
  /\ pc'[t] = "call" /\ what'[t] = "hello" /\ mine'[t] = p /\ op'[t] = op[t]
  /\ wish'[t] = wish[t] /\ arg'[t] = arg[t]
  /\ id'[t] = id[t] /\ sentTo'[t] = sentTo[t] /\ got'[t] = got[t]
  /\ cut'[p] = cut[p] /\ run'[p] = run[p] /\ driver'[p] = driver[p]
  /\ opened'[p] = opened[p] /\ selected'[p] = selected[p]
  /\ proc' = p /\ cur' = p /\ pending' = {} /\ nextID' = nextID
  /\ wants + Cardinality(Started) < MaxSteps
  /\ UNCHANGED <<selection, shut, ended, crossed, overlap, wants, holds>>

\* Each start of the program begins so.
LEMMA StartStep ==
  ASSUME HelperType, NEW t \in Callers, NEW p \in Procs, Start(t, p)
  PROVE  HelperType' /\ Begun(t, p)
<1>1. CallerType' /\ \A s \in Callers : s # t => Rests(s)
  BY DEF Start, HelperType, CallerType, Rests, request, At, Whats
<1>2. HostType'
  BY DEF Start, HelperType, HostType, CountOn
<1>3. ProgramType' /\ \A q \in Procs : q # p => Stays(q)
  BY DEF Start, HelperType, ProgramType, Stays, device, pipes, bounds, Running
<1> QED
  BY <1>1, <1>2, <1>3
     DEF Start, Begun, CountOn, HelperType, CallerType, ProgramType, request, device, pipes, bounds

\* A program is killed: it crashed, or closeGrace was over.
Killing(p) == Kill(p) /\ UNCHANGED <<caller, host, pipes, history, wants>>

\* The steps, by what they do.
LEMMA StepCases ==
  ASSUME [Next]_vars
  PROVE  \/ UNCHANGED vars \/ Wants \/ CloseHost
         \/ \E t \in Callers, p \in Procs : Start(t, p)
         \/ \E t \in Callers : Look(t) \/ StartFails(t) \/ Register(t) \/ Send(t) \/ Ending(t)
         \/ \E p \in Procs : ReadEnd(p) \/ Drain(p) \/ Dispatch(p) \/ LetsGo(p) \/ Killing(p)
<1>1. ASSUME NEW t \in Callers, Goes(t) \/ HelloTimesOut(t) \/ (Mishap /\ what[t] # "hello" /\ GiveUp(t))
      PROVE  \/ \E p \in Procs : Start(t, p)
             \/ Look(t) \/ StartFails(t) \/ Register(t) \/ Send(t) \/ Ending(t)
  BY <1>1 DEF Goes, HelloTimesOut, Ending
<1>2. ASSUME NEW p \in Procs, ReadEnd(p) \/ Guest(p) \/ KillLate(p) \/ (Mishap /\ Crash(p))
      PROVE  ReadEnd(p) \/ Drain(p) \/ Dispatch(p) \/ LetsGo(p) \/ Killing(p)
  BY <1>2 DEF Guest, KillLate, Crash, Killing, bounds
<1> QED
  BY <1>1, <1>2 DEF Next

-----------------------------------------------------------------------------
(* Types, and the stages of a call. *)

\* Every step keeps the types.
LEMMA TypeStep ==
  ASSUME HelperType, Stages, [Next]_vars
  PROVE  HelperType'
<1> USE DEF HelperType
<1>1. StatesType
  BY DEF ProgramType, StatesType
<1>2. CASE UNCHANGED vars
  BY <1>2 DEF vars, caller, request, host, program, device, pipes, history, bounds,
     CallerType, HostType, ProgramType
<1>3. CASE CloseHost
  BY <1>3, HelperAssumption
     DEF CloseHost, caller, request, program, device, history, CallerType, HostType, ProgramType
<1>4. ASSUME NEW t \in Callers, Look(t) \/ StartFails(t) PROVE HelperType'
  <2>1. CASE Look(t)
    BY <2>1, LookStep DEF Look, Looked, request, host, program, device, pipes, history, bounds,
       CallerType, HostType, ProgramType, At
  <2>2. CASE StartFails(t)
    BY <2>2 DEF StartFails, Idle, request, host, program, device, pipes, history, bounds,
       CallerType, HostType, ProgramType, At, Ops, Whats
  <2> QED
    BY <1>4, <2>1, <2>2
<1>5. ASSUME NEW t \in Callers, Register(t) PROVE HelperType'
  BY <1>5 DEF Register, program, device, pipes, history, bounds, CallerType, HostType, ProgramType, At
<1>6. ASSUME NEW t \in Callers, Send(t) PROVE HelperType'
  <2>1. pc[t] = "send" /\ cur \in Procs
    BY <1>6 DEF Send, Stages, Stage, HostType
  <2>2. CallerType'
    BY <1>6, <2>1 DEF Send, CallerType, At
  <2>3. HostType'
    BY <1>6 DEF Send, host, HostType
  <2>4. [id |-> id[t], what |-> what[t], unit |-> arg[t]] \in Request
    BY <2>1 DEF CallerType, Request, Stages, Stage, Whats, Ops
  <2>5. [req |-> [id |-> id[t], what |-> what[t], unit |-> arg[t]], at |-> "read", has |-> None] \in Doing
    BY <2>4 DEF Doing
  <2>6. ProgramType'
    BY <1>6, <2>5 DEF Send, ProgramType, device, pipes, history, bounds
  <2> QED
    BY <2>2, <2>3, <2>6
<1>7. ASSUME NEW t \in Callers, Ending(t) PROVE HelperType'
  BY <1>7, EndingStep DEF Stages
<1>8. ASSUME NEW p \in Procs, ReadEnd(p) PROVE HelperType'
  BY <1>8 DEF ReadEnd, program, device, history, bounds, CallerType, HostType, ProgramType, Reply
<1>9. ASSUME NEW p \in Procs, Drain(p) \/ LetsGo(p) PROVE HelperType'
  <2>1. CallerType' /\ HostType'
    BY <1>9 DEF Drain, LetsGo, caller, request, host, CallerType, HostType
  <2>2. CASE Drain(p)
    BY <2>1, <2>2 DEF Drain, device, pipes, history, bounds, ProgramType
  <2>3. CASE LetsGo(p)
    BY <2>1, <2>3 DEF LetsGo, pipes, history, bounds, ProgramType
  <2> QED
    BY <1>9, <2>2, <2>3
<1>10. ASSUME NEW p \in Procs, Killing(p) PROVE HelperType'
  BY <1>1, <1>10, KillStep DEF Killing, caller, request, host, pipes, history, CallerType, HostType,
     ProgramType, StatesType
<1> QED
  BY <1>2, <1>3, <1>4, <1>5, <1>6, <1>7, <1>8, <1>9, <1>10, WantsStep, StartStep, DispatchStep,
     StepCases

\* Every step keeps a call's stages in order.
LEMMA StagesStep ==
  ASSUME HelperType, Stages, [Next]_vars
  PROVE  Stages'
<1>1. HelperType'
  BY TypeStep
<1>2. ASSUME NEW s \in Callers, Rests(s), cur # None => cur' # None PROVE Stage(s)'
  BY <1>2 DEF Stages, Stage, Rests
<1>3. CASE UNCHANGED vars
  BY <1>3 DEF vars, caller, request, host, Stages, Stage
<1>4. CASE Wants
  <2>1. PICK t \in Callers, o \in Ops \ {"idle"}, u \in Units \cup {None} : Begins(t, o, u)
    BY <1>4, WantsStep
  <2>2. Stage(t)'
    BY <2>1 DEF Begins, Stages, Stage, Ops
  <2> QED
    BY <1>2, <2>1, <2>2 DEF Begins, Stages
<1>5. CASE CloseHost
  BY <1>5 DEF CloseHost, caller, Stages, Stage
<1>6. ASSUME NEW t \in Callers, NEW p \in Procs, Start(t, p) PROVE Stages'
  <2>1. Begun(t, p) /\ p # None
    BY <1>6, StartStep, HelperAssumption
  <2>2. Stage(t)'
    BY <2>1 DEF Begun, Stages, Stage
  <2> QED
    BY <1>2, <2>1, <2>2 DEF Begun, Stages
<1>7. ASSUME NEW t \in Callers, Look(t) \/ StartFails(t) PROVE Stages'
  <2>1. CASE Look(t)
    BY <2>1, LookStep DEF Look, Looked, host, Stages, Stage, HelperType, CallerType
  <2>2. CASE StartFails(t)
    BY <2>2 DEF StartFails, Idle, host, Stages, Stage, HelperType, CallerType
  <2> QED
    BY <1>7, <2>1, <2>2
<1>8. ASSUME NEW t \in Callers, Register(t) \/ Send(t) PROVE Stages'
  BY <1>8 DEF Register, Send, host, Stages, Stage, HelperType, CallerType
<1>9. ASSUME NEW t \in Callers, Ending(t) PROVE Stages'
  <2>1. /\ AfterRequest(t) /\ cur' = cur /\ (pc[t] = "wait" \/ pc[t] = "send")
    BY <1>9, EndingStep DEF Stages
  <2>2. cur # None /\ op[t] \in Ops \ {"idle"} /\ op'[t] \in {op[t], "idle"}
    BY <2>1 DEF Stages, Stage, AfterRequest, GoesOn, Done, HelperType, CallerType
  <2>3. Stage(t)'
    BY <2>1, <2>2 DEF AfterRequest, GoesOn, Done, Stage, Ops
  <2> QED
    BY <1>2, <2>1, <2>2, <2>3 DEF AfterRequest, Stages
<1>10. ASSUME NEW p \in Procs, ReadEnd(p) \/ Drain(p) \/ Dispatch(p) \/ LetsGo(p) \/ Killing(p)
       PROVE  Stages'
  <2>1. UNCHANGED <<pc, op, what, mine, cur, holds>>
    BY <1>10 DEF ReadEnd, Drain, Dispatch, LetsGo, Killing, caller, host
  <2> QED
    BY <2>1 DEF Stages, Stage
<1> QED
  BY <1>3, <1>4, <1>5, <1>6, <1>7, <1>8, <1>9, <1>10, StepCases

-----------------------------------------------------------------------------
(* The numbers of the requests. *)

\* Each request a program has then it has now: the same number.
Earlier == \A p \in Procs : \A n \in run'[p] : \E r \in run[p] : n.req.id = r.req.id

\* A caller with the request it has, which is not sent or waited for if it is not here.
Same(s) ==
  /\ id'[s] = id[s] /\ sentTo'[s] = sentTo[s] /\ got'[s] = got[s]
  /\ pc'[s] = pc[s] \/ (pc[s] \notin {"send", "wait"} /\ pc'[s] \notin {"send", "wait"})

\* A step that gives no number and takes none.
LEMMA NumbersKept ==
  ASSUME Numbers, Earlier, \A s \in Callers : Same(s), nextID' = nextID
  PROVE  Numbers'
<1>1. ASSUME NEW t \in Callers PROVE Number(t)'
  <2>1. Number(t) /\ Same(t)
    BY DEF Numbers
  <2>2. \A p \in Procs : \A n \in run'[p] : n.req.id = id'[t] => pc'[t] = "wait" /\ sentTo'[t] = p
    BY <2>1 DEF Number, Same, Earlier
  <2> QED
    BY <2>1, <2>2 DEF Number, Same
<1>2. \A p \in Procs : \A r \in run'[p] : r.req.id \in 1 .. nextID'
  BY DEF Numbers, Earlier
<1> QED
  BY <1>1, <1>2 DEF Numbers

\* Every step leaves a number to one call, and to one process.
LEMMA NumbersStep ==
  ASSUME HelperType, Stages, Numbers, [Next]_vars
  PROVE  Numbers'
<1> USE DEF HelperType
<1>1. StatesType
  BY DEF ProgramType, StatesType
<1>2. (\A p \in Procs : run'[p] \subseteq run[p]) => Earlier
  BY DEF Earlier
<1>3. CASE UNCHANGED vars \/ CloseHost
  <2>1. Earlier
    BY <1>2, <1>3 DEF vars, program, CloseHost
  <2>2. nextID' = nextID /\ \A s \in Callers : Same(s)
    BY <1>3 DEF vars, caller, request, host, CloseHost, Same
  <2> QED
    BY <2>1, <2>2, NumbersKept
<1>4. CASE Wants
  <2>1. PICK t \in Callers, o \in Ops \ {"idle"}, u \in Units \cup {None} : Begins(t, o, u)
    BY <1>4, WantsStep
  <2>2. Earlier /\ nextID' = nextID
    BY <1>2, <2>1 DEF Begins, States
  <2>3. \A s \in Callers : Same(s)
    BY <2>1 DEF Begins, Same, Rests
  <2> QED
    BY <2>2, <2>3, NumbersKept
<1>5. ASSUME NEW t \in Callers, NEW p \in Procs, Start(t, p) PROVE Numbers'
  <2>1. Begun(t, p)
    BY <1>5, StartStep
  <2>2. Earlier /\ nextID' = nextID
    BY <1>2, <2>1 DEF Begun, Stays
  <2>3. \A s \in Callers : Same(s)
    BY <2>1 DEF Begun, Same, Rests
  <2> QED
    BY <2>2, <2>3, NumbersKept
<1>6. ASSUME NEW t \in Callers, Look(t) \/ StartFails(t) PROVE Numbers'
  <2>1. Earlier /\ nextID' = nextID
    BY <1>2, <1>6 DEF Look, StartFails, program, host
  <2>2. \A s \in Callers : Same(s)
    BY <1>6, LookStep DEF Look, Looked, StartFails, Idle, request, Same, CallerType
  <2> QED
    BY <2>1, <2>2, NumbersKept
<1>7. ASSUME NEW p \in Procs, Drain(p) \/ LetsGo(p) \/ Killing(p) PROVE Numbers'
  <2>1. Earlier
    BY <1>1, <1>2, <1>7, KillStep DEF Drain, LetsGo, Killing, Stays, Killed
  <2>2. nextID' = nextID /\ \A s \in Callers : Same(s)
    BY <1>7 DEF Drain, LetsGo, Killing, caller, request, host, Same
  <2> QED
    BY <2>1, <2>2, NumbersKept
<1>8. ASSUME NEW t \in Callers, Register(t) PROVE Numbers'
  <2>1. /\ pc[t] = "call" /\ pc'[t] = "send" /\ id'[t] = nextID + 1 /\ nextID' = nextID + 1
        /\ run' = run /\ sentTo' = sentTo /\ got' = got
        /\ \A s \in Callers : s # t => pc'[s] = pc[s] /\ id'[s] = id[s]
    BY <1>8 DEF Register, program, CallerType
  <2>2. nextID \in Nat /\ \A s \in Callers : id[s] # nextID + 1 /\ id[s] \in Nat
    BY DEF HostType, Numbers, Number, CallerType
  <2>3. \A p \in Procs : \A r \in run[p] : r.req.id # nextID + 1 /\ r.req.id \in 1 .. nextID + 1
    BY <2>2 DEF Numbers
  <2>4. Number(t)'
    BY <2>1, <2>2, <2>3 DEF Numbers, Number
  <2>5. ASSUME NEW s \in Callers, s # t PROVE Number(s)'
    BY <2>1, <2>2, <2>3, <2>5 DEF Numbers, Number
  <2> QED
    BY <2>1, <2>3, <2>4, <2>5 DEF Numbers
<1>9. ASSUME NEW t \in Callers, Send(t) PROVE Numbers'
  <2> DEFINE n == [req |-> [id |-> id[t], what |-> what[t], unit |-> arg[t]], at |-> "read", has |-> None]
  <2>1. /\ pc[t] = "send" /\ cur \in Procs /\ pc'[t] = "wait" /\ sentTo'[t] = cur
        /\ id' = id /\ got' = got /\ nextID' = nextID
        /\ \A s \in Callers : s # t => pc'[s] = pc[s] /\ sentTo'[s] = sentTo[s]
    BY <1>9 DEF Send, Stages, Stage, HostType, CallerType, host
  <2>2. /\ \A p \in Procs : p # cur => run'[p] = run[p]
        /\ run'[cur] = run[cur] \cup {n}
    BY <1>9, <2>1 DEF Send, ProgramType
  <2>3. n.req.id = id[t]
    OBVIOUS
  <2> HIDE DEF n
  <2>4. \A p \in Procs : \A r \in run'[p] : r \in run[p] \/ (p = cur /\ r.req.id = id[t])
    BY <2>2, <2>3
  <2>5. /\ id[t] \in 1 .. nextID /\ nextID \in Nat /\ \A s \in Callers : s # t => id[s] # id[t]
        /\ \A p \in Procs : \A r \in run[p] : r.req.id # id[t]
    BY <2>1 DEF Numbers, Number, HostType
  <2>6. Number(t)'
    BY <2>1, <2>4, <2>5 DEF Numbers, Number
  <2>7. ASSUME NEW s \in Callers, s # t PROVE Number(s)'
    BY <2>1, <2>4, <2>5, <2>7 DEF Numbers, Number
  <2> QED
    BY <2>1, <2>4, <2>5, <2>6, <2>7 DEF Numbers
<1>10. ASSUME NEW t \in Callers, Ending(t) PROVE Numbers'
  <2>1. /\ AfterRequest(t) /\ nextID' = nextID
    BY <1>10, EndingStep DEF Stages
  <2>2. pc'[t] \notin {"send", "wait"} /\ id'[t] = 0 /\ got'[t] = None
    BY <2>1 DEF AfterRequest, GoesOn, Done
  <2>3. \A p \in Procs : run'[p] \subseteq run[p]
    <3>1. what[t] = "hello" => mine[t] \in Procs
      BY DEF Stages, Stage
    <3>2. UNCHANGED States \/ (mine[t] \in Procs /\ Kill(mine[t]))
      BY <2>1, <3>1 DEF AfterRequest
    <3> QED
      BY <1>1, <3>2, KillStep DEF States, Stays, Killed
  <2>4. \A p \in Procs : \A r \in run'[p] : r.req.id \in 1 .. nextID /\ r.req.id # 0
    BY <2>3 DEF Numbers, HostType
  <2>5. Number(t)'
    BY <2>1, <2>2, <2>4 DEF Numbers, Number
  <2>6. ASSUME NEW s \in Callers, s # t PROVE Number(s)'
    <3>1. Number(s) /\ Rests(s)
      BY <2>1, <2>6 DEF Numbers, AfterRequest
    <3> QED
      BY <2>1, <2>2, <2>3, <2>6, <3>1 DEF Number, Rests, AfterRequest
  <2> QED
    BY <2>1, <2>4, <2>5, <2>6 DEF Numbers
<1>11. ASSUME NEW p \in Procs, ReadEnd(p) PROVE Numbers'
  <2>1. /\ pc' = pc /\ id' = id /\ sentTo' = sentTo /\ nextID' = nextID /\ run' = run
        /\ \A s \in Callers : got'[s] = got[s] \/ (id[s] \in pending /\ got'[s] = Lost)
    BY <1>11 DEF ReadEnd, program
  <2>2. \A s \in Callers : id[s] \in pending => id[s] # 0
    BY DEF HostType
  <2>3. ASSUME NEW s \in Callers PROVE Number(s)'
    BY <2>1, <2>2 DEF Numbers, Number
  <2> QED
    BY <2>1, <2>3 DEF Numbers
<1>12. ASSUME NEW p \in Procs, Dispatch(p) PROVE Numbers'
  <2>1. PICK r \in run[p] : Serves(p, r)
    BY <1>12, DispatchStep
  <2>2. /\ \A q \in Procs : q # p => run'[q] = run[q]
        /\ UNCHANGED <<pc, id, sentTo, nextID>>
    BY <1>12, DispatchStep DEF Stays
  <2>3. CASE \E val \in Nat \cup {None} : Answer(p, r, val)
    <3>1. PICK val \in Nat \cup {None} : Answer(p, r, val)
      BY <2>3
    <3>2. run'[p] \subseteq run[p]
      BY <3>1 DEF Answer, ProgramType
    <3>3. \A s \in Callers :
            \/ got'[s] = got[s]
            \/ id[s] = r.req.id /\ got'[s] = [id |-> r.req.id, proc |-> p, val |-> val]
      BY <3>1 DEF Answer
    <3>4. ASSUME NEW s \in Callers PROVE Number(s)'
      BY <2>1, <2>2, <3>2, <3>3 DEF Numbers, Number
    <3> QED
      BY <2>2, <3>2, <3>4 DEF Numbers
  <2>4. CASE \E n \in Doing : n.req = r.req /\ Becomes(p, r, n)
    <3>1. Earlier
      BY <2>1, <2>2, <2>4 DEF Becomes, Earlier, ProgramType
    <3>2. \A s \in Callers : Same(s)
      BY <2>2, <2>4 DEF Becomes, Same
    <3> QED
      BY <2>2, <3>1, <3>2, NumbersKept
  <2> QED
    BY <2>1, <2>3, <2>4 DEF Serves
<1> QED
  BY <1>3, <1>4, <1>5, <1>6, <1>7, <1>8, <1>9, <1>10, <1>11, <1>12, StepCases

-----------------------------------------------------------------------------
(* The devices. *)

\* What is left as it is, or killed, or only told of the end of its stdin, or started,
\* stays sound.
LEMMA DeviceKept ==
  ASSUME StatesType, NEW p \in Procs, Device(p), overlap'[p] = overlap[p],
         \/ Stays(p)
         \/ Killed(p)
         \/ /\ up[p] \in {"none", "up"} /\ up'[p] \in {"up", "drain"} /\ cut'[p] = cut[p]
            /\ run'[p] = run[p] /\ driver'[p] = driver[p] /\ opened'[p] = opened[p]
  PROVE  Device(p)'
  BY DEF Device, Stays, Killed, StatesType

\* What is opened by a find is the driver's, and a driver let go is a close's to close.
LEMMA DispatchedDevice ==
  ASSUME HelperType, NEW p \in Procs, Device(p), Dispatch(p)
  PROVE  Device(p)'
<1> USE DEF HelperType, ProgramType
<1>1. PICK r \in run[p] :
        \/ Plain(p, r) \/ Selects(p, r) \/ FindLooks(p, r) \/ Finds(p, r) \/ FindsNone(p, r)
        \/ Uses(p, r) \/ CloseTakes(p, r) \/ Closes(p, r)
  BY DEF Dispatch
<1>2. up[p] \in {"up", "drain"} /\ up' = up /\ cut' = cut
  BY DEF Dispatch
<1>3. r \in Doing /\ r.req.id \in Nat /\ r.at \in {"read", "looks", "closes"} /\ driver[p] \in Nat \cup {None}
  BY DEF Doing, Request
<1>4. (\E val : Answer(p, r, val)) => run'[p] = run[p] \ {r}
  BY DEF Answer
<1>5. CASE /\ \E val : Answer(p, r, val) /\ r.at # "closes"
           /\ driver' = driver /\ opened' = opened /\ overlap' = overlap
  BY <1>2, <1>4, <1>5 DEF Device
<1>6. CASE Plain(p, r) \/ Selects(p, r) \/ FindsNone(p, r) \/ Uses(p, r)
  <2>1. r.at # "closes"
    BY <1>6 DEF Plain, Selects, FindsNone, Uses, Device
  <2>2. /\ \E val : Answer(p, r, val)
        /\ driver' = driver /\ opened' = opened /\ overlap' = overlap
    BY <1>6 DEF Plain, Selects, FindsNone, Uses, device
  <2> QED
    BY <1>5, <2>1, <2>2
<1>7. CASE FindLooks(p, r)
  <2> DEFINE n == [r EXCEPT !.at = "looks"]
  <2>1. n.at = "looks" /\ n.req = r.req /\ r.at = "read" /\ r.req.what = "find"
    BY <1>3, <1>7 DEF FindLooks, Doing
  <2>2. /\ run'[p] = (run[p] \ {r}) \cup {n} /\ driver'[p] = None
        /\ opened'[p] = opened[p] \ {driver[p]}
        /\ overlap'[p] = (overlap[p] \/ \E q \in run[p] : q.at = "looks")
    BY <1>7 DEF FindLooks, Becomes
  <2> HIDE DEF n
  <2>3. ~overlap'[p] => ~overlap[p] /\ \A q \in run[p] : q.at # "looks"
    BY <2>2
  <2>4. \A q \in run'[p] : q = n \/ (q \in run[p] /\ q # r)
    BY <2>2
  <2>5. \A q \in run[p] : q.at = "closes" => q \in run'[p]
    BY <2>1, <2>2
  <2>6. \A d \in opened'[p] : d \in opened[p] /\ d # driver[p]
    BY <2>2
  <2> QED
    BY <1>2, <2>1, <2>2, <2>3, <2>4, <2>5, <2>6 DEF Device
<1>8. CASE Finds(p, r)
  <2>1. /\ run'[p] = run[p] \ {r} /\ driver'[p] = r.req.id /\ opened'[p] = opened[p] \cup {r.req.id}
        /\ overlap' = overlap /\ r.at = "looks"
    BY <1>4, <1>8 DEF Finds
  <2>2. ~overlap[p] => driver[p] = None /\ \A q \in run'[p] : q.at # "looks"
    BY <2>1 DEF Device
  <2>3. None \notin opened[p]
    BY HelperAssumption
  <2> QED
    BY <1>2, <2>1, <2>2, <2>3 DEF Device
<1>9. CASE CloseTakes(p, r)
  <2> DEFINE n == [r EXCEPT !.at = "closes", !.has = driver[p]]
  <2>1. n.at = "closes" /\ n.req = r.req /\ n.has = driver[p] /\ r.at = "read" /\ r.req.what = "close"
    BY <1>3, <1>9 DEF CloseTakes, Doing
  <2>2. /\ run'[p] = (run[p] \ {r}) \cup {n} /\ driver'[p] = None
        /\ opened' = opened /\ overlap' = overlap
    BY <1>9 DEF CloseTakes, Becomes
  <2> HIDE DEF n
  <2>3. \A q \in run'[p] : q = n \/ (q \in run[p] /\ q # r)
    BY <2>2
  <2>4. n \in run'[p] /\ \A q \in run[p] : q.at = "closes" => q \in run'[p]
    BY <2>1, <2>2
  <2> QED
    BY <1>2, <2>1, <2>2, <2>3, <2>4 DEF Device
<1>10. CASE Closes(p, r)
  <2>1. /\ run'[p] = run[p] \ {r} /\ driver' = driver /\ overlap' = overlap
        /\ opened'[p] = opened[p] \ {r.has} /\ r.at = "closes"
    BY <1>4, <1>10 DEF Closes
  <2> QED
    BY <1>2, <2>1 DEF Device
<1> QED
  BY <1>1, <1>6, <1>7, <1>8, <1>9, <1>10

\* Every step leaves each program's devices sound.
LEMMA DeviceStep ==
  ASSUME HelperType, Stages, \A p \in Procs : Device(p), [Next]_vars
  PROVE  \A p \in Procs : Device(p)'
<1> USE DEF HelperType
<1>1. StatesType
  BY DEF ProgramType, StatesType
<1>2. CASE UNCHANGED vars \/ CloseHost \/ \E t \in Callers : Look(t) \/ StartFails(t) \/ Register(t)
  BY <1>1, <1>2, DeviceKept
     DEF vars, program, device, history, CloseHost, Look, StartFails, Register, Stays
<1>3. CASE Wants
  BY <1>1, <1>3, WantsStep, DeviceKept DEF Begins, States, Stays
<1>4. ASSUME NEW t \in Callers, NEW p \in Procs, Start(t, p) PROVE \A q \in Procs : Device(q)'
  <2>1. Begun(t, p)
    BY <1>4, StartStep
  <2> QED
    BY <1>1, <2>1, DeviceKept DEF Begun
<1>5. ASSUME NEW t \in Callers, Send(t) PROVE \A q \in Procs : Device(q)'
  <2> DEFINE n == [req |-> [id |-> id[t], what |-> what[t], unit |-> arg[t]], at |-> "read", has |-> None]
  <2>1. n.at = "read"
    OBVIOUS
  <2>2. PICK c \in Procs : c = cur
    BY <1>5 DEF Send, Stages, Stage, HostType
  <2>3. up[c] = "up" /\ run'[c] = run[c] \cup {n}
    BY <1>5, <2>2 DEF Send, ProgramType
  <2> HIDE DEF n
  <2>4. /\ \A q \in Procs : q # c => run'[q] = run[q]
        /\ up' = up /\ cut' = cut /\ overlap' = overlap /\ driver' = driver /\ opened' = opened
        /\ selected' = selected
    BY <1>5, <2>2 DEF Send, ProgramType, device, history
  <2>5. \A q \in run'[c] : q \in run[c] \/ q.at = "read"
    BY <2>1, <2>3
  <2>6. Device(c)'
    BY <2>3, <2>4, <2>5 DEF Device
  <2>7. ASSUME NEW q \in Procs, q # c PROVE Device(q)'
    BY <1>1, <2>4, <2>7, DeviceKept DEF Stays
  <2> QED
    BY <2>6, <2>7
<1>6. ASSUME NEW t \in Callers, Ending(t) PROVE \A q \in Procs : Device(q)'
  <2>1. AfterRequest(t) /\ overlap' = overlap /\ (what[t] = "hello" => mine[t] \in Procs)
    BY <1>6, EndingStep DEF Stages, Stage
  <2>2. UNCHANGED States \/ (mine[t] \in Procs /\ Kill(mine[t]))
    BY <2>1 DEF AfterRequest
  <2>3. \A q \in Procs : Stays(q) \/ Killed(q)
    BY <1>1, <2>2, KillStep DEF States, Stays
  <2> QED
    BY <1>1, <2>1, <2>3, DeviceKept
<1>7. ASSUME NEW p \in Procs, ReadEnd(p) \/ Drain(p) \/ Killing(p) PROVE \A q \in Procs : Device(q)'
  <2>1. CASE ReadEnd(p)
    BY <1>1, <2>1, DeviceKept DEF ReadEnd, program, device, history, Stays
  <2>2. CASE Drain(p)
    <3>1. \A q \in Procs : q # p => Stays(q)
      BY <1>1, <2>2 DEF Drain, device, Stays, StatesType
    <3>2. /\ up[p] = "up" /\ up'[p] = "drain" /\ cut'[p] = cut[p] /\ overlap' = overlap
          /\ run'[p] = run[p] /\ driver'[p] = driver[p] /\ opened'[p] = opened[p]
      BY <1>1, <2>2 DEF Drain, device, history, StatesType
    <3> QED
      BY <1>1, <3>1, <3>2, DeviceKept
  <2>3. CASE Killing(p)
    BY <1>1, <2>3, KillStep, DeviceKept DEF Killing, history
  <2> QED
    BY <1>7, <2>1, <2>2, <2>3
<1>8. ASSUME NEW p \in Procs, Dispatch(p) PROVE \A q \in Procs : Device(q)'
  BY <1>1, <1>8, DispatchStep, DispatchedDevice, DeviceKept
<1>9. ASSUME NEW p \in Procs, LetsGo(p) PROVE \A q \in Procs : Device(q)'
  <2>1. /\ \A q \in Procs : q # p => Stays(q)
        /\ up'[p] = "gone" /\ run[p] = {} /\ run' = run /\ cut' = cut /\ overlap' = overlap
        /\ opened'[p] = opened[p] \ {driver[p]}
    BY <1>1, <1>9 DEF LetsGo, Finished, Stays, StatesType, history
  <2>2. Device(p)'
    BY <2>1 DEF Device
  <2> QED
    BY <1>1, <2>1, <2>2, DeviceKept
<1> QED
  BY <1>2, <1>3, <1>4, <1>5, <1>6, <1>7, <1>8, <1>9, StepCases

\* A caller's request is sent no more, or not yet, or is the next.
Sends(s) == pc'[s] = "send" => (pc[s] = "send" /\ id'[s] = id[s]) \/ id'[s] = nextID + 1

\* A program that is left as it is, or killed, or started, keeps its driver.
LEMMA OwnedKept ==
  ASSUME HelperType, NEW p \in Procs, Owned(p), \A s \in Callers : Sends(s),
         nextID' \in {nextID, nextID + 1},
         \/ Killed(p)
         \/ run'[p] = run[p] /\ driver'[p] = driver[p] /\ opened'[p] = opened[p]
  PROVE  Owned(p)'
<1>1. nextID \in Nat
  BY DEF HelperType, HostType
<1>2. ASSUME NEW d, Spent(p, d), run'[p] = run[p] PROVE Spent(p, d)'
  <2>1. d \in 1 .. nextID'
    BY <1>1, <1>2 DEF Spent
  <2>2. d # nextID + 1
    BY <1>1, <1>2 DEF Spent
  <2> QED
    BY <1>2, <2>1, <2>2 DEF Spent, Sends
<1>3. CASE Killed(p)
  BY <1>3 DEF Killed, Owned
<1>4. CASE run'[p] = run[p] /\ driver'[p] = driver[p] /\ opened'[p] = opened[p]
  BY <1>2, <1>4 DEF Owned
<1> QED
  BY <1>3, <1>4

\* What is served is a driver's or a close's, and never both.
LEMMA DispatchedOwned ==
  ASSUME HelperType, Numbers, NEW p \in Procs, Device(p), Owned(p), Dispatch(p)
  PROVE  Owned(p)'
<1> USE DEF HelperType, ProgramType
<1>1. PICK r \in run[p] :
        \/ Plain(p, r) \/ Selects(p, r) \/ FindLooks(p, r) \/ Finds(p, r) \/ FindsNone(p, r)
        \/ Uses(p, r) \/ CloseTakes(p, r) \/ Closes(p, r)
  BY DEF Dispatch
<1>2. UNCHANGED <<pc, id, nextID>>
  BY DEF Dispatch
<1>3. /\ r \in Doing /\ r.req.id \in Nat /\ r.req.id \in 1 .. nextID
      /\ driver[p] \in Nat \cup {None}
  BY DEF Doing, Request, Numbers
<1>4. (\E val : Answer(p, r, val)) => run'[p] = run[p] \ {r}
  BY DEF Answer
<1>5. ASSUME NEW d, Spent(p, d), \A n \in run'[p] : \E q \in run[p] : n.req.id = q.req.id
      PROVE  Spent(p, d)'
  BY <1>2, <1>5 DEF Spent
<1>6. CASE Plain(p, r) \/ Selects(p, r) \/ FindsNone(p, r) \/ Uses(p, r)
  <2>1. run'[p] = run[p] \ {r} /\ driver' = driver /\ opened' = opened
    BY <1>4, <1>6 DEF Plain, Selects, FindsNone, Uses, device
  <2> QED
    BY <1>5, <2>1 DEF Owned
<1>7. CASE FindLooks(p, r)
  <2> DEFINE n == [r EXCEPT !.at = "looks"]
  <2>1. n.at = "looks" /\ n.req = r.req
    BY <1>3 DEF Doing
  <2>2. run'[p] = (run[p] \ {r}) \cup {n} /\ driver'[p] = None
    BY <1>7 DEF FindLooks, Becomes
  <2> HIDE DEF n
  <2>3. \A q \in run'[p] : q = n \/ (q \in run[p] /\ q # r)
    BY <2>2
  <2>4. \A d : Spent(p, d) => Spent(p, d)'
    BY <1>5, <2>1, <2>3
  <2>5. \A q \in run[p] : q # r => q.req.id # n.req.id
    BY <2>1 DEF Owned
  <2> QED
    BY <2>1, <2>2, <2>3, <2>4, <2>5, HelperAssumption DEF Owned, Spent
<1>8. CASE Finds(p, r)
  <2>1. /\ run'[p] = run[p] \ {r} /\ driver'[p] = r.req.id /\ opened'[p] = opened[p] \cup {r.req.id}
        /\ r.at = "looks"
    BY <1>4, <1>8 DEF Finds
  <2>2. \A q \in run'[p] : q \in run[p] /\ q.req.id # r.req.id
    BY <2>1 DEF Owned
  <2>3. \A t \in Callers : pc[t] = "send" => id[t] # r.req.id
    BY DEF Numbers, Number
  <2>4. Spent(p, r.req.id)'
    BY <1>2, <1>3, <2>2, <2>3 DEF Spent
  <2>5. \A q \in run'[p] : q.at = "closes" /\ q.has # None => Spent(p, q.has)' /\ q.has # r.req.id
    BY <1>5, <2>2 DEF Owned, Spent
  <2> QED
    BY <2>1, <2>2, <2>4, <2>5 DEF Owned
<1>9. CASE CloseTakes(p, r)
  <2> DEFINE n == [r EXCEPT !.at = "closes", !.has = driver[p]]
  <2>1. n.req = r.req /\ n.has = driver[p]
    BY <1>3 DEF Doing
  <2>2. run'[p] = (run[p] \ {r}) \cup {n} /\ driver'[p] = None
    BY <1>9 DEF CloseTakes, Becomes
  <2> HIDE DEF n
  <2>3. \A q \in run'[p] : q = n \/ (q \in run[p] /\ q # r)
    BY <2>2
  <2>4. \A d : Spent(p, d) => Spent(p, d)'
    BY <1>5, <2>1, <2>3
  <2>5. \A q \in run[p] : q # r => q.req.id # n.req.id
    BY <2>1 DEF Owned
  <2>6. \A q \in run'[p] : q.at = "closes" /\ q.has # None => Spent(p, q.has)
    BY <2>1, <2>3 DEF Owned
  <2>7. \A q, s \in run'[p] : q.req.id = s.req.id => q = s
    BY <2>3, <2>5 DEF Owned
  <2> QED
    BY <2>2, <2>4, <2>6, <2>7 DEF Owned
<1>10. CASE Closes(p, r)
  <2>1. /\ run'[p] = run[p] \ {r} /\ driver' = driver
        /\ opened'[p] = opened[p] \ {r.has} /\ r.at = "closes"
    BY <1>4, <1>10 DEF Closes
  <2>2. driver[p] # None => driver[p] # r.has
    BY <2>1 DEF Owned
  <2> QED
    BY <1>5, <2>1, <2>2 DEF Owned
<1> QED
  BY <1>1, <1>6, <1>7, <1>8, <1>9, <1>10

\* Every step leaves each program the driver it has open.
LEMMA OwnedStep ==
  ASSUME HelperType, Stages, Numbers, \A p \in Procs : Device(p) /\ Owned(p), [Next]_vars
  PROVE  \A p \in Procs : Owned(p)'
<1> USE DEF HelperType
<1>1. StatesType /\ nextID \in Nat
  BY DEF ProgramType, StatesType, HostType
<1>2. CASE UNCHANGED vars \/ CloseHost
  <2>1. UNCHANGED <<pc, id, nextID, run, driver, opened>>
    BY <1>2 DEF vars, caller, request, host, program, device, CloseHost
  <2> QED
    BY <2>1, OwnedKept DEF Sends
<1>3. CASE Wants
  <2>1. PICK t \in Callers, o \in Ops \ {"idle"}, u \in Units \cup {None} : Begins(t, o, u)
    BY <1>3, WantsStep
  <2>2. \A s \in Callers : Sends(s)
    BY <2>1 DEF Begins, Sends, Rests
  <2> QED
    BY <2>1, <2>2, OwnedKept DEF Begins, States
<1>4. ASSUME NEW t \in Callers, NEW p \in Procs, Start(t, p) PROVE \A q \in Procs : Owned(q)'
  <2>1. Begun(t, p)
    BY <1>4, StartStep
  <2>2. \A s \in Callers : Sends(s)
    BY <2>1 DEF Begun, Sends, Rests
  <2> QED
    BY <2>1, <2>2, OwnedKept DEF Begun, Stays
<1>5. ASSUME NEW t \in Callers, Look(t) \/ StartFails(t) \/ Register(t) PROVE \A q \in Procs : Owned(q)'
  <2>1. /\ UNCHANGED <<run, driver, opened>> /\ nextID' \in {nextID, nextID + 1}
        /\ \A s \in Callers : Sends(s)
    BY <1>5, LookStep
       DEF Look, Looked, StartFails, Register, Idle, request, host, program, device, Sends, CallerType
  <2> QED
    BY <2>1, OwnedKept
<1>6. ASSUME NEW t \in Callers, Send(t) PROVE \A q \in Procs : Owned(q)'
  <2> DEFINE n == [req |-> [id |-> id[t], what |-> what[t], unit |-> arg[t]], at |-> "read", has |-> None]
  <2>1. n.at = "read" /\ n.req.id = id[t]
    OBVIOUS
  <2>2. PICK c \in Procs : c = cur
    BY <1>6 DEF Send, Stages, Stage, HostType
  <2>3. pc[t] = "send" /\ run'[c] = run[c] \cup {n}
    BY <1>6, <2>2 DEF Send, ProgramType
  <2> HIDE DEF n
  <2>4. /\ \A q \in Procs : q # c => run'[q] = run[q]
        /\ UNCHANGED <<id, nextID, driver, opened>>
        /\ \A s \in Callers : pc'[s] = "send" => pc[s] = "send"
    BY <1>6, <2>2 DEF Send, ProgramType, CallerType, host, device
  <2>5. ASSUME NEW q \in Procs, q # c PROVE Owned(q)'
    BY <2>4, <2>5, OwnedKept DEF Sends
  <2>6. \A q \in run'[c] : q \in run[c] \/ q = n
    BY <2>3
  <2>7. ASSUME NEW d, Spent(c, d) PROVE Spent(c, d)'
    BY <2>1, <2>3, <2>4, <2>6, <2>7 DEF Spent
  <2>8. \A q \in run[c] : q.req.id # n.req.id
    BY <2>1, <2>3 DEF Numbers, Number
  <2>9. Owned(c)'
    BY <2>1, <2>4, <2>6, <2>7, <2>8 DEF Owned
  <2> QED
    BY <2>5, <2>9
<1>7. ASSUME NEW t \in Callers, Ending(t) PROVE \A q \in Procs : Owned(q)'
  <2>1. AfterRequest(t) /\ nextID' = nextID /\ (what[t] = "hello" => mine[t] \in Procs)
    BY <1>7, EndingStep DEF Stages, Stage
  <2>2. UNCHANGED States \/ (mine[t] \in Procs /\ Kill(mine[t]))
    BY <2>1 DEF AfterRequest
  <2>3. \A q \in Procs : Stays(q) \/ Killed(q)
    BY <1>1, <2>2, KillStep DEF States, Stays
  <2>4. \A s \in Callers : Sends(s)
    BY <2>1 DEF AfterRequest, GoesOn, Done, Rests, Sends
  <2> QED
    BY <2>1, <2>3, <2>4, OwnedKept DEF Stays
<1>8. ASSUME NEW p \in Procs, ReadEnd(p) \/ Drain(p) \/ Killing(p) PROVE \A q \in Procs : Owned(q)'
  <2>1. UNCHANGED <<pc, id, nextID>>
    BY <1>8 DEF ReadEnd, Drain, Killing, caller, request, host
  <2>2. \A q \in Procs :
          Killed(q) \/ (run'[q] = run[q] /\ driver'[q] = driver[q] /\ opened'[q] = opened[q])
    BY <1>1, <1>8, KillStep DEF ReadEnd, Drain, Killing, program, device, Stays
  <2> QED
    BY <2>1, <2>2, OwnedKept DEF Sends
<1>9. ASSUME NEW p \in Procs, Dispatch(p) PROVE \A q \in Procs : Owned(q)'
  <2>1. /\ \A q \in Procs : q # p => Stays(q)
        /\ UNCHANGED <<pc, id, nextID>>
    BY <1>9, DispatchStep
  <2>2. Owned(p)'
    BY <1>9, DispatchedOwned
  <2> QED
    BY <2>1, <2>2, OwnedKept DEF Sends, Stays
<1>10. ASSUME NEW p \in Procs, LetsGo(p) PROVE \A q \in Procs : Owned(q)'
  <2>1. /\ UNCHANGED <<pc, id, nextID, run>> /\ run[p] = {} /\ driver'[p] = None
        /\ \A q \in Procs : q # p => driver'[q] = driver[q] /\ opened'[q] = opened[q]
    BY <1>1, <1>10 DEF LetsGo, Finished, StatesType, caller, request, host
  <2>2. Owned(p)'
    BY <2>1 DEF Owned
  <2> QED
    BY <2>1, <2>2, OwnedKept DEF Sends
<1> QED
  BY <1>2, <1>3, <1>4, <1>5, <1>6, <1>7, <1>8, <1>9, <1>10, StepCases

\* What a holder has is what a find answered.
LEMMA HoldsStep ==
  ASSUME HelperType, Stages, holds \in Nat \cup {None}, [Next]_vars
  PROVE  holds' \in Nat \cup {None}
<1>1. ASSUME NEW t \in Callers, Ending(t) PROVE holds' \in Nat \cup {None}
  <2>1. PICK ok, val : Over(t, ok, val) /\ (ok => val \in Nat)
    <3>1. Hear(t) /\ got[t].val # None => got[t].val \in Nat
      BY DEF Hear, HelperType, CallerType, Reply, Lost
    <3> QED
      BY <1>1, <3>1 DEF Ending, SendFails, Hear, HearExit, GiveUp
  <2>2. ASSUME Finish(t, ok, val) \/ Finish(t, FALSE, None) PROVE holds' \in Nat \cup {None}
    BY <2>1, <2>2 DEF Finish
  <2>3. \A w, u : GoOn(t, w, u) => holds' = holds
    BY DEF GoOn
  <2> QED
    BY <2>1, <2>2, <2>3 DEF Over, ThenRepeat
<1>2. CASE UNCHANGED vars \/ CloseHost
  BY <1>2 DEF vars, caller, CloseHost
<1>3. CASE Wants
  BY <1>3, WantsStep DEF Begins
<1>4. ASSUME NEW t \in Callers, NEW p \in Procs, Start(t, p) PROVE holds' = holds
  BY <1>4 DEF Start
<1>5. ASSUME NEW t \in Callers, Look(t) \/ StartFails(t) \/ Register(t) \/ Send(t) PROVE holds' = holds
  BY <1>5 DEF Look, StartFails, Register, Send
<1>6. ASSUME NEW p \in Procs, ReadEnd(p) \/ Drain(p) \/ Dispatch(p) \/ LetsGo(p) \/ Killing(p)
      PROVE  holds' = holds
  BY <1>6 DEF ReadEnd, Drain, Dispatch, LetsGo, Killing, caller
<1> QED
  BY <1>1, <1>2, <1>3, <1>4, <1>5, <1>6, StepCases

-----------------------------------------------------------------------------
(* The selection. *)

\* A caller that asks for what it did, and one that had nothing asked, or crosses.
Keeps(s) ==
  /\ op'[s] = op[s] /\ what'[s] = what[s] /\ id'[s] = id[s]
  /\ wish'[s] = wish[s] /\ arg'[s] = arg[s]
Turns(s) ==
  /\ ~crossed' /\ op'[s] = "select" => wish'[s] = selection
  /\ ~crossed' /\ what'[s] \in Asks => arg'[s] = selection
  /\ ~crossed' => \A p \in Procs : \A r \in run[p] : r.req.what \in Asks => r.req.id # id[s]

\* Each request a program has then it has now.
Former == \A p \in Procs : \A n \in run'[p] : \E r \in run[p] : n.req = r.req

\* A step that sends no request, and leaves the selection.
LEMMA AskedKept ==
  ASSUME Asked, Former, \A s \in Callers : Keeps(s) \/ Turns(s), selection' = selection,
         crossed => crossed'
  PROVE  Asked'
<1>1. ~crossed' => \A t \in Callers : op'[t] = "select" => wish'[t] = selection'
  BY DEF Asked, Keeps, Turns
<1>2. ~crossed' => \A t \in Callers : what'[t] \in Asks => arg'[t] = selection'
  BY DEF Asked, Keeps, Turns
<1>3. ASSUME ~crossed', NEW p \in Procs, NEW n \in run'[p], n.req.what \in Asks
      PROVE  \E t \in Callers : id'[t] = n.req.id /\ what'[t] = n.req.what /\ arg'[t] = n.req.unit
  <2>1. PICK r \in run[p] : n.req = r.req
    BY DEF Former
  <2>2. PICK t \in Callers : id[t] = r.req.id /\ what[t] = r.req.what /\ arg[t] = r.req.unit
    BY <1>3, <2>1 DEF Asked
  <2>3. Keeps(t)
    BY <1>3, <2>1, <2>2 DEF Turns
  <2> QED
    BY <2>1, <2>2, <2>3 DEF Keeps
<1> QED
  BY <1>1, <1>2, <1>3 DEF Asked

\* Who asks owns what it asked for: the number is its.
LEMMA OwnerAsks ==
  ASSUME Asked, Numbers, HostType, ~crossed, NEW t \in Callers, NEW p \in Procs, NEW r \in run[p],
         r.req.what \in Asks
  PROVE  /\ r.req.unit = selection /\ r.req.id # 0
         /\ r.req.id = id[t] => what[t] \in Asks
<1>1. PICK s \in Callers : id[s] = r.req.id /\ what[s] = r.req.what /\ arg[s] = r.req.unit
  BY DEF Asked
<1>2. r.req.id # 0
  BY DEF Numbers, HostType
<1>3. arg[s] = selection
  BY <1>1 DEF Asked
<1>4. r.req.id = id[t] => s = t
  BY <1>1, <1>2 DEF Numbers, Number
<1> QED
  BY <1>1, <1>2, <1>3, <1>4

\* Every step: a selection that meets another, or the repeat of one, or outlives its
\* caller, has crossed it, until one is made alone.
LEMMA AskedStep ==
  ASSUME HelperType, Stages, Numbers, Asked, [Next]_vars
  PROVE  Asked'
<1> USE DEF HelperType
<1>1. StatesType
  BY DEF ProgramType, StatesType
<1>2. (\A p \in Procs : run'[p] \subseteq run[p]) => Former
  BY DEF Former
<1>3. \A t \in Callers : id[t] = 0 =>
        (~crossed => \A p \in Procs : \A r \in run[p] : r.req.what \in Asks => r.req.id # id[t])
  BY OwnerAsks
<1>4. CASE UNCHANGED vars \/ CloseHost \/ \E p \in Procs : ReadEnd(p) \/ Drain(p) \/ LetsGo(p) \/ Killing(p)
  <2>1. Former
    BY <1>1, <1>2, <1>4, KillStep
       DEF vars, program, CloseHost, ReadEnd, Drain, LetsGo, Killing, Stays, Killed
  <2>2. selection' = selection /\ crossed' = crossed /\ \A s \in Callers : Keeps(s)
    BY <1>4 DEF vars, caller, request, host, history, CloseHost, ReadEnd, Drain, LetsGo, Killing, Keeps
  <2> QED
    BY <2>1, <2>2, AskedKept
<1>5. CASE Wants
  <2>1. PICK t \in Callers, o \in Ops \ {"idle"}, u \in Units \cup {None} : Begins(t, o, u)
    BY <1>5, WantsStep
  <2>2. id[t] = 0 /\ what[t] = "idle" /\ (\A s \in Callers : s # t => Keeps(s)) /\ run' = run
    BY <2>1 DEF Begins, Rests, Keeps, Numbers, Number, Stages, Stage, States
  <2>3. CASE o # "select"
    <3>1. selection' = selection /\ crossed' = crossed /\ op'[t] # "select" /\ what'[t] \notin Asks
      BY <2>1, <2>3 DEF Begins, Asks
    <3>2. Turns(t)
      BY <1>3, <2>2, <3>1 DEF Turns
    <3> QED
      BY <1>2, <2>2, <3>1, <3>2, AskedKept
  <2>4. CASE o = "select"
    <3>1. /\ selection' = u /\ op'[t] = "select" /\ what'[t] = "select"
          /\ wish'[t] = u /\ arg'[t] = u /\ crossed' = ~Alone
      BY <2>1, <2>4 DEF Begins
    <3>2. ~crossed' => \A s \in Callers : op[s] # "select" /\ what[s] \notin Asks
      BY <3>1 DEF Alone, Stages, Stage, Asks
    <3>3. ~crossed' => \A s \in Callers : op'[s] = "select" => wish'[s] = selection'
      BY <2>2, <3>1, <3>2 DEF Keeps
    <3>4. ~crossed' => \A s \in Callers : what'[s] \in Asks => arg'[s] = selection'
      BY <2>2, <3>1, <3>2 DEF Keeps
    <3>5. ~crossed' => \A p \in Procs : \A r \in run'[p] : r.req.what \notin Asks
      BY <2>2, <3>1 DEF Alone, Asks
    <3> QED
      BY <3>3, <3>4, <3>5 DEF Asked
  <2> QED
    BY <2>3, <2>4
<1>6. ASSUME NEW t \in Callers, NEW p \in Procs, Start(t, p) PROVE Asked'
  <2>1. Begun(t, p)
    BY <1>6, StartStep
  <2>2. Former /\ selection' = selection /\ crossed' = crossed
    BY <1>2, <2>1 DEF Begun, Stays
  <2>3. id[t] = 0 /\ \A s \in Callers : s # t => Keeps(s)
    BY <2>1 DEF Begun, Rests, Keeps, Numbers, Number
  <2>4. Turns(t)
    BY <1>3, <2>1, <2>2, <2>3 DEF Begun, Turns, Asked, Asks
  <2> QED
    BY <2>2, <2>3, <2>4, AskedKept
<1>7. ASSUME NEW t \in Callers, Look(t) \/ StartFails(t) \/ Register(t) PROVE Asked'
  <2>1. Former /\ selection' = selection /\ crossed' = crossed
    BY <1>2, <1>7 DEF Look, StartFails, Register, program, host, history
  <2>2. id[t] = 0 /\ \A s \in Callers : s # t => Keeps(s)
    BY <1>7 DEF Look, StartFails, Register, Idle, request, Keeps, Numbers, Number, CallerType
  <2>3. (op'[t] = "idle" /\ what'[t] = "idle") \/ (op'[t] = op[t] /\ what'[t] = what[t] /\ wish'[t] = wish[t] /\ arg'[t] = arg[t])
    BY <1>7 DEF Look, StartFails, Register, Idle, CallerType
  <2>4. Turns(t)
    BY <1>3, <2>1, <2>2, <2>3 DEF Turns, Asked, Asks
  <2> QED
    BY <2>1, <2>2, <2>4, AskedKept
<1>8. ASSUME NEW t \in Callers, Send(t) PROVE Asked'
  <2> DEFINE n == [req |-> [id |-> id[t], what |-> what[t], unit |-> arg[t]], at |-> "read", has |-> None]
  <2>1. n.req.id = id[t] /\ n.req.what = what[t] /\ n.req.unit = arg[t]
    OBVIOUS
  <2>2. \A p \in Procs : \A r \in run'[p] : r \in run[p] \/ r = n
    BY <1>8 DEF Send, ProgramType
  <2> HIDE DEF n
  <2>3. UNCHANGED <<op, what, wish, arg, id, selection, crossed>>
    BY <1>8 DEF Send, host, history
  <2> QED
    BY <2>1, <2>2, <2>3 DEF Asked
<1>9. ASSUME NEW t \in Callers, Ending(t) PROVE Asked'
  <2>1. AfterRequest(t) /\ selection' = selection /\ (what[t] = "hello" => mine[t] \in Procs)
    BY <1>9, EndingStep DEF Stages, Stage
  <2>2. UNCHANGED States \/ (mine[t] \in Procs /\ Kill(mine[t]))
    BY <2>1 DEF AfterRequest
  <2>3. Former
    BY <1>1, <1>2, <2>2, KillStep DEF States, Stays, Killed
  <2>4. crossed' = (crossed \/ LeavesSelect(t)) /\ \A s \in Callers : s # t => Keeps(s)
    BY <2>1 DEF AfterRequest, Rests, Keeps
  <2>5. ~crossed' => \A p \in Procs : \A r \in run[p] : r.req.what \in Asks => r.req.id # id[t]
    BY <2>4, OwnerAsks DEF LeavesSelect, Asks
  <2>6. /\ ~crossed' /\ op'[t] = "select" => wish'[t] = selection
        /\ ~crossed' /\ what'[t] \in Asks => arg'[t] = selection
    BY <2>1, <2>4 DEF AfterRequest, GoesOn, Done, Asked, Asks, CallerType, Ops
  <2> QED
    BY <2>1, <2>3, <2>4, <2>5, <2>6, AskedKept DEF Turns
<1>10. ASSUME NEW p \in Procs, Dispatch(p) PROVE Asked'
  <2>1. PICK r \in run[p] : Serves(p, r)
    BY <1>10, DispatchStep
  <2>2. /\ \A q \in Procs : q # p => run'[q] = run[q]
        /\ UNCHANGED <<op, what, wish, arg, id, selection, crossed>>
    BY <1>10, DispatchStep DEF Stays
  <2>3. Former
    BY <2>1, <2>2 DEF Serves, Answer, Becomes, Former, ProgramType
  <2> QED
    BY <2>2, <2>3, AskedKept DEF Keeps
<1> QED
  BY <1>4, <1>5, <1>6, <1>7, <1>8, <1>9, <1>10, StepCases

\* Nothing is begun and nothing started after Close.
LEMMA ShutStep ==
  ASSUME HelperType, Stages, Shut, [Next]_vars
  PROVE  Shut'
<1> USE DEF HelperType
<1>1. Cardinality(Started) \in Nat /\ wants \in Nat /\ MaxSteps \in Nat
  BY HelperAssumption, FS_Subset, FS_CardinalityType DEF Started, ProgramType
<1>2. CASE CloseHost
  BY <1>2 DEF CloseHost, Shut, ProgramType, HostType
<1>3. CASE Wants
  <2>1. PICK t \in Callers, o \in Ops \ {"idle"}, u \in Units \cup {None} : Begins(t, o, u)
    BY <1>3, WantsStep
  <2> QED
    BY <1>1, <2>1 DEF Begins, Shut
<1>4. ASSUME NEW t \in Callers, NEW p \in Procs, Start(t, p) PROVE Shut'
  BY <1>1, <1>4, StartStep DEF Begun, Shut
<1>5. CASE UNCHANGED vars
  BY <1>5 DEF vars, host, pipes, bounds, Shut
<1>6. ASSUME NEW t \in Callers, Look(t) \/ StartFails(t) \/ Register(t) \/ Send(t) PROVE Shut'
  BY <1>6 DEF Look, StartFails, Register, Send, host, pipes, bounds, Shut
<1>7. ASSUME NEW t \in Callers, Ending(t) PROVE Shut'
  BY <1>7, EndingStep DEF Stages, Shut
<1>8. ASSUME NEW p \in Procs, ReadEnd(p) \/ Drain(p) \/ Dispatch(p) \/ LetsGo(p) \/ Killing(p)
      PROVE  Shut'
  BY <1>8 DEF ReadEnd, Drain, Dispatch, LetsGo, Killing, host, pipes, bounds, Shut
<1> QED
  BY <1>2, <1>3, <1>4, <1>5, <1>6, <1>7, <1>8, StepCases

\* A program that takes no selection: as it is, or on its way out.
Fades(p) ==
  /\ up'[p] = "none" => up[p] = "none"
  /\ up'[p] = "up" => up[p] = "up" /\ selected'[p] = selected[p]
  /\ selected'[p] \in {selected[p], None}

\* A program that has not the selection runs, and no selection has crossed another.
Lacks == Running /\ up[cur] = "up" /\ ~crossed /\ selected[cur] # selection

\* A step after which who was to ask still is.
LEMMA ChosenKept ==
  ASSUME HostType, Chosen, cur' = cur, selection' = selection, crossed => crossed',
         Running' => Running, \A p \in Procs : Fades(p), Due /\ Lacks /\ Lacks' => Due'
  PROVE  Chosen'
<1>1. \A p \in Procs : up'[p] = "none" => selected'[p] = None
  BY DEF Chosen, Fades
<1>2. ~crossed' /\ selection' = None => \A p \in Procs : selected'[p] = None
  BY DEF Chosen, Fades
<1>3. ASSUME Lacks' PROVE Due'
  <2>1. Running /\ cur \in Procs
    BY <1>3 DEF Lacks, Running, HostType
  <2>2. Lacks
    BY <1>3, <2>1 DEF Lacks, Fades
  <2> QED
    BY <1>3, <2>2 DEF Chosen, Lacks
<1> QED
  BY <1>1, <1>2, <1>3 DEF Chosen, Lacks

\* Every step: a hello done is followed by the repeat, and the repeat is sent.
LEMMA ChosenStep ==
  ASSUME HelperType, Stages, Numbers, Asked, Shut, Chosen, [Next]_vars
  PROVE  Chosen'
<1> USE DEF HelperType
<1>1. StatesType
  BY DEF ProgramType, StatesType
<1>2. \A p \in Procs : Stays(p) \/ Killed(p) => Fades(p)
  BY DEF Stays, Killed, Fades
<1>3. UNCHANGED States => \A p \in Procs : Stays(p)
  BY DEF States, Stays
<1>4. CASE UNCHANGED vars
  <2>1. Due => Due'
    BY <1>4 DEF vars, caller, host, program, Due
  <2> QED
    BY <1>2, <1>3, <1>4, <2>1, ChosenKept
       DEF vars, host, program, device, pipes, history, States, Running
<1>5. CASE CloseHost
  <2>1. ~Running'
    BY <1>5 DEF CloseHost, Running
  <2> QED
    BY <1>2, <1>3, <1>5, <2>1, ChosenKept DEF CloseHost, program, device, history, States, Lacks
<1>6. CASE Wants
  <2>1. PICK t \in Callers, o \in Ops \ {"idle"}, u \in Units \cup {None} : Begins(t, o, u)
    BY <1>6, WantsStep
  <2>2. /\ what[t] = "idle" /\ \A s \in Callers : s # t => Rests(s)
        /\ UNCHANGED <<proc, cur, ended, States>>
    BY <2>1 DEF Begins, Stages, Stage
  <2>3. run' = run /\ up' = up /\ selected' = selected /\ (Running' <=> Running)
    BY <2>2 DEF States, Running
  <2>4. CASE o # "select"
    <3>1. selection' = selection /\ crossed' = crossed
      BY <2>1, <2>4 DEF Begins
    <3>2. Due => Due'
      BY <2>2, <2>3 DEF Due, Rests, Asks
    <3> QED
      BY <1>2, <1>3, <2>2, <2>3, <3>1, <3>2, ChosenKept
  <2>5. CASE o = "select"
    <3>1. selection' = u /\ u # None /\ what'[t] = "select" /\ pc'[t] = "look"
      BY <2>1, <2>5, HelperAssumption DEF Begins
    <3>2. Running' => Due'
      BY <2>3, <3>1 DEF Due, Asks
    <3> QED
      BY <2>3, <3>1, <3>2 DEF Chosen
  <2> QED
    BY <2>4, <2>5
<1>7. ASSUME NEW t \in Callers, NEW p \in Procs, Start(t, p) PROVE Chosen'
  <2>1. Begun(t, p)
    BY <1>7, StartStep
  <2>2. Due'
    BY <2>1 DEF Begun, Due
  <2>3. \A q \in Procs : selected'[q] = selected[q] /\ (up'[q] = "none" => up[q] = "none")
    BY <2>1 DEF Begun, Stays
  <2> QED
    BY <2>1, <2>2, <2>3 DEF Begun, Chosen
<1>8. ASSUME NEW t \in Callers, Look(t) \/ StartFails(t) \/ Register(t) PROVE Chosen'
  <2>1. UNCHANGED <<proc, cur, selection, ended, crossed, States>>
    BY <1>8 DEF Look, StartFails, Register, host, program, device, pipes, history, States
  <2>2. \A s \in Callers : what[s] = "hello" => what'[s] = "hello" /\ mine'[s] = mine[s]
    BY <1>8 DEF Look, StartFails, Register, Idle, Stages, Stage, CallerType, Ops
  <2>3. Running => \A s \in Callers : what[s] \in Asks /\ pc[s] \in {"look", "call", "send"} =>
          what'[s] = what[s] /\ pc'[s] \in {"look", "call", "send"}
    BY <1>8, LookStep DEF Look, Looked, StartFails, Register, Idle, CallerType
  <2>4. Due /\ Running => Due'
    BY <2>1, <2>2, <2>3 DEF Due, States
  <2> QED
    BY <1>2, <1>3, <2>1, <2>4, ChosenKept DEF Running, Lacks
<1>9. ASSUME NEW t \in Callers, Send(t) PROVE Chosen'
  <2> DEFINE n == [req |-> [id |-> id[t], what |-> what[t], unit |-> arg[t]], at |-> "read", has |-> None]
  <2>1. n.req.what = what[t]
    OBVIOUS
  <2>2. PICK c \in Procs : c = cur
    BY <1>9 DEF Send, Stages, Stage, HostType
  <2>3. run'[c] = run[c] \cup {n}
    BY <1>9, <2>2 DEF Send, ProgramType
  <2> HIDE DEF n
  <2>4. /\ UNCHANGED <<proc, cur, selection, ended, crossed, up, selected, what, mine>>
        /\ \A s \in Callers : s # t => pc'[s] = pc[s]
    BY <1>9 DEF Send, host, device, pipes, history, CallerType
  <2>5. Due => Due'
    <3>1. ASSUME NEW r \in run[c], r.req.what \in Asks PROVE Due'
      BY <2>2, <2>3, <2>4, <3>1 DEF Due
    <3>2. ASSUME NEW s \in Callers, what[s] = "hello" /\ mine[s] = cur PROVE Due'
      BY <2>4, <3>2 DEF Due
    <3>3. ASSUME NEW s \in Callers, what[s] \in Asks /\ pc[s] \in {"look", "call", "send"} PROVE Due'
      BY <2>1, <2>2, <2>3, <2>4, <3>3 DEF Due
    <3> QED
      BY <2>2, <3>1, <3>2, <3>3 DEF Due
  <2>6. \A p \in Procs : Fades(p)
    BY <2>4 DEF Fades
  <2> QED
    BY <2>4, <2>5, <2>6, ChosenKept DEF Running
<1>10. ASSUME NEW t \in Callers, Ending(t) PROVE Chosen'
  <2>1. /\ AfterRequest(t) /\ UNCHANGED <<proc, cur, selection, ended>>
        /\ (what[t] = "hello" => mine[t] \in Procs)
        /\ \/ pc[t] = "wait"
           \/ pc[t] = "send" /\ (up[cur] # "up" \/ shut[cur])
    BY <1>10, EndingStep DEF Stages, Stage
  <2>2. UNCHANGED States \/ (what[t] = "hello" /\ mine[t] \in Procs /\ Kill(mine[t]))
    BY <2>1 DEF AfterRequest
  <2>3. \A q \in Procs : Stays(q) \/ Killed(q)
    BY <1>1, <1>3, <2>2, KillStep
  <2>4. (crossed => crossed') /\ \A s \in Callers : s # t => Rests(s)
    BY <2>1 DEF AfterRequest
  <2>5. ASSUME Due, Lacks, Lacks' PROVE Due'
    <3>1. cur \in Procs /\ cur' = cur
      BY <2>1, <2>5 DEF Lacks, Running, HostType
    <3>2. up'[cur] = "up" /\ run'[cur] = run[cur]
      BY <2>1, <2>3, <2>5, <3>1 DEF Lacks, Stays, Killed
    <3>3. ASSUME NEW r \in run[cur], r.req.what \in Asks PROVE Due'
      BY <3>1, <3>2, <3>3 DEF Due
    <3>4. ASSUME NEW s \in Callers, s # t, what[s] = "hello" /\ mine[s] = cur PROVE Due'
      BY <2>4, <3>1, <3>4 DEF Due, Rests
    <3>5. ASSUME NEW s \in Callers, s # t, what[s] \in Asks /\ pc[s] \in {"look", "call", "send"} PROVE Due'
      BY <2>4, <3>5 DEF Due, Rests
    <3>6. CASE what[t] = "hello" /\ mine[t] = cur
      <4>1. ~Kill(mine[t])
        BY <1>1, <2>5, <3>1, <3>2, <3>6, KillStep DEF Lacks, Killed
      <4>2. selection # None
        BY <2>5 DEF Lacks, Chosen, Running, HostType
      <4>3. GoesOn(t, "repeat", selection)
        BY <2>1, <3>6, <4>1, <4>2 DEF AfterRequest, Stages, Stage, CallerType, Ops
      <4> QED
        BY <4>3 DEF GoesOn, Due, Asks
    <3>7. ~(what[t] \in Asks /\ pc[t] \in {"look", "call", "send"})
      BY <2>1, <2>5, <3>1 DEF Lacks, Running, Shut
    <3> QED
      BY <2>5, <3>3, <3>4, <3>5, <3>6, <3>7 DEF Due
  <2> QED
    BY <1>2, <2>1, <2>3, <2>4, <2>5, ChosenKept DEF Running
<1>11. ASSUME NEW p \in Procs, ReadEnd(p) \/ Drain(p) \/ LetsGo(p) \/ Killing(p) PROVE Chosen'
  <2>1. /\ UNCHANGED <<pc, what, mine, proc, cur, selection, crossed>>
        /\ Running' => Running
    <3>1. CASE ReadEnd(p)
      BY <3>1 DEF ReadEnd, history, Running, ProgramType, HostType
    <3>2. CASE Drain(p) \/ LetsGo(p) \/ Killing(p)
      BY <3>2 DEF Drain, LetsGo, Killing, caller, host, pipes, history, Running
    <3> QED
      BY <1>11, <3>1, <3>2
  <2>2. \A q \in Procs : Fades(q) /\ (up'[q] = "up" => run'[q] = run[q])
    <3>1. CASE ReadEnd(p)
      BY <3>1 DEF ReadEnd, program, device, Fades
    <3>2. CASE Drain(p)
      BY <3>2 DEF Drain, device, Fades, ProgramType
    <3>3. CASE LetsGo(p)
      BY <3>3 DEF LetsGo, Fades, ProgramType
    <3>4. CASE Killing(p)
      BY <1>1, <1>2, <3>4, KillStep DEF Killing, Stays, Killed
    <3> QED
      BY <1>11, <3>1, <3>2, <3>3, <3>4
  <2>3. Due /\ Lacks /\ Lacks' => Due'
    <3>1. Lacks /\ Lacks' => run'[cur] = run[cur]
      BY <2>1, <2>2 DEF Lacks, Running, HostType
    <3> QED
      BY <2>1, <3>1 DEF Due
  <2> QED
    BY <2>1, <2>2, <2>3, ChosenKept
<1>12. ASSUME NEW p \in Procs, Dispatch(p) PROVE Chosen'
  <2>1. PICK r \in run[p] : Serves(p, r)
    BY <1>12, DispatchStep
  <2>2. /\ \A q \in Procs : q # p => Stays(q)
        /\ up[p] \in {"up", "drain"} /\ up'[p] = up[p]
        /\ UNCHANGED <<pc, what, mine, proc, cur, selection, ended, crossed>>
    BY <1>12, DispatchStep
  <2>3. CASE r.req.what \in Asks
    <3>1. selected'[p] = r.req.unit
      BY <2>1, <2>3 DEF Serves
    <3>2. ~crossed => selected'[p] = selection
      BY <2>3, <3>1, OwnerAsks DEF Callers
    <3>3. ASSUME Lacks' PROVE Due'
      <4>1. cur \in Procs /\ cur' = cur /\ cur # p
        BY <2>2, <3>2, <3>3 DEF Lacks, Running, HostType
      <4>2. Lacks
        BY <2>2, <3>3, <4>1 DEF Lacks, Running, Stays
      <4> QED
        BY <2>2, <4>1, <4>2 DEF Chosen, Lacks, Due, Stays
    <3> QED
      BY <2>2, <3>2, <3>3 DEF Chosen, Stays, Lacks
  <2>4. CASE r.req.what \notin Asks
    <3>1. selected'[p] = selected[p]
      BY <2>1, <2>4 DEF Serves
    <3>2. \A q \in run[p] : q.req.what \in Asks => q \in run'[p]
      BY <2>1, <2>4 DEF Serves, Answer, Becomes, ProgramType
    <3>3. \A q \in Procs : Fades(q)
      BY <1>2, <2>2, <3>1 DEF Fades
    <3>4. Due /\ Lacks => Due'
      BY <2>2, <3>2 DEF Due, Lacks, Running, HostType, Stays
    <3> QED
      BY <2>2, <3>3, <3>4, ChosenKept DEF Running
  <2> QED
    BY <2>3, <2>4
<1> QED
  BY <1>4, <1>5, <1>6, <1>7, <1>8, <1>9, <1>10, <1>11, <1>12, StepCases

-----------------------------------------------------------------------------
(* The theorems. *)

\* Nothing is started and nothing asked.
LEMMA InitInvariant == Init => IInv
<1> SUFFICES ASSUME Init PROVE IInv
  OBVIOUS
<1>1. HelperType
  <2>1. CallerType
    BY DEF Init, CallerType, At, Ops, Whats, Reply
  <2>2. HostType
    BY DEF Init, HostType
  <2>3. ProgramType
    BY DEF Init, ProgramType
  <2> QED
    BY <2>1, <2>2, <2>3 DEF HelperType
<1>2. Stages
  BY DEF Init, Stages, Stage
<1>3. Numbers
  BY DEF Init, Numbers, Number
<1>4. \A p \in Procs : Device(p)
  BY DEF Init, Device
<1>5. (\A p \in Procs : Owned(p)) /\ holds \in Nat \cup {None}
  BY DEF Init, Owned
<1>6. Asked /\ Shut /\ Chosen
  BY DEF Init, Asked, Shut, Chosen, Asks, Running
<1> QED
  BY <1>1, <1>2, <1>3, <1>4, <1>5, <1>6 DEF IInv

\* Every step of the Host, of its callers and of the programs.
LEMMA Inductive == IInv /\ [Next]_vars => IInv'
<1> SUFFICES ASSUME IInv, [Next]_vars PROVE IInv'
  OBVIOUS
<1> QED
  BY TypeStep, StagesStep, NumbersStep, DeviceStep, OwnedStep, HoldsStep, AskedStep, ShutStep, ChosenStep
     DEF IInv

\* What the theorems about the helper rest on holds throughout.
THEOREM HelperInvariant == Spec => []IInv
  BY InitInvariant, Inductive, PTL DEF Spec

\* The types, with what a program has open: its driver is always of those.
THEOREM HelperTyped == Spec => []TypeOK
<1>1. ASSUME IInv PROVE TypeOK
  <2>1. HelperType /\ (\A p \in Procs : Owned(p)) /\ holds \in Nat \cup {None}
    BY <1>1 DEF IInv
  <2> QED
    BY <2>1 DEF HelperType, CallerType, HostType, ProgramType, Owned, Doing, At, TypeOK
<1> QED
  BY <1>1, HelperInvariant, PTL

\* An answer reaches the call it answers, of the process that call was written to,
\* for any number of programs and requests, of calls given up and of crashes.
THEOREM AnswerIsOwnHolds == Spec => []AnswerIsOwn
<1>1. IInv => AnswerIsOwn
  BY DEF IInv, Numbers, Number, AnswerIsOwn
<1> QED
  BY <1>1, HelperInvariant, PTL

\* A program that ends by the end of its stdin leaves no device open, unless two finds
\* looked at once.
THEOREM NothingLeftOpenHolds == Spec => []NothingLeftOpen
<1>1. IInv => NothingLeftOpen
  BY DEF IInv, Device, NothingLeftOpen
<1> QED
  BY <1>1, HelperInvariant, PTL

\* With nobody calling and nothing under way, a running program has the Host's
\* selection, also one started again, for any number of goroutines that select at
\* once: whatever overlapped before, from a selection made alone on it holds again.
THEOREM SelectionServedHolds == Spec => []SelectionServed
<1>1. IInv => SelectionServed
  BY DEF IInv, Chosen, Due, Stages, Stage, SelectionServed
<1> QED
  BY <1>1, HelperInvariant, PTL
=============================================================================

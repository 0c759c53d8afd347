------------------------------- MODULE Uplink -------------------------------
(***************************************************************************)
(* What the service learns from the connector: the rendezvous client       *)
(* (internal/rendezvous), the device link's outbox (internal/estim,        *)
(* Session) and the reports of the offers (Choices) and the device (cmd).  *)
(*                                                                         *)
(* Three goroutines matter: the client's, which says hello, reports the    *)
(* offers, attaches and dispatches events; Session.Run's, which flushes;   *)
(* and the Runtime's, which announces devices.  Whatever else queues does  *)
(* so under Session.mu alone.  Descriptors are numbered as they change; a  *)
(* message is its number, whom it is for, and what the outbox and the      *)
(* service tell apart.                                                     *)
(*                                                                         *)
(* The service and the network are external: requests fail or their        *)
(* answers are lost, the stream ends or goes silent, the service forgets   *)
(* the connector.  At most MaxEvents of that and of what else happens to   *)
(* the goroutines: sessions, changes, messages.  Left out: signatures, the *)
(* pairing code, the length of the backoff.                                *)
(***************************************************************************)
EXTENDS Choices, Sequences

CONSTANTS
  Sessions,
  MaxOutbox,   \* MaxOutbox of internal/estim
  MaxEvents,   \* bound: what the world around does
  MaxMixed,    \* bound: the same, choices included, where there are any
  None

NoSession == ""   \* a connector-level message is for no session

ASSUME UplinkAssumption ==
  /\ NoSession \notin Sessions /\ None \notin Sessions
  /\ {MaxOutbox, MaxEvents, MaxMixed} \subseteq Nat /\ MaxOutbox > 0

VARIABLES
  client,    \* where the client is
  stream,    \* its event stream: "none", "up", or "silent"
  read,      \* the offers it read to report
  svc,       \* the service: what it knows of the connector
  desc,      \* estimLink.lastDesc, 0 for nil
  announce,  \* by goroutine the descriptor it is about to queue, or 0
  attached,  \* Session.sessionID while attached, or None
  outbox,    \* Session.outbox
  hand,      \* Flush's pending
  flusher,   \* Session.Run: "run", "final" (the last flush), "done"
  stop,      \* ctx is done
  open,      \* history: messages queued and not settled
  arrived,   \* history: by addressee the last message that has arrived
  lastDev,   \* history: the device message queued last, and whether it was dropped
  missed,    \* history: the last report of the offers failed, or was of older ones
  queued, events

dispatcher == <<client, stream, read>>
link == <<desc, announce, attached>>
box == <<outbox, hand, open, arrived, lastDev, queued>>
linkVars == <<dispatcher, svc, link, box, flusher, stop, missed, events>>
vars == <<linkVars, choiceVars>>

Addressees == Sessions \cup {NoSession}
Forgotten == [known |-> FALSE, online |-> FALSE, device |-> 0, source |-> AsBefore, bound |-> None]

Message == [n : Nat, to : Addressees, telemetry : BOOLEAN, bad : BOOLEAN, device : Nat,
            again : BOOLEAN]

TypeOK ==
  /\ ChoiceTypeOK
  /\ client \in {"hello", "source", "post", "attach", "stream", "wait"}
  /\ stream \in {"none", "up", "silent"} /\ (stream # "none" <=> client = "stream")
  /\ svc \in [known : BOOLEAN, online : BOOLEAN, device : Nat, source : [Parts -> Nat],
              bound : Sessions \cup {None}]
  /\ desc \in Nat /\ read \in [Parts -> Nat] /\ announce \in [{"client", "runtime"} -> Nat]
  /\ attached \in Sessions \cup {None}
  /\ outbox \in Seq(Message) /\ hand \in Seq(Message)
  /\ Len(outbox) <= MaxOutbox /\ Len(hand) <= MaxOutbox
  /\ arrived \in [Addressees -> Nat] /\ queued \in Nat
  /\ flusher \in {"run", "final", "done"}

Init ==
  /\ ChoiceInit
  /\ client = "hello" /\ stream = "none" /\ read = AsBefore
  /\ svc = Forgotten /\ desc = 0
  /\ announce = [p \in {"client", "runtime"} |-> 0]
  /\ attached = None /\ outbox = <<>> /\ hand = <<>>
  /\ flusher = "run" /\ stop = FALSE
  /\ open = {} /\ arrived = [a \in Addressees |-> 0]
  /\ lastDev = [n |-> 0, device |-> 0, dropped |-> FALSE] /\ missed = FALSE
  /\ queued = 0 /\ events = 0

\* One more of what the world around does.
Event ==
  LET choices == asks + starts + faults IN
  /\ events < IF choices = 0 THEN MaxEvents ELSE MaxMixed - choices
  /\ events' = events + 1

Numbers(msgs) == {msgs[i].n : i \in DOMAIN msgs}

-----------------------------------------------------------------------------
(* The outbox. *)

\* The messages at these places only, in their order.
Only(q, places) ==
  [k \in 1 .. Cardinality(places) |->
     q[CHOOSE i \in places : Cardinality({j \in places : j <= i}) = k]]

\* trimLocked: telemetry goes first, then the oldest of the rest.
Trim(q) ==
  LET Before(i, j) == \* i goes before j
        IF q[i].telemetry = q[j].telemetry THEN i < j ELSE q[i].telemetry
      Ahead(i) == {j \in DOMAIN q : Before(j, i)}
  IN Only(q, {i \in DOMAIN q : Cardinality(Ahead(i)) >= Len(q) - MaxOutbox})

Drop(numbers) ==
  lastDev' = [lastDev EXCEPT !.dropped = @ \/ lastDev.n \in numbers]

\* Session.queue, of messages with their numbers still to give.
Queue(msgs) ==
  LET new == [i \in DOMAIN msgs |-> [msgs[i] EXCEPT !.n = queued + i]]
      devices == {i \in DOMAIN new : new[i].device # 0}
  IN /\ outbox' = Trim(outbox \o new)
     /\ queued' = queued + Len(msgs)
     /\ LET shed == (Numbers(outbox) \cup Numbers(new)) \ Numbers(outbox') IN
        /\ open' = (open \cup Numbers(new)) \ shed
        /\ lastDev' =
             IF devices = {} THEN [lastDev EXCEPT !.dropped = @ \/ lastDev.n \in shed]
             ELSE LET d == CHOOSE i \in devices : TRUE
                  IN [n |-> new[d].n, device |-> new[d].device, dropped |-> new[d].n \in shed]
     /\ UNCHANGED <<hand, arrived>>

Plain(to) ==
  [n |-> 0, to |-> to, telemetry |-> FALSE, bad |-> FALSE, device |-> 0, again |-> FALSE]

\* A state, an ack or a batch of telemetry of the attached session; the
\* service may find it malformed.
Say(telemetry, bad) ==
  /\ attached # None /\ flusher = "run" /\ Event
  /\ Queue(<<[Plain(attached) EXCEPT !.telemetry = telemetry, !.bad = bad]>>)
  /\ UNCHANGED <<dispatcher, svc, link, flusher, stop, missed>>

\* deviceChanged: what is announced is remembered for reportDevice first.
DeviceChanges ==
  /\ Event /\ announce.runtime = 0 /\ ~stop
  /\ desc' = desc + 1 /\ announce' = [announce EXCEPT !.runtime = desc + 1]
  /\ UNCHANGED <<dispatcher, svc, attached, box, flusher, stop, missed>>

\* DeviceChanged, of the Runtime's goroutine or of the client's.
Announce(p) ==
  /\ announce[p] # 0
  /\ announce' = [announce EXCEPT ![p] = 0]
  /\ LET device == [Plain(NoSession) EXCEPT !.device = announce[p]] IN
     Queue(IF attached = None THEN <<device>> ELSE <<device, Plain(attached)>>)
  /\ UNCHANGED <<dispatcher, svc, desc, attached, flusher, stop, missed, events>>

\* detach with tell: the session is told.
Detach ==
  /\ attached # None /\ flusher = "run" /\ ~stop /\ Event
  /\ attached' = None
  /\ Queue(<<Plain(attached)>>)
  /\ UNCHANGED <<dispatcher, svc, desc, announce, flusher, stop, missed>>

-----------------------------------------------------------------------------
(* Flush. *)

FlushTakes ==
  /\ hand = <<>> /\ outbox # <<>>
  /\ flusher = "run" /\ ~stop
  /\ hand' = outbox /\ outbox' = <<>>
  /\ UNCHANGED <<dispatcher, svc, link, open, arrived, lastDev, queued, flusher, stop,
                 missed, events>>

\* The messages in front for one session go in one request.
Batch ==
  LET same == {n \in DOMAIN hand : \A i \in 1 .. n : hand[i].to = hand[1].to}
  IN SubSeq(hand, 1, CHOOSE n \in same : n + 1 \notin same)
Rest == SubSeq(hand, Len(Batch) + 1, Len(hand))
To == hand[1].to

Bad == \E i \in DOMAIN Batch : Batch[i].bad

\* The service takes the batch in.
Arrive ==
  LET last == Batch[Len(Batch)].n
      devices == {i \in DOMAIN Batch : Batch[i].device # 0}
  IN /\ arrived' = [arrived EXCEPT ![To] = IF @ < last THEN last ELSE @]
     /\ svc' = IF devices = {} THEN svc
               ELSE [svc EXCEPT !.device = Batch[CHOOSE i \in devices : \A j \in devices : j <= i].device]

\* Pending with the batch marked as arrived (history).
Marked == [i \in DOMAIN hand |-> [hand[i] EXCEPT !.again = @ \/ i <= Len(Batch)]]

Accepts == svc.known /\ ~Bad /\ To \in {NoSession, svc.bound}

SendOK ==
  /\ hand # <<>> /\ Accepts
  /\ Arrive /\ hand' = Rest /\ open' = open \ Numbers(Batch)
  /\ UNCHANGED <<dispatcher, link, outbox, lastDev, queued, flusher, stop, missed, events>>

\* Bug: what the service refuses is kept for the next flush.
SendRefusedKept ==
  /\ hand # <<>> /\ (Bad \/ (To = NoSession /\ ~svc.known))
  /\ outbox' = Trim(hand \o outbox) /\ hand' = <<>>
  /\ open' = open \ ((Numbers(hand) \cup Numbers(outbox)) \ Numbers(outbox'))
  /\ UNCHANGED <<dispatcher, svc, link, arrived, lastDev, queued, flusher, stop, missed, events>>

\* ErrRefused: sent again the same bytes would be refused again.
SendRefused ==
  /\ hand # <<>> /\ (Bad \/ (To = NoSession /\ ~svc.known))
  /\ hand' = Rest /\ open' = open \ Numbers(Batch) /\ Drop(Numbers(Batch))
  /\ UNCHANGED <<dispatcher, svc, link, outbox, arrived, queued, flusher, stop, missed, events>>

\* ErrSessionGone: the session is let go of, if it is still the one attached.
SendGone ==
  /\ hand # <<>> /\ ~Bad /\ To \notin {NoSession, svc.bound}
  /\ hand' = Rest /\ open' = open \ Numbers(Batch)
  /\ attached' = IF attached = To THEN None ELSE attached
  /\ UNCHANGED <<dispatcher, svc, desc, announce, outbox, arrived, lastDev, queued, flusher,
                 stop, missed, events>>

\* Bug: what was not sent goes behind what was queued meanwhile.
PutBehind(rest) == outbox' = Trim(outbox \o rest)

\* In front of it, although the comment says behind.
PutBack(rest) == outbox' = Trim(rest \o outbox)

\* The request or its answer is lost, or the service is asked at a bad moment.
SendFails ==
  /\ hand # <<>> /\ Event
  /\ \/ Accepts /\ Arrive /\ PutBack(Marked)
     \/ UNCHANGED <<svc, arrived>> /\ PutBack(hand)
  /\ hand' = <<>>
  /\ LET shed == (Numbers(hand) \cup Numbers(outbox)) \ Numbers(Trim(hand \o outbox)) IN
     open' = open \ shed /\ Drop(shed)
  /\ flusher' = IF flusher = "final" THEN "done" ELSE flusher
  /\ UNCHANGED <<dispatcher, link, queued, stop, missed>>

\* The flush under way when the connector stops gives up.
SendCut ==
  /\ hand # <<>> /\ stop /\ flusher = "run"
  /\ hand' = <<>> /\ open' = open \ Numbers(hand) /\ Drop(Numbers(hand))
  /\ UNCHANGED <<dispatcher, svc, link, outbox, arrived, queued, flusher, stop, missed, events>>

\* Session.Run's way out: only an attached session has a last flush.
SessionStops ==
  /\ stop /\ flusher = "run" /\ hand = <<>>
  /\ IF attached = None
     THEN /\ flusher' = "done" /\ UNCHANGED <<link, box>>
     ELSE /\ flusher' = "final" /\ attached' = None
          /\ Queue(<<Plain(attached)>>) /\ UNCHANGED <<desc, announce>>
  /\ UNCHANGED <<dispatcher, svc, stop, missed, events>>

\* Its Flush takes what is there, once.
LastFlush ==
  /\ flusher = "final" /\ hand = <<>>
  /\ IF outbox = <<>>
     THEN flusher' = "done" /\ UNCHANGED <<outbox, hand>>
     ELSE hand' = outbox /\ outbox' = <<>> /\ UNCHANGED flusher
  /\ UNCHANGED <<dispatcher, svc, link, open, arrived, lastDev, queued, stop, missed, events>>

-----------------------------------------------------------------------------
(* The client: Run, once, Stream. *)

Hello ==
  /\ client = "hello" /\ ~stop
  /\ \/ client' = "source" /\ svc' = [svc EXCEPT !.known = TRUE] /\ UNCHANGED events
     \/ client' = "wait" /\ Event /\ UNCHANGED svc
  /\ UNCHANGED <<stream, read, link, box, flusher, stop, missed>>

\* CurrentSource, under srcMu; the report is posted without it.
CurrentSource ==
  /\ client = "source" /\ apply = Nothing /\ ~stop
  /\ read' = offer /\ client' = "post"
  /\ UNCHANGED <<stream, svc, link, box, flusher, stop, missed, events>>

\* ReportSource; a failure is only logged, and a service that does not know
\* the connector refuses it.
Reported(src) == svc.known /\ svc' = [svc EXCEPT !.source = src] /\ missed' = (src # offer)
NotReported == missed' = TRUE /\ UNCHANGED svc

PostSource ==
  /\ client = "post" /\ ~stop
  /\ \/ Reported(read) /\ UNCHANGED events
     \/ NotReported /\ (IF svc.known THEN Event ELSE UNCHANGED events)
  /\ client' = "attach"
  /\ UNCHANGED <<stream, read, link, box, flusher, stop>>

\* The last of applyLocked, under srcMu.
ReportChoice ==
  /\ Reported(offer) \/ NotReported
  /\ UNCHANGED <<dispatcher, link, box, flusher, stop, events>>

\* Bug: the device is only announced when it changes.
OnOnlineQuiet == UNCHANGED announce

\* OnOnline: reportDevice reads what was announced last.
OnOnline == announce' = [announce EXCEPT !.client = desc]

\* The stream's answer; a token of before the service forgot is refused.
Attach ==
  /\ client = "attach" /\ ~stop
  /\ \/ /\ svc.known /\ client' = "stream" /\ stream' = "up"
        /\ svc' = [svc EXCEPT !.online = TRUE]
        /\ OnOnline /\ UNCHANGED events
     \/ /\ client' = "wait" /\ (IF svc.known THEN Event ELSE UNCHANGED events)
        /\ UNCHANGED <<stream, svc, announce>>
  /\ UNCHANGED <<read, desc, attached, box, flusher, stop, missed>>

\* An event for the client: it reads them once reportDevice has returned.
Dispatch == stream = "up" /\ svc.online /\ announce.client = 0 /\ ~stop

\* companion_attached: the session's state is said.
ServiceAttach(s) ==
  /\ Dispatch /\ Event
  /\ svc' = [svc EXCEPT !.bound = s] /\ attached' = s
  /\ Queue(<<Plain(s)>>)
  /\ UNCHANGED <<dispatcher, desc, announce, flusher, stop, missed>>

\* detach, without tell.
ServiceDetach ==
  /\ Dispatch /\ attached # None /\ Event
  /\ svc' = [svc EXCEPT !.bound = None] /\ attached' = None
  /\ UNCHANGED <<dispatcher, desc, announce, box, flusher, stop, missed>>

\* The stream ends, and the client knows; or it is silent from now on, and
\* the service has marked the connector offline (section 2.4).
StreamEnds ==
  /\ stream = "up" /\ announce.client = 0 /\ Event
  /\ \/ client' = "wait" /\ stream' = "none"
     \/ stream' = "silent" /\ UNCHANGED client
  /\ svc' \in {[svc EXCEPT !.online = FALSE], Forgotten}
  /\ UNCHANGED <<read, link, box, flusher, stop, missed>>

\* The service starts anew while no stream is up.
ServiceForgets ==
  /\ svc.known /\ stream # "up" /\ Event
  /\ svc' = Forgotten
  /\ UNCHANGED <<dispatcher, link, box, flusher, stop, missed>>

\* IdleTimeout: a stream that sends nothing is given up.
IdleTimer ==
  /\ stream = "silent" /\ ~stop /\ announce.client = 0
  /\ client' = "wait" /\ stream' = "none"
  /\ UNCHANGED <<read, svc, link, box, flusher, stop, missed, events>>

\* The backoff passes.
Retry ==
  /\ client = "wait" /\ ~stop
  /\ client' = "hello"
  /\ UNCHANGED <<stream, read, svc, link, box, flusher, stop, missed, events>>

Stop ==
  /\ ~stop /\ stop' = TRUE /\ Event
  /\ UNCHANGED <<dispatcher, svc, link, box, flusher, missed>>

-----------------------------------------------------------------------------
Client == Hello \/ CurrentSource \/ PostSource \/ Attach \/ IdleTimer \/ Retry
Send == SendOK \/ SendRefused \/ SendGone
Flush == FlushTakes \/ Send \/ SendCut \/ SessionStops \/ LastFlush

LinkNext ==
  \/ Client \/ Flush \/ SendFails
  \/ DeviceChanges \/ Detach \/ Stop
  \/ \E p \in {"client", "runtime"} : Announce(p)
  \/ \E telemetry, bad \in BOOLEAN : Say(telemetry, bad)
  \/ \E s \in Sessions : ServiceAttach(s)
  \/ ServiceDetach \/ StreamEnds \/ ServiceForgets

Bounded == asks' + starts' + faults' + events' <= MaxMixed

\* A choice that is saved is reported.
Choose(act) ==
  /\ \/ act /\ UNCHANGED linkVars
     \/ Save /\ ReportChoice
  /\ Bounded

Next ==
  \/ LinkNext /\ UNCHANGED choiceVars
  \/ Choose(ChoiceStep)

Spec == Init /\ [][Next]_vars

\* The goroutines go on, and let go of srcMu; the service answers what does
\* not fail; every session lets go of the camera in the end.
FairSpec ==
  /\ Spec
  /\ WF_vars(Client /\ UNCHANGED choiceVars) /\ WF_vars(Flush /\ UNCHANGED choiceVars)
  /\ \A p \in {"client", "runtime"} : WF_vars(Announce(p) /\ UNCHANGED choiceVars)
  /\ WF_vars(Choose(Apply)) /\ SF_vars(ApplyPending /\ UNCHANGED linkVars)
  /\ \A v \in Views : WF_vars(CameraOff({v}) /\ UNCHANGED linkVars)

-----------------------------------------------------------------------------
(* Properties. *)

\* Every message queued has arrived, was refused, was for a session gone,
\* was shed or given up with the connector, or is still to be sent; none is
\* lost between the outbox and a flush.
Accounted == open = Numbers(outbox) \cup Numbers(hand)

\* What is to be sent to one addressee is in the order it was queued in, and
\* none of it is overtaken, but by a batch whose answer was lost.
Ordered ==
  LET toSend == hand \o outbox IN
  \A i \in DOMAIN toSend :
    /\ ~toSend[i].again => arrived[toSend[i].to] < toSend[i].n
    /\ \A j \in 1 .. i - 1 : toSend[j].to = toSend[i].to => toSend[j].n < toSend[i].n

\* The outbox keeps what it owes, and its order, through batches that fail, are
\* refused in part or put back (session.go, Flush).
OutboxKept == Accounted /\ Ordered

\* However long the service was out of reach and whatever it refuses, what
\* was queued is settled ("everything behind them would wait forever").
Unblocked == <>[](stop \/ open = {})

\* Back online, whatever the service forgot, it learns the offers and the
\* device again: all but what a choice that failed half-way, or a report
\* that failed, was of older offers or was dropped, has kept from it.
ServiceLearns ==
  <>[]( \/ stop
        \/ /\ svc.online
           /\ missed \/ ~kept \/ svc.source = offer
           /\ lastDev.dropped \/ lastDev.device # desc \/ svc.device = desc )
=============================================================================

------------------------------ MODULE Gateway ------------------------------
(***************************************************************************)
(* The gateway beside the enclave's producer, and the tunnel a connector   *)
(* dials to it: internal/gateway and internal/tunnel.                      *)
(*                                                                         *)
(* The producer expects a connector by its key and a ticket, names the     *)
(* camera to reach through it and clears; each connector dials with the    *)
(* ticket it was last told of, proves its key and is attached; local       *)
(* connections are relayed to the attached tunnel's connector, which       *)
(* admits one network target per tunnel.  A step is what is done under     *)
(* Server.mu or targetPolicy.mu, or the end of a call made without it.     *)
(*                                                                         *)
(* Left out: the wire (module Mux has it), the bytes of a proof (only *)
(* the holder of the key passes), what Status reports.                     *)
(***************************************************************************)
EXTENDS Naturals, FiniteSets, Sequences

CONSTANTS
  Keys,       \* connectors
  Targets,    \* the network cameras, as host:port
  Own,        \* OwnTarget: the connector's own endpoint
  Conns,      \* WebSocket connections at a time
  Relays,     \* local connections at a time
  None,
  MaxExpect,  \* bound: expectations
  MaxDrops    \* bound: tunnels and handshakes that fail by themselves

ASSUME GatewayAssumption ==
  /\ Own \notin Targets /\ None \notin Targets \cup {Own} \cup Conns
  /\ MaxExpect \in Nat /\ MaxDrops \in Nat

VARIABLES
  exps,     \* the expectations made so far, the ticket of each being its index
  expect,   \* Server.expect, or 0
  attached, \* Server.attached
  target,   \* Server.target
  conn,     \* each connection: where it is, the expectation and key it dialed with
  closing,  \* sessions a caller has taken out under the mutex and is about to close
  clearing, \* handleClear is between its two holds of the mutex
  holds,    \* by connector the newest ticket it was told of, or 0
  relay,    \* each local connection: where it is, its target and tunnel
  locked,   \* by tunnel targetPolicy.locked
  drops

control == <<exps, expect, target, clearing, holds>>
links == <<attached, conn, closing, drops>>
streams == <<relay, locked>>
vars == <<control, links, streams>>

Made == DOMAIN exps
Free == [pc |-> "free", exp |-> 0, key |-> None]
NoRelay == [pc |-> "free", target |-> None, conn |-> None]

TypeOK ==
  /\ Made \subseteq 1 .. MaxExpect
  /\ \A e \in Made : exps[e] \in [key : Keys, once : BOOLEAN, expired : BOOLEAN]
  /\ expect \in {0} \cup Made /\ attached \in Conns \cup {None}
  /\ target \in Targets \cup {None} /\ clearing \in BOOLEAN
  /\ conn \in [Conns -> [pc : {"free", "shaking", "proved", "up", "ended"},
                         exp : {0} \cup Made, key : Keys \cup {None}]]
  /\ closing \subseteq Conns /\ holds \in [Keys -> {0} \cup Made]
  /\ relay \in [Relays -> [pc : {"free", "accepted", "opening", "resolving", "open"},
                           target : Targets \cup {Own, None}, conn : Conns \cup {None}]]
  /\ locked \in [Conns -> Targets \cup {None}]
  /\ drops \in 0 .. MaxDrops

Init ==
  /\ exps = <<>> /\ expect = 0 /\ attached = None /\ target = None
  /\ conn = [c \in Conns |-> Free] /\ closing = {} /\ clearing = FALSE
  /\ holds = [k \in Keys |-> 0] /\ relay = [r \in Relays |-> NoRelay]
  /\ locked = [c \in Conns |-> None] /\ drops = 0

-----------------------------------------------------------------------------
(* The producer's control API. *)

\* Bug: only the connector that is attached is known.
SameWhileUp(k) == attached # None /\ conn[attached].key = k

\* The connector this session had: the one attached or, with none, the one
\* expected.
SameConnector(k) ==
  \/ attached # None /\ conn[attached].key = k
  \/ attached = None /\ expect # 0 /\ exps[expect].key = k

Expect(k) ==
  LET e == Len(exps) + 1
      live == SameConnector(k) /\ attached # None
  IN /\ e <= MaxExpect
     /\ exps' = Append(exps, [key |-> k, once |-> live, expired |-> FALSE])
     /\ expect' = e
     /\ IF SameConnector(k) THEN UNCHANGED <<target, attached, closing>>
        ELSE /\ target' = None /\ attached' = None
             /\ closing' = closing \cup ({attached} \ {None})
     /\ UNCHANGED <<conn, clearing, holds, drops, streams>>

SetTarget(t) ==
  /\ attached # None /\ target' = t
  /\ UNCHANGED <<exps, expect, clearing, holds, links, streams>>

\* handleClear forgets the expectation and the target, and drops the connector
\* in a second hold of the mutex.
Clear ==
  /\ expect # 0 /\ ~clearing
  /\ expect' = 0 /\ target' = None /\ clearing' = TRUE
  /\ UNCHANGED <<exps, holds, links, streams>>

DropConnector ==
  /\ clearing /\ clearing' = FALSE
  /\ attached' = None /\ closing' = closing \cup ({attached} \ {None})
  /\ UNCHANGED <<exps, expect, target, holds, conn, drops, streams>>

\* The clock passes expiresAt, which counts until the first attach.
Expire(e) ==
  /\ e = expect /\ ~exps[e].expired /\ ~exps[e].once
  /\ exps' = [exps EXCEPT ![e].expired = TRUE]
  /\ UNCHANGED <<expect, target, clearing, holds, links, streams>>

-----------------------------------------------------------------------------
(* A tunnel: Dialer.Dial and handleTunnel. *)

\* The service tells a connector of an expectation, later or never.
Told(k, e) ==
  /\ e \in Made /\ exps[e].key = k /\ holds[k] < e
  /\ holds' = [holds EXCEPT ![k] = e]
  /\ UNCHANGED <<exps, expect, target, clearing, links, streams>>

\* expectationFor: the ticket is the expected one's, in time for a first attach.
Admits(e) == e # 0 /\ expect = e /\ (exps[e].once \/ ~exps[e].expired)

\* A connector makes one dial at a time; its last tunnel may be dead without
\* the gateway knowing yet.
Dial(k, c) ==
  /\ conn[c] = Free /\ c \notin closing /\ \A r \in Relays : relay[r].conn # c
  /\ \A d \in Conns : conn[d].key = k => conn[d].pc \in {"up", "ended"}
  /\ Admits(holds[k])
  /\ conn' = [conn EXCEPT ![c] = [pc |-> "shaking", exp |-> holds[k], key |-> k]]
  /\ UNCHANGED <<control, attached, closing, drops, streams>>

\* CHALLENGE, PROVE and READY: Dial has returned the tunnel, Serve answers.
Prove(c) ==
  /\ conn[c].pc = "shaking"
  /\ conn' = [conn EXCEPT ![c].pc = "proved"]
  /\ UNCHANGED <<control, attached, closing, drops, streams>>

HandshakeFails(c) ==
  /\ conn[c].pc = "shaking" /\ drops < MaxDrops
  /\ conn' = [conn EXCEPT ![c] = Free] /\ drops' = drops + 1
  /\ UNCHANGED <<control, attached, closing, streams>>

\* Bug: the expectation is not looked at again after the handshake.
AttachUnchecked(c) ==
  /\ conn[c].pc = "proved"
  /\ exps' = [exps EXCEPT ![conn[c].exp].once = TRUE]
  /\ attached' = c /\ closing' = closing \cup ({attached} \ {None})
  /\ conn' = [conn EXCEPT ![c].pc = "up"]
  /\ UNCHANGED <<expect, target, clearing, holds, drops, streams>>

Attach(c) ==
  /\ conn[c].pc = "proved"
  /\ IF expect = conn[c].exp
       THEN /\ exps' = [exps EXCEPT ![expect].once = TRUE]
            /\ attached' = c /\ closing' = closing \cup ({attached} \ {None})
            /\ conn' = [conn EXCEPT ![c].pc = "up"]
       ELSE /\ conn' = [conn EXCEPT ![c].pc = "ended"]
            /\ UNCHANGED <<exps, attached, closing>>
  /\ UNCHANGED <<expect, target, clearing, holds, drops, streams>>

\* CloseWithReason, by whoever took the session out.
Close(c) ==
  /\ c \in closing /\ closing' = closing \ {c}
  /\ conn' = [conn EXCEPT ![c].pc = IF @ = "up" THEN "ended" ELSE @]
  /\ UNCHANGED <<control, attached, drops, streams>>

\* A ping that fails at the gateway, a probe unanswered at the connector, or
\* the network.
Drop(c) ==
  /\ conn[c].pc = "up" /\ drops < MaxDrops
  /\ conn' = [conn EXCEPT ![c].pc = "ended"] /\ drops' = drops + 1
  /\ UNCHANGED <<control, attached, closing, streams>>

\* Bug: the end of any tunnel detaches the one attached.
DetachAny(c) ==
  /\ conn[c].pc = "ended"
  /\ attached' = None
  /\ conn' = [conn EXCEPT ![c] = Free] /\ locked' = [locked EXCEPT ![c] = None]
  /\ UNCHANGED <<control, closing, drops, relay>>

Detach(c) ==
  /\ conn[c].pc = "ended"
  /\ attached' = (IF attached = c THEN None ELSE attached)
  /\ conn' = [conn EXCEPT ![c] = Free] /\ locked' = [locked EXCEPT ![c] = None]
  /\ UNCHANGED <<control, closing, drops, relay>>

-----------------------------------------------------------------------------
(* A local connection relayed: serve, relay, and targetPolicy. *)

\* serve reads the target as it accepts.
Accept(r, own) ==
  /\ relay[r] = NoRelay
  /\ relay' = [relay EXCEPT ![r] = [pc |-> "accepted", conn |-> None,
                                    target |-> IF own THEN Own ELSE target]]
  /\ UNCHANGED <<control, links, locked>>

\* relay reads the tunnel later, in a goroutine of its own.
Look(r) ==
  /\ relay[r].pc = "accepted"
  /\ relay' = [relay EXCEPT ![r] =
       IF attached = None \/ @.target = None THEN NoRelay
       ELSE [@ EXCEPT !.pc = "opening", !.conn = attached]]
  /\ UNCHANGED <<control, links, locked>>

Live(r) == relay[r].conn # None /\ conn[relay[r].conn].pc = "up"

\* OPEN at the connector: its own endpoint is answered; another target than
\* the locked one is refused; else the name is resolved with the mutex free.
Opened(r) ==
  /\ relay[r].pc = "opening" /\ Live(r)
  /\ relay' = [relay EXCEPT ![r] =
       IF @.target = Own THEN [@ EXCEPT !.pc = "open"]
       ELSE IF locked[@.conn] \notin {None, @.target} THEN NoRelay
       ELSE [@ EXCEPT !.pc = "resolving"]]
  /\ UNCHANGED <<control, links, locked>>

Resolved(r) ==
  /\ relay[r].pc = "resolving" /\ Live(r)
  /\ locked' = [locked EXCEPT ![relay[r].conn] = relay[r].target]
  /\ relay' = [relay EXCEPT ![r].pc = "open"]
  /\ UNCHANGED <<control, links>>

\* The name is no private address, the dial fails, OPEN goes unanswered, either
\* end closes, the tunnel is gone.
RelayEnds(r) ==
  /\ relay[r].pc \in {"opening", "resolving", "open"}
  /\ relay' = [relay EXCEPT ![r] = NoRelay]
  /\ UNCHANGED <<control, links, locked>>

Producer ==
  \/ Clear \/ DropConnector
  \/ \E k \in Keys : Expect(k) \/ \E e \in Made : Told(k, e)
  \/ \E t \in Targets : SetTarget(t)
  \/ \E e \in Made : Expire(e)
Tunnels ==
  \E c \in Conns : \/ Prove(c) \/ HandshakeFails(c) \/ Attach(c) \/ Close(c) \/ Drop(c) \/ Detach(c)
                   \/ \E k \in Keys : Dial(k, c)
Relaying ==
  \E r \in Relays : \/ Look(r) \/ Opened(r) \/ Resolved(r) \/ RelayEnds(r)
                    \/ \E own \in BOOLEAN : Accept(r, own)

Next == Producer \/ Tunnels \/ Relaying

Spec == Init /\ [][Next]_vars

\* Every handler goes on; a connector without a tunnel dials (tunnel.go's
\* caller backs off and tries again), and is told of what is expected of it.
Unconnected(k) == \A c \in Conns : conn[c].key # k
FairSpec ==
  /\ Spec /\ WF_vars(DropConnector)
  /\ \A c \in Conns : WF_vars(Prove(c)) /\ WF_vars(Attach(c)) /\ WF_vars(Close(c)) /\ WF_vars(Detach(c))
  /\ \A r \in Relays : WF_vars(RelayEnds(r))
  /\ \A k \in Keys : /\ WF_vars(\E c \in Conns : Unconnected(k) /\ Dial(k, c))
                     /\ WF_vars(Told(k, expect))

-----------------------------------------------------------------------------
(* Properties. *)

\* The tunnel relayed through is the expected connector's, whatever was
\* expected, cleared or attached while it shook hands (attach).
ExpectedOnly ==
  attached # None /\ expect # 0 => conn[attached].key = exps[expect].key

\* No tunnel is left alive that nobody would close: a session lives only while
\* it is the attached one or someone is about to close it.
NoOrphan == \A c \in Conns : conn[c].pc = "up" => c = attached \/ c \in closing

\* The gateway has the one connector expected, whichever expectations, clears and
\* tunnels overlapped.
OneConnector == ExpectedOnly /\ NoOrphan

\* The camera chosen for a session survives new tickets for its connector,
\* with the tunnel up or down (handleExpect).
TargetSurvives ==
  [][target # None /\ target' = None =>
       expect' = 0 \/ expect = 0 \/ exps'[expect'].key # exps[expect].key]_vars

\* A connector whose ticket is good gets in, and again after every drop.
Attaches == <>[](Admits(expect) => attached # None)

\* One network camera per tunnel (PROTOCOL.md: "the first host:port it accepts
\* is locked in").
OneTarget ==
  [][\A c \in Conns : locked[c] # None => locked'[c] = locked[c] \/ conn'[c] = Free]_vars
=============================================================================

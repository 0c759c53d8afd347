------------------------------- MODULE Share -------------------------------
(***************************************************************************)
(* The phone's picture on this computer: the loopback server it is read    *)
(* from (internal/share), the enclave's session that publishes it through  *)
(* the tunnel (the phone path of internal/serve), the choice that starts,  *)
(* moves and stops it (apply.go, setShareLocked, under srcMu), and what    *)
(* the window is told of it (ipcReporter).                                 *)
(*                                                                         *)
(* A session publishes one picture, so a picture, its reception and its    *)
(* session are one number.  A step is what is done under serve.Server.mu,  *)
(* share.Server.mu or the reporter's mutex.                                *)
(*                                                                         *)
(* Left out: the readers, whom gortsplib disconnects with the stream, the  *)
(* secret, the packets (module Gate has them), the program's end.          *)
(***************************************************************************)
EXTENDS Naturals

CONSTANTS
  MaxServers,  \* bound: loopback servers started, numbered from 1
  MaxVisits,   \* bound: sessions in which the enclave publishes
  Ports        \* the loopback ports, 0 being none

Servers == 1 .. MaxServers
Visits == 1 .. MaxVisits

ASSUME ShareAssumption ==
  MaxServers \in Nat /\ MaxVisits \in Nat /\ Ports \subseteq Nat \ {0}

VARIABLES
  server,      \* each share.Server, with the picture of Server.rec
  shared,      \* manager.shared, or 0
  receiver,    \* receiver of serve.Server, or 0
  setting,     \* setShareLocked and the report after it: where, and the port asked for
  visit,       \* each session of the enclave, and the server it found
  receptions,  \* receptions of serve.Server: sessions it holds one for
  telling,     \* goroutines that are to tell the window of a picture
  window       \* the port and whether a picture arrives, as last told the window

choice == <<shared, receiver, setting>>
enclave == <<visit, receptions>>
shareVars == <<server, choice, enclave, telling, window>>

NoServer == [pc |-> "none", port |-> 0, feeds |-> 0]
NoVisit == [pc |-> "none", at |-> 0, over |-> FALSE]
Settled == [pc |-> "idle", port |-> 0, arriving |-> FALSE]

ShareTypeOK ==
  /\ server \in [Servers -> [pc : {"none", "open", "closed"}, port : {0} \cup Ports,
                             feeds : {0} \cup Visits]]
  /\ {shared, receiver} \subseteq {0} \cup Servers
  /\ setting \in [pc : {"idle", "mark", "end", "start", "look", "report"},
                  port : {0} \cup Ports, arriving : BOOLEAN]
  /\ visit \in [Visits -> [pc : {"none", "asked", "taken", "on", "leaving", "gone"},
                           at : {0} \cup Servers, over : BOOLEAN]]
  /\ receptions \subseteq Visits /\ telling \subseteq Visits \X BOOLEAN
  /\ window \in [port : {0} \cup Ports, arriving : BOOLEAN]

\* The program has started without it.
ShareInit ==
  /\ server = [s \in Servers |-> NoServer] /\ shared = 0 /\ receiver = 0
  /\ setting = Settled
  /\ visit = [v \in Visits |-> NoVisit] /\ receptions = {}
  /\ telling = {} /\ window = [port |-> 0, arriving |-> FALSE]

Arriving(s) == s # 0 /\ server[s].feeds # 0
Port(s) == IF s = 0 THEN 0 ELSE server[s].port

-----------------------------------------------------------------------------
(* The choice: setShareLocked, then the report of applyLocked. *)

\* The choice is for another port, or for none; nothing changes the server that
\* runs where it should.
SetShare(port) ==
  /\ setting.pc = "idle" /\ port # Port(shared)
  /\ receiver' = 0
  /\ setting' = [Settled EXCEPT !.pc = IF shared # 0 THEN "mark" ELSE "start", !.port = port]
  /\ UNCHANGED <<server, shared, enclave, telling, window>>

\* Server.Close marks the server closed; what it holds is ended after that.
MarkClosed ==
  /\ setting.pc = "mark" /\ setting' = [setting EXCEPT !.pc = "end"]
  /\ server' = [server EXCEPT ![shared].pc = "closed"]
  /\ UNCHANGED <<shared, receiver, enclave, telling, window>>

\* reception.Close, which does its work once.
EndReception(v, pc) ==
  LET s == visit[v].at
      first == ~visit[v].over IN
  /\ visit' = [visit EXCEPT ![v].over = TRUE, ![v].pc = pc]
  /\ server' = [server EXCEPT ![s].feeds = IF first /\ @ = v THEN 0 ELSE @]
  /\ telling' = telling \cup (IF first THEN {<<v, FALSE>>} ELSE {})

\* The picture ends with its server, not the session that publishes it.
EndPicture ==
  /\ setting.pc = "end" /\ shared' = 0
  /\ setting' = [setting EXCEPT !.pc = IF setting.port # 0 THEN "start" ELSE "look"]
  /\ LET v == server[shared].feeds IN
     IF v = 0 THEN UNCHANGED <<server, visit, telling>> ELSE EndReception(v, visit[v].pc)
  /\ UNCHANGED <<receiver, receptions, window>>

StartShare ==
  /\ setting.pc = "start" /\ setting' = [setting EXCEPT !.pc = "look"]
  /\ \E s \in Servers :
       /\ server[s].pc = "none" /\ \A x \in 1 .. s - 1 : server[x].pc # "none"
       /\ server' = [server EXCEPT ![s] = [pc |-> "open", port |-> setting.port, feeds |-> 0]]
       /\ shared' = s /\ receiver' = s
  /\ UNCHANGED <<enclave, telling, window>>

\* The port is taken by another program: the choice fails and is not reported.
StartFails ==
  /\ setting.pc = "start" /\ setting' = Settled
  /\ UNCHANGED <<server, shared, receiver, enclave, telling, window>>

\* sourceReportOf, then the reporter's Source.
LookArriving ==
  /\ setting.pc = "look"
  /\ setting' = [setting EXCEPT !.pc = "report", !.arriving = Arriving(shared)]
  /\ UNCHANGED <<server, shared, receiver, enclave, telling, window>>

ReportShare ==
  /\ setting.pc = "report" /\ setting' = Settled
  /\ window' = [port |-> Port(shared), arriving |-> setting.arriving]
  /\ UNCHANGED <<server, shared, receiver, enclave, telling>>

-----------------------------------------------------------------------------
(* The enclave publishes: OnAnnounce and OnSessionClose of internal/serve. *)

Moves(v, pc) == visit' = [visit EXCEPT ![v].pc = pc]

\* Without a receiver an ANNOUNCE is refused.
Announces(v) ==
  /\ visit[v].pc = "none" /\ \A x \in 1 .. v - 1 : visit[x].pc # "none"
  /\ visit' = [visit EXCEPT ![v].pc = IF receiver = 0 THEN "gone" ELSE "asked", ![v].at = receiver]
  /\ UNCHANGED <<server, choice, receptions, telling, window>>

Feeds(v, s) ==
  /\ Moves(v, "taken") /\ server' = [server EXCEPT ![s].feeds = v]
  /\ telling' = telling \cup {<<v, TRUE>>}

\* Bug: a server that was closed meanwhile takes a picture.
PublishAnyway(v) ==
  /\ visit[v].pc = "asked"
  /\ LET s == visit[v].at IN
     IF server[s].feeds = 0 THEN Feeds(v, s)
     ELSE Moves(v, "gone") /\ UNCHANGED <<server, telling>>
  /\ UNCHANGED <<choice, receptions, window>>

\* Server.Publish, of the receiver read before: closed, or one picture at a time.
PublishPhone(v) ==
  /\ visit[v].pc = "asked"
  /\ LET s == visit[v].at IN
     IF server[s].pc # "closed" /\ server[s].feeds = 0 THEN Feeds(v, s)
     ELSE Moves(v, "gone") /\ UNCHANGED <<server, telling>>
  /\ UNCHANGED <<choice, receptions, window>>

KeepReception(v) ==
  /\ visit[v].pc = "taken" /\ Moves(v, "on") /\ receptions' = receptions \cup {v}
  /\ UNCHANGED <<server, choice, telling, window>>

SessionCloses(v) ==
  /\ visit[v].pc = "on" /\ Moves(v, "leaving") /\ receptions' = receptions \ {v}
  /\ UNCHANGED <<server, choice, telling, window>>

CloseReception(v) ==
  /\ visit[v].pc = "leaving" /\ EndReception(v, "gone")
  /\ UNCHANGED <<choice, receptions, window>>

-----------------------------------------------------------------------------
\* OnChange, in a goroutine of its own, told the window if it was offered the
\* picture: with the address of the server it is of.
TellShare(v, arriving) ==
  /\ <<v, arriving>> \in telling /\ telling' = telling \ {<<v, arriving>>}
  /\ window' = IF window.port = 0 THEN window
               ELSE [port |-> Port(visit[v].at), arriving |-> arriving]
  /\ UNCHANGED <<server, choice, enclave>>

ShareNext ==
  \/ \E port \in Ports \cup {0} : SetShare(port)
  \/ MarkClosed \/ EndPicture \/ StartShare \/ StartFails \/ LookArriving \/ ReportShare
  \/ \E v \in Visits : \/ Announces(v) \/ PublishPhone(v) \/ KeepReception(v)
                       \/ SessionCloses(v) \/ CloseReception(v)
                       \/ \E arriving \in BOOLEAN : TellShare(v, arriving)

ShareSpec == ShareInit /\ [][ShareNext]_shareVars

-----------------------------------------------------------------------------
(* Properties. *)

\* Not asked for any more, or served elsewhere, the phone's picture is on no
\* server of before, although the enclave was publishing it while the choice
\* changed; and a picture that keeps others out is of a session that will end it
\* (share.go, Close and Publish).
OffMeansOff ==
  \A s \in Servers :
    server[s].feeds # 0 =>
      s = shared /\ visit[server[s].feeds].pc \in {"taken", "on", "leaving"}

AtRest == setting.pc = "idle" /\ telling = {}

\* At rest the window shows what is ("sent again whenever any of it changes, the
\* phone's picture arriving included", DESKTOP.md:186).  It does not hold: what it
\* is told comes from goroutines in any order, of servers of before too, and a
\* choice that fails is not reported.
ShownIsSo ==
  AtRest => window = [port |-> Port(shared), arriving |-> Arriving(shared)]

\* What the enclave publishes is served ("The connector serves what arrives",
\* PROTOCOL.md:455).  It does not hold: a picture ends with its server, and the
\* session goes on publishing it to no one.
ServesWhatArrives ==
  AtRest /\ shared # 0 /\ (\E v \in Visits : visit[v].pc = "on") => Arriving(shared)
=============================================================================

--------------------------- MODULE StreamsProofs ---------------------------
(***************************************************************************)
(* The streams of internal/serve, for any bounds: the phone's picture on   *)
(* the loopback servers of internal/share, the computer's own camera, and  *)
(* the packets of a stream at its gate.                                    *)
(***************************************************************************)
EXTENDS Streams, Share, Gate, FiniteSetTheorems, SequenceTheorems,
        WellFoundedInduction, TLAPS

-----------------------------------------------------------------------------
(* The phone's picture. *)

Loopback == [pc : {"none", "open", "closed"}, port : {0} \cup Ports, feeds : {0} \cup Visits]

Session == [pc : {"none", "asked", "taken", "on", "leaving", "gone"},
            at : {0} \cup Servers, over : BOOLEAN]

Changing == [pc : {"idle", "mark", "end", "start", "look", "report"},
             port : {0} \cup Ports, arriving : BOOLEAN]

\* Where a session may keep others out.
Present == {"taken", "on", "leaving"}

\* A server that takes pictures is the one shared, and it is the one found by a
\* session that announces; while the choice changes none is found, and the one
\* before is closed before it is let go.
Chosen ==
  /\ shared # 0 => server[shared].pc # "none"
  /\ receiver # 0 => receiver = shared
  /\ \A s \in Servers : server[s].pc = "open" => s = shared
  /\ setting.pc \in {"mark", "end", "start"} => receiver = 0
  /\ setting.pc \in {"mark", "end"} => shared # 0
  /\ setting.pc = "end" => server[shared].pc = "closed"
  /\ setting.pc = "start" => shared = 0

\* A session remembers the server it found, which was started by then.
Found ==
  \A v \in Visits :
    /\ visit[v].pc \in {"asked"} \cup Present =>
         visit[v].at \in Servers /\ server[visit[v].at].pc # "none"
    /\ visit[v].pc \in {"none", "asked"} => ~visit[v].over

\* A picture is on the server shared, of the session that found it there and has
\* not closed its reception.
Fed ==
  \A s \in Servers : server[s].feeds # 0 =>
    LET v == server[s].feeds IN
    s = shared /\ visit[v].pc \in Present /\ visit[v].at = s /\ ~visit[v].over

ShareInv == ShareTypeOK /\ Chosen /\ Found /\ Fed

\* Nothing is shared at first.
LEMMA ShareInitInvariant == ShareInit => ShareInv
<1> SUFFICES ASSUME ShareInit PROVE ShareInv
  OBVIOUS
<1>1. NoServer \in Loopback /\ NoVisit \in Session /\ Settled \in Changing
  BY DEF NoServer, Loopback, NoVisit, Session, Settled, Changing
<1>2. server \in [Servers -> Loopback] /\ visit \in [Visits -> Session] /\ setting \in Changing
  BY <1>1 DEF ShareInit
<1>3. ShareTypeOK
  BY <1>2 DEF ShareInit, ShareTypeOK, Loopback, Session, Changing
<1>4. Chosen
  BY DEF ShareInit, Chosen, NoServer, Settled
<1>5. Found
  BY DEF ShareInit, Found, NoVisit, Present
<1>6. Fed
  BY DEF ShareInit, Fed, NoServer
<1> QED
  BY <1>3, <1>4, <1>5, <1>6 DEF ShareInv

\* The choice changes: no session finds a server until it is settled.
LEMMA SetShareStep ==
  ASSUME ShareInv, NEW port \in Ports \cup {0}, SetShare(port)
  PROVE  ShareInv'
<1> USE DEF ShareInv, SetShare, enclave
<1>1. setting' \in Changing /\ setting'.pc = (IF shared # 0 THEN "mark" ELSE "start")
  BY DEF Changing, Settled
<1>2. ShareTypeOK'
  BY <1>1 DEF ShareTypeOK, Changing
<1>3. Chosen'
  BY <1>1 DEF Chosen
<1>4. Found' /\ Fed'
  BY DEF Found, Fed
<1> QED
  BY <1>2, <1>3, <1>4

\* The server is closed to what publishes next.
LEMMA MarkClosedStep ==
  ASSUME ShareInv, MarkClosed
  PROVE  ShareInv'
<1> USE DEF ShareInv, enclave
<1>1. shared \in Servers /\ server \in [Servers -> Loopback] /\ setting \in Changing
  BY DEF MarkClosed, Chosen, ShareTypeOK, Loopback, Changing
<1> DEFINE x == [server[shared] EXCEPT !.pc = "closed"]
<1>2. x \in Loopback /\ x.pc = "closed" /\ x.feeds = server[shared].feeds
  BY <1>1 DEF Loopback
<1>3. server' = [server EXCEPT ![shared] = x]
  BY <1>1 DEF MarkClosed, Loopback
<1> HIDE DEF x
<1>4. server' \in [Servers -> Loopback] /\ server'[shared] = x
      /\ \A s \in Servers : s # shared => server'[s] = server[s]
  BY <1>1, <1>2, <1>3
<1>5. setting' \in Changing /\ setting'.pc = "end" /\ UNCHANGED <<shared, receiver, visit, receptions, telling, window>>
  BY <1>1 DEF MarkClosed, Changing
<1>6. ShareTypeOK'
  BY <1>4, <1>5 DEF ShareTypeOK, Loopback, Changing
<1>7. Chosen'
  BY <1>1, <1>2, <1>4, <1>5 DEF Chosen, MarkClosed
<1>8. Found'
  BY <1>1, <1>2, <1>4, <1>5 DEF Found
<1>9. Fed'
  BY <1>1, <1>2, <1>4, <1>5 DEF Fed
<1> QED
  BY <1>6, <1>7, <1>8, <1>9

\* The end of a reception takes the picture off the server that has it.
LEMMA EndReceptionFrees ==
  ASSUME ShareInv, NEW v \in Visits, NEW pc \in Present \cup {"gone"},
         visit[v].pc \in Present, EndReception(v, pc)
  PROVE  /\ server' \in [Servers -> Loopback] /\ visit' \in [Visits -> Session]
         /\ telling' \subseteq Visits \X BOOLEAN
         /\ \A s \in Servers : /\ server'[s].pc = server[s].pc
                               /\ server'[s].feeds = IF server[s].feeds = v THEN 0 ELSE server[s].feeds
         /\ visit'[v].pc = pc /\ visit'[v].over /\ visit'[v].at = visit[v].at
         /\ \A w \in Visits : w # v => visit'[w] = visit[w]
<1> USE DEF ShareInv
<1> DEFINE s == visit[v].at
           y == [visit[v] EXCEPT !.over = TRUE, !.pc = pc]
           x == [server[s] EXCEPT !.feeds = IF ~visit[v].over /\ @ = v THEN 0 ELSE @]
<1>1. server \in [Servers -> Loopback] /\ visit \in [Visits -> Session] /\ s \in Servers
  BY DEF ShareTypeOK, Loopback, Session, Found
<1>2. y \in Session /\ y.over /\ y.pc = pc /\ y.at = visit[v].at
  BY <1>1 DEF Session, Present
<1>3. visit' = [visit EXCEPT ![v] = y]
  BY <1>1 DEF EndReception, Session
<1>4. x \in Loopback /\ x.pc = server[s].pc
      /\ x.feeds = IF ~visit[v].over /\ server[s].feeds = v THEN 0 ELSE server[s].feeds
  BY <1>1 DEF Loopback
<1>5. server' = [server EXCEPT ![s] = x]
  BY <1>1 DEF EndReception, Loopback
<1>6. telling' \subseteq Visits \X BOOLEAN
  <2>1. <<v, FALSE>> \in Visits \X BOOLEAN
    OBVIOUS
  <2>2. telling' = telling \/ telling' = telling \cup {<<v, FALSE>>}
    BY DEF EndReception
  <2> QED
    BY <2>1, <2>2 DEF ShareTypeOK
<1> HIDE DEF x, y
<1>7. /\ server' \in [Servers -> Loopback] /\ server'[s] = x
      /\ \A t \in Servers : t # s => server'[t] = server[t]
  BY <1>1, <1>4, <1>5
<1>8. /\ visit' \in [Visits -> Session] /\ visit'[v] = y
      /\ \A w \in Visits : w # v => visit'[w] = visit[w]
  BY <1>1, <1>2, <1>3
<1>9. v # 0
  BY DEF Visits
<1>10. \A t \in Servers : server[t].feeds = v => t = s /\ ~visit[v].over
  BY <1>9 DEF Fed
<1> HIDE DEF s
<1> QED
  BY <1>1, <1>2, <1>4, <1>6, <1>7, <1>8, <1>10

\* The picture ends with its server.
LEMMA EndPictureStep ==
  ASSUME ShareInv, EndPicture
  PROVE  ShareInv'
<1> USE DEF ShareInv
<1> DEFINE v == server[shared].feeds
<1>1. shared \in Servers /\ server[shared].pc = "closed" /\ setting \in Changing
  BY DEF EndPicture, Chosen, ShareTypeOK, Changing
<1>2. /\ setting' \in Changing /\ setting'.pc \in {"start", "look"}
      /\ shared' = 0 /\ UNCHANGED <<receiver, receptions, window>> /\ receiver = 0
  BY <1>1 DEF EndPicture, Changing, Chosen
<1>3. v \in {0} \cup Visits
  BY <1>1 DEF ShareTypeOK
<1>4. CASE v = 0
  <2>1. UNCHANGED <<server, visit, telling>>
    BY <1>4 DEF EndPicture
  <2>2. \A s \in Servers : server[s].feeds = 0
    BY <1>4 DEF Fed
  <2>3. ShareTypeOK'
    BY <1>2, <2>1 DEF ShareTypeOK, Changing
  <2>4. Chosen'
    BY <1>1, <1>2, <2>1 DEF Chosen
  <2>5. Found' /\ Fed'
    BY <2>1, <2>2 DEF Found, Fed
  <2> QED
    BY <2>3, <2>4, <2>5
<1>5. CASE v # 0
  <2>1. v \in Visits /\ visit[v].pc \in Present /\ EndReception(v, visit[v].pc)
    BY <1>1, <1>3, <1>5 DEF EndPicture, Fed
  <2> HIDE DEF v
  <2>2. /\ server' \in [Servers -> Loopback] /\ visit' \in [Visits -> Session]
        /\ telling' \subseteq Visits \X BOOLEAN
        /\ \A s \in Servers : /\ server'[s].pc = server[s].pc
                              /\ server'[s].feeds = IF server[s].feeds = v THEN 0 ELSE server[s].feeds
        /\ visit'[v].pc = visit[v].pc /\ visit'[v].over /\ visit'[v].at = visit[v].at
        /\ \A w \in Visits : w # v => visit'[w] = visit[w]
    BY <2>1, EndReceptionFrees
  <2>3. \A s \in Servers : server'[s].feeds = 0
    BY <2>2 DEF v, Fed
  <2>4. ShareTypeOK'
    BY <1>2, <2>2 DEF ShareTypeOK, Changing, Loopback, Session
  <2>5. Chosen'
    BY <1>1, <1>2, <2>2 DEF Chosen
  <2>6. Found'
    BY <2>1, <2>2 DEF Found, Present, ShareTypeOK
  <2>7. Fed'
    BY <2>3 DEF Fed
  <2> QED
    BY <2>4, <2>5, <2>6, <2>7
<1> QED
  BY <1>4, <1>5

\* A new server is the one shared, and the one found from now on.
LEMMA StartShareStep ==
  ASSUME ShareInv, StartShare
  PROVE  ShareInv'
<1> USE DEF ShareInv
<1> DEFINE new == [pc |-> "open", port |-> setting.port, feeds |-> 0]
<1>1. PICK s \in Servers : /\ server[s].pc = "none" /\ server' = [server EXCEPT ![s] = new]
                           /\ shared' = s /\ receiver' = s
  BY DEF StartShare
<1>2. /\ setting \in Changing /\ setting.pc = "start" /\ shared = 0
      /\ UNCHANGED <<visit, receptions, telling, window>>
  BY DEF StartShare, Chosen, ShareTypeOK, Changing, enclave
<1>3. setting' \in Changing /\ setting'.pc = "look"
  BY <1>2 DEF StartShare, Changing
<1>4. new \in Loopback /\ new.pc = "open" /\ new.feeds = 0
  BY <1>2 DEF Loopback, Changing
<1> HIDE DEF new
<1>5. /\ server' \in [Servers -> Loopback] /\ server'[s] = new
      /\ \A t \in Servers : t # s => server'[t] = server[t]
  BY <1>1, <1>4 DEF ShareTypeOK, Loopback
<1>6. 0 \notin Servers
  BY DEF Servers
<1>7. ShareTypeOK'
  <2>1. shared' \in {0} \cup Servers /\ receiver' \in {0} \cup Servers
    BY <1>1
  <2> QED
    BY <1>2, <1>3, <1>5, <2>1 DEF ShareTypeOK, Loopback, Changing
<1>8. Chosen'
  BY <1>1, <1>2, <1>3, <1>4, <1>5, <1>6 DEF Chosen
<1>9. Found'
  BY <1>2, <1>4, <1>5 DEF Found
<1>10. \A t \in Servers : server'[t].feeds = 0
  BY <1>2, <1>4, <1>5 DEF Fed, Servers
<1>11. Fed'
  BY <1>10 DEF Fed
<1> QED
  BY <1>7, <1>8, <1>9, <1>11

\* Reporting, or failing, leaves what is shared.
LEMMA ReportStep ==
  ASSUME ShareInv, StartFails \/ LookArriving \/ ReportShare
  PROVE  ShareInv'
<1> USE DEF ShareInv
<1>1. /\ setting \in Changing /\ setting' \in Changing /\ setting'.pc \in {"idle", "report"}
      /\ UNCHANGED <<server, shared, receiver, visit, receptions, telling>>
  <2>1. setting \in Changing
    BY DEF ShareTypeOK, Changing
  <2>2. CASE setting' = Settled
    BY <2>1, <2>2 DEF StartFails, LookArriving, ReportShare, Settled, Changing, enclave
  <2>3. CASE LookArriving
    <3>1. Arriving(shared) \in BOOLEAN
      BY DEF Arriving
    <3> QED
      BY <2>1, <2>3, <3>1 DEF LookArriving, Changing, enclave
  <2> QED
    BY <2>2, <2>3 DEF StartFails, ReportShare
<1>2. Port(shared) \in {0} \cup Ports
  BY DEF Port, ShareTypeOK
<1>3. window' \in [port : {0} \cup Ports, arriving : BOOLEAN]
  BY <1>1, <1>2 DEF StartFails, LookArriving, ReportShare, ShareTypeOK, Changing
<1>4. ShareTypeOK'
  BY <1>1, <1>3 DEF ShareTypeOK, Changing
<1>5. Chosen'
  BY <1>1 DEF Chosen
<1>6. Found' /\ Fed'
  BY <1>1 DEF Found, Fed
<1> QED
  BY <1>4, <1>5, <1>6

\* A session's move that takes no picture and ends none.
LEMMA MovesStep ==
  ASSUME ShareInv, NEW v \in Visits, NEW y \in Session,
         visit' = [visit EXCEPT ![v] = y], UNCHANGED <<server, choice, telling, window>>,
         receptions' \subseteq Visits,
         y.pc \in {"asked"} \cup Present => y.at \in Servers /\ server[y.at].pc # "none",
         y.pc \in {"none", "asked"} => ~y.over,
         visit[v].pc \in Present => y.pc \in Present /\ y.at = visit[v].at /\ y.over = visit[v].over
  PROVE  ShareInv'
<1> USE DEF ShareInv
<1>1. visit \in [Visits -> Session]
  BY DEF ShareTypeOK, Session
<1>2. visit' \in [Visits -> Session] /\ visit'[v] = y /\ \A w \in Visits : w # v => visit'[w] = visit[w]
  BY <1>1
<1>3. ShareTypeOK'
  BY <1>2 DEF ShareTypeOK, Session, choice
<1>4. Chosen'
  BY DEF Chosen, choice
<1>5. Found'
  <2> SUFFICES ASSUME NEW w \in Visits
               PROVE  /\ visit'[w].pc \in {"asked"} \cup Present =>
                           visit'[w].at \in Servers /\ server[visit'[w].at].pc # "none"
                      /\ visit'[w].pc \in {"none", "asked"} => ~visit'[w].over
    BY DEF Found
  <2>1. CASE w = v
    BY <1>2, <2>1
  <2>2. CASE w # v
    BY <1>2, <2>2 DEF Found
  <2> QED
    BY <2>1, <2>2
<1>6. Fed'
  <2> SUFFICES ASSUME NEW s \in Servers, server[s].feeds # 0
               PROVE  LET w == server[s].feeds IN
                      shared' = s /\ visit'[w].pc \in Present /\ visit'[w].at = s /\ ~visit'[w].over
    BY DEF Fed
  <2>1. server[s].feeds \in Visits
    BY DEF ShareTypeOK
  <2> QED
    BY <1>2, <2>1 DEF Fed, choice
<1> QED
  BY <1>3, <1>4, <1>5, <1>6

\* An ANNOUNCE finds the server shared, or none and is refused.
LEMMA AnnouncesStep ==
  ASSUME ShareInv, NEW v \in Visits, Announces(v)
  PROVE  ShareInv'
<1> USE DEF ShareInv
<1> DEFINE pc == IF receiver = 0 THEN "gone" ELSE "asked"
           y == [visit[v] EXCEPT !.pc = pc, !.at = receiver]
<1>1. visit[v] \in Session /\ visit[v].pc = "none" /\ ~visit[v].over
  BY DEF Announces, ShareTypeOK, Session, Found
<1>2. y \in Session /\ y.pc = pc /\ y.at = receiver /\ ~y.over
  BY <1>1 DEF Session, ShareTypeOK
<1>3. visit' = [visit EXCEPT ![v] = y]
  BY <1>1 DEF Announces, ShareTypeOK
<1>4. receiver # 0 => receiver \in Servers /\ server[receiver].pc # "none"
  BY DEF Chosen, ShareTypeOK
<1>5. receptions' \subseteq Visits /\ UNCHANGED <<server, choice, telling, window>>
  BY DEF Announces, ShareTypeOK
<1>6. /\ y.pc \in {"asked"} \cup Present => y.at \in Servers /\ server[y.at].pc # "none"
      /\ y.pc \in {"none", "asked"} => ~y.over
      /\ visit[v].pc \notin Present
  BY <1>1, <1>2, <1>4 DEF Present
<1> HIDE DEF y
<1> QED
  BY <1>2, <1>3, <1>5, <1>6, MovesStep

\* The reception is kept and let go by its session.
LEMMA KeepReceptionStep ==
  ASSUME ShareInv, NEW v \in Visits, KeepReception(v) \/ SessionCloses(v)
  PROVE  ShareInv'
<1> USE DEF ShareInv
<1>1. PICK pc \in {"on", "leaving"} : Moves(v, pc)
  BY DEF KeepReception, SessionCloses
<1> DEFINE y == [visit[v] EXCEPT !.pc = pc]
<1>2. visit[v] \in Session /\ visit[v].pc \in Present
  BY DEF KeepReception, SessionCloses, ShareTypeOK, Session, Present
<1>3. y \in Session /\ y.pc = pc /\ y.at = visit[v].at /\ y.over = visit[v].over
  BY <1>2 DEF Session
<1>4. visit' = [visit EXCEPT ![v] = y]
  BY <1>1, <1>2 DEF Moves, ShareTypeOK
<1>5. receptions' \subseteq Visits /\ UNCHANGED <<server, choice, telling, window>>
  BY DEF KeepReception, SessionCloses, ShareTypeOK
<1>6. y.pc \in Present /\ y.at \in Servers /\ server[y.at].pc # "none" /\ y.pc \notin {"none", "asked"}
  BY <1>2, <1>3 DEF Found, Present
<1> HIDE DEF y
<1> QED
  BY <1>2, <1>3, <1>4, <1>5, <1>6, MovesStep

\* A picture is taken only by the server shared, whatever was found before.
LEMMA PublishPhoneStep ==
  ASSUME ShareInv, NEW v \in Visits, PublishPhone(v)
  PROVE  ShareInv'
<1> USE DEF ShareInv
<1> DEFINE s == visit[v].at
<1>1. /\ visit[v] \in Session /\ visit[v].pc = "asked" /\ ~visit[v].over
      /\ s \in Servers /\ server[s].pc # "none" /\ server[s] \in Loopback
  BY DEF PublishPhone, ShareTypeOK, Session, Found, Loopback
<1>2. UNCHANGED <<choice, receptions, window>>
  BY DEF PublishPhone
<1>3. CASE Moves(v, "gone") /\ UNCHANGED <<server, telling>>
  <2> DEFINE y == [visit[v] EXCEPT !.pc = "gone"]
  <2>1. y \in Session /\ y.pc = "gone"
    BY <1>1 DEF Session
  <2>2. visit' = [visit EXCEPT ![v] = y]
    BY <1>1, <1>3 DEF Moves, ShareTypeOK
  <2>3. receptions' \subseteq Visits
    BY <1>2 DEF ShareTypeOK
  <2>4. /\ y.pc \notin {"asked"} \cup Present /\ y.pc \notin {"none", "asked"}
        /\ visit[v].pc \notin Present
    BY <1>1, <2>1 DEF Present
  <2> HIDE DEF y
  <2> QED
    BY <1>2, <1>3, <2>1, <2>2, <2>3, <2>4, MovesStep
<1>4. CASE server[s].pc # "closed" /\ server[s].feeds = 0 /\ Feeds(v, s)
  <2> DEFINE y == [visit[v] EXCEPT !.pc = "taken"]
             x == [server[s] EXCEPT !.feeds = v]
  <2>1. y \in Session /\ y.pc = "taken" /\ y.at = s /\ ~y.over
    BY <1>1 DEF Session
  <2>2. visit' = [visit EXCEPT ![v] = y]
    BY <1>1, <1>4 DEF Feeds, Moves, ShareTypeOK
  <2>3. x \in Loopback /\ x.feeds = v /\ x.pc = server[s].pc
    BY <1>1 DEF Loopback
  <2>4. server' = [server EXCEPT ![s] = x]
    BY <1>1, <1>4 DEF Feeds, ShareTypeOK
  <2>5. shared = s
    BY <1>1, <1>4 DEF Chosen, Loopback
  <2> HIDE DEF x, y, s
  <2>6. visit' \in [Visits -> Session] /\ visit'[v] = y /\ \A w \in Visits : w # v => visit'[w] = visit[w]
    BY <2>1, <2>2 DEF ShareTypeOK, Session
  <2>7. server' \in [Servers -> Loopback] /\ server'[s] = x /\ \A t \in Servers : t # s => server'[t] = server[t]
    BY <2>3, <2>4, <1>1 DEF ShareTypeOK, Loopback
  <2>8. telling' \subseteq Visits \X BOOLEAN
    <3>1. <<v, TRUE>> \in Visits \X BOOLEAN
      OBVIOUS
    <3> QED
      BY <1>4, <3>1 DEF Feeds, ShareTypeOK
  <2>9. ShareTypeOK'
    BY <1>2, <2>6, <2>7, <2>8 DEF ShareTypeOK, choice, Session, Loopback
  <2>10. Chosen'
    <3>1. \A t \in Servers : server'[t].pc = server[t].pc
      BY <2>3, <2>7
    <3> QED
      BY <1>2, <3>1 DEF Chosen, choice, ShareTypeOK
  <2>11. Found'
    <3> SUFFICES ASSUME NEW w \in Visits
                 PROVE  /\ visit'[w].pc \in {"asked"} \cup Present =>
                             visit'[w].at \in Servers /\ server'[visit'[w].at].pc # "none"
                        /\ visit'[w].pc \in {"none", "asked"} => ~visit'[w].over
      BY DEF Found
    <3>1. \A t \in Servers : server'[t].pc = server[t].pc
      BY <2>3, <2>7
    <3>2. CASE w = v
      BY <1>1, <2>1, <2>6, <3>1, <3>2
    <3>3. CASE w # v
      BY <2>6, <3>1, <3>3 DEF Found
    <3> QED
      BY <3>2, <3>3
  <2>12. Fed'
    <3> SUFFICES ASSUME NEW t \in Servers, server'[t].feeds # 0
                 PROVE  LET w == server'[t].feeds IN
                        shared' = t /\ visit'[w].pc \in Present /\ visit'[w].at = t /\ ~visit'[w].over
      BY DEF Fed
    <3>1. CASE t = s
      BY <1>2, <2>1, <2>3, <2>5, <2>6, <2>7, <3>1 DEF choice, Present
    <3>2. CASE t # s
      BY <2>5, <2>7, <3>2 DEF Fed
    <3> QED
      BY <3>1, <3>2
  <2> QED
    BY <2>9, <2>10, <2>11, <2>12
<1> QED
  BY <1>3, <1>4 DEF PublishPhone

\* The session's end takes its picture off, if it has one.
LEMMA CloseReceptionStep ==
  ASSUME ShareInv, NEW v \in Visits, CloseReception(v)
  PROVE  ShareInv'
<1> USE DEF ShareInv
<1>1. visit[v].pc \in Present /\ EndReception(v, "gone") /\ UNCHANGED <<choice, receptions, window>>
  BY DEF CloseReception, Present
<1>2. /\ server' \in [Servers -> Loopback] /\ visit' \in [Visits -> Session]
      /\ telling' \subseteq Visits \X BOOLEAN
      /\ \A s \in Servers : /\ server'[s].pc = server[s].pc
                            /\ server'[s].feeds = IF server[s].feeds = v THEN 0 ELSE server[s].feeds
      /\ visit'[v].pc = "gone" /\ visit'[v].over /\ visit'[v].at = visit[v].at
      /\ \A w \in Visits : w # v => visit'[w] = visit[w]
  BY <1>1, EndReceptionFrees
<1>3. ShareTypeOK'
  BY <1>1, <1>2 DEF ShareTypeOK, choice, Loopback, Session
<1>4. Chosen'
  BY <1>1, <1>2 DEF Chosen, choice, ShareTypeOK
<1>5. Found'
  BY <1>2 DEF Found, Present
<1>6. Fed'
  <2> SUFFICES ASSUME NEW s \in Servers, server'[s].feeds # 0
               PROVE  LET w == server'[s].feeds IN
                      shared' = s /\ visit'[w].pc \in Present /\ visit'[w].at = s /\ ~visit'[w].over
    BY DEF Fed
  <2>1. server[s].feeds = server'[s].feeds /\ server[s].feeds # v /\ server[s].feeds \in Visits
    BY <1>2 DEF ShareTypeOK
  <2> QED
    BY <1>1, <1>2, <2>1 DEF Fed, choice
<1> QED
  BY <1>3, <1>4, <1>5, <1>6

\* Telling the window changes nothing else.
LEMMA TellShareStep ==
  ASSUME ShareInv, NEW v \in Visits, NEW arriving \in BOOLEAN, TellShare(v, arriving)
  PROVE  ShareInv'
<1> USE DEF ShareInv
<1>1. UNCHANGED <<server, shared, receiver, setting, visit, receptions>> /\ telling' \subseteq telling
  BY DEF TellShare, choice, enclave
<1>2. Port(visit[v].at) \in {0} \cup Ports
  BY DEF Port, ShareTypeOK
<1>3. window' \in [port : {0} \cup Ports, arriving : BOOLEAN]
  BY <1>2 DEF TellShare, ShareTypeOK
<1>4. ShareTypeOK'
  BY <1>1, <1>3 DEF ShareTypeOK
<1> QED
  BY <1>1, <1>4 DEF Chosen, Found, Fed

\* Every step of the choice, of the sessions and of what the window is told.
LEMMA ShareInductive == ShareInv /\ [ShareNext]_shareVars => ShareInv'
<1> SUFFICES ASSUME ShareInv, [ShareNext]_shareVars PROVE ShareInv'
  OBVIOUS
<1>1. CASE UNCHANGED shareVars
  BY <1>1 DEF shareVars, choice, enclave, ShareInv, ShareTypeOK, Chosen, Found, Fed
<1> QED
  BY <1>1, SetShareStep, MarkClosedStep, EndPictureStep, StartShareStep, ReportStep, AnnouncesStep,
     PublishPhoneStep, KeepReceptionStep, CloseReceptionStep, TellShareStep DEF ShareNext

\* What the phone's theorem rests on holds throughout.
THEOREM ShareInvariant == ShareSpec => []ShareInv
  BY ShareInitInvariant, ShareInductive, PTL DEF ShareSpec

\* Not asked for any more, or served elsewhere, the phone's picture is on no server
\* of before, and one that keeps others out is of a session that will end it, for any
\* servers, sessions and ports.
THEOREM OffMeansOffHolds == ShareSpec => []OffMeansOff
<1>1. ShareInv => OffMeansOff
  BY DEF ShareInv, Fed, OffMeansOff, Present
<1> QED
  BY <1>1, ShareInvariant, PTL

-----------------------------------------------------------------------------
(* The computer's own camera: what its steps preserve. *)

Running == [proc : {0} \cup Procs, pc : {"none", "start", "top", "proc", "reset", "close", "done"}]

Encoder == [pc : {"none", "run", "gone"}, run : {0} \cup Runs, rate : 0 .. Rungs]

Announced == [pc : {"none", "joins", "open", "refused", "left", "closes", "gone"}, pub : Nat]

Published ==
  [id : Nat, armed : {"no", "yes", "late"}, timer : {"none", "set", "due"}, released : BOOLEAN,
   owed : Nat, gen : Nat, feeder : {0} \cup Procs, doomed : Nat, cleared : BOOLEAN]

Adapting == [pc : {"idle", "take", "arm", "cancel"}, in : {0} \cup Runs, proc : {0} \cup Procs, pub : Nat]

\* Source, its runs and its ffmpegs, by type.
SourceType ==
  /\ cancel \in {0} \cup Runs /\ ended \subseteq Runs
  /\ srcIn \in {0} \cup Runs /\ procCancel \in {0} \cup Procs /\ bitrate \in 0 .. Rungs
  /\ run \in [Runs -> Running] /\ proc \in [Procs -> Encoder] /\ asked \subseteq Procs
  /\ adapter \in [Runs -> Adapting]
  /\ \A r \in Runs : adapter[r].pc # "idle" => adapter[r].in \in Runs /\ adapter[r].proc \in Procs

\* The sessions, the intakes and the stream, by type.
StreamType ==
  /\ sess \in [Procs -> Announced] /\ intake \in [Runs -> [pub : Nat, proc : {0} \cup Procs]]
  /\ pub \in Published /\ made \in Nat /\ firing \subseteq Nat

\* A run that has begun is the one that Stop would end, or was ended; an ffmpeg is
\* of a run that has begun one, and the Adapter at rest thinks of none.
RunsKnown ==
  /\ \A r \in Runs : run[r].pc # "none" => r \in ended \/ r = cancel
  /\ \A p \in Procs : proc[p].pc # "none" =>
       proc[p].run \in Runs /\ run[proc[p].run].pc \notin {"none", "start"}
  /\ \A r \in Runs : adapter[r].pc = "idle" => adapter[r].proc = 0

RateInv == SourceType /\ RunsKnown /\ ReachedRate

\* The intake knows one session of its run that is open, with the publication it
\* was taken into, and a session that left holds the one it is to release.
Sessions ==
  /\ \A p \in Procs : proc[p].pc = "none" => sess[p].pc = "none"
  /\ \A r \in Runs :
       /\ intake[r].proc = 0 => intake[r].pub = 0
       /\ intake[r].proc # 0 =>
            /\ intake[r].pub \in 1 .. made
            /\ proc[intake[r].proc].run = r /\ sess[intake[r].proc].pc = "open"
  /\ \A p \in Procs : sess[p].pc = "left" => sess[p].pub \in 1 .. made

\* Nothing is left of a publication that is closed; one that is open is fed by a
\* session that its intake knows while it is open.
FeederKnown ==
  /\ pub.id = 0 => pub = NoPub
  /\ pub.id # 0 => pub.id <= made /\ pub.feeder \in Procs
  /\ pub.id # 0 /\ sess[pub.feeder].pc = "open" =>
       intake[proc[pub.feeder].run] = [pub |-> pub.id, proc |-> pub.feeder]

\* The sessions whose Release of the publication is still to come.
Outstanding ==
  {p \in Procs : \/ sess[p].pc = "left" /\ sess[p].pub = pub.id
                 \/ sess[p].pc = "open" /\ intake[proc[p].run] = [pub |-> pub.id, proc |-> p]}

\* No more releases are to come than are owed, and the one of the publisher that
\* feeds the stream until that has been called.
Counted ==
  pub.id # 0 => Cardinality(Outstanding) <= pub.owed + (IF pub.released THEN 0 ELSE 1)

\* The grace runs, or waits for the mutex, only for a publisher that has released;
\* and that one has left.
GraceForReleased ==
  /\ \A g \in firing : g <= pub.gen
  /\ pub.timer # "none" \/ pub.gen \in firing => pub.released
  /\ pub.id # 0 /\ pub.released => sess[pub.feeder].pc # "open"

\* What is to be joined stays published until it is: its close waits for the mutex.
Joining == (\E p \in Procs : sess[p].pc = "joins") => pub.id # 0

\* A close is decided with no publisher there, and goes on only once it was.
Decided ==
  /\ pub.doomed <= pub.gen /\ (pub.cleared => pub.doomed # 0)
  /\ pub.doomed # 0 /\ pub.doomed = pub.gen => sess[pub.feeder].pc # "open"

StreamInv ==
  /\ StreamType /\ Sessions /\ FeederKnown /\ Counted /\ GraceForReleased
  /\ Joining /\ Decided

IInv == RateInv /\ StreamInv

\* A set of natural numbers has a least.
LEMMA Least ==
  ASSUME NEW S \in SUBSET Nat, S # {}
  PROVE  \E n \in S : \A m \in S : n <= m
<1>1. PICK n \in S : \A m \in S : ~ (<<m, n>> \in OpToRel(<, Nat))
  BY NatLessThanWellFounded, WFMin
<1>2. \A m \in S : ~ (m < n)
  BY <1>1 DEF OpToRel
<1> QED
  BY <1>2

\* The next ffmpeg is one that was never started.
LEMMA NextProcIsNew ==
  ASSUME \E p \in Procs : proc[p].pc = "none"
  PROVE  NextProc \in Procs /\ proc[NextProc].pc = "none"
<1> DEFINE S == {p \in Procs : proc[p].pc = "none"}
<1>1. PICK p \in S : \A q \in S : p <= q
  <2>1. S \in SUBSET Nat /\ S # {}
    BY DEF Procs
  <2> HIDE DEF S
  <2> QED
    BY <2>1, Least
<1>2. p \in Procs /\ proc[p].pc = "none" /\ p \in Nat
  BY DEF Procs
<1>3. ASSUME NEW q \in 1 .. p - 1 PROVE proc[q].pc # "none"
  <2>1. q \in Procs /\ q < p
    BY <1>2, <1>3, StreamsAssumption DEF Procs
  <2> QED
    BY <1>1, <1>2, <2>1 DEF Procs
<1>4. \E x \in Procs : proc[x].pc = "none" /\ \A q \in 1 .. x - 1 : proc[q].pc # "none"
  BY <1>2, <1>3
<1> HIDE DEF S
<1> QED
  BY <1>4 DEF NextProc

\* A step of the Source keeps its types.
LEMMA SourceTypeStep ==
  ASSUME SourceType, StreamType, [Next]_vars
  PROVE  SourceType'
<1> USE DEF SourceType
<1>1. CASE UNCHANGED <<cancel, ended, srcIn, procCancel, bitrate, run, proc, asked, adapter>>
  BY <1>1
<1>2. CASE Start
  BY <1>2 DEF Start, Step, Running, source, adapt
<1>3. CASE Stop
  BY <1>3, StreamsAssumption DEF Stop, procs, adapt
<1>4. ASSUME NEW r \in Runs, Intake(r) \/ TopEnded(r) \/ Ended(r) \/ Reset(r) \/ CloseIntake(r)
      PROVE  SourceType'
  <2>1. run' \in [Runs -> Running]
    BY <1>4 DEF Intake, TopEnded, Ended, Reset, CloseIntake, Step, Running
  <2>2. /\ srcIn' \in {0} \cup Runs /\ procCancel' \in {0} \cup Procs
        /\ UNCHANGED <<cancel, ended, bitrate, proc, asked, adapter>>
    BY <1>4 DEF Intake, TopEnded, Ended, Reset, CloseIntake, camera, source, adapt
  <2> QED
    BY <2>1, <2>2
<1>5. ASSUME NEW r \in Runs, Top(r) PROVE SourceType'
  <2>1. NextProc \in Procs
    BY <1>5, NextProcIsNew DEF Top
  <2>2. /\ [pc |-> "proc", proc |-> NextProc] \in Running
        /\ [pc |-> "run", run |-> r, rate |-> bitrate] \in Encoder
    BY <2>1 DEF Running, Encoder
  <2> QED
    BY <1>5, <2>1, <2>2 DEF Top, camera, adapt
<1>6. ASSUME NEW p \in Procs, Exits(p) PROVE SourceType'
  <2>1. proc[p] \in Encoder /\ 0 \in 0 .. Rungs
    BY StreamsAssumption
  <2>2. [proc[p] EXCEPT !.pc = "gone", !.rate = 0] \in Encoder
    BY <2>1 DEF Encoder
  <2> QED
    BY <1>6, <2>2 DEF Exits, camera, source, adapt
<1>7. ASSUME NEW r \in Runs, Reshape(r) PROVE SourceType'
  <2> DEFINE x == IF procCancel # 0 /\ srcIn # 0
                  THEN [pc |-> "take", in |-> srcIn, proc |-> procCancel, pub |-> 0] ELSE Asleep
  <2>1. x \in Adapting /\ (x.pc # "idle" => x.in \in Runs /\ x.proc \in Procs)
    BY DEF Adapting, Asleep
  <2>2. adapter' = [adapter EXCEPT ![r] = x] /\ bitrate' \in 0 .. Rungs
        /\ UNCHANGED <<cancel, ended, srcIn, procCancel, run, proc, asked>>
    BY <1>7 DEF Reshape, camera, procs
  <2> HIDE DEF x
  <2> QED
    BY <2>1, <2>2
<1>8. ASSUME NEW r \in Runs, TakePub(r) \/ ArmHandover(r) PROVE SourceType'
  <2>1. PICK x \in Adapting : /\ adapter' = [adapter EXCEPT ![r] = x]
                              /\ x.in = adapter[r].in /\ x.proc = adapter[r].proc
    <3>1. adapter[r].pc # "idle" /\ adapter[r] \in Adapting
      BY <1>8 DEF TakePub, ArmHandover
    <3>2. CASE TakePub(r)
      <4> DEFINE x == [adapter[r] EXCEPT !.pub = intake[adapter[r].in].pub, !.pc = "arm"]
      <4>1. intake[adapter[r].in].pub \in Nat
        BY <3>1 DEF StreamType
      <4>2. adapter' = [adapter EXCEPT ![r] = x]
        BY <3>1, <3>2 DEF TakePub, Adapting
      <4>3. x \in Adapting /\ x.in = adapter[r].in /\ x.proc = adapter[r].proc
        BY <3>1, <4>1 DEF Adapting
      <4> HIDE DEF x
      <4> QED
        BY <4>2, <4>3
    <3>3. CASE ArmHandover(r)
      <4> DEFINE x == [adapter[r] EXCEPT !.pc = "cancel"]
      <4>1. adapter' = [adapter EXCEPT ![r] = x]
        BY <3>1, <3>3 DEF ArmHandover, Turn, Adapting
      <4>2. x \in Adapting /\ x.in = adapter[r].in /\ x.proc = adapter[r].proc
        BY <3>1 DEF Adapting
      <4> HIDE DEF x
      <4> QED
        BY <4>1, <4>2
    <3> QED
      BY <1>8, <3>2, <3>3
  <2>2. x.in \in Runs /\ x.proc \in Procs
    BY <1>8, <2>1 DEF TakePub, ArmHandover
  <2> QED
    BY <1>8, <2>1, <2>2 DEF TakePub, ArmHandover, camera, source, procs
<1>9. ASSUME NEW r \in Runs, CancelProc(r) PROVE SourceType'
  <2>1. Asleep \in Adapting /\ Asleep.pc = "idle"
    BY DEF Asleep, Adapting
  <2>2. adapter[r].proc \in Procs
    BY <1>9 DEF CancelProc
  <2> QED
    BY <1>9, <2>1, <2>2 DEF CancelProc, camera, source
<1>10. CASE \/ Late \/ Fire \/ CloseGrace \/ CloseStream \/ \E g \in firing : GraceOver(g)
            \/ \E p \in Procs : Announce(p) \/ Joins(p) \/ Leave(p) \/ Release(p) \/ Closed(p)
  BY <1>1, <1>10 DEF Late, Fire, CloseGrace, CloseStream, GraceOver, Announce, Joins, Leave, Release, Closed, camera,
     source, procs, adapt
<1> QED
  BY <1>1, <1>2, <1>3, <1>4, <1>5, <1>6, <1>7, <1>8, <1>9, <1>10
     DEF Next, OfRun, OfProc, vars, camera, source, procs, adapt

\* A run that begins is the one to end, an ffmpeg is of a run that is there.
LEMMA RunsKnownStep ==
  ASSUME SourceType, RunsKnown, [Next]_vars
  PROVE  RunsKnown'
<1> USE DEF SourceType, RunsKnown
<1>1. CASE UNCHANGED <<cancel, ended, run, proc, adapter>>
  BY <1>1
<1>2. CASE Start
  <2>1. PICK r \in Runs : run[r].pc = "none" /\ cancel' = r /\ Step(r, "start")
    BY <1>2 DEF Start
  <2>2. /\ run'[r].pc = "start" /\ \A s \in Runs : s # r => run'[s] = run[s]
        /\ cancel = 0 /\ UNCHANGED <<ended, proc, adapter>>
    BY <1>2, <2>1 DEF Start, Step, adapt, Running
  <2>3. 0 \notin Runs
    BY DEF Runs
  <2>4. \A p \in Procs : proc[p].pc # "none" => proc[p].run # r
    BY <2>1
  <2> QED
    BY <2>1, <2>2, <2>3, <2>4
<1>3. CASE Stop
  BY <1>3 DEF Stop, procs, adapt
<1>4. ASSUME NEW r \in Runs, Intake(r) \/ TopEnded(r) \/ Ended(r) \/ Reset(r) \/ CloseIntake(r)
      PROVE  RunsKnown'
  <2>1. /\ run[r].pc # "none" /\ run'[r].pc \notin {"none", "start"}
        /\ \A s \in Runs : s # r => run'[s] = run[s]
    BY <1>4 DEF Intake, TopEnded, Ended, Reset, CloseIntake, Step, Running
  <2>2. UNCHANGED <<cancel, ended, proc, adapter>>
    BY <1>4 DEF Intake, TopEnded, Ended, Reset, CloseIntake, camera, adapt
  <2> QED
    BY <2>1, <2>2
<1>5. ASSUME NEW r \in Runs, Top(r) PROVE RunsKnown'
  <2>1. NextProc \in Procs
    BY <1>5, NextProcIsNew DEF Top
  <2>2. /\ run[r].pc # "none" /\ run' = [run EXCEPT ![r] = [pc |-> "proc", proc |-> NextProc]]
        /\ proc' = [proc EXCEPT ![NextProc] = [pc |-> "run", run |-> r, rate |-> bitrate]]
        /\ UNCHANGED <<cancel, ended, adapter>>
    BY <1>5 DEF Top, camera, adapt
  <2>3. run'[r].pc = "proc" /\ \A s \in Runs : s # r => run'[s] = run[s]
    BY <2>2
  <2>4. proc'[NextProc].run = r /\ \A p \in Procs : p # NextProc => proc'[p] = proc[p]
    BY <2>1, <2>2
  <2> QED
    BY <2>2, <2>3, <2>4
<1>6. ASSUME NEW p \in Procs, Exits(p) PROVE RunsKnown'
  <2>1. /\ proc[p].pc # "none" /\ proc'[p].run = proc[p].run
        /\ \A q \in Procs : q # p => proc'[q] = proc[q]
    BY <1>6 DEF Exits, Encoder
  <2> QED
    BY <1>6, <2>1 DEF Exits, camera, adapt
<1>7. ASSUME NEW r \in Runs, Reshape(r) PROVE RunsKnown'
  <2>1. adapter'[r].pc = "idle" => adapter'[r].proc = 0
    BY <1>7 DEF Reshape, Asleep
  <2>2. \A s \in Runs : s # r => adapter'[s] = adapter[s]
    BY <1>7 DEF Reshape
  <2> QED
    BY <1>7, <2>1, <2>2 DEF Reshape, camera, procs
<1>8. ASSUME NEW r \in Runs, TakePub(r) \/ ArmHandover(r) \/ CancelProc(r) PROVE RunsKnown'
  <2>1. adapter'[r].pc = "idle" => adapter'[r].proc = 0
    BY <1>8 DEF TakePub, ArmHandover, CancelProc, Turn, Asleep, Adapting
  <2>2. \A s \in Runs : s # r => adapter'[s] = adapter[s]
    BY <1>8 DEF TakePub, ArmHandover, CancelProc, Turn
  <2> QED
    BY <1>8, <2>1, <2>2 DEF TakePub, ArmHandover, CancelProc, camera, procs
<1>9. CASE \/ Late \/ Fire \/ CloseGrace \/ CloseStream \/ \E g \in firing : GraceOver(g)
           \/ \E p \in Procs : Announce(p) \/ Joins(p) \/ Leave(p) \/ Release(p) \/ Closed(p)
  BY <1>1, <1>9 DEF Late, Fire, CloseGrace, CloseStream, GraceOver, Announce, Joins, Leave, Release, Closed, camera,
     source, procs, adapt
<1> QED
  BY <1>1, <1>2, <1>3, <1>4, <1>5, <1>6, <1>7, <1>8, <1>9
     DEF Next, OfRun, OfProc, vars, camera, source, procs, adapt

\* An ffmpeg that the Source knows to be its own has the rate in force, or is about
\* to be replaced: one that starts reads it, and a step that changes it finds the
\* one that is there.
LEMMA ReachedRateStep ==
  ASSUME SourceType, RunsKnown, ReachedRate, [Next]_vars
  PROVE  ReachedRate'
<1> SUFFICES ASSUME NEW p \in Procs, Undisturbed(p)', procCancel' = p, srcIn' = proc'[p].run
             PROVE  proc'[p].rate = bitrate'
  BY DEF ReachedRate
<1> USE DEF SourceType
<1>1. p # 0 /\ proc'[p].pc = "run" /\ p \notin asked' /\ proc'[p].run \notin ended'
      /\ \A r \in Runs : adapter'[r].proc # p
  BY DEF Undisturbed, Told, Procs
<1>2. ASSUME UNCHANGED <<proc, bitrate, procCancel, srcIn>>, p \notin asked, proc[p].run \notin ended,
             \A r \in Runs : adapter[r].proc # p
      PROVE  proc'[p].rate = bitrate'
  BY <1>1, <1>2 DEF ReachedRate, Undisturbed, Told
<1>3. CASE UNCHANGED <<proc, bitrate, procCancel, srcIn, asked, ended, adapter>>
  BY <1>1, <1>2, <1>3
<1>4. CASE Start
  BY <1>1, <1>2, <1>4 DEF Start, source, adapt
<1>5. CASE Stop
  <2>1. proc[p].run \in Runs /\ run[proc[p].run].pc # "none"
    BY <1>1, <1>5 DEF Stop, procs, RunsKnown
  <2>2. proc[p].run \in ended \/ proc[p].run = cancel
    BY <2>1 DEF RunsKnown
  <2> QED
    BY <1>1, <1>5, <2>2 DEF Stop, procs
<1>6. ASSUME NEW r \in Runs, Intake(r) PROVE proc'[p].rate = bitrate'
  <2>1. proc[p].run = r /\ proc[p].pc = "run" /\ run[r].pc = "start"
    BY <1>1, <1>6 DEF Intake
  <2> QED
    BY <2>1 DEF RunsKnown
<1>7. ASSUME NEW r \in Runs, Top(r) PROVE proc'[p].rate = bitrate'
  <2>1. p = NextProc
    BY <1>7 DEF Top
  <2> QED
    BY <1>7, <2>1 DEF Top
<1>8. ASSUME NEW r \in Runs, TopEnded(r) \/ Ended(r) \/ Reset(r) PROVE proc'[p].rate = bitrate'
  BY <1>1, <1>8 DEF TopEnded, Ended, Reset
<1>9. ASSUME NEW q \in Procs, Exits(q) PROVE proc'[p].rate = bitrate'
  <2>1. p # q
    BY <1>1, <1>9 DEF Exits
  <2>2. proc'[p] = proc[p] /\ p \notin asked /\ UNCHANGED <<bitrate, procCancel, srcIn, ended, adapter>>
    BY <1>1, <1>9, <2>1 DEF Exits, camera, source, adapt
  <2> QED
    BY <1>1, <2>2 DEF ReachedRate, Undisturbed, Told
<1>10. ASSUME NEW r \in Runs, Reshape(r) PROVE proc'[p].rate = bitrate'
  <2>1. proc[p].run \in Runs /\ procCancel = p /\ srcIn = proc[p].run
    BY <1>1, <1>10 DEF Reshape, procs, RunsKnown
  <2>2. srcIn # 0
    BY <2>1 DEF Runs
  <2>3. adapter'[r].proc = p
    BY <1>1, <1>10, <2>1, <2>2 DEF Reshape
  <2> QED
    BY <1>1, <2>3
<1>11. ASSUME NEW r \in Runs, TakePub(r) \/ ArmHandover(r) PROVE proc'[p].rate = bitrate'
  <2>1. \A s \in Runs : adapter'[s].proc = adapter[s].proc
    BY <1>11 DEF TakePub, ArmHandover, Turn, Adapting
  <2> QED
    BY <1>1, <1>2, <1>11, <2>1 DEF TakePub, ArmHandover, camera, source, procs
<1>12. ASSUME NEW r \in Runs, CancelProc(r) PROVE proc'[p].rate = bitrate'
  <2>1. UNCHANGED <<proc, bitrate, procCancel, srcIn, ended>> /\ asked \subseteq asked'
    BY <1>12 DEF CancelProc, camera, source
  <2>2. adapter[r].proc # p
    BY <1>1, <1>12, <2>1 DEF CancelProc
  <2>3. \A s \in Runs : s # r => adapter'[s] = adapter[s]
    BY <1>12 DEF CancelProc
  <2> QED
    BY <1>1, <1>2, <2>1, <2>2, <2>3
<1>13. CASE \/ Late \/ Fire \/ CloseGrace \/ CloseStream \/ \E g \in firing : GraceOver(g)
            \/ \E q \in Procs : Announce(q) \/ Joins(q) \/ Leave(q) \/ Release(q) \/ Closed(q)
            \/ \E r \in Runs : CloseIntake(r)
  BY <1>3, <1>13 DEF Late, Fire, CloseGrace, CloseStream, GraceOver, Announce, Joins, Leave, Release, Closed,
     CloseIntake, camera, source, procs, adapt
<1> QED
  BY <1>3, <1>4, <1>5, <1>6, <1>7, <1>8, <1>9, <1>10, <1>11, <1>12, <1>13
     DEF Next, OfRun, OfProc, vars, camera, source, procs, adapt

\* An ffmpeg once started stays of its run.
LEMMA StaysOfRun ==
  ASSUME SourceType, [Next]_vars, NEW p \in Procs, proc[p].pc # "none"
  PROVE  proc'[p].pc # "none" /\ proc'[p].run = proc[p].run
<1> USE DEF SourceType
<1>1. CASE UNCHANGED proc
  BY <1>1
<1>2. ASSUME NEW r \in Runs, Top(r) PROVE proc'[p] = proc[p]
  <2>1. NextProc # p
    BY <1>2, NextProcIsNew DEF Top
  <2> QED
    BY <1>2, <2>1 DEF Top
<1>3. ASSUME NEW q \in Procs, Exits(q) PROVE proc'[p].pc # "none" /\ proc'[p].run = proc[p].run
  BY <1>3 DEF Exits, Encoder
<1> QED
  BY <1>1, <1>2, <1>3 DEF Next, OfRun, OfProc, vars, procs, Start, Stop, Late, Fire, Intake, TopEnded,
     Ended, Reset, CloseIntake, Reshape, TakePub, ArmHandover, CancelProc, Announce, Joins, Leave,
     Release, Closed, CloseGrace, CloseStream, GraceOver

\* There are finitely many ffmpegs.
LEMMA ProcsFinite == IsFiniteSet(Procs)
  BY StreamsAssumption, FS_Interval DEF Procs

\* Releases to come are of the ffmpegs that were started.
LEMMA OutstandingFinite ==
  IsFiniteSet(Outstanding) /\ Cardinality(Outstanding) \in Nat
<1>1. IsFiniteSet(Procs)
  BY ProcsFinite
<1>2. Outstanding \in SUBSET Procs
  BY DEF Outstanding
<1> QED
  BY <1>1, <1>2, FS_Subset, FS_CardinalityType

\* The steps of the Source and of the Adapter that do not touch the stream.
LEMMA QuietStep ==
  ASSUME SourceType, StreamInv, [Next]_vars, UNCHANGED <<sess, intake, stream>>
  PROVE  StreamInv'
<1> USE DEF StreamInv, stream
<1>1. \A p \in Procs : proc[p].pc # "none" => proc'[p].pc # "none" /\ proc'[p].run = proc[p].run
  BY StaysOfRun
<1>2. \A p \in Procs : sess[p].pc # "none" => proc[p].pc # "none"
  BY DEF Sessions
<1>3. StreamType'
  BY DEF StreamType
<1>4. Sessions'
  <2>1. ASSUME NEW r \in Runs, intake[r].proc # 0
        PROVE  proc'[intake[r].proc].run = r
    <3>1. intake[r].proc \in Procs /\ sess[intake[r].proc].pc = "open" /\ proc[intake[r].proc].run = r
      BY <2>1 DEF StreamType, Sessions
    <3> QED
      BY <1>1, <1>2, <3>1
  <2>2. \A p \in Procs : proc'[p].pc = "none" => sess[p].pc = "none"
    BY <1>1, <1>2
  <2> QED
    BY <2>1, <2>2 DEF Sessions
<1>5. FeederKnown'
  BY <1>1, <1>2 DEF FeederKnown
<1>6. Counted'
  <2>1. \A p \in Procs : sess[p].pc = "open" => proc'[p].run = proc[p].run
    BY <1>1, <1>2
  <2>2. Outstanding' = Outstanding
    BY <2>1 DEF Outstanding
  <2> QED
    BY <2>2 DEF Counted
<1>7. GraceForReleased' /\ Joining' /\ Decided'
  BY DEF GraceForReleased, Joining, Decided
<1> QED
  BY <1>3, <1>4, <1>5, <1>6, <1>7

\* The clock, the Adapter's arming and the first hold of a close, which change when
\* the grace ends.
LEMMA ClockStep ==
  ASSUME SourceType, StreamInv, Late \/ Fire \/ CloseGrace \/ \E r \in Runs : ArmHandover(r)
  PROVE  StreamInv'
<1> USE DEF StreamInv
<1>1. UNCHANGED <<sess, intake, made, proc>>
  BY DEF Late, Fire, CloseGrace, ArmHandover, procs
<1>2. CASE UNCHANGED <<pub, firing>>
  BY <1>1, <1>2 DEF StreamType, Sessions, FeederKnown, Counted, Outstanding, GraceForReleased, Joining,
     Decided
<1>3. CASE pub' # pub
  <2>1. /\ pub' \in Published /\ pub.id # 0 /\ firing' \subseteq firing \cup {pub.gen}
        /\ pub'.id = pub.id /\ pub'.owed = pub.owed /\ pub'.released = pub.released
        /\ pub'.gen = pub.gen /\ pub'.feeder = pub.feeder
        /\ pub'.doomed = pub.doomed /\ (pub'.cleared => pub.cleared \/ pub.doomed # 0)
        /\ pub'.timer # "none" => pub.timer # "none"
        /\ firing' # firing => pub.timer # "none"
    <3>1. /\ pub \in Published
          /\ pub.id = 0 => pub.armed = "no" /\ pub.timer = "none" /\ pub.doomed = 0
      BY DEF StreamType, FeederKnown, NoPub
    <3>2. CASE Late
      BY <3>1, <3>2 DEF Late, Published
    <3>3. CASE Fire
      BY <3>1, <3>3 DEF Fire, Published
    <3>4. CASE \E r \in Runs : ArmHandover(r)
      BY <1>3, <3>1, <3>4 DEF ArmHandover, Published
    <3>5. CASE CloseGrace
      BY <3>1, <3>5 DEF CloseGrace, Published
    <3> QED
      BY <3>2, <3>3, <3>4, <3>5
  <2>2. pub.gen \in Nat
    BY DEF StreamType, Published
  <2>3. StreamType' /\ Sessions' /\ FeederKnown'
    BY <1>1, <2>1, <2>2 DEF StreamType, Sessions, FeederKnown
  <2>4. Counted'
    BY <1>1, <2>1 DEF Counted, Outstanding
  <2>5. GraceForReleased' /\ Joining' /\ Decided'
    BY <1>1, <2>1, <2>2 DEF GraceForReleased, Joining, Decided
  <2> QED
    BY <2>3, <2>4, <2>5
<1>4. pub' = pub => firing' = firing
  <2>1. CASE Fire
    <3>1. pub'.timer # pub.timer
      BY <2>1 DEF Fire, StreamType, Published
    <3> QED
      BY <3>1
  <2> QED
    BY <2>1 DEF Late, CloseGrace, ArmHandover
<1> QED
  BY <1>2, <1>3, <1>4

\* The last hold of a close leaves nothing of the publication.
LEMMA CloseStreamStep ==
  ASSUME SourceType, StreamInv, CloseStream
  PROVE  StreamInv'
<1> USE DEF StreamInv
<1>1. /\ pub' = NoPub /\ NoPub.id = 0 /\ NoPub.timer = "none" /\ NoPub.released = FALSE
      /\ NoPub.gen = 0 /\ NoPub.doomed = 0 /\ NoPub.cleared = FALSE
      /\ firing' = {} /\ UNCHANGED <<sess, intake, made, proc>> /\ StreamFree
  BY DEF CloseStream, NoPub, procs
<1>2. NoPub \in Published
  BY DEF NoPub, Published
<1>3. StreamType' /\ Sessions' /\ FeederKnown' /\ Counted'
  BY <1>1, <1>2 DEF StreamType, Sessions, FeederKnown, Counted
<1>4. GraceForReleased' /\ Joining' /\ Decided'
  BY <1>1 DEF GraceForReleased, Joining, Decided, StreamFree
<1> QED
  BY <1>3, <1>4

\* What is decided of a publication is nothing but its close.
LEMMA DoomParts ==
  ASSUME StreamType, Decided
  PROVE  /\ Doom \in Published /\ Doom.id = pub.id /\ Doom.timer = pub.timer
         /\ Doom.released = pub.released /\ Doom.owed = pub.owed /\ Doom.gen = pub.gen
         /\ Doom.feeder = pub.feeder /\ Doom.doomed \in {pub.doomed, pub.gen}
         /\ Doom.doomed <= Doom.gen /\ (Doom.cleared => Doom.doomed # 0)
  BY DEF Doom, StreamType, Published, Decided

\* The grace of a publisher that was not replaced has the publication closed; of one
\* that was, it does nothing.
LEMMA GraceOverStep ==
  ASSUME SourceType, StreamInv, NEW g \in firing, GraceOver(g)
  PROVE  StreamInv'
<1> USE DEF StreamInv
<1>1. UNCHANGED <<sess, intake, made, proc>> /\ firing' = firing \ {g}
  BY DEF GraceOver, procs
<1>2. CASE pub' = pub
  BY <1>1, <1>2 DEF StreamType, Sessions, FeederKnown, Counted, Outstanding, GraceForReleased, Joining,
     Decided
<1>3. CASE ~Overtaken(g) /\ pub' = Doom
  <2>1. pub.gen \in firing /\ pub.id # 0
    BY <1>3 DEF Overtaken, FeederKnown, NoPub
  <2>2. sess[pub.feeder].pc # "open"
    BY <2>1 DEF GraceForReleased
  <2>3. StreamType' /\ Sessions'
    BY <1>1, <1>3, DoomParts DEF StreamType, Sessions
  <2>4. FeederKnown'
    BY <1>1, <1>3, <2>1, DoomParts DEF FeederKnown
  <2>5. Counted'
    BY <1>1, <1>3, DoomParts DEF Counted, Outstanding
  <2>6. GraceForReleased' /\ Joining' /\ Decided'
    BY <1>1, <1>3, <2>2, DoomParts DEF GraceForReleased, Joining, Decided
  <2> QED
    BY <2>3, <2>4, <2>5, <2>6
<1> QED
  BY <1>2, <1>3 DEF GraceOver

\* When the intake's server has closed, the intake knows no session any more, and
\* nothing is left published by it.
LEMMA CloseIntakeQuiet ==
  ASSUME StreamInv, NEW r \in Runs, CloseIntake(r)
  PROVE  UNCHANGED <<sess, intake, stream>>
<1> USE DEF StreamInv
<1>1. intake[r] \in [pub : Nat, proc : {0} \cup Procs]
  BY DEF StreamType
<1>2. intake[r].proc = 0
  <2> SUFFICES ASSUME intake[r].proc # 0 PROVE FALSE
    OBVIOUS
  <2>1. proc[intake[r].proc].run = r /\ sess[intake[r].proc].pc = "open" /\ intake[r].proc \in Procs
    BY <1>1 DEF Sessions
  <2> QED
    BY <2>1 DEF CloseIntake
<1>3. intake[r] = NoTake
  BY <1>1, <1>2 DEF Sessions, NoTake
<1> QED
  BY <1>3 DEF CloseIntake, NoTake, StreamType, stream

\* A session that is refused, is to join or is done changes nothing of the stream.
LEMMA RefusedStep ==
  ASSUME SourceType, RunsKnown, StreamInv, NEW p \in Procs, sess[p].pc \in {"none", "joins", "closes"},
         proc[p].pc # "none", NEW y \in Announced, y.pc \in {"refused", "joins", "gone"},
         y.pc = "joins" => pub.id # 0,
         sess' = [sess EXCEPT ![p] = y], UNCHANGED <<intake, stream, proc>>
  PROVE  StreamInv'
<1> USE DEF StreamInv, stream
<1>1. /\ sess' \in [Procs -> Announced] /\ sess'[p] = y
      /\ \A q \in Procs : q # p => sess'[q] = sess[q]
  BY DEF StreamType
<1>2. \A q \in Procs : sess'[q].pc \in {"open", "left"} => sess'[q] = sess[q]
  BY <1>1
<1>3. \A q \in Procs : sess[q].pc \in {"open", "left"} => sess'[q] = sess[q]
  BY <1>1
<1>4. StreamType'
  BY <1>1 DEF StreamType
<1>5. Sessions'
  BY <1>1, <1>2, <1>3 DEF Sessions, StreamType
<1>6. FeederKnown'
  BY <1>2 DEF FeederKnown
<1>7. Counted'
  <2>1. Outstanding' = Outstanding
    BY <1>2, <1>3 DEF Outstanding
  <2> QED
    BY <2>1 DEF Counted
<1>8. GraceForReleased'
  BY <1>2 DEF GraceForReleased, FeederKnown
<1>9. Joining'
  BY <1>1 DEF Joining
<1>10. Decided'
  <2>1. pub.doomed # 0 => pub.feeder \in Procs
    BY DEF FeederKnown, NoPub
  <2> QED
    BY <1>2, <2>1 DEF Decided
<1> QED
  BY <1>4, <1>5, <1>6, <1>7, <1>8, <1>9, <1>10

\* A publication begins, or a replacement joins it: one release more is to come, and
\* one more is owed unless the one replaced has been called.
LEMMA PublishedStep ==
  ASSUME SourceType, RunsKnown, StreamInv, NEW p \in Procs,
         sess[p].pc \in {"none", "joins"}, proc[p].pc # "none", UNCHANGED proc,
         (pub.id = 0 /\ Opened(p)) \/ (pub.id # 0 /\ Joined(p)), Takes(p)
  PROVE  StreamInv'
<1> USE DEF StreamInv
<1> DEFINE r == proc[p].run
<1>1. /\ sess' \in [Procs -> Announced] /\ sess'[p].pc = "open"
      /\ \A q \in Procs : q # p => sess'[q] = sess[q]
  BY DEF Takes, StreamType, Announced
<1>2. r \in Runs /\ p # 0
  BY DEF RunsKnown, Procs
<1>3. pub \in Published /\ made \in Nat /\ firing \subseteq Nat
  BY DEF StreamType
<1>4. /\ pub' \in Published /\ made' \in Nat /\ made <= made' /\ pub'.id \in 1 .. made'
      /\ pub'.feeder = p /\ pub'.timer = "none" /\ pub'.released = FALSE /\ pub'.gen = pub.gen + 1
      /\ pub'.doomed = pub.doomed /\ pub'.cleared = pub.cleared /\ firing' = firing
  <2>1. CASE pub.id = 0 /\ Opened(p)
    <3>1. /\ pub' = [NoPub EXCEPT !.id = made + 1, !.gen = 1, !.feeder = p]
          /\ made' = made + 1 /\ firing' = firing
          /\ pub.gen = 0 /\ pub.doomed = 0 /\ pub.cleared = FALSE
      BY <2>1 DEF Opened, FeederKnown, NoPub
    <3>2. made' \in Nat /\ made <= made' /\ made' \in 1 .. made'
      BY <1>3, <3>1
    <3>3. pub' = [id |-> made + 1, armed |-> "no", timer |-> "none", released |-> FALSE, owed |-> 0,
                  gen |-> 1, feeder |-> p, doomed |-> 0, cleared |-> FALSE]
      BY <3>1 DEF NoPub
    <3>4. pub' \in Published
      BY <1>3, <3>3 DEF Published
    <3>5. /\ pub'.id = made + 1 /\ pub'.feeder = p /\ pub'.timer = "none" /\ pub'.released = FALSE
          /\ pub'.gen = 1 /\ pub'.doomed = 0 /\ pub'.cleared = FALSE
      BY <3>3
    <3>6. /\ made' = made + 1 /\ firing' = firing /\ pub.gen + 1 = 1
          /\ pub.doomed = 0 /\ pub.cleared = FALSE
      BY <3>1
    <3> QED
      BY <3>2, <3>4, <3>5, <3>6
  <2>2. CASE pub.id # 0 /\ Joined(p)
    <3> DEFINE owes == pub.owed + (IF pub.released THEN 0 ELSE 1)
    <3>1. /\ pub' = [pub EXCEPT !.armed = "no", !.timer = "none", !.released = FALSE,
                                !.owed = owes, !.gen = pub.gen + 1, !.feeder = p]
          /\ made' = made /\ firing' = firing
      BY <2>2 DEF Joined
    <3>2. owes \in Nat /\ pub.gen + 1 \in Nat
      BY <1>3 DEF Published
    <3>3. pub.id \in 1 .. made
      BY <1>3, <2>2 DEF FeederKnown, Published
    <3> HIDE DEF owes
    <3>4. pub' \in Published
      BY <1>3, <3>1, <3>2 DEF Published
    <3>5. /\ pub'.id = pub.id /\ pub'.feeder = p /\ pub'.timer = "none" /\ pub'.released = FALSE
          /\ pub'.gen = pub.gen + 1 /\ pub'.doomed = pub.doomed /\ pub'.cleared = pub.cleared
      BY <1>3, <3>1 DEF Published
    <3> QED
      BY <1>3, <3>1, <3>3, <3>4, <3>5
  <2> QED
    BY <2>1, <2>2
<1>5. /\ intake' \in [Runs -> [pub : Nat, proc : {0} \cup Procs]]
      /\ intake'[r] = [pub |-> pub'.id, proc |-> p]
      /\ \A s \in Runs : s # r => intake'[s] = intake[s]
  BY <1>2, <1>4 DEF Takes, StreamType
<1>6. StreamType'
  BY <1>1, <1>3, <1>4, <1>5 DEF StreamType
<1>7. Sessions'
  <2>1. ASSUME NEW s \in Runs, s # r, intake[s].proc # 0
        PROVE  intake[s].proc # p /\ intake[s].proc \in Procs
    BY <2>1 DEF Sessions, StreamType
  <2>2. ASSUME NEW s \in Runs
        PROVE  /\ intake'[s].proc = 0 => intake'[s].pub = 0
               /\ intake'[s].proc # 0 =>
                    /\ intake'[s].pub \in 1 .. made'
                    /\ proc[intake'[s].proc].run = s /\ sess'[intake'[s].proc].pc = "open"
    <3>1. CASE s = r
      BY <1>1, <1>2, <1>4, <1>5, <3>1
    <3>2. CASE s # r
      BY <1>1, <1>3, <1>4, <1>5, <2>1, <3>2 DEF Sessions
    <3> QED
      BY <3>1, <3>2
  <2>3. \A q \in Procs : sess'[q].pc = "left" => sess'[q].pub \in 1 .. made'
    BY <1>1, <1>3, <1>4 DEF Sessions
  <2>4. \A q \in Procs : proc'[q].pc = "none" => sess'[q].pc = "none"
    BY <1>1 DEF Sessions
  <2> QED
    BY <2>2, <2>3, <2>4 DEF Sessions
<1>8. FeederKnown'
  BY <1>3, <1>4, <1>5 DEF FeederKnown
<1>9. Counted'
  <2>1. IsFiniteSet(Outstanding') /\ Cardinality(Outstanding') \in Nat
    <3>1. IsFiniteSet(Procs)
      BY ProcsFinite
    <3>2. Outstanding' \in SUBSET Procs
      BY DEF Outstanding
    <3>4. IsFiniteSet(Outstanding')
      BY <3>1, <3>2, FS_Subset
    <3> QED
      BY <3>4, FS_CardinalityType
  <2>2. CASE pub.id = 0 /\ Opened(p)
    <3>1. pub'.id = made + 1 /\ pub'.owed = 0
      BY <2>2 DEF Opened, NoPub
    <3>2. ASSUME NEW q \in Procs, q # p PROVE q \notin Outstanding'
      <4>1. ~(sess'[q].pc = "left" /\ sess'[q].pub = pub'.id)
        BY <1>1, <1>3, <3>1, <3>2 DEF Sessions
      <4>2. ASSUME sess'[q].pc = "open", intake'[proc[q].run] = [pub |-> pub'.id, proc |-> q] PROVE FALSE
        <5>1. proc[q].run \in Runs
          BY <1>1, <3>2, <4>2 DEF Sessions, RunsKnown
        <5>2. proc[q].run # r
          BY <1>5, <3>2, <4>2
        <5>3. intake[proc[q].run].pub = made + 1 /\ intake[proc[q].run].proc = q /\ q # 0
          BY <1>5, <3>1, <4>2, <5>1, <5>2 DEF Procs
        <5> QED
          BY <1>3, <5>1, <5>3 DEF Sessions
      <4> QED
        BY <4>1, <4>2 DEF Outstanding
    <3>3. Outstanding' \in SUBSET {p}
      BY <3>2 DEF Outstanding
    <3>4. Cardinality(Outstanding') <= 1
      <4>1. IsFiniteSet({p}) /\ Cardinality({p}) = 1
        BY FS_Singleton
      <4> QED
        BY <3>3, <4>1, FS_Subset
    <3> QED
      BY <1>4, <2>1, <3>1, <3>4 DEF Counted
  <2>3. CASE pub.id # 0 /\ Joined(p)
    <3>1. /\ pub'.id = pub.id /\ pub.id # 0
          /\ pub'.owed = pub.owed + (IF pub.released THEN 0 ELSE 1)
      BY <1>3, <2>3 DEF Joined, Published
    <3>2. ASSUME NEW q \in Procs, q # p, q \in Outstanding' PROVE q \in Outstanding
      <4>1. CASE sess'[q].pc = "left" /\ sess'[q].pub = pub'.id
        BY <1>1, <3>1, <3>2, <4>1 DEF Outstanding
      <4>2. CASE sess'[q].pc = "open" /\ intake'[proc[q].run] = [pub |-> pub'.id, proc |-> q]
        <5>1. proc[q].run \in Runs
          BY <1>1, <3>2, <4>2 DEF Sessions, RunsKnown
        <5>2. proc[q].run # r
          BY <1>5, <3>2, <4>2
        <5> QED
          BY <1>1, <1>5, <3>1, <3>2, <4>2, <5>1, <5>2 DEF Outstanding
      <4> QED
        BY <3>2, <4>1, <4>2 DEF Outstanding
    <3>3. Outstanding' \in SUBSET (Outstanding \cup {p})
      BY <3>2 DEF Outstanding
    <3>4. /\ IsFiniteSet(Outstanding \cup {p})
          /\ Cardinality(Outstanding \cup {p}) <= Cardinality(Outstanding) + 1
      <4>1. IsFiniteSet(Outstanding) /\ Cardinality(Outstanding) \in Nat
        BY OutstandingFinite
      <4>2. /\ IsFiniteSet(Outstanding \cup {p})
            /\ \/ Cardinality(Outstanding \cup {p}) = Cardinality(Outstanding)
               \/ Cardinality(Outstanding \cup {p}) = Cardinality(Outstanding) + 1
        BY <4>1, FS_AddElement
      <4> QED
        BY <4>1, <4>2
    <3>5. Cardinality(Outstanding') <= Cardinality(Outstanding \cup {p})
      BY <3>3, <3>4, FS_Subset
    <3>6. Cardinality(Outstanding \cup {p}) \in Nat
      BY <3>4, FS_CardinalityType
    <3>7. Cardinality(Outstanding) <= pub.owed + (IF pub.released THEN 0 ELSE 1)
      BY <3>1 DEF Counted
    <3>8. pub.owed \in Nat /\ pub.released \in BOOLEAN
      BY <1>3 DEF Published
    <3> QED
      BY <1>4, <2>1, <3>1, <3>4, <3>5, <3>6, <3>7, <3>8, OutstandingFinite DEF Counted
  <2> QED
    BY <2>2, <2>3
<1>10. GraceForReleased'
  <2>1. pub.gen \in Nat
    BY <1>3 DEF Published
  <2> QED
    BY <1>3, <1>4, <2>1 DEF GraceForReleased
<1>11. Joining'
  BY <1>3, <1>4 DEF Joining
<1>12. Decided'
  BY <1>3, <1>4 DEF Decided, Published
<1> QED
  BY <1>6, <1>7, <1>8, <1>9, <1>10, <1>11, <1>12

\* An ffmpeg's ANNOUNCE, and its join, publish or change nothing yet.
LEMMA AnnounceStep ==
  ASSUME SourceType, RunsKnown, StreamInv, NEW p \in Procs, Announce(p) \/ Joins(p) \/ Closed(p)
  PROVE  StreamInv'
<1> USE DEF StreamInv
<1>1. sess[p].pc \in {"none", "joins", "closes"} /\ proc[p].pc # "none" /\ UNCHANGED proc
  BY DEF Announce, Joins, Closed, Sessions, procs
<1>2. sess[p].pc = "joins" => pub.id # 0
  BY DEF Joining
<1>3. sess[p] \in Announced
  BY DEF StreamType
<1>4. CASE /\ (pub.id = 0 /\ Opened(p)) \/ (pub.id # 0 /\ Joined(p))
           /\ Takes(p) /\ sess[p].pc # "closes"
  BY <1>1, <1>4, PublishedStep
<1>5. ASSUME UNCHANGED <<intake, stream>>, NEW pc \in {"refused", "joins"}, pc = "joins" => pub.id # 0,
             sess' = [sess EXCEPT ![p].pc = pc]
      PROVE  StreamInv'
  <2> DEFINE y == [sess[p] EXCEPT !.pc = pc]
  <2>1. y \in Announced /\ y.pc = pc
    BY <1>3 DEF Announced
  <2>2. sess' = [sess EXCEPT ![p] = y]
    BY <1>3, <1>5 DEF Announced
  <2> HIDE DEF y
  <2> QED
    BY <1>1, <1>5, <2>1, <2>2, RefusedStep
<1>6. CASE Closed(p)
  <2>1. [pc |-> "gone", pub |-> 0] \in Announced
    BY DEF Announced
  <2>2. sess' = [sess EXCEPT ![p] = [pc |-> "gone", pub |-> 0]] /\ UNCHANGED <<intake, stream>>
    BY <1>6 DEF Closed
  <2> QED
    BY <1>1, <2>1, <2>2, RefusedStep
<1> QED
  BY <1>2, <1>4, <1>5, <1>6 DEF Announce, Joins

\* No release more to come keeps the count.
LEMMA FewerToCome ==
  ASSUME StreamType, Counted, UNCHANGED pub, Outstanding' \subseteq Outstanding
  PROVE  Counted'
<1>1. /\ IsFiniteSet(Outstanding') /\ Cardinality(Outstanding') \in Nat
      /\ Cardinality(Outstanding') <= Cardinality(Outstanding) /\ Cardinality(Outstanding) \in Nat
  <2>1. IsFiniteSet(Outstanding) /\ Cardinality(Outstanding) \in Nat
    BY OutstandingFinite
  <2>2. Outstanding' \in SUBSET Outstanding
    OBVIOUS
  <2>3. IsFiniteSet(Outstanding') /\ Cardinality(Outstanding') <= Cardinality(Outstanding)
    BY <2>1, <2>2, FS_Subset
  <2> QED
    BY <2>1, <2>3, FS_CardinalityType
<1>2. pub.owed \in Nat
  BY DEF StreamType, Published
<1> QED
  BY <1>1, <1>2 DEF Counted

\* The run of an ffmpeg that has announced itself is there.
LEMMA OfARun ==
  ASSUME RunsKnown, Sessions, NEW p \in Procs, sess[p].pc # "none"
  PROVE  proc[p].pc # "none" /\ proc[p].run \in Runs
<1>1. proc[p].pc # "none"
  BY DEF Sessions
<1> QED
  BY <1>1 DEF RunsKnown

\* A session that leaves has its release to come if the intake still knew it; one
\* that was replaced or refused has none.
LEMMA LeaveStep ==
  ASSUME SourceType, RunsKnown, StreamInv, NEW p \in Procs, Leave(p)
  PROVE  StreamInv'
<1> USE DEF StreamInv
<1> DEFINE r == proc[p].run
<1>1. sess[p].pc \in {"open", "refused"} /\ UNCHANGED <<proc, pub, made, firing>> /\ p # 0
  BY DEF Leave, procs, stream, Procs
<1>2. r \in Runs
  BY <1>1, OfARun
<1>3. ASSUME NEW q \in Procs, sess[q].pc = "open"
      PROVE  proc[q].run \in Runs /\ q # 0
  BY <1>3, OfARun DEF Procs
<1>4. CASE intake[r].proc = p
  <2>1. /\ sess[p].pc = "open" /\ intake[r].pub \in 1 .. made /\ intake[r].pub \in Nat
        /\ intake[r] = [pub |-> intake[r].pub, proc |-> p]
    BY <1>1, <1>2, <1>4 DEF Sessions, StreamType
  <2>2. /\ sess' = [sess EXCEPT ![p] = [pc |-> "left", pub |-> intake[r].pub]]
        /\ intake' = [intake EXCEPT ![r] = NoTake]
    BY <1>4 DEF Leave
  <2>3. /\ sess' \in [Procs -> Announced] /\ sess'[p].pc = "left" /\ sess'[p].pub = intake[r].pub
        /\ \A q \in Procs : q # p => sess'[q] = sess[q]
    BY <2>1, <2>2 DEF StreamType, Announced
  <2>4. /\ intake' \in [Runs -> [pub : Nat, proc : {0} \cup Procs]]
        /\ intake'[r].proc = 0 /\ intake'[r].pub = 0
        /\ \A s \in Runs : s # r => intake'[s] = intake[s]
    BY <1>2, <2>2 DEF StreamType, NoTake
  <2>5. StreamType'
    BY <1>1, <2>3, <2>4 DEF StreamType
  <2>6. Sessions'
    <3>1. ASSUME NEW s \in Runs, s # r, intake[s].proc # 0
          PROVE  /\ intake[s].pub \in 1 .. made
                 /\ proc[intake[s].proc].run = s /\ sess'[intake[s].proc].pc = "open"
      <4>1. /\ intake[s].proc \in Procs /\ proc[intake[s].proc].run = s
            /\ sess[intake[s].proc].pc = "open" /\ intake[s].pub \in 1 .. made
        BY <3>1 DEF Sessions, StreamType
      <4> QED
        BY <2>3, <3>1, <4>1
    <3>2. \A s \in Runs : s # r /\ intake[s].proc = 0 => intake[s].pub = 0
      BY DEF Sessions
    <3>3. ASSUME NEW s \in Runs
          PROVE  /\ intake'[s].proc = 0 => intake'[s].pub = 0
                 /\ intake'[s].proc # 0 =>
                      /\ intake'[s].pub \in 1 .. made'
                      /\ proc'[intake'[s].proc].run = s /\ sess'[intake'[s].proc].pc = "open"
      <4>1. CASE s = r
        BY <2>4, <4>1
      <4>2. CASE s # r
        BY <1>1, <2>4, <3>1, <3>2, <4>2
      <4> QED
        BY <4>1, <4>2
    <3>4. \A q \in Procs : proc'[q].pc = "none" => sess'[q].pc = "none"
      BY <1>1, <2>3 DEF Sessions
    <3>5. \A q \in Procs : sess'[q].pc = "left" => sess'[q].pub \in 1 .. made'
      BY <1>1, <2>1, <2>3 DEF Sessions
    <3> QED
      BY <3>3, <3>4, <3>5 DEF Sessions
  <2>7. ASSUME NEW q \in Procs, sess'[q].pc = "open"
        PROVE  sess[q].pc = "open" /\ q # p /\ proc[q].run \in Runs
    BY <1>3, <2>3, <2>7
  <2>8. FeederKnown'
    <3>1. ASSUME pub.id # 0, sess'[pub.feeder].pc = "open"
          PROVE  intake'[proc[pub.feeder].run] = [pub |-> pub.id, proc |-> pub.feeder]
      <4>1. pub.feeder \in Procs
        BY <3>1 DEF FeederKnown
      <4>2. sess[pub.feeder].pc = "open" /\ pub.feeder # p /\ proc[pub.feeder].run \in Runs
        BY <2>7, <3>1, <4>1
      <4>3. intake[proc[pub.feeder].run] = [pub |-> pub.id, proc |-> pub.feeder]
        BY <3>1, <4>2 DEF FeederKnown
      <4>4. proc[pub.feeder].run # r
        BY <1>4, <4>2, <4>3
      <4> QED
        BY <2>4, <4>2, <4>3, <4>4
    <3> QED
      BY <1>1, <3>1 DEF FeederKnown
  <2>9. Counted'
    <3>1. ASSUME NEW q \in Procs, q \in Outstanding' PROVE q \in Outstanding
      <4>1. CASE q = p
        BY <1>1, <2>1, <2>3, <3>1, <4>1 DEF Outstanding
      <4>2. CASE q # p /\ sess'[q].pc = "left"
        BY <1>1, <2>3, <3>1, <4>2 DEF Outstanding
      <4>3. CASE q # p /\ sess'[q].pc = "open"
        <5>1. intake'[proc[q].run] = [pub |-> pub.id, proc |-> q] /\ proc[q].run \in Runs /\ q # 0
          BY <1>1, <1>3, <2>7, <3>1, <4>3 DEF Outstanding
        <5>2. proc[q].run # r
          BY <2>4, <5>1
        <5> QED
          BY <2>4, <2>7, <4>3, <5>1, <5>2 DEF Outstanding
      <4> QED
        BY <3>1, <4>1, <4>2, <4>3 DEF Outstanding
    <3>2. Outstanding' \subseteq Outstanding
      BY <3>1 DEF Outstanding
    <3> QED
      BY <1>1, <3>2, FewerToCome
  <2>10. GraceForReleased' /\ Joining' /\ Decided'
    <3>1. pub.doomed # 0 => pub.feeder \in Procs
      BY DEF FeederKnown, NoPub
    <3> QED
      BY <1>1, <2>3, <2>7, <3>1 DEF GraceForReleased, FeederKnown, Joining, Decided
  <2> QED
    BY <2>5, <2>6, <2>8, <2>9, <2>10
<1>5. CASE intake[r].proc # p
  <2>1. sess' = [sess EXCEPT ![p].pc = "gone"] /\ intake' = intake
    BY <1>5 DEF Leave
  <2>2. /\ sess' \in [Procs -> Announced] /\ sess'[p].pc = "gone"
        /\ \A q \in Procs : q # p => sess'[q] = sess[q]
    BY <2>1 DEF StreamType, Announced
  <2>3. StreamType'
    BY <1>1, <2>1, <2>2 DEF StreamType
  <2>4. Sessions'
    <3>1. ASSUME NEW s \in Runs, intake[s].proc # 0
          PROVE  intake[s].proc # p /\ intake[s].proc \in Procs
      BY <1>5, <3>1 DEF Sessions, StreamType
    <3> QED
      BY <1>1, <2>1, <2>2, <3>1 DEF Sessions
  <2>5. FeederKnown'
    BY <1>1, <2>1, <2>2 DEF FeederKnown
  <2>6. Outstanding' \subseteq Outstanding
    BY <1>1, <2>1, <2>2 DEF Outstanding
  <2>7. GraceForReleased' /\ Joining' /\ Decided'
    <3>1. pub.doomed # 0 => pub.feeder \in Procs
      BY DEF FeederKnown, NoPub
    <3> QED
      BY <1>1, <2>2, <3>1 DEF GraceForReleased, FeederKnown, Joining, Decided
  <2> QED
    BY <1>1, <2>3, <2>4, <2>5, <2>6, <2>7, FewerToCome
<1> QED
  BY <1>4, <1>5

\* One release less is to come once a publisher's has.
LEMMA OneLess ==
  ASSUME NEW p \in Outstanding
  PROVE  /\ IsFiniteSet(Outstanding \ {p}) /\ Cardinality(Outstanding \ {p}) \in Nat
         /\ Cardinality(Outstanding \ {p}) = Cardinality(Outstanding) - 1
<1>1. IsFiniteSet(Outstanding) /\ Cardinality(Outstanding) \in Nat
  BY OutstandingFinite
<1>2. IsFiniteSet(Outstanding \ {p}) /\ Cardinality(Outstanding \ {p}) = Cardinality(Outstanding) - 1
  BY <1>1, FS_RemoveElement
<1> QED
  BY <1>2, FS_CardinalityType

\* A release that no one is owed is that of the publisher that feeds the stream: no
\* other is to come, and no publisher is there.
LEMMA LastRelease ==
  ASSUME StreamInv, pub.id # 0, ~Owed, NEW p \in Procs, sess[p].pc = "left", sess[p].pub = pub.id
  PROVE  ~pub.released /\ Outstanding = {p} /\ sess[pub.feeder].pc # "open"
<1> USE DEF StreamInv
<1>1. p \in Outstanding
  BY DEF Outstanding
<1>2. pub.owed = 0 /\ pub.released \in BOOLEAN
  BY DEF Owed, StreamType, Published
<1>3. Cardinality(Outstanding) <= (IF pub.released THEN 0 ELSE 1)
  BY <1>2 DEF Counted
<1>4. /\ IsFiniteSet(Outstanding \ {p}) /\ Cardinality(Outstanding \ {p}) \in Nat
      /\ Cardinality(Outstanding \ {p}) = Cardinality(Outstanding) - 1
  BY <1>1, OneLess
<1>5. Cardinality(Outstanding) \in Nat
  BY OutstandingFinite
<1>6. ~pub.released /\ Cardinality(Outstanding \ {p}) = 0
  BY <1>2, <1>3, <1>4, <1>5
<1>7. Outstanding \ {p} = {}
  BY <1>4, <1>6, FS_EmptySet
<1>8. Outstanding = {p}
  BY <1>1, <1>7
<1>9. ASSUME sess[pub.feeder].pc = "open" PROVE FALSE
  <2>1. pub.feeder \in Procs /\ pub.feeder \in Outstanding
    BY <1>9 DEF FeederKnown, Outstanding
  <2>2. pub.feeder = p
    BY <1>8, <2>1
  <2> QED
    BY <1>9, <2>2
<1> QED
  BY <1>6, <1>8, <1>9

\* A release of the publication: one owed is ticked off, of the last the stream
\* closes, or its grace begins.
LEMMA ReleaseStep ==
  ASSUME SourceType, RunsKnown, StreamInv, NEW p \in Procs, Release(p)
  PROVE  StreamInv'
<1> USE DEF StreamInv
<1>1. sess[p].pc = "left" /\ UNCHANGED <<intake, proc, made, firing>> /\ p # 0
  BY DEF Release, procs, Procs
<1>2. /\ sess' \in [Procs -> Announced] /\ sess'[p].pc \in {"gone", "closes"}
      /\ \A q \in Procs : q # p => sess'[q] = sess[q]
  BY DEF Release, StreamType, Announced
<1>3. pub \in Published /\ made \in Nat /\ sess[p].pub \in 1 .. made
  BY <1>1 DEF StreamType, Sessions
<1>4. Sessions'
  <2>1. ASSUME NEW s \in Runs, intake[s].proc # 0
        PROVE  intake[s].proc # p /\ intake[s].proc \in Procs
    BY <1>1, <2>1 DEF Sessions, StreamType
  <2> QED
    BY <1>1, <1>2, <2>1 DEF Sessions
<1>5. ASSUME pub'.id = pub.id, NEW q \in Procs, q \in Outstanding'
      PROVE  q \in Outstanding /\ q # p
  BY <1>1, <1>2, <1>5 DEF Outstanding
<1>6. \A q \in Procs : sess'[q].pc = "open" => sess[q].pc = "open"
  BY <1>2
<1>12. ASSUME pub'.id = pub.id, pub'.doomed = pub.doomed, pub'.gen = pub.gen, pub'.cleared = pub.cleared,
              pub'.feeder = pub.feeder
       PROVE  Joining' /\ Decided'
  <2>1. pub.doomed # 0 => pub.feeder \in Procs
    BY DEF FeederKnown, NoPub
  <2> QED
    BY <1>2, <1>6, <1>12, <2>1 DEF Joining, Decided
<1>7. CASE sess[p].pub # pub.id
  <2>1. UNCHANGED pub
    BY <1>7 DEF Release
  <2>2. StreamType' /\ Sessions'
    BY <1>1, <1>2, <1>4, <2>1 DEF StreamType
  <2>3. Outstanding' \subseteq Outstanding
    BY <1>5, <2>1 DEF Outstanding
  <2>4. FeederKnown' /\ GraceForReleased'
    BY <1>1, <1>6, <2>1 DEF FeederKnown, GraceForReleased
  <2> QED
    BY <1>12, <2>1, <2>2, <2>3, <2>4, FewerToCome DEF Decided
<1>8. CASE sess[p].pub = pub.id /\ Owed
  <2>1. pub' = [pub EXCEPT !.owed = @ - 1]
    BY <1>8 DEF Release
  <2>2. pub.owed \in Nat /\ pub.owed > 0
    BY <1>3, <1>8 DEF Owed, Published
  <2>3. pub.owed - 1 \in Nat
    BY <2>2
  <2>4. /\ pub' \in Published /\ pub'.owed = pub.owed - 1 /\ pub'.id = pub.id
        /\ pub'.released = pub.released /\ pub'.gen = pub.gen /\ pub'.timer = pub.timer
        /\ pub'.feeder = pub.feeder /\ pub'.doomed = pub.doomed /\ pub'.cleared = pub.cleared
    BY <1>3, <2>1, <2>3 DEF Published
  <2>5. StreamType' /\ Sessions'
    BY <1>1, <1>2, <1>4, <2>1, <2>4 DEF StreamType
  <2>6. pub.id # 0
    BY <1>3, <1>8
  <2>7. FeederKnown' /\ GraceForReleased'
    BY <1>1, <1>6, <2>1, <2>4, <2>6 DEF FeederKnown, GraceForReleased
  <2>8. Counted'
    <3>1. p \in Outstanding
      BY <1>1, <1>8 DEF Outstanding
    <3>2. Outstanding' \in SUBSET (Outstanding \ {p})
      BY <1>5, <2>4 DEF Outstanding
    <3>3. /\ IsFiniteSet(Outstanding \ {p}) /\ Cardinality(Outstanding \ {p}) \in Nat
          /\ Cardinality(Outstanding \ {p}) = Cardinality(Outstanding) - 1
      BY <3>1, OneLess
    <3>4. IsFiniteSet(Outstanding') /\ Cardinality(Outstanding') <= Cardinality(Outstanding \ {p})
      BY <3>2, <3>3, FS_Subset
    <3>5. Cardinality(Outstanding') \in Nat
      BY <3>4, FS_CardinalityType
    <3>6. Cardinality(Outstanding) \in Nat
      BY OutstandingFinite
    <3>7. Cardinality(Outstanding) <= pub.owed + (IF pub.released THEN 0 ELSE 1)
      BY <2>6 DEF Counted
    <3> QED
      BY <2>2, <2>4, <3>3, <3>4, <3>5, <3>6, <3>7 DEF Counted
  <2> QED
    BY <1>12, <2>4, <2>5, <2>7, <2>8
<1>9. CASE sess[p].pub = pub.id /\ ~Owed /\ pub.armed # "yes"
  <2>1. pub' = Doom
    BY <1>9 DEF Release
  <2>2. pub.id # 0
    BY <1>3, <1>9
  <2>3. Outstanding = {p} /\ sess[pub.feeder].pc # "open" /\ pub.feeder \in Procs
    BY <1>1, <1>9, <2>2, LastRelease DEF FeederKnown
  <2>4. StreamType' /\ FeederKnown'
    BY <1>1, <1>2, <1>6, <2>1, <2>2, <2>3, DoomParts DEF StreamType, FeederKnown
  <2>5. Counted'
    <3>1. Outstanding' = {}
      BY <1>5, <2>1, <2>3, DoomParts DEF Outstanding
    <3>2. Cardinality(Outstanding') = 0
      BY <3>1, FS_EmptySet
    <3>3. pub.owed \in Nat
      BY <1>3 DEF Published
    <3> QED
      BY <2>1, <3>2, <3>3, DoomParts DEF Counted
  <2>6. GraceForReleased' /\ Joining' /\ Decided'
    BY <1>1, <1>2, <1>6, <2>1, <2>3, DoomParts DEF GraceForReleased, Joining, Decided
  <2> QED
    BY <1>4, <2>4, <2>5, <2>6
<1>10. CASE sess[p].pub = pub.id /\ ~Owed /\ pub.armed = "yes"
  <2>1. pub' = [pub EXCEPT !.released = TRUE, !.timer = "set"]
    BY <1>10 DEF Release
  <2>2. pub.id # 0
    BY <1>3, <1>10
  <2>3. ~pub.released /\ Outstanding = {p} /\ sess[pub.feeder].pc # "open"
    BY <1>1, <1>10, <2>2, LastRelease
  <2>4. /\ pub' \in Published /\ pub'.owed = pub.owed /\ pub'.id = pub.id
        /\ pub'.released = TRUE /\ pub'.gen = pub.gen /\ pub'.feeder = pub.feeder
        /\ pub'.doomed = pub.doomed /\ pub'.cleared = pub.cleared
    BY <1>3, <2>1 DEF Published
  <2>5. StreamType' /\ Sessions'
    BY <1>1, <1>2, <1>4, <2>1, <2>4 DEF StreamType
  <2>6. FeederKnown' /\ GraceForReleased'
    <3>1. pub.feeder \in Procs
      BY <2>2 DEF FeederKnown
    <3>2. sess'[pub.feeder].pc # "open"
      BY <1>6, <2>3, <3>1
    <3> QED
      BY <1>1, <2>1, <2>2, <2>4, <3>1, <3>2 DEF FeederKnown, GraceForReleased
  <2>7. Counted'
    <3>1. Outstanding' = {}
      BY <1>5, <2>3, <2>4 DEF Outstanding
    <3>2. Cardinality(Outstanding') = 0
      BY <3>1, FS_EmptySet
    <3>3. pub.owed \in Nat
      BY <1>3 DEF Published
    <3> QED
      BY <2>4, <3>2, <3>3 DEF Counted
  <2> QED
    BY <1>12, <2>4, <2>5, <2>6, <2>7
<1> QED
  BY <1>7, <1>8, <1>9, <1>10

\* Every step of the stream's side.
LEMMA StreamInductive ==
  ASSUME SourceType, RunsKnown, StreamInv, [Next]_vars
  PROVE  StreamInv'
<1>1. CASE UNCHANGED <<sess, intake, stream>>
  BY <1>1, QuietStep
<1>2. CASE Start \/ Stop \/ \E r \in Runs : \/ Intake(r) \/ Top(r) \/ TopEnded(r) \/ Ended(r)
                                            \/ Reset(r) \/ Reshape(r) \/ TakePub(r) \/ CancelProc(r)
  BY <1>1, <1>2 DEF Start, Stop, Intake, Top, TopEnded, Ended, Reset, Reshape, TakePub, CancelProc
<1>3. ASSUME NEW r \in Runs, CloseIntake(r) PROVE StreamInv'
  BY <1>1, <1>3, CloseIntakeQuiet
<1>4. CASE Late \/ Fire \/ CloseGrace \/ CloseStream \/ \E r \in Runs : ArmHandover(r)
  BY <1>4, ClockStep, CloseStreamStep
<1>5. ASSUME NEW g \in firing, GraceOver(g) PROVE StreamInv'
  BY <1>5, GraceOverStep
<1>6. ASSUME NEW p \in Procs, Exits(p) PROVE StreamInv'
  BY <1>1, <1>6 DEF Exits
<1>7. ASSUME NEW p \in Procs, Announce(p) \/ Joins(p) \/ Leave(p) \/ Release(p) \/ Closed(p)
      PROVE  StreamInv'
  BY <1>7, AnnounceStep, LeaveStep, ReleaseStep
<1>8. CASE UNCHANGED vars
  BY <1>1, <1>8 DEF vars
<1> QED
  BY <1>2, <1>3, <1>4, <1>5, <1>6, <1>7, <1>8 DEF Next, OfRun, OfProc

\* Nothing runs, nothing is published.
LEMMA InitInvariant == Init => IInv
<1> SUFFICES ASSUME Init PROVE IInv
  OBVIOUS
<1>1. 0 \in 0 .. Rungs
  BY StreamsAssumption
<1>2. SourceType
  BY <1>1 DEF Init, SourceType, Running, Encoder, Adapting, Asleep
<1>3. RunsKnown /\ ReachedRate
  BY DEF Init, RunsKnown, ReachedRate, Undisturbed, Asleep
<1>4. StreamType
  BY DEF Init, StreamType, Announced, Published, NoPub, NoTake
<1>5. Sessions /\ FeederKnown /\ Counted /\ GraceForReleased /\ Joining /\ Decided
  BY DEF Init, Sessions, FeederKnown, Counted, GraceForReleased, Joining, Decided, NoPub, NoTake
<1> QED
  BY <1>2, <1>3, <1>4, <1>5 DEF IInv, RateInv, StreamInv

\* Every step of the camera, the Source, the ffmpegs, the stream and the Adapter.
LEMMA Inductive == IInv /\ [Next]_vars => IInv'
<1> SUFFICES ASSUME IInv, [Next]_vars PROVE IInv'
  OBVIOUS
<1>1. SourceType /\ RunsKnown /\ ReachedRate /\ StreamType /\ StreamInv
  BY DEF IInv, RateInv, StreamInv
<1>2. SourceType' /\ RunsKnown' /\ ReachedRate'
  BY <1>1, SourceTypeStep, RunsKnownStep, ReachedRateStep
<1>3. StreamInv'
  BY <1>1, StreamInductive
<1> QED
  BY <1>2, <1>3 DEF IInv, RateInv, StreamInv

\* The ffmpegs whose session was ever opened, or refused.
Met == {p \in Procs : sess[p].pc \notin {"none", "joins"}}

\* A publication has had one publisher for each of its generations, each another ffmpeg,
\* and owes no more than one release for each.
Tally ==
  /\ pub.owed <= pub.gen /\ pub.gen <= Cardinality(Met)
  /\ (pub.id # 0 => pub.gen > 0) /\ firing \subseteq Nat \ {0}
  /\ reshaping \in BOOLEAN /\ reshapes \in 0 .. MaxReshapes

\* There are no more of them than ffmpegs.
LEMMA MetFinite ==
  IsFiniteSet(Met) /\ Cardinality(Met) \in Nat /\ Cardinality(Met) <= MaxProcs
<1>1. IsFiniteSet(Procs) /\ Cardinality(Procs) = MaxProcs
  BY StreamsAssumption, FS_Interval DEF Procs
<1>2. Met \in SUBSET Procs
  BY DEF Met
<1> QED
  BY <1>1, <1>2, FS_Subset, FS_CardinalityType

\* A session once opened stays one of them.
LEMMA MetGrows ==
  ASSUME Met \subseteq Met'
  PROVE  Cardinality(Met) <= Cardinality(Met')
<1>1. IsFiniteSet(Met')
  <2>1. IsFiniteSet(Procs) /\ Met' \in SUBSET Procs
    BY ProcsFinite DEF Met
  <2> QED
    BY <2>1, FS_Subset
<1>2. Met \in SUBSET Met'
  OBVIOUS
<1> QED
  BY <1>1, <1>2, FS_Subset

\* A publisher that comes is one more of them.
LEMMA MetOneMore ==
  ASSUME StreamType, NEW p \in Procs, sess[p].pc \in {"none", "joins"},
         sess' = [sess EXCEPT ![p].pc = "open"]
  PROVE  Cardinality(Met') = Cardinality(Met) + 1
<1>1. Met' = Met \cup {p} /\ p \notin Met
  BY DEF Met, StreamType, Announced
<1>2. IsFiniteSet(Met)
  BY MetFinite
<1> QED
  BY <1>1, <1>2, FS_AddElement

\* A publication that stays, or is shut, keeps its tally.
LEMMA TallyKept ==
  ASSUME StreamType, Tally, Met \subseteq Met',
         \/ pub'.id = pub.id /\ pub'.gen = pub.gen /\ pub'.owed \in Nat /\ pub'.owed <= pub.owed
         \/ pub' = NoPub,
         firing' \subseteq firing \cup {pub.gen}, firing' \subseteq firing \/ pub.id # 0,
         reshaping' \in BOOLEAN, reshapes' \in 0 .. MaxReshapes
  PROVE  Tally'
<1>1. Cardinality(Met) <= Cardinality(Met') /\ Cardinality(Met) \in Nat /\ Cardinality(Met') \in Nat
  <2>1. IsFiniteSet(Procs) /\ Met' \in SUBSET Procs
    BY ProcsFinite DEF Met
  <2>2. Cardinality(Met') \in Nat
    BY <2>1, FS_Subset, FS_CardinalityType
  <2> QED
    BY <2>2, MetFinite, MetGrows
<1>2. pub.gen \in Nat /\ pub.owed \in Nat
  BY DEF StreamType, Published
<1>3. firing' \subseteq Nat \ {0}
  BY <1>2 DEF Tally
<1>4. CASE pub' = NoPub
  BY <1>1, <1>3, <1>4 DEF Tally, NoPub
<1>5. CASE pub'.id = pub.id /\ pub'.gen = pub.gen /\ pub'.owed \in Nat /\ pub'.owed <= pub.owed
  BY <1>1, <1>2, <1>3, <1>5 DEF Tally
<1> QED
  BY <1>4, <1>5

\* Every step keeps the tally.
LEMMA TallyStep ==
  ASSUME IInv, Tally, [Next]_vars
  PROVE  Tally'
<1>1. /\ SourceType /\ StreamType /\ FeederKnown /\ pub \in Published
      /\ pub.owed \in Nat /\ pub.gen \in Nat /\ (pub.id = 0 => pub = NoPub)
  BY DEF IInv, RateInv, StreamInv, StreamType, FeederKnown, Published
<1>2. reshaping \in BOOLEAN /\ reshapes \in 0 .. MaxReshapes
  BY DEF Tally
<1>3. UNCHANGED sess => Met \subseteq Met'
  BY DEF Met
<1>4. ASSUME UNCHANGED <<sess, stream>>, reshaping' \in BOOLEAN, reshapes' \in 0 .. MaxReshapes
      PROVE  Tally'
  <2>1. UNCHANGED <<pub, firing>>
    BY <1>4 DEF stream
  <2> QED
    BY <1>1, <1>3, <1>4, <2>1, TallyKept
<1>5. CASE \/ UNCHANGED vars \/ Start \/ Stop
           \/ \E r \in Runs : \/ Intake(r) \/ Top(r) \/ TopEnded(r) \/ Ended(r) \/ Reset(r)
                             \/ TakePub(r) \/ CancelProc(r)
           \/ \E p \in Procs : Exits(p)
  <2>1. UNCHANGED <<sess, stream, reshapes>> /\ reshaping' \in {reshaping, FALSE}
    BY <1>5 DEF vars, Start, Stop, Intake, Top, TopEnded, Ended, Reset, TakePub, CancelProc, Exits,
       source, adapt
  <2> QED
    BY <1>2, <1>4, <2>1
<1>6. ASSUME NEW r \in Runs, Reshape(r) PROVE Tally'
  <2>1. UNCHANGED <<sess, stream>> /\ reshapes' = reshapes + 1 /\ reshapes < MaxReshapes
    BY <1>6 DEF Reshape, StepDue
  <2>2. reshaping' \in BOOLEAN
    BY <1>2, <1>6 DEF Reshape
  <2>3. reshapes' \in 0 .. MaxReshapes
    BY <1>2, <2>1, StreamsAssumption
  <2> QED
    BY <1>4, <2>1, <2>2, <2>3
<1>7. ASSUME NEW r \in Runs, CloseIntake(r) PROVE Tally'
  <2>1. UNCHANGED <<sess, stream>>
    BY <1>7, CloseIntakeQuiet DEF IInv
  <2>2. UNCHANGED <<reshaping, reshapes>>
    BY <1>7 DEF CloseIntake, source, adapt
  <2> QED
    BY <1>2, <1>4, <2>1, <2>2
<1>8. CASE Late \/ Fire \/ CloseGrace \/ \E r \in Runs : ArmHandover(r)
  <2>1. UNCHANGED <<sess, reshaping, reshapes>>
    BY <1>8 DEF Late, Fire, CloseGrace, ArmHandover, source, adapt
  <2>2. pub'.id = pub.id /\ pub'.gen = pub.gen /\ pub'.owed = pub.owed
    BY <1>1, <1>8 DEF Late, Fire, CloseGrace, ArmHandover, Published
  <2>3. firing' = firing \/ (firing' = firing \cup {pub.gen} /\ pub.id # 0)
    BY <1>1, <1>8 DEF Late, Fire, CloseGrace, ArmHandover, NoPub
  <2> QED
    BY <1>1, <1>2, <1>3, <2>1, <2>2, <2>3, TallyKept
<1>9. ASSUME CloseStream \/ \E g \in firing : GraceOver(g) PROVE Tally'
  <2>1. UNCHANGED <<sess, reshaping, reshapes>> /\ pub' \in {pub, Doom, NoPub} /\ firing' \subseteq firing
    BY <1>9 DEF CloseStream, GraceOver, source, adapt
  <2>2. Doom.id = pub.id /\ Doom.gen = pub.gen /\ Doom.owed = pub.owed
    BY <1>1 DEF Doom, Published
  <2> QED
    BY <1>1, <1>2, <1>3, <2>1, <2>2, TallyKept
<1>10. ASSUME NEW p \in Procs, Announce(p) \/ Joins(p) PROVE Tally'
  <2>1. sess[p].pc \in {"none", "joins"} /\ UNCHANGED <<reshaping, reshapes>>
    BY <1>10 DEF Announce, Joins, source, adapt
  <2>2. CASE /\ \E pc \in {"refused", "joins"} : sess' = [sess EXCEPT ![p].pc = pc]
             /\ UNCHANGED stream
    <3>1. Met \subseteq Met' /\ UNCHANGED <<pub, firing>>
      BY <1>1, <2>1, <2>2 DEF Met, StreamType, Announced, stream
    <3> QED
      BY <1>1, <1>2, <2>1, <3>1, TallyKept
  <2>3. CASE /\ (pub.id = 0 /\ Opened(p)) \/ (pub.id # 0 /\ Joined(p))
             /\ Takes(p)
    <3>1. Cardinality(Met') = Cardinality(Met) + 1 /\ Cardinality(Met) \in Nat
      BY <1>1, <2>1, <2>3, MetOneMore, MetFinite DEF Takes
    <3>2. /\ firing' = firing /\ pub'.owed <= pub'.gen
          /\ pub'.gen <= pub.gen + 1 /\ pub'.gen > 0 /\ pub'.gen \in Nat
      <4>1. CASE pub.id = 0 /\ Opened(p)
        BY <1>1, <4>1 DEF Opened, NoPub
      <4>2. CASE pub.id # 0 /\ Joined(p)
        <5>1. /\ pub'.gen = pub.gen + 1 /\ firing' = firing
              /\ pub'.owed = pub.owed + (IF pub.released THEN 0 ELSE 1)
          BY <1>1, <4>2 DEF Joined, Published
        <5> QED
          BY <1>1, <5>1 DEF Tally
      <4> QED
        BY <2>3, <4>1, <4>2
    <3> QED
      BY <1>1, <2>1, <3>1, <3>2 DEF Tally
  <2>4. (\E q \in Procs : sess[q].pc = "joins") => pub.id # 0
    BY DEF IInv, StreamInv, Joining
  <2> QED
    BY <1>10, <2>2, <2>3, <2>4 DEF Announce, Joins
<1>11. ASSUME NEW p \in Procs, Leave(p) \/ Release(p) \/ Closed(p) PROVE Tally'
  <2>1. Met \subseteq Met' /\ UNCHANGED <<reshaping, reshapes>>
    BY <1>1, <1>11 DEF Leave, Release, Closed, Met, StreamType, Announced, source, adapt
  <2>2. /\ firing' \subseteq firing
        /\ pub'.id = pub.id /\ pub'.gen = pub.gen /\ pub'.owed \in Nat /\ pub'.owed <= pub.owed
    <3>1. CASE Leave(p) \/ Closed(p)
      BY <1>1, <3>1 DEF Leave, Closed, stream
    <3>2. CASE Release(p)
      <4>1. \/ pub' = pub \/ pub' = Doom
            \/ pub' = [pub EXCEPT !.released = TRUE, !.timer = "set"]
            \/ Owed /\ pub' = [pub EXCEPT !.owed = pub.owed - 1]
        BY <3>2 DEF Release
      <4>2. firing' = firing
        BY <3>2 DEF Release
      <4>3. CASE Owed /\ pub' = [pub EXCEPT !.owed = pub.owed - 1]
        BY <1>1, <4>2, <4>3 DEF Owed, Published
      <4>4. CASE pub' = pub \/ pub' = Doom
        BY <1>1, <4>2, <4>4 DEF Doom, Published
      <4>5. CASE pub' = [pub EXCEPT !.released = TRUE, !.timer = "set"]
        BY <1>1, <4>2, <4>5 DEF Published
      <4> QED
        BY <4>1, <4>3, <4>4, <4>5
    <3> QED
      BY <1>11, <3>1, <3>2
  <2> QED
    BY <1>1, <1>2, <2>1, <2>2, TallyKept
<1> QED
  BY <1>5, <1>6, <1>7, <1>8, <1>9, <1>10, <1>11 DEF Next, OfRun, OfProc

\* What the camera's theorems rest on holds throughout.
THEOREM StreamsInvariant == Spec => []IInv
  BY InitInvariant, Inductive, PTL DEF Spec

\* The types, with how many releases are owed: never more than ffmpegs were started, so that
\* the count of a publication comes to an end with it.
THEOREM StreamsTyped == Spec => []TypeOK
<1>1. Init => Tally
  <2> SUFFICES ASSUME Init PROVE Tally
    OBVIOUS
  <2>1. Cardinality(Met) \in Nat
    BY MetFinite
  <2>2. pub.owed = 0 /\ pub.gen = 0 /\ pub.id = 0 /\ firing = {}
    BY DEF Init, NoPub
  <2>3. reshaping = FALSE /\ reshapes = 0
    BY DEF Init
  <2>4. reshaping \in BOOLEAN
    BY <2>3
  <2>5. reshapes \in 0 .. MaxReshapes
    BY <2>3, StreamsAssumption
  <2> QED
    BY <2>1, <2>2, <2>4, <2>5 DEF Tally
<1>2. IInv /\ Tally /\ [Next]_vars => Tally'
  BY TallyStep
<1>3. ASSUME IInv, Tally PROVE TypeOK
  <2>1. SourceType /\ StreamType /\ GraceForReleased /\ Decided
    BY <1>3 DEF IInv, RateInv, StreamInv
  <2>2. pub.gen <= MaxProcs /\ pub.owed <= MaxProcs /\ pub \in Published
    BY <1>3, <2>1, MetFinite, StreamsAssumption DEF Tally, StreamType, Published
  <2>3. firing \subseteq 1 .. MaxProcs
    BY <1>3, <2>1, <2>2, StreamsAssumption DEF Tally, GraceForReleased, StreamType, Published
  <2>4. /\ pub \in [id : Nat, armed : {"no", "yes", "late"},
                   timer : {"none", "set", "due"}, released : BOOLEAN,
                   owed : 0 .. MaxProcs, gen : 0 .. MaxProcs, feeder : {0} \cup Procs,
                   doomed : 0 .. MaxProcs, cleared : BOOLEAN]
    BY <2>1, <2>2, StreamsAssumption DEF Published, Decided
  <2> QED
    BY <1>3, <2>1, <2>3, <2>4 DEF TypeOK, SourceType, StreamType, Tally, Running, Encoder, Announced,
       Adapting
<1> QED
  BY <1>1, <1>2, <1>3, StreamsInvariant, PTL DEF Spec

\* An ffmpeg that the Source knows to be its own has the rate in force, or is about
\* to be replaced, for any number of runs, ffmpegs, rungs and steps of the Adapter.
THEOREM ReachedRateHolds == Spec => []ReachedRate
<1>1. IInv => ReachedRate
  BY DEF IInv, RateInv
<1> QED
  BY <1>1, StreamsInvariant, PTL

\* A step that ends a publication is the last hold of a close, decided with no publisher there.
LEMMA EndedUnfed ==
  ASSUME IInv, [Next]_vars, pub.id # 0, pub'.id # pub.id
  PROVE  sess[pub.feeder].pc # "open" \/ pub.doomed < pub.gen
<1>1. StreamInv
  BY DEF IInv
<1>2. pub \in Published
  BY <1>1 DEF StreamInv, StreamType
<1>3. ASSUME UNCHANGED pub \/ pub' = Doom PROVE FALSE
  BY <1>2, <1>3 DEF Doom, Published
<1>4. ASSUME NEW p \in Procs, Announce(p) \/ Joins(p) PROVE FALSE
  <2>1. Joined(p) \/ UNCHANGED stream
    BY <1>4 DEF Announce, Joins
  <2>2. pub'.id = pub.id
    BY <1>2, <2>1 DEF Joined, Published, stream
  <2> QED
    BY <2>2
<1>5. ASSUME NEW p \in Procs, Release(p) PROVE FALSE
  <2>1. \/ pub' \in {pub, Doom}
        \/ pub' = [pub EXCEPT !.owed = pub.owed - 1]
        \/ pub' = [pub EXCEPT !.released = TRUE, !.timer = "set"]
    BY <1>5 DEF Release
  <2> QED
    BY <1>2, <1>3, <2>1 DEF Published
<1>6. ASSUME NEW g \in firing, GraceOver(g) PROVE FALSE
  BY <1>3, <1>6 DEF GraceOver
<1>7. ASSUME NEW r \in Runs, CloseIntake(r) PROVE FALSE
  BY <1>3, <1>7 DEF CloseIntake
<1>8. CASE Late \/ Fire \/ CloseGrace \/ \E r \in Runs : ArmHandover(r)
  <2>1. pub'.id = pub.id
    BY <1>2, <1>8 DEF Late, Fire, CloseGrace, ArmHandover, Published
  <2> QED
    BY <2>1
<1>9. CASE Start \/ Stop \/ \E r \in Runs : \/ Intake(r) \/ Top(r) \/ TopEnded(r) \/ Ended(r)
                                            \/ Reset(r) \/ Reshape(r) \/ TakePub(r) \/ CancelProc(r)
  BY <1>3, <1>9 DEF Start, Stop, Intake, Top, TopEnded, Ended, Reset, Reshape, TakePub, CancelProc, stream
<1>10. CASE \/ UNCHANGED vars
            \/ \E p \in Procs : Exits(p) \/ Leave(p) \/ Closed(p)
  BY <1>3, <1>10 DEF vars, stream, Exits, Leave, Closed
<1>11. ASSUME CloseStream PROVE sess[pub.feeder].pc # "open" \/ pub.doomed < pub.gen
  BY <1>1, <1>2, <1>11 DEF CloseStream, StreamInv, Decided, Published
<1> QED
  BY <1>4, <1>5, <1>6, <1>7, <1>8, <1>9, <1>10, <1>11 DEF Next, OfRun, OfProc

\* The readers' stream is closed under a publisher that is still there only by a close decided
\* before that one joined, whatever the number of them: neither the grace of a handover nor the
\* late release of an ffmpeg that was replaced is turned against the replacement.
THEOREM PublisherKeptHolds == Spec => PublisherKept
<1>1. IInv /\ [Next]_vars =>
        [pub.id # 0 /\ pub'.id # pub.id => sess[pub.feeder].pc # "open" \/ pub.doomed < pub.gen]_vars
  BY EndedUnfed
<1> QED
  BY <1>1, StreamsInvariant, PTL DEF Spec, PublisherKept

-----------------------------------------------------------------------------
(* The packets of the stream. *)

\* A packet comes right after another of its publisher: in the same access unit, or at the
\* start of the next.
Follows(p, q) ==
  /\ q.gen = p.gen /\ q.place = p.place + 1
  /\ \/ q.au = p.au /\ q.key = p.key /\ q.slice = p.slice + 1
     \/ q.au = p.au + 1 /\ p.slice > 0 /\ q.slice < 2

\* A publisher's first, of a keyframe.
First(q) == q.place = 1 /\ q.au = 1 /\ q.key /\ q.slice < 2

\* A packet is next after what was looked up last.
After(p, q) == IF p.gen = q.gen THEN Follows(p, q) ELSE First(q)

\* The next packet the publisher would give of the access unit it is at.
Coming == [gen |-> gen, au |-> frame.au, key |-> frame.key, slice |-> Head(todo),
           place |-> frame.place + 1]

\* The last packet the publisher gave, wherever it is.
Given ==
  IF held # <<>> THEN held[Len(held)]
  ELSE IF queue # <<>> /\ queue[Len(queue)].gen = gen THEN queue[Len(queue)]
  ELSE seen.last

Rests == {<<>>, <<1>>, <<2>>, <<0, 1>>, <<1, 2>>, <<0, 1, 2>>}

\* The publisher's packets come one right after the other: what it is to give after what
\* it gave.
Source ==
  /\ todo \in Rests /\ frame.place + Len(todo) <= 3 * frame.au
  /\ todo # <<>> => frame.au # 0 /\ After(Given, Coming)
  /\ todo = <<>> =>
       IF Given.gen = gen
       THEN Given.slice > 0 /\ Given.au = frame.au /\ Given.place = frame.place
       ELSE frame.au = 0 /\ frame.place = 0

\* The packets held are the publisher's first, and the hold is before all lookups of its
\* packets.
Hold ==
  /\ held # <<>> => First(held[1]) /\ \A k \in 1 .. Len(held) : held[k].gen = gen
  /\ \A k \in 1 .. Len(held) - 1 : Follows(held[k], held[k + 1])
  /\ ~settled => seen.last.gen # gen /\ (queue # <<>> => queue[1].gen # gen)

\* The packets on their way to the lookup are one publisher's, one right after the other, after the
\* last looked up.
Line ==
  /\ queue # <<>> => After(seen.last, queue[1]) /\ queue[1].gen <= gen /\ seen.last.gen <= queue[1].gen
  /\ \A k \in 1 .. Len(queue) - 1 : Follows(queue[k], queue[k + 1])
  /\ \A k \in 1 .. Len(queue) : queue[k].gen = queue[1].gen
  /\ seen.last.gen <= gen /\ (hand = NoPacket \/ hand = seen.last)

\* The gate and the decoder are ready for a packet: it is of an access unit begun, or
\* begins one; a frame let through finds its references, and a second slice the first.
Ready(q) ==
  /\ IF track.in = <<q.gen, q.au>> THEN q.slice > 0 ELSE q.slice < 2
  /\ ~track.dropping /\ ~q.key => decoder.refs
  /\ q.slice = 2 => ~track.undecided
  /\ q.slice = 2 /\ ~track.dropping => decoder.refs /\ decoder.got = <<q.gen, q.au>>

\* They are for the packet in hand and, when it has been put, for whichever is next.
Prepared ==
  IF hand # NoPacket /\ hand.gen = gen THEN Ready(hand)
  ELSE \A q \in Packet : q.gen = gen /\ After(seen.last, q) => Ready(q)

\* Until a packet of a replaced publisher is written, every one written is of use and has
\* its own publisher's clock.
Unmixed ==
  ~decoder.stray =>
    /\ ~decoder.misled /\ ~decoder.skewed
    /\ ~track.fresh => track.off = gen
    /\ Prepared

GateInv == GateTypeOK /\ Source /\ Hold /\ Line /\ Unmixed /\ ~seen.disorder

\* What the publisher has yet to give of an access unit: one slice after the other, the
\* last of which is a slice's.
LEMMA RestsParts ==
  /\ \A s \in Rests : s \in Seq(0 .. 2) /\ Len(s) \in 0 .. 3 /\ (s # <<>> <=> Len(s) > 0)
  /\ \A s \in Rests : s # <<>> =>
       /\ Head(s) \in 0 .. 2 /\ Tail(s) \in Rests /\ Len(Tail(s)) = Len(s) - 1
       /\ IF Tail(s) = <<>> THEN Head(s) > 0 ELSE Head(Tail(s)) = Head(s) + 1
<1>1. ASSUME NEW s \in Rests
      PROVE  s \in Seq(0 .. 2) /\ Len(s) \in 0 .. 3 /\ (s # <<>> <=> Len(s) > 0)
  <2>1. CASE s = <<>>
    BY <2>1
  <2>2. CASE s = <<1>>
    BY <2>2
  <2>3. CASE s = <<2>>
    BY <2>3
  <2>4. CASE s = <<0, 1>>
    BY <2>4
  <2>5. CASE s = <<1, 2>>
    BY <2>5
  <2>6. CASE s = <<0, 1, 2>>
    BY <2>6
  <2> QED
    BY <1>1, <2>1, <2>2, <2>3, <2>4, <2>5, <2>6 DEF Rests
<1>2. ASSUME NEW s \in Rests, s # <<>>
      PROVE  /\ Head(s) \in 0 .. 2 /\ Tail(s) \in Rests /\ Len(Tail(s)) = Len(s) - 1
             /\ IF Tail(s) = <<>> THEN Head(s) > 0 ELSE Head(Tail(s)) = Head(s) + 1
  <2>1. CASE s = <<1>>
    BY <2>1 DEF Rests
  <2>2. CASE s = <<2>>
    BY <2>2 DEF Rests
  <2>3. CASE s = <<0, 1>>
    BY <2>3 DEF Rests
  <2>4. CASE s = <<1, 2>>
    BY <2>4 DEF Rests
  <2>5. CASE s = <<0, 1, 2>>
    BY <2>5 DEF Rests
  <2> QED
    BY <1>2, <2>1, <2>2, <2>3, <2>4, <2>5 DEF Rests
<1> QED
  BY <1>1, <1>2

\* The fields, by type.
LEMMA FieldTypes ==
  ASSUME GateTypeOK
  PROVE  /\ gen \in Nat /\ gen # 0 /\ frame.au \in 0 .. MaxFrames /\ frame.key \in BOOLEAN
         /\ frame.place \in Nat /\ seen.last \in Packet \cup {NoPacket}
         /\ seen.last.gen \in Nat /\ NoPacket.gen = 0
         /\ \A p \in Packet : /\ p.gen \in 1 .. MaxGens /\ p.au \in 1 .. MaxFrames
                              /\ p.key \in BOOLEAN /\ p.slice \in 0 .. 2 /\ p.place \in Nat /\ p.place # 0
         /\ \A k \in 1 .. Len(held) : held[k] \in Packet
         /\ \A k \in 1 .. Len(queue) : queue[k] \in Packet
         /\ Len(held) \in Nat /\ Len(queue) \in Nat
<1> USE GateAssumption
<1>1. \A p \in Packet : /\ p.gen \in 1 .. MaxGens /\ p.au \in 1 .. MaxFrames
                        /\ p.key \in BOOLEAN /\ p.slice \in 0 .. 2 /\ p.place \in Nat /\ p.place # 0
  BY DEF Packet
<1>2. NoPacket.gen = 0
  BY DEF NoPacket
<1>3. seen.last \in Packet \cup {NoPacket}
  BY DEF GateTypeOK
<1>4. seen.last.gen \in Nat
  BY <1>1, <1>2, <1>3
<1>5. held \in Seq(Packet) /\ queue \in Seq(Packet)
  BY DEF GateTypeOK
<1>6. gen \in Nat /\ gen # 0 /\ frame.au \in 0 .. MaxFrames /\ frame.key \in BOOLEAN /\ frame.place \in Nat
  BY DEF GateTypeOK
<1> QED
  BY <1>1, <1>2, <1>3, <1>4, <1>5, <1>6

\* The packet to come is a packet.
LEMMA ComingTyped ==
  ASSUME GateTypeOK, Source, todo # <<>>
  PROVE  Coming \in Packet
<1>1. Head(todo) \in 0 .. 2 /\ Len(todo) \in 1 .. 3
  BY RestsParts DEF Source
<1>2. frame.au \in 1 .. MaxFrames /\ frame.key \in BOOLEAN /\ gen \in 1 .. MaxGens /\ frame.place \in Nat
  <2>1. frame.au # 0
    BY DEF Source
  <2>2. frame.au \in 0 .. MaxFrames /\ frame.key \in BOOLEAN /\ frame.place \in Nat
    BY FieldTypes
  <2>3. gen \in 1 .. MaxGens
    BY DEF GateTypeOK
  <2> QED
    BY <2>1, <2>2, <2>3, GateAssumption
<1>3. frame.place + 1 \in 1 .. 3 * MaxFrames
  <2>1. frame.place + Len(todo) <= 3 * frame.au
    BY DEF Source
  <2>2. 3 * frame.au <= 3 * MaxFrames
    BY <1>2, GateAssumption
  <2> QED
    BY <1>1, <1>2, <2>1, <2>2, GateAssumption
<1> QED
  BY <1>1, <1>2, <1>3 DEF Coming, Packet

\* What TimedWriter.Write does with the packet to come.
LEMMA WriteParts ==
  ASSUME Write
  PROVE  /\ todo # <<>> /\ queue = <<>> /\ hand = NoPacket /\ todo' = Tail(todo)
         /\ frame' = [frame EXCEPT !.place = @ + 1] /\ hand' = hand
         /\ UNCHANGED <<gen, reported, congested, track, counts, decoder, seen>>
         /\ \/ settled /\ queue' = <<Coming>> /\ UNCHANGED <<settled, held>>
            \/ ~settled /\ queue' = Append(held, Coming) /\ settled' = TRUE /\ held' = <<>>
            \/ ~settled /\ Room /\ held' = Append(held, Coming) /\ UNCHANGED <<queue, settled>>
BY DEF Write, Flush, Coming

\* One packet more, behind those there are.
LEMMA OneMore ==
  ASSUME NEW s \in Seq(Packet), NEW p \in Packet
  PROVE  /\ Append(s, p) \in Seq(Packet) /\ Append(s, p) # <<>> /\ Len(s) \in Nat
         /\ Len(Append(s, p)) = Len(s) + 1 /\ Append(s, p)[Len(s) + 1] = p
         /\ \A k \in 1 .. Len(s) : Append(s, p)[k] = s[k]
BY AppendProperties, EmptySeq

\* One packet.
LEMMA JustOne ==
  ASSUME NEW p \in Packet
  PROVE  /\ <<p>> \in Seq(Packet) /\ <<p>> # <<>> /\ Len(<<p>>) = 1 /\ <<p>>[1] = p
OBVIOUS

\* Without the first, the rest move up.
LEMMA WithoutFirst ==
  ASSUME NEW s \in Seq(Packet), s # <<>>
  PROVE  /\ Tail(s) \in Seq(Packet) /\ Len(s) \in Nat /\ Len(s) >= 1 /\ Len(Tail(s)) = Len(s) - 1
         /\ \A k \in 1 .. Len(Tail(s)) : Tail(s)[k] = s[k + 1]
         /\ Head(s) = s[1] /\ s[1] \in Packet /\ (Tail(s) # <<>> <=> Len(s) > 1)
<1>1. /\ Tail(s) \in Seq(Packet) /\ Len(s) \in Nat /\ Len(s) >= 1 /\ Len(Tail(s)) = Len(s) - 1
      /\ \A k \in 1 .. Len(Tail(s)) : Tail(s)[k] = s[k + 1]
      /\ Head(s) = s[1] /\ s[1] \in Packet
  BY HeadTailProperties, EmptySeq
<1>2. Tail(s) = <<>> <=> Len(Tail(s)) = 0
  BY <1>1, EmptySeq
<1> QED
  BY <1>1, <1>2

\* What a write does with the packet in hand: the gate keeps it, or it is sent.
LEMMA PutParts ==
  ASSUME Put
  PROVE  /\ hand # NoPacket /\ hand' = NoPacket
         /\ UNCHANGED <<publisher, writer, congested, seen>>
         /\ Admit(hand).dropping =>
              /\ track' = Admit(hand) /\ stat' = Admit(hand).frames
              /\ total' = total + (IF Begins(hand) THEN 1 ELSE 0)
              /\ decoder' = [decoder EXCEPT !.refs = @ /\ hand.slice = 0]
         /\ ~Admit(hand).dropping =>
              /\ track' = [Admit(hand) EXCEPT !.fresh = FALSE, !.off = Stamp(Admit(hand), hand)]
              /\ decoder' = Decode(hand, Stamp(Admit(hand), hand)) /\ UNCHANGED counts
BY DEF Put

\* Every variable keeps its type.
LEMMA GateTypeStep ==
  ASSUME GateTypeOK, Source, [GateNext]_gateVars
  PROVE  GateTypeOK'
<1> USE GateAssumption
<1>1. CASE UNCHANGED gateVars
  BY <1>1 DEF GateTypeOK, gateVars, publisher, writer, counts
<1>2. CASE Begin
  <2>1. todo' \in Seq(0 .. 2)
    BY <1>2, RestsParts DEF Begin, Rests
  <2>2. frame' \in [au : 0 .. MaxFrames, key : BOOLEAN, place : 0 .. 3 * MaxFrames]
    <3>1. PICK key \in BOOLEAN : frame' = [frame EXCEPT !.au = @ + 1, !.key = key]
      BY <1>2 DEF Begin
    <3>2. frame.au + 1 \in 0 .. MaxFrames
      <4>1. frame.au < MaxFrames /\ frame.au \in 0 .. MaxFrames
        BY <1>2, FieldTypes DEF Begin
      <4> QED
        BY <4>1
    <3> QED
      BY <3>1, <3>2 DEF GateTypeOK
  <2> QED
    BY <1>2, <2>1, <2>2 DEF Begin, GateTypeOK, writer, counts
<1>3. CASE Report
  BY <1>3 DEF Report, GateTypeOK, publisher, counts
<1>4. CASE Write
  <2>1. Coming \in Packet
    BY <1>4, ComingTyped, WriteParts
  <2>2. todo' \in Seq(0 .. 2) /\ frame' \in [au : 0 .. MaxFrames, key : BOOLEAN, place : 0 .. 3 * MaxFrames]
    <3>1. todo' \in Seq(0 .. 2)
      BY <1>4, WriteParts, RestsParts DEF Source
    <3>2. frame.place + 1 \in 0 .. 3 * MaxFrames
      BY <2>1 DEF Coming, Packet
    <3> QED
      BY <1>4, <3>1, <3>2, WriteParts DEF GateTypeOK
  <2>3. /\ queue' \in Seq(Packet) /\ held' \in Seq(Packet) /\ settled' \in BOOLEAN
        /\ Len(held') < HoldPackets /\ (settled' => held' = <<>>)
    <3>1. held \in Seq(Packet) /\ queue \in Seq(Packet) /\ Len(held) < HoldPackets /\ settled \in BOOLEAN
          /\ (settled => held = <<>>)
      BY DEF GateTypeOK
    <3>2. Append(held, Coming) \in Seq(Packet) /\ Len(Append(held, Coming)) = Len(held) + 1
      BY <2>1, <3>1, OneMore
    <3>3. <<Coming>> \in Seq(Packet) /\ <<>> \in Seq(Packet) /\ Len(<<>>) = 0
      BY <2>1, JustOne
    <3>4. CASE queue' = <<Coming>> /\ UNCHANGED <<settled, held>>
      BY <3>1, <3>3, <3>4
    <3>5. CASE queue' = Append(held, Coming) /\ settled' = TRUE /\ held' = <<>>
      BY <3>2, <3>3, <3>5
    <3>6. CASE ~settled /\ Room /\ held' = Append(held, Coming) /\ UNCHANGED <<queue, settled>>
      BY <3>1, <3>2, <3>6 DEF Room
    <3> QED
      BY <1>4, <3>4, <3>5, <3>6, WriteParts
  <2> QED
    BY <1>4, <2>2, <2>3, WriteParts DEF GateTypeOK, counts
<1>5. CASE Join
  <2>1. <<>> \in Seq(Packet) /\ <<>> \in Seq(0 .. 2) /\ Len(<<>>) = 0
    OBVIOUS
  <2>2. /\ track' \in [in : Nat \X Nat, dropping : BOOLEAN, undecided : BOOLEAN,
                       frames : Nat, fresh : BOOLEAN, off : 0 .. MaxGens]
        /\ (track'.undecided => track'.dropping)
    BY <1>5 DEF Join, GateTypeOK
  <2>3. frame' \in [au : 0 .. MaxFrames, key : BOOLEAN, place : 0 .. 3 * MaxFrames] /\ gen' \in 1 .. MaxGens
    <3>1. 0 \in 0 .. MaxFrames /\ 0 \in 0 .. 3 * MaxFrames
      OBVIOUS
    <3>2. gen' \in 1 .. MaxGens
      <4>1. gen < MaxGens /\ gen' = gen + 1 /\ gen \in 1 .. MaxGens
        BY <1>5 DEF Join, GateTypeOK
      <4> QED
        BY <4>1
    <3> QED
      BY <1>5, <3>1, <3>2 DEF Join
  <2>4. /\ held' \in Seq(Packet) /\ Len(held') < HoldPackets /\ held' = <<>>
        /\ reported' \in BOOLEAN /\ settled' \in BOOLEAN /\ todo' \in Seq(0 .. 2)
    <3>1. held' = <<>> /\ reported' = FALSE /\ settled' = FALSE /\ todo' = <<>> /\ 0 < HoldPackets
      BY <1>5 DEF Join
    <3> QED
      BY <2>1, <3>1
  <2> QED
    BY <1>5, <2>2, <2>3, <2>4 DEF Join, GateTypeOK, counts
<1>6. CASE Congest
  BY <1>6 DEF Congest, GateTypeOK, publisher, writer, counts
<1>7. CASE Lookup
  <2>1. Tail(queue) \in Seq(Packet) /\ Head(queue) \in Packet
    BY <1>7, WithoutFirst DEF Lookup, GateTypeOK
  <2>2. seen' \in [last : Packet \cup {NoPacket}, disorder : BOOLEAN] /\ hand' \in Packet \cup {NoPacket}
    BY <1>7, <2>1, FieldTypes DEF Lookup, GateTypeOK
  <2> QED
    BY <1>7, <2>1, <2>2 DEF Lookup, GateTypeOK, publisher, counts
<1>8. CASE Put
  <2>1. hand \in Packet /\ hand.gen \in 1 .. MaxGens /\ hand.au \in 1 .. MaxFrames
    BY <1>8, FieldTypes DEF Put, GateTypeOK
  <2> DEFINE t == Admit(hand)
  <2>2. /\ t \in [in : Nat \X Nat, dropping : BOOLEAN, undecided : BOOLEAN,
                  frames : Nat, fresh : BOOLEAN, off : 0 .. MaxGens]
        /\ (t.undecided => t.dropping)
    <3>1. <<hand.gen, hand.au>> \in Nat \X Nat
      BY <2>1
    <3>2. track.frames \in Nat /\ congested \in BOOLEAN /\ track.dropping \in BOOLEAN /\ track.undecided \in BOOLEAN
      BY DEF GateTypeOK
    <3> DEFINE d == track.dropping \/ (Begins(hand) /\ congested)
               u == IF Begins(hand) THEN d ELSE track.undecided
               over == u /\ hand.key /\ hand.slice > 0 /\ ~congested
               n == (IF d /\ ~track.dropping THEN 0 ELSE track.frames) + (IF d /\ ~over /\ Begins(hand) THEN 1 ELSE 0)
    <3>3. t = [track EXCEPT !.in = <<hand.gen, hand.au>>, !.dropping = d /\ ~over,
                            !.undecided = u /\ hand.slice = 0, !.frames = n]
      BY DEF Admit
    <3>4. n \in Nat /\ (u => d)
      <4>1. track.undecided => track.dropping
        BY DEF GateTypeOK
      <4>2. u => d
        BY <4>1
      <4>3. n \in Nat
        BY <3>2
      <4> QED
        BY <4>2, <4>3
    <3>5. hand.slice = 0 => ~over
      BY <2>1 DEF Packet
    <3>6. d \in BOOLEAN /\ u \in BOOLEAN /\ over \in BOOLEAN
      BY <3>2 DEF Begins
    <3> HIDE DEF d, u, over, n, t
    <3> QED
      BY <3>1, <3>3, <3>4, <3>5, <3>6 DEF GateTypeOK
  <2>3. /\ track' \in [in : Nat \X Nat, dropping : BOOLEAN, undecided : BOOLEAN,
                       frames : Nat, fresh : BOOLEAN, off : 0 .. MaxGens]
        /\ (track'.undecided => track'.dropping) /\ stat' \in Nat /\ total' \in Nat
    <3>1. CASE t.dropping
      <4>1. track' = t /\ stat' = t.frames /\ total' \in {total, total + 1}
        <5>1. total' = total + (IF Begins(hand) THEN 1 ELSE 0) /\ total \in Nat
          BY <1>8, <3>1, PutParts DEF GateTypeOK
        <5> QED
          BY <1>8, <3>1, <5>1, PutParts
      <4>2. total \in Nat
        BY DEF GateTypeOK
      <4> HIDE DEF t
      <4> QED
        BY <2>2, <4>1, <4>2
    <3>2. CASE ~t.dropping
      <4>1. track' = [t EXCEPT !.fresh = FALSE, !.off = Stamp(t, hand)] /\ UNCHANGED counts
        BY <1>8, <3>2, PutParts
      <4>2. Stamp(t, hand) \in 0 .. MaxGens
        BY <2>1, <2>2 DEF Stamp
      <4> HIDE DEF t
      <4> QED
        BY <2>2, <4>1, <4>2 DEF counts, GateTypeOK
    <3> QED
      BY <3>1, <3>2
  <2>4. decoder' \in [refs : BOOLEAN, got : Nat \X Nat, misled : BOOLEAN, skewed : BOOLEAN,
                      stray : BOOLEAN]
    <3>1. CASE t.dropping
      <4>1. decoder' = [decoder EXCEPT !.refs = @ /\ hand.slice = 0]
        BY <1>8, <3>1, PutParts
      <4> QED
        BY <4>1 DEF GateTypeOK
    <3>2. CASE ~t.dropping
      <4> DEFINE off == Stamp(t, hand)
                 r == decoder.refs \/ (hand.key /\ hand.slice = 1)
                 g == IF hand.slice = 1 THEN <<hand.gen, hand.au>> ELSE decoder.got
                 m == \/ decoder.misled \/ (hand.slice > 0 /\ ~hand.key /\ ~decoder.refs)
                      \/ (hand.slice = 2 /\ decoder.got # <<hand.gen, hand.au>>)
                 w == decoder.skewed \/ off # hand.gen
                 y == decoder.stray \/ hand.gen # gen
      <4>1. decoder' = [decoder EXCEPT !.refs = r, !.got = g, !.misled = m, !.skewed = w, !.stray = y]
        BY <1>8, <3>2, PutParts DEF Decode
      <4>2. g \in Nat \X Nat
        <5>1. decoder.got \in Nat \X Nat
          BY DEF GateTypeOK
        <5>2. <<hand.gen, hand.au>> \in Nat \X Nat
          BY <2>1
        <5> QED
          BY <5>1, <5>2
      <4>3. r \in BOOLEAN /\ m \in BOOLEAN /\ w \in BOOLEAN /\ y \in BOOLEAN
        BY <2>1 DEF GateTypeOK, Packet
      <4>4. decoder \in [refs : BOOLEAN, got : Nat \X Nat, misled : BOOLEAN, skewed : BOOLEAN,
                         stray : BOOLEAN]
        BY DEF GateTypeOK
      <4> HIDE DEF t, r, g, m, w, y
      <4> QED
        BY <4>1, <4>2, <4>3, <4>4
    <3> QED
      BY <3>1, <3>2
  <2> QED
    BY <1>8, <2>3, <2>4 DEF Put, GateTypeOK, publisher, writer
<1> QED
  BY <1>1, <1>2, <1>3, <1>4, <1>5, <1>6, <1>7, <1>8 DEF GateNext

-----------------------------------------------------------------------------
(* The order of the packets. *)

\* What was given last, and what comes, are of the packets held, of those before the lookup, and
\* of what was looked up.
LEMMA SourceStays ==
  ASSUME Source, UNCHANGED <<gen, frame, todo>>, Given' = Given
  PROVE  Source'
<1>1. Coming' = Coming
  BY DEF Coming
<1> QED
  BY <1>1 DEF Source, After

\* Of two packets of other publishers it does not matter which was the last.
LEMMA SourceOther ==
  ASSUME Source, UNCHANGED <<gen, frame, todo>>, Given.gen # gen, Given'.gen # gen
  PROVE  Source'
<1>1. Coming' = Coming /\ Coming.gen = gen
  BY DEF Coming
<1> QED
  BY <1>1 DEF Source, After

\* The packets on their way to the lookup are one publisher's, and it is no later one.
LEMMA LineGen ==
  ASSUME GateTypeOK, Line, queue # <<>>
  PROVE  /\ Len(queue) \in Nat /\ Len(queue) >= 1 /\ queue[Len(queue)].gen = queue[1].gen
         /\ queue[1].gen \in Nat /\ queue[1].gen <= gen /\ seen.last.gen <= queue[1].gen
<1>1. Len(queue) \in Nat /\ Len(queue) >= 1 /\ queue[1] \in Packet
  BY WithoutFirst DEF GateTypeOK
<1> QED
  BY <1>1, FieldTypes DEF Line

\* The publisher's next packet comes right after the one it gave.
LEMMA SourceStep ==
  ASSUME GateTypeOK, Source, Hold, Line, [GateNext]_gateVars
  PROVE  Source'
<1>1. CASE UNCHANGED gateVars \/ Report \/ Congest
  <2>1. UNCHANGED <<gen, frame, todo, held, queue, seen>>
    BY <1>1 DEF gateVars, publisher, writer, Report, Congest
  <2>2. Given' = Given
    BY <2>1 DEF Given
  <2> QED
    BY <2>1, <2>2, SourceStays
<1>2. CASE Put
  <2>1. UNCHANGED <<gen, frame, todo, held, queue, seen>>
    BY <1>2, PutParts DEF publisher, writer
  <2>2. Given' = Given
    BY <2>1 DEF Given
  <2> QED
    BY <2>1, <2>2, SourceStays
<1>3. CASE Begin
  <2>1. /\ todo = <<>> /\ UNCHANGED <<gen, held, queue, seen>>
        /\ todo' \in {<<1>>, <<0, 1>>, <<1, 2>>, <<0, 1, 2>>}
    BY <1>3 DEF Begin, writer
  <2>2. PICK key \in BOOLEAN : (frame.au = 0 => key) /\ frame' = [frame EXCEPT !.au = @ + 1, !.key = key]
    BY <1>3 DEF Begin
  <2>3. frame'.au = frame.au + 1 /\ frame'.key = key /\ frame'.place = frame.place
    BY <2>2 DEF GateTypeOK
  <2>4. Given' = Given /\ gen' = gen
    BY <2>1 DEF Given
  <2>5. /\ todo' \in Rests /\ todo' # <<>> /\ Head(todo') \in {0, 1} /\ Len(todo') \in 0 .. 3
    <3>1. CASE todo' = <<1>>
      BY <3>1 DEF Rests
    <3>2. CASE todo' = <<0, 1>>
      BY <3>2 DEF Rests
    <3>3. CASE todo' = <<1, 2>>
      BY <3>3 DEF Rests
    <3>4. CASE todo' = <<0, 1, 2>>
      BY <3>4 DEF Rests
    <3> QED
      BY <2>1, <3>1, <3>2, <3>3, <3>4
  <2>6. /\ Coming'.gen = gen /\ Coming'.au = frame.au + 1 /\ Coming'.key = key
        /\ Coming'.slice = Head(todo') /\ Coming'.place = frame.place + 1
    BY <2>3, <2>4 DEF Coming
  <2>7. frame.au \in Nat /\ frame.place \in Nat /\ frame.place <= 3 * frame.au
    BY <2>1, FieldTypes, RestsParts DEF Source
  <2>8. IF Given.gen = gen
        THEN Given.slice > 0 /\ Given.au = frame.au /\ Given.place = frame.place
        ELSE frame.au = 0 /\ frame.place = 0
    BY <2>1 DEF Source
  <2>9. After(Given, Coming)'
    <3>1. CASE Given.gen = gen
      <4>1. Coming'.slice < 2
        BY <2>5, <2>6
      <4> QED
        BY <2>4, <2>6, <2>8, <3>1, <4>1 DEF After, Follows
    <3>2. CASE Given.gen # gen
      <4>1. Coming'.slice < 2 /\ Coming'.place = 1 /\ Coming'.au = 1 /\ Coming'.key
        BY <2>2, <2>5, <2>6, <2>8, <3>2
      <4> QED
        BY <2>4, <2>6, <3>2, <4>1 DEF After, First
    <3> QED
      BY <3>1, <3>2
  <2>10. frame'.place + Len(todo') <= 3 * frame'.au /\ frame'.au # 0
    <3>1. ASSUME NEW a \in Nat, NEW b \in Nat, NEW n \in 0 .. 3, b <= 3 * a
          PROVE  b + n <= 3 * (a + 1) /\ a + 1 # 0
      BY <3>1
    <3> QED
      BY <2>3, <2>5, <2>7, <3>1
  <2> QED
    BY <2>5, <2>9, <2>10 DEF Source
<1>4. CASE Write
  <2> DEFINE p == Coming
  <2>1. p \in Packet /\ todo # <<>>
    BY <1>4, ComingTyped, WriteParts
  <2>2. Given' = p /\ gen' = gen
    <3>1. held \in Seq(Packet) /\ gen' = gen /\ p.gen = gen /\ queue = <<>>
      BY <1>4, WriteParts DEF GateTypeOK, Coming
    <3>2. /\ Append(held, p) # <<>> /\ Append(held, p)[Len(Append(held, p))] = p
          /\ <<p>> # <<>> /\ <<p>>[Len(<<p>>)] = p
      BY <2>1, <3>1, OneMore, JustOne
    <3> HIDE DEF p
    <3>3. CASE settled /\ queue' = <<p>> /\ UNCHANGED <<settled, held>>
      <4>1. held' = <<>>
        BY <3>3 DEF GateTypeOK
      <4> QED
        BY <3>1, <3>2, <3>3, <4>1 DEF Given
    <3>4. CASE ~settled /\ queue' = Append(held, p) /\ settled' = TRUE /\ held' = <<>>
      BY <3>1, <3>2, <3>4 DEF Given
    <3>5. CASE ~settled /\ Room /\ held' = Append(held, p) /\ UNCHANGED <<queue, settled>>
      BY <3>1, <3>2, <3>5 DEF Given
    <3> QED
      BY <1>4, <3>1, <3>3, <3>4, <3>5, WriteParts DEF p
  <2>3. /\ frame'.place = frame.place + 1 /\ frame'.au = frame.au /\ frame'.key = frame.key /\ todo' = Tail(todo)
    BY <1>4, WriteParts DEF GateTypeOK
  <2>4. /\ Tail(todo) \in Rests /\ Len(Tail(todo)) = Len(todo) - 1 /\ Len(todo) \in Nat
        /\ Head(todo) \in 0 .. 2
        /\ IF Tail(todo) = <<>> THEN Head(todo) > 0 ELSE Head(Tail(todo)) = Head(todo) + 1
    BY <2>1, RestsParts DEF Source
  <2>5. frame'.place + Len(todo') <= 3 * frame'.au /\ frame.au # 0 /\ frame.au \in Nat /\ frame.place \in Nat
    <3>1. frame.place + Len(todo) <= 3 * frame.au /\ frame.au # 0 /\ frame.au \in Nat /\ frame.place \in Nat
      BY <2>1, FieldTypes DEF Source
    <3> QED
      BY <2>3, <2>4, <3>1
  <2>6. /\ p.gen = gen /\ p.au = frame.au /\ p.key = frame.key /\ p.slice = Head(todo)
        /\ p.place = frame.place + 1
    BY DEF Coming
  <2> HIDE DEF p
  <2>7. ASSUME todo' # <<>> PROVE After(Given, Coming)'
    <3>1. /\ Coming'.gen = gen /\ Coming'.au = frame.au /\ Coming'.key = frame.key
          /\ Coming'.slice = Head(todo) + 1 /\ Coming'.place = frame.place + 2
      BY <2>2, <2>3, <2>4, <2>5, <2>7 DEF Coming
    <3>2. Follows(p, Coming')
      BY <2>5, <2>6, <3>1 DEF Follows
    <3> QED
      BY <2>2, <2>6, <3>1, <3>2 DEF After, Follows
  <2>8. ASSUME todo' = <<>>
        PROVE  Given'.gen = gen' /\ Given'.slice > 0 /\ Given'.au = frame'.au /\ Given'.place = frame'.place
    BY <2>2, <2>3, <2>4, <2>6, <2>8
  <2> QED
    BY <2>3, <2>4, <2>5, <2>7, <2>8 DEF Source
<1>5. CASE Join
  <2>1. /\ todo' = <<>> /\ held' = <<>> /\ frame' = [au |-> 0, key |-> FALSE, place |-> 0]
        /\ gen' = gen + 1 /\ UNCHANGED <<queue, seen>>
    BY <1>5 DEF Join
  <2>2. Given'.gen # gen'
    <3>1. CASE queue # <<>> /\ queue[Len(queue)].gen = gen + 1
      <4>1. queue[Len(queue)].gen <= gen
        BY <3>1, LineGen
      <4> QED
        BY <3>1, <4>1, FieldTypes
    <3>2. CASE ~(queue # <<>> /\ queue[Len(queue)].gen = gen + 1)
      <4>1. Given' = seen.last
        BY <2>1, <3>2 DEF Given
      <4>2. seen.last.gen <= gen /\ gen \in Nat /\ seen.last.gen \in Nat
        BY FieldTypes DEF Line
      <4> QED
        BY <2>1, <4>1, <4>2
    <3> QED
      BY <3>1, <3>2
  <2>3. <<>> \in Rests /\ Len(<<>>) = 0 /\ 0 + 0 <= 3 * 0
    BY DEF Rests
  <2> QED
    BY <2>1, <2>2, <2>3 DEF Source
<1>6. CASE Lookup
  <2>1. /\ queue # <<>> /\ queue' = Tail(queue) /\ seen'.last = queue[1] /\ UNCHANGED <<gen, frame, todo, held>>
    BY <1>6, WithoutFirst DEF Lookup, publisher, GateTypeOK
  <2>2. /\ Len(queue) \in Nat /\ Len(queue) >= 1 /\ Len(Tail(queue)) = Len(queue) - 1
        /\ \A k \in 1 .. Len(Tail(queue)) : Tail(queue)[k] = queue[k + 1]
        /\ (Tail(queue) # <<>> <=> Len(queue) > 1)
    BY <2>1, WithoutFirst DEF GateTypeOK
  <2>3. CASE Given' = Given
    BY <2>1, <2>3, SourceStays
  \* The last that was given before the lookup of another publisher's.
  <2>4. CASE Given' # Given
    <3>1. held = <<>>
      BY <2>1, <2>4 DEF Given
    <3>2. CASE Tail(queue) # <<>>
      <4>1. Tail(queue)[Len(Tail(queue))] = queue[Len(queue)]
        BY <2>2, <3>2
      <4>2. queue[Len(queue)].gen # gen /\ Given = seen.last /\ Given' = queue[1]
        BY <2>1, <2>4, <3>1, <3>2, <4>1 DEF Given
      <4>3. queue[1].gen = queue[Len(queue)].gen
        BY <2>1, LineGen
      <4>4. seen.last.gen <= queue[1].gen /\ queue[1].gen <= gen
        BY <2>1 DEF Line
      <4>5. Given.gen # gen /\ Given'.gen # gen
        BY <4>2, <4>3, <4>4, <2>2, FieldTypes
      <4> QED
        BY <2>1, <4>5, SourceOther
    <3>3. CASE Tail(queue) = <<>>
      <4>1. Len(queue) = 1 /\ Given' = queue[1]
        BY <2>1, <2>2, <3>1, <3>3 DEF Given
      <4>2. queue[1].gen # gen /\ Given = seen.last
        BY <2>1, <2>4, <3>1, <4>1 DEF Given
      <4>3. seen.last.gen <= queue[1].gen /\ queue[1].gen <= gen
        BY <2>1 DEF Line
      <4>4. Given.gen # gen /\ Given'.gen # gen
        BY <4>1, <4>2, <4>3, <2>2, FieldTypes
      <4> QED
        BY <2>1, <4>4, SourceOther
    <3> QED
      BY <3>2, <3>3
  <2> QED
    BY <2>3, <2>4
<1> QED
  BY <1>1, <1>2, <1>3, <1>4, <1>5, <1>6 DEF GateNext

\* The media's held packets stay the publisher's first.
LEMMA HoldStep ==
  ASSUME GateTypeOK, Source, Hold, Line, [GateNext]_gateVars
  PROVE  Hold'
<1>1. CASE UNCHANGED gateVars \/ Begin \/ Report \/ Congest \/ Put
  <2>1. UNCHANGED <<gen, settled, held, queue, seen>>
    BY <1>1, PutParts DEF gateVars, publisher, writer, Begin, Report, Congest
  <2> QED
    BY <2>1 DEF Hold
<1>2. CASE Write
  <2> DEFINE p == Coming
  <2>1. /\ p \in Packet /\ p.gen = gen /\ todo # <<>> /\ held \in Seq(Packet) /\ queue = <<>>
        /\ UNCHANGED <<gen, seen>>
    BY <1>2, ComingTyped, WriteParts DEF GateTypeOK, Coming
  <2>2. /\ Len(held) \in Nat /\ Len(Append(held, p)) = Len(held) + 1 /\ Append(held, p)[Len(held) + 1] = p
        /\ \A k \in 1 .. Len(held) : Append(held, p)[k] = held[k]
    BY <2>1, OneMore
  <2>3. After(Given, p)
    BY <2>1 DEF Source
  <2> HIDE DEF p
  <2>4. CASE settled /\ queue' = <<p>> /\ UNCHANGED <<settled, held>>
    BY <2>1, <2>4 DEF Hold
  <2>5. CASE ~settled /\ queue' = Append(held, p) /\ settled' = TRUE /\ held' = <<>>
    BY <2>5 DEF Hold
  <2>6. CASE ~settled /\ Room /\ held' = Append(held, p) /\ UNCHANGED <<queue, settled>>
    <3>1. CASE held = <<>>
      <4>1. Given = seen.last /\ seen.last.gen # gen
        BY <2>1, <2>6, <3>1 DEF Given, Hold
      <4>2. First(p)
        BY <2>1, <2>3, <4>1 DEF After
      <4>3. Len(held') = 1 /\ held'[1] = p
        BY <2>2, <2>6, <3>1
      <4> QED
        BY <2>1, <2>6, <4>1, <4>2, <4>3 DEF Hold
    <3>2. CASE held # <<>>
      <4>1. Len(held) >= 1 /\ Given = held[Len(held)] /\ held[Len(held)].gen = gen /\ First(held[1])
        BY <2>1, <3>2, WithoutFirst DEF Given, Hold
      <4>2. Follows(held[Len(held)], p)
        BY <2>1, <2>3, <4>1 DEF After
      <4>3. First(held'[1]) /\ \A k \in 1 .. Len(held') : held'[k].gen = gen
        BY <2>1, <2>2, <2>6, <3>2, <4>1 DEF Hold
      <4>4. \A k \in 1 .. Len(held') - 1 : Follows(held'[k], held'[k + 1])
        <5> TAKE k \in 1 .. Len(held') - 1
        <5>1. CASE k = Len(held)
          BY <2>2, <2>6, <4>1, <4>2, <5>1
        <5>2. CASE k # Len(held)
          <6>1. k \in 1 .. Len(held) - 1 /\ k \in 1 .. Len(held) /\ k + 1 \in 1 .. Len(held)
            BY <2>2, <2>6, <5>2
          <6> QED
            BY <2>2, <2>6, <6>1 DEF Hold
        <5> QED
          BY <5>1, <5>2
      <4> QED
        BY <2>1, <2>6, <4>3, <4>4 DEF Hold
    <3> QED
      BY <3>1, <3>2
  <2> QED
    BY <1>2, <2>4, <2>5, <2>6, WriteParts DEF p
<1>3. CASE Join
  <2>1. held' = <<>> /\ gen' = gen + 1 /\ UNCHANGED <<queue, seen>>
    BY <1>3 DEF Join
  <2>2. seen.last.gen # gen + 1
    BY FieldTypes DEF Line
  <2>3. queue # <<>> => queue[1].gen # gen + 1
    BY LineGen, FieldTypes
  <2>4. \A k \in 1 .. Len(held') - 1 : Follows(held'[k], held'[k + 1])
    BY <2>1
  <2> QED
    BY <2>1, <2>2, <2>3, <2>4 DEF Hold
<1>4. CASE Lookup
  <2>1. /\ queue # <<>> /\ queue' = Tail(queue) /\ seen'.last = queue[1]
        /\ UNCHANGED <<gen, settled, held>>
    BY <1>4, WithoutFirst DEF Lookup, publisher, GateTypeOK
  <2>2. ~settled => queue[1].gen # gen
    BY <2>1 DEF Hold
  <2>3. queue' # <<>> => queue'[1].gen = queue[1].gen
    <3>1. /\ Len(queue) \in Nat /\ Len(Tail(queue)) = Len(queue) - 1
          /\ \A k \in 1 .. Len(Tail(queue)) : Tail(queue)[k] = queue[k + 1]
          /\ (Tail(queue) # <<>> <=> Len(queue) > 1)
      BY <2>1, WithoutFirst DEF GateTypeOK
    <3>2. ASSUME Tail(queue) # <<>> PROVE Tail(queue)[1] = queue[2] /\ 2 \in 1 .. Len(queue)
      BY <3>1, <3>2
    <3> QED
      BY <2>1, <3>2 DEF Line
  <2> QED
    BY <2>1, <2>2, <2>3 DEF Hold
<1> QED
  BY <1>1, <1>2, <1>3, <1>4 DEF GateNext

\* The packets on their way to the lookup stay one after the other.
LEMMA LineStep ==
  ASSUME GateTypeOK, Source, Hold, Line, [GateNext]_gateVars
  PROVE  Line'
<1>1. CASE UNCHANGED gateVars \/ Begin \/ Report \/ Congest
  <2>1. UNCHANGED <<gen, queue, hand, seen>>
    BY <1>1 DEF gateVars, publisher, writer, Begin, Report, Congest
  <2> QED
    BY <2>1 DEF Line
<1>2. CASE Put
  <2>1. UNCHANGED <<gen, queue, seen>> /\ hand' = NoPacket
    BY <1>2, PutParts DEF publisher, writer
  <2> QED
    BY <2>1 DEF Line
<1>3. CASE Join
  <2>1. gen' = gen + 1 /\ UNCHANGED <<queue, hand, seen>>
    BY <1>3 DEF Join
  <2>2. seen.last.gen <= gen + 1
    BY FieldTypes DEF Line
  <2>3. queue # <<>> => queue[1].gen <= gen + 1
    BY LineGen, FieldTypes
  <2> QED
    BY <2>1, <2>2, <2>3 DEF Line
<1>4. CASE Write
  <2> DEFINE p == Coming
  <2>1. /\ p \in Packet /\ p.gen = gen /\ todo # <<>> /\ held \in Seq(Packet) /\ queue = <<>>
        /\ UNCHANGED <<gen, seen, hand>>
    BY <1>4, ComingTyped, WriteParts DEF GateTypeOK, Coming
  <2>2. /\ Len(held) \in Nat /\ Len(Append(held, p)) = Len(held) + 1 /\ Append(held, p)[Len(held) + 1] = p
        /\ \A k \in 1 .. Len(held) : Append(held, p)[k] = held[k]
    BY <2>1, OneMore
  <2>3. After(Given, p)
    BY <2>1 DEF Source
  <2>4. seen.last.gen <= gen /\ (hand' = NoPacket \/ hand' = seen'.last) /\ gen \in Nat
    BY <2>1, FieldTypes DEF Line
  <2> HIDE DEF p
  <2>5. ASSUME held = <<>> PROVE After(seen.last, p)
    BY <2>1, <2>3, <2>5 DEF Given
  <2>6. CASE settled /\ queue' = <<p>> /\ UNCHANGED <<settled, held>>
    <3>1. Len(queue') = 1 /\ queue'[1] = p /\ After(seen.last, p)
      BY <2>1, <2>5, <2>6, JustOne DEF GateTypeOK
    <3>2. \A k \in 1 .. Len(queue') - 1 : Follows(queue'[k], queue'[k + 1])
      BY <3>1
    <3>3. \A k \in 1 .. Len(queue') : queue'[k].gen = queue'[1].gen
      BY <3>1
    <3> QED
      BY <2>1, <2>4, <3>1, <3>2, <3>3 DEF Line
  <2>7. CASE ~settled /\ queue' = Append(held, p) /\ settled' = TRUE /\ held' = <<>>
    <3>1. CASE held = <<>>
      <4>1. Len(queue') = 1 /\ queue'[1] = p /\ After(seen.last, p)
        BY <2>2, <2>5, <2>7, <3>1
      <4>2. \A k \in 1 .. Len(queue') - 1 : Follows(queue'[k], queue'[k + 1])
        BY <4>1
      <4>3. \A k \in 1 .. Len(queue') : queue'[k].gen = queue'[1].gen
        BY <4>1
      <4> QED
        BY <2>1, <2>4, <4>1, <4>2, <4>3 DEF Line
    <3>2. CASE held # <<>>
      <4>1. Len(held) >= 1 /\ Given = held[Len(held)] /\ held[Len(held)].gen = gen /\ First(held[1])
            /\ held[1].gen = gen
        BY <2>1, <3>2, WithoutFirst DEF Given, Hold
      <4>2. Follows(held[Len(held)], p)
        BY <2>1, <2>3, <4>1 DEF After
      <4>3. After(seen.last, queue'[1]) /\ queue'[1].gen = gen
        BY <2>2, <2>7, <4>1 DEF After, Hold
      <4>4. \A k \in 1 .. Len(queue') : queue'[k].gen = queue'[1].gen
        BY <2>1, <2>2, <2>7, <3>2, <4>3 DEF Hold
      <4>5. \A k \in 1 .. Len(queue') - 1 : Follows(queue'[k], queue'[k + 1])
        <5> TAKE k \in 1 .. Len(queue') - 1
        <5>1. CASE k = Len(held)
          BY <2>2, <2>7, <4>1, <4>2, <5>1
        <5>2. CASE k # Len(held)
          <6>1. k \in 1 .. Len(held) - 1 /\ k \in 1 .. Len(held) /\ k + 1 \in 1 .. Len(held)
            BY <2>2, <2>7, <5>2
          <6> QED
            BY <2>2, <2>7, <6>1 DEF Hold
        <5> QED
          BY <5>1, <5>2
      <4> QED
        BY <2>1, <2>4, <4>3, <4>4, <4>5 DEF Line
    <3> QED
      BY <3>1, <3>2
  <2>8. CASE ~settled /\ Room /\ held' = Append(held, p) /\ UNCHANGED <<queue, settled>>
    BY <2>1, <2>4, <2>8 DEF Line
  <2> QED
    BY <1>4, <2>6, <2>7, <2>8, WriteParts DEF p
<1>5. CASE Lookup
  <2>1. /\ queue # <<>> /\ queue' = Tail(queue) /\ seen'.last = queue[1] /\ gen' = gen
        /\ hand' \in {NoPacket, queue[1]}
    BY <1>5, WithoutFirst DEF Lookup, publisher, GateTypeOK
  <2>2. /\ Len(queue) \in Nat /\ Len(Tail(queue)) = Len(queue) - 1
        /\ \A k \in 1 .. Len(Tail(queue)) : Tail(queue)[k] = queue[k + 1]
        /\ (Tail(queue) # <<>> <=> Len(queue) > 1)
    BY <2>1, WithoutFirst DEF GateTypeOK
  <2>3. queue[1].gen <= gen /\ queue[1].gen \in Nat
    BY <2>1, LineGen
  <2>4. \A k \in 1 .. Len(queue') : queue'[k].gen = queue[1].gen
    BY <2>1, <2>2 DEF Line
  <2>5. ASSUME queue' # <<>>
        PROVE  queue'[1].gen = queue[1].gen /\ After(queue[1], queue'[1])
    <3>1. 1 \in 1 .. Len(queue') /\ 1 \in 1 .. Len(queue) - 1 /\ queue'[1] = queue[1 + 1]
      BY <2>1, <2>2, <2>5
    <3>2. Follows(queue[1], queue'[1])
      BY <3>1 DEF Line
    <3> QED
      BY <2>4, <3>1, <3>2 DEF After
  <2>6. \A k \in 1 .. Len(queue') - 1 : Follows(queue'[k], queue'[k + 1])
    <3> TAKE k \in 1 .. Len(queue') - 1
    <3>1. /\ k \in 1 .. Len(queue') /\ k + 1 \in 1 .. Len(queue') /\ k + 1 \in 1 .. Len(queue) - 1
          /\ queue'[k] = queue[k + 1] /\ queue'[k + 1] = queue[(k + 1) + 1]
      BY <2>1, <2>2
    <3> QED
      BY <3>1 DEF Line
  <2>7. queue' # <<>> => \A k \in 1 .. Len(queue') : queue'[k].gen = queue'[1].gen
    BY <2>4, <2>5
  <2>8. queue' = <<>> => \A k \in 1 .. Len(queue') : queue'[k].gen = queue'[1].gen
    BY <2>1, <2>2
  <2> QED
    BY <2>1, <2>3, <2>5, <2>6, <2>7, <2>8 DEF Line
<1> QED
  BY <1>1, <1>2, <1>3, <1>4, <1>5 DEF GateNext

\* No packet is looked up before one that came first.
LEMMA OrderStep ==
  ASSUME GateTypeOK, Line, ~seen.disorder, [GateNext]_gateVars
  PROVE  ~seen'.disorder
<1>1. CASE seen' = seen
  BY <1>1
<1>2. CASE Lookup
  <2> DEFINE p == queue[1]
  <2>1. /\ queue # <<>>
        /\ seen' = [last |-> p, disorder |-> seen.disorder \/ (seen.last.gen = p.gen /\ p.place <= seen.last.place)]
    BY <1>2, WithoutFirst DEF Lookup, GateTypeOK
  <2>2. After(seen.last, p) /\ p \in Packet
    BY <2>1, WithoutFirst DEF Line, GateTypeOK
  <2>3. ASSUME seen.last.gen = p.gen PROVE p.place > seen.last.place
    <3>1. p.place = seen.last.place + 1
      BY <2>2, <2>3 DEF After, Follows
    <3>2. seen.last \in Packet
      BY <2>2, <2>3, FieldTypes
    <3>3. seen.last.place \in Nat
      BY <3>2, FieldTypes
    <3> QED
      BY <3>1, <3>3
  <2>4. p.place \in Nat /\ seen.last.place \in Nat
    BY <2>2, FieldTypes DEF NoPacket
  <2>5. ~(seen.last.gen = p.gen /\ p.place <= seen.last.place)
    BY <2>3, <2>4
  <2> HIDE DEF p
  <2> QED
    BY <2>1, <2>5
<1> QED
  BY <1>1, <1>2 DEF GateNext, gateVars, Begin, Report, Write, Join, Congest, Put

-----------------------------------------------------------------------------
(* The gate and the decoder. *)

\* What a write leaves of the track, field by field.
LEMMA AdmitParts ==
  ASSUME GateTypeOK, NEW p \in Packet
  PROVE  LET d == track.dropping \/ (Begins(p) /\ congested)
             u == IF Begins(p) THEN d ELSE track.undecided
             over == u /\ p.key /\ p.slice > 0 /\ ~congested
         IN /\ Admit(p).in = <<p.gen, p.au>> /\ Admit(p).dropping = (d /\ ~over)
            /\ Admit(p).undecided = (u /\ p.slice = 0)
            /\ Admit(p).fresh = track.fresh /\ Admit(p).off = track.off
<1> DEFINE d == track.dropping \/ (Begins(p) /\ congested)
           u == IF Begins(p) THEN d ELSE track.undecided
           over == u /\ p.key /\ p.slice > 0 /\ ~congested
           n == (IF d /\ ~track.dropping THEN 0 ELSE track.frames) + (IF d /\ ~over /\ Begins(p) THEN 1 ELSE 0)
<1>1. Admit(p) = [track EXCEPT !.in = <<p.gen, p.au>>, !.dropping = d /\ ~over,
                               !.undecided = u /\ p.slice = 0, !.frames = n]
  BY DEF Admit
<1>2. track \in [in : Nat \X Nat, dropping : BOOLEAN, undecided : BOOLEAN,
                 frames : Nat, fresh : BOOLEAN, off : 0 .. MaxGens]
  BY DEF GateTypeOK
<1> HIDE DEF d, u, over, n
<1>3. /\ Admit(p).in = <<p.gen, p.au>> /\ Admit(p).dropping = (d /\ ~over)
      /\ Admit(p).undecided = (u /\ p.slice = 0)
      /\ Admit(p).fresh = track.fresh /\ Admit(p).off = track.off
  BY <1>1, <1>2
<1> QED
  BY <1>3 DEF d, u, over

\* A packet the gate keeps: the next is ready for, unless it is of another publisher.
LEMMA KeptReady ==
  ASSUME GateTypeOK, Put, Admit(hand).dropping, NEW q \in Packet,
         \/ hand.gen = gen /\ Follows(hand, q)
         \/ hand.gen # q.gen /\ First(q)
  PROVE  Ready(q)'
<1>1. hand \in Packet
  BY FieldTypes DEF Put, GateTypeOK
<1>2. hand.slice \in 0 .. 2 /\ q.slice \in 0 .. 2 /\ hand.au \in Nat
  BY <1>1, FieldTypes
<1>3. track'.in = <<hand.gen, hand.au>> /\ track'.dropping /\ (track'.undecided => hand.slice = 0)
  BY <1>1, AdmitParts, PutParts
<1>4. CASE Follows(hand, q)
  <2>1. q.au = hand.au => q.slice = hand.slice + 1
    BY <1>2, <1>4 DEF Follows
  <2>2. IF track'.in = <<q.gen, q.au>> THEN q.slice > 0 ELSE q.slice < 2
    BY <1>2, <1>3, <1>4 DEF Follows
  <2>3. q.slice = 2 => ~track'.undecided
    BY <1>2, <1>3, <1>4 DEF Follows
  <2> QED
    BY <1>3, <2>2, <2>3 DEF Ready
<1>5. CASE hand.gen # q.gen /\ First(q)
  BY <1>2, <1>3, <1>5 DEF Ready, First
<1> QED
  BY <1>4, <1>5

\* A packet that is sent: the next is ready for.
LEMMA SentReady ==
  ASSUME GateTypeOK, Put, ~Admit(hand).dropping, Ready(hand), NEW q \in Packet, Follows(hand, q)
  PROVE  Ready(q)'
<1>1. hand \in Packet /\ track.dropping \in BOOLEAN /\ track.undecided \in BOOLEAN
  BY FieldTypes DEF Put, GateTypeOK
<1>2. hand.slice \in 0 .. 2 /\ q.slice \in 0 .. 2 /\ hand.au \in Nat /\ q.au \in Nat
  BY <1>1, FieldTypes
<1> DEFINE over == hand.key /\ hand.slice = 1
<1>3. /\ track'.in = <<hand.gen, hand.au>> /\ (track'.undecided => hand.slice = 0)
      /\ (over \/ ~track.dropping)
  <2>1. track' = [Admit(hand) EXCEPT !.fresh = FALSE, !.off = Stamp(Admit(hand), hand)]
    BY PutParts
  <2>2. track'.in = Admit(hand).in /\ track'.undecided = Admit(hand).undecided
    BY <2>1 DEF Admit
  <2>3. hand.slice = 2 => ~Begins(hand) /\ ~track.undecided
    BY <1>1 DEF Ready, Begins
  <2>4. over \/ ~track.dropping
    BY <1>1, <1>2, <2>3, AdmitParts
  <2> QED
    BY <1>1, <2>2, <2>4, AdmitParts
<1>4. /\ decoder'.refs = (decoder.refs \/ over)
      /\ decoder'.got = IF hand.slice = 1 THEN <<hand.gen, hand.au>> ELSE decoder.got
  BY PutParts DEF Decode, GateTypeOK
<1>5. ~hand.key \/ hand.slice = 2 => decoder.refs
  BY <1>3 DEF Ready
<1>6. IF track'.in = <<q.gen, q.au>> THEN q.slice > 0 ELSE q.slice < 2
  BY <1>2, <1>3 DEF Follows
<1>7. q.slice = 2 => hand.slice = 1 /\ q.gen = hand.gen /\ q.au = hand.au
  BY <1>2 DEF Follows
<1>8. ~q.key => decoder'.refs
  <2>1. CASE q.au = hand.au
    <3>1. q.key = hand.key
      BY <1>2, <2>1 DEF Follows
    <3> QED
      BY <1>4, <1>5, <3>1
  <2>2. CASE q.au # hand.au
    <3>1. hand.slice = 1 \/ hand.slice = 2
      BY <1>2, <2>2 DEF Follows
    <3> QED
      BY <1>4, <1>5, <3>1
  <2> QED
    BY <2>1, <2>2
<1>9. ASSUME q.slice = 2
      PROVE  decoder'.refs /\ decoder'.got = <<q.gen, q.au>> /\ ~track'.undecided
  <2>1. hand.slice = 1 /\ q.gen = hand.gen /\ q.au = hand.au
    BY <1>7, <1>9
  <2>2. decoder'.got = <<q.gen, q.au>> /\ ~track'.undecided
    BY <1>3, <1>4, <2>1
  <2>3. decoder'.refs
    BY <1>1, <1>4, <1>5, <2>1 DEF Packet
  <2> QED
    BY <2>2, <2>3
<1> QED
  BY <1>6, <1>8, <1>9 DEF Ready

\* What a reader is sent is of use to it, on its own publisher's clock, when the gate and the
\* decoder were ready for it.
LEMMA SentOfUse ==
  ASSUME GateTypeOK, Put, ~Admit(hand).dropping, Ready(hand), hand.gen = gen,
         ~decoder.misled, ~decoder.skewed, ~track.fresh => track.off = gen
  PROVE  ~decoder'.misled /\ ~decoder'.skewed /\ track'.off = gen
<1>1. hand \in Packet /\ track.dropping \in BOOLEAN /\ track.undecided \in BOOLEAN
  BY FieldTypes DEF Put, GateTypeOK
<1>2. hand.slice \in 0 .. 2
  BY <1>1, FieldTypes
<1> DEFINE off == Stamp(Admit(hand), hand)
<1>3. off = gen
  BY <1>1, AdmitParts DEF Stamp
<1>4. hand.slice = 2 => ~Begins(hand) /\ ~track.undecided
  BY <1>1 DEF Ready, Begins
<1>5. (hand.key /\ hand.slice = 1) \/ ~track.dropping
  BY <1>1, <1>2, <1>4, AdmitParts
<1>6. ~(hand.slice > 0 /\ ~hand.key /\ ~decoder.refs)
  BY <1>5 DEF Ready
<1>7. ~(hand.slice = 2 /\ decoder.got # <<hand.gen, hand.au>>)
  BY <1>5 DEF Ready
<1>8. decoder' = Decode(hand, off) /\ track' = [Admit(hand) EXCEPT !.fresh = FALSE, !.off = off]
  BY PutParts
<1>9. track'.off = off
  <2>1. Admit(hand).off = track.off /\ Admit(hand) \in [in : {Admit(hand).in}, dropping : BOOLEAN, undecided : BOOLEAN,
          frames : {Admit(hand).frames}, fresh : BOOLEAN, off : 0 .. MaxGens]
    BY <1>1 DEF Admit, GateTypeOK
  <2> HIDE DEF off
  <2> QED
    BY <1>8, <2>1
<1> HIDE DEF off
<1>10. decoder'.misled = decoder.misled /\ decoder'.skewed = decoder.skewed
  BY <1>3, <1>6, <1>7, <1>8 DEF Decode, GateTypeOK
<1> QED
  BY <1>3, <1>9, <1>10

\* The gate and the decoder stay ready for what comes.
LEMMA UnmixedStep ==
  ASSUME GateTypeOK, Source, Hold, Line, Unmixed, [GateNext]_gateVars
  PROVE  Unmixed'
<1>1. CASE UNCHANGED <<gen, hand, track, decoder, seen>>
  BY <1>1 DEF Unmixed, Prepared, Ready
<1>2. CASE Join
  <2>1. /\ gen' = gen + 1 /\ UNCHANGED <<hand, decoder, seen>>
        /\ track' = [track EXCEPT !.fresh = TRUE, !.in = <<0, 0>>]
    BY <1>2 DEF Join
  <2>2. track'.fresh /\ track'.in = <<0, 0>>
    BY <2>1 DEF GateTypeOK
  <2>3. seen.last.gen <= gen /\ gen \in Nat /\ seen.last.gen \in Nat /\ (hand # NoPacket => hand = seen.last)
    BY FieldTypes DEF Line
  <2>4. ASSUME NEW q \in Packet, q.gen = gen', After(seen.last, q)'
        PROVE  Ready(q)'
    <3>1. First(q)
      BY <2>1, <2>3, <2>4 DEF After
    <3>2. track'.in # <<q.gen, q.au>>
      BY <2>2, FieldTypes
    <3> QED
      BY <3>1, <3>2 DEF First, Ready
  <2>5. ~(hand' # NoPacket /\ hand'.gen = gen')
    BY <2>1, <2>3
  <2>6. Prepared'
    BY <2>4, <2>5 DEF Prepared
  <2> QED
    BY <2>1, <2>2, <2>6 DEF Unmixed
<1>3. CASE Lookup
  <2>1. PICK p \in Packet :
           /\ queue # <<>> /\ hand = NoPacket /\ p = queue[1] /\ seen'.last = p
           /\ hand' = IF p.gen = gen THEN p ELSE NoPacket
           /\ UNCHANGED <<gen, track, decoder>>
    BY <1>3, WithoutFirst DEF Lookup, publisher, GateTypeOK
  <2>2. After(seen.last, p) /\ seen.last.gen <= p.gen /\ p.gen <= gen
    BY <2>1 DEF Line
  <2>3. p.gen \in Nat /\ gen \in Nat /\ seen.last.gen \in Nat
    BY <2>1, FieldTypes
  <2>4. ASSUME Prepared PROVE Prepared'
    <3>1. \A q \in Packet : q.gen = gen /\ After(seen.last, q) => Ready(q)
      BY <2>1, <2>4 DEF Prepared
    <3>2. \A q \in Packet : Ready(q) => Ready(q)'
      BY <2>1 DEF Ready
    <3>3. CASE p.gen = gen
      <4>1. Ready(p)' /\ hand' = p /\ gen' = gen
        BY <2>1, <2>2, <3>1, <3>2, <3>3
      <4>2. p # NoPacket
        BY FieldTypes
      <4> QED
        BY <3>3, <4>1, <4>2 DEF Prepared, Ready
    <3>4. CASE p.gen # gen
      <4>1. seen.last.gen # gen
        BY <2>2, <2>3, <3>4
      <4>2. ASSUME NEW q \in Packet, q.gen = gen, After(p, q) PROVE Ready(q)'
        BY <3>1, <3>2, <3>4, <4>1, <4>2 DEF After
      <4> QED
        BY <2>1, <3>4, <4>2 DEF Prepared, After
    <3> QED
      BY <3>3, <3>4
  <2> QED
    BY <2>1, <2>4 DEF Unmixed
<1>4. CASE Put
  <2>1. /\ hand # NoPacket /\ hand' = NoPacket /\ hand \in Packet /\ hand = seen.last
        /\ UNCHANGED <<gen, seen>>
    BY <1>4, PutParts DEF GateTypeOK, Line, publisher
  <2>2. CASE Admit(hand).dropping
    <3>1. track' = Admit(hand) /\ decoder' = [decoder EXCEPT !.refs = @ /\ hand.slice = 0]
      BY <1>4, <2>2, PutParts
    <3>2. /\ decoder'.stray = decoder.stray /\ decoder'.misled = decoder.misled
          /\ decoder'.skewed = decoder.skewed
          /\ track'.fresh = track.fresh /\ track'.off = track.off
      BY <2>1, <3>1, AdmitParts DEF GateTypeOK
    <3>3. ASSUME NEW q \in Packet, q.gen = gen, After(hand, q) PROVE Ready(q)'
      BY <1>4, <2>2, <3>3, KeptReady DEF After
    <3>4. Prepared'
      BY <2>1, <3>3 DEF Prepared, After
    <3> QED
      BY <2>1, <3>2, <3>4 DEF Unmixed
  <2>3. CASE ~Admit(hand).dropping
    <3>1. /\ track' = [Admit(hand) EXCEPT !.fresh = FALSE, !.off = Stamp(Admit(hand), hand)]
          /\ decoder' = Decode(hand, Stamp(Admit(hand), hand))
      BY <1>4, <2>3, PutParts
    <3>2. decoder'.stray = (decoder.stray \/ hand.gen # gen)
      BY <3>1 DEF Decode, GateTypeOK
    <3>3. CASE decoder.stray \/ hand.gen # gen
      BY <3>2, <3>3 DEF Unmixed
    <3>4. CASE ~decoder.stray /\ hand.gen = gen
      <4>1. /\ ~decoder.misled /\ ~decoder.skewed /\ (~track.fresh => track.off = gen) /\ Ready(hand)
        BY <2>1, <3>4 DEF Unmixed, Prepared
      <4>2. ~decoder'.misled /\ ~decoder'.skewed /\ track'.off = gen
        BY <1>4, <2>3, <3>4, <4>1, SentOfUse
      <4>3. ASSUME NEW q \in Packet, q.gen = gen, After(hand, q) PROVE Ready(q)'
        BY <1>4, <2>3, <3>4, <4>1, <4>3, SentReady DEF After
      <4>4. Prepared'
        BY <2>1, <4>3 DEF Prepared, After
      <4> QED
        BY <2>1, <4>2, <4>4 DEF Unmixed
    <3> QED
      BY <3>3, <3>4
  <2> QED
    BY <2>2, <2>3
<1>5. ASSUME UNCHANGED gateVars \/ Begin \/ Report \/ Congest \/ Write
      PROVE  UNCHANGED <<gen, hand, track, decoder, seen>>
  BY <1>5, WriteParts DEF gateVars, publisher, Begin, Report, Congest
<1> QED
  BY <1>1, <1>2, <1>3, <1>4, <1>5 DEF GateNext

-----------------------------------------------------------------------------
\* In what the gate starts with nothing has been given, and the first packet is ready for.
LEMMA GateInvStart ==
  ASSUME GateInit
  PROVE  GateInv
<1> USE GateAssumption
<1>1. GateTypeOK
  <2>1. <<>> \in Seq(Packet) /\ <<>> \in Seq(0 .. 2) /\ Len(<<>>) = 0
    OBVIOUS
  <2>2. 0 \in 0 .. MaxFrames /\ 0 \in 0 .. 3 * MaxFrames /\ 1 \in 1 .. MaxGens /\ 0 \in 0 .. MaxGens
    OBVIOUS
  <2>3. /\ gen \in 1 .. MaxGens
        /\ frame \in [au : 0 .. MaxFrames, key : BOOLEAN, place : 0 .. 3 * MaxFrames]
        /\ track \in [in : Nat \X Nat, dropping : BOOLEAN, undecided : BOOLEAN,
                      frames : Nat, fresh : BOOLEAN, off : 0 .. MaxGens]
        /\ (track.undecided => track.dropping)
    BY <2>2 DEF GateInit
  <2>4. /\ todo \in Seq(0 .. 2) /\ held \in Seq(Packet) /\ Len(held) < HoldPackets /\ queue \in Seq(Packet)
        /\ (settled => held = <<>>) /\ reported \in BOOLEAN /\ settled \in BOOLEAN
    <3>1. todo = <<>> /\ held = <<>> /\ queue = <<>> /\ reported = FALSE /\ settled = FALSE
      BY DEF GateInit
    <3>2. 0 < HoldPackets
      OBVIOUS
    <3> QED
      BY <2>1, <3>1, <3>2
  <2>5. /\ decoder \in [refs : BOOLEAN, got : Nat \X Nat, misled : BOOLEAN, skewed : BOOLEAN,
                        stray : BOOLEAN]
        /\ seen \in [last : Packet \cup {NoPacket}, disorder : BOOLEAN]
        /\ hand \in Packet \cup {NoPacket} /\ congested \in BOOLEAN /\ stat \in Nat /\ total \in Nat
    BY DEF GateInit
  <2> QED
    BY <2>3, <2>4, <2>5 DEF GateTypeOK
<1>2. gen = 1 /\ seen = [last |-> NoPacket, disorder |-> FALSE] /\ held = <<>> /\ queue = <<>> /\ todo = <<>>
  BY DEF GateInit
<1>3. seen.last = NoPacket /\ seen.last.gen = 0 /\ ~seen.disorder
  BY <1>2 DEF NoPacket
<1>4. Source
  <2>1. Given.gen = 0 /\ frame.au = 0 /\ frame.place = 0 /\ Len(todo) = 0
    BY <1>2, <1>3 DEF Given, GateInit
  <2> QED
    BY <1>2, <2>1 DEF Source, Rests
<1>5. Hold /\ Line
  <2>1. Len(held) = 0 /\ Len(queue) = 0 /\ hand = NoPacket
    BY <1>2 DEF GateInit
  <2> QED
    BY <1>2, <1>3, <2>1 DEF Hold, Line
<1>6. Unmixed
  <2>1. ASSUME NEW q \in Packet, q.gen = gen, After(seen.last, q) PROVE Ready(q)
    <3>1. First(q)
      BY <1>2, <1>3, <2>1 DEF After
    <3>2. track.in = <<0, 0>> /\ q.gen # 0
      BY <1>2, <2>1 DEF GateInit
    <3> QED
      BY <3>1, <3>2 DEF First, Ready
  <2>2. hand = NoPacket /\ track.fresh /\ ~decoder.misled /\ ~decoder.skewed
    BY DEF GateInit
  <2> QED
    BY <2>1, <2>2 DEF Unmixed, Prepared
<1> QED
  BY <1>1, <1>3, <1>4, <1>5, <1>6 DEF GateInv

\* Each publisher's packets come one right after the other through the hold and the lookup, and
\* the gate and the decoder are ready for whichever is next (timed.go, Write and flush; serve.go,
\* join and WritePacketRTPWithNTP; gate.go, admit and stamp).
THEOREM GateInvariant == GateSpec => []GateInv
<1>1. GateInit => GateInv
  BY GateInvStart
<1>2. GateInv /\ [GateNext]_gateVars => GateInv'
  <2> SUFFICES ASSUME GateInv, [GateNext]_gateVars PROVE GateInv'
    OBVIOUS
  <2>1. GateTypeOK /\ Source /\ Hold /\ Line /\ Unmixed /\ ~seen.disorder
    BY DEF GateInv
  <2>2. GateTypeOK' /\ Source' /\ Hold'
    BY <2>1, GateTypeStep, SourceStep, HoldStep
  <2>3. Line' /\ ~seen'.disorder
    BY <2>1, LineStep, OrderStep
  <2>4. Unmixed'
    BY <2>1, UnmixedStep
  <2> QED
    BY <2>2, <2>3, <2>4 DEF GateInv
<1> QED
  BY <1>1, <1>2, PTL DEF GateSpec

\* What the enclave is given can be watched, whatever the publishers' frames, the congestion and
\* the changes of publisher: each frame with what it refers to, in order, on one clock - until a
\* packet of a replaced publisher is written (gate.go, admit and stamp; timed.go, flush).
THEOREM WatchableHolds == GateSpec => []Watchable
<1>1. GateInv => Watchable
  BY DEF GateInv, Unmixed, Watchable, Decodable, Playable, Continuous, InOrder
<1> QED
  BY <1>1, GateInvariant, PTL
=============================================================================

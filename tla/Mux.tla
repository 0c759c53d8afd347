-------------------------------- MODULE Mux --------------------------------
(***************************************************************************)
(* internal/mux: the relayed streams of one tunnel, at both of its ends.   *)
(* The gateway opens streams, the connector accepts or refuses them, and   *)
(* mux.Relay copies between each stream and a local connection.            *)
(*                                                                         *)
(* The goroutines of an end: its read loop, for each stream the two of     *)
(* Relay (the one that called it copies local to stream, the other stream  *)
(* to local), and whoever closes the session.  A step is a section under   *)
(* Session.mu or Stream.mu, or one frame read or written: Writer.mu makes  *)
(* a frame whole, and a write waits while the connection's buffers are     *)
(* full (MaxWire frames), whoever it is that writes.                       *)
(*                                                                         *)
(* Left out: reasons and error texts, the frame codec, and the frames only *)
(* a foreign peer sends (protocolError).  Data is numbered frames; how     *)
(* many bytes of a frame a Read takes is not told apart.                   *)
(***************************************************************************)
EXTENDS Naturals, Sequences

CONSTANTS
  MaxStreams,   \* bound: streams the gateway ever opens
  MaxData,      \* bound, per end: DATA frames written on a stream
  MaxInbound,   \* DATA frames a stream may hold undelivered
  AcceptBacklog,\* OPENs that may wait for Accept
  MaxWire,      \* frames a direction of the connection holds
  Inputs        \* what may go wrong, of AllInputs

AllInputs == {"cancel", "refuse", "local", "timeout", "close", "lose"}

Ends == {"gateway", "connector"}
Other(e) == IF e = "gateway" THEN "connector" ELSE "gateway"
Ids == 1 .. MaxStreams
Refs == Ends \X Ids     \* a Stream of an end

ASSUME MuxAssumption ==
  /\ MaxStreams \in Nat /\ MaxData \in [Ends -> Nat]
  /\ {MaxInbound, AcceptBacklog, MaxWire} \subseteq Nat \ {0}
  /\ Inputs \subseteq AllInputs

VARIABLES
  wire,       \* frames an end has written that the other has not read
  lost,       \* the connection has failed under both
  err,        \* Session.err is set: fail has begun
  failing,    \* streams fail has yet to mark
  done,       \* fail has returned: done is closed, and the connection
  table,      \* Session.streams
  nextID,     \* streams opened
  accept,     \* the connector's OPENs that wait for Accept
  loop,       \* the read loop: "read", "write" (of answer), "gone"
  answer,     \* the frame the read loop writes
  queue, peerClosed, writeClosed, dead, notify,   \* Stream
  opened,     \* Stream.opened: "no", "yes", "refused" (openErr set)
  user,       \* where the goroutine that uses the stream is
  reader,     \* where the goroutine that copies from it is
  both,       \* CloseWrite's own: what peerClosed was
  written,    \* DATA frames written
  got         \* history: the DATA read, in order

session == <<lost, err, failing, done>>
conn == <<wire, table, nextID, accept, loop, answer>>
stream == <<queue, peerClosed, writeClosed, dead, notify, opened>>
local == <<user, reader, both, written, got>>
vars == <<session, conn, stream, local>>

Frame == [type : {"OPEN", "ACCEPT", "REFUSE", "DATA", "CLOSE", "RESET"},
          id : Ids \cup {0}, n : Nat]
F(type, id) == [type |-> type, id |-> id, n |-> 0]

UserAt == {"none", "open", "wait", "queued", "answer", "refuse", "copy", "data", "close",
           "reset", "failed", "drain", "abort", "done"}

TypeOK ==
  /\ wire \in [Ends -> Seq(Frame)]
  /\ lost \in BOOLEAN /\ err \in [Ends -> BOOLEAN] /\ done \in [Ends -> BOOLEAN]
  /\ failing \in [Ends -> SUBSET Ids] /\ table \in [Ends -> SUBSET Ids]
  /\ nextID \in 0 .. MaxStreams
  /\ accept \in Seq(Ids)
  /\ loop \in [Ends -> {"read", "write", "gone"}] /\ answer \in [Ends -> Frame]
  /\ queue \in [Refs -> Seq(Nat)]
  /\ peerClosed \in [Refs -> BOOLEAN] /\ writeClosed \in [Refs -> BOOLEAN]
  /\ dead \in [Refs -> BOOLEAN] /\ notify \in [Refs -> BOOLEAN]
  /\ opened \in [Refs -> {"no", "yes", "refused"}]
  /\ user \in [Refs -> UserAt]
  /\ reader \in [Refs -> {"off", "read", "wait", "eof", "error"}]
  /\ both \in [Refs -> BOOLEAN]
  /\ written \in [Refs -> Nat] /\ got \in [Refs -> Seq(Nat)]
  /\ Len(accept) <= AcceptBacklog
  /\ \A e \in Ends : Len(wire[e]) <= MaxWire
  /\ \A x \in Refs : Len(queue[x]) <= MaxInbound

Init ==
  /\ wire \in [Ends -> {<<>>}] /\ lost = FALSE
  /\ err \in [Ends -> {FALSE}] /\ done \in [Ends -> {FALSE}]
  /\ failing \in [Ends -> {{}}] /\ table \in [Ends -> {{}}]
  /\ nextID = 0 /\ accept = <<>>
  /\ loop \in [Ends -> {"read"}] /\ answer \in [Ends -> {F("RESET", 0)}]
  /\ queue \in [Refs -> {<<>>}]
  /\ peerClosed \in [Refs -> {FALSE}] /\ writeClosed \in [Refs -> {FALSE}]
  /\ dead \in [Refs -> {FALSE}] /\ notify \in [Refs -> {FALSE}]
  /\ opened \in [Refs -> {"no"}]
  /\ user \in [Refs -> {"none"}] /\ reader \in [Refs -> {"off"}]
  /\ both \in [Refs -> {FALSE}]
  /\ written \in [Refs -> {0}] /\ got \in [Refs -> {<<>>}]

-----------------------------------------------------------------------------
(* The connection, and the end of a session. *)

\* A read or a write of e may fail: the connection is lost, or an end has
\* closed it.
Broken == lost \/ \E e \in Ends : done[e]

\* A frame written waits for the other end, unless that has closed.
Send(e, f) ==
  /\ ~done[e] /\ Len(wire[e]) < MaxWire
  /\ wire' = IF done[Other(e)] THEN wire ELSE [wire EXCEPT ![e] = Append(@, f)]

\* Session.fail begins: once, and the streams of that moment are its to mark.
Fail(e) ==
  IF err[e] THEN UNCHANGED <<err, failing, table>>
  ELSE /\ err' = [err EXCEPT ![e] = TRUE]
       /\ failing' = [failing EXCEPT ![e] = table[e]]
       /\ table' = [table EXCEPT ![e] = {}]

\* Stream.markDead: once.
MarkDead(x) ==
  /\ dead' = [dead EXCEPT ![x] = TRUE]
  /\ queue' = [queue EXCEPT ![x] = <<>>]
  /\ notify' = [notify EXCEPT ![x] = @ \/ ~dead[x]]
  /\ opened' = [opened EXCEPT ![x] = IF @ = "no" THEN "refused" ELSE @]
  /\ UNCHANGED <<peerClosed, writeClosed>>

FailMarks(e) ==
  /\ \E i \in failing[e] :
       /\ MarkDead(<<e, i>>)
       /\ failing' = [failing EXCEPT ![e] = @ \ {i}]
  /\ UNCHANGED <<lost, err, done, conn, local>>

FailEnds(e) ==
  /\ err[e] /\ failing[e] = {} /\ ~done[e]
  /\ done' = [done EXCEPT ![e] = TRUE]
  /\ wire' = [wire EXCEPT ![Other(e)] = <<>>]
  /\ UNCHANGED <<lost, err, failing, table, nextID, accept, loop, answer, stream, local>>

\* Close, or CloseWithReason, which first tells the peer; a frame written
\* between its RESET and its fail would find nobody to read it.
Close(e) ==
  /\ ~err[e] /\ Fail(e)
  /\ (e = "gateway" /\ Send(e, F("RESET", 0))) \/ UNCHANGED wire
  /\ UNCHANGED <<lost, done, nextID, accept, loop, answer, stream, local>>

Lose ==
  /\ ~lost /\ lost' = TRUE
  /\ UNCHANGED <<err, failing, done, conn, stream, local>>

-----------------------------------------------------------------------------
(* The read loop. *)

Remove(e, i) == table' = [table EXCEPT ![e] = @ \ {i}]

\* Bug: what is over MaxInbound is dropped.
DeliverDrops(e, f) ==
  LET x == <<e, f.id>> IN
  /\ IF dead[x] \/ peerClosed[x] \/ Len(queue[x]) + 1 > MaxInbound THEN UNCHANGED <<queue, notify>>
     ELSE /\ queue' = [queue EXCEPT ![x] = Append(@, f.n)]
          /\ notify' = [notify EXCEPT ![x] = TRUE]
  /\ UNCHANGED <<table, peerClosed, writeClosed, dead, opened, loop, answer>>

\* Stream.deliver: what is over MaxInbound resets the stream.
Deliver(e, f) ==
  LET x == <<e, f.id>> IN
  IF dead[x] \/ peerClosed[x] THEN UNCHANGED <<table, stream, loop, answer>>
  ELSE IF Len(queue[x]) + 1 > MaxInbound
    THEN /\ Remove(e, f.id) /\ MarkDead(x)
         /\ loop' = [loop EXCEPT ![e] = "write"]
         /\ answer' = [answer EXCEPT ![e] = F("RESET", f.id)]
    ELSE /\ queue' = [queue EXCEPT ![x] = Append(@, f.n)]
         /\ notify' = [notify EXCEPT ![x] = TRUE]
         /\ UNCHANGED <<table, peerClosed, writeClosed, dead, opened, loop, answer>>

\* Bug: the reader is not woken.
PeerCloseSilent(e, i) ==
  /\ peerClosed' = [peerClosed EXCEPT ![<<e, i>>] = TRUE]
  /\ IF writeClosed[<<e, i>>] THEN Remove(e, i) ELSE UNCHANGED table
  /\ UNCHANGED <<queue, notify, writeClosed, dead, opened, loop, answer>>

\* Stream.peerClose; a stream closed both ways leaves the table.
PeerClose(e, i) ==
  /\ peerClosed' = [peerClosed EXCEPT ![<<e, i>>] = TRUE]
  /\ notify' = [notify EXCEPT ![<<e, i>>] = TRUE]
  /\ IF writeClosed[<<e, i>>] THEN Remove(e, i) ELSE UNCHANGED table
  /\ UNCHANGED <<queue, writeClosed, dead, opened, loop, answer>>

\* The connector's read loop takes an OPEN; with the backlog full it is
\* refused then and there.
ReadOpen(i) ==
  IF Len(accept) < AcceptBacklog
  THEN /\ table' = [table EXCEPT !["connector"] = @ \cup {i}]
       /\ accept' = Append(accept, i)
       /\ user' = [user EXCEPT ![<<"connector", i>>] = "queued"]
       /\ UNCHANGED <<stream, loop, answer>>
  ELSE /\ MarkDead(<<"connector", i>>)
       /\ loop' = [loop EXCEPT !["connector"] = "write"]
       /\ answer' = [answer EXCEPT !["connector"] = F("REFUSE", i)]
       /\ UNCHANGED <<table, accept, user>>

\* The answer to an OPEN: the opener's stream is opened, or refused, once.
ReadAnswer(e, f) ==
  /\ opened' = [opened EXCEPT ![<<e, f.id>>] =
                  IF @ # "no" THEN @ ELSE IF f.type = "ACCEPT" THEN "yes" ELSE "refused"]
  /\ UNCHANGED <<table, queue, peerClosed, writeClosed, dead, notify, loop, answer>>

\* A frame for a stream of e's table.
ReadStream(e, f) ==
  \/ f.type \in {"ACCEPT", "REFUSE"} /\ ReadAnswer(e, f)
  \/ f.type = "DATA" /\ Deliver(e, f)
  \/ f.type = "CLOSE" /\ PeerClose(e, f.id)
  \/ /\ f.type = "RESET"
     /\ Remove(e, f.id) /\ MarkDead(<<e, f.id>>)
     /\ UNCHANGED <<loop, answer>>

ReadFrame(e) ==
  /\ loop[e] = "read" /\ ~done[e] /\ wire[Other(e)] # <<>>
  /\ LET f == Head(wire[Other(e)]) IN
       \/ f.type = "OPEN" /\ ReadOpen(f.id) /\ UNCHANGED <<err, failing>>
       \/ /\ f.id # 0 /\ f.type # "OPEN"
          /\ IF f.id \in table[e] THEN ReadStream(e, f) ELSE UNCHANGED <<table, stream, loop, answer>>
          /\ UNCHANGED <<accept, user, err, failing>>
       \/ /\ f.id = 0
          /\ Fail(e) /\ loop' = [loop EXCEPT ![e] = "gone"]
          /\ UNCHANGED <<accept, user, answer, stream>>
  /\ wire' = [wire EXCEPT ![Other(e)] = Tail(@)]
  /\ UNCHANGED <<lost, done, nextID, reader, both, written, got>>

\* Reader.Read returns an error: fail, and the loop is gone.
ReadFails(e) ==
  /\ loop[e] = "read" /\ Broken
  /\ Fail(e) /\ loop' = [loop EXCEPT ![e] = "gone"]
  /\ UNCHANGED <<lost, done, wire, nextID, accept, answer, stream, local>>

\* The read loop's own RESET or REFUSE goes out, or fails: then fail has it, and
\* the next read has nothing to read from.
LoopWrites(e) ==
  /\ loop[e] = "write"
  /\ \/ /\ Send(e, answer[e]) /\ UNCHANGED <<err, failing, table>>
        /\ loop' = [loop EXCEPT ![e] = "read"]
     \/ /\ Broken /\ Fail(e) /\ UNCHANGED wire
        /\ loop' = [loop EXCEPT ![e] = "gone"]
  /\ UNCHANGED <<lost, done, nextID, accept, answer, stream, local>>

-----------------------------------------------------------------------------
(* Opening a stream: Session.Open at the gateway, Pending at the connector. *)

Goes(x, l) == user' = [user EXCEPT ![x] = l]

Open ==
  LET i == nextID + 1 IN
  /\ nextID < MaxStreams /\ ~err["gateway"]
  /\ nextID' = i
  /\ table' = [table EXCEPT !["gateway"] = @ \cup {i}]
  /\ Goes(<<"gateway", i>>, "open")
  /\ UNCHANGED <<session, wire, accept, loop, answer, stream, reader, both, written, got>>

\* A user of x writes a frame and goes on, or fails the session.
Writes(x, f, next, ifFails) ==
  /\ \/ Send(x[1], f) /\ Goes(x, next) /\ UNCHANGED <<err, failing, table>>
     \/ Broken /\ Fail(x[1]) /\ Goes(x, ifFails) /\ UNCHANGED wire
  /\ UNCHANGED <<lost, done, nextID, accept, loop, answer>>

SendOpen(i) ==
  LET x == <<"gateway", i>> IN
  /\ user[x] = "open"
  /\ Writes(x, F("OPEN", i), "wait", "done")
  /\ UNCHANGED <<stream, reader, both, written, got>>

\* Open returns the stream, or (refused, or dead by now) an error.
OpenReturns(i) ==
  LET x == <<"gateway", i>> IN
  /\ user[x] = "wait"
  /\ \/ /\ opened[x] = "yes" /\ Goes(x, "copy")
        /\ reader' = [reader EXCEPT ![x] = "read"]
        /\ UNCHANGED table
     \/ opened[x] = "refused" /\ Goes(x, "done") /\ Remove("gateway", i) /\ UNCHANGED reader
     \/ dead[x] /\ Goes(x, "done") /\ UNCHANGED <<table, reader>>
  /\ UNCHANGED <<session, wire, nextID, accept, loop, answer, stream, both, written, got>>

\* Stream.Reset up to its RESET: nothing for one that is dead already.
Reset(x, next, ifDead) ==
  IF dead[x] THEN Goes(x, ifDead) /\ UNCHANGED <<table, stream>>
  ELSE Remove(x[1], x[2]) /\ MarkDead(x) /\ Goes(x, next)

OpenCancelled(i) ==
  LET x == <<"gateway", i>> IN
  /\ user[x] = "wait"
  /\ Reset(x, "abort", "done")
  /\ UNCHANGED <<session, wire, nextID, accept, loop, answer, reader, both, written, got>>

\* Session.Accept hands the OPEN to a handler.
Accept ==
  /\ accept # <<>>
  /\ accept' = Tail(accept)
  /\ Goes(<<"connector", Head(accept)>>, "answer")
  /\ UNCHANGED <<session, wire, table, nextID, loop, answer, stream, reader, both, written, got>>

AcceptStream(i) ==
  LET x == <<"connector", i>> IN
  /\ user[x] = "answer"
  /\ Writes(x, F("ACCEPT", i), "copy", "done")
  /\ reader' = [reader EXCEPT ![x] = IF user'[x] = "copy" THEN "read" ELSE @]
  /\ UNCHANGED <<stream, both, written, got>>

\* Pending.Refuse up to its REFUSE.
RefuseStream(i) ==
  LET x == <<"connector", i>> IN
  /\ user[x] = "answer"
  /\ Remove("connector", i) /\ MarkDead(x) /\ Goes(x, "refuse")
  /\ UNCHANGED <<session, wire, nextID, accept, loop, answer, reader, both, written, got>>

SendRefuse(i) ==
  LET x == <<"connector", i>> IN
  /\ user[x] = "refuse"
  /\ Writes(x, F("REFUSE", i), "done", "done")
  /\ UNCHANGED <<stream, reader, both, written, got>>

-----------------------------------------------------------------------------
(* Relay: from the local connection to the stream. *)

\* Stream.Write looks at the stream, then writes the frame.
WriteBegins(x) ==
  /\ user[x] = "copy" /\ written[x] < MaxData[x[1]]
  /\ Goes(x, IF dead[x] THEN "drain" ELSE "data")
  /\ UNCHANGED <<session, conn, stream, reader, both, written, got>>

SendData(x) ==
  /\ user[x] = "data"
  /\ Writes(x, [type |-> "DATA", id |-> x[2], n |-> written[x] + 1], "copy", "failed")
  /\ written' = [written EXCEPT ![x] = IF user'[x] = "copy" THEN @ + 1 ELSE @]
  /\ UNCHANGED <<stream, reader, both, got>>

\* The goroutine that copies to the stream has come to an end: of the local
\* connection, or of the session once fail has returned.
CopyEnds(x) == user[x] = "copy" \/ (user[x] = "failed" /\ done[x[1]])

\* The end is clean (or the other direction closed the local connection):
\* CloseWrite up to its CLOSE.
CloseWrite(x) ==
  /\ CopyEnds(x)
  /\ IF dead[x] THEN Goes(x, "drain") /\ UNCHANGED <<writeClosed, both>>
     ELSE /\ writeClosed' = [writeClosed EXCEPT ![x] = TRUE]
          /\ both' = [both EXCEPT ![x] = peerClosed[x]]
          /\ Goes(x, "close")
  /\ UNCHANGED <<session, conn, queue, peerClosed, dead, notify, opened, reader, written, got>>

\* Bug: CloseWrite leaves the table to peerClose.
SendCloseKeeps(x) ==
  /\ user[x] = "close"
  /\ \/ Send(x[1], F("CLOSE", x[2])) /\ UNCHANGED <<table, err, failing>>
     \/ Broken /\ Fail(x[1]) /\ UNCHANGED wire
  /\ Goes(x, "drain")
  /\ UNCHANGED <<lost, done, nextID, accept, loop, answer, stream, reader, both, written, got>>

SendClose(x) ==
  /\ user[x] = "close"
  /\ \/ /\ Send(x[1], F("CLOSE", x[2])) /\ Goes(x, "drain")
        /\ IF both[x] THEN Remove(x[1], x[2]) ELSE UNCHANGED table
        /\ UNCHANGED <<err, failing>>
     \/ Broken /\ Fail(x[1]) /\ Goes(x, "drain") /\ UNCHANGED wire
  /\ UNCHANGED <<lost, done, nextID, accept, loop, answer, stream, reader, both, written, got>>

\* The local connection failed, or a write to the stream did: Reset.
LocalFails(x) ==
  /\ CopyEnds(x) /\ (user[x] = "copy" => "local" \in Inputs)
  /\ Reset(x, "reset", "drain")
  /\ UNCHANGED <<session, wire, nextID, accept, loop, answer, reader, both, written, got>>

SendReset(x) ==
  /\ \/ user[x] = "reset" /\ Writes(x, F("RESET", x[2]), "drain", "drain")
     \/ user[x] = "abort" /\ Writes(x, F("RESET", x[2]), "done", "done")
  /\ UNCHANGED <<stream, reader, both, written, got>>

\* Stream.Close: clean when the peer has closed too, else by a RESET.
CloseStream(x) ==
  /\ user[x] = "drain"
  /\ IF peerClosed[x] \/ dead[x]
       THEN Remove(x[1], x[2]) /\ MarkDead(x) /\ Goes(x, "done")
       ELSE Reset(x, "abort", "done")
  /\ UNCHANGED <<session, wire, nextID, accept, loop, answer, reader, both, written, got>>

-----------------------------------------------------------------------------
(* Relay: from the stream to the local connection. *)

Reads(x, l) == reader' = [reader EXCEPT ![x] = l]

\* Stream.Read: queued data first, then an error, then the end.
Read(x) ==
  /\ reader[x] = "read"
  /\ \/ /\ queue[x] # <<>>
        /\ queue' = [queue EXCEPT ![x] = Tail(@)]
        /\ got' = [got EXCEPT ![x] = Append(@, Head(queue[x]))]
        /\ UNCHANGED reader
     \/ /\ queue[x] = <<>>
        /\ Reads(x, IF dead[x] THEN "error" ELSE IF peerClosed[x] THEN "eof" ELSE "wait")
        /\ UNCHANGED <<queue, got>>
  /\ UNCHANGED <<session, conn, peerClosed, writeClosed, dead, notify, opened, user, both, written>>

Wakes(x) ==
  /\ reader[x] = "wait"
  /\ \/ notify[x] /\ notify' = [notify EXCEPT ![x] = FALSE]
     \/ done[x[1]] /\ UNCHANGED notify
  /\ Reads(x, "read")
  /\ UNCHANGED <<session, conn, queue, peerClosed, writeClosed, dead, opened, user, both, written, got>>

\* A write to the local connection fails.
ReaderFails(x) ==
  /\ reader[x] = "read" /\ got[x] # <<>>
  /\ Reads(x, "error")
  /\ UNCHANGED <<session, conn, stream, user, both, written, got>>

\* Relay waits for the reader before it closes the stream, for a while.
RelayEnds(x) ==
  /\ reader[x] \in {"eof", "error"} \/ "timeout" \in Inputs
  /\ CloseStream(x)

-----------------------------------------------------------------------------
Session(e) ==
  \/ FailMarks(e) \/ FailEnds(e) \/ ("close" \in Inputs /\ Close(e))
  \/ ReadFrame(e) \/ ReadFails(e) \/ LoopWrites(e)

Opening(i) ==
  \/ SendOpen(i) \/ OpenReturns(i) \/ ("cancel" \in Inputs /\ OpenCancelled(i))
  \/ AcceptStream(i) \/ SendRefuse(i) \/ ("refuse" \in Inputs /\ RefuseStream(i))

Relay(x) ==
  \/ WriteBegins(x) \/ SendData(x) \/ CloseWrite(x) \/ SendClose(x) \/ SendReset(x)
  \/ LocalFails(x) \/ RelayEnds(x) \/ Read(x) \/ Wakes(x) \/ ("local" \in Inputs /\ ReaderFails(x))

Next ==
  \/ \E e \in Ends : Session(e)
  \/ Open \/ Accept \/ \E i \in Ids : Opening(i)
  \/ \E x \in Refs : Relay(x)
  \/ "lose" \in Inputs /\ Lose

Spec == Init /\ [][Next]_vars

-----------------------------------------------------------------------------
(* Properties. *)

Peer(x) == <<Other(x[1]), x[2]>>

\* Each direction of a stream is a pipe: written at one end, read at the other,
\* whatever other streams, resets, overflows and failures do (Write, deliver,
\* peerClose, Read).
P(x) == INSTANCE Pipe WITH
  sent <- written[Peer(x)], closed <- writeClosed[Peer(x)], got <- got[x],
  end <- IF reader[x] \in {"eof", "error"} THEN reader[x] ELSE "open"

Pipes ==
  /\ \A x \in Refs : P(x)!Init
  /\ [][\A x \in Refs : [P(x)!Next]_(P(x)!vars)]_vars

\* A reader that waits has nothing to read, or is about to be woken: notify
\* holds one signal, and nobody else takes it (signal, Read).
ReaderWoken ==
  \A x \in Refs :
    reader[x] = "wait" /\ (queue[x] # <<>> \/ dead[x] \/ peerClosed[x]) =>
      notify[x] \/ done[x[1]]

\* A stream closed both ways, or whose user is through with it, is in no table:
\* whichever of CloseWrite and peerClose comes second removes it.
Forgotten ==
  \A x \in Refs :
    ~err[x[1]] /\ x[2] \in table[x[1]] =>
      user[x] # "done" /\ (peerClosed[x] /\ writeClosed[x] => user[x] = "close")

\* Once the session has failed no stream of the gateway is left to wait: each
\* is dead, or both its sides were closed (Open, fail).
OpenerStreamsFail ==
  done["gateway"] =>
    \A i \in Ids :
      LET x == <<"gateway", i>> IN
      \/ user[x] \in {"none", "done"} \/ dead[x]
      \/ peerClosed[x] /\ writeClosed[x]

\* No stream is left behind, whatever ended it or its session: none stays in a
\* table that no frame can find any more use for, and none waits in a session
\* that has failed (mux.go, CloseWrite, peerClose, Open and fail).
NoneLeft == Forgotten /\ OpenerStreamsFail

\* What a comment says, and the code does not keep.

\* mux.go: streams "cannot deadlock each other through the shared connection".
\* The two read loops never wait for each other, each to write into buffers that
\* only the other empties.
LoopsMove ==
  ~ \A e \in Ends : loop[e] = "write" /\ Len(wire[e]) = MaxWire /\ ~Broken
=============================================================================

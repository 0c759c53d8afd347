------------------------------ MODULE MuxProofs ------------------------------
(***************************************************************************)
(* Proofs about module Mux, for any number of streams, any bounds of what  *)
(* may wait and any set of inputs: a reader that waits is woken, no        *)
(* stream is left behind, and each direction of a stream is a pipe.        *)
(***************************************************************************)
EXTENDS Mux, SequenceTheorems, TLAPS

\* What is of the connection and of the sessions, by type.
SessionType ==
  /\ wire \in [Ends -> Seq(Frame)] /\ answer \in [Ends -> Frame]
  /\ err \in [Ends -> BOOLEAN] /\ done \in [Ends -> BOOLEAN]
  /\ failing \in [Ends -> SUBSET Ids] /\ table \in [Ends -> SUBSET Ids]
  /\ nextID \in Nat /\ accept \in Seq(Ids)

\* The streams, by type.
StreamType ==
  /\ queue \in [Refs -> Seq(Nat)] /\ written \in [Refs -> Nat]
  /\ peerClosed \in [Refs -> BOOLEAN] /\ writeClosed \in [Refs -> BOOLEAN]
  /\ dead \in [Refs -> BOOLEAN] /\ notify \in [Refs -> BOOLEAN] /\ both \in [Refs -> BOOLEAN]
  /\ user \in [Refs -> UserAt] /\ reader \in [Refs -> {"off", "read", "wait", "eof", "error"}]

MuxType == SessionType /\ StreamType

\* An OPEN on the way is the gateway's, of a stream, and there is one of each.
WireSound ==
  /\ \A k \in 1 .. Len(wire["gateway"]) :
       wire["gateway"][k].type = "OPEN" =>
         /\ wire["gateway"][k].id \in Ids
         /\ \A l \in 1 .. Len(wire["gateway"]) :
              wire["gateway"][l].type = "OPEN" /\ wire["gateway"][l].id = wire["gateway"][k].id => l = k
  /\ \A k \in 1 .. Len(wire["connector"]) : wire["connector"][k].type # "OPEN"
  /\ \A e \in Ends : answer[e].type # "OPEN"

\* A stream is of an end and has a number.
LEMMA RefParts ==
  /\ \A x \in Refs : x[1] \in Ends /\ x[2] \in Ids /\ x = <<x[1], x[2]>>
  /\ \A e \in Ends, i \in Ids : <<e, i>> \in Refs /\ <<e, i>>[1] = e /\ <<e, i>>[2] = i
  BY DEF Refs

\* Each end has another.
LEMMA OtherEnd == \A e \in Ends : Other(e) \in Ends /\ Other(e) # e
  BY DEF Ends, Other

-----------------------------------------------------------------------------
(* Types. *)

\* A frame sent is one more at the end of what is on the way, if anything is.
LEMMA SendType ==
  ASSUME SessionType, NEW e \in Ends, NEW f \in Frame, Send(e, f)
  PROVE  wire' \in [Ends -> Seq(Frame)]
<1>1. wire[e] \in Seq(Frame)
  BY DEF SessionType
<1>2. Append(wire[e], f) \in Seq(Frame)
  BY <1>1
<1> QED
  BY <1>2 DEF Send, SessionType

\* What begins to fail keeps its types.
LEMMA FailType ==
  ASSUME SessionType, NEW e \in Ends, Fail(e)
  PROVE  /\ err' \in [Ends -> BOOLEAN] /\ failing' \in [Ends -> SUBSET Ids] /\ table' \in [Ends -> SUBSET Ids]
  BY DEF Fail, SessionType

\* So does a stream that is dead.
LEMMA MarkDeadType ==
  ASSUME StreamType, NEW x \in Refs, MarkDead(x)
  PROVE  /\ dead' \in [Refs -> BOOLEAN] /\ queue' \in [Refs -> Seq(Nat)] /\ notify' \in [Refs -> BOOLEAN]
         /\ UNCHANGED <<peerClosed, writeClosed>>
<1>1. <<>> \in Seq(Nat)
  OBVIOUS
<1> QED
  BY <1>1 DEF MarkDead, StreamType

\* A session's own frames are frames.
LEMMA FrameType ==
  ASSUME NEW type \in {"OPEN", "ACCEPT", "REFUSE", "DATA", "CLOSE", "RESET"}, NEW i \in Ids \cup {0}
  PROVE  F(type, i) \in Frame /\ F(type, i).type = type /\ F(type, i).id = i
  BY DEF F, Frame

\* A write of a stream's user, done or failed, keeps the types.
LEMMA WritesType ==
  ASSUME MuxType, NEW x \in Refs, NEW f \in Frame, NEW a \in UserAt, NEW b \in UserAt, Writes(x, f, a, b)
  PROVE  /\ SessionType' /\ user' \in [Refs -> UserAt]
         /\ user' = [user EXCEPT ![x] = a] \/ user' = [user EXCEPT ![x] = b]
<1> USE DEF MuxType
<1>1. x[1] \in Ends
  BY RefParts
<1>2. CASE Send(x[1], f) /\ Goes(x, a) /\ UNCHANGED <<err, failing, table>>
  <2>1. wire' \in [Ends -> Seq(Frame)]
    BY <1>1, <1>2, SendType
  <2> QED
    BY <1>2, <2>1 DEF Writes, Goes, SessionType, StreamType
<1>3. CASE Broken /\ Fail(x[1]) /\ Goes(x, b) /\ UNCHANGED wire
  <2>1. err' \in [Ends -> BOOLEAN] /\ failing' \in [Ends -> SUBSET Ids] /\ table' \in [Ends -> SUBSET Ids]
    BY <1>1, <1>3, FailType
  <2> QED
    BY <1>3, <2>1 DEF Writes, Goes, SessionType, StreamType
<1> QED
  BY <1>2, <1>3 DEF Writes

\* The read loop and the end of a session keep the types.
LEMMA SessionTypeStep ==
  ASSUME MuxType, WireSound, NEW e \in Ends, Session(e)
  PROVE  MuxType'
<1> USE DEF MuxType
<1>1. CASE FailMarks(e)
  <2>1. PICK i \in failing[e] : MarkDead(<<e, i>>) /\ failing' = [failing EXCEPT ![e] = @ \ {i}]
    BY <1>1 DEF FailMarks
  <2>2. i \in Ids
    BY <2>1 DEF SessionType
  <2>3. <<e, i>> \in Refs
    BY <2>2, RefParts
  <2>4. StreamType'
    BY <1>1, <2>1, <2>3, MarkDeadType DEF FailMarks, StreamType, local
  <2> QED
    BY <1>1, <2>1, <2>4 DEF FailMarks, SessionType, conn
<1>2. CASE FailEnds(e)
  <2>1. <<>> \in Seq(Frame) /\ Other(e) \in Ends
    BY OtherEnd
  <2>2. wire' \in [Ends -> Seq(Frame)] /\ done' \in [Ends -> BOOLEAN]
    BY <1>2, <2>1 DEF FailEnds, SessionType
  <2> QED
    BY <1>2, <2>2 DEF FailEnds, SessionType, StreamType, stream, local
<1>3. CASE Close(e)
  <2>1. err' \in [Ends -> BOOLEAN] /\ failing' \in [Ends -> SUBSET Ids] /\ table' \in [Ends -> SUBSET Ids]
    BY <1>3, FailType DEF Close
  <2>2. F("RESET", 0) \in Frame
    BY FrameType
  <2>3. wire' \in [Ends -> Seq(Frame)]
    BY <1>3, <2>2, SendType DEF Close, SessionType
  <2> QED
    BY <1>3, <2>1, <2>3 DEF Close, SessionType, StreamType, stream, local
<1>4. CASE ReadFails(e)
  <2>1. err' \in [Ends -> BOOLEAN] /\ failing' \in [Ends -> SUBSET Ids] /\ table' \in [Ends -> SUBSET Ids]
    BY <1>4, FailType DEF ReadFails
  <2> QED
    BY <1>4, <2>1 DEF ReadFails, SessionType, StreamType, stream, local
<1>5. CASE LoopWrites(e)
  <2>1. answer[e] \in Frame
    BY DEF SessionType
  <2>2. /\ wire' \in [Ends -> Seq(Frame)]
        /\ err' \in [Ends -> BOOLEAN] /\ failing' \in [Ends -> SUBSET Ids] /\ table' \in [Ends -> SUBSET Ids]
    BY <1>5, <2>1, FailType, SendType DEF LoopWrites, SessionType
  <2> QED
    BY <1>5, <2>2 DEF LoopWrites, SessionType, StreamType, stream, local
<1>6. CASE ReadFrame(e)
  <2> DEFINE o == Other(e)
             f == Head(wire[o])
  <2>1. /\ o \in Ends /\ wire[o] \in Seq(Frame) /\ wire[o] # <<>>
        /\ wire' = [wire EXCEPT ![o] = Tail(@)]
    BY <1>6, OtherEnd DEF ReadFrame, SessionType
  <2>2. f \in Frame /\ Tail(wire[o]) \in Seq(Frame)
    BY <2>1
  <2>3. wire' \in [Ends -> Seq(Frame)] /\ UNCHANGED <<done, nextID, reader, both, written>>
    BY <1>6, <2>1, <2>2 DEF ReadFrame, SessionType
  <2> HIDE DEF f, o
  <2>4. f.id \in Ids \cup {0} /\ f.n \in Nat
    BY <2>2 DEF Frame
  <2>5. CASE f.type = "OPEN" /\ ReadOpen(f.id) /\ UNCHANGED <<err, failing>>
    <3>1. "connector" \in Ends /\ f.id \in Ids
      <4>1. wire[o][1] = f /\ 1 \in 1 .. Len(wire[o])
        BY <2>1, <2>5 DEF f
      <4>2. o \in {"gateway", "connector"}
        BY <2>1 DEF Ends
      <4> QED
        BY <2>5, <4>1, <4>2 DEF WireSound, Ends
    <3>2. <<"connector", f.id>> \in Refs
      BY <3>1, RefParts
    <3>3. CASE Len(accept) < AcceptBacklog
      <4>1. Append(accept, f.id) \in Seq(Ids)
        BY <3>1 DEF SessionType
      <4>2. "queued" \in UserAt
        BY DEF UserAt
      <4>3. /\ table' = [table EXCEPT !["connector"] = @ \cup {f.id}]
            /\ accept' = Append(accept, f.id)
            /\ user' = [user EXCEPT ![<<"connector", f.id>>] = "queued"]
            /\ UNCHANGED <<stream, answer, err, failing>>
        BY <2>5, <3>3 DEF ReadOpen
      <4>4. SessionType'
        BY <2>3, <3>1, <4>1, <4>3 DEF SessionType
      <4>5. StreamType'
        BY <2>3, <4>2, <4>3 DEF StreamType, stream
      <4> QED
        BY <4>4, <4>5
    <3>4. CASE ~(Len(accept) < AcceptBacklog)
      <4>1. F("REFUSE", f.id) \in Frame
        BY <3>1, FrameType
      <4>2. /\ MarkDead(<<"connector", f.id>>)
            /\ answer' = [answer EXCEPT !["connector"] = F("REFUSE", f.id)]
            /\ UNCHANGED <<table, accept, user, err, failing>>
        BY <2>5, <3>4 DEF ReadOpen
      <4>3. StreamType'
        BY <2>3, <3>2, <4>2, MarkDeadType DEF StreamType
      <4> QED
        BY <2>3, <4>1, <4>2, <4>3 DEF SessionType
    <3> QED
      BY <3>3, <3>4
  <2>6. CASE f.id # 0 /\ (IF f.id \in table[e] THEN ReadStream(e, f) ELSE UNCHANGED <<table, stream, loop, answer>>)
             /\ UNCHANGED <<accept, user, err, failing>>
    <3>1. f.id \in Ids /\ <<e, f.id>> \in Refs
      BY <2>4, <2>6, RefParts
    <3>2. CASE UNCHANGED <<table, stream, loop, answer>>
      BY <2>3, <2>6, <3>2 DEF SessionType, StreamType, stream
    <3>3. CASE ReadAnswer(e, f)
      BY <2>3, <2>6, <3>3 DEF ReadAnswer, SessionType, StreamType
    <3>4. CASE Deliver(e, f)
      <4>1. CASE UNCHANGED <<table, stream, loop, answer>>
        BY <3>2, <4>1
      <4>2. CASE Remove(e, f.id) /\ MarkDead(<<e, f.id>>) /\ answer' = [answer EXCEPT ![e] = F("RESET", f.id)]
        <5>1. F("RESET", f.id) \in Frame
          BY <3>1, FrameType
        <5>2. StreamType'
          BY <2>3, <2>6, <3>1, <4>2, MarkDeadType DEF StreamType
        <5> QED
          BY <2>3, <2>6, <4>2, <5>1, <5>2 DEF Remove, SessionType
      <4>3. CASE /\ queue' = [queue EXCEPT ![<<e, f.id>>] = Append(@, f.n)]
                 /\ notify' = [notify EXCEPT ![<<e, f.id>>] = TRUE]
                 /\ UNCHANGED <<table, peerClosed, writeClosed, dead, opened, loop, answer>>
        <5>1. queue[<<e, f.id>>] \in Seq(Nat)
          BY <3>1 DEF StreamType
        <5>2. Append(queue[<<e, f.id>>], f.n) \in Seq(Nat)
          BY <2>4, <5>1
        <5> QED
          BY <2>3, <2>6, <3>1, <4>3, <5>2 DEF SessionType, StreamType
      <4> QED
        BY <3>4, <4>1, <4>2, <4>3 DEF Deliver
    <3>5. CASE PeerClose(e, f.id)
      <4>1. table' \in [Ends -> SUBSET Ids]
        BY <2>3, <3>5 DEF PeerClose, Remove, SessionType
      <4>2. SessionType'
        BY <2>3, <2>6, <3>5, <4>1 DEF PeerClose, SessionType
      <4>3. StreamType'
        BY <2>3, <2>6, <3>5 DEF PeerClose, StreamType
      <4> QED
        BY <4>2, <4>3
    <3>6. CASE Remove(e, f.id) /\ MarkDead(<<e, f.id>>) /\ UNCHANGED <<loop, answer>>
      <4>1. StreamType'
        BY <2>3, <2>6, <3>1, <3>6, MarkDeadType DEF StreamType
      <4> QED
        BY <2>3, <2>6, <3>6, <4>1 DEF Remove, SessionType
    <3> QED
      BY <2>6, <3>2, <3>3, <3>4, <3>5, <3>6 DEF ReadStream
  <2>7. CASE Fail(e) /\ UNCHANGED <<accept, user, answer, stream>>
    BY <2>3, <2>7, FailType DEF SessionType, StreamType, stream
  <2> QED
    BY <1>6, <2>5, <2>6, <2>7 DEF ReadFrame, f, o
<1> QED
  BY <1>1, <1>2, <1>3, <1>4, <1>5, <1>6 DEF Session

\* Opening a stream keeps the types.
LEMMA OpeningTypeStep ==
  ASSUME MuxType, NEW i \in Ids, Opening(i) \/ Open \/ Accept
  PROVE  MuxType'
<1> USE DEF MuxType
<1> DEFINE g == <<"gateway", i>>
           c == <<"connector", i>>
<1>1. /\ "gateway" \in Ends /\ "connector" \in Ends /\ g \in Refs /\ c \in Refs
      /\ g[1] = "gateway" /\ c[1] = "connector"
  BY RefParts DEF Ends
<1> HIDE DEF g, c
<1>2. CASE Open
  <2>1. nextID + 1 \in Ids
    BY <1>2, MuxAssumption DEF Open, Ids, SessionType
  <2>2. <<"gateway", nextID + 1>> \in Refs /\ "open" \in UserAt
    BY <1>1, <2>1, RefParts DEF UserAt
  <2>3. SessionType'
    <3>1. nextID + 1 \in Nat
      BY DEF SessionType
    <3>2. /\ table' = [table EXCEPT !["gateway"] = @ \cup {nextID + 1}] /\ nextID' = nextID + 1
          /\ UNCHANGED <<lost, err, failing, done, wire, accept, answer>>
      BY <1>2 DEF Open, session
    <3>3. table' \in [Ends -> SUBSET Ids]
      BY <1>1, <2>1, <3>2 DEF SessionType
    <3> QED
      BY <3>1, <3>2, <3>3 DEF SessionType
  <2>4. StreamType'
    BY <1>2, <2>2 DEF Open, Goes, StreamType, stream
  <2> QED
    BY <2>3, <2>4
<1>3. CASE Accept
  <2>1. Head(accept) \in Ids /\ Tail(accept) \in Seq(Ids) /\ "answer" \in UserAt
    BY <1>3 DEF Accept, SessionType, UserAt
  <2>2. SessionType'
    BY <1>3, <2>1 DEF Accept, SessionType, session
  <2>3. StreamType'
    BY <1>3, <2>1 DEF Accept, Goes, StreamType, stream
  <2> QED
    BY <2>2, <2>3
<1>4. CASE SendOpen(i)
  <2>1. F("OPEN", i) \in Frame /\ "wait" \in UserAt /\ "done" \in UserAt
    BY FrameType DEF UserAt
  <2>2. Writes(g, F("OPEN", i), "wait", "done") /\ UNCHANGED <<stream, reader, both, written>>
    BY <1>4 DEF SendOpen, g
  <2>3. SessionType' /\ user' \in [Refs -> UserAt]
    BY <1>1, <2>1, <2>2, WritesType
  <2> QED
    BY <2>2, <2>3 DEF StreamType, stream
<1>5. CASE OpenReturns(i)
  <2>1. "copy" \in UserAt /\ "done" \in UserAt
    BY DEF UserAt
  <2>2. table' \in [Ends -> SUBSET Ids]
    BY <1>1, <1>5 DEF OpenReturns, Remove, SessionType
  <2>3. user' \in [Refs -> UserAt] /\ reader' \in [Refs -> {"off", "read", "wait", "eof", "error"}]
    <3>1. \/ user' = [user EXCEPT ![g] = "copy"] /\ reader' = [reader EXCEPT ![g] = "read"]
          \/ user' = [user EXCEPT ![g] = "done"] /\ reader' = reader
      BY <1>5 DEF OpenReturns, Goes, g
    <3> QED
      BY <2>1, <3>1 DEF StreamType
  <2> QED
    BY <1>5, <2>2, <2>3 DEF OpenReturns, SessionType, StreamType, session, stream
<1>6. CASE OpenCancelled(i)
  <2>1. "abort" \in UserAt /\ "done" \in UserAt
    BY DEF UserAt
  <2>2. Reset(g, "abort", "done") /\ UNCHANGED <<session, wire, nextID, accept, answer, reader, both, written>>
    BY <1>6 DEF OpenCancelled, g
  <2>3. CASE dead[g]
    BY <1>1, <2>1, <2>2, <2>3 DEF Reset, Goes, SessionType, StreamType, session, stream
  <2>4. CASE ~dead[g]
    <3>1. Remove(g[1], g[2]) /\ MarkDead(g) /\ Goes(g, "abort")
      BY <2>2, <2>4 DEF Reset
    <3>2. StreamType'
      BY <1>1, <2>1, <2>2, <3>1, MarkDeadType DEF Goes, StreamType
    <3> QED
      BY <1>1, <2>2, <3>1, <3>2 DEF Remove, SessionType, session
  <2> QED
    BY <2>3, <2>4
<1>7. CASE AcceptStream(i)
  <2>1. F("ACCEPT", i) \in Frame /\ "copy" \in UserAt /\ "done" \in UserAt
    BY FrameType DEF UserAt
  <2>2. /\ Writes(c, F("ACCEPT", i), "copy", "done") /\ UNCHANGED <<stream, both, written>>
        /\ reader' = [reader EXCEPT ![c] = IF user'[c] = "copy" THEN "read" ELSE @]
    BY <1>7 DEF AcceptStream, c
  <2>3. SessionType' /\ user' \in [Refs -> UserAt]
    BY <1>1, <2>1, <2>2, WritesType
  <2>4. reader' \in [Refs -> {"off", "read", "wait", "eof", "error"}]
    BY <1>1, <2>2 DEF StreamType
  <2> QED
    BY <2>2, <2>3, <2>4 DEF StreamType, stream
<1>8. CASE RefuseStream(i)
  <2>1. "refuse" \in UserAt
    BY DEF UserAt
  <2>2. /\ Remove("connector", i) /\ MarkDead(c) /\ Goes(c, "refuse")
        /\ UNCHANGED <<session, wire, nextID, accept, answer, reader, both, written>>
    BY <1>8 DEF RefuseStream, c
  <2>3. StreamType'
    BY <1>1, <2>1, <2>2, MarkDeadType DEF Goes, StreamType
  <2> QED
    BY <1>1, <2>2, <2>3 DEF Remove, SessionType, session
<1>9. CASE SendRefuse(i)
  <2>1. F("REFUSE", i) \in Frame /\ "done" \in UserAt
    BY FrameType DEF UserAt
  <2>2. Writes(c, F("REFUSE", i), "done", "done") /\ UNCHANGED <<stream, reader, both, written>>
    BY <1>9 DEF SendRefuse, c
  <2>3. SessionType' /\ user' \in [Refs -> UserAt]
    BY <1>1, <2>1, <2>2, WritesType
  <2> QED
    BY <2>2, <2>3 DEF StreamType, stream
<1> QED
  BY <1>2, <1>3, <1>4, <1>5, <1>6, <1>7, <1>8, <1>9 DEF Opening

\* A stream's reset, or nothing for one that is dead, keeps the types.
LEMMA ResetType ==
  ASSUME MuxType, NEW x \in Refs, NEW a \in UserAt, NEW b \in UserAt, Reset(x, a, b)
  PROVE  /\ table' \in [Ends -> SUBSET Ids] /\ user' \in [Refs -> UserAt]
         /\ dead' \in [Refs -> BOOLEAN] /\ queue' \in [Refs -> Seq(Nat)] /\ notify' \in [Refs -> BOOLEAN]
         /\ UNCHANGED <<peerClosed, writeClosed>>
<1> USE DEF MuxType
<1>1. CASE dead[x]
  BY <1>1 DEF Reset, Goes, SessionType, StreamType, stream
<1>2. CASE ~dead[x]
  <2>1. Remove(x[1], x[2]) /\ MarkDead(x) /\ Goes(x, a)
    BY <1>2 DEF Reset
  <2>2. table' \in [Ends -> SUBSET Ids]
    BY <2>1 DEF Remove, SessionType
  <2>3. user' \in [Refs -> UserAt]
    BY <2>1 DEF Goes, StreamType
  <2> QED
    BY <2>1, <2>2, <2>3, MarkDeadType
<1> QED
  BY <1>1, <1>2

\* Relay keeps the types.
LEMMA RelayTypeStep ==
  ASSUME MuxType, NEW x \in Refs, Relay(x)
  PROVE  MuxType'
<1> USE DEF MuxType
<1>1. x[1] \in Ends /\ x[2] \in Ids
  BY RefParts
<1>2. CASE WriteBegins(x)
  <2>1. user' \in [Refs -> UserAt]
    BY <1>2 DEF WriteBegins, Goes, StreamType, UserAt
  <2> QED
    BY <1>2, <2>1 DEF WriteBegins, SessionType, StreamType, session, conn, stream
<1>3. CASE SendData(x)
  <2> DEFINE f == [type |-> "DATA", id |-> x[2], n |-> written[x] + 1]
  <2>1. written[x] + 1 \in Nat
    BY DEF StreamType
  <2>2. f \in Frame /\ "copy" \in UserAt /\ "failed" \in UserAt
    BY <1>1, <2>1 DEF Frame, UserAt
  <2>3. Writes(x, f, "copy", "failed") /\ UNCHANGED <<stream, reader, both>>
        /\ written' = [written EXCEPT ![x] = IF user'[x] = "copy" THEN @ + 1 ELSE @]
    BY <1>3 DEF SendData
  <2>4. SessionType' /\ user' \in [Refs -> UserAt]
    BY <2>2, <2>3, WritesType
  <2> QED
    BY <2>1, <2>3, <2>4 DEF StreamType, stream
<1>4. CASE CloseWrite(x)
  <2>1. user' \in [Refs -> UserAt]
    BY <1>4 DEF CloseWrite, Goes, StreamType, UserAt
  <2>2. writeClosed' \in [Refs -> BOOLEAN] /\ both' \in [Refs -> BOOLEAN]
    BY <1>4 DEF CloseWrite, StreamType
  <2> QED
    BY <1>4, <2>1, <2>2 DEF CloseWrite, SessionType, StreamType, session, conn
<1>5. CASE SendClose(x)
  <2>1. F("CLOSE", x[2]) \in Frame
    BY <1>1, FrameType
  <2>2. wire' \in [Ends -> Seq(Frame)]
    BY <1>1, <1>5, <2>1, SendType DEF SendClose, SessionType
  <2>3. err' \in [Ends -> BOOLEAN] /\ failing' \in [Ends -> SUBSET Ids] /\ table' \in [Ends -> SUBSET Ids]
    <3>1. CASE Fail(x[1])
      BY <1>1, <3>1, FailType
    <3>2. CASE Remove(x[1], x[2]) /\ UNCHANGED <<err, failing>>
      BY <3>2 DEF Remove, SessionType
    <3>3. CASE UNCHANGED <<table, err, failing>>
      BY <3>3 DEF SessionType
    <3> QED
      BY <1>5, <3>1, <3>2, <3>3 DEF SendClose
  <2>4. user' \in [Refs -> UserAt]
    BY <1>5 DEF SendClose, Goes, StreamType, UserAt
  <2> QED
    BY <1>5, <2>2, <2>3, <2>4 DEF SendClose, SessionType, StreamType, stream
<1>6. CASE LocalFails(x)
  <2>1. "reset" \in UserAt /\ "drain" \in UserAt
    BY DEF UserAt
  <2> QED
    BY <1>6, <2>1, ResetType DEF LocalFails, SessionType, StreamType, session
<1>7. CASE SendReset(x)
  <2>1. F("RESET", x[2]) \in Frame /\ "drain" \in UserAt /\ "done" \in UserAt
    BY <1>1, FrameType DEF UserAt
  <2>2. SessionType' /\ user' \in [Refs -> UserAt]
    BY <1>7, <2>1, WritesType DEF SendReset
  <2> QED
    BY <1>7, <2>2 DEF SendReset, StreamType, stream
<1>8. CASE RelayEnds(x)
  <2>1. "abort" \in UserAt /\ "done" \in UserAt
    BY DEF UserAt
  <2>2. /\ table' \in [Ends -> SUBSET Ids] /\ user' \in [Refs -> UserAt]
        /\ dead' \in [Refs -> BOOLEAN] /\ queue' \in [Refs -> Seq(Nat)] /\ notify' \in [Refs -> BOOLEAN]
        /\ UNCHANGED <<peerClosed, writeClosed>>
    <3>1. CASE peerClosed[x] \/ dead[x]
      <4>1. Remove(x[1], x[2]) /\ MarkDead(x) /\ Goes(x, "done")
        BY <1>8, <3>1 DEF RelayEnds, CloseStream
      <4>2. table' \in [Ends -> SUBSET Ids]
        BY <4>1 DEF Remove, SessionType
      <4>3. user' \in [Refs -> UserAt]
        BY <2>1, <4>1 DEF Goes, StreamType
      <4> QED
        BY <4>1, <4>2, <4>3, MarkDeadType
    <3>2. CASE ~(peerClosed[x] \/ dead[x])
      BY <1>8, <2>1, <3>2, ResetType DEF RelayEnds, CloseStream
    <3> QED
      BY <3>1, <3>2
  <2> QED
    BY <1>8, <2>2 DEF RelayEnds, CloseStream, SessionType, StreamType, session
<1>9. CASE Read(x)
  <2>1. queue[x] \in Seq(Nat)
    BY DEF StreamType
  <2>2. queue' \in [Refs -> Seq(Nat)]
    <3>1. CASE queue[x] # <<>> /\ queue' = [queue EXCEPT ![x] = Tail(@)]
      <4>1. Tail(queue[x]) \in Seq(Nat)
        BY <2>1, <3>1
      <4> QED
        BY <3>1, <4>1 DEF StreamType
    <3> QED
      BY <1>9, <3>1 DEF Read, StreamType
  <2>3. reader' \in [Refs -> {"off", "read", "wait", "eof", "error"}]
    BY <1>9 DEF Read, Reads, StreamType
  <2> QED
    BY <1>9, <2>2, <2>3 DEF Read, SessionType, StreamType, session, conn
<1>10. CASE Wakes(x)
  BY <1>10 DEF Wakes, Reads, SessionType, StreamType, session, conn
<1>11. CASE ReaderFails(x)
  BY <1>11 DEF ReaderFails, Reads, SessionType, StreamType, session, conn, stream
<1> QED
  BY <1>2, <1>3, <1>4, <1>5, <1>6, <1>7, <1>8, <1>9, <1>10, <1>11 DEF Relay

\* Every step keeps the types.
LEMMA MuxTypeStep ==
  ASSUME MuxType, WireSound, [Next]_vars
  PROVE  MuxType'
<1>1. CASE Open \/ Accept
  <2>1. Ids # {}
    <3>1. CASE Open
      <4>1. nextID + 1 \in Ids
        BY <3>1, MuxAssumption DEF Open, Ids, MuxType, SessionType
      <4> QED
        BY <4>1
    <3>2. CASE Accept
      <4>1. Head(accept) \in Ids
        BY <3>2 DEF Accept, MuxType, SessionType
      <4> QED
        BY <4>1
    <3> QED
      BY <1>1, <3>1, <3>2
  <2> QED
    BY <1>1, <2>1, OpeningTypeStep
<1>2. CASE Lose
  BY <1>2 DEF Lose, MuxType, SessionType, StreamType, conn, stream, local
<1>3. CASE UNCHANGED vars
  BY <1>3 DEF vars, MuxType, SessionType, StreamType, session, conn, stream, local
<1> QED
  BY <1>1, <1>2, <1>3, SessionTypeStep, OpeningTypeStep, RelayTypeStep DEF Next

-----------------------------------------------------------------------------
(* A reader that waits. *)

\* x is not left to wait for what is there.
Woken(x) ==
  reader[x] = "wait" /\ (queue[x] # <<>> \/ dead[x] \/ peerClosed[x]) => notify[x] \/ done[x[1]]

\* Marking a stream dead wakes its reader, unless it was dead before.
LEMMA MarkDeadWakes ==
  ASSUME MuxType, NEW y \in Refs, MarkDead(y), NEW x \in Refs, Woken(x), reader'[x] = reader[x], done' = done
  PROVE  Woken(x)'
<1>1. CASE x # y
  <2>1. queue'[x] = queue[x] /\ dead'[x] = dead[x] /\ notify'[x] = notify[x] /\ peerClosed' = peerClosed
    BY <1>1 DEF MarkDead, MuxType, StreamType
  <2> QED
    BY <2>1 DEF Woken
<1>2. CASE x = y
  <2>1. notify'[x] = (notify[x] \/ ~dead[x])
    BY <1>2 DEF MarkDead, MuxType, StreamType
  <2>2. dead[x] => Woken(x) /\ (reader[x] = "wait" => notify[x] \/ done[x[1]])
    BY DEF Woken
  <2> QED
    BY <2>1, <2>2 DEF Woken
<1> QED
  BY <1>1, <1>2

\* What a reader that waits waits for comes with a signal.
LEMMA WokenStep ==
  ASSUME MuxType, WireSound, ReaderWoken, [Next]_vars
  PROVE  ReaderWoken'
<1> USE DEF MuxType
<1> SUFFICES ASSUME NEW x \in Refs PROVE Woken(x)'
  BY DEF ReaderWoken, Woken
<1>1. Woken(x)
  BY DEF ReaderWoken, Woken
<1>2. CASE UNCHANGED <<queue, dead, peerClosed, notify, done>> /\ (reader'[x] = "wait" => reader[x] = "wait")
  BY <1>1, <1>2 DEF Woken
<1>3. ASSUME NEW y \in Refs, MarkDead(y), UNCHANGED <<reader, done>> PROVE Woken(x)'
  BY <1>1, <1>3, MarkDeadWakes
<1>4. ASSUME NEW e \in Ends, FailMarks(e) PROVE Woken(x)'
  <2>1. PICK i \in failing[e] : MarkDead(<<e, i>>)
    BY <1>4 DEF FailMarks
  <2>2. <<e, i>> \in Refs
    BY <2>1, RefParts DEF SessionType
  <2> QED
    BY <1>3, <1>4, <2>1, <2>2 DEF FailMarks, local
<1>5. ASSUME NEW e \in Ends, FailEnds(e) PROVE Woken(x)'
  <2>1. UNCHANGED <<queue, dead, peerClosed, notify, reader>> /\ (done[x[1]] => done'[x[1]])
    BY <1>5, RefParts DEF FailEnds, stream, local, SessionType
  <2> QED
    BY <1>1, <2>1 DEF Woken
<1>6. ASSUME NEW e \in Ends, Close(e) \/ ReadFails(e) \/ LoopWrites(e) PROVE Woken(x)'
  BY <1>2, <1>6 DEF Close, ReadFails, LoopWrites, stream, local
<1>7. ASSUME NEW e \in Ends, ReadFrame(e) PROVE Woken(x)'
  <2> DEFINE o == Other(e)
             f == Head(wire[o])
  <2>1. /\ o \in Ends /\ wire[o] \in Seq(Frame) /\ wire[o] # <<>> /\ UNCHANGED <<done, reader>>
    BY <1>7, OtherEnd DEF ReadFrame, SessionType
  <2>2. f \in Frame
    BY <2>1
  <2>3. f.type = "OPEN" => f.id \in Ids
    <3>1. wire[o][1] = f /\ 1 \in 1 .. Len(wire[o])
      BY <2>1 DEF f
    <3>2. o \in {"gateway", "connector"}
      BY <2>1 DEF Ends
    <3> QED
      BY <3>1, <3>2 DEF WireSound, Ends
  <2>4. /\ f.id # 0 => f.id \in Ids /\ <<e, f.id>> \in Refs
        /\ f.type = "OPEN" => <<"connector", f.id>> \in Refs
    BY <2>2, <2>3, RefParts DEF Frame, Ends
  <2> HIDE DEF f, o
  <2>5. CASE f.type = "OPEN" /\ ReadOpen(f.id)
    <3>1. UNCHANGED stream \/ MarkDead(<<"connector", f.id>>)
      BY <2>5 DEF ReadOpen
    <3> QED
      BY <1>2, <1>3, <2>1, <2>4, <2>5, <3>1 DEF stream
  <2>6. CASE f.id # 0 /\ (IF f.id \in table[e] THEN ReadStream(e, f) ELSE UNCHANGED <<table, stream, loop, answer>>)
    <3> DEFINE y == <<e, f.id>>
    <3>1. y \in Refs
      BY <2>4, <2>6
    <3>2. CASE UNCHANGED stream
      BY <1>2, <2>1, <3>2 DEF stream
    <3>3. CASE ReadAnswer(e, f)
      BY <1>2, <2>1, <3>3 DEF ReadAnswer
    <3>4. CASE MarkDead(y)
      BY <1>3, <2>1, <3>1, <3>4
    <3>5. CASE /\ notify' = [notify EXCEPT ![y] = TRUE] /\ dead' = dead
               /\ \/ queue' = [queue EXCEPT ![y] = Append(@, f.n)] /\ peerClosed' = peerClosed
                  \/ peerClosed' = [peerClosed EXCEPT ![y] = TRUE] /\ queue' = queue
      <4> HIDE DEF y
      <4>1. CASE x = y
        <5>1. notify'[x] = TRUE
          BY <3>1, <3>5, <4>1 DEF StreamType
        <5> QED
          BY <5>1 DEF Woken
      <4>2. CASE x # y
        <5>1. queue'[x] = queue[x] /\ dead'[x] = dead[x] /\ notify'[x] = notify[x] /\ peerClosed'[x] = peerClosed[x]
          BY <3>5, <4>2 DEF StreamType
        <5> QED
          BY <1>1, <2>1, <5>1 DEF Woken
      <4> QED
        BY <4>1, <4>2
    <3>6. Deliver(e, f) =>
            \/ UNCHANGED stream \/ MarkDead(y)
            \/ /\ queue' = [queue EXCEPT ![y] = Append(@, f.n)]
               /\ notify' = [notify EXCEPT ![y] = TRUE] /\ UNCHANGED <<peerClosed, dead>>
      BY DEF Deliver
    <3>7. PeerClose(e, f.id) =>
            /\ peerClosed' = [peerClosed EXCEPT ![y] = TRUE] /\ notify' = [notify EXCEPT ![y] = TRUE]
            /\ UNCHANGED <<queue, dead>>
      BY DEF PeerClose
    <3> HIDE DEF y
    <3>8. \/ UNCHANGED stream \/ ReadAnswer(e, f) \/ MarkDead(y) \/ Deliver(e, f) \/ PeerClose(e, f.id)
      BY <2>6 DEF ReadStream, y
    <3> QED
      BY <3>2, <3>3, <3>4, <3>5, <3>6, <3>7, <3>8
  <2>7. CASE UNCHANGED stream
    BY <1>2, <2>1, <2>7 DEF stream
  <2> QED
    BY <1>7, <2>5, <2>6, <2>7 DEF ReadFrame, f, o
<1>8. CASE Open \/ Accept \/ Lose
  BY <1>2, <1>8 DEF Open, Accept, Lose, session, stream, local
<1>9. ASSUME NEW i \in Ids, SendOpen(i) \/ SendRefuse(i) PROVE Woken(x)'
  BY <1>2, <1>9 DEF SendOpen, SendRefuse, Writes, stream
<1>10. ASSUME NEW i \in Ids, OpenReturns(i) PROVE Woken(x)'
  <2>1. reader'[x] = "wait" => reader[x] = "wait"
    BY <1>10 DEF OpenReturns, StreamType
  <2> QED
    BY <1>2, <1>10, <2>1 DEF OpenReturns, session, stream
<1>11. ASSUME NEW i \in Ids, AcceptStream(i) PROVE Woken(x)'
  <2>1. reader'[x] = "wait" => reader[x] = "wait"
    BY <1>11 DEF AcceptStream, StreamType
  <2> QED
    BY <1>2, <1>11, <2>1 DEF AcceptStream, Writes, stream
<1>12. ASSUME NEW i \in Ids, OpenCancelled(i) \/ RefuseStream(i) PROVE Woken(x)'
  <2>1. <<"gateway", i>> \in Refs /\ <<"connector", i>> \in Refs
    BY RefParts DEF Ends
  <2>2. UNCHANGED <<reader, done>> /\ (UNCHANGED stream \/ \E y \in Refs : MarkDead(y))
    BY <1>12, <2>1 DEF OpenCancelled, RefuseStream, Reset, session
  <2> QED
    BY <1>2, <1>3, <2>2 DEF stream
<1>13. ASSUME NEW y \in Refs, \/ WriteBegins(y) \/ SendData(y) \/ CloseWrite(y) \/ SendClose(y) \/ SendReset(y)
       PROVE  Woken(x)'
  BY <1>2, <1>13 DEF WriteBegins, SendData, CloseWrite, SendClose, SendReset, Writes, session, stream
<1>14. ASSUME NEW y \in Refs, LocalFails(y) \/ RelayEnds(y) PROVE Woken(x)'
  <2>1. UNCHANGED <<reader, done>> /\ (UNCHANGED stream \/ MarkDead(y))
    BY <1>14 DEF LocalFails, RelayEnds, CloseStream, Reset, session
  <2> QED
    BY <1>2, <1>3, <2>1 DEF stream
<1>15. ASSUME NEW y \in Refs, Read(y) PROVE Woken(x)'
  <2>1. UNCHANGED <<dead, peerClosed, notify, done>>
    BY <1>15 DEF Read, session
  <2>2. CASE x # y
    <3>1. queue'[x] = queue[x] /\ reader'[x] = reader[x]
      BY <1>15, <2>2 DEF Read, Reads, StreamType
    <3> QED
      BY <1>1, <2>1, <3>1 DEF Woken
  <2>3. CASE x = y
    <3>1. CASE queue[x] # <<>> /\ UNCHANGED reader
      BY <1>15, <2>3, <3>1 DEF Read, Woken
    <3>2. CASE queue[x] = <<>> /\ Reads(x, IF dead[x] THEN "error" ELSE IF peerClosed[x] THEN "eof" ELSE "wait")
               /\ UNCHANGED queue
      <4>1. reader'[x] = "wait" => ~dead[x] /\ ~peerClosed[x]
        BY <3>2 DEF Reads, StreamType
      <4> QED
        BY <2>1, <3>2, <4>1 DEF Woken
    <3> QED
      BY <1>15, <2>3, <3>1, <3>2 DEF Read
  <2> QED
    BY <2>2, <2>3
<1>16. ASSUME NEW y \in Refs, Wakes(y) PROVE Woken(x)'
  <2>1. UNCHANGED <<dead, peerClosed, queue, done>> /\ reader' = [reader EXCEPT ![y] = "read"]
    BY <1>16 DEF Wakes, Reads, session
  <2>2. CASE x = y
    <3>1. reader'[x] = "read"
      BY <2>1, <2>2 DEF StreamType
    <3> QED
      BY <3>1 DEF Woken
  <2>3. CASE x # y
    <3>1. reader'[x] = reader[x] /\ notify'[x] = notify[x]
      BY <1>16, <2>1, <2>3 DEF Wakes, StreamType
    <3> QED
      BY <1>1, <2>1, <3>1 DEF Woken
  <2> QED
    BY <2>2, <2>3
<1>17. ASSUME NEW y \in Refs, ReaderFails(y) PROVE Woken(x)'
  <2>1. reader'[x] = "wait" => reader[x] = "wait"
    BY <1>17 DEF ReaderFails, Reads, StreamType
  <2> QED
    BY <1>2, <1>17, <2>1 DEF ReaderFails, session, stream
<1>18. CASE UNCHANGED vars
  BY <1>2, <1>18 DEF vars, session, stream, local
<1>19. ASSUME NEW y \in Refs, Relay(y) PROVE Woken(x)'
  BY <1>13, <1>14, <1>15, <1>16, <1>17, <1>19 DEF Relay
<1>20. ASSUME NEW i \in Ids, Opening(i) PROVE Woken(x)'
  BY <1>9, <1>10, <1>11, <1>12, <1>20 DEF Opening
<1>21. ASSUME NEW e \in Ends, Session(e) PROVE Woken(x)'
  BY <1>4, <1>5, <1>6, <1>7, <1>21 DEF Session
<1> QED
  BY <1>8, <1>18, <1>19, <1>20, <1>21 DEF Next

-----------------------------------------------------------------------------
(* What is left of a stream. *)

\* The connector knows nothing of the stream yet.
Untaken(i) ==
  LET x == <<"connector", i>> IN
  /\ user[x] = "none" /\ ~dead[x] /\ ~peerClosed[x] /\ ~writeClosed[x]
  /\ i \notin table["connector"] /\ i \notin failing["connector"]

\* Its OPEN is on the way, or still to be sent.
Sent(i) ==
  \E k \in 1 .. Len(wire["gateway"]) : wire["gateway"][k].type = "OPEN" /\ wire["gateway"][k].id = i
Unsent(i) == user[<<"gateway", i>>] \in {"none", "open"}

\* A stream is opened once: the connector takes an OPEN of a stream it knows
\* nothing of.
OpenedOnce ==
  /\ WireSound
  /\ \A i \in Ids : Sent(i) => ~Unsent(i)
  /\ \A i \in Ids : Sent(i) \/ Unsent(i) => Untaken(i)

\* The gateway's streams are those it has numbered.
Numbered ==
  \A i \in Ids :
    /\ i > nextID => user[<<"gateway", i>>] = "none"
    /\ user[<<"gateway", i>>] = "none" =>
         ~dead[<<"gateway", i>>] /\ i \notin table["gateway"] /\ i \notin failing["gateway"]

\* An OPEN in the backlog is there once, and nobody has the stream yet.
Waiting ==
  \A k \in 1 .. Len(accept) :
    /\ user[<<"connector", accept[k]>>] = "queued"
    /\ \A l \in 1 .. Len(accept) : accept[l] = accept[k] => l = k

\* Only a user on its way out has closed its side; CloseWrite saw the other side
\* closed only if it was.
Closing(x) ==
  /\ writeClosed[x] => user[x] \in {"close", "drain", "abort", "done"}
  /\ user[x] = "close" => writeClosed[x] /\ (both[x] => peerClosed[x])

\* The user's part ends, or only its RESET or REFUSE is still to be written.
Through == {"abort", "reset", "refuse", "done"}

\* What is in a table of a session that has not failed: nothing dead, nothing its
\* user is through with, and what is closed both ways only while the user that
\* closed it second is about to remove it.
Listed(x) ==
  ~err[x[1]] /\ x[2] \in table[x[1]] =>
    /\ ~dead[x] /\ user[x] \notin Through
    /\ peerClosed[x] /\ writeClosed[x] => user[x] = "close" /\ both[x]

\* A stream in use at the gateway that nothing has ended is in the table, or is one
\* that fail has yet to mark.
Live(x) == user[x] \notin {"none", "done"} /\ ~dead[x] /\ ~(peerClosed[x] /\ writeClosed[x])
Held(x) == x[1] = "gateway" /\ Live(x) => x[2] \in (IF err[x[1]] THEN failing[x[1]] ELSE table[x[1]])

Each(x) == Closing(x) /\ Listed(x) /\ Held(x)

\* A session that has ended has failed, and marked every stream; one that has not
\* failed has none to mark.
EndedMarked == \A e \in Ends : (done[e] => err[e] /\ failing[e] = {}) /\ (~err[e] => failing[e] = {})

LeftInv == OpenedOnce /\ Numbered /\ Waiting /\ (\A x \in Refs : Each(x)) /\ EndedMarked

IInv == MuxType /\ ReaderWoken /\ LeftInv

\* What is read off the invariant.
LEMMA LeftMeansNoneLeft ==
  ASSUME MuxType, LeftInv
  PROVE  NoneLeft
<1>1. Forgotten
  <2> SUFFICES ASSUME NEW x \in Refs, ~err[x[1]], x[2] \in table[x[1]]
               PROVE  user[x] # "done" /\ (peerClosed[x] /\ writeClosed[x] => user[x] = "close")
    BY DEF Forgotten
  <2> QED
    BY DEF LeftInv, Each, Listed, Through
<1>2. OpenerStreamsFail
  <2> SUFFICES ASSUME done["gateway"], NEW i \in Ids
               PROVE  LET x == <<"gateway", i>> IN
                      user[x] \in {"none", "done"} \/ dead[x] \/ (peerClosed[x] /\ writeClosed[x])
    BY DEF OpenerStreamsFail
  <2> DEFINE x == <<"gateway", i>>
  <2>1. x \in Refs /\ x[1] = "gateway" /\ x[2] = i /\ "gateway" \in Ends
    BY RefParts DEF Ends
  <2> HIDE DEF x
  <2>2. err["gateway"] /\ failing["gateway"] = {}
    BY <2>1 DEF LeftInv, EndedMarked
  <2>3. ~Live(x)
    BY <2>1, <2>2 DEF LeftInv, Each, Held
  <2> QED
    BY <2>3 DEF Live, x
<1> QED
  BY <1>1, <1>2 DEF NoneLeft

\* A frame that is no OPEN changes nothing of the OPENs on the way.
LEMMA SendKeeps ==
  ASSUME SessionType, WireSound, NEW e \in Ends, NEW f \in Frame, f.type # "OPEN",
         Send(e, f) \/ UNCHANGED wire, \A d \in Ends : answer'[d].type # "OPEN"
  PROVE  WireSound' /\ \A i \in Ids : Sent(i)' => Sent(i)
<1>1. CASE UNCHANGED wire
  BY <1>1 DEF WireSound, Sent
<1>2. CASE wire' = [wire EXCEPT ![e] = Append(@, f)]
  <2>1. \A d \in Ends : wire[d] \in Seq(Frame)
    BY DEF SessionType
  <2>2. \A d \in Ends : d # e => wire'[d] = wire[d]
    BY <1>2 DEF SessionType
  <2>3. wire'[e] = Append(wire[e], f)
    BY <1>2 DEF SessionType
  <2>4. /\ Len(wire'[e]) = Len(wire[e]) + 1 /\ Len(wire[e]) \in Nat
        /\ \A k \in 1 .. Len(wire[e]) : wire'[e][k] = wire[e][k]
        /\ wire'[e][Len(wire[e]) + 1] = f
    BY <2>1, <2>3
  <2>5. \A d \in Ends : \A k \in 1 .. Len(wire'[d]) :
          wire'[d][k].type = "OPEN" => k \in 1 .. Len(wire[d]) /\ wire'[d][k] = wire[d][k]
    <3>1. ASSUME NEW d \in Ends, NEW k \in 1 .. Len(wire'[d]), wire'[d][k].type = "OPEN"
          PROVE  k \in 1 .. Len(wire[d]) /\ wire'[d][k] = wire[d][k]
      <4>1. CASE d = e
        BY <2>4, <3>1, <4>1
      <4>2. CASE d # e
        BY <2>2, <3>1, <4>2
      <4> QED
        BY <4>1, <4>2
    <3> QED
      BY <3>1
  <2>6. "gateway" \in Ends /\ "connector" \in Ends
    BY DEF Ends
  <2>7. WireSound'
    BY <2>5, <2>6 DEF WireSound
  <2>8. \A i \in Ids : Sent(i)' => Sent(i)
    BY <2>5, <2>6 DEF Sent
  <2> QED
    BY <2>7, <2>8
<1> QED
  BY <1>1, <1>2 DEF Send

\* Nor does a frame that is read, but for being gone.
LEMMA TailKeeps ==
  ASSUME SessionType, WireSound, NEW o \in Ends, wire[o] # <<>>, wire' = [wire EXCEPT ![o] = Tail(@)],
         \A d \in Ends : answer'[d].type # "OPEN"
  PROVE  /\ WireSound' /\ \A i \in Ids : Sent(i)' => Sent(i)
         /\ \A i \in Ids :
              o = "gateway" /\ Head(wire[o]).type = "OPEN" /\ Head(wire[o]).id = i => ~Sent(i)'
<1>1. \A d \in Ends : wire[d] \in Seq(Frame)
  BY DEF SessionType
<1>2. \A d \in Ends : d # o => wire'[d] = wire[d]
  BY DEF SessionType
<1>3. wire'[o] = Tail(wire[o])
  BY DEF SessionType
<1>4. /\ Len(wire[o]) \in Nat /\ Len(wire[o]) >= 1 /\ Len(wire'[o]) = Len(wire[o]) - 1
      /\ \A k \in 1 .. Len(wire'[o]) : wire'[o][k] = wire[o][k + 1]
      /\ Head(wire[o]) = wire[o][1]
  <2> DEFINE q == wire[o]
  <2>1. q \in Seq(Frame) /\ q # <<>> /\ wire'[o] = Tail(q)
    BY <1>1, <1>3
  <2> HIDE DEF q
  <2>2. Len(q) \in Nat /\ Len(q) >= 1 /\ Head(q) = q[1]
    BY <2>1
  <2>3. Len(Tail(q)) = Len(q) - 1 /\ \A k \in 1 .. Len(Tail(q)) : Tail(q)[k] = q[k + 1]
    BY <2>1, <2>2
  <2> QED
    BY <2>1, <2>2, <2>3 DEF q
<1>5. "gateway" \in Ends /\ "connector" \in Ends
  BY DEF Ends
<1>6. \A k \in 1 .. Len(wire'[o]) : k + 1 \in 1 .. Len(wire[o]) /\ k + 1 # 1
  BY <1>4
<1>7. CASE o = "gateway"
  <2>1. wire'["connector"] = wire["connector"]
    BY <1>2, <1>5, <1>7
  <2>2. \A k \in 1 .. Len(wire'["gateway"]) :
          wire'["gateway"][k] = wire["gateway"][k + 1] /\ k + 1 \in 1 .. Len(wire["gateway"]) /\ k + 1 # 1
    BY <1>4, <1>6, <1>7
  <2>3. \A k, l \in 1 .. Len(wire'["gateway"]) : k + 1 = l + 1 => k = l
    BY <1>4, <1>7
  <2>4. \A k \in 1 .. Len(wire'["gateway"]) :
          wire'["gateway"][k].type = "OPEN" =>
            /\ wire'["gateway"][k].id \in Ids
            /\ \A l \in 1 .. Len(wire'["gateway"]) :
                 wire'["gateway"][l].type = "OPEN" /\ wire'["gateway"][l].id = wire'["gateway"][k].id => l = k
    BY <2>2, <2>3 DEF WireSound
  <2>5. WireSound'
    BY <2>1, <2>4 DEF WireSound
  <2>6. \A i \in Ids : Sent(i)' => Sent(i)
    BY <2>2 DEF Sent
  <2>7. ASSUME NEW i \in Ids, Head(wire[o]).type = "OPEN", Head(wire[o]).id = i, Sent(i)' PROVE FALSE
    <3>1. PICK k \in 1 .. Len(wire'["gateway"]) :
            wire'["gateway"][k].type = "OPEN" /\ wire'["gateway"][k].id = i
      BY <2>7 DEF Sent
    <3>2. 1 \in 1 .. Len(wire["gateway"]) /\ wire["gateway"][1] = Head(wire[o])
      BY <1>4, <1>7
    <3>3. /\ wire["gateway"][k + 1].type = "OPEN" /\ wire["gateway"][k + 1].id = i
          /\ k + 1 \in 1 .. Len(wire["gateway"]) /\ k + 1 # 1
      BY <2>2, <3>1
    <3> QED
      BY <2>7, <3>2, <3>3 DEF WireSound
  <2> QED
    BY <2>5, <2>6, <2>7
<1>8. CASE o = "connector"
  <2>1. wire'["gateway"] = wire["gateway"]
    BY <1>2, <1>5, <1>8
  <2>2. \A k \in 1 .. Len(wire'["connector"]) : wire'["connector"][k].type # "OPEN"
    BY <1>4, <1>6, <1>8 DEF WireSound
  <2> QED
    BY <1>8, <2>1, <2>2 DEF WireSound, Sent
<1> QED
  BY <1>7, <1>8 DEF Ends

\* What a session's end takes from the tables, it marks.
TablesAt(x) ==
  \/ UNCHANGED <<err, failing, table>>
  \/ Remove(x[1], x[2]) /\ UNCHANGED <<err, failing>>
  \/ failing' = [failing EXCEPT ![x[1]] = @ \ {x[2]}] /\ UNCHANGED <<err, table>>
  \/ Fail(x[1])

\* Nothing comes into a table or under fail's hand that was in neither, a session that
\* failed stays so, and of another stream its place is kept.
LEMMA TablesShrink ==
  ASSUME SessionType, NEW x \in Refs, TablesAt(x)
  PROVE  /\ \A e \in Ends, i \in Ids :
              /\ i \in table'[e] => i \in table[e] /\ (err'[e] => err[e])
              /\ i \in failing'[e] => i \in failing[e] \/ i \in table[e]
              /\ err[e] => err'[e]
              /\ <<e, i>> # x /\ i \in (IF err[e] THEN failing[e] ELSE table[e]) =>
                   i \in (IF err'[e] THEN failing'[e] ELSE table'[e])
         /\ \A e \in Ends : (err[e] \/ ~err'[e]) /\ failing[e] = {} => failing'[e] = {}
<1>1. x[1] \in Ends /\ x[2] \in Ids /\ x = <<x[1], x[2]>>
  BY RefParts
<1>2. CASE UNCHANGED <<err, failing, table>>
  BY <1>2
<1>3. CASE Remove(x[1], x[2]) /\ UNCHANGED <<err, failing>>
  <2>1. \A e \in Ends : table'[e] = IF e = x[1] THEN table[e] \ {x[2]} ELSE table[e]
    BY <1>1, <1>3 DEF Remove, SessionType
  <2> QED
    BY <1>1, <1>3, <2>1
<1>4. CASE failing' = [failing EXCEPT ![x[1]] = @ \ {x[2]}] /\ UNCHANGED <<err, table>>
  <2>1. \A e \in Ends : failing'[e] = IF e = x[1] THEN failing[e] \ {x[2]} ELSE failing[e]
    BY <1>1, <1>4 DEF SessionType
  <2> QED
    BY <1>1, <1>4, <2>1
<1>5. CASE Fail(x[1])
  <2>1. CASE err[x[1]]
    BY <1>2, <1>5, <2>1 DEF Fail
  <2>2. CASE ~err[x[1]]
    <3>1. /\ \A e \in Ends : e # x[1] => err'[e] = err[e] /\ failing'[e] = failing[e] /\ table'[e] = table[e]
          /\ err'[x[1]] /\ failing'[x[1]] = table[x[1]] /\ table'[x[1]] = {}
      BY <1>1, <1>5, <2>2 DEF Fail, SessionType
    <3> QED
      BY <1>1, <2>2, <3>1
  <2> QED
    BY <2>1, <2>2
<1> QED
  BY <1>2, <1>3, <1>4, <1>5 DEF TablesAt

\* A step of one stream: the others keep what holds of each.
LEMMA PointStep ==
  ASSUME MuxType, LeftInv, NEW x \in Refs,
         \A y \in Refs : y # x =>
           /\ user'[y] = user[y] /\ dead'[y] = dead[y] /\ peerClosed'[y] = peerClosed[y]
           /\ writeClosed'[y] = writeClosed[y] /\ both'[y] = both[y],
         TablesAt(x), UNCHANGED <<done, accept, nextID>>,
         WireSound', \A i \in Ids : Sent(i)' => Sent(i),
         x[1] = "gateway" => user[x] # "none" /\ user'[x] # "none" /\ (user'[x] = "open" => user[x] = "open"),
         x[1] = "connector" => ~Sent(x[2])' /\ ~Unsent(x[2]),
         user[x] = "queued" => user'[x] = "queued",
         Each(x)'
  PROVE  LeftInv'
<1> USE DEF MuxType
<1>1. /\ \A e \in Ends, i \in Ids :
              /\ i \in table'[e] => i \in table[e] /\ (err'[e] => err[e])
              /\ i \in failing'[e] => i \in failing[e] \/ i \in table[e]
              /\ err[e] => err'[e]
              /\ <<e, i>> # x /\ i \in (IF err[e] THEN failing[e] ELSE table[e]) =>
                   i \in (IF err'[e] THEN failing'[e] ELSE table'[e])
      /\ \A e \in Ends : (err[e] \/ ~err'[e]) /\ failing[e] = {} => failing'[e] = {}
  BY TablesShrink
<1>2. /\ x[1] \in Ends /\ x[2] \in Ids /\ x = <<x[1], x[2]>> /\ "gateway" \in Ends /\ "connector" \in Ends
      /\ \A i \in Ids : <<"gateway", i>> \in Refs /\ <<"connector", i>> \in Refs
      /\ \A i \in Ids : <<"gateway", i>> = x => x[1] = "gateway" /\ x[2] = i
      /\ \A i \in Ids : <<"connector", i>> = x => x[1] = "connector" /\ x[2] = i
  BY RefParts DEF Ends
<1>3. ASSUME NEW i \in Ids, Unsent(i)' PROVE Unsent(i)
  <2>1. CASE <<"gateway", i>> = x
    BY <1>2, <1>3, <2>1 DEF Unsent
  <2>2. CASE <<"gateway", i>> # x
    BY <1>2, <1>3, <2>2 DEF Unsent
  <2> QED
    BY <2>1, <2>2
<1>4. ASSUME NEW i \in Ids, Sent(i)' \/ Unsent(i)' PROVE Untaken(i)'
  <2>1. Untaken(i)
    BY <1>3, <1>4 DEF LeftInv, OpenedOnce
  <2>2. <<"connector", i>> # x
    BY <1>2, <1>3, <1>4
  <2>3. i \notin table'["connector"] /\ i \notin failing'["connector"]
    BY <1>1, <1>2, <2>1 DEF Untaken
  <2> QED
    BY <1>2, <2>1, <2>2, <2>3 DEF Untaken
<1>5. OpenedOnce'
  BY <1>3, <1>4 DEF OpenedOnce, LeftInv
<1>6. Numbered'
  <2> SUFFICES ASSUME NEW i \in Ids
               PROVE  /\ i > nextID => user'[<<"gateway", i>>] = "none"
                      /\ user'[<<"gateway", i>>] = "none" =>
                           ~dead'[<<"gateway", i>>] /\ i \notin table'["gateway"] /\ i \notin failing'["gateway"]
    BY DEF Numbered
  <2>1. CASE <<"gateway", i>> = x
    BY <1>2, <2>1 DEF LeftInv, Numbered
  <2>2. CASE <<"gateway", i>> # x
    <3>1. /\ user'[<<"gateway", i>>] = user[<<"gateway", i>>] /\ dead'[<<"gateway", i>>] = dead[<<"gateway", i>>]
          /\ nextID' = nextID
      BY <1>2, <2>2
    <3>2. /\ i \in table'["gateway"] => i \in table["gateway"]
          /\ i \in failing'["gateway"] => i \in failing["gateway"] \/ i \in table["gateway"]
      BY <1>1, <1>2
    <3> QED
      BY <3>1, <3>2 DEF LeftInv, Numbered
  <2> QED
    BY <2>1, <2>2
<1>7. Waiting'
  <2> SUFFICES ASSUME NEW k \in 1 .. Len(accept)
               PROVE  user'[<<"connector", accept[k]>>] = "queued"
    BY DEF Waiting, LeftInv
  <2>1. accept[k] \in Ids
    BY DEF SessionType
  <2>2. user[<<"connector", accept[k]>>] = "queued" /\ <<"connector", accept[k]>> \in Refs
    BY <1>2, <2>1 DEF Waiting, LeftInv
  <2>3. CASE <<"connector", accept[k]>> = x
    BY <2>2, <2>3
  <2>4. CASE <<"connector", accept[k]>> # x
    BY <2>2, <2>4
  <2> QED
    BY <2>3, <2>4
<1>8. ASSUME NEW y \in Refs, y # x PROVE Each(y)'
  <2>1. y[1] \in Ends /\ y[2] \in Ids /\ y = <<y[1], y[2]>>
    BY RefParts
  <2>2. Each(y)
    BY DEF LeftInv
  <2>3. Closing(y)'
    BY <1>8, <2>2 DEF Each, Closing
  <2>4. Listed(y)'
    BY <1>1, <1>8, <2>1, <2>2 DEF Each, Listed
  <2>5. Held(y)'
    BY <1>1, <1>8, <2>1, <2>2 DEF Each, Held, Live
  <2> QED
    BY <2>3, <2>4, <2>5 DEF Each
<1>9. EndedMarked'
  <2> SUFFICES ASSUME NEW e \in Ends
               PROVE  (done[e] => err'[e] /\ failing'[e] = {}) /\ (~err'[e] => failing'[e] = {})
    BY DEF EndedMarked
  <2>1. (done[e] => err[e] /\ failing[e] = {}) /\ (~err[e] => failing[e] = {})
    BY DEF LeftInv, EndedMarked
  <2>2. err[e] => err'[e]
    BY <1>1, <1>2
  <2>3. (err[e] \/ ~err'[e]) /\ failing[e] = {} => failing'[e] = {}
    BY <1>1
  <2> QED
    BY <2>1, <2>2, <2>3
<1> QED
  BY <1>5, <1>6, <1>7, <1>8, <1>9 DEF LeftInv

\* A step of a session that is of no stream in particular.
LEMMA SessionStep ==
  ASSUME MuxType, LeftInv, NEW e \in Ends,
         UNCHANGED <<user, dead, peerClosed, writeClosed, both, accept, nextID>>,
         UNCHANGED <<err, failing, table>> \/ Fail(e),
         done' = done \/ (done' = [done EXCEPT ![e] = TRUE] /\ err[e] /\ failing[e] = {}),
         WireSound', \A i \in Ids : Sent(i)' => Sent(i)
  PROVE  LeftInv'
<1> USE DEF MuxType
<1>1. /\ \A d \in Ends, i \in Ids :
              /\ i \in table'[d] => i \in table[d] /\ (err'[d] => err[d])
              /\ i \in failing'[d] => i \in failing[d] \/ i \in table[d]
              /\ err[d] => err'[d]
              /\ i \in (IF err[d] THEN failing[d] ELSE table[d]) =>
                   i \in (IF err'[d] THEN failing'[d] ELSE table'[d])
      /\ \A d \in Ends : err[d] \/ ~err'[d] => failing'[d] = failing[d]
      /\ \A d \in Ends : err[d] => err'[d]
  <2>1. CASE UNCHANGED <<err, failing, table>> \/ (Fail(e) /\ err[e])
    BY <2>1 DEF Fail
  <2>2. CASE Fail(e) /\ ~err[e]
    <3>1. /\ \A d \in Ends : d # e => err'[d] = err[d] /\ failing'[d] = failing[d] /\ table'[d] = table[d]
          /\ err'[e] /\ failing'[e] = table[e] /\ table'[e] = {}
      BY <2>2 DEF Fail, SessionType
    <3> QED
      BY <2>2, <3>1
  <2> QED
    BY <2>1, <2>2
<1>2. "gateway" \in Ends /\ "connector" \in Ends
  BY DEF Ends
<1>3. OpenedOnce'
  <2>1. ASSUME NEW i \in Ids, Sent(i)' \/ Unsent(i)' PROVE Untaken(i)'
    <3>1. Untaken(i)
      BY <2>1 DEF LeftInv, OpenedOnce, Unsent
    <3> QED
      BY <1>1, <1>2, <3>1 DEF Untaken
  <2> QED
    BY <2>1 DEF LeftInv, OpenedOnce, Unsent
<1>4. Numbered'
  BY <1>1, <1>2 DEF LeftInv, Numbered
<1>5. Waiting'
  BY DEF LeftInv, Waiting
<1>6. ASSUME NEW y \in Refs PROVE Each(y)'
  <2>1. y[1] \in Ends /\ y[2] \in Ids
    BY RefParts
  <2>2. Each(y)
    BY DEF LeftInv
  <2>3. Closing(y)' /\ Listed(y)' /\ Held(y)'
    BY <1>1, <2>1, <2>2 DEF Each, Closing, Listed, Held, Live
  <2> QED
    BY <2>3 DEF Each
<1>7. EndedMarked'
  BY <1>1 DEF LeftInv, EndedMarked, SessionType
<1> QED
  BY <1>3, <1>4, <1>5, <1>6, <1>7 DEF LeftInv

\* A stream the connector knows of has no OPEN to come.
LEMMA NoMoreOpen ==
  ASSUME LeftInv, NEW i \in Ids, ~Untaken(i), \A j \in Ids : Sent(j)' => Sent(j)
  PROVE  ~Sent(i)' /\ ~Unsent(i)
  BY DEF LeftInv, OpenedOnce

\* One in a table is known, to the gateway as well.
LEMMA ListedKnown ==
  ASSUME LeftInv, NEW e \in Ends, NEW i \in Ids, i \in table[e] \/ i \in failing[e],
         \A j \in Ids : Sent(j)' => Sent(j)
  PROVE  /\ e = "gateway" => user[<<"gateway", i>>] # "none"
         /\ e = "connector" => ~Sent(i)' /\ ~Unsent(i)
<1>1. e = "connector" => ~Untaken(i)
  BY DEF Untaken
<1> QED
  BY <1>1, NoMoreOpen DEF LeftInv, Numbered

\* fail's own steps, the Close that begins it, and the read loop's failures.
LEMMA FailingStep ==
  ASSUME MuxType, LeftInv, NEW e \in Ends,
         FailMarks(e) \/ FailEnds(e) \/ Close(e) \/ ReadFails(e) \/ LoopWrites(e)
  PROVE  LeftInv'
<1> USE DEF MuxType
<1>1. WireSound
  BY DEF LeftInv, OpenedOnce
<1>2. CASE FailMarks(e)
  <2>1. PICK i \in failing[e] : MarkDead(<<e, i>>) /\ failing' = [failing EXCEPT ![e] = @ \ {i}]
    BY <1>2 DEF FailMarks
  <2> DEFINE x == <<e, i>>
  <2>2. i \in Ids
    BY <2>1 DEF SessionType
  <2>3. x \in Refs /\ x[1] = e /\ x[2] = i
    BY <2>2, RefParts
  <2>4. UNCHANGED <<lost, err, done, conn, local, peerClosed, writeClosed>> /\ MarkDead(x)
    BY <1>2, <2>1 DEF FailMarks, MarkDead
  <2> HIDE DEF x
  <2>5. dead'[x] = TRUE /\ \A y \in Refs : y # x => dead'[y] = dead[y]
    BY <2>3, <2>4 DEF MarkDead, StreamType
  <2>6. WireSound' /\ \A j \in Ids : Sent(j)' => Sent(j)
    BY <1>1, <2>4 DEF WireSound, Sent, conn
  <2>7. err[e]
    BY <2>1 DEF LeftInv, EndedMarked
  <2>8. TablesAt(x)
    BY <2>1, <2>3, <2>4 DEF TablesAt, conn
  <2>9. Each(x)'
    <3>1. Each(x)
      BY <2>3 DEF LeftInv
    <3> QED
      BY <2>3, <2>4, <2>5, <2>7, <3>1 DEF Each, Closing, Listed, Held, Live, local
  <2>10. /\ e = "gateway" => user[<<"gateway", i>>] # "none"
         /\ e = "connector" => ~Sent(i)' /\ ~Unsent(i)
    BY <2>1, <2>2, <2>6, ListedKnown
  <2> QED
    BY <2>3, <2>4, <2>5, <2>6, <2>8, <2>9, <2>10, PointStep DEF x, conn, local
<1>3. CASE FailEnds(e)
  <2>1. wire' = [wire EXCEPT ![Other(e)] = <<>>] /\ UNCHANGED answer
    BY <1>3 DEF FailEnds
  <2>2. \A d \in Ends : \A k \in 1 .. Len(wire'[d]) : k \in 1 .. Len(wire[d]) /\ wire'[d][k] = wire[d][k]
    <3>1. ASSUME NEW d \in Ends, NEW k \in 1 .. Len(wire'[d])
          PROVE  k \in 1 .. Len(wire[d]) /\ wire'[d][k] = wire[d][k]
      <4>1. CASE d = Other(e)
        <5>1. wire'[d] = <<>>
          BY <2>1, <4>1 DEF SessionType
        <5>2. k \in 1 .. 0
          BY <5>1
        <5> QED
          BY <5>2
      <4>2. CASE d # Other(e)
        BY <2>1, <4>2 DEF SessionType
      <4> QED
        BY <4>1, <4>2
    <3> QED
      BY <3>1
  <2>3. "gateway" \in Ends /\ "connector" \in Ends
    BY DEF Ends
  <2>4. WireSound'
    BY <1>1, <2>1, <2>2, <2>3 DEF WireSound
  <2>5. \A i \in Ids : Sent(i)' => Sent(i)
    BY <2>2, <2>3 DEF Sent
  <2> QED
    BY <1>3, <2>4, <2>5, SessionStep DEF FailEnds, stream, local
<1>4. CASE Close(e)
  <2>1. F("RESET", 0) \in Frame /\ F("RESET", 0).type # "OPEN"
    BY FrameType
  <2>2. (Send(e, F("RESET", 0)) \/ UNCHANGED wire) /\ UNCHANGED answer
    BY <1>4 DEF Close
  <2>3. WireSound' /\ \A i \in Ids : Sent(i)' => Sent(i)
    BY <1>1, <2>1, <2>2, SendKeeps DEF WireSound
  <2> QED
    BY <1>4, <2>3, SessionStep DEF Close, stream, local
<1>5. CASE ReadFails(e)
  <2>1. WireSound' /\ \A i \in Ids : Sent(i)' => Sent(i)
    BY <1>1, <1>5 DEF ReadFails, WireSound, Sent
  <2> QED
    BY <1>5, <2>1, SessionStep DEF ReadFails, stream, local
<1>6. CASE LoopWrites(e)
  <2>1. answer[e] \in Frame /\ answer[e].type # "OPEN"
    BY <1>1 DEF WireSound, SessionType
  <2>2. (Send(e, answer[e]) \/ UNCHANGED wire) /\ UNCHANGED answer
    BY <1>6 DEF LoopWrites
  <2>3. WireSound' /\ \A i \in Ids : Sent(i)' => Sent(i)
    BY <1>1, <2>1, <2>2, SendKeeps DEF WireSound
  <2> QED
    BY <1>6, <2>3, SessionStep DEF LoopWrites, stream, local
<1> QED
  BY <1>2, <1>3, <1>4, <1>5, <1>6

\* A frame of a stream that is in the table: its end, data, or the answer to its OPEN.
LEMMA ReadStreamStep ==
  ASSUME MuxType, LeftInv, NEW e \in Ends, NEW f \in Frame, f.id \in table[e], ReadStream(e, f),
         UNCHANGED <<done, accept, nextID, user, both, err, failing>>,
         WireSound', \A i \in Ids : Sent(i)' => Sent(i)
  PROVE  LeftInv'
<1> USE DEF MuxType
<1> DEFINE x == <<e, f.id>>
<1>1. x \in Refs /\ x[1] = e /\ x[2] = f.id /\ f.id \in Ids
  BY RefParts DEF SessionType
<1>2. /\ e = "gateway" => user[<<"gateway", f.id>>] # "none"
      /\ e = "connector" => ~Sent(f.id)' /\ ~Unsent(f.id)
  BY <1>1, ListedKnown
<1>3. Each(x)
  BY <1>1 DEF LeftInv
<1>4. CASE UNCHANGED <<table, peerClosed, writeClosed, dead>>
  <2>1. Each(x)'
    BY <1>3, <1>4 DEF Each, Closing, Listed, Held, Live
  <2>2. TablesAt(x)
    BY <1>4 DEF TablesAt
  <2> HIDE DEF x
  <2>3. \A y \in Refs : y # x =>
           /\ user'[y] = user[y] /\ dead'[y] = dead[y] /\ peerClosed'[y] = peerClosed[y]
           /\ writeClosed'[y] = writeClosed[y] /\ both'[y] = both[y]
    BY <1>4
  <2>4. x[1] = "gateway" => user[x] # "none" /\ user'[x] # "none" /\ (user'[x] = "open" => user[x] = "open")
    BY <1>1, <1>2 DEF x
  <2>5. x[1] = "connector" => ~Sent(x[2])' /\ ~Unsent(x[2])
    BY <1>1, <1>2
  <2> QED
    BY <1>1, <2>1, <2>2, <2>3, <2>4, <2>5, PointStep
<1>5. CASE Remove(e, f.id) /\ MarkDead(x)
  <2> HIDE DEF x
  <2>1. /\ dead'[x] = TRUE /\ UNCHANGED <<peerClosed, writeClosed>>
        /\ \A y \in Refs : y # x => dead'[y] = dead[y]
    BY <1>1, <1>5 DEF MarkDead, StreamType
  <2>2. f.id \notin table'[e]
    BY <1>1, <1>5 DEF Remove, SessionType
  <2>3. Each(x)'
    BY <1>1, <1>3, <2>1, <2>2 DEF Each, Closing, Listed, Held, Live
  <2>4. TablesAt(x)
    BY <1>1, <1>5 DEF TablesAt
  <2>5. x[1] = "gateway" => user[x] # "none" /\ user'[x] # "none" /\ (user'[x] = "open" => user[x] = "open")
    BY <1>1, <1>2 DEF x
  <2>6. x[1] = "connector" => ~Sent(x[2])' /\ ~Unsent(x[2])
    BY <1>1, <1>2
  <2> QED
    BY <1>1, <2>1, <2>3, <2>4, <2>5, <2>6, PointStep
<1>6. CASE PeerClose(e, f.id)
  <2>1. /\ peerClosed' = [peerClosed EXCEPT ![x] = TRUE] /\ UNCHANGED <<writeClosed, dead>>
        /\ IF writeClosed[x] THEN Remove(e, f.id) ELSE UNCHANGED table
    BY <1>6 DEF PeerClose
  <2> HIDE DEF x
  <2>2. peerClosed'[x] = TRUE /\ \A y \in Refs : y # x => peerClosed'[y] = peerClosed[y]
    BY <1>1, <2>1 DEF StreamType
  <2>3. writeClosed[x] => f.id \notin table'[e]
    BY <1>1, <2>1 DEF Remove, SessionType
  <2>4. ~writeClosed[x] => table' = table
    BY <2>1
  <2>5. Each(x)'
    BY <1>1, <1>3, <2>1, <2>2, <2>3, <2>4 DEF Each, Closing, Listed, Held, Live
  <2>6. TablesAt(x)
    BY <1>1, <2>1 DEF TablesAt
  <2>7. x[1] = "gateway" => user[x] # "none" /\ user'[x] # "none" /\ (user'[x] = "open" => user[x] = "open")
    BY <1>1, <1>2 DEF x
  <2>8. x[1] = "connector" => ~Sent(x[2])' /\ ~Unsent(x[2])
    BY <1>1, <1>2
  <2> QED
    BY <1>1, <2>1, <2>2, <2>5, <2>6, <2>7, <2>8, PointStep
<1>7. CASE ReadAnswer(e, f)
  BY <1>4, <1>7 DEF ReadAnswer
<1>8. CASE Deliver(e, f)
  BY <1>4, <1>5, <1>8 DEF Deliver, stream
<1> QED
  BY <1>5, <1>6, <1>7, <1>8 DEF ReadStream

\* The connector takes an OPEN, or refuses it: the stream is new to it.
LEMMA ReadOpenStep ==
  ASSUME MuxType, LeftInv, NEW i \in Ids, Untaken(i), ReadOpen(i),
         UNCHANGED <<done, nextID, both, err, failing>>,
         WireSound', \A j \in Ids : Sent(j)' => Sent(j), ~Sent(i)', ~Unsent(i)
  PROVE  LeftInv'
<1> USE DEF MuxType
<1> DEFINE x == <<"connector", i>>
<1>1. x \in Refs /\ x[1] = "connector" /\ x[2] = i /\ "connector" \in Ends /\ "gateway" \in Ends
  BY RefParts DEF Ends
<1>2. user[x] = "none" /\ ~dead[x] /\ ~peerClosed[x] /\ ~writeClosed[x] /\ i \notin table["connector"]
  BY DEF Untaken
<1>3. Each(x)
  BY <1>1 DEF LeftInv
<1>4. CASE ~(Len(accept) < AcceptBacklog)
  <2>1. MarkDead(x) /\ UNCHANGED <<table, accept, user>>
    BY <1>4 DEF ReadOpen
  <2> HIDE DEF x
  <2>2. /\ dead'[x] = TRUE /\ UNCHANGED <<peerClosed, writeClosed>>
        /\ \A y \in Refs : y # x => dead'[y] = dead[y]
    BY <1>1, <2>1 DEF MarkDead, StreamType
  <2>3. Each(x)'
    BY <1>1, <1>2, <1>3, <2>1, <2>2 DEF Each, Closing, Listed, Held, Live
  <2>4. TablesAt(x)
    BY <2>1 DEF TablesAt
  <2> QED
    BY <1>1, <1>2, <2>1, <2>2, <2>3, <2>4, PointStep
<1>5. CASE Len(accept) < AcceptBacklog
  <2>1. /\ table' = [table EXCEPT !["connector"] = @ \cup {i}]
        /\ accept' = Append(accept, i)
        /\ user' = [user EXCEPT ![x] = "queued"]
        /\ UNCHANGED <<dead, peerClosed, writeClosed>>
    BY <1>5 DEF ReadOpen, stream
  <2>2. user'[x] = "queued" /\ \A y \in Refs : y # x => user'[y] = user[y]
    BY <1>1, <2>1 DEF StreamType
  <2>3. table'["gateway"] = table["gateway"] /\ table'["connector"] = table["connector"] \cup {i}
    BY <1>1, <2>1 DEF SessionType
  <2>4. /\ \A j \in Ids : <<"gateway", j>> \in Refs /\ <<"gateway", j>> # x /\ <<"connector", j>> \in Refs
        /\ \A j \in Ids : j # i => <<"connector", j>> # x
    BY <1>1, RefParts
  <2>5. \A j \in Ids : Unsent(j)' = Unsent(j)
    BY <2>2, <2>4 DEF Unsent
  <2>6. ASSUME NEW j \in Ids, Sent(j)' \/ Unsent(j)' PROVE Untaken(j)'
    <3>1. j # i /\ Untaken(j)
      BY <2>5, <2>6 DEF LeftInv, OpenedOnce
    <3> QED
      BY <2>1, <2>2, <2>3, <2>4, <3>1 DEF Untaken
  <2>7. OpenedOnce'
    BY <2>5, <2>6 DEF LeftInv, OpenedOnce
  <2>8. Numbered'
    BY <2>1, <2>2, <2>3, <2>4 DEF LeftInv, Numbered
  <2>9. Waiting'
    <3>1. accept \in Seq(Ids) /\ Len(accept) \in Nat
      BY DEF SessionType
    <3>2. /\ Len(accept') = Len(accept) + 1 /\ accept'[Len(accept) + 1] = i
          /\ \A k \in 1 .. Len(accept) : accept'[k] = accept[k] /\ accept[k] \in Ids
      BY <2>1, <3>1
    <3>3. \A k \in 1 .. Len(accept) : accept[k] # i
      BY <1>2 DEF LeftInv, Waiting
    <3>4. ASSUME NEW k \in 1 .. Len(accept')
          PROVE  k \in 1 .. Len(accept) \/ k = Len(accept) + 1
      BY <3>1, <3>2
    <3>5. ASSUME NEW k \in 1 .. Len(accept') PROVE user'[<<"connector", accept'[k]>>] = "queued"
      <4>1. CASE k \in 1 .. Len(accept)
        <5>1. accept'[k] = accept[k] /\ accept[k] \in Ids /\ accept[k] # i
          BY <3>2, <3>3, <4>1
        <5>2. user[<<"connector", accept[k]>>] = "queued"
          BY <4>1 DEF LeftInv, Waiting
        <5> QED
          BY <2>2, <2>4, <5>1, <5>2
      <4>2. CASE k = Len(accept) + 1
        BY <2>2, <3>2, <4>2
      <4> QED
        BY <3>4, <4>1, <4>2
    <3>6. \A k, l \in 1 .. Len(accept') : accept'[l] = accept'[k] => l = k
      <4> SUFFICES ASSUME NEW k \in 1 .. Len(accept'), NEW l \in 1 .. Len(accept'), accept'[l] = accept'[k]
                   PROVE  l = k
        OBVIOUS
      <4>1. CASE k \in 1 .. Len(accept) /\ l \in 1 .. Len(accept)
        BY <3>2, <4>1 DEF LeftInv, Waiting
      <4>2. CASE k = Len(accept) + 1 /\ l = Len(accept) + 1
        BY <4>2
      <4>3. CASE (k \in 1 .. Len(accept) /\ l = Len(accept) + 1) \/ (l \in 1 .. Len(accept) /\ k = Len(accept) + 1)
        BY <3>2, <3>3, <4>3
      <4> QED
        BY <3>4, <4>1, <4>2, <4>3
    <3> QED
      BY <3>5, <3>6 DEF Waiting
  <2>10. ASSUME NEW y \in Refs PROVE Each(y)'
    <3>1. y[1] \in Ends /\ y[2] \in Ids /\ y = <<y[1], y[2]>> /\ Each(y)
      BY RefParts DEF LeftInv
    <3>2. CASE y = x
      BY <1>1, <1>2, <2>1, <2>2, <3>2 DEF Each, Closing, Listed, Held, Live, Through
    <3>3. CASE y # x
      <4>1. y[2] \in table'[y[1]] <=> y[2] \in table[y[1]]
        BY <2>3, <3>1, <3>3 DEF Ends
      <4> QED
        BY <2>1, <2>2, <3>1, <3>3, <4>1 DEF Each, Closing, Listed, Held, Live
    <3> QED
      BY <3>2, <3>3
  <2>11. EndedMarked'
    BY DEF LeftInv, EndedMarked
  <2> QED
    BY <2>7, <2>8, <2>9, <2>10, <2>11 DEF LeftInv
<1> QED
  BY <1>4, <1>5

\* The read loop takes a frame.
LEMMA ReadFrameStep ==
  ASSUME MuxType, MuxType', LeftInv, NEW e \in Ends, ReadFrame(e)
  PROVE  LeftInv'
<1> USE DEF MuxType
<1> DEFINE o == Other(e)
           f == Head(wire[o])
<1>1. /\ o \in Ends /\ wire[o] \in Seq(Frame) /\ wire[o] # <<>>
      /\ wire' = [wire EXCEPT ![o] = Tail(@)] /\ UNCHANGED <<done, nextID, both>>
  BY OtherEnd DEF ReadFrame, SessionType
<1>2. f \in Frame /\ wire[o][1] = f /\ 1 \in 1 .. Len(wire[o])
  BY <1>1
<1>3. WireSound
  BY DEF LeftInv, OpenedOnce
<1>4. \A d \in Ends : answer'[d].type # "OPEN"
  <2>1. \A d \in Ends : answer[d].type # "OPEN"
    BY <1>3 DEF WireSound
  <2>2. \/ UNCHANGED answer
        \/ \E d \in Ends, a \in Frame : answer' = [answer EXCEPT ![d] = a] /\ a.type # "OPEN"
    <3>1. f.type = "OPEN" => f.id \in Ids
      BY <1>1, <1>2, <1>3 DEF WireSound, Ends
    <3>2. /\ f.type = "OPEN" => F("REFUSE", f.id) \in Frame /\ F("REFUSE", f.id).type # "OPEN"
          /\ f.id \in table[e] => F("RESET", f.id) \in Frame /\ F("RESET", f.id).type # "OPEN"
      BY <3>1, FrameType DEF SessionType
    <3> HIDE DEF f, o
    <3>3. CASE f.type = "OPEN" /\ ReadOpen(f.id)
      BY <3>2, <3>3 DEF ReadOpen, Ends
    <3>4. CASE f.id \in table[e] /\ ReadStream(e, f)
      BY <3>2, <3>4 DEF ReadStream, ReadAnswer, Deliver, PeerClose
    <3>5. \/ f.type = "OPEN" /\ ReadOpen(f.id)
          \/ f.id \in table[e] /\ ReadStream(e, f)
          \/ UNCHANGED answer
      BY DEF ReadFrame, f, o
    <3> QED
      BY <3>3, <3>4, <3>5
  <2> QED
    BY <2>1, <2>2 DEF SessionType
<1>5. /\ WireSound' /\ \A i \in Ids : Sent(i)' => Sent(i)
      /\ \A i \in Ids : o = "gateway" /\ f.type = "OPEN" /\ f.id = i => ~Sent(i)'
  BY <1>1, <1>3, <1>4, TailKeeps
<1>6. f.type = "OPEN" => o = "gateway" /\ f.id \in Ids /\ Sent(f.id)
  <2>1. o \in {"gateway", "connector"}
    BY <1>1 DEF Ends
  <2>2. f.type = "OPEN" => o = "gateway"
    BY <1>2, <1>3, <2>1 DEF WireSound
  <2> QED
    BY <1>2, <1>3, <2>2 DEF WireSound, Sent
<1> HIDE DEF f, o
<1>7. CASE f.type = "OPEN" /\ ReadOpen(f.id) /\ UNCHANGED <<err, failing>>
  <2>1. PICK i \in Ids : i = f.id
    BY <1>6, <1>7
  <2>2. Untaken(i) /\ ReadOpen(i) /\ ~Unsent(i)
    BY <1>6, <1>7, <2>1 DEF LeftInv, OpenedOnce
  <2>3. ~Sent(i)'
    BY <1>5, <1>6, <1>7, <2>1
  <2> QED
    BY <1>1, <1>5, <1>7, <2>2, <2>3, ReadOpenStep
<1>8. CASE /\ f.id \in table[e] /\ ReadStream(e, f)
           /\ UNCHANGED <<accept, user, err, failing>>
  BY <1>1, <1>2, <1>5, <1>8, ReadStreamStep
<1>9. CASE /\ UNCHANGED <<err, failing, table>> \/ Fail(e)
           /\ UNCHANGED <<accept, user, stream>>
  BY <1>1, <1>5, <1>9, SessionStep DEF stream
<1> QED
  BY <1>7, <1>8, <1>9 DEF ReadFrame, f, o

\* A frame that a stream's user writes, or fails to: a user that is through stays so.
LEMMA WritesStep ==
  ASSUME MuxType, LeftInv, NEW x \in Refs, NEW f \in Frame, f.type # "OPEN",
         NEW a \in UserAt, NEW b \in UserAt, Writes(x, f, a, b),
         UNCHANGED <<dead, peerClosed, writeClosed, both>>,
         user[x] \notin {"none", "open", "queued"},
         a \notin {"none", "open", "close"}, b \notin {"none", "open", "close"},
         writeClosed[x] => a \in {"drain", "abort", "done"} /\ b \in {"drain", "abort", "done"},
         a \in Through => user[x] \in Through, user[x] \notin {"close", "done"}
  PROVE  LeftInv'
<1> USE DEF MuxType
<1>1. x[1] \in Ends /\ x[2] \in Ids /\ x = <<x[1], x[2]>>
  BY RefParts
<1>2. WireSound /\ UNCHANGED <<done, nextID, accept, answer>>
  BY DEF LeftInv, OpenedOnce, Writes
<1>3. WireSound' /\ \A i \in Ids : Sent(i)' => Sent(i)
  BY <1>1, <1>2, SendKeeps DEF Writes, WireSound
<1>4. \/ Send(x[1], f) /\ Goes(x, a) /\ UNCHANGED <<err, failing, table>>
      \/ Fail(x[1]) /\ Goes(x, b)
  BY DEF Writes
<1>5. TablesAt(x)
  BY <1>4 DEF TablesAt
<1>6. user'[x] \in {a, b} /\ \A y \in Refs : y # x => user'[y] = user[y]
  BY <1>4 DEF Goes, StreamType
<1>7. Each(x)
  BY DEF LeftInv
<1>8. Closing(x)'
  BY <1>6, <1>7 DEF Each, Closing
<1>9. Listed(x)'
  <2>1. CASE Goes(x, a) /\ UNCHANGED <<err, failing, table>>
    <3>1. user'[x] = a
      BY <2>1 DEF Goes, StreamType
    <3> QED
      BY <1>7, <2>1, <3>1 DEF Each, Listed
  <2>2. CASE Fail(x[1])
    <3>1. err'[x[1]]
      BY <1>1, <2>2 DEF Fail, SessionType
    <3> QED
      BY <3>1 DEF Listed
  <2> QED
    BY <1>4, <2>1, <2>2
<1>10. Held(x)'
  <2>1. CASE UNCHANGED <<err, failing, table>>
    BY <1>7, <2>1 DEF Each, Held, Live
  <2>2. CASE Fail(x[1]) /\ ~err[x[1]]
    <3>1. err'[x[1]] /\ failing'[x[1]] = table[x[1]]
      BY <1>1, <2>2 DEF Fail, SessionType
    <3> QED
      BY <1>7, <2>2, <3>1 DEF Each, Held, Live
  <2>3. CASE Fail(x[1]) /\ err[x[1]]
    <3>1. err'[x[1]] /\ failing'[x[1]] = failing[x[1]]
      BY <2>3 DEF Fail
    <3> QED
      BY <1>7, <2>3, <3>1 DEF Each, Held, Live
  <2> QED
    BY <1>4, <2>1, <2>2, <2>3
<1>11. x[1] = "connector" => ~Untaken(x[2])
  BY <1>1 DEF Untaken
<1>12. x[1] = "connector" => ~Sent(x[2])' /\ ~Unsent(x[2])
  BY <1>1, <1>3, <1>11, NoMoreOpen
<1> QED
  BY <1>2, <1>3, <1>5, <1>6, <1>8, <1>9, <1>10, <1>12, PointStep DEF Each

\* Session.Open: the next number is of a stream that is new at both ends.
LEMMA OpenStep ==
  ASSUME MuxType, LeftInv, Open
  PROVE  LeftInv'
<1> USE DEF MuxType
<1>1. /\ nextID' = nextID + 1 /\ ~err["gateway"]
      /\ table' = [table EXCEPT !["gateway"] = @ \cup {nextID + 1}]
      /\ user' = [user EXCEPT ![<<"gateway", nextID + 1>>] = "open"]
      /\ UNCHANGED <<err, failing, done, wire, accept, answer, dead, peerClosed, writeClosed, both>>
  BY DEF Open, Goes, session, stream
<1>2. nextID + 1 \in Ids /\ nextID \in Nat
  BY MuxAssumption DEF Open, Ids, SessionType
<1>3. PICK i \in Ids : i = nextID + 1
  BY <1>2
<1> DEFINE x == <<"gateway", i>>
<1>4. x \in Refs /\ x[1] = "gateway" /\ x[2] = i /\ "gateway" \in Ends /\ "connector" \in Ends
  BY RefParts DEF Ends
<1>5. i > nextID
  BY <1>2, <1>3
<1>6. user[x] = "none" /\ ~dead[x]
  BY <1>5 DEF LeftInv, Numbered
<1>7. Each(x)
  BY <1>4 DEF LeftInv
<1> HIDE DEF x
<1>8. user'[x] = "open" /\ \A y \in Refs : y # x => user'[y] = user[y]
  BY <1>1, <1>3, <1>4 DEF StreamType, x
<1>9. table'["gateway"] = table["gateway"] \cup {i} /\ table'["connector"] = table["connector"]
  BY <1>1, <1>3, <1>4 DEF SessionType
<1>10. /\ \A j \in Ids : <<"connector", j>> \in Refs /\ <<"connector", j>> # x /\ <<"gateway", j>> \in Refs
       /\ \A j \in Ids : j # i => <<"gateway", j>> # x
  BY <1>4, RefParts DEF x
<1>11. OpenedOnce'
  <2>1. \A j \in Ids : Sent(j)' = Sent(j)
    BY <1>1 DEF Sent
  <2>2. \A j \in Ids : Unsent(j)' => Unsent(j)
    BY <1>6, <1>8, <1>10 DEF Unsent, x
  <2>3. \A j \in Ids : Untaken(j) => Untaken(j)'
    BY <1>1, <1>8, <1>9, <1>10 DEF Untaken
  <2>4. WireSound'
    BY <1>1 DEF LeftInv, OpenedOnce, WireSound
  <2> QED
    BY <2>1, <2>2, <2>3, <2>4 DEF LeftInv, OpenedOnce
<1>12. Numbered'
  <2> SUFFICES ASSUME NEW j \in Ids
               PROVE  /\ j > nextID + 1 => user'[<<"gateway", j>>] = "none"
                      /\ user'[<<"gateway", j>>] = "none" =>
                           ~dead[<<"gateway", j>>] /\ j \notin table'["gateway"] /\ j \notin failing["gateway"]
    BY <1>1 DEF Numbered
  <2>1. j \in Nat
    BY DEF Ids
  <2>2. CASE j = i
    BY <1>2, <1>3, <1>8, <2>2 DEF x
  <2>3. CASE j # i
    <3>1. user'[<<"gateway", j>>] = user[<<"gateway", j>>] /\ (j \in table'["gateway"] <=> j \in table["gateway"])
      BY <1>8, <1>9, <1>10, <2>3
    <3>2. j > nextID + 1 => j > nextID
      BY <1>2, <2>1
    <3> QED
      BY <3>1, <3>2 DEF LeftInv, Numbered
  <2> QED
    BY <2>2, <2>3
<1>13. Waiting'
  <2>1. \A k \in 1 .. Len(accept) : accept[k] \in Ids
    BY DEF SessionType
  <2> QED
    BY <1>1, <1>8, <1>10, <2>1 DEF LeftInv, Waiting
<1>14. ASSUME NEW y \in Refs PROVE Each(y)'
  <2>1. y[1] \in Ends /\ y[2] \in Ids /\ y = <<y[1], y[2]>> /\ Each(y)
    BY RefParts DEF LeftInv
  <2>2. CASE y = x
    <3>1. ~writeClosed[x]
      BY <1>6, <1>7 DEF Each, Closing
    <3> QED
      BY <1>1, <1>4, <1>6, <1>8, <1>9, <2>2, <3>1 DEF Each, Closing, Listed, Held, Through
  <2>3. CASE y # x
    <3>1. y[2] \in table'[y[1]] <=> y[2] \in table[y[1]]
      BY <1>9, <2>1, <2>3 DEF Ends, x
    <3> QED
      BY <1>1, <1>8, <2>1, <2>3, <3>1 DEF Each, Closing, Listed, Held, Live
  <2> QED
    BY <2>2, <2>3
<1>15. EndedMarked'
  BY <1>1 DEF LeftInv, EndedMarked
<1> QED
  BY <1>11, <1>12, <1>13, <1>14, <1>15 DEF LeftInv

\* A handler takes an OPEN from the backlog.
LEMMA AcceptStep ==
  ASSUME MuxType, LeftInv, Accept
  PROVE  LeftInv'
<1> USE DEF MuxType
<1>1. accept \in Seq(Ids) /\ accept # <<>> /\ accept' = Tail(accept)
  BY DEF Accept, SessionType
<1>2. /\ Len(accept) \in Nat /\ Len(accept) >= 1 /\ Head(accept) = accept[1]
      /\ Len(accept') = Len(accept) - 1
      /\ \A k \in 1 .. Len(accept') : accept'[k] = accept[k + 1] /\ k + 1 \in 1 .. Len(accept) /\ k + 1 # 1
  <2>1. Len(accept) \in Nat /\ Len(accept) >= 1 /\ Head(accept) = accept[1]
    BY <1>1
  <2>2. Len(accept') = Len(accept) - 1 /\ \A k \in 1 .. Len(accept') : accept'[k] = accept[k + 1]
    BY <1>1, <2>1
  <2> QED
    BY <2>1, <2>2
<1>3. PICK i \in Ids : i = accept[1]
  BY <1>1, <1>2
<1> DEFINE x == <<"connector", i>>
<1>4. x \in Refs /\ x[1] = "connector" /\ x[2] = i
  BY RefParts DEF Ends
<1>5. /\ user' = [user EXCEPT ![x] = "answer"]
      /\ UNCHANGED <<err, failing, done, table, nextID, wire, answer, dead, peerClosed, writeClosed, both>>
  BY <1>2, <1>3 DEF Accept, Goes, session, stream
<1>6. user[x] = "queued"
  BY <1>2, <1>3 DEF LeftInv, Waiting
<1>7. user'[x] = "answer" /\ \A y \in Refs : y # x => user'[y] = user[y]
  BY <1>4, <1>5 DEF StreamType
<1>8. /\ \A j \in Ids : <<"gateway", j>> \in Refs /\ <<"gateway", j>> # x /\ <<"connector", j>> \in Refs
      /\ \A j \in Ids : j # i => <<"connector", j>> # x
  BY RefParts DEF Ends
<1>9. Each(x)
  BY <1>4 DEF LeftInv
<1>10. \A j \in Ids : Untaken(j) => j # i
  BY <1>6 DEF Untaken
<1> HIDE DEF x
<1>11. OpenedOnce'
  <2>1. \A j \in Ids : Sent(j)' = Sent(j) /\ Unsent(j)' = Unsent(j)
    BY <1>5, <1>7, <1>8 DEF Sent, Unsent
  <2>2. \A j \in Ids : Untaken(j) => Untaken(j)'
    BY <1>5, <1>7, <1>8, <1>10 DEF Untaken
  <2>3. WireSound'
    BY <1>5 DEF LeftInv, OpenedOnce, WireSound
  <2> QED
    BY <2>1, <2>2, <2>3 DEF LeftInv, OpenedOnce
<1>12. Numbered'
  BY <1>5, <1>7, <1>8 DEF LeftInv, Numbered
<1>13. Waiting'
  <2>1. ASSUME NEW k \in 1 .. Len(accept')
        PROVE  user'[<<"connector", accept'[k]>>] = "queued"
    <3>1. PICK m \in 1 .. Len(accept) : m # 1 /\ accept'[k] = accept[m]
      BY <1>2
    <3>2. accept[m] \in Ids /\ user[<<"connector", accept[m]>>] = "queued" /\ 1 \in 1 .. Len(accept)
      BY <1>1, <1>2 DEF LeftInv, Waiting
    <3>3. accept[m] # i
      BY <1>3, <3>1, <3>2 DEF LeftInv, Waiting
    <3> QED
      BY <1>7, <1>8, <3>1, <3>2, <3>3
  <2>2. ASSUME NEW k \in 1 .. Len(accept'), NEW l \in 1 .. Len(accept'), accept'[l] = accept'[k]
        PROVE  l = k
    <3>1. k + 1 \in 1 .. Len(accept) /\ l + 1 \in 1 .. Len(accept) /\ accept[l + 1] = accept[k + 1]
      BY <1>2, <2>2
    <3>2. l + 1 = k + 1
      BY <3>1 DEF LeftInv, Waiting
    <3>3. l \in Int /\ k \in Int
      OBVIOUS
    <3> QED
      BY <3>2, <3>3
  <2> QED
    BY <2>1, <2>2 DEF Waiting
<1>14. ASSUME NEW y \in Refs PROVE Each(y)'
  <2>1. Each(y)
    BY DEF LeftInv
  <2>2. CASE y = x
    BY <1>4, <1>5, <1>6, <1>7, <2>1, <2>2 DEF Each, Closing, Listed, Held, Through
  <2>3. CASE y # x
    BY <1>5, <1>7, <2>1, <2>3 DEF Each, Closing, Listed, Held, Live
  <2> QED
    BY <2>2, <2>3
<1>15. EndedMarked'
  BY <1>5 DEF LeftInv, EndedMarked
<1> QED
  BY <1>11, <1>12, <1>13, <1>14, <1>15 DEF LeftInv

\* The OPEN goes out, once; or it fails the session.
LEMMA SendOpenStep ==
  ASSUME MuxType, LeftInv, NEW i \in Ids, SendOpen(i)
  PROVE  LeftInv'
<1> USE DEF MuxType
<1> DEFINE x == <<"gateway", i>>
<1>1. x \in Refs /\ x[1] = "gateway" /\ x[2] = i /\ "gateway" \in Ends /\ "connector" \in Ends
  BY RefParts DEF Ends
<1>2. /\ user[x] = "open" /\ Writes(x, F("OPEN", i), "wait", "done")
      /\ UNCHANGED <<dead, peerClosed, writeClosed, both, done, nextID, accept, answer>>
  BY DEF SendOpen, Writes, stream
<1>3. Each(x) /\ ~writeClosed[x]
  <2>1. Each(x)
    BY <1>1 DEF LeftInv
  <2> QED
    BY <1>2, <2>1 DEF Each, Closing
<1> HIDE DEF x
<1>4. CASE Broken /\ Fail(x[1]) /\ Goes(x, "done") /\ UNCHANGED wire
  <2>1. user'[x] = "done" /\ \A y \in Refs : y # x => user'[y] = user[y]
    BY <1>1, <1>4 DEF Goes, StreamType
  <2>2. err'["gateway"] = TRUE
    BY <1>1, <1>4 DEF Fail, SessionType
  <2>3. Each(x)'
    BY <1>1, <1>2, <1>3, <2>1, <2>2 DEF Each, Closing, Listed, Held, Live
  <2>4. TablesAt(x)
    BY <1>4 DEF TablesAt
  <2>5. WireSound' /\ \A j \in Ids : Sent(j)' => Sent(j)
    BY <1>2, <1>4 DEF LeftInv, OpenedOnce, WireSound, Sent
  <2> QED
    BY <1>1, <1>2, <2>1, <2>3, <2>4, <2>5, PointStep
<1>5. CASE Send(x[1], F("OPEN", i)) /\ Goes(x, "wait") /\ UNCHANGED <<err, failing, table>>
  <2>1. user'[x] = "wait" /\ \A y \in Refs : y # x => user'[y] = user[y]
    BY <1>1, <1>5 DEF Goes, StreamType
  <2>2. /\ \A j \in Ids : <<"connector", j>> \in Refs /\ <<"connector", j>> # x /\ <<"gateway", j>> \in Refs
        /\ \A j \in Ids : j # i => <<"gateway", j>> # x
    BY RefParts DEF Ends, x
  <2>3. F("OPEN", i).type = "OPEN" /\ F("OPEN", i).id = i /\ Unsent(i) /\ ~Sent(i) /\ Untaken(i) /\ WireSound
    BY <1>2, FrameType DEF LeftInv, OpenedOnce, Unsent, x
  <2>4. WireSound' /\ \A j \in Ids : Sent(j)' => Sent(j) \/ j = i
    <3>1. CASE UNCHANGED wire
      BY <1>2, <2>3, <3>1 DEF WireSound, Sent
    <3>2. CASE wire' = [wire EXCEPT !["gateway"] = Append(@, F("OPEN", i))]
      <4>1. wire'["connector"] = wire["connector"] /\ wire'["gateway"] = Append(wire["gateway"], F("OPEN", i))
        BY <1>1, <3>2 DEF SessionType
      <4> DEFINE q == wire["gateway"]
      <4>2. q \in Seq(Frame)
        BY <1>1 DEF SessionType
      <4>3. /\ Len(wire'["gateway"]) = Len(q) + 1 /\ Len(q) \in Nat /\ wire'["gateway"][Len(q) + 1] = F("OPEN", i)
            /\ \A k \in 1 .. Len(q) : wire'["gateway"][k] = q[k]
        BY <4>1, <4>2
      <4>4. \A k \in 1 .. Len(wire'["gateway"]) : k \in 1 .. Len(q) \/ k = Len(q) + 1
        BY <4>3
      <4>5. \A k \in 1 .. Len(q) : q[k].type = "OPEN" => q[k].id # i /\ q[k].id \in Ids
        BY <2>3 DEF WireSound, Sent
      <4>6. \A k, l \in 1 .. Len(q) : q[k].type = "OPEN" /\ q[l].type = "OPEN" /\ q[l].id = q[k].id => l = k
        BY <2>3 DEF WireSound
      <4> HIDE DEF q
      <4>7. ASSUME NEW k \in 1 .. Len(wire'["gateway"]), wire'["gateway"][k].type = "OPEN"
            PROVE  /\ wire'["gateway"][k].id \in Ids
                   /\ \A l \in 1 .. Len(wire'["gateway"]) :
                        wire'["gateway"][l].type = "OPEN" /\ wire'["gateway"][l].id = wire'["gateway"][k].id
                          => l = k
        <5>1. CASE k \in 1 .. Len(q)
          BY <2>3, <4>3, <4>4, <4>5, <4>6, <4>7, <5>1
        <5>2. CASE k = Len(q) + 1
          BY <2>3, <4>3, <4>4, <4>5, <5>2
        <5> QED
          BY <4>4, <4>7, <5>1, <5>2
      <4>8. WireSound'
        BY <1>2, <2>3, <4>1, <4>7 DEF WireSound
      <4>9. ASSUME NEW j \in Ids, Sent(j)' PROVE Sent(j) \/ j = i
        <5>1. PICK k \in 1 .. Len(wire'["gateway"]) :
                wire'["gateway"][k].type = "OPEN" /\ wire'["gateway"][k].id = j
          BY <4>9 DEF Sent
        <5> QED
          BY <2>3, <4>3, <4>4, <5>1 DEF Sent, q
      <4> QED
        BY <4>8, <4>9
    <3> QED
      BY <1>1, <1>5, <3>1, <3>2 DEF Send
  <2>5. OpenedOnce'
    <3>1. \A j \in Ids : Unsent(j)' <=> Unsent(j) /\ j # i
      BY <2>1, <2>2 DEF Unsent, x
    <3>2. \A j \in Ids : Untaken(j) => Untaken(j)'
      BY <1>2, <1>5, <2>1, <2>2 DEF Untaken
    <3> QED
      BY <2>3, <2>4, <3>1, <3>2 DEF LeftInv, OpenedOnce
  <2>6. Numbered'
    <3> SUFFICES ASSUME NEW j \in Ids
                 PROVE  /\ j > nextID => user'[<<"gateway", j>>] = "none"
                        /\ user'[<<"gateway", j>>] = "none" =>
                             ~dead[<<"gateway", j>>] /\ j \notin table["gateway"] /\ j \notin failing["gateway"]
      BY <1>2, <1>5 DEF Numbered
    <3>1. CASE j = i
      BY <1>2, <2>1, <3>1 DEF LeftInv, Numbered, x
    <3>2. CASE j # i
      BY <2>1, <2>2, <3>2 DEF LeftInv, Numbered
    <3> QED
      BY <3>1, <3>2
  <2>7. Waiting'
    <3>1. \A k \in 1 .. Len(accept) : accept[k] \in Ids
      BY DEF SessionType
    <3> QED
      BY <1>2, <2>1, <2>2, <3>1 DEF LeftInv, Waiting
  <2>8. ASSUME NEW y \in Refs PROVE Each(y)'
    <3>1. Each(y)
      BY DEF LeftInv
    <3>2. CASE y = x
      BY <1>1, <1>2, <1>3, <1>5, <2>1, <3>1, <3>2 DEF Each, Closing, Listed, Held, Live, Through
    <3>3. CASE y # x
      BY <1>2, <1>5, <2>1, <3>1, <3>3 DEF Each, Closing, Listed, Held, Live
    <3> QED
      BY <3>2, <3>3
  <2>9. EndedMarked'
    BY <1>2, <1>5 DEF LeftInv, EndedMarked
  <2> QED
    BY <2>5, <2>6, <2>7, <2>8, <2>9 DEF LeftInv
<1> QED
  BY <1>2, <1>4, <1>5 DEF Writes

\* Nothing of the tables, the users or the way changes.
LEMMA QuietStep ==
  ASSUME MuxType, LeftInv,
         UNCHANGED <<user, dead, peerClosed, writeClosed, both, accept, nextID, err, failing, table, done,
                     wire, answer>>
  PROVE  LeftInv'
<1>1. "gateway" \in Ends
  BY DEF Ends
<1>2. WireSound' /\ \A i \in Ids : Sent(i)' => Sent(i)
  BY DEF LeftInv, OpenedOnce, WireSound, Sent
<1> QED
  BY <1>1, <1>2, SessionStep

\* A stream in use is known to both ends.
LEMMA InUse ==
  ASSUME MuxType, LeftInv, NEW x \in Refs, user[x] \notin {"none", "open"}, UNCHANGED <<wire, answer>>
  PROVE  /\ WireSound' /\ \A i \in Ids : Sent(i)' => Sent(i)
         /\ x[1] = "connector" => ~Sent(x[2])' /\ ~Unsent(x[2])
<1>1. WireSound' /\ \A i \in Ids : Sent(i)' => Sent(i)
  BY DEF LeftInv, OpenedOnce, WireSound, Sent
<1>2. x[1] = "connector" => ~Untaken(x[2])
  BY RefParts DEF Untaken
<1> QED
  BY <1>1, <1>2, RefParts, NoMoreOpen

\* A user goes on; it is through only with a stream that is dead or removed.
LEMMA GoesStep ==
  ASSUME MuxType, LeftInv, NEW x \in Refs, NEW a \in UserAt, Goes(x, a),
         UNCHANGED <<dead, peerClosed, writeClosed, both, accept, nextID, err, failing, done, wire, answer>>,
         user[x] \notin {"none", "open", "queued", "close", "done"}, a \notin {"none", "open", "close"},
         writeClosed[x] => a \in {"drain", "abort", "done"},
         \/ table' = table /\ (a \in Through => dead[x])
         \/ Remove(x[1], x[2]) /\ a = "done"
  PROVE  LeftInv'
<1> USE DEF MuxType
<1>1. x[1] \in Ends /\ x[2] \in Ids
  BY RefParts
<1>2. user'[x] = a /\ \A y \in Refs : y # x => user'[y] = user[y]
  BY DEF Goes, StreamType
<1>3. /\ WireSound' /\ \A i \in Ids : Sent(i)' => Sent(i)
      /\ x[1] = "connector" => ~Sent(x[2])' /\ ~Unsent(x[2])
  BY InUse
<1>4. Each(x)
  BY DEF LeftInv
<1>5. Remove(x[1], x[2]) => x[2] \notin table'[x[1]]
  BY <1>1 DEF Remove, SessionType
<1>6. Each(x)'
  BY <1>2, <1>4, <1>5 DEF Each, Closing, Listed, Held, Live
<1>7. TablesAt(x)
  BY DEF TablesAt
<1> QED
  BY <1>2, <1>3, <1>6, <1>7, PointStep

\* A stream is reset or closed: removed, dead, and its user goes on.
LEMMA DeadStep ==
  ASSUME MuxType, LeftInv, NEW x \in Refs, NEW a \in UserAt, Goes(x, a), Remove(x[1], x[2]), MarkDead(x),
         UNCHANGED <<both, accept, nextID, err, failing, done, wire, answer>>,
         user[x] \notin {"none", "open", "queued"}, a \notin {"none", "open", "close"},
         writeClosed[x] => a \in {"drain", "abort", "done"}
  PROVE  LeftInv'
<1> USE DEF MuxType
<1>1. x[1] \in Ends /\ x[2] \in Ids
  BY RefParts
<1>2. user'[x] = a /\ \A y \in Refs : y # x => user'[y] = user[y]
  BY DEF Goes, StreamType
<1>3. /\ WireSound' /\ \A i \in Ids : Sent(i)' => Sent(i)
      /\ x[1] = "connector" => ~Sent(x[2])' /\ ~Unsent(x[2])
  BY InUse
<1>4. Each(x)
  BY DEF LeftInv
<1>5. x[2] \notin table'[x[1]]
  BY <1>1 DEF Remove, SessionType
<1>6. dead'[x] = TRUE /\ (\A y \in Refs : y # x => dead'[y] = dead[y]) /\ UNCHANGED <<peerClosed, writeClosed>>
  BY DEF MarkDead, StreamType
<1>7. Each(x)'
  BY <1>2, <1>4, <1>5, <1>6 DEF Each, Closing, Listed, Held, Live
<1>8. TablesAt(x)
  BY DEF TablesAt
<1> QED
  BY <1>2, <1>3, <1>6, <1>7, <1>8, PointStep

\* Stream.Reset, of a stream that may be dead already.
LEMMA ResetStep ==
  ASSUME MuxType, LeftInv, NEW x \in Refs, NEW a \in UserAt, NEW b \in UserAt, Reset(x, a, b),
         UNCHANGED <<both, accept, nextID, err, failing, done, wire, answer>>,
         user[x] \notin {"none", "open", "queued", "close", "done"},
         a \notin {"none", "open", "close"}, b \notin {"none", "open", "close"},
         writeClosed[x] => a \in {"drain", "abort", "done"} /\ b \in {"drain", "abort", "done"}
  PROVE  LeftInv'
<1>1. CASE dead[x]
  BY <1>1, GoesStep DEF Reset, stream
<1>2. CASE ~dead[x]
  BY <1>2, DeadStep DEF Reset
<1> QED
  BY <1>1, <1>2

\* Opening a stream, or not.
LEMMA OpeningStep ==
  ASSUME MuxType, LeftInv, NEW i \in Ids, Opening(i)
  PROVE  LeftInv'
<1> DEFINE g == <<"gateway", i>>
           c == <<"connector", i>>
<1>1. /\ g \in Refs /\ g[1] = "gateway" /\ g[2] = i /\ c \in Refs /\ c[1] = "connector" /\ c[2] = i
  BY RefParts DEF Ends
<1>2. (writeClosed[g] => user[g] \in {"close", "drain", "abort", "done"})
      /\ (writeClosed[c] => user[c] \in {"close", "drain", "abort", "done"})
  BY <1>1 DEF LeftInv, Each, Closing
<1>3. {"copy", "done", "abort", "refuse"} \subseteq UserAt
  BY DEF UserAt
<1>4. CASE SendOpen(i)
  BY <1>4, SendOpenStep
<1>5. CASE OpenReturns(i)
  <2>1. /\ user[g] = "wait"
        /\ UNCHANGED <<dead, peerClosed, writeClosed, both, accept, nextID, err, failing, done, wire, answer>>
        /\ \/ Goes(g, "copy") /\ table' = table
           \/ Goes(g, "done") /\ Remove("gateway", i)
           \/ dead[g] /\ Goes(g, "done") /\ table' = table
    BY <1>5 DEF OpenReturns, session, stream
  <2> HIDE DEF g, c
  <2>2. "copy" \notin Through /\ "copy" \in UserAt /\ "done" \in UserAt
    BY <1>3 DEF Through
  <2>3. CASE Goes(g, "copy") /\ table' = table
    BY <1>1, <1>2, <2>1, <2>2, <2>3, GoesStep
  <2>4. CASE Goes(g, "done") /\ Remove("gateway", i)
    BY <1>1, <1>2, <2>1, <2>2, <2>4, GoesStep
  <2>5. CASE dead[g] /\ Goes(g, "done") /\ table' = table
    BY <1>1, <1>2, <2>1, <2>2, <2>5, GoesStep
  <2> QED
    BY <2>1, <2>3, <2>4, <2>5
<1>6. CASE OpenCancelled(i)
  <2>1. /\ user[g] = "wait" /\ Reset(g, "abort", "done")
        /\ UNCHANGED <<both, accept, nextID, err, failing, done, wire, answer>>
    BY <1>6 DEF OpenCancelled, session
  <2> HIDE DEF g, c
  <2> QED
    BY <1>1, <1>2, <1>3, <2>1, ResetStep
<1>7. CASE AcceptStream(i)
  <2>1. /\ user[c] = "answer" /\ Writes(c, F("ACCEPT", i), "copy", "done")
        /\ UNCHANGED <<dead, peerClosed, writeClosed, both>>
    BY <1>7 DEF AcceptStream, stream
  <2>2. F("ACCEPT", i) \in Frame /\ F("ACCEPT", i).type # "OPEN" /\ "copy" \notin Through
    BY FrameType DEF Through
  <2> HIDE DEF g, c
  <2> QED
    BY <1>1, <1>2, <1>3, <2>1, <2>2, WritesStep
<1>8. CASE RefuseStream(i)
  <2>1. /\ user[c] = "answer" /\ Goes(c, "refuse") /\ Remove(c[1], c[2]) /\ MarkDead(c)
        /\ UNCHANGED <<both, accept, nextID, err, failing, done, wire, answer>>
    BY <1>1, <1>8 DEF RefuseStream, session
  <2> HIDE DEF g, c
  <2> QED
    BY <1>1, <1>2, <1>3, <2>1, DeadStep
<1>9. CASE SendRefuse(i)
  <2>1. /\ user[c] = "refuse" /\ Writes(c, F("REFUSE", i), "done", "done")
        /\ UNCHANGED <<dead, peerClosed, writeClosed, both>>
    BY <1>9 DEF SendRefuse, stream
  <2>2. F("REFUSE", i) \in Frame /\ F("REFUSE", i).type # "OPEN" /\ "refuse" \in Through
    BY FrameType DEF Through
  <2> HIDE DEF g, c
  <2> QED
    BY <1>1, <1>2, <1>3, <2>1, <2>2, WritesStep
<1> QED
  BY <1>4, <1>5, <1>6, <1>7, <1>8, <1>9 DEF Opening

\* CloseWrite: before its CLOSE it notes whether the other side has closed.
LEMMA CloseWriteStep ==
  ASSUME MuxType, LeftInv, NEW x \in Refs, CloseWrite(x)
  PROVE  LeftInv'
<1> USE DEF MuxType
<1>1. /\ user[x] \in {"copy", "failed"}
      /\ UNCHANGED <<dead, peerClosed, accept, nextID, err, failing, table, done, wire, answer>>
  BY DEF CloseWrite, CopyEnds, session, conn
<1>2. Each(x) /\ ~writeClosed[x]
  <2>1. Each(x)
    BY DEF LeftInv
  <2> QED
    BY <1>1, <2>1 DEF Each, Closing
<1>3. CASE dead[x]
  <2>1. Goes(x, "drain") /\ UNCHANGED <<writeClosed, both>> /\ "drain" \in UserAt /\ "drain" \notin Through
    BY <1>3 DEF CloseWrite, UserAt, Through
  <2> QED
    BY <1>1, <1>2, <2>1, GoesStep
<1>4. CASE ~dead[x]
  <2>1. /\ user' = [user EXCEPT ![x] = "close"] /\ writeClosed' = [writeClosed EXCEPT ![x] = TRUE]
        /\ both' = [both EXCEPT ![x] = peerClosed[x]]
    BY <1>4 DEF CloseWrite, Goes
  <2>2. /\ user'[x] = "close" /\ writeClosed'[x] = TRUE /\ both'[x] = peerClosed[x]
        /\ \A y \in Refs : y # x => user'[y] = user[y] /\ writeClosed'[y] = writeClosed[y] /\ both'[y] = both[y]
    BY <2>1 DEF StreamType
  <2>3. Each(x)'
    BY <1>1, <1>2, <2>2 DEF Each, Closing, Listed, Held, Live, Through
  <2>4. TablesAt(x)
    BY <1>1 DEF TablesAt
  <2>5. /\ WireSound' /\ \A i \in Ids : Sent(i)' => Sent(i)
        /\ x[1] = "connector" => ~Sent(x[2])' /\ ~Unsent(x[2])
    BY <1>1, InUse
  <2> QED
    BY <1>1, <2>2, <2>3, <2>4, <2>5, PointStep
<1> QED
  BY <1>3, <1>4

\* The CLOSE goes out, and takes a stream closed both ways from the table.
LEMMA SendCloseStep ==
  ASSUME MuxType, LeftInv, NEW x \in Refs, SendClose(x)
  PROVE  LeftInv'
<1> USE DEF MuxType
<1>1. /\ user[x] = "close" /\ Goes(x, "drain") /\ x[1] \in Ends /\ x[2] \in Ids
      /\ UNCHANGED <<dead, peerClosed, writeClosed, both, accept, nextID, done, answer>>
  BY RefParts DEF SendClose, stream
<1>2. Each(x)
  BY DEF LeftInv
<1>3. user'[x] = "drain" /\ \A y \in Refs : y # x => user'[y] = user[y]
  BY <1>1 DEF Goes, StreamType
<1>4. F("CLOSE", x[2]) \in Frame /\ F("CLOSE", x[2]).type # "OPEN" /\ WireSound
  BY <1>1, FrameType DEF LeftInv, OpenedOnce
<1>5. Send(x[1], F("CLOSE", x[2])) \/ UNCHANGED wire
  BY DEF SendClose
<1>6. WireSound' /\ \A i \in Ids : Sent(i)' => Sent(i)
  BY <1>1, <1>4, <1>5, SendKeeps DEF WireSound
<1>7. x[1] = "connector" => ~Sent(x[2])' /\ ~Unsent(x[2])
  <2>1. x[1] = "connector" => ~Untaken(x[2])
    BY <1>1, RefParts DEF Untaken
  <2> QED
    BY <1>1, <1>6, <2>1, NoMoreOpen
<1>8. CASE Fail(x[1])
  <2>1. \/ ~err[x[1]] /\ err'[x[1]] /\ failing'[x[1]] = table[x[1]]
        \/ err[x[1]] /\ UNCHANGED <<err, failing, table>>
    BY <1>1, <1>8 DEF Fail, SessionType
  <2>2. Each(x)'
    BY <1>1, <1>2, <1>3, <2>1 DEF Each, Closing, Listed, Held, Live
  <2> QED
    BY <1>1, <1>3, <1>6, <1>7, <1>8, <2>2, PointStep DEF TablesAt
<1>9. CASE /\ IF both[x] THEN Remove(x[1], x[2]) ELSE UNCHANGED table
           /\ UNCHANGED <<err, failing>>
  <2>1. both[x] => x[2] \notin table'[x[1]]
    BY <1>1, <1>9 DEF Remove, SessionType
  <2>2. ~both[x] => table' = table
    BY <1>9
  <2>3. Each(x)'
    BY <1>1, <1>2, <1>3, <1>9, <2>1, <2>2 DEF Each, Closing, Listed, Held, Live, Through
  <2>4. TablesAt(x)
    BY <1>9 DEF TablesAt
  <2> QED
    BY <1>1, <1>3, <1>6, <1>7, <2>3, <2>4, PointStep
<1> QED
  BY <1>8, <1>9 DEF SendClose

\* Relay.
LEMMA RelayStep ==
  ASSUME MuxType, LeftInv, NEW x \in Refs, Relay(x)
  PROVE  LeftInv'
<1> USE DEF MuxType
<1>1. x[1] \in Ends /\ x[2] \in Ids
  BY RefParts
<1>2. writeClosed[x] => user[x] \in {"close", "drain", "abort", "done"}
  BY DEF LeftInv, Each, Closing
<1>3. {"copy", "data", "failed", "reset", "drain", "abort", "done"} \subseteq UserAt
  BY DEF UserAt
<1>4. CASE WriteBegins(x)
  <2>1. /\ user[x] = "copy" /\ (Goes(x, "drain") \/ Goes(x, "data"))
        /\ UNCHANGED <<dead, peerClosed, writeClosed, both, accept, nextID, err, failing, table, done, wire, answer>>
    BY <1>4 DEF WriteBegins, session, conn, stream
  <2>2. "drain" \notin Through /\ "data" \notin Through
    BY DEF Through
  <2> QED
    BY <1>2, <1>3, <2>1, <2>2, GoesStep
<1>5. CASE SendData(x)
  <2> DEFINE f == [type |-> "DATA", id |-> x[2], n |-> written[x] + 1]
  <2>1. written[x] + 1 \in Nat
    BY DEF StreamType
  <2>2. f \in Frame /\ f.type # "OPEN" /\ "copy" \notin Through
    BY <1>1, <2>1 DEF Frame, Through
  <2>3. user[x] = "data" /\ Writes(x, f, "copy", "failed") /\ UNCHANGED <<dead, peerClosed, writeClosed, both>>
    BY <1>5 DEF SendData, stream
  <2> HIDE DEF f
  <2> QED
    BY <1>2, <1>3, <2>2, <2>3, WritesStep
<1>6. CASE CloseWrite(x) \/ SendClose(x)
  BY <1>6, CloseWriteStep, SendCloseStep
<1>7. CASE SendReset(x)
  <2>1. /\ UNCHANGED <<dead, peerClosed, writeClosed, both>>
        /\ \/ user[x] = "reset" /\ Writes(x, F("RESET", x[2]), "drain", "drain")
           \/ user[x] = "abort" /\ Writes(x, F("RESET", x[2]), "done", "done")
    BY <1>7 DEF SendReset, stream
  <2>2. /\ F("RESET", x[2]) \in Frame /\ F("RESET", x[2]).type # "OPEN"
        /\ "drain" \notin Through /\ "abort" \in Through
    BY <1>1, FrameType DEF Through
  <2> QED
    BY <1>2, <1>3, <2>1, <2>2, WritesStep
<1>8. CASE LocalFails(x)
  <2>1. /\ user[x] \in {"copy", "failed"} /\ Reset(x, "reset", "drain")
        /\ UNCHANGED <<both, accept, nextID, err, failing, done, wire, answer>>
    BY <1>8 DEF LocalFails, CopyEnds, session
  <2> QED
    BY <1>2, <1>3, <2>1, ResetStep
<1>9. CASE RelayEnds(x)
  <2>1. /\ user[x] = "drain"
        /\ \/ Remove(x[1], x[2]) /\ MarkDead(x) /\ Goes(x, "done")
           \/ Reset(x, "abort", "done")
        /\ UNCHANGED <<both, accept, nextID, err, failing, done, wire, answer>>
    BY <1>9 DEF RelayEnds, CloseStream, session
  <2> QED
    BY <1>2, <1>3, <2>1, DeadStep, ResetStep
<1>10. CASE Read(x) \/ Wakes(x) \/ ReaderFails(x)
  BY <1>10, QuietStep DEF Read, Wakes, ReaderFails, session, conn, stream
<1> QED
  BY <1>4, <1>5, <1>6, <1>7, <1>8, <1>9, <1>10 DEF Relay

-----------------------------------------------------------------------------
(* The theorems. *)

\* What has one value everywhere has it at each place, and the type of that value.
LEMMA OneValue ==
  ASSUME NEW S, NEW T, NEW v \in T, NEW f \in [S -> {v}]
  PROVE  f \in [S -> T] /\ (\A x \in S : f[x] = v)
  OBVIOUS

\* Nothing is opened.
LEMMA InitInvariant == Init => IInv
<1> SUFFICES ASSUME Init PROVE IInv
  OBVIOUS
<1>1. F("RESET", 0) \in Frame /\ F("RESET", 0).type # "OPEN" /\ "gateway" \in Ends /\ "connector" \in Ends
  BY FrameType DEF Ends
<1>2. MuxType
  <2>1. <<>> \in Seq(Frame) /\ <<>> \in Seq(Nat) /\ <<>> \in Seq(Ids)
    OBVIOUS
  <2>2. SessionType
    <3>1. wire \in [Ends -> Seq(Frame)] /\ answer \in [Ends -> Frame]
      <4>1. wire \in [Ends -> {<<>>}] /\ answer \in [Ends -> {F("RESET", 0)}]
        BY DEF Init
      <4>2. wire \in [Ends -> Seq(Frame)]
        BY <2>1, <4>1, OneValue
      <4>3. answer \in [Ends -> Frame]
        BY <1>1, <4>1, OneValue
      <4> QED
        BY <4>2, <4>3
    <3>2. err \in [Ends -> BOOLEAN] /\ done \in [Ends -> BOOLEAN]
      <4>1. err \in [Ends -> {FALSE}] /\ done \in [Ends -> {FALSE}]
        BY DEF Init
      <4>2. {FALSE} \subseteq BOOLEAN
        OBVIOUS
      <4> QED
        BY <4>1, <4>2, Zenon
    <3>3. failing \in [Ends -> SUBSET Ids] /\ table \in [Ends -> SUBSET Ids]
      BY DEF Init
    <3>4. nextID \in Nat /\ accept \in Seq(Ids)
      BY <2>1 DEF Init
    <3> QED
      BY <3>1, <3>2, <3>3, <3>4 DEF SessionType
  <2>3. StreamType
    <3>1. queue \in [Refs -> Seq(Nat)] /\ written \in [Refs -> Nat]
      <4>1. queue \in [Refs -> {<<>>}] /\ written \in [Refs -> {0}] /\ 0 \in Nat
        BY DEF Init
      <4> QED
        BY <2>1, <4>1, OneValue
    <3>2. /\ peerClosed \in [Refs -> BOOLEAN] /\ writeClosed \in [Refs -> BOOLEAN]
          /\ dead \in [Refs -> BOOLEAN] /\ notify \in [Refs -> BOOLEAN]
          /\ both \in [Refs -> BOOLEAN]
      <4>1. /\ peerClosed \in [Refs -> {FALSE}] /\ writeClosed \in [Refs -> {FALSE}]
            /\ dead \in [Refs -> {FALSE}] /\ notify \in [Refs -> {FALSE}]
            /\ both \in [Refs -> {FALSE}]
        BY DEF Init
      <4>2. {FALSE} \subseteq BOOLEAN
        OBVIOUS
      <4> QED
        BY <4>1, <4>2, Zenon
    <3>3. user \in [Refs -> UserAt] /\ reader \in [Refs -> {"off", "read", "wait", "eof", "error"}]
      BY DEF Init, UserAt
    <3> QED
      BY <3>1, <3>2, <3>3 DEF StreamType
  <2> QED
    BY <2>2, <2>3 DEF MuxType
<1>3. ReaderWoken
  BY DEF Init, ReaderWoken
<1>4. \A d \in Ends : wire[d] = <<>> /\ Len(wire[d]) = 0
  BY DEF Init
<1>5. Len(accept) = 0
  BY DEF Init
<1>6. \A k \in 1 .. 0 : FALSE
  OBVIOUS
<1>7. \A i \in Ids : <<"gateway", i>> \in Refs /\ <<"connector", i>> \in Refs
  BY <1>1, RefParts
<1>8. OpenedOnce
  <2>1. WireSound
    BY <1>1, <1>4, <1>6 DEF Init, WireSound
  <2>2. \A i \in Ids : ~Sent(i) /\ Untaken(i)
    BY <1>1, <1>4, <1>6, <1>7 DEF Init, Sent, Untaken
  <2> QED
    BY <2>1, <2>2 DEF OpenedOnce
<1>9. Numbered /\ Waiting
  BY <1>1, <1>5, <1>6, <1>7 DEF Init, Numbered, Waiting
<1>10. ASSUME NEW x \in Refs PROVE Each(x)
  <2>1. /\ x[1] \in Ends /\ table[x[1]] = {} /\ failing[x[1]] = {} /\ err[x[1]] = FALSE
        /\ user[x] = "none" /\ writeClosed[x] = FALSE /\ dead[x] = FALSE /\ opened[x] = "no"
    <3>1. x[1] \in Ends
      BY <1>10, RefParts
    <3>2. table[x[1]] = {} /\ failing[x[1]] = {} /\ err[x[1]] = FALSE
      <4>1. table \in [Ends -> {{}}] /\ failing \in [Ends -> {{}}] /\ err \in [Ends -> {FALSE}]
        BY DEF Init
      <4> QED
        BY <3>1, <4>1, Zenon
    <3>3. user[x] = "none" /\ writeClosed[x] = FALSE /\ dead[x] = FALSE /\ opened[x] = "no"
      BY <1>10 DEF Init
    <3> QED
      BY <3>1, <3>2, <3>3
  <2> QED
    BY <2>1 DEF Each, Closing, Listed, Held, Live
<1>11. EndedMarked
  BY DEF Init, EndedMarked
<1> QED
  BY <1>2, <1>3, <1>8, <1>9, <1>10, <1>11 DEF IInv, LeftInv

\* Every step of the two ends.
LEMMA Inductive == IInv /\ [Next]_vars => IInv'
<1> SUFFICES ASSUME IInv, [Next]_vars PROVE IInv'
  OBVIOUS
<1>1. MuxType /\ WireSound /\ ReaderWoken /\ LeftInv
  BY DEF IInv, LeftInv, OpenedOnce
<1>2. MuxType' /\ ReaderWoken'
  BY <1>1, MuxTypeStep, WokenStep
<1>3. LeftInv'
  <2>1. CASE UNCHANGED vars
    BY <1>1, <2>1, QuietStep DEF vars, session, conn, stream, local
  <2>2. CASE Lose
    BY <1>1, <2>2, QuietStep DEF Lose, conn, stream, local
  <2>3. ASSUME NEW e \in Ends, Session(e) PROVE LeftInv'
    BY <1>1, <1>2, <2>3, FailingStep, ReadFrameStep DEF Session
  <2> QED
    BY <1>1, <2>1, <2>2, <2>3, OpenStep, AcceptStep, OpeningStep, RelayStep DEF Next
<1> QED
  BY <1>2, <1>3 DEF IInv

\* What the theorems about the streams rest on holds throughout.
THEOREM MuxInvariant == Spec => []IInv
  BY InitInvariant, Inductive, PTL DEF Spec

\* A reader that waits has nothing to read, or is about to be woken, for any number
\* of streams and any bounds of what waits.
THEOREM ReaderWokenHolds == Spec => []ReaderWoken
<1>1. IInv => ReaderWoken
  BY DEF IInv
<1> QED
  BY <1>1, MuxInvariant, PTL

\* No stream is left in a table that no frame can find any more use for, and none
\* of the gateway's waits in a session that has failed, whatever fails in whatever order.
THEOREM NoneLeftHolds == Spec => []NoneLeft
<1>1. IInv => NoneLeft
  BY LeftMeansNoneLeft DEF IInv
<1> QED
  BY <1>1, MuxInvariant, PTL


-----------------------------------------------------------------------------
(* Each direction of a stream is a pipe, as module Pipe has it: what is    *)
(* read is what was written, whatever else goes on in the session.         *)

\* What a connection has for a stream: the DATA of a number, at a place, and its CLOSE.
Data(w, i, k) == k \in 1 .. Len(w) /\ w[k].type = "DATA" /\ w[k].id = i
Last(w, i, k) == k \in 1 .. Len(w) /\ w[k].type = "CLOSE" /\ w[k].id = i

\* The DATA on the way is of what was written, the earlier first, and no DATA is
\* behind a CLOSE.
Rising(w, i, sent) ==
  /\ \A k \in Nat : Data(w, i, k) => w[k].n \in 1 .. sent
  /\ \A k, l \in Nat : Data(w, i, k) /\ Data(w, i, l) /\ k < l => w[k].n < w[l].n
  /\ \A k, l \in Nat : Last(w, i, k) /\ Data(w, i, l) => l < k

\* All that was written after the first so many is on the way, and nothing else.
Whole(w, i, taken, sent) ==
  /\ \A k \in Nat : Data(w, i, k) => w[k].n > taken
  /\ \A m \in taken + 1 .. sent : \E k \in Nat : Data(w, i, k) /\ w[k].n = m

\* What is on the way to x, and how much of it x has had.
Inbound(x) == wire[Other(x[1])]
Taken(x) == Len(got[x]) + Len(queue[x])
Written(x) == written[Peer(x)]

\* Frames for x find it, and are taken.
Intact(x) == x[2] \in table[x[1]] /\ ~dead[x] /\ ~done[x[1]]

\* What x has read and holds is what was written first; as long as frames find x the
\* rest is on the way, and once the end has come there is no rest, unless the stream
\* is dead.
Flows(x) ==
  /\ Taken(x) <= Written(x)
  /\ \A k \in 1 .. Len(queue[x]) : queue[x][k] = Len(got[x]) + k
  /\ Rising(Inbound(x), x[2], Written(x))
  /\ Intact(x) => Whole(Inbound(x), x[2], Taken(x), Written(x))
  /\ (\E k \in Nat : Last(Inbound(x), x[2], k)) => writeClosed[Peer(x)]
  /\ peerClosed[x] =>
       /\ writeClosed[Peer(x)] /\ (\A k \in Nat : ~Data(Inbound(x), x[2], k))
       /\ ~dead[x] => Taken(x) = Written(x)

\* Before the connector has taken the OPEN the gateway cannot be told of an ACCEPT,
\* and nothing is written.
Quiet == {"none", "open", "wait", "abort", "done"}
Unknown(i) ==
  user[<<"connector", i>>] = "none" =>
    /\ user[<<"gateway", i>>] \in Quiet /\ opened[<<"gateway", i>>] # "yes"
    /\ written[<<"gateway", i>>] = 0 /\ written[<<"connector", i>>] = 0
    /\ \A k \in 1 .. Len(wire["connector"]) :
         wire["connector"][k].id = i => wire["connector"][k].type # "ACCEPT"

\* Nothing is read before the stream is in use, nor written before.
Early == {"none", "open", "wait", "queued", "answer", "refuse"}
Unread(x) == user[x] \in Early => reader[x] = "off"

FlowInv ==
  /\ got \in [Refs -> Seq(Nat)] /\ opened \in [Refs -> {"no", "yes", "refused"}]
  /\ \A e \in Ends : answer[e].type \in {"RESET", "REFUSE"}
  /\ (\A x \in Refs : Flows(x)) /\ (\A i \in Ids : Unknown(i)) /\ (\A x \in Refs : Unread(x))

\* One more on the way that is no DATA of a stream changes nothing of its DATA.
LEMMA AppendOther ==
  ASSUME NEW w \in Seq(Frame), NEW f \in Frame, NEW i \in Ids, NEW sent \in Nat, NEW taken \in Nat,
         f.type = "DATA" => f.id # i
  PROVE  /\ \A k \in Nat : Data(Append(w, f), i, k) <=> Data(w, i, k)
         /\ \A k \in Nat : Data(w, i, k) => Append(w, f)[k] = w[k]
         /\ \A k \in Nat : Last(Append(w, f), i, k) =>
              Last(w, i, k) \/ (k = Len(w) + 1 /\ f.type = "CLOSE" /\ f.id = i)
         /\ Rising(w, i, sent) => Rising(Append(w, f), i, sent)
         /\ Whole(w, i, taken, sent) => Whole(Append(w, f), i, taken, sent)
<1> DEFINE v == Append(w, f)
<1>1. /\ Len(w) \in Nat /\ Len(v) = Len(w) + 1 /\ v[Len(w) + 1] = f
      /\ \A k \in 1 .. Len(w) : v[k] = w[k]
  OBVIOUS
<1> HIDE DEF v
<1>2. \A k \in Nat : Data(v, i, k) <=> Data(w, i, k)
  BY <1>1 DEF Data
<1>3. \A k \in Nat : Data(w, i, k) => v[k] = w[k] /\ k <= Len(w)
  BY <1>1 DEF Data
<1>4. \A k \in Nat : Last(v, i, k) => Last(w, i, k) \/ (k = Len(w) + 1 /\ f.type = "CLOSE" /\ f.id = i)
  BY <1>1 DEF Last
<1>5. ASSUME Rising(w, i, sent) PROVE Rising(v, i, sent)
  BY <1>1, <1>2, <1>3, <1>4, <1>5 DEF Rising
<1>6. ASSUME Whole(w, i, taken, sent) PROVE Whole(v, i, taken, sent)
  BY <1>2, <1>3, <1>6 DEF Whole
<1> QED
  BY <1>2, <1>3, <1>4, <1>5, <1>6 DEF v

\* DATA written next comes next.
LEMMA AppendNext ==
  ASSUME NEW w \in Seq(Frame), NEW f \in Frame, NEW i \in Ids, NEW sent \in Nat, NEW taken \in Nat,
         f.type = "DATA", f.id = i, f.n = sent + 1, \A k \in Nat : ~Last(w, i, k), taken <= sent,
         Rising(w, i, sent)
  PROVE  /\ \A k \in Nat : ~Last(Append(w, f), i, k)
         /\ Rising(Append(w, f), i, sent + 1)
         /\ Whole(w, i, taken, sent) => Whole(Append(w, f), i, taken, sent + 1)
<1> DEFINE v == Append(w, f)
<1>1. /\ Len(w) \in Nat /\ Len(v) = Len(w) + 1 /\ v[Len(w) + 1] = f
      /\ \A k \in 1 .. Len(w) : v[k] = w[k]
  OBVIOUS
<1> HIDE DEF v
<1>2. \A k \in Nat : Data(v, i, k) <=> Data(w, i, k) \/ k = Len(w) + 1
  BY <1>1 DEF Data
<1>3. \A k \in Nat : Data(w, i, k) => v[k] = w[k] /\ k <= Len(w) /\ w[k].n \in 1 .. sent
  BY <1>1 DEF Data, Rising
<1>4. \A k \in Nat : ~Last(v, i, k)
  BY <1>1 DEF Last
<1>5. v[Len(w) + 1].n = sent + 1 /\ Data(v, i, Len(w) + 1) /\ Len(w) + 1 \in Nat
  BY <1>1, <1>2
<1>6. Rising(v, i, sent + 1)
  <2>1. \A k \in Nat : Data(v, i, k) => v[k].n \in 1 .. (sent + 1)
    BY <1>2, <1>3, <1>5
  <2>2. \A k, l \in Nat : Data(v, i, k) /\ Data(v, i, l) /\ k < l => v[k].n < v[l].n
    <3>1. ASSUME NEW k \in Nat, NEW l \in Nat, Data(v, i, k), Data(v, i, l), k < l PROVE v[k].n < v[l].n
      <4>1. Data(w, i, k)
        BY <1>1, <1>2, <1>3, <3>1
      <4>2. CASE Data(w, i, l)
        BY <1>3, <3>1, <4>1, <4>2 DEF Rising
      <4>3. CASE l = Len(w) + 1
        BY <1>3, <1>5, <4>1, <4>3
      <4> QED
        BY <1>2, <3>1, <4>2, <4>3
    <3> QED
      BY <3>1
  <2> QED
    BY <1>4, <2>1, <2>2 DEF Rising
<1>7. ASSUME Whole(w, i, taken, sent) PROVE Whole(v, i, taken, sent + 1)
  <2>1. \A k \in Nat : Data(v, i, k) => v[k].n > taken
    BY <1>2, <1>3, <1>5, <1>7 DEF Whole
  <2>2. ASSUME NEW m \in taken + 1 .. sent + 1 PROVE \E k \in Nat : Data(v, i, k) /\ v[k].n = m
    <3>1. CASE m = sent + 1
      BY <1>5, <3>1
    <3>2. CASE m \in taken + 1 .. sent
      BY <1>2, <1>3, <1>7, <3>2 DEF Whole
    <3> QED
      BY <3>1, <3>2
  <2> QED
    BY <2>1, <2>2 DEF Whole
<1> QED
  BY <1>4, <1>6, <1>7 DEF v

\* What is read goes, and the rest moves up.
LEMMA TailMoves ==
  ASSUME NEW w \in Seq(Frame), w # <<>>, NEW i \in Ids, NEW sent \in Nat
  PROVE  /\ \A k \in Nat : Data(Tail(w), i, k) <=> k # 0 /\ Data(w, i, k + 1)
         /\ \A k \in Nat : Data(Tail(w), i, k) => Tail(w)[k] = w[k + 1]
         /\ \A k \in Nat : Last(Tail(w), i, k) => Last(w, i, k + 1)
         /\ Rising(w, i, sent) => Rising(Tail(w), i, sent)
<1> DEFINE v == Tail(w)
<1>1. /\ Len(w) \in Nat /\ Len(w) >= 1 /\ Len(v) = Len(w) - 1
      /\ \A k \in 1 .. Len(v) : v[k] = w[k + 1]
  BY HeadTailProperties, EmptySeq
<1> HIDE DEF v
<1>2. \A k \in Nat : Data(v, i, k) <=> k # 0 /\ Data(w, i, k + 1)
  BY <1>1 DEF Data
<1>3. \A k \in Nat : Data(v, i, k) => v[k] = w[k + 1]
  BY <1>1 DEF Data
<1>4. \A k \in Nat : Last(v, i, k) => Last(w, i, k + 1)
  BY <1>1 DEF Last
<1>5. ASSUME Rising(w, i, sent) PROVE Rising(v, i, sent)
  <2>1. \A k \in Nat : Data(v, i, k) => v[k].n \in 1 .. sent
    BY <1>2, <1>3, <1>5 DEF Rising
  <2>2. ASSUME NEW k \in Nat, NEW l \in Nat, Data(v, i, k), Data(v, i, l), k < l
        PROVE  v[k].n < v[l].n
    <3>1. Data(w, i, k + 1) /\ Data(w, i, l + 1) /\ v[k] = w[k + 1] /\ v[l] = w[l + 1]
      BY <1>2, <1>3, <2>2
    <3>2. k + 1 \in Nat /\ l + 1 \in Nat /\ k + 1 < l + 1
      BY <2>2
    <3>3. w[k + 1].n < w[l + 1].n
      BY <1>5, <3>1, <3>2 DEF Rising
    <3> QED
      BY <3>1, <3>3
  <2>3. ASSUME NEW k \in Nat, NEW l \in Nat, Last(v, i, k), Data(v, i, l) PROVE l < k
    <3>1. Last(w, i, k + 1) /\ Data(w, i, l + 1) /\ k + 1 \in Nat /\ l + 1 \in Nat
      BY <1>2, <1>4, <2>3
    <3>2. l + 1 < k + 1
      BY <1>5, <3>1 DEF Rising
    <3> QED
      BY <3>2
  <2> QED
    BY <2>1, <2>2, <2>3 DEF Rising
<1> QED
  BY <1>2, <1>3, <1>4, <1>5 DEF v

\* What is no DATA of a stream leaves all of it on the way.
LEMMA TailOther ==
  ASSUME NEW w \in Seq(Frame), w # <<>>, NEW i \in Ids, NEW sent \in Nat, NEW taken \in Nat,
         ~Data(w, i, 1), Whole(w, i, taken, sent)
  PROVE  Whole(Tail(w), i, taken, sent)
<1>1. \A k \in Nat : Data(w, i, k) => k # 0 /\ k - 1 \in Nat /\ k - 1 # 0 /\ (k - 1) + 1 = k
  BY DEF Data
<1>2. \A k \in Nat : Data(Tail(w), i, k) <=> k # 0 /\ Data(w, i, k + 1)
  BY TailMoves
<1>3. \A k \in Nat : Data(Tail(w), i, k) => Tail(w)[k] = w[k + 1]
  BY TailMoves
<1>4. ASSUME NEW m \in taken + 1 .. sent PROVE \E k \in Nat : Data(Tail(w), i, k) /\ Tail(w)[k].n = m
  <2>1. PICK k \in Nat : Data(w, i, k) /\ w[k].n = m
    BY <1>4 DEF Whole
  <2>2. k - 1 \in Nat /\ Data(Tail(w), i, k - 1) /\ Tail(w)[k - 1] = w[k]
    BY <1>1, <1>2, <1>3, <2>1
  <2> QED
    BY <2>1, <2>2
<1>5. ASSUME NEW k \in Nat, Data(Tail(w), i, k) PROVE Tail(w)[k].n > taken
  <2>1. k + 1 \in Nat
    OBVIOUS
  <2>2. Data(w, i, k + 1)
    BY <1>2, <1>5
  <2>3. Tail(w)[k] = w[k + 1]
    BY <1>3, <1>5
  <2>4. w[k + 1].n > taken
    BY <2>1, <2>2 DEF Whole
  <2> QED
    BY <2>3, <2>4
<1> QED
  BY <1>4, <1>5 DEF Whole

\* The DATA in front is the next, and the rest is on the way behind it.
LEMMA TailNext ==
  ASSUME NEW w \in Seq(Frame), w # <<>>, NEW i \in Ids, NEW sent \in Nat, NEW taken \in Nat,
         Data(w, i, 1), Rising(w, i, sent), Whole(w, i, taken, sent)
  PROVE  /\ w[1].n = taken + 1 /\ taken + 1 <= sent
         /\ Whole(Tail(w), i, taken + 1, sent)
<1>1. \A k \in Nat : Data(w, i, k) => k >= 1 /\ w[k].n \in 1 .. sent /\ w[k].n > taken
  BY DEF Data, Rising, Whole
<1>2. w[1].n \in 1 .. sent /\ w[1].n > taken
  BY <1>1
<1>3. PICK k \in Nat : Data(w, i, k) /\ w[k].n = taken + 1
  BY <1>2 DEF Whole
<1>4. k = 1
  <2>1. CASE k > 1
    BY <1>2, <1>3, <2>1 DEF Rising
  <2> QED
    BY <1>1, <1>3, <2>1
<1>5. \A l \in Nat : Data(w, i, l) /\ l # 1 => w[l].n > taken + 1
  BY <1>1, <1>3, <1>4 DEF Rising
<1>6. \A l \in Nat : Data(Tail(w), i, l) <=> l # 0 /\ Data(w, i, l + 1)
  BY TailMoves
<1>7. \A l \in Nat : Data(Tail(w), i, l) => Tail(w)[l] = w[l + 1]
  BY TailMoves
<1>8. ASSUME NEW m \in taken + 2 .. sent PROVE \E l \in Nat : Data(Tail(w), i, l) /\ Tail(w)[l].n = m
  <2>1. PICK l \in Nat : Data(w, i, l) /\ w[l].n = m
    BY <1>8 DEF Whole
  <2>2. l # 1 /\ l >= 1
    BY <1>1, <1>3, <1>4, <1>8, <2>1
  <2>3. l - 1 \in Nat /\ l - 1 # 0 /\ (l - 1) + 1 = l
    BY <2>2
  <2>4. Data(Tail(w), i, l - 1) /\ Tail(w)[l - 1] = w[l]
    BY <1>6, <1>7, <2>1, <2>3
  <2> QED
    BY <2>1, <2>3, <2>4
<1>9. ASSUME NEW l \in Nat, Data(Tail(w), i, l) PROVE Tail(w)[l].n > taken + 1
  <2>1. l + 1 \in Nat /\ (l # 0 => l + 1 # 1)
    OBVIOUS
  <2>2. l # 0 /\ Data(w, i, l + 1)
    BY <1>6, <1>9
  <2>3. Tail(w)[l] = w[l + 1]
    BY <1>7, <1>9
  <2>4. w[l + 1].n > taken + 1
    BY <1>5, <2>1, <2>2
  <2> QED
    BY <2>3, <2>4
<1>10. Whole(Tail(w), i, taken + 1, sent)
  <2>1. (taken + 1) + 1 = taken + 2
    OBVIOUS
  <2> QED
    BY <1>8, <1>9, <2>1 DEF Whole
<1> QED
  BY <1>2, <1>3, <1>4, <1>10

-----------------------------------------------------------------------------
(* What a step does to one direction of a stream. *)

\* The other end of a stream, and of that the other.
LEMMA PeerParts ==
  ASSUME NEW x \in Refs
  PROVE  /\ x[1] \in Ends /\ x[2] \in Ids /\ Other(x[1]) \in Ends /\ Other(Other(x[1])) = x[1]
         /\ Peer(x) \in Refs /\ Peer(x)[1] = Other(x[1]) /\ Peer(x)[2] = x[2]
         /\ \A e \in Ends : e = x[1] \/ e = Other(x[1])
  BY DEF Refs, Peer, Other, Ends

\* A step that takes no DATA and no CLOSE from the direction, and puts no DATA into it
\* that its stream could find; it may bring the stream into use, or end it.
Calm(x) ==
  /\ got'[x] = got[x] /\ written'[Peer(x)] = written[Peer(x)] /\ peerClosed'[x] = peerClosed[x]
  /\ queue'[x] = queue[x] \/ (queue'[x] = <<>> /\ dead'[x])
  /\ \/ Inbound(x)' = Inbound(x)
     \/ Inbound(x)' = <<>> /\ done'[x[1]]
     \/ \E f \in Frame :
          /\ Inbound(x)' = Append(Inbound(x), f) /\ (f.type = "DATA" => f.id # x[2])
          /\ f.type = "CLOSE" /\ f.id = x[2] => writeClosed'[Peer(x)]
     \/ /\ Inbound(x) # <<>> /\ Inbound(x)' = Tail(Inbound(x))
        /\ Intact(x)' => ~Data(Inbound(x), x[2], 1)
  /\ (Intact(x)' => Intact(x)) \/ Written(x) = 0
  /\ (writeClosed[Peer(x)] => writeClosed'[Peer(x)]) /\ (dead[x] => dead'[x])

\* What is on the way and in hand, by type.
LEMMA FlowType ==
  ASSUME MuxType, got \in [Refs -> Seq(Nat)], NEW x \in Refs
  PROVE  /\ got[x] \in Seq(Nat) /\ queue[x] \in Seq(Nat) /\ Inbound(x) \in Seq(Frame)
         /\ Taken(x) \in Nat /\ Written(x) \in Nat /\ Len(got[x]) \in Nat /\ Len(queue[x]) \in Nat
         /\ dead[x] \in BOOLEAN /\ peerClosed[x] \in BOOLEAN /\ writeClosed[Peer(x)] \in BOOLEAN
<1>1. Peer(x) \in Refs /\ Other(x[1]) \in Ends
  BY PeerParts
<1>2. got[x] \in Seq(Nat) /\ queue[x] \in Seq(Nat) /\ Inbound(x) \in Seq(Frame) /\ Written(x) \in Nat
  BY <1>1 DEF MuxType, SessionType, StreamType, Inbound, Written
<1>3. Len(got[x]) \in Nat /\ Len(queue[x]) \in Nat
  BY <1>2
<1>4. dead[x] \in BOOLEAN /\ peerClosed[x] \in BOOLEAN /\ writeClosed[Peer(x)] \in BOOLEAN
  BY <1>1 DEF MuxType, StreamType
<1> QED
  BY <1>2, <1>3, <1>4 DEF Taken

\* With nothing written there is nothing on the way, and nothing is missing.
LEMMA NothingWritten ==
  ASSUME NEW w \in Seq(Frame), NEW i \in Ids, NEW taken \in Nat, taken <= 0, Rising(w, i, 0)
  PROVE  Whole(w, i, taken, 0)
  BY DEF Rising, Whole

\* On an empty connection nothing is out of place.
LEMMA NothingInbound ==
  ASSUME NEW i \in Ids, NEW sent \in Nat
  PROVE  Rising(<<>>, i, sent) /\ \A k \in Nat : ~Data(<<>>, i, k) /\ ~Last(<<>>, i, k)
<1>1. \A k \in Nat : k \notin 1 .. Len(<<>>)
  OBVIOUS
<1>2. \A k \in Nat : ~Data(<<>>, i, k) /\ ~Last(<<>>, i, k)
  BY <1>1 DEF Data, Last
<1> QED
  BY <1>2 DEF Rising

\* Such a step keeps the direction.
LEMMA CalmFlows ==
  ASSUME MuxType, MuxType', got \in [Refs -> Seq(Nat)], got' \in [Refs -> Seq(Nat)],
         NEW x \in Refs, Flows(x), Calm(x)
  PROVE  Flows(x)'
<1> DEFINE w == Inbound(x)
           v == Inbound(x)'
           i == x[2]
           s == Written(x)
<1>1. /\ w \in Seq(Frame) /\ v \in Seq(Frame) /\ i \in Ids /\ s \in Nat /\ Written(x)' = s
      /\ Taken(x) \in Nat /\ Taken(x)' \in Nat /\ Taken(x)' <= Taken(x)
      /\ got'[x] = got[x] /\ Len(got[x]) \in Nat /\ Len(queue[x]) \in Nat /\ Len(queue'[x]) \in Nat
      /\ queue'[x] = queue[x] => Taken(x)' = Taken(x)
  <2>1. /\ w \in Seq(Frame) /\ s \in Nat /\ Taken(x) \in Nat /\ Len(got[x]) \in Nat /\ Len(queue[x]) \in Nat
    BY FlowType
  <2>2. v \in Seq(Frame) /\ Taken(x)' \in Nat /\ Len(queue'[x]) \in Nat
    <3>1. Other(x[1]) \in Ends
      BY PeerParts
    <3>2. got'[x] \in Seq(Nat) /\ queue'[x] \in Seq(Nat) /\ v \in Seq(Frame)
      BY <3>1 DEF MuxType, SessionType, StreamType, Inbound
    <3>3. Len(got'[x]) \in Nat /\ Len(queue'[x]) \in Nat
      BY <3>2
    <3> QED
      BY <3>2, <3>3 DEF Taken
  <2>3. i \in Ids /\ Written(x)' = s /\ got'[x] = got[x]
    BY PeerParts DEF Calm, Written
  <2>4. queue'[x] = queue[x] => Taken(x)' = Taken(x)
    BY <2>3 DEF Taken
  <2>5. queue'[x] = <<>> => Taken(x)' <= Taken(x)
    <3>1. queue'[x] = <<>> => Len(queue'[x]) = 0
      OBVIOUS
    <3> QED
      BY <2>1, <2>3, <3>1 DEF Taken
  <2>6. Taken(x)' <= Taken(x)
    BY <2>1, <2>4, <2>5 DEF Calm
  <2> QED
    BY <2>1, <2>2, <2>3, <2>4, <2>6
<1>2. Taken(x) <= s /\ Rising(w, i, s) /\ (Intact(x) => Whole(w, i, Taken(x), s))
  BY DEF Flows
<1>3. \/ v = w
      \/ v = <<>> /\ done'[x[1]]
      \/ \E f \in Frame :
           /\ v = Append(w, f) /\ (f.type = "DATA" => f.id # i)
           /\ f.type = "CLOSE" /\ f.id = i => writeClosed'[Peer(x)]
      \/ w # <<>> /\ v = Tail(w) /\ (Intact(x)' => ~Data(w, i, 1))
  BY DEF Calm
<1>4. (Intact(x)' => Intact(x)) \/ s = 0
  BY DEF Calm
<1>5. (writeClosed[Peer(x)] => writeClosed'[Peer(x)]) /\ (dead[x] => dead'[x]) /\ peerClosed'[x] = peerClosed[x]
  BY DEF Calm
<1>6. Intact(x)' => queue'[x] = queue[x] /\ Taken(x)' = Taken(x)
  BY <1>1 DEF Calm, Intact
<1> HIDE DEF w, v, i, s
<1>7. /\ Rising(v, i, s) /\ (Intact(x)' /\ Whole(w, i, Taken(x), s) => Whole(v, i, Taken(x), s))
      /\ (\E k \in Nat : Last(v, i, k)) => (\E k \in Nat : Last(w, i, k)) \/ writeClosed'[Peer(x)]
      /\ (\A k \in Nat : ~Data(w, i, k)) => (\A k \in Nat : ~Data(v, i, k))
  <2>1. CASE v = w
    BY <1>2, <2>1
  <2>2. CASE v = <<>> /\ done'[x[1]]
    BY <1>1, <2>2, NothingInbound DEF Intact
  <2>3. ASSUME NEW f \in Frame, v = Append(w, f), f.type = "DATA" => f.id # i,
               f.type = "CLOSE" /\ f.id = i => writeClosed'[Peer(x)]
        PROVE  <1>7
    <3>1. /\ \A k \in Nat : Data(v, i, k) <=> Data(w, i, k)
          /\ \A k \in Nat : Last(v, i, k) => Last(w, i, k) \/ (f.type = "CLOSE" /\ f.id = i)
          /\ Rising(v, i, s) /\ (Whole(w, i, Taken(x), s) => Whole(v, i, Taken(x), s))
      BY <1>1, <1>2, <2>3, AppendOther
    <3> QED
      BY <2>3, <3>1
  <2>4. CASE w # <<>> /\ v = Tail(w) /\ (Intact(x)' => ~Data(w, i, 1))
    <3>1. /\ \A k \in Nat : Data(v, i, k) => Data(w, i, k + 1)
          /\ \A k \in Nat : Last(v, i, k) => Last(w, i, k + 1)
          /\ Rising(v, i, s)
      BY <1>1, <1>2, <2>4, TailMoves
    <3>2. Intact(x)' /\ Whole(w, i, Taken(x), s) => Whole(v, i, Taken(x), s)
      BY <1>1, <2>4, TailOther
    <3>3. \A k \in Nat : k + 1 \in Nat
      OBVIOUS
    <3> QED
      BY <3>1, <3>2, <3>3
  <2> QED
    BY <1>3, <2>1, <2>2, <2>3, <2>4
<1>8. Intact(x)' => Whole(v, i, Taken(x), s)
  <2>1. CASE s = 0
    <3>1. Taken(x) <= 0 /\ Rising(v, i, 0)
      BY <1>2, <1>7, <2>1
    <3> QED
      BY <1>1, <2>1, <3>1, NothingWritten
  <2> QED
    BY <1>2, <1>4, <1>7, <2>1
<1>9. \A k \in 1 .. Len(queue'[x]) : queue'[x][k] = Len(got'[x]) + k
  <2>1. CASE queue'[x] = queue[x]
    BY <1>1, <2>1 DEF Flows
  <2>2. CASE queue'[x] = <<>>
    BY <2>2
  <2> QED
    BY <2>1, <2>2 DEF Calm
<1>10. (\E k \in Nat : Last(v, i, k)) => writeClosed'[Peer(x)]
  BY <1>5, <1>7 DEF Flows, w, i
<1>11. peerClosed'[x] =>
         /\ writeClosed'[Peer(x)] /\ (\A k \in Nat : ~Data(v, i, k))
         /\ ~dead'[x] => Taken(x)' = s
  BY <1>1, <1>5, <1>7 DEF Flows, Calm, w, i, s
<1>12. Taken(x)' <= s
  BY <1>1, <1>2
<1> QED
  BY <1>1, <1>6, <1>7, <1>8, <1>9, <1>10, <1>11, <1>12 DEF Flows, w, v, i, s

\* DATA is written: it is the next, and behind it nothing else is.
LEMMA WrittenFlows ==
  ASSUME MuxType, got \in [Refs -> Seq(Nat)], NEW x \in Refs, Flows(x), ~writeClosed[Peer(x)],
         NEW f \in Frame, f.type = "DATA", f.id = x[2], f.n = Written(x) + 1,
         Inbound(x)' = Append(Inbound(x), f) \/ (Inbound(x)' = Inbound(x) /\ ~Intact(x)'),
         written'[Peer(x)] = written[Peer(x)] + 1, Intact(x)' => Intact(x),
         got'[x] = got[x], queue'[x] = queue[x], peerClosed'[x] = peerClosed[x]
  PROVE  Flows(x)'
<1> DEFINE w == Inbound(x)
           v == Inbound(x)'
           i == x[2]
           s == Written(x)
<1>1. /\ w \in Seq(Frame) /\ i \in Ids /\ s \in Nat /\ Written(x)' = s + 1 /\ s + 1 \in Nat
      /\ Taken(x) \in Nat /\ Taken(x)' = Taken(x) /\ Taken(x) <= s
      /\ f.type = "DATA" /\ f.id = i /\ f.n = s + 1
  <2>1. w \in Seq(Frame) /\ s \in Nat /\ Taken(x) \in Nat /\ i \in Ids
    BY FlowType, PeerParts
  <2> QED
    BY <2>1 DEF Flows, Written, Taken
<1>2. Rising(w, i, s) /\ (Intact(x) => Whole(w, i, Taken(x), s)) /\ \A k \in Nat : ~Last(w, i, k)
  BY DEF Flows
<1>3. ~peerClosed'[x]
  BY DEF Flows
<1>4. v = Append(w, f) \/ (v = w /\ ~Intact(x)')
  OBVIOUS
<1>5. \A k \in 1 .. Len(queue'[x]) : queue'[x][k] = Len(got'[x]) + k
  BY DEF Flows
<1> HIDE DEF w, v, i, s
<1>6. /\ Rising(v, i, s + 1) /\ (\A k \in Nat : ~Last(v, i, k))
      /\ Intact(x)' => Whole(v, i, Taken(x), s + 1)
  <2>1. CASE v = Append(w, f)
    BY <1>1, <1>2, <2>1, AppendNext
  <2>2. CASE v = w /\ ~Intact(x)'
    BY <1>1, <1>2, <2>2 DEF Rising
  <2> QED
    BY <1>4, <2>1, <2>2
<1>7. Taken(x) <= s + 1
  BY <1>1
<1> QED
  BY <1>1, <1>3, <1>5, <1>6, <1>7 DEF Flows, w, v, i, s

\* DATA is delivered: it is the next.
LEMMA DeliveredFlows ==
  ASSUME MuxType, got \in [Refs -> Seq(Nat)], NEW x \in Refs, Flows(x), Intact(x), ~peerClosed[x],
         Inbound(x) # <<>>, Data(Inbound(x), x[2], 1), Inbound(x)' = Tail(Inbound(x)),
         queue'[x] = Append(queue[x], Inbound(x)[1].n), got'[x] = got[x],
         written'[Peer(x)] = written[Peer(x)], peerClosed'[x] = peerClosed[x],
         writeClosed'[Peer(x)] = writeClosed[Peer(x)]
  PROVE  Flows(x)'
<1> DEFINE w == Inbound(x)
           v == Inbound(x)'
           i == x[2]
           s == Written(x)
           n == Inbound(x)[1].n
<1>1. /\ w \in Seq(Frame) /\ i \in Ids /\ s \in Nat /\ Written(x)' = s /\ Taken(x) \in Nat
      /\ queue[x] \in Seq(Nat) /\ Len(got[x]) \in Nat /\ Len(queue[x]) \in Nat
      /\ w # <<>> /\ v = Tail(w) /\ Data(w, i, 1)
  BY FlowType, PeerParts DEF Written
<1>2. Rising(w, i, s) /\ Whole(w, i, Taken(x), s)
  BY DEF Flows
<1>3. (\E k \in Nat : Last(w, i, k)) => writeClosed'[Peer(x)]
  BY DEF Flows
<1>4. queue'[x] = Append(queue[x], n) /\ n = w[1].n
  OBVIOUS
<1>5. Taken(x) = Len(got[x]) + Len(queue[x])
  BY DEF Taken
<1>6. \A k \in 1 .. Len(queue[x]) : queue[x][k] = Len(got[x]) + k
  BY DEF Flows
<1> HIDE DEF w, v, i, s, n
<1>7. n = Taken(x) + 1 /\ Taken(x) + 1 <= s /\ Whole(v, i, Taken(x) + 1, s)
  BY <1>1, <1>2, <1>4, TailNext
<1>8. Rising(v, i, s) /\ \A k \in Nat : Last(v, i, k) => Last(w, i, k + 1) /\ k + 1 \in Nat
  BY <1>1, <1>2, TailMoves
<1>9. /\ Len(queue'[x]) = Len(queue[x]) + 1 /\ queue'[x][Len(queue[x]) + 1] = n
      /\ \A k \in 1 .. Len(queue[x]) : queue'[x][k] = queue[x][k]
  <2>1. n \in Nat
    BY <1>1, <1>7
  <2>2. queue[x] \in Seq(Nat) /\ queue'[x] = Append(queue[x], n)
    BY <1>1, <1>4
  <2> QED
    BY <2>1, <2>2, AppendProperties
<1>10. Taken(x)' = Taken(x) + 1
  BY <1>1, <1>5, <1>9 DEF Taken
<1>11. \A k \in 1 .. Len(queue'[x]) : queue'[x][k] = Len(got'[x]) + k
  <2>1. ASSUME NEW k \in 1 .. Len(queue'[x]) PROVE queue'[x][k] = Len(got[x]) + k
    <3>1. CASE k \in 1 .. Len(queue[x])
      BY <1>6, <1>9, <3>1
    <3>2. CASE k = Len(queue[x]) + 1
      BY <1>1, <1>5, <1>7, <1>9, <3>2
    <3>3. k \in 1 .. Len(queue[x]) \/ k = Len(queue[x]) + 1
      <4>1. Len(queue[x]) \in Nat /\ k \in 1 .. Len(queue[x]) + 1
        BY <1>1, <1>9, <2>1
      <4> QED
        BY <4>1
    <3> QED
      BY <3>1, <3>2, <3>3
  <2> QED
    BY <2>1
<1>12. (\E k \in Nat : Last(v, i, k)) => writeClosed'[Peer(x)]
  BY <1>3, <1>8
<1> QED
  BY <1>1, <1>7, <1>8, <1>10, <1>11, <1>12 DEF Flows, v, i, s

\* A CLOSE is taken: all DATA has been.
LEMMA ClosedFlows ==
  ASSUME MuxType, got \in [Refs -> Seq(Nat)], NEW x \in Refs, Flows(x), Intact(x) \/ dead[x], Intact(x)' => Intact(x),
         Inbound(x) # <<>>, Last(Inbound(x), x[2], 1), Inbound(x)' = Tail(Inbound(x)),
         queue'[x] = queue[x], got'[x] = got[x], dead'[x] = dead[x],
         written'[Peer(x)] = written[Peer(x)], writeClosed'[Peer(x)] = writeClosed[Peer(x)]
  PROVE  Flows(x)'
<1> DEFINE w == Inbound(x)
           v == Inbound(x)'
           i == x[2]
           s == Written(x)
<1>1. /\ w \in Seq(Frame) /\ i \in Ids /\ s \in Nat /\ Written(x)' = s /\ Taken(x) \in Nat
      /\ Taken(x)' = Taken(x) /\ w # <<>> /\ v = Tail(w) /\ Last(w, i, 1)
  BY FlowType, PeerParts DEF Written, Taken
<1>2. Rising(w, i, s) /\ (~dead[x] => Whole(w, i, Taken(x), s)) /\ Taken(x) <= s /\ writeClosed'[Peer(x)]
  BY <1>1 DEF Flows
<1>3. \A k \in 1 .. Len(queue'[x]) : queue'[x][k] = Len(got'[x]) + k
  BY DEF Flows
<1> HIDE DEF w, v, i, s
<1>4. \A k \in Nat : ~Data(w, i, k)
  <2>1. \A k \in Nat : Data(w, i, k) => k < 1
    BY <1>1, <1>2 DEF Rising
  <2>2. \A k \in Nat : Data(w, i, k) => k >= 1
    BY DEF Data
  <2> QED
    BY <2>1, <2>2
<1>5. ~dead[x] => Taken(x) = s
  <2>1. CASE ~dead[x] /\ Taken(x) < s
    <3>1. Taken(x) + 1 \in Taken(x) + 1 .. s
      BY <1>1, <2>1
    <3> QED
      BY <1>2, <1>4, <3>1 DEF Whole
  <2> QED
    BY <1>1, <1>2, <2>1
<1>6. /\ Rising(v, i, s)
      /\ \A k \in Nat : ~Data(v, i, k)
  <2>1. \A k \in Nat : k + 1 \in Nat
    OBVIOUS
  <2>2. \A k \in Nat : Data(v, i, k) => Data(w, i, k + 1)
    BY <1>1, TailMoves
  <2>3. Rising(v, i, s)
    BY <1>1, <1>2, TailMoves
  <2> QED
    BY <1>4, <2>1, <2>2, <2>3
<1>7. Intact(x)' => Whole(v, i, Taken(x), s)
  <2>1. \A m \in s + 1 .. s : FALSE
    BY <1>1
  <2>2. Intact(x)' => ~dead[x]
    BY DEF Intact
  <2> QED
    BY <1>5, <1>6, <2>1, <2>2 DEF Whole
<1> QED
  BY <1>1, <1>2, <1>3, <1>5, <1>6, <1>7 DEF Flows, v, i, s

\* What is queued first is read.
LEMMA ReadFlows ==
  ASSUME MuxType, got \in [Refs -> Seq(Nat)], NEW x \in Refs, Flows(x), queue[x] # <<>>,
         queue'[x] = Tail(queue[x]), got'[x] = Append(got[x], Head(queue[x])),
         UNCHANGED <<wire, written, writeClosed, peerClosed, dead, done, table>>
  PROVE  /\ Head(queue[x]) = Len(got[x]) + 1 /\ Len(got[x]) < Written(x)
         /\ Flows(x)'
<1> DEFINE q == queue[x]
           g == got[x]
<1>1. q \in Seq(Nat) /\ g \in Seq(Nat) /\ Len(g) \in Nat /\ q # <<>> /\ Written(x) \in Nat
  BY FlowType
<1>2. Len(q) \in Nat /\ Len(q) >= 1 /\ Head(q) = q[1] /\ Head(q) \in Nat
  BY <1>1
<1>3. Len(Tail(q)) = Len(q) - 1 /\ \A k \in 1 .. Len(Tail(q)) : Tail(q)[k] = q[k + 1]
  BY <1>1, <1>2
<1>4. Len(Append(g, Head(q))) = Len(g) + 1
  BY <1>1, <1>2
<1>5. \A k \in 1 .. Len(q) : q[k] = Len(g) + k
  BY DEF Flows
<1>6. Len(g) + Len(q) <= Written(x)
  BY DEF Flows, Taken
<1>7. queue'[x] = Tail(q) /\ got'[x] = Append(g, Head(q)) /\ Taken(x) = Len(g) + Len(q)
  BY DEF Taken
<1> HIDE DEF q, g
<1>8. Head(q) = Len(g) + 1 /\ Len(g) < Written(x)
  <2>1. 1 \in 1 .. Len(q)
    BY <1>2
  <2>2. q[1] = Len(g) + 1
    BY <1>5, <2>1
  <2>3. Len(g) < Written(x)
    BY <1>1, <1>2, <1>6
  <2> QED
    BY <1>2, <2>2, <2>3
<1>9. Taken(x)' = Taken(x)
  <2>1. Taken(x)' = Len(got'[x]) + Len(queue'[x])
    BY DEF Taken
  <2> QED
    BY <1>1, <1>2, <1>3, <1>4, <1>7, <2>1
<1>10. \A k \in 1 .. Len(queue'[x]) : queue'[x][k] = Len(got'[x]) + k
  <2>1. ASSUME NEW k \in 1 .. Len(Tail(q)) PROVE Tail(q)[k] = Len(g) + 1 + k
    <3>1. k + 1 \in 1 .. Len(q) /\ Tail(q)[k] = q[k + 1]
      BY <1>2, <1>3, <2>1
    <3> QED
      BY <1>1, <1>5, <3>1
  <2> QED
    BY <1>4, <1>7, <2>1
<1>11. Inbound(x)' = Inbound(x) /\ Written(x)' = Written(x) /\ (Intact(x)' <=> Intact(x))
  BY DEF Inbound, Written, Intact
<1> QED
  BY <1>8, <1>9, <1>10, <1>11 DEF Flows, q, g

-----------------------------------------------------------------------------
(* Every step. *)

\* What a stream's step sends, and does to the tables, leaves the directions other
\* than its own, and its own if it sends no DATA.
LEMMA QuietCalm ==
  ASSUME MuxType, NEW x \in Refs, NEW y \in Refs, TablesAt(y),
         UNCHANGED <<got, peerClosed, done>>, written'[Peer(x)] = written[Peer(x)],
         \A z \in Refs : writeClosed[z] => writeClosed'[z],
         UNCHANGED <<queue, dead>> \/ MarkDead(y),
         \/ UNCHANGED wire
         \/ \E f \in Frame :
              /\ Send(y[1], f) /\ (f.type = "DATA" => f.id = y[2] /\ x # Peer(y))
              /\ f.type = "CLOSE" => f.id = y[2] /\ writeClosed'[y]
  PROVE  Calm(x)
<1> USE DEF MuxType
<1>1. /\ x[1] \in Ends /\ x[2] \in Ids /\ Other(x[1]) \in Ends /\ Peer(x) \in Refs /\ y[1] \in Ends
      /\ x = <<x[1], x[2]>> /\ y = <<y[1], y[2]>>
  BY PeerParts, RefParts
<1>2. x[2] \in table'[x[1]] => x[2] \in table[x[1]]
  BY <1>1, TablesShrink
<1>3. /\ dead[x] => dead'[x]
      /\ queue'[x] = queue[x] \/ (queue'[x] = <<>> /\ dead'[x])
  BY DEF MarkDead, StreamType
<1>4. Intact(x)' => Intact(x)
  BY <1>2, <1>3 DEF Intact
<1>5. \/ Inbound(x)' = Inbound(x)
      \/ \E f \in Frame :
           /\ Inbound(x)' = Append(Inbound(x), f) /\ (f.type = "DATA" => f.id # x[2])
           /\ f.type = "CLOSE" /\ f.id = x[2] => writeClosed'[Peer(x)]
  <2>1. CASE UNCHANGED wire
    BY <2>1 DEF Inbound
  <2>2. ASSUME NEW f \in Frame, Send(y[1], f), f.type = "DATA" => f.id = y[2] /\ x # Peer(y),
               f.type = "CLOSE" => f.id = y[2] /\ writeClosed'[y]
        PROVE  <1>5
    <3>1. wire' = wire \/ wire' = [wire EXCEPT ![y[1]] = Append(@, f)]
      BY <2>2 DEF Send
    <3>2. CASE wire' = wire
      BY <3>2 DEF Inbound
    <3>3. CASE wire' = [wire EXCEPT ![y[1]] = Append(@, f)] /\ y[1] # Other(x[1])
      BY <1>1, <3>3 DEF Inbound, SessionType
    <3>4. CASE wire' = [wire EXCEPT ![y[1]] = Append(@, f)] /\ y[1] = Other(x[1])
      <4>1. Inbound(x)' = Append(Inbound(x), f)
        BY <1>1, <3>4 DEF Inbound, SessionType
      <4>2. y[2] = x[2] => y = Peer(x) /\ x = Peer(y)
        <5>1. Other(y[1]) = x[1]
          BY <3>4, PeerParts
        <5> QED
          BY <1>1, <3>4, <5>1 DEF Peer
      <4> QED
        BY <2>2, <4>1, <4>2
    <3> QED
      BY <3>1, <3>2, <3>3, <3>4
  <2> QED
    BY <2>1, <2>2
<1> QED
  BY <1>1, <1>3, <1>4, <1>5 DEF Calm

\* Nothing tells the gateway of a stream the connector has not taken.
LEMMA UnknownStep ==
  ASSUME MuxType, NEW i \in Ids, Unknown(i), NEW y \in Refs,
         \A z \in Refs : z # y => user'[z] = user[z] /\ opened'[z] = opened[z] /\ written'[z] = written[z],
         user'[y] = user[y] \/ user'[y] # "none",
         user'[y] = "none" => written'[y] = written[y],
         y[1] = "gateway" /\ user[y] \in Quiet /\ opened[y] # "yes" =>
           user'[y] \in Quiet /\ written'[y] = written[y],
         y[1] = "gateway" /\ opened'[y] = "yes" => opened[y] = "yes" \/ user[<<"connector", y[2]>>] # "none",
         \/ wire'["connector"] = wire["connector"] \/ wire'["connector"] = <<>>
         \/ wire["connector"] # <<>> /\ wire'["connector"] = Tail(wire["connector"])
         \/ \E f \in Frame :
              /\ wire'["connector"] = Append(wire["connector"], f)
              /\ f.type = "ACCEPT" => f.id = y[2] /\ y[1] = "connector" /\ user[y] # "none"
  PROVE  Unknown(i)'
<1> DEFINE c == <<"connector", i>>
           g == <<"gateway", i>>
           w == wire["connector"]
           v == wire'["connector"]
<1>1. /\ c \in Refs /\ g \in Refs /\ c # g /\ c[1] = "connector" /\ c[2] = i /\ g[1] = "gateway" /\ g[2] = i
      /\ "connector" \in Ends /\ "gateway" \in Ends
  BY RefParts DEF Ends
<1> SUFFICES ASSUME user'[c] = "none"
             PROVE  /\ user'[g] \in Quiet /\ opened'[g] # "yes" /\ written'[g] = 0 /\ written'[c] = 0
                    /\ \A k \in 1 .. Len(v) : v[k].id = i => v[k].type # "ACCEPT"
  BY DEF Unknown
<1>2. user[c] = "none" /\ (y = c => user[y] = "none")
  BY <1>1
<1>3. /\ user[g] \in Quiet /\ opened[g] # "yes" /\ written[g] = 0 /\ written[c] = 0
      /\ \A k \in 1 .. Len(w) : w[k].id = i => w[k].type # "ACCEPT"
  BY <1>2 DEF Unknown
<1>4. user'[g] \in Quiet /\ written'[g] = 0
  BY <1>1, <1>3
<1>5. opened'[g] # "yes"
  BY <1>1, <1>2, <1>3
<1>6. written'[c] = 0
  BY <1>1, <1>3
<1>7. w \in Seq(Frame) /\ Len(w) \in Nat
  BY <1>1 DEF MuxType, SessionType
<1>8. \A k \in 1 .. Len(v) : v[k].id = i => v[k].type # "ACCEPT"
  <2>1. CASE v = w
    BY <1>3, <2>1
  <2>2. CASE v = <<>>
    BY <2>2
  <2>3. CASE w # <<>> /\ v = Tail(w)
    <3>1. Len(v) = Len(w) - 1 /\ \A k \in 1 .. Len(v) : v[k] = w[k + 1]
      <4> HIDE DEF w, v
      <4> QED
        BY <1>7, <2>3, HeadTailProperties, EmptySeq
    <3>2. \A k \in 1 .. Len(v) : k + 1 \in 1 .. Len(w)
      BY <1>7, <3>1
    <3> QED
      BY <1>3, <3>1, <3>2
  <2>4. ASSUME NEW f \in Frame, v = Append(w, f), f.type = "ACCEPT" => f.id = y[2] /\ y[1] = "connector" /\ user[y] # "none"
        PROVE  <1>8
    <3>1. Len(v) = Len(w) + 1 /\ v[Len(w) + 1] = f /\ \A k \in 1 .. Len(w) : v[k] = w[k]
      <4> HIDE DEF w, v
      <4> QED
        BY <1>7, <2>4
    <3>2. f.type = "ACCEPT" => f.id # i
      <4>1. y = <<y[1], y[2]>>
        BY RefParts
      <4> QED
        BY <1>2, <2>4, <4>1
    <3>3. \A k \in 1 .. Len(v) : k \in 1 .. Len(w) \/ k = Len(w) + 1
      BY <1>7, <3>1
    <3> QED
      BY <1>3, <3>1, <3>2, <3>3
  <2> QED
    BY <2>1, <2>2, <2>3, <2>4
<1> QED
  BY <1>4, <1>5, <1>6, <1>8

\* A stream marked dead has an answer, and no other stream changes.
LEMMA DeadOpened ==
  ASSUME opened \in [Refs -> {"no", "yes", "refused"}], NEW y \in Refs, MarkDead(y)
  PROVE  /\ opened' \in [Refs -> {"no", "yes", "refused"}]
         /\ \A x \in Refs : x # y => opened'[x] = opened[x]
         /\ opened'[y] = "yes" => opened[y] = "yes"
<1> DEFINE v == IF opened[y] = "no" THEN "refused" ELSE opened[y]
<1>1. v \in {"no", "yes", "refused"} /\ opened' = [opened EXCEPT ![y] = v]
  BY DEF MarkDead
<1>2. v = "yes" => opened[y] = "yes"
  OBVIOUS
<1> HIDE DEF v
<1> QED
  BY <1>1, <1>2

\* And what it had queued is gone.
LEMMA DeadQueue ==
  ASSUME MuxType, NEW y \in Refs, MarkDead(y)
  PROVE  /\ queue'[y] = <<>> /\ dead'[y] /\ UNCHANGED <<peerClosed, writeClosed>>
         /\ \A x \in Refs : x # y => queue'[x] = queue[x] /\ dead'[x] = dead[x]
BY DEF MarkDead, MuxType, StreamType

\* A frame sent is behind all others of its direction, if it is there at all.
LEMMA SendAt ==
  ASSUME MuxType, NEW e \in Ends, NEW f \in Frame, Send(e, f), NEW d \in Ends
  PROVE  wire'[d] = wire[d] \/ (d = e /\ wire'[d] = Append(wire[d], f))
  BY DEF Send, MuxType, SessionType

\* The end of a session, and the read loop's own frames.
LEMMA EndFlow ==
  ASSUME MuxType, MuxType', FlowInv, NEW e \in Ends,
         UNCHANGED <<user, reader, got, written, peerClosed, writeClosed, done, answer>>,
         \/ (Fail(e) \/ UNCHANGED <<err, failing, table>>) /\ UNCHANGED <<queue, dead, opened>>
         \/ \E i \in Ids :
              /\ MarkDead(<<e, i>>)
              /\ failing' = [failing EXCEPT ![e] = @ \ {i}] /\ UNCHANGED <<err, table>>,
         \/ UNCHANGED wire
         \/ \E f \in Frame : Send(e, f) /\ f.type \notin {"DATA", "CLOSE", "ACCEPT"}
  PROVE  FlowInv'
<1>1. /\ got \in [Refs -> Seq(Nat)] /\ opened \in [Refs -> {"no", "yes", "refused"}]
      /\ \A d \in Ends : answer[d].type \in {"RESET", "REFUSE"}
  BY DEF FlowInv
<1>2. /\ got' \in [Refs -> Seq(Nat)] /\ opened' \in [Refs -> {"no", "yes", "refused"}]
      /\ \A d \in Ends : answer'[d].type \in {"RESET", "REFUSE"}
  <2>1. opened' \in [Refs -> {"no", "yes", "refused"}]
    BY <1>1, RefParts, DeadOpened
  <2> QED
    BY <1>1, <2>1
<1>3. ASSUME NEW i \in Ids
      PROVE  \E y \in Refs :
               /\ TablesAt(y) /\ (UNCHANGED <<queue, dead, opened>> \/ MarkDead(y)) /\ y[1] = e
  <2>1. CASE (Fail(e) \/ UNCHANGED <<err, failing, table>>) /\ UNCHANGED <<queue, dead, opened>>
    <3>1. <<e, i>> \in Refs /\ <<e, i>>[1] = e
      BY RefParts
    <3>2. TablesAt(<<e, i>>)
      BY <2>1, <3>1 DEF TablesAt
    <3> QED
      BY <2>1, <3>1, <3>2
  <2>2. ASSUME NEW j \in Ids, MarkDead(<<e, j>>), failing' = [failing EXCEPT ![e] = @ \ {j}],
               UNCHANGED <<err, table>>
        PROVE  \E y \in Refs :
                 /\ TablesAt(y) /\ (UNCHANGED <<queue, dead, opened>> \/ MarkDead(y)) /\ y[1] = e
    <3>1. <<e, j>> \in Refs /\ <<e, j>>[1] = e /\ <<e, j>>[2] = j
      BY RefParts
    <3>2. TablesAt(<<e, j>>)
      BY <2>2, <3>1 DEF TablesAt
    <3> QED
      BY <2>2, <3>1, <3>2
  <2> QED
    BY <2>1, <2>2
<1>4. ASSUME NEW x \in Refs PROVE Flows(x)'
  <2>1. x[2] \in Ids /\ Flows(x)
    BY RefParts DEF FlowInv
  <2>2. PICK y \in Refs : TablesAt(y) /\ (UNCHANGED <<queue, dead, opened>> \/ MarkDead(y)) /\ y[1] = e
    BY <1>3, <2>1
  <2>3. \/ UNCHANGED wire
        \/ \E f \in Frame :
             /\ Send(y[1], f) /\ (f.type = "DATA" => f.id = y[2] /\ x # Peer(y))
             /\ f.type = "CLOSE" => f.id = y[2] /\ writeClosed'[y]
    BY <2>2
  <2>4. Calm(x)
    BY <2>2, <2>3, QuietCalm
  <2> QED
    BY <1>1, <1>2, <2>1, <2>4, CalmFlows
<1>5. ASSUME NEW i \in Ids PROVE Unknown(i)'
  <2>1. PICK y \in Refs : TablesAt(y) /\ (UNCHANGED <<queue, dead, opened>> \/ MarkDead(y)) /\ y[1] = e
    BY <1>3
  <2>2. /\ \A z \in Refs : z # y => opened'[z] = opened[z]
        /\ opened'[y] = "yes" => opened[y] = "yes"
    BY <1>1, <2>1 DEF MarkDead
  <2>3. \/ wire'["connector"] = wire["connector"]
        \/ \E f \in Frame : wire'["connector"] = Append(wire["connector"], f) /\ f.type # "ACCEPT"
    BY SendAt DEF Ends
  <2>4. Unknown(i)
    BY DEF FlowInv
  <2> QED
    BY <2>2, <2>3, <2>4, UnknownStep
<1>6. \A x \in Refs : Unread(x)'
  BY DEF FlowInv, Unread
<1> QED
  BY <1>2, <1>4, <1>5, <1>6 DEF FlowInv

\* A stream's user goes on, but for the DATA it writes.
LEMMA UserFlow ==
  ASSUME MuxType, MuxType', FlowInv, NEW y \in Refs, NEW a \in UserAt, a # "none", Goes(y, a), TablesAt(y),
         UNCHANGED <<got, written, peerClosed, done, answer>>,
         \A z \in Refs : writeClosed[z] => writeClosed'[z],
         UNCHANGED <<queue, dead, opened>> \/ MarkDead(y),
         \/ UNCHANGED wire
         \/ \E f \in Frame :
              /\ Send(y[1], f) /\ f.type # "DATA" /\ (f.type = "CLOSE" => f.id = y[2] /\ writeClosed'[y])
              /\ f.type = "ACCEPT" => f.id = y[2] /\ y[1] = "connector" /\ user[y] # "none",
         UNCHANGED reader \/ (a = "copy" /\ \A z \in Refs : z # y => reader'[z] = reader[z]),
         a \in Early => user[y] \in Early,
         y[1] = "gateway" /\ user[y] \in Quiet /\ opened[y] # "yes" => a \in Quiet
  PROVE  FlowInv'
<1>1. /\ got \in [Refs -> Seq(Nat)] /\ opened \in [Refs -> {"no", "yes", "refused"}]
      /\ \A d \in Ends : answer[d].type \in {"RESET", "REFUSE"}
  BY DEF FlowInv
<1>2. /\ got' \in [Refs -> Seq(Nat)] /\ opened' \in [Refs -> {"no", "yes", "refused"}]
      /\ \A d \in Ends : answer'[d].type \in {"RESET", "REFUSE"}
  <2>1. opened' \in [Refs -> {"no", "yes", "refused"}]
    BY <1>1, RefParts, DeadOpened
  <2> QED
    BY <1>1, <2>1
<1>3. user'[y] = a /\ \A z \in Refs : z # y => user'[z] = user[z]
  BY DEF Goes, MuxType, StreamType
<1>4. ASSUME NEW x \in Refs PROVE Flows(x)'
  <2>1. Flows(x)
    BY DEF FlowInv
  <2>2. Calm(x)
    BY QuietCalm
  <2> QED
    BY <1>1, <1>2, <2>1, <2>2, CalmFlows
<1>5. ASSUME NEW i \in Ids PROVE Unknown(i)'
  <2>1. /\ \A z \in Refs : z # y => opened'[z] = opened[z]
        /\ opened'[y] = "yes" => opened[y] = "yes"
    BY <1>1 DEF MarkDead
  <2>2. \/ wire'["connector"] = wire["connector"]
        \/ \E f \in Frame :
             /\ wire'["connector"] = Append(wire["connector"], f)
             /\ f.type = "ACCEPT" => f.id = y[2] /\ y[1] = "connector" /\ user[y] # "none"
    <3>1. y[1] \in Ends /\ "connector" \in Ends
      BY RefParts DEF Ends
    <3> QED
      BY <3>1, SendAt
  <2>3. Unknown(i)
    BY DEF FlowInv
  <2> QED
    BY <1>3, <2>1, <2>2, <2>3, UnknownStep
<1>6. ASSUME NEW x \in Refs PROVE Unread(x)'
  <2>1. Unread(x) /\ Unread(y)
    BY DEF FlowInv
  <2>2. CASE x = y
    BY <1>3, <2>1, <2>2 DEF Unread, Early
  <2>3. CASE x # y
    BY <1>3, <2>1, <2>3 DEF Unread
  <2> QED
    BY <2>2, <2>3
<1> QED
  BY <1>2, <1>4, <1>5, <1>6 DEF FlowInv

\* The session's steps but for a frame read.
LEMMA SessionFlow ==
  ASSUME MuxType, MuxType', LeftInv, FlowInv, NEW e \in Ends,
         FailMarks(e) \/ FailEnds(e) \/ Close(e) \/ ReadFails(e) \/ LoopWrites(e)
  PROVE  FlowInv'
<1>1. CASE FailMarks(e)
  <2>1. /\ UNCHANGED <<user, reader, got, written, peerClosed, writeClosed, done, answer, wire>>
        /\ \E i \in Ids :
             /\ MarkDead(<<e, i>>) /\ failing' = [failing EXCEPT ![e] = @ \ {i}] /\ UNCHANGED <<err, table>>
    BY <1>1 DEF FailMarks, conn, local, MarkDead, MuxType, SessionType
  <2> QED
    BY <2>1, EndFlow
<1>2. CASE FailEnds(e)
  <2>1. /\ UNCHANGED <<user, reader, got, written, peerClosed, writeClosed, answer, table, queue, dead, opened>>
        /\ done' = [done EXCEPT ![e] = TRUE] /\ wire' = [wire EXCEPT ![Other(e)] = <<>>]
    BY <1>2 DEF FailEnds, stream, local
  <2>2. got \in [Refs -> Seq(Nat)] /\ got' \in [Refs -> Seq(Nat)]
    BY <2>1 DEF FlowInv
  <2>3. \A d \in Ends : /\ d = e => done'[d]
                        /\ done[d] => done'[d]
                        /\ wire'[d] = wire[d] \/ (d = Other(e) /\ wire'[d] = <<>>)
    BY <2>1 DEF MuxType, SessionType
  <2>4. ASSUME NEW x \in Refs PROVE Flows(x)'
    <3>1. /\ x[1] \in Ends /\ Other(x[1]) \in Ends /\ Other(Other(x[1])) = x[1] /\ Other(Other(e)) = e
      BY PeerParts DEF Other, Ends
    <3>2. Inbound(x)' = Inbound(x) \/ (Inbound(x)' = <<>> /\ done'[x[1]])
      BY <2>3, <3>1 DEF Inbound
    <3>3. Intact(x)' => Intact(x)
      BY <2>1, <2>3, <3>1 DEF Intact
    <3>4. Calm(x)
      BY <2>1, <3>2, <3>3 DEF Calm
    <3> QED
      BY <2>2, <3>4, CalmFlows DEF FlowInv
  <2>5. ASSUME NEW i \in Ids PROVE Unknown(i)'
    <3>1. <<e, i>> \in Refs /\ "connector" \in Ends
      BY RefParts DEF Ends
    <3>2. Unknown(i)
      BY DEF FlowInv
    <3> QED
      BY <2>1, <2>3, <3>1, <3>2, UnknownStep
  <2> QED
    BY <2>1, <2>2, <2>4, <2>5 DEF FlowInv, Unread
<1>3. CASE Close(e)
  <2>1. /\ UNCHANGED <<user, reader, got, written, peerClosed, writeClosed, done, answer, queue, dead, opened>>
        /\ Fail(e) /\ (Send(e, F("RESET", 0)) \/ UNCHANGED wire)
    BY <1>3 DEF Close, stream, local
  <2>2. F("RESET", 0) \in Frame /\ F("RESET", 0).type = "RESET"
    BY FrameType
  <2> QED
    BY <2>1, <2>2, EndFlow
<1>4. CASE ReadFails(e)
  <2>1. /\ UNCHANGED <<user, reader, got, written, peerClosed, writeClosed, done, answer, queue, dead, opened, wire>>
        /\ Fail(e)
    BY <1>4 DEF ReadFails, stream, local
  <2> QED
    BY <2>1, EndFlow
<1>5. CASE LoopWrites(e)
  <2>1. /\ UNCHANGED <<user, reader, got, written, peerClosed, writeClosed, done, answer, queue, dead, opened>>
        /\ \/ Send(e, answer[e]) /\ UNCHANGED <<err, failing, table>>
           \/ Fail(e) /\ UNCHANGED wire
    BY <1>5 DEF LoopWrites, stream, local
  <2>2. answer[e] \in Frame /\ answer[e].type \in {"RESET", "REFUSE"}
    BY DEF FlowInv, MuxType, SessionType
  <2>3. answer[e].type \notin {"DATA", "CLOSE", "ACCEPT"}
    BY <2>2
  <2> QED
    BY <2>1, <2>2, <2>3, EndFlow
<1> QED
  BY <1>1, <1>2, <1>3, <1>4, <1>5

\* Until the connector has taken the OPEN nothing is written on the stream.
LEMMA NotWritten ==
  ASSUME MuxType, LeftInv, FlowInv, NEW i \in Ids, Sent(i) \/ Unsent(i)
  PROVE  /\ user[<<"connector", i>>] = "none"
         /\ Written(<<"gateway", i>>) = 0 /\ Written(<<"connector", i>>) = 0
<1>1. user[<<"connector", i>>] = "none"
  BY DEF LeftInv, OpenedOnce, Untaken
<1>2. Peer(<<"gateway", i>>) = <<"connector", i>> /\ Peer(<<"connector", i>>) = <<"gateway", i>>
  BY DEF Peer, Other
<1>3. Unknown(i)
  BY DEF FlowInv
<1> QED
  BY <1>1, <1>2, <1>3 DEF Unknown, Written

\* A stream is opened: nothing is on the way yet.
LEMMA OpenFlow ==
  ASSUME MuxType, MuxType', LeftInv, FlowInv, Open
  PROVE  FlowInv'
<1> DEFINE i == nextID + 1
           y == <<"gateway", i>>
<1>1. i \in Ids /\ y \in Refs /\ y[1] = "gateway" /\ y[2] = i /\ "gateway" \in Ends /\ user[y] = "none"
  <2>1. i \in Ids
    BY DEF Open, MuxType, SessionType, Ids
  <2> QED
    BY <2>1, RefParts DEF Ends, LeftInv, Numbered, MuxType, SessionType
<1>2. /\ table' = [table EXCEPT !["gateway"] = @ \cup {i}] /\ Goes(y, "open")
      /\ UNCHANGED <<done, wire, answer, queue, peerClosed, writeClosed, dead, opened, reader, written, got>>
  BY DEF Open, session, stream
<1>3. got \in [Refs -> Seq(Nat)] /\ got' \in [Refs -> Seq(Nat)]
  BY <1>2 DEF FlowInv
<1>4. Written(y) = 0
  BY <1>1, NotWritten DEF Unsent
<1>5. user'[y] = "open" /\ \A z \in Refs : z # y => user'[z] = user[z]
  BY <1>1, <1>2 DEF Goes, MuxType, StreamType
<1> HIDE DEF i, y
<1>6. ASSUME NEW x \in Refs PROVE Flows(x)'
  <2>1. x[1] \in Ends /\ x = <<x[1], x[2]>> /\ y = <<y[1], y[2]>>
    BY <1>1, RefParts
  <2>2. x # y => (Intact(x)' => Intact(x))
    BY <1>1, <1>2, <2>1 DEF Intact, MuxType, SessionType
  <2>3. Calm(x)
    BY <1>2, <1>4, <2>2 DEF Calm, Inbound
  <2> QED
    BY <1>3, <2>3, CalmFlows DEF FlowInv
<1>7. ASSUME NEW j \in Ids PROVE Unknown(j)'
  <2>1. Unknown(j) /\ "open" \in Quiet /\ "open" # "none"
    BY DEF FlowInv, Quiet
  <2> QED
    BY <1>1, <1>2, <1>5, <2>1, UnknownStep
<1>8. ASSUME NEW x \in Refs PROVE Unread(x)'
  <2>1. Unread(x) /\ "none" \in Early
    BY DEF FlowInv, Early
  <2> QED
    BY <1>1, <1>2, <1>5, <2>1 DEF Unread
<1> QED
  BY <1>2, <1>3, <1>6, <1>7, <1>8 DEF FlowInv

\* An OPEN is handed to a handler.
LEMMA AcceptFlow ==
  ASSUME MuxType, MuxType', LeftInv, FlowInv, Accept
  PROVE  FlowInv'
<1> DEFINE i == Head(accept)
           y == <<"connector", i>>
<1>1. i \in Ids /\ i = accept[1] /\ 1 \in 1 .. Len(accept)
  <2>1. accept \in Seq(Ids) /\ accept # <<>>
    BY DEF Accept, MuxType, SessionType
  <2> QED
    BY <2>1
<1>2. y \in Refs /\ y[1] = "connector" /\ y[2] = i /\ user[y] = "queued"
  BY <1>1, RefParts DEF Ends, LeftInv, Waiting
<1>3. /\ Goes(y, "answer")
      /\ UNCHANGED <<err, failing, done, wire, table, answer, queue, peerClosed, writeClosed, dead, opened,
                     reader, written, got>>
  BY DEF Accept, session, stream
<1> HIDE DEF i, y
<1>4. "answer" \in UserAt /\ "queued" \in Early
  BY DEF UserAt, Early
<1>5. TablesAt(y)
  BY <1>3 DEF TablesAt
<1> QED
  BY <1>2, <1>3, <1>4, <1>5, UserFlow

\* A write that is no DATA.
LEMMA WritesFlow ==
  ASSUME MuxType, MuxType', FlowInv, NEW y \in Refs, NEW a \in UserAt, NEW b \in UserAt, NEW f \in Frame,
         Writes(y, f, a, b), a # "none", b # "none", f.type \notin {"DATA", "CLOSE"},
         f.type = "ACCEPT" => f.id = y[2] /\ y[1] = "connector" /\ user[y] # "none",
         UNCHANGED <<got, written, peerClosed, writeClosed, queue, dead, opened>>,
         UNCHANGED reader \/ (user'[y] = "copy" /\ \A z \in Refs : z # y => reader'[z] = reader[z]),
         a \in Early \/ b \in Early => user[y] \in Early,
         y[1] = "gateway" /\ user[y] \in Quiet => a \in Quiet /\ b \in Quiet
  PROVE  FlowInv'
<1>1. UNCHANGED <<done, answer>>
  BY DEF Writes
<1>2. CASE Send(y[1], f) /\ Goes(y, a) /\ UNCHANGED <<err, failing, table>>
  <2>1. TablesAt(y)
    BY <1>2 DEF TablesAt
  <2>2. UNCHANGED reader \/ (a = "copy" /\ \A z \in Refs : z # y => reader'[z] = reader[z])
    BY <1>2 DEF Goes, MuxType, StreamType
  <2> QED
    BY <1>1, <1>2, <2>1, <2>2, UserFlow
<1>3. CASE Fail(y[1]) /\ Goes(y, b) /\ UNCHANGED wire
  <2>1. TablesAt(y)
    BY <1>3 DEF TablesAt
  <2>2. UNCHANGED reader \/ (b = "copy" /\ \A z \in Refs : z # y => reader'[z] = reader[z])
    BY <1>3 DEF Goes, MuxType, StreamType
  <2> QED
    BY <1>1, <1>3, <2>1, <2>2, UserFlow
<1> QED
  BY <1>2, <1>3 DEF Writes

\* A reset, of a stream that may be dead already.
LEMMA ResetFlow ==
  ASSUME MuxType, MuxType', FlowInv, NEW y \in Refs, NEW a \in UserAt, NEW b \in UserAt, Reset(y, a, b),
         a # "none", b # "none", a \notin Early, b \notin Early,
         y[1] = "gateway" /\ user[y] \in Quiet => a \in Quiet /\ b \in Quiet,
         UNCHANGED <<err, failing, done, wire, answer, reader, got, written>>
  PROVE  FlowInv'
<1>1. CASE dead[y]
  <2>1. /\ Goes(y, b) /\ TablesAt(y)
        /\ UNCHANGED <<peerClosed, writeClosed, queue, dead, opened>>
    BY <1>1 DEF Reset, TablesAt, stream
  <2> QED
    BY <2>1, UserFlow
<1>2. CASE ~dead[y]
  <2>1. Goes(y, a) /\ MarkDead(y) /\ TablesAt(y) /\ UNCHANGED <<peerClosed, writeClosed>>
    BY <1>2 DEF Reset, TablesAt, MarkDead
  <2> QED
    BY <2>1, UserFlow
<1> QED
  BY <1>1, <1>2

\* Opening a stream, or not.
LEMMA OpeningFlow ==
  ASSUME MuxType, MuxType', LeftInv, FlowInv, NEW i \in Ids, Opening(i)
  PROVE  FlowInv'
<1> DEFINE g == <<"gateway", i>>
           c == <<"connector", i>>
<1>1. /\ g \in Refs /\ g[1] = "gateway" /\ g[2] = i /\ c \in Refs /\ c[1] = "connector" /\ c[2] = i
  BY RefParts DEF Ends
<1>2. {"wait", "copy", "done", "abort", "refuse"} \subseteq UserAt
  BY DEF UserAt
<1>3. /\ {"open", "wait", "answer", "refuse"} \subseteq Early /\ {"wait", "done", "abort"} \subseteq Quiet
      /\ "copy" \notin Early /\ "done" \notin Early /\ "abort" \notin Early
  BY DEF Early, Quiet
<1>4. CASE SendOpen(i)
  <2>1. /\ user[g] = "open" /\ Writes(g, F("OPEN", i), "wait", "done")
        /\ UNCHANGED <<got, written, peerClosed, writeClosed, queue, dead, opened, reader>>
    BY <1>4 DEF SendOpen, stream
  <2>2. F("OPEN", i) \in Frame /\ F("OPEN", i).type = "OPEN"
    BY FrameType
  <2> HIDE DEF g, c
  <2> QED
    BY <1>1, <1>2, <1>3, <2>1, <2>2, WritesFlow
<1>5. CASE OpenReturns(i)
  <2>1. /\ user[g] = "wait"
        /\ UNCHANGED <<got, written, peerClosed, writeClosed, queue, dead, opened, done, answer, wire, err, failing>>
        /\ \/ Goes(g, "copy") /\ table' = table /\ opened[g] = "yes" /\ reader' = [reader EXCEPT ![g] = "read"]
           \/ Goes(g, "done") /\ Remove("gateway", i) /\ UNCHANGED reader
           \/ Goes(g, "done") /\ table' = table /\ UNCHANGED reader
    BY <1>5 DEF OpenReturns, session, stream
  <2>2. TablesAt(g)
    BY <1>1, <2>1 DEF TablesAt
  <2>3. \A z \in Refs : z # g => [reader EXCEPT ![g] = "read"][z] = reader[z]
    BY DEF MuxType, StreamType
  <2> HIDE DEF g, c
  <2>4. CASE Goes(g, "copy") /\ opened[g] = "yes" /\ reader' = [reader EXCEPT ![g] = "read"]
    BY <1>1, <1>2, <1>3, <2>1, <2>2, <2>3, <2>4, UserFlow
  <2>5. CASE Goes(g, "done") /\ UNCHANGED reader
    BY <1>1, <1>2, <1>3, <2>1, <2>2, <2>5, UserFlow
  <2> QED
    BY <2>1, <2>4, <2>5
<1>6. CASE OpenCancelled(i)
  <2>1. /\ user[g] = "wait" /\ Reset(g, "abort", "done")
        /\ UNCHANGED <<err, failing, done, wire, answer, reader, got, written>>
    BY <1>6 DEF OpenCancelled, session
  <2> HIDE DEF g, c
  <2> QED
    BY <1>1, <1>2, <1>3, <2>1, ResetFlow
<1>7. CASE AcceptStream(i)
  <2>1. /\ user[c] = "answer" /\ Writes(c, F("ACCEPT", i), "copy", "done")
        /\ UNCHANGED <<got, written, peerClosed, writeClosed, queue, dead, opened>>
        /\ reader' = [reader EXCEPT ![c] = IF user'[c] = "copy" THEN "read" ELSE @]
    BY <1>7 DEF AcceptStream, stream
  <2>2. UNCHANGED reader \/ (user'[c] = "copy" /\ \A z \in Refs : z # c => reader'[z] = reader[z])
    BY <2>1 DEF MuxType, StreamType
  <2>3. F("ACCEPT", i) \in Frame /\ F("ACCEPT", i).type = "ACCEPT" /\ F("ACCEPT", i).id = i
    BY FrameType
  <2> HIDE DEF g, c
  <2> QED
    BY <1>1, <1>2, <1>3, <2>1, <2>2, <2>3, WritesFlow
<1>8. CASE RefuseStream(i)
  <2>1. /\ user[c] = "answer" /\ Goes(c, "refuse") /\ Remove(c[1], c[2]) /\ MarkDead(c)
        /\ UNCHANGED <<err, failing, done, wire, answer, reader, got, written>>
    BY <1>1, <1>8 DEF RefuseStream, session
  <2>2. TablesAt(c) /\ UNCHANGED <<peerClosed, writeClosed>>
    BY <2>1 DEF TablesAt, MarkDead
  <2> HIDE DEF g, c
  <2> QED
    BY <1>1, <1>2, <1>3, <2>1, <2>2, UserFlow
<1>9. CASE SendRefuse(i)
  <2>1. /\ user[c] = "refuse" /\ Writes(c, F("REFUSE", i), "done", "done")
        /\ UNCHANGED <<got, written, peerClosed, writeClosed, queue, dead, opened, reader>>
    BY <1>9 DEF SendRefuse, stream
  <2>2. F("REFUSE", i) \in Frame /\ F("REFUSE", i).type = "REFUSE"
    BY FrameType
  <2> HIDE DEF g, c
  <2> QED
    BY <1>1, <1>2, <1>3, <2>1, <2>2, WritesFlow
<1> QED
  BY <1>4, <1>5, <1>6, <1>7, <1>8, <1>9 DEF Opening

\* DATA is written, unless the session fails the write.
LEMMA SendDataFlow ==
  ASSUME MuxType, MuxType', LeftInv, FlowInv, NEW y \in Refs, SendData(y)
  PROVE  FlowInv'
<1> DEFINE f == [type |-> "DATA", id |-> y[2], n |-> written[y] + 1]
<1>1. y[1] \in Ends /\ y[2] \in Ids /\ f \in Frame /\ f.type = "DATA" /\ f.id = y[2] /\ f.n = written[y] + 1
  <2>1. written[y] + 1 \in Nat /\ y[1] \in Ends /\ y[2] \in Ids
    BY RefParts DEF MuxType, StreamType
  <2> QED
    BY <2>1 DEF Frame
<1>2. /\ user[y] = "data" /\ ~writeClosed[y] /\ Writes(y, f, "copy", "failed")
      /\ written' = [written EXCEPT ![y] = IF user'[y] = "copy" THEN @ + 1 ELSE @]
      /\ UNCHANGED <<queue, peerClosed, writeClosed, dead, opened, reader, got, done, answer>>
  <2>1. Each(y)
    BY DEF LeftInv
  <2> QED
    BY <2>1 DEF SendData, Writes, stream, Each, Closing
<1> HIDE DEF f
<1>3. /\ \A z \in Refs : z # y => user'[z] = user[z] /\ written'[z] = written[z]
      /\ user'[y] \in {"copy", "failed"} /\ user'[y] # "none" /\ TablesAt(y)
      /\ Send(y[1], f) \/ UNCHANGED wire
      /\ user'[y] = "copy" => Send(y[1], f) /\ written'[y] = written[y] + 1
      /\ user'[y] # "copy" => written'[y] = written[y] /\ UNCHANGED wire
  BY <1>1, <1>2 DEF Writes, Goes, TablesAt, MuxType, StreamType
<1>4. got \in [Refs -> Seq(Nat)] /\ got' \in [Refs -> Seq(Nat)]
  BY <1>2 DEF FlowInv
<1>5. ASSUME NEW x \in Refs PROVE Flows(x)'
  <2>1. Flows(x) /\ Peer(x) \in Refs /\ x[1] \in Ends
    BY PeerParts DEF FlowInv
  <2>2. CASE y = Peer(x) /\ user'[y] = "copy"
    <3>1. /\ x[2] = y[2] /\ y[1] = Other(x[1]) /\ f.n = Written(x) + 1 /\ ~writeClosed[Peer(x)]
          /\ Other(y[1]) = x[1]
      BY <1>1, <1>2, <2>2, PeerParts DEF Written
    <3>2. x[2] \in table'[x[1]] => x[2] \in table[x[1]]
      BY <1>3, <2>1, TablesShrink, PeerParts DEF MuxType
    <3>3. Intact(x)' => Intact(x)
      BY <1>2, <3>2 DEF Intact
    <3>4. Inbound(x)' = Append(Inbound(x), f) \/ (Inbound(x)' = Inbound(x) /\ ~Intact(x)')
      <4>1. Send(y[1], f)
        BY <1>3, <2>2
      <4>2. CASE done[x[1]]
        BY <1>2, <3>1, <4>1, <4>2 DEF Send, Inbound, Intact
      <4>3. CASE ~done[x[1]]
        BY <1>1, <3>1, <4>1, <4>3 DEF Send, Inbound, MuxType, SessionType
      <4> QED
        BY <4>2, <4>3
    <3> QED
      BY <1>1, <1>2, <1>3, <1>4, <2>1, <2>2, <3>1, <3>3, <3>4, WrittenFlows
  <2>3. CASE y # Peer(x) \/ user'[y] # "copy"
    <3>1. written'[Peer(x)] = written[Peer(x)]
      BY <1>3, <2>1, <2>3
    <3>2. x = Peer(y) => y = Peer(x)
      BY PeerParts, RefParts DEF Peer
    <3>3. \/ UNCHANGED wire
          \/ \E h \in Frame :
               /\ Send(y[1], h) /\ (h.type = "DATA" => h.id = y[2] /\ x # Peer(y))
               /\ h.type = "CLOSE" => h.id = y[2] /\ writeClosed'[y]
      BY <1>1, <1>3, <2>3, <3>2
    <3>4. Calm(x)
      BY <1>2, <1>3, <3>1, <3>3, QuietCalm
    <3> QED
      BY <1>4, <2>1, <3>4, CalmFlows
  <2> QED
    BY <2>2, <2>3
<1>6. ASSUME NEW i \in Ids PROVE Unknown(i)'
  <2>1. \/ wire'["connector"] = wire["connector"]
        \/ \E h \in Frame : wire'["connector"] = Append(wire["connector"], h) /\ h.type # "ACCEPT"
    BY <1>1, <1>3, SendAt DEF Ends
  <2>2. Unknown(i) /\ "data" \notin Quiet
    BY DEF FlowInv, Quiet
  <2> QED
    BY <1>2, <1>3, <2>1, <2>2, UnknownStep
<1>7. ASSUME NEW x \in Refs PROVE Unread(x)'
  <2>1. Unread(x) /\ "copy" \notin Early /\ "failed" \notin Early
    BY DEF FlowInv, Early
  <2> QED
    BY <1>2, <1>3, <2>1 DEF Unread
<1> QED
  BY <1>2, <1>4, <1>5, <1>6, <1>7 DEF FlowInv

\* The reader.
LEMMA ReadFlow ==
  ASSUME MuxType, MuxType', FlowInv, NEW y \in Refs, Read(y) \/ Wakes(y) \/ ReaderFails(y)
  PROVE  FlowInv'
<1>1. /\ UNCHANGED <<wire, written, writeClosed, peerClosed, dead, done, table, opened, user, answer>>
      /\ reader[y] \in {"read", "wait"} /\ \A z \in Refs : z # y => reader'[z] = reader[z]
  BY DEF Read, Wakes, ReaderFails, Reads, session, conn, stream, MuxType, StreamType
<1>2. \/ UNCHANGED <<queue, got>>
      \/ /\ queue[y] # <<>> /\ queue' = [queue EXCEPT ![y] = Tail(@)]
         /\ got' = [got EXCEPT ![y] = Append(@, Head(queue[y]))]
  BY DEF Read, Wakes, ReaderFails, stream
<1>3. got \in [Refs -> Seq(Nat)] /\ got' \in [Refs -> Seq(Nat)]
  <2>1. got \in [Refs -> Seq(Nat)]
    BY DEF FlowInv
  <2>2. queue[y] # <<>> => Append(got[y], Head(queue[y])) \in Seq(Nat)
    <3>1. got[y] \in Seq(Nat) /\ queue[y] \in Seq(Nat)
      BY <2>1 DEF MuxType, StreamType
    <3> QED
      BY <3>1
  <2> QED
    BY <1>2, <2>1, <2>2
<1>4. ASSUME NEW x \in Refs PROVE Flows(x)'
  <2>1. CASE queue'[x] = queue[x] /\ got'[x] = got[x]
    <3>1. Calm(x)
      BY <1>1, <2>1 DEF Calm, Inbound, Intact
    <3> QED
      BY <1>3, <3>1, CalmFlows DEF FlowInv
  <2>2. CASE queue[x] # <<>> /\ queue'[x] = Tail(queue[x]) /\ got'[x] = Append(got[x], Head(queue[x]))
    BY <1>1, <1>3, <2>2, ReadFlows DEF FlowInv
  <2>3. CASE x = y
    BY <1>2, <1>3, <2>1, <2>2, <2>3 DEF MuxType, StreamType
  <2>4. CASE x # y
    BY <1>2, <1>3, <2>1, <2>4 DEF MuxType, StreamType
  <2> QED
    BY <2>3, <2>4
<1>5. \A i \in Ids : Unknown(i)'
  BY <1>1 DEF FlowInv, Unknown
<1>6. ASSUME NEW x \in Refs PROVE Unread(x)'
  BY <1>1 DEF FlowInv, Unread
<1> QED
  BY <1>1, <1>3, <1>4, <1>5, <1>6 DEF FlowInv

\* Relay.
LEMMA RelayFlow ==
  ASSUME MuxType, MuxType', LeftInv, FlowInv, NEW y \in Refs, Relay(y)
  PROVE  FlowInv'
<1>1. y[1] \in Ends /\ y[2] \in Ids
  BY RefParts
<1>2. /\ {"data", "close", "reset", "drain", "abort", "done"} \subseteq UserAt
      /\ {"data", "close", "reset", "drain", "abort", "done"} \cap Early = {}
      /\ {"copy", "data", "failed", "drain", "close", "reset"} \cap Quiet = {} /\ {"abort", "done"} \subseteq Quiet
  BY DEF UserAt, Early, Quiet
<1>3. /\ \A a \in {"data", "close", "reset", "drain", "abort", "done"} : a \in UserAt /\ a # "none" /\ a \notin Early
      /\ \A a \in {"copy", "data", "failed", "drain", "close", "reset"} : a \notin Quiet
      /\ \A a \in {"abort", "done"} : a \in Quiet
  BY <1>2
<1>4. CASE WriteBegins(y)
  <2>1. PICK a \in {"drain", "data"} : Goes(y, a)
    BY <1>4 DEF WriteBegins
  <2>2. /\ user[y] = "copy" /\ TablesAt(y)
        /\ UNCHANGED <<got, written, peerClosed, writeClosed, done, answer, queue, dead, opened, wire, reader>>
    BY <1>4 DEF WriteBegins, session, conn, stream, TablesAt
  <2> QED
    BY <1>3, <2>1, <2>2, UserFlow
<1>5. CASE SendData(y)
  BY <1>5, SendDataFlow
<1>6. CASE CloseWrite(y)
  <2>1. PICK a \in {"drain", "close"} : Goes(y, a)
    BY <1>6 DEF CloseWrite
  <2>2. /\ user[y] \in {"copy", "failed"} /\ TablesAt(y)
        /\ UNCHANGED <<got, written, peerClosed, done, answer, queue, dead, opened, wire, reader>>
    BY <1>6 DEF CloseWrite, CopyEnds, session, conn, TablesAt
  <2>3. \A z \in Refs : writeClosed[z] => writeClosed'[z]
    BY <1>6 DEF CloseWrite, MuxType, StreamType
  <2> QED
    BY <1>3, <2>1, <2>2, <2>3, UserFlow
<1>7. CASE SendClose(y)
  <2>1. /\ user[y] = "close" /\ Goes(y, "drain") /\ writeClosed[y]
        /\ UNCHANGED <<got, written, peerClosed, writeClosed, done, answer, queue, dead, opened, reader>>
        /\ Send(y[1], F("CLOSE", y[2])) \/ UNCHANGED wire
    <3>1. Each(y)
      BY DEF LeftInv
    <3> QED
      BY <1>7, <3>1 DEF SendClose, stream, Each, Closing
  <2>2. TablesAt(y)
    BY <1>7 DEF SendClose, TablesAt
  <2>3. F("CLOSE", y[2]) \in Frame /\ F("CLOSE", y[2]).type = "CLOSE" /\ F("CLOSE", y[2]).id = y[2]
    BY <1>1, FrameType
  <2> QED
    BY <1>3, <2>1, <2>2, <2>3, UserFlow
<1>8. CASE SendReset(y)
  <2>1. /\ UNCHANGED <<got, written, peerClosed, writeClosed, queue, dead, opened, reader>>
        /\ \/ user[y] = "reset" /\ Writes(y, F("RESET", y[2]), "drain", "drain")
           \/ user[y] = "abort" /\ Writes(y, F("RESET", y[2]), "done", "done")
    BY <1>8 DEF SendReset, stream
  <2>2. F("RESET", y[2]) \in Frame /\ F("RESET", y[2]).type = "RESET"
    BY <1>1, FrameType
  <2> QED
    BY <1>3, <2>1, <2>2, WritesFlow
<1>9. CASE LocalFails(y)
  <2>1. /\ user[y] \in {"copy", "failed"} /\ Reset(y, "reset", "drain")
        /\ UNCHANGED <<err, failing, done, wire, answer, reader, got, written>>
    BY <1>9 DEF LocalFails, CopyEnds, session
  <2> QED
    BY <1>3, <2>1, ResetFlow
<1>10. CASE RelayEnds(y)
  <2>1. /\ user[y] = "drain"
        /\ \/ Remove(y[1], y[2]) /\ MarkDead(y) /\ Goes(y, "done")
           \/ Reset(y, "abort", "done")
        /\ UNCHANGED <<err, failing, done, wire, answer, reader, got, written>>
    BY <1>10 DEF RelayEnds, CloseStream, session
  <2>2. CASE Remove(y[1], y[2]) /\ MarkDead(y) /\ Goes(y, "done")
    <3>1. TablesAt(y) /\ UNCHANGED <<peerClosed, writeClosed>>
      BY <2>1, <2>2 DEF TablesAt, MarkDead
    <3> QED
      BY <1>3, <2>1, <2>2, <3>1, UserFlow
  <2>3. CASE Reset(y, "abort", "done")
    BY <1>3, <2>1, <2>3, ResetFlow
  <2> QED
    BY <2>1, <2>2, <2>3
<1>11. CASE Read(y) \/ Wakes(y) \/ ReaderFails(y)
  BY <1>11, ReadFlow
<1> QED
  BY <1>4, <1>5, <1>6, <1>7, <1>8, <1>9, <1>10, <1>11 DEF Relay

\* A frame is read, and is for nobody, for the session, or for a stream.
LEMMA ReadFrameFlow ==
  ASSUME MuxType, MuxType', LeftInv, FlowInv, NEW e \in Ends, ReadFrame(e)
  PROVE  FlowInv'
<1> DEFINE o == Other(e)
<1>0. /\ o \in Ends /\ Other(o) = e /\ o # e /\ \A d \in Ends : Other(d) = e => d = o
      /\ wire[o] \in Seq(Frame) /\ wire[o] # <<>>
  <2>1. o \in Ends /\ Other(o) = e /\ o # e /\ \A d \in Ends : Other(d) = e => d = o
    BY DEF Other, Ends
  <2>2. wire[o] \in Seq(Frame) /\ wire[o] # <<>>
    BY <2>1 DEF ReadFrame, MuxType, SessionType
  <2> QED
    BY <2>1, <2>2
<1> PICK f \in Frame : f = Head(wire[o])
  BY <1>0
<1> DEFINE y == <<e, f.id>>
<1>1. /\ o \in Ends /\ Other(o) = e /\ o # e /\ \A d \in Ends : Other(d) = e => d = o
      /\ wire[o] \in Seq(Frame) /\ wire[o] # <<>> /\ f \in Frame /\ f = wire[o][1] /\ 1 \in 1 .. Len(wire[o])
  BY <1>0
<1>2. /\ loop[e] = "read" /\ ~done[e] /\ wire' = [wire EXCEPT ![o] = Tail(@)]
      /\ UNCHANGED <<done, reader, written, got>>
      /\ \/ f.type = "OPEN" /\ ReadOpen(f.id)
         \/ /\ f.id # 0 /\ f.type # "OPEN" /\ UNCHANGED user
            /\ IF f.id \in table[e] THEN ReadStream(e, f) ELSE UNCHANGED <<table, stream, loop, answer>>
         \/ f.id = 0 /\ Fail(e) /\ UNCHANGED <<user, answer, stream>>
  BY DEF ReadFrame
<1>3. \A d \in Ends : wire'[d] = IF d = o THEN Tail(wire[d]) ELSE wire[d]
  BY <1>1, <1>2 DEF MuxType, SessionType
<1>4. /\ got \in [Refs -> Seq(Nat)] /\ got' \in [Refs -> Seq(Nat)]
      /\ opened \in [Refs -> {"no", "yes", "refused"}]
  BY <1>2 DEF FlowInv
<1>5. f.id \in Ids \cup {0} /\ (f.id # 0 => f.id \in Ids /\ y \in Refs /\ y[1] = e /\ y[2] = f.id)
  BY <1>1, RefParts DEF Frame
<1>6. f.type = "OPEN" => e = "connector" /\ f.id \in Ids /\ Sent(f.id)
  BY <1>1 DEF LeftInv, OpenedOnce, WireSound, Sent, Ends
<1> HIDE DEF y, o
<1>7. f.type = "OPEN" => /\ user[y] = "none" /\ Written(y) = 0 /\ y = <<"connector", f.id>>
  BY <1>6, NotWritten DEF y
<1>8. ASSUME NEW x \in Refs
      PROVE  /\ x[1] # e => Inbound(x)' = Inbound(x)
             /\ x[1] = e => /\ Inbound(x) = wire[o] /\ Inbound(x) # <<>> /\ Inbound(x)' = Tail(Inbound(x))
                            /\ Inbound(x)[1] = f /\ (Data(Inbound(x), x[2], 1) <=> f.type = "DATA" /\ f.id = x[2])
                            /\ (Last(Inbound(x), x[2], 1) <=> f.type = "CLOSE" /\ f.id = x[2])
  <2>1. x[1] \in Ends /\ Other(x[1]) \in Ends /\ Other(Other(x[1])) = x[1]
    BY PeerParts
  <2>2. CASE x[1] # e
    <3>1. Other(x[1]) # o
      BY <1>1, <2>1, <2>2
    <3> QED
      BY <1>3, <2>1, <2>2, <3>1 DEF Inbound
  <2>3. CASE x[1] = e
    <3>1. Inbound(x) = wire[o] /\ Inbound(x)' = wire'[o]
      BY <2>3 DEF Inbound, o
    <3> QED
      BY <1>1, <1>3, <2>3, <3>1 DEF Data, Last
  <2> QED
    BY <2>2, <2>3
<1>9. CASE f.type = "OPEN" /\ ReadOpen(f.id)
  <2>1. /\ y \in Refs /\ user[y] = "none" /\ Written(y) = 0 /\ f.id \in Ids /\ e = "connector"
        /\ y = <<"connector", f.id>>
    BY <1>5, <1>6, <1>7, <1>9 DEF Ids
  <2>2. /\ UNCHANGED <<peerClosed, writeClosed>>
        /\ \/ /\ table' = [table EXCEPT !["connector"] = @ \cup {f.id}] /\ Goes(y, "queued")
              /\ UNCHANGED <<queue, dead, opened, answer>>
           \/ /\ MarkDead(y) /\ answer' = [answer EXCEPT !["connector"] = F("REFUSE", f.id)]
              /\ UNCHANGED <<table, user>>
    BY <1>9, <2>1 DEF ReadOpen, MarkDead, Goes, stream
  <2>3. /\ \A x \in Refs : x # y =>
             queue'[x] = queue[x] /\ dead'[x] = dead[x] /\ user'[x] = user[x] /\ opened'[x] = opened[x]
        /\ (user'[y] = "none" \/ user'[y] = "queued") /\ (opened'[y] = "yes" => opened[y] = "yes")
        /\ queue'[y] = queue[y] \/ (queue'[y] = <<>> /\ dead'[y])
        /\ dead[y] => dead'[y]
    <3>1. CASE MarkDead(y) /\ UNCHANGED user
      BY <1>4, <2>1, <3>1, DeadOpened, DeadQueue
    <3>2. CASE Goes(y, "queued") /\ UNCHANGED <<queue, dead, opened>>
      BY <1>4, <2>1, <3>2 DEF Goes, MuxType, StreamType
    <3> QED
      BY <2>2, <3>1, <3>2
  <2>4. ASSUME NEW x \in Refs PROVE Calm(x)
    <3>1. x # y => (Intact(x)' => Intact(x))
      <4>1. x = <<x[1], x[2]>> /\ x[1] \in Ends
        BY RefParts
      <4> QED
        BY <1>2, <2>1, <2>2, <2>3, <4>1 DEF Intact, MuxType, SessionType
    <3>2. queue'[x] = queue[x] \/ (queue'[x] = <<>> /\ dead'[x])
      BY <2>3
    <3>3. (Intact(x)' => Intact(x)) \/ Written(x) = 0
      BY <2>1, <3>1
    <3>4. \/ Inbound(x)' = Inbound(x)
          \/ Inbound(x) # <<>> /\ Inbound(x)' = Tail(Inbound(x)) /\ ~Data(Inbound(x), x[2], 1)
      BY <1>8, <1>9
    <3> QED
      BY <1>2, <2>2, <2>3, <3>2, <3>3, <3>4 DEF Calm
  <2>5. ASSUME NEW x \in Refs PROVE Flows(x)'
    BY <1>4, <2>4, CalmFlows DEF FlowInv
  <2>6. ASSUME NEW i \in Ids PROVE Unknown(i)'
    <3>1. wire'["connector"] = wire["connector"]
      BY <1>1, <1>3, <2>1
    <3>2. Unknown(i) /\ y[1] = "connector"
      BY <2>1, RefParts DEF FlowInv
    <3> QED
      BY <1>2, <2>1, <2>3, <3>1, <3>2, UnknownStep
  <2>7. ASSUME NEW x \in Refs PROVE Unread(x)'
    <3>1. Unread(x) /\ "none" \in Early
      BY DEF FlowInv, Early
    <3> QED
      BY <1>2, <2>1, <2>3, <3>1 DEF Unread
  <2>8. opened' \in [Refs -> {"no", "yes", "refused"}]
    BY <1>4, <2>2 DEF MarkDead
  <2>9. \A d \in Ends : answer'[d].type \in {"RESET", "REFUSE"}
    <3>1. F("REFUSE", f.id).type = "REFUSE"
      BY DEF F
    <3> QED
      BY <2>2, <3>1 DEF FlowInv, MuxType, SessionType
  <2> QED
    BY <1>4, <2>5, <2>6, <2>7, <2>8, <2>9 DEF FlowInv
<1>10. CASE /\ f.id # 0 /\ f.type # "OPEN" /\ UNCHANGED user
            /\ f.id \in table[e] /\ ReadStream(e, f)
  <2>1. f.id \in Ids /\ y \in Refs /\ y[1] = e /\ y[2] = f.id /\ y = <<e, f.id>> /\ UNCHANGED writeClosed
    BY <1>5, <1>10 DEF y, ReadStream, ReadAnswer, Deliver, PeerClose, MarkDead, stream
  <2>2. /\ \A x \in Refs : x # y =>
             /\ queue'[x] = queue[x] /\ dead'[x] = dead[x] /\ peerClosed'[x] = peerClosed[x]
             /\ opened'[x] = opened[x]
        /\ opened' \in [Refs -> {"no", "yes", "refused"}]
        /\ opened'[y] = "yes" => opened[y] = "yes" \/ f.type = "ACCEPT"
    <3>1. CASE f.type \in {"ACCEPT", "REFUSE"} /\ ReadAnswer(e, f)
      BY <1>4, <2>1, <3>1 DEF ReadAnswer
    <3>2. CASE MarkDead(y)
      BY <1>4, <2>1, <3>2, DeadOpened, DeadQueue
    <3>3. CASE UNCHANGED stream
      BY <1>4, <3>3 DEF stream
    <3>4. CASE /\ UNCHANGED <<dead, opened>>
               /\ queue' = queue \/ queue' = [queue EXCEPT ![y] = Append(@, f.n)]
               /\ peerClosed' = peerClosed \/ peerClosed' = [peerClosed EXCEPT ![y] = TRUE]
      BY <1>4, <2>1, <3>4 DEF MuxType, StreamType
    <3>5. CASE f.type = "DATA" /\ Deliver(e, f)
      BY <2>1, <3>2, <3>3, <3>4, <3>5 DEF Deliver
    <3>6. CASE f.type = "CLOSE" /\ PeerClose(e, f.id)
      BY <2>1, <3>4, <3>6 DEF PeerClose
    <3> QED
      BY <1>10, <2>1, <3>1, <3>2, <3>5, <3>6 DEF ReadStream
  <2>3. \A d \in Ends, i \in Ids : i \in table'[d] => i \in table[d]
    <3>1. table' = table \/ Remove(e, f.id)
      BY <1>10 DEF ReadStream, ReadAnswer, Deliver, PeerClose
    <3> QED
      BY <3>1 DEF Remove, MuxType, SessionType
  <2>4. \A d \in Ends : answer'[d].type \in {"RESET", "REFUSE"}
    <3>1. answer' = answer \/ answer' = [answer EXCEPT ![e] = F("RESET", f.id)]
      BY <1>10 DEF ReadStream, ReadAnswer, Deliver, PeerClose
    <3>2. F("RESET", f.id).type = "RESET"
      BY DEF F
    <3> QED
      BY <3>1, <3>2 DEF FlowInv, MuxType, SessionType
  <2>5. ASSUME NEW x \in Refs, x # y PROVE Flows(x)'
    <3>1. x = <<x[1], x[2]>> /\ x[1] \in Ends /\ x[2] \in Ids
      BY RefParts
    <3>2. Intact(x)' => Intact(x)
      BY <1>2, <2>2, <2>3, <2>5, <3>1 DEF Intact
    <3>3. \/ Inbound(x)' = Inbound(x)
          \/ Inbound(x) # <<>> /\ Inbound(x)' = Tail(Inbound(x)) /\ ~Data(Inbound(x), x[2], 1)
      BY <1>8, <2>1, <2>5, <3>1
    <3>4. Calm(x)
      BY <1>2, <2>1, <2>2, <2>5, <3>2, <3>3 DEF Calm
    <3> QED
      BY <1>4, <3>4, CalmFlows DEF FlowInv
  <2>6. Flows(y)'
    <3>1. Flows(y) /\ (Intact(y) <=> ~dead[y]) /\ y[1] = e
      BY <1>2, <1>10, <2>1 DEF FlowInv, Intact
    <3>2. /\ Inbound(y) # <<>> /\ Inbound(y)' = Tail(Inbound(y)) /\ Inbound(y)[1] = f
          /\ Data(Inbound(y), y[2], 1) <=> f.type = "DATA"
          /\ Last(Inbound(y), y[2], 1) <=> f.type = "CLOSE"
      BY <1>8, <2>1
    <3>3. CASE UNCHANGED <<queue, dead, peerClosed>> /\ (f.type # "DATA" \/ dead[y])
      <4>1. Intact(y)' => ~dead[y] /\ Intact(y)
        BY <1>2, <2>1, <2>3, <3>3 DEF Intact
      <4>2. Calm(y)
        BY <1>2, <2>1, <3>2, <3>3, <4>1 DEF Calm
      <4> QED
        BY <1>4, <2>1, <3>1, <4>2, CalmFlows
    <3>4. CASE MarkDead(y)
      <4>1. /\ queue'[y] = <<>> /\ dead'[y] = TRUE /\ peerClosed'[y] = peerClosed[y] /\ ~Intact(y)'
        BY <2>1, <3>4 DEF MarkDead, Intact, MuxType, StreamType
      <4>2. Calm(y)
        BY <1>2, <2>1, <3>2, <4>1 DEF Calm
      <4> QED
        BY <1>4, <2>1, <3>1, <4>2, CalmFlows
    <3>5. CASE f.type = "DATA" /\ Deliver(e, f)
      <4>1. ~peerClosed[y]
        BY <3>1, <3>2, <3>5 DEF Flows
      <4>2. CASE dead[y]
        BY <2>1, <3>3, <3>5, <4>2 DEF Deliver, stream
      <4>3. CASE ~dead[y] /\ Len(queue[y]) + 1 > MaxInbound
        BY <2>1, <3>4, <3>5, <4>1, <4>3 DEF Deliver
      <4>4. CASE ~dead[y] /\ ~(Len(queue[y]) + 1 > MaxInbound)
        <5>1. /\ queue'[y] = Append(queue[y], Inbound(y)[1].n) /\ UNCHANGED <<peerClosed, writeClosed>>
          <6>1. queue' = [queue EXCEPT ![y] = Append(@, f.n)] /\ UNCHANGED <<peerClosed, writeClosed>>
            BY <2>1, <3>5, <4>1, <4>4 DEF Deliver
          <6> QED
            BY <2>1, <3>2, <6>1 DEF MuxType, StreamType
        <5> QED
          BY <1>2, <1>4, <2>1, <3>1, <3>2, <3>5, <4>1, <4>4, <5>1, DeliveredFlows
      <4> QED
        BY <4>2, <4>3, <4>4
    <3>6. CASE f.type = "CLOSE" /\ PeerClose(e, f.id)
      <4>1. UNCHANGED <<queue, dead, writeClosed>>
        BY <3>6 DEF PeerClose
      <4>2. Intact(y)' => Intact(y)
        BY <1>2, <2>1, <2>3, <4>1 DEF Intact
      <4> QED
        BY <1>2, <1>4, <2>1, <3>1, <3>2, <3>6, <4>1, <4>2, ClosedFlows
    <3>7. CASE f.type \in {"ACCEPT", "REFUSE"} /\ ReadAnswer(e, f)
      BY <3>3, <3>7 DEF ReadAnswer
    <3> QED
      BY <1>10, <2>1, <3>4, <3>5, <3>6, <3>7 DEF ReadStream
  <2>7. ASSUME NEW i \in Ids PROVE Unknown(i)'
    <3>1. Unknown(i)
      BY DEF FlowInv
    <3>2. wire'["connector"] = wire["connector"]
          \/ (wire["connector"] # <<>> /\ wire'["connector"] = Tail(wire["connector"]))
      BY <1>1, <1>3 DEF Ends
    <3>3. e = "gateway" /\ f.type = "ACCEPT" => user[<<"connector", f.id>>] # "none"
      <4>1. e = "gateway" => o = "connector"
        BY <1>1 DEF Ends
      <4> QED
        BY <1>1, <2>1, <4>1 DEF FlowInv, Unknown
    <3> QED
      BY <1>2, <1>10, <2>1, <2>2, <3>1, <3>2, <3>3, UnknownStep
  <2>8. \A x \in Refs : Unread(x)'
    BY <1>2, <1>10 DEF FlowInv, Unread
  <2> QED
    BY <1>4, <2>2, <2>4, <2>5, <2>6, <2>7, <2>8 DEF FlowInv
<1>11. CASE /\ f.type # "OPEN" /\ UNCHANGED <<user, answer, stream>>
            /\ \/ f.id # 0 /\ f.id \notin table[e] /\ UNCHANGED table
               \/ f.id = 0 /\ Fail(e)
  <2>1. UNCHANGED <<queue, peerClosed, writeClosed, dead, opened>>
    BY <1>11 DEF stream
  <2>2. \A d \in Ends, i \in Ids : i \in table'[d] => i \in table[d]
    BY <1>11 DEF Fail, MuxType, SessionType
  <2>3. ASSUME NEW x \in Refs PROVE Flows(x)'
    <3>1. x[1] \in Ends /\ x[2] \in Ids /\ x[2] # 0
      BY RefParts DEF Ids
    <3>2. Intact(x)' => Intact(x)
      BY <1>2, <2>1, <2>2, <3>1 DEF Intact
    <3>3. \/ Inbound(x)' = Inbound(x)
          \/ /\ Inbound(x) # <<>> /\ Inbound(x)' = Tail(Inbound(x))
             /\ Intact(x)' => ~Data(Inbound(x), x[2], 1)
      BY <1>8, <1>11, <3>1, <3>2 DEF Intact
    <3>4. Calm(x)
      BY <1>2, <2>1, <3>2, <3>3 DEF Calm
    <3> QED
      BY <1>4, <3>4, CalmFlows DEF FlowInv
  <2>4. ASSUME NEW i \in Ids PROVE Unknown(i)'
    <3>1. Unknown(i) /\ <<e, i>> \in Refs
      BY RefParts DEF FlowInv
    <3>2. wire'["connector"] = wire["connector"]
          \/ (wire["connector"] # <<>> /\ wire'["connector"] = Tail(wire["connector"]))
      BY <1>1, <1>3 DEF Ends
    <3> QED
      BY <1>2, <1>11, <2>1, <3>1, <3>2, UnknownStep
  <2>5. \A x \in Refs : Unread(x)'
    BY <1>2, <1>11 DEF FlowInv, Unread
  <2> QED
    BY <1>2, <1>4, <1>11, <2>1, <2>3, <2>4, <2>5 DEF FlowInv
<1>12. f.id = 0 => f.type # "OPEN"
  BY <1>6 DEF Ids
<1> QED
  BY <1>2, <1>9, <1>10, <1>11, <1>12 DEF stream

-----------------------------------------------------------------------------
(* The theorem. *)

\* Nothing is written, on the way, or read.
LEMMA InitFlow == Init => FlowInv
<1> SUFFICES ASSUME Init PROVE FlowInv
  OBVIOUS
<1>1. \A x \in Refs : /\ x[1] \in Ends /\ x[2] \in Ids /\ Other(x[1]) \in Ends /\ Peer(x) \in Refs
  BY PeerParts
<1>2. got \in [Refs -> Seq(Nat)] /\ opened \in [Refs -> {"no", "yes", "refused"}]
  <2>1. got \in [Refs -> {<<>>}] /\ <<>> \in Seq(Nat)
    BY DEF Init
  <2>2. got \in [Refs -> Seq(Nat)]
    BY <2>1, OneValue
  <2>3. opened \in [Refs -> {"no", "yes", "refused"}]
    BY DEF Init
  <2> QED
    BY <2>2, <2>3
<1>3. \A e \in Ends : answer[e].type \in {"RESET", "REFUSE"} /\ wire[e] = <<>> /\ table[e] = {}
  BY DEF Init, F
<1>4. \A x \in Refs : /\ queue[x] = <<>> /\ peerClosed[x] = FALSE /\ opened[x] = "no" /\ user[x] = "none"
                      /\ reader[x] = "off" /\ written[x] = 0 /\ got[x] = <<>>
  BY DEF Init
<1>5. ASSUME NEW x \in Refs PROVE Flows(x)
  <2>1. Inbound(x) = <<>> /\ Len(got[x]) = 0 /\ Len(queue[x]) = 0 /\ Written(x) = 0 /\ ~Intact(x)
    BY <1>1, <1>3, <1>4 DEF Inbound, Written, Intact
  <2>2. Rising(<<>>, x[2], 0) /\ \A k \in Nat : ~Last(<<>>, x[2], k)
    BY <1>1, NothingInbound
  <2> QED
    BY <1>4, <2>1, <2>2 DEF Flows, Taken
<1>6. ASSUME NEW i \in Ids PROVE Unknown(i)
  <2>1. /\ <<"gateway", i>> \in Refs /\ <<"connector", i>> \in Refs /\ Len(wire["connector"]) = 0
        /\ "none" \in Quiet
    BY <1>3, RefParts DEF Ends, Quiet
  <2> QED
    BY <1>4, <2>1 DEF Unknown
<1>7. \A x \in Refs : Unread(x)
  BY <1>4 DEF Unread
<1> QED
  BY <1>2, <1>3, <1>5, <1>6, <1>7 DEF FlowInv

\* Every step of the two ends.
LEMMA FlowInductive == IInv /\ IInv' /\ FlowInv /\ [Next]_vars => FlowInv'
<1> SUFFICES ASSUME IInv, IInv', FlowInv, [Next]_vars PROVE FlowInv'
  OBVIOUS
<1>1. MuxType /\ MuxType' /\ LeftInv
  BY DEF IInv
<1>2. CASE UNCHANGED vars \/ Lose
  <2>1. UNCHANGED <<wire, table, done, answer, queue, peerClosed, writeClosed, dead, opened, user, reader,
                    written, got>>
    BY <1>2 DEF Lose, vars, session, conn, stream, local
  <2>2. ASSUME NEW x \in Refs PROVE Flows(x)'
    <3>1. Calm(x)
      BY <2>1 DEF Calm, Inbound, Intact
    <3> QED
      BY <1>1, <2>1, <3>1, CalmFlows DEF FlowInv
  <2> QED
    BY <2>1, <2>2 DEF FlowInv, Unknown, Unread
<1>3. CASE Open \/ Accept
  BY <1>1, <1>3, OpenFlow, AcceptFlow
<1>4. ASSUME NEW e \in Ends, Session(e) PROVE FlowInv'
  BY <1>1, <1>4, SessionFlow, ReadFrameFlow DEF Session
<1>5. ASSUME NEW i \in Ids, Opening(i) PROVE FlowInv'
  BY <1>1, <1>5, OpeningFlow
<1>6. ASSUME NEW x \in Refs, Relay(x) PROVE FlowInv'
  BY <1>1, <1>6, RelayFlow
<1> QED
  BY <1>2, <1>3, <1>4, <1>5, <1>6 DEF Next

\* What a pipe is seen to do: nothing, a write, an end of writing, a read of the next,
\* the end once all is read, or an error.
LEMMA PipeStep ==
  ASSUME MuxType, got \in [Refs -> Seq(Nat)], NEW x \in Refs, Flows(x),
         \/ /\ written'[Peer(x)] = written[Peer(x)] /\ writeClosed'[Peer(x)] = writeClosed[Peer(x)]
            /\ got'[x] = got[x]
            /\ reader'[x] \in {"eof", "error"} \/ reader[x] \in {"eof", "error"} => reader'[x] = reader[x]
         \/ /\ ~writeClosed[Peer(x)] /\ written'[Peer(x)] = written[Peer(x)] + 1
            /\ writeClosed'[Peer(x)] = writeClosed[Peer(x)] /\ got'[x] = got[x] /\ reader'[x] = reader[x]
         \/ /\ writeClosed'[Peer(x)] = TRUE /\ written'[Peer(x)] = written[Peer(x)]
            /\ got'[x] = got[x] /\ reader'[x] = reader[x]
         \/ reader[x] = "read" /\ (Read(x) \/ ReaderFails(x))
  PROVE  [P(x)!Next]_(P(x)!vars)
<1>1. CASE /\ written'[Peer(x)] = written[Peer(x)] /\ writeClosed'[Peer(x)] = writeClosed[Peer(x)]
           /\ got'[x] = got[x]
           /\ reader'[x] \in {"eof", "error"} \/ reader[x] \in {"eof", "error"} => reader'[x] = reader[x]
  BY <1>1 DEF P!vars
<1>2. CASE /\ ~writeClosed[Peer(x)] /\ written'[Peer(x)] = written[Peer(x)] + 1
           /\ writeClosed'[Peer(x)] = writeClosed[Peer(x)] /\ got'[x] = got[x] /\ reader'[x] = reader[x]
  BY <1>2 DEF P!Next, P!Write
<1>3. CASE /\ writeClosed'[Peer(x)] = TRUE /\ written'[Peer(x)] = written[Peer(x)]
           /\ got'[x] = got[x] /\ reader'[x] = reader[x]
  BY <1>3 DEF P!Next, P!CloseWrite
<1>4. CASE reader[x] = "read" /\ (Read(x) \/ ReaderFails(x))
  <2>1. /\ UNCHANGED <<wire, written, writeClosed, peerClosed, dead, done, table>>
        /\ x \in DOMAIN reader /\ reader \in [Refs -> {"off", "read", "wait", "eof", "error"}]
    BY <1>4 DEF Read, ReaderFails, session, conn, stream, MuxType, StreamType
  <2>2. CASE ReaderFails(x) \/ (reader' = [reader EXCEPT ![x] = "error"] /\ UNCHANGED got)
    <3>1. reader'[x] = "error" /\ got'[x] = got[x]
      BY <2>1, <2>2 DEF ReaderFails, Reads
    <3> QED
      BY <1>4, <2>1, <3>1 DEF P!Next, P!Break
  <2>3. CASE queue[x] # <<>> /\ UNCHANGED reader /\ queue' = [queue EXCEPT ![x] = Tail(@)]
             /\ got' = [got EXCEPT ![x] = Append(@, Head(queue[x]))]
    <3>1. got'[x] = Append(got[x], Head(queue[x])) /\ queue'[x] = Tail(queue[x])
      BY <2>3 DEF MuxType, StreamType
    <3>2. Head(queue[x]) = Len(got[x]) + 1 /\ Len(got[x]) < Written(x)
      BY <2>1, <2>3, <3>1, ReadFlows
    <3> QED
      BY <1>4, <2>1, <2>3, <3>1, <3>2 DEF P!Next, P!Read, Written
  <2>4. CASE queue[x] = <<>> /\ UNCHANGED got /\ ~dead[x] /\ peerClosed[x]
             /\ reader' = [reader EXCEPT ![x] = "eof"]
    <3>1. writeClosed[Peer(x)] /\ Len(got[x]) = Written(x)
      <4>1. writeClosed[Peer(x)] /\ Taken(x) = Written(x) /\ Len(queue[x]) = 0
        BY <2>4 DEF Flows
      <4>2. Len(got[x]) \in Nat
        BY FlowType
      <4> QED
        BY <4>1, <4>2 DEF Taken
    <3>2. reader'[x] = "eof" /\ got'[x] = got[x]
      BY <2>1, <2>4
    <3> QED
      BY <1>4, <2>1, <3>1, <3>2 DEF P!Next, P!ReadEnd, Written
  <2>5. CASE queue[x] = <<>> /\ UNCHANGED got /\ reader' = [reader EXCEPT ![x] = "wait"]
    <3>1. reader'[x] = "wait" /\ got'[x] = got[x]
      BY <2>1, <2>5
    <3> QED
      BY <1>4, <2>1, <3>1 DEF P!vars
  <2>6. Read(x) \/ ReaderFails(x)
    BY <1>4
  <2> QED
    BY <2>2, <2>3, <2>4, <2>5, <2>6 DEF Read, Reads
<1> QED
  BY <1>1, <1>2, <1>3, <1>4

\* Every step of the two ends is, for each direction of each stream, one of these.
LEMMA PipesStep ==
  ASSUME IInv, FlowInv, [Next]_vars, NEW x \in Refs
  PROVE  [P(x)!Next]_(P(x)!vars)
<1>1. MuxType /\ LeftInv /\ got \in [Refs -> Seq(Nat)] /\ Flows(x) /\ Peer(x) \in Refs
  BY PeerParts DEF IInv, FlowInv
<1>2. CASE UNCHANGED <<written, writeClosed, got, reader>>
  BY <1>1, <1>2, PipeStep
<1>3. UNCHANGED vars \/ Lose \/ Open \/ Accept => UNCHANGED <<written, writeClosed, got, reader>>
  BY DEF Lose, Open, Accept, vars, conn, stream, local
<1>4. ASSUME NEW e \in Ends, Session(e) PROVE UNCHANGED <<written, writeClosed, got, reader>>
  <2>1. CASE FailMarks(e) \/ FailEnds(e) \/ Close(e) \/ ReadFails(e) \/ LoopWrites(e)
    BY <2>1 DEF FailMarks, FailEnds, Close, ReadFails, LoopWrites, MarkDead, stream, local
  <2>2. CASE ReadFrame(e)
    BY <2>2 DEF ReadFrame, ReadOpen, ReadStream, ReadAnswer, Deliver, PeerClose, MarkDead, stream
  <2> QED
    BY <1>4, <2>1, <2>2 DEF Session
<1>5. ASSUME NEW i \in Ids, Opening(i) PROVE [P(x)!Next]_(P(x)!vars)
  <2> DEFINE g == <<"gateway", i>>
             c == <<"connector", i>>
  <2>1. g \in Refs /\ c \in Refs /\ Unread(g) /\ Unread(c)
    BY RefParts DEF FlowInv, Ends
  <2>2. CASE OpenReturns(i) \/ AcceptStream(i)
    <3>1. /\ UNCHANGED <<written, writeClosed, got>>
          /\ \A z \in Refs : reader'[z] # reader[z] => reader[z] = "off" /\ reader'[z] = "read"
      <4>1. CASE OpenReturns(i)
        BY <1>1, <2>1, <4>1 DEF OpenReturns, Unread, Early, stream, MuxType, StreamType
      <4>2. CASE AcceptStream(i)
        BY <1>1, <2>1, <4>2 DEF AcceptStream, Unread, Early, stream, MuxType, StreamType
      <4> QED
        BY <2>2, <4>1, <4>2
    <3> QED
      BY <1>1, <3>1, PipeStep
  <2>3. CASE SendOpen(i) \/ OpenCancelled(i) \/ RefuseStream(i) \/ SendRefuse(i)
    <3>1. UNCHANGED <<written, writeClosed, got, reader>>
      BY <2>3 DEF SendOpen, OpenCancelled, RefuseStream, SendRefuse, Reset, MarkDead, stream
    <3> QED
      BY <1>2, <3>1
  <2> QED
    BY <1>5, <2>2, <2>3 DEF Opening
<1>6. ASSUME NEW y \in Refs, Relay(y) PROVE [P(x)!Next]_(P(x)!vars)
  <2>1. CASE SendData(y)
    <3>1. ~writeClosed[y] /\ UNCHANGED <<writeClosed, got, reader>>
      <4>1. Each(y)
        BY <1>1 DEF LeftInv
      <4> QED
        BY <2>1, <4>1 DEF SendData, stream, Each, Closing
    <3>2. \A z \in Refs : \/ written'[z] = written[z]
                          \/ z = y /\ written'[z] = written[z] + 1
      BY <1>1, <2>1 DEF SendData, MuxType, StreamType
    <3> QED
      BY <1>1, <3>1, <3>2, PipeStep
  <2>2. CASE CloseWrite(y)
    <3>1. /\ UNCHANGED <<written, got, reader>>
          /\ \A z \in Refs : writeClosed'[z] = writeClosed[z] \/ writeClosed'[z] = TRUE
      BY <1>1, <2>2 DEF CloseWrite, MuxType, StreamType
    <3> QED
      BY <1>1, <3>1, PipeStep
  <2>3. CASE Read(y) \/ Wakes(y) \/ ReaderFails(y)
    <3>1. UNCHANGED <<written, writeClosed>>
      BY <2>3 DEF Read, Wakes, ReaderFails, stream
    <3>2. y # x => reader'[x] = reader[x] /\ got'[x] = got[x]
      BY <1>1, <2>3 DEF Read, Wakes, ReaderFails, Reads, MuxType, StreamType
    <3>3. CASE y # x
      BY <1>1, <3>1, <3>2, <3>3, PipeStep
    <3>4. CASE y = x /\ Wakes(y)
      <4>1. reader[x] = "wait" /\ reader'[x] = "read" /\ got'[x] = got[x]
        BY <1>1, <3>4 DEF Wakes, Reads, MuxType, StreamType
      <4> QED
        BY <1>1, <3>1, <4>1, PipeStep
    <3>5. CASE y = x /\ (Read(y) \/ ReaderFails(y))
      <4>1. reader[x] = "read"
        BY <3>5 DEF Read, ReaderFails
      <4> QED
        BY <1>1, <3>5, <4>1, PipeStep
    <3> QED
      BY <2>3, <3>3, <3>4, <3>5
  <2>4. CASE WriteBegins(y) \/ SendClose(y) \/ SendReset(y) \/ LocalFails(y) \/ RelayEnds(y)
    <3>1. UNCHANGED <<written, writeClosed, got, reader>>
      BY <2>4 DEF WriteBegins, SendClose, SendReset, LocalFails, RelayEnds, CloseStream, Reset, MarkDead, stream
    <3> QED
      BY <1>2, <3>1
  <2> QED
    BY <1>6, <2>1, <2>2, <2>3, <2>4 DEF Relay
<1> QED
  BY <1>2, <1>3, <1>4, <1>5, <1>6 DEF Next

\* What the refinement rests on holds throughout.
THEOREM FlowInvariant == Spec => []FlowInv
<1>1. FlowInv /\ IInv /\ IInv' /\ [Next]_vars => FlowInv'
  BY FlowInductive
<1> QED
  BY <1>1, InitFlow, MuxInvariant, PTL DEF Spec

\* Each direction of each stream is a pipe, for any number of streams and frames, any
\* bounds of what waits and whatever fails: Mux implements Pipe.
THEOREM PipesHold == Spec => Pipes
<1>1. Init => \A x \in Refs : P(x)!Init
  <2> SUFFICES ASSUME Init, NEW x \in Refs PROVE P(x)!Init
    OBVIOUS
  <2>1. Peer(x) \in Refs
    BY PeerParts
  <2>2. written[Peer(x)] = 0 /\ writeClosed[Peer(x)] = FALSE /\ got[x] = <<>> /\ reader[x] = "off"
    BY <2>1 DEF Init
  <2> QED
    BY <2>2 DEF P!Init
<1>2. IInv /\ FlowInv /\ [Next]_vars => \A x \in Refs : [P(x)!Next]_(P(x)!vars)
  BY PipesStep
<1>3. (\A x \in Refs : [P(x)!Next]_(P(x)!vars)) => [\A x \in Refs : [P(x)!Next]_(P(x)!vars)]_vars
  OBVIOUS
<1>4. IInv /\ FlowInv /\ [Next]_vars => [\A x \in Refs : [P(x)!Next]_(P(x)!vars)]_vars
  BY <1>2, <1>3
<1> QED
  BY <1>1, <1>4, MuxInvariant, FlowInvariant, PTL DEF Spec, Pipes
=============================================================================

-------------------------------- MODULE Gate --------------------------------
(***************************************************************************)
(* The packets of the stream: internal/serve's TimedWriter, Publication    *)
(* and the gate of its video track.                                        *)
(*                                                                         *)
(* A publisher's packets are held until its clock is known, looked up in   *)
(* the publication's generation under one mutex and written under another: *)
(* while the tunnel is behind whole frames are dropped, up to the next     *)
(* keyframe, and at a change of publisher the timestamps carry on.  The    *)
(* reader's decoder is modelled to tell what it can use.                   *)
(*                                                                         *)
(* A packet is the start of a keyframe's slice or of another frame's       *)
(* ("key", "frame"), or neither ("other").  Left out: the audio tracks,    *)
(* which no gate holds, codecs the gate does not know, sequence numbers,   *)
(* the peak and length of an episode, the bytes sent.                      *)
(***************************************************************************)
EXTENDS Naturals, Sequences

CONSTANTS
  MaxGens,     \* bound: publishers that replace each other
  MaxFrames,   \* bound: access units of a publisher
  HoldPackets  \* HoldPackets

ASSUME GateAssumption ==
  /\ MaxGens \in Nat \ {0} /\ MaxFrames \in Nat /\ HoldPackets \in Nat \ {0}

VARIABLES
  gen,       \* Publication.gens
  frame,     \* the access unit the publisher is at: its number and kind
  todo,      \* its packets still to come
  reported, settled, held, \* the publisher's TimedWriter
  queue,     \* packets it is about to write, in order
  hand,      \* a packet looked up and not yet written, or NoPacket
  congested, \* Server.congested
  track,     \* the video track
  stat,      \* Publication.droppedFrames
  total,     \* history: frames dropped since the publication started
  decoder,   \* history: what the reader has, and whether it was misled
  seen       \* history: the last packet looked up, and whether one came out of order

publisher == <<gen, frame, todo>>
writer == <<reported, settled, held, queue>>
counts == <<stat, total>>
gateVars == <<publisher, writer, hand, congested, track, counts, decoder, seen>>

\* A packet: its generation, access unit, kind, what it starts (slice 0 starts
\* nothing) and its place among the publisher's.
NoPacket == [gen |-> 0, au |-> 0, key |-> FALSE, slice |-> 0, place |-> 0]
Packet == [gen : 1 .. MaxGens, au : 1 .. MaxFrames, key : BOOLEAN, slice : 0 .. 2,
           place : 1 .. 3 * MaxFrames]

GateTypeOK ==
  /\ gen \in 1 .. MaxGens
  /\ frame \in [au : 0 .. MaxFrames, key : BOOLEAN, place : 0 .. 3 * MaxFrames]
  /\ todo \in Seq(0 .. 2)
  /\ reported \in BOOLEAN /\ settled \in BOOLEAN
  /\ held \in Seq(Packet) /\ Len(held) < HoldPackets /\ (settled => held = <<>>)
  /\ queue \in Seq(Packet) /\ hand \in Packet \cup {NoPacket}
  /\ congested \in BOOLEAN /\ stat \in Nat /\ total \in Nat
  /\ track \in [in : Nat \X Nat, dropping : BOOLEAN, undecided : BOOLEAN,
                frames : Nat, fresh : BOOLEAN, off : 0 .. MaxGens]
  /\ track.undecided => track.dropping
  /\ decoder \in [refs : BOOLEAN, got : Nat \X Nat, misled : BOOLEAN, skewed : BOOLEAN,
                  stray : BOOLEAN]
  /\ seen \in [last : Packet \cup {NoPacket}, disorder : BOOLEAN]

GateInit ==
  /\ gen = 1 /\ frame = [au |-> 0, key |-> FALSE, place |-> 0] /\ todo = <<>>
  /\ reported = FALSE /\ settled = FALSE /\ held = <<>> /\ queue = <<>>
  /\ hand = NoPacket /\ congested = FALSE
  /\ track = [in |-> <<0, 0>>, dropping |-> FALSE, undecided |-> FALSE,
              frames |-> 0, fresh |-> TRUE, off |-> 0]
  /\ stat = 0 /\ total = 0
  /\ decoder = [refs |-> FALSE, got |-> <<0, 0>>, misled |-> FALSE, skewed |-> FALSE,
                stray |-> FALSE]
  /\ seen = [last |-> NoPacket, disorder |-> FALSE]

-----------------------------------------------------------------------------
(* The publisher and its TimedWriter. *)

\* The publisher begins an access unit: the first is a keyframe; a supplemental
\* unit may come first, and a frame may be of two slices.
Begin ==
  /\ todo = <<>> /\ frame.au < MaxFrames
  /\ \E key \in BOOLEAN :
       /\ frame.au = 0 => key
       /\ frame' = [frame EXCEPT !.au = @ + 1, !.key = key]
  /\ todo' \in {<<1>>, <<0, 1>>, <<1, 2>>, <<0, 1, 2>>}
  /\ UNCHANGED <<gen, writer, hand, congested, track, counts, decoder, seen>>

\* The publisher's sender report on the media.
Report ==
  /\ ~reported /\ reported' = TRUE
  /\ UNCHANGED <<publisher, settled, held, queue, hand, congested, track, counts,
                 decoder, seen>>

\* flush: the held packets, then the current one.
Flush(p) == Append(held, p)

\* There is room for one more and the media's hold goes on.
Room == Len(held) + 1 < HoldPackets

\* TimedWriter.Write: the hold ends with the report, when it is full, or when it
\* has lasted (a choice here).
Write ==
  /\ todo # <<>> /\ queue = <<>> /\ hand = NoPacket
  /\ LET p == [gen |-> gen, au |-> frame.au, key |-> frame.key,
               slice |-> Head(todo), place |-> frame.place + 1]
     IN \/ settled /\ queue' = <<p>> /\ UNCHANGED <<settled, held>>
        \/ ~settled /\ queue' = Flush(p) /\ settled' = TRUE /\ held' = <<>>
        \/ /\ ~settled /\ ~reported /\ Room
           /\ held' = Append(held, p) /\ UNCHANGED <<queue, settled>>
  /\ todo' = Tail(todo) /\ frame' = [frame EXCEPT !.place = @ + 1]
  /\ UNCHANGED <<gen, reported, hand, congested, track, counts, decoder, seen>>

\* Stream.Publish's join: another generation, whose publisher has a TimedWriter
\* of its own; what the replaced one still holds is not the publisher's.
Join ==
  /\ gen < MaxGens /\ gen' = gen + 1
  /\ frame' = [au |-> 0, key |-> FALSE, place |-> 0] /\ todo' = <<>>
  /\ reported' = FALSE /\ settled' = FALSE /\ held' = <<>>
  /\ track' = [track EXCEPT !.fresh = TRUE, !.in = <<0, 0>>]
  /\ UNCHANGED <<queue, hand, congested, counts, decoder, seen>>

-----------------------------------------------------------------------------
(* WritePacketRTPWithNTP: the lookup, and the write. *)

\* The tunnel's backlog or an overflowing reader's queue comes and goes.
Congest ==
  /\ congested' = ~congested
  /\ UNCHANGED <<publisher, writer, hand, track, counts, decoder, seen>>

\* ErrUnknownMedia for a packet of a replaced generation.
Lookup ==
  /\ queue # <<>> /\ hand = NoPacket /\ queue' = Tail(queue)
  /\ LET p == Head(queue) IN
     /\ hand' = IF p.gen = gen THEN p ELSE NoPacket
     /\ seen' = [last |-> p,
                 disorder |-> seen.disorder \/ (seen.last.gen = p.gen /\ p.place <= seen.last.place)]
  /\ UNCHANGED <<publisher, reported, settled, held, congested, track, counts, decoder>>

\* beginsAccessUnit.
Begins(p) == track.in # <<p.gen, p.au>>

\* Bug: every slice of a keyframe may be the one to resume at.
AdmitAnySlice(p) ==
  LET d == track.dropping \/ (Begins(p) /\ congested)
      over == d /\ p.key /\ p.slice > 0 /\ ~congested
  IN [track EXCEPT !.in = <<p.gen, p.au>>, !.dropping = d /\ ~over,
                   !.undecided = d /\ ~over,
                   !.frames = (IF d /\ ~track.dropping THEN 0 ELSE @)
                              + (IF d /\ ~over /\ Begins(p) THEN 1 ELSE 0)]

\* admit: dropping begins at an access unit seen while behind, and ends at the
\* first that shows itself a keyframe once caught up; the first packet that says
\* what it is settles it for its access unit.
Admit(p) ==
  LET d == track.dropping \/ (Begins(p) /\ congested)
      u == IF Begins(p) THEN d ELSE track.undecided
      over == u /\ p.key /\ p.slice > 0 /\ ~congested
  IN [track EXCEPT !.in = <<p.gen, p.au>>, !.dropping = d /\ ~over,
                   !.undecided = u /\ p.slice = 0,
                   !.frames = (IF d /\ ~track.dropping THEN 0 ELSE @)
                              + (IF d /\ ~over /\ Begins(p) THEN 1 ELSE 0)]

\* stamp: a generation's first packet sets the offset of its timestamps.
Stamp(t, p) == IF t.fresh THEN p.gen ELSE t.off

\* What a decoder makes of a packet sent: a frame needs its references, and a
\* slice the slices before it.
Decode(p, off) ==
  [decoder EXCEPT
     !.refs = @ \/ (p.key /\ p.slice = 1),
     !.got = IF p.slice = 1 THEN <<p.gen, p.au>> ELSE @,
     !.misled = @ \/ (p.slice > 0 /\ ~p.key /\ ~decoder.refs)
                  \/ (p.slice = 2 /\ decoder.got # <<p.gen, p.au>>),
     !.skewed = @ \/ off # p.gen, !.stray = @ \/ p.gen # gen]

Put ==
  /\ hand # NoPacket /\ hand' = NoPacket
  /\ LET t == Admit(hand)
         off == Stamp(t, hand)
     IN IF t.dropping
        THEN /\ track' = t /\ stat' = t.frames
             /\ total' = total + (IF Begins(hand) THEN 1 ELSE 0)
             /\ decoder' = [decoder EXCEPT !.refs = @ /\ hand.slice = 0]
        ELSE /\ track' = [t EXCEPT !.fresh = FALSE, !.off = off]
             /\ decoder' = Decode(hand, off) /\ UNCHANGED counts
  /\ UNCHANGED <<publisher, writer, congested, seen>>

-----------------------------------------------------------------------------
GateNext == Begin \/ Report \/ Write \/ Join \/ Congest \/ Lookup \/ Put

GateSpec == GateInit /\ [][GateNext]_gateVars

-----------------------------------------------------------------------------
(* Properties. *)

\* The enclave never gets a frame whose reference was dropped, nor a keyframe
\* with its first slice missing, wherever the congestion begins and ends and the
\* publisher is replaced (gate.go, admit) - unless a packet of the replaced one,
\* looked up before the change, was written after it.
Decodable == decoder.misled => decoder.stray

\* Every packet is stamped with the offset of its own publisher's clock: the
\* timestamps run on across a change of publisher (gate.go, stamp) - unless such
\* a stray packet took the place of the new publisher's first.
Continuous == decoder.skewed => decoder.stray

\* The packets are written in the order they came, the held ones ahead of the one
\* that ended the hold (timed.go, Write and flush).
InOrder == ~seen.disorder

\* What is written plays: in the order the source gave it, on a clock that runs
\* on across a change of publisher.
Playable == Continuous /\ InOrder

\* What the enclave is given can be watched: each frame with what it refers to,
\* in order, on one clock, wherever packets are held or frames dropped and
\* whenever the publisher is replaced.
Watchable == Decodable /\ Playable

\* The count the console and the Adapter read is of the frames dropped since the
\* publication started (serve.go:387).  It does not hold: each episode of dropping
\* counts from zero.
CountsAll == stat = total
=============================================================================

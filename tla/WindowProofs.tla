---------------------------- MODULE WindowProofs ----------------------------
(***************************************************************************)
(* The window, for any number of connectors: what a connector has said is  *)
(* on its way to the page or shown by it.                                  *)
(*                                                                         *)
(* Each stage holds what the one before has passed on: the reporter and    *)
(* the pipe (SaidOnWay), the shell's snapshot and the event in its hand    *)
(* (InHandLast), the page with its queue (PageLast).  It takes that two    *)
(* runs do not speak at once (Apart), which is what the lock is for.       *)
(***************************************************************************)
EXTENDS Window, SequenceTheorems, WellFoundedInduction, TLAPS

-----------------------------------------------------------------------------
(* The fold of events. *)

\* A set of naturals has a least one.
LEMMA LeastOf ==
  ASSUME NEW S \in SUBSET Nat, S # {}
  PROVE  \E n \in S : \A m \in S : n <= m
<1>1. PICK n \in S : \A m \in S : ~ (<<m, n>> \in OpToRel(<, Nat))
  BY NatLessThanWellFounded, WFMin
<1>2. \A m \in S : ~ (m < n)
  BY <1>1 DEF OpToRel
<1> QED
  BY <1>2

\* A set of places has a last one.
LEMMA GreatestOf ==
  ASSUME NEW n \in Nat, NEW S \in SUBSET (1 .. n), S # {}
  PROVE  \E i \in S : \A j \in S : j <= i
<1> DEFINE above == {m \in 1 .. n : \A j \in S : j <= m}
<1>1. n \in above
  <2>1. PICK i \in S : TRUE
    OBVIOUS
  <2>2. i \in 1 .. n /\ n \in 1 .. n /\ \A j \in S : j <= n
    BY <2>1
  <2> QED
    BY <2>2
<1>2. above \in SUBSET Nat /\ above # {}
  BY <1>1
<1>3. PICK m \in above : \A k \in above : m <= k
  <2> HIDE DEF above
  <2> QED
    BY <1>2, LeastOf
<1>4. m \in 1 .. n /\ \A j \in S : j <= m
  BY <1>3
<1>5. \A j \in S : j \in 1 .. n
  OBVIOUS
<1>6. CASE m \in S
  BY <1>4, <1>6
<1>7. CASE m \notin S
  <2>1. \A j \in S : j <= m - 1
    BY <1>4, <1>5, <1>7
  <2>2. m - 1 \in 1 .. n
    <3>1. PICK i \in S : TRUE
      OBVIOUS
    <3>2. i \in 1 .. n /\ i <= m - 1
      BY <1>5, <2>1, <3>1
    <3> QED
      BY <1>4, <3>2
  <2>3. m - 1 \in above
    BY <2>1, <2>2
  <2>4. m <= m - 1
    BY <1>3, <2>3
  <2> QED
    BY <1>4, <2>4
<1> QED
  BY <1>6, <1>7

\* An event of a kind is the last of it, or there is none of it.
LastOf(evs, k, i) ==
  /\ i \in 1 .. Len(evs) /\ evs[i].kind = k
  /\ \A j \in 1 .. Len(evs) : evs[j].kind = k => j <= i

\* The fold gives the value of the last event of a kind, and what was before where there is none.
LEMMA FoldAt ==
  ASSUME NEW evs \in Seq(Event), NEW k \in Kinds
  PROVE  /\ \A s : (\A i \in 1 .. Len(evs) : evs[i].kind # k) => Fold(s, evs)[k] = s[k]
         /\ \A s, i : LastOf(evs, k, i) => Fold(s, evs)[k] = evs[i].val
         /\ (\A i \in 1 .. Len(evs) : evs[i].kind # k) \/ (\E i : LastOf(evs, k, i))
<1> DEFINE of == {i \in 1 .. Len(evs) : evs[i].kind = k}
<1>1. Len(evs) \in Nat /\ DOMAIN evs = 1 .. Len(evs)
  BY LenProperties
<1>2. \A s : Fold(s, evs)[k] = IF of = {} THEN s[k]
                               ELSE evs[CHOOSE i \in of : \A j \in of : j <= i].val
  BY <1>1 DEF Fold
<1>3. \A i : LastOf(evs, k, i) <=> i \in of /\ \A j \in of : j <= i
  BY DEF LastOf
<1>4. (\A i \in 1 .. Len(evs) : evs[i].kind # k) <=> of = {}
  OBVIOUS
<1>5. \A i \in of : i \in Nat
  BY <1>1
<1>6. of \in SUBSET (1 .. Len(evs))
  OBVIOUS
<1> HIDE DEF of
<1>7. of # {} => \E i : LastOf(evs, k, i)
  BY <1>1, <1>3, <1>6, GreatestOf
<1>8. ASSUME NEW i, LastOf(evs, k, i)
      PROVE  (CHOOSE m \in of : \A j \in of : j <= m) = i
  <2>1. i \in of /\ \A j \in of : j <= i
    BY <1>3, <1>8
  <2>2. \A m \in of : (\A j \in of : j <= m) => m = i
    BY <1>5, <2>1
  <2> QED
    BY <2>1, <2>2
<1>9. ASSUME NEW s, NEW i, LastOf(evs, k, i)
      PROVE  Fold(s, evs)[k] = evs[i].val
  <2>1. of # {}
    BY <1>3, <1>9
  <2> QED
    BY <1>2, <1>8, <1>9, <2>1
<1> QED
  BY <1>2, <1>4, <1>7, <1>9

\* The same, one by one.
LEMMA FoldNone ==
  ASSUME NEW evs \in Seq(Event), NEW k \in Kinds, NEW s,
         \A i \in 1 .. Len(evs) : evs[i].kind # k
  PROVE  Fold(s, evs)[k] = s[k]
BY FoldAt

\* The value of the last one.
LEMMA FoldLast ==
  ASSUME NEW evs \in Seq(Event), NEW k \in Kinds, NEW s, NEW i, LastOf(evs, k, i)
  PROVE  Fold(s, evs)[k] = evs[i].val
BY FoldAt

\* There is a last one, or none.
LEMMA SomeLast ==
  ASSUME NEW evs \in Seq(Event), NEW k \in Kinds
  PROVE  (\A i \in 1 .. Len(evs) : evs[i].kind # k) \/ (\E i : LastOf(evs, k, i))
BY FoldAt

\* What the fold is of one kind only depends on what was before of it.
LEMMA FoldLocal ==
  ASSUME NEW evs \in Seq(Event), NEW k \in Kinds, NEW s, NEW t, s[k] = t[k]
  PROVE  Fold(s, evs)[k] = Fold(t, evs)[k]
<1>1. CASE \A i \in 1 .. Len(evs) : evs[i].kind # k
  BY <1>1, FoldNone
<1>2. CASE \E i : LastOf(evs, k, i)
  <2>1. PICK i : LastOf(evs, k, i)
    BY <1>2
  <2>2. Fold(s, evs)[k] = evs[i].val
    BY <2>1, FoldLast
  <2>3. Fold(t, evs)[k] = evs[i].val
    BY <2>1, FoldLast
  <2> QED
    BY <2>2, <2>3
<1> QED
  BY <1>1, <1>2, SomeLast

\* Nothing is folded, and one event.
LEMMA FoldFew ==
  ASSUME NEW s, NEW e \in Event, NEW k \in Kinds
  PROVE  /\ Fold(s, <<>>)[k] = s[k]
         /\ Fold(s, <<e>>)[k] = IF e.kind = k THEN e.val ELSE s[k]
<1>1. Fold(s, <<>>)[k] = s[k]
  <2>1. <<>> \in Seq(Event) /\ \A i \in 1 .. Len(<<>>) : FALSE
    BY EmptySeq
  <2> QED
    BY <2>1, FoldNone
<1>2. <<e>> \in Seq(Event) /\ Len(<<e>>) = 1 /\ (<<e>>)[1] = e
  OBVIOUS
<1>3. 1 .. 1 = {1}
  OBVIOUS
<1>4. CASE e.kind = k
  <2>1. LastOf(<<e>>, k, 1)
    BY <1>2, <1>3, <1>4 DEF LastOf
  <2>2. Fold(s, <<e>>)[k] = (<<e>>)[1].val
    BY <1>2, <2>1, FoldLast
  <2> QED
    BY <1>1, <1>2, <1>4, <2>2
<1>5. CASE e.kind # k
  <2>1. \A i \in 1 .. Len(<<e>>) : (<<e>>)[i].kind # k
    BY <1>2, <1>3, <1>5
  <2>2. Fold(s, <<e>>)[k] = s[k]
    BY <1>2, <2>1, FoldNone
  <2> QED
    BY <1>1, <1>5, <2>2
<1> QED
  BY <1>4, <1>5

\* What follows is folded into what was folded before.
LEMMA FoldConcat ==
  ASSUME NEW s, NEW a \in Seq(Event), NEW b \in Seq(Event), NEW k \in Kinds
  PROVE  a \o b \in Seq(Event) /\ Fold(s, a \o b)[k] = Fold(Fold(s, a), b)[k]
<1>1. /\ a \o b \in Seq(Event) /\ Len(a \o b) = Len(a) + Len(b)
      /\ Len(a) \in Nat /\ Len(b) \in Nat
      /\ \A i \in 1 .. Len(a) + Len(b) :
           (a \o b)[i] = IF i <= Len(a) THEN a[i] ELSE b[i - Len(a)]
  BY ConcatProperties, LenProperties
<1>2. \A i \in 1 .. Len(a) : i \in 1 .. Len(a) + Len(b) /\ (a \o b)[i] = a[i]
  BY <1>1
<1>3. \A i \in 1 .. Len(b) : Len(a) + i \in 1 .. Len(a) + Len(b) /\ (a \o b)[Len(a) + i] = b[i]
  <2> TAKE i \in 1 .. Len(b)
  <2>1. Len(a) + i \in 1 .. Len(a) + Len(b) /\ ~ (Len(a) + i <= Len(a)) /\ (Len(a) + i) - Len(a) = i
    BY <1>1
  <2> QED
    BY <1>1, <2>1
<1>4. \A i \in 1 .. Len(a) + Len(b) :
        \/ i \in 1 .. Len(a) /\ (a \o b)[i] = a[i]
        \/ i - Len(a) \in 1 .. Len(b) /\ (a \o b)[i] = b[i - Len(a)] /\ Len(a) < i
  BY <1>1
<1>5. CASE \E i : LastOf(b, k, i)
  <2>1. PICK i : LastOf(b, k, i)
    BY <1>5
  <2>2. LastOf(a \o b, k, Len(a) + i)
    <3>1. i \in 1 .. Len(b) /\ b[i].kind = k /\ \A j \in 1 .. Len(b) : b[j].kind = k => j <= i
      BY <2>1 DEF LastOf
    <3>2. ASSUME NEW j \in 1 .. Len(a) + Len(b), (a \o b)[j].kind = k
          PROVE  j <= Len(a) + i
      <4>1. CASE j \in 1 .. Len(a)
        BY <1>1, <3>1, <4>1
      <4>2. CASE j - Len(a) \in 1 .. Len(b) /\ (a \o b)[j] = b[j - Len(a)]
        <5>1. j - Len(a) <= i
          BY <3>1, <3>2, <4>2
        <5> QED
          BY <1>1, <3>1, <5>1
      <4> QED
        BY <1>4, <4>1, <4>2
    <3> QED
      BY <1>1, <1>3, <3>1, <3>2 DEF LastOf
  <2>3. (a \o b)[Len(a) + i] = b[i]
    BY <1>3, <2>1 DEF LastOf
  <2>4. Fold(s, a \o b)[k] = (a \o b)[Len(a) + i].val
    <3>1. PICK c \in Seq(Event) : c = a \o b
      BY <1>1
    <3>2. LastOf(c, k, Len(a) + i)
      BY <2>2, <3>1
    <3>3. Fold(s, c)[k] = c[Len(a) + i].val
      BY <3>2, FoldLast
    <3> QED
      BY <3>1, <3>3
  <2>5. Fold(Fold(s, a), b)[k] = b[i].val
    BY <2>1, FoldLast
  <2> QED
    BY <1>1, <2>3, <2>4, <2>5
<1>6. CASE (\A i \in 1 .. Len(b) : b[i].kind # k) /\ (\E i : LastOf(a, k, i))
  <2>1. PICK i : LastOf(a, k, i)
    BY <1>6
  <2>2. LastOf(a \o b, k, i)
    <3>1. i \in 1 .. Len(a) /\ a[i].kind = k /\ \A j \in 1 .. Len(a) : a[j].kind = k => j <= i
      BY <2>1 DEF LastOf
    <3>2. ASSUME NEW j \in 1 .. Len(a) + Len(b), (a \o b)[j].kind = k
          PROVE  j <= i
      BY <1>4, <1>6, <3>1, <3>2
    <3> QED
      BY <1>1, <1>2, <3>1, <3>2 DEF LastOf
  <2>3. (a \o b)[i] = a[i]
    BY <1>2, <2>1 DEF LastOf
  <2>4. Fold(Fold(s, a), b)[k] = Fold(s, a)[k]
    BY <1>6, FoldNone
  <2>5. Fold(s, a)[k] = a[i].val
    BY <2>1, FoldLast
  <2>6. Fold(s, a \o b)[k] = (a \o b)[i].val
    <3>1. PICK c \in Seq(Event) : c = a \o b
      BY <1>1
    <3>2. LastOf(c, k, i)
      BY <2>2, <3>1
    <3>3. Fold(s, c)[k] = c[i].val
      BY <3>2, FoldLast
    <3> QED
      BY <3>1, <3>3
  <2> QED
    BY <1>1, <2>3, <2>4, <2>5, <2>6
<1>7. CASE (\A i \in 1 .. Len(b) : b[i].kind # k) /\ (\A i \in 1 .. Len(a) : a[i].kind # k)
  <2>1. \A i \in 1 .. Len(a \o b) : (a \o b)[i].kind # k
    BY <1>1, <1>4, <1>7
  <2>2. Fold(s, a \o b)[k] = s[k]
    BY <1>1, <2>1, FoldNone
  <2>3. Fold(s, a)[k] = s[k]
    BY <1>7, FoldNone
  <2>4. Fold(Fold(s, a), b)[k] = Fold(s, a)[k]
    BY <1>7, FoldNone
  <2> QED
    BY <1>1, <2>2, <2>3, <2>4
<1> QED
  BY <1>5, <1>6, <1>7, SomeLast

-----------------------------------------------------------------------------
(* What is said, and what is shown. *)

\* The kinds a page folds by run; blocked is the shell's to say as well.
Said == Kinds \ {"blocked"}

\* The run holds the lock.
Holds(r) == pc[r] \in {"start", "up", "down"}

\* What a run has in the pipe or in the relay's hand is about its own end at most.
Mute(s) == \A i \in 1 .. Len(s) : s[i].kind = "blocked"
Silent(r) == Mute(out[r]) /\ (inHand[r] # None => inHand[r].kind = "blocked")

\* One connector per state directory.
OneHolds == \A r, q \in Runs : Holds(r) /\ Holds(q) => r = q

\* A run that waits has said nothing, and one that is ready has nothing waiting.
Beginning ==
  \A r \in Runs :
    /\ pc[r] \in {"none", "lock"} =>
         out[r] = <<>> /\ pending[r] = <<>> /\ inHand[r] = None /\ says[r] = Nothing
    /\ pc[r] = "up" \/ ready[r] => pending[r] = <<>>
    /\ pc[r] = "up" => ready[r]
    /\ \A i \in 1 .. Len(pending[r]) : pending[r][i].kind # "hello"

\* A relay that has ended has passed on all there was.
Relayed ==
  \A r \in Runs :
    relay[r] \in {"ended", "done"} =>
      /\ pc[r] = "dead" /\ out[r] = <<>> /\ Silent(r)
      /\ relay[r] = "ended" => inHand[r] = None

\* While a run holds the lock, or has something said in the pipe, no other has.
Apart == \A r, q \in Runs : r # q => Silent(q) \/ (Silent(r) /\ ~Holds(r))

\* What it said last is what the shell will know last.
SaidOnWay ==
  \A r \in Runs : \A k \in Said :
    Holds(r) /\ says[r][k] # None => Fold(Fold(last, out[r]), pending[r])[k] = says[r][k]

\* What is in hand is the last of its kind.
InHandLast ==
  \A r \in Runs :
    inHand[r] # None /\ inHand[r].kind \in Said => inHand[r].val = last[inHand[r].kind]

\* What the page shows, or will once its queue is folded in.
Base ==
  CASE page = "live" -> view
    [] page = "read" -> Fold(snap, queue)
    [] OTHER -> Fold(last, queue)

\* The page is where the shell is, but for what is in hand.
PageLast ==
  \A k \in Said :
    page # "none" /\ (\A r \in Runs : inHand[r] # None => inHand[r].kind # k) => Base[k] = last[k]

\* Whoever speaks holds the lock; the queue is for a page that is there.
Order == OneHolds /\ Beginning /\ Relayed /\ (page = "none" => queue = <<>>)

OnWay == ~mixed => Apart /\ SaidOnWay /\ InHandLast /\ PageLast

WindowInv == shell # "gone" => Order /\ OnWay

-----------------------------------------------------------------------------
(* The types. *)

ConnType ==
  /\ pc \in [Runs -> {"none", "lock", "start", "up", "down", "dead"}]
  /\ stop \in [Runs -> {None, "clean", "relaunch", "exit", "cut"}]
  /\ ready \in [Runs -> BOOLEAN]
  /\ pending \in [Runs -> Seq(Event)] /\ out \in [Runs -> Seq(Event)]
  /\ says \in [Runs -> [Kinds -> Values]]

ShellType ==
  /\ inHand \in [Runs -> Event \cup {None}] /\ last \in [Kinds -> Values]
  /\ shell \in {"up", "stopping", "gone"} /\ {proc, target} \subseteq Runs \cup {None}
  /\ relay \in [Runs -> {"none", "read", "ended", "done"}]

PageType ==
  /\ queue \in Seq(Event) /\ {view, snap} \subseteq [Kinds -> Values]
  /\ page \in {"none", "asked", "read", "live"}

Types == ConnType /\ ShellType /\ PageType

\* The types of the fold.
LEMMA FoldTyped ==
  ASSUME NEW s \in [Kinds -> Values], NEW evs \in Seq(Event)
  PROVE  Fold(s, evs) \in [Kinds -> Values]
<1>1. ASSUME NEW k \in Kinds PROVE Fold(s, evs)[k] \in Values
  <2>1. CASE \A i \in 1 .. Len(evs) : evs[i].kind # k
    BY <2>1, FoldNone
  <2>2. CASE \E i : LastOf(evs, k, i)
    <3>1. PICK i : LastOf(evs, k, i)
      BY <2>2
    <3>2. i \in 1 .. Len(evs) /\ evs[i] \in Event
      BY <3>1, ElementOfSeq DEF LastOf
    <3>3. Fold(s, evs)[k] = evs[i].val
      BY <3>1, FoldLast
    <3> QED
      BY <3>2, <3>3 DEF Event
  <2> QED
    BY <2>1, <2>2, SomeLast
<1>2. Fold(s, evs) = [k \in Kinds |-> Fold(s, evs)[k]]
  BY DEF Fold
<1> QED
  BY <1>1, <1>2

\* What is delivered.
LEMMA DeliverTyped ==
  ASSUME PageType, NEW ev \in Event, Deliver(ev)
  PROVE  PageType'
<1>1. <<ev>> \in Seq(Event) /\ Append(queue, ev) \in Seq(Event)
  BY AppendProperties DEF PageType
<1>2. Fold(view, <<ev>>) \in [Kinds -> Values]
  BY <1>1, FoldTyped DEF PageType
<1> QED
  BY <1>1, <1>2 DEF Deliver, PageType

\* The events there are.
LEMMA EventsTyped ==
  /\ \A v \in Values, k \in Kinds : Ev(k, v) \in Event
  /\ \A v \in {"on", "off"} : Ev("link", v) \in Event /\ Ev("link", v).kind = "link"
  /\ \A v \in {"none", "armed"} : Ev("device", v) \in Event /\ Ev("device", v).kind = "device"
  /\ Ev("hello", "hello") \in Event /\ Ev("hello", "hello").kind = "hello"
  /\ Ev("hello", "hello").val = "hello"
  /\ \A v \in {"running", "stopped"} :
       Ev("blocked", v) \in Event /\ Ev("blocked", v).kind = "blocked"
BY DEF Ev, Event, Kinds, Values

\* What a connector emits.
LEMMA EmitTyped ==
  ASSUME ConnType, NEW r \in Runs, NEW ev \in Event, Emit(r, ev)
  PROVE  out' \in [Runs -> Seq(Event)] /\ pending' \in [Runs -> Seq(Event)]
<1>1. Append(out[r], ev) \in Seq(Event) /\ Append(pending[r], ev) \in Seq(Event)
  BY AppendProperties DEF ConnType
<1> QED
  BY <1>1 DEF Emit, ConnType

\* What it has said.
LEMMA SaysTyped ==
  ASSUME ConnType, NEW r \in Runs, NEW k \in Kinds, NEW v \in Values
  PROVE  /\ [says EXCEPT ![r][k] = v] \in [Runs -> [Kinds -> Values]]
         /\ \A q \in Runs, j \in Kinds :
              [says EXCEPT ![r][k] = v][q][j] = IF q = r /\ j = k THEN v ELSE says[q][j]
<1>1. says[r] \in [Kinds -> Values] /\ says \in [Runs -> [Kinds -> Values]]
  BY DEF ConnType
<1>2. [says[r] EXCEPT ![k] = v] \in [Kinds -> Values]
  BY <1>1
<1>3. [says EXCEPT ![r][k] = v] = [says EXCEPT ![r] = [says[r] EXCEPT ![k] = v]]
  BY <1>1
<1> QED
  BY <1>1, <1>2, <1>3

\* The steps of a connector.
LEMMA ConnectorTypeStep ==
  ASSUME Types, NEW r \in Runs,
         \/ Connector(r) \/ LoseTail(r)
         \/ \E v \in {"on", "off"} : SaysLink(r, v)
         \/ \E v \in {"none", "armed"} : SaysDevice(r, v)
         \/ \E how \in {"relaunch", "exit"} : Ends(r, how)
  PROVE  Types'
<1>1. ASSUME UNCHANGED <<service, pageVars>> PROVE ShellType' /\ PageType'
  BY <1>1 DEF Types, ShellType, PageType, service, quitting, busy, pageVars
<1>2. CASE TakeLock(r)
  BY <1>1, <1>2 DEF TakeLock, Types, ConnType, reporter
<1>3. CASE AlreadyRunning(r)
  <2>1. Append(out[r], Ev("blocked", "running")) \in Seq(Event)
    BY EventsTyped, AppendProperties DEF Types, ConnType
  <2>2. ConnType'
    BY <1>3, <2>1 DEF AlreadyRunning, Die, Types, ConnType
  <2> QED
    BY <1>1, <1>3, <2>2 DEF AlreadyRunning, Types
<1>4. CASE Ready(r)
  <2>1. out[r] \o <<Ev("hello", "hello")>> \o pending[r] \in Seq(Event) /\ <<>> \in Seq(Event)
    <3>1. out[r] \in Seq(Event) /\ pending[r] \in Seq(Event)
      BY DEF Types, ConnType
    <3>2. PICK h \in Seq(Event) : h = <<Ev("hello", "hello")>>
      <4>1. PICK e \in Event : e = Ev("hello", "hello")
        BY EventsTyped
      <4>2. <<e>> \in Seq(Event)
        OBVIOUS
      <4> QED
        BY <4>1, <4>2
    <3>3. PICK a \in Seq(Event) : a = out[r] \o h
      BY <3>1, ConcatProperties
    <3>4. a \o pending[r] \in Seq(Event)
      BY <3>1, ConcatProperties
    <3> QED
      BY <3>2, <3>3, <3>4, EmptySeq
  <2>2. out' \in [Runs -> Seq(Event)] /\ pending' \in [Runs -> Seq(Event)]
    <3>1. PICK new \in Seq(Event) : new = out[r] \o <<Ev("hello", "hello")>> \o pending[r]
      BY <2>1
    <3>2. out' = out \/ out' = [out EXCEPT ![r] = new]
      BY <1>4, <3>1 DEF Ready, HelloThenPending
    <3>3. pending' = pending \/ pending' = [pending EXCEPT ![r] = <<>>]
      BY <1>4 DEF Ready
    <3> QED
      BY <2>1, <3>2, <3>3 DEF Types, ConnType
  <2>3. says' \in [Runs -> [Kinds -> Values]]
    <3>1. "hello" \in Kinds /\ "hello" \in Values
      BY DEF Kinds, Values
    <3>2. [says EXCEPT ![r]["hello"] = "hello"] \in [Runs -> [Kinds -> Values]]
      BY <3>1, SaysTyped DEF Types
    <3>3. says' = says \/ says' = [says EXCEPT ![r]["hello"] = "hello"]
      BY <1>4 DEF Ready
    <3> QED
      BY <3>2, <3>3 DEF Types, ConnType
  <2>4. ConnType'
    BY <1>4, <2>2, <2>3 DEF Ready, Die, Types, ConnType
  <2> QED
    BY <1>1, <1>4, <2>4 DEF Ready, Types
<1>5. CASE StdinEnds(r)
  BY <1>1, <1>5 DEF StdinEnds, Die, Types, ConnType, reporter
<1>6. CASE WindsDown(r)
  BY <1>1, <1>6 DEF WindsDown, Die, Types, ConnType, reporter
<1>7. CASE LoseTail(r)
  BY <1>1, <1>7, EmptySeq DEF LoseTail, Types, ConnType
<1>8. ASSUME NEW ev \in Event, Says(r, ev) PROVE Types'
  <2>1. ev.val \in Values /\ ev.kind \in Kinds
    BY DEF Event
  <2>2. says' \in [Runs -> [Kinds -> Values]]
    <3>1. [says EXCEPT ![r][ev.kind] = ev.val] \in [Runs -> [Kinds -> Values]]
      BY <2>1, SaysTyped DEF Types
    <3>2. says' = says \/ says' = [says EXCEPT ![r][ev.kind] = ev.val]
      BY <1>8 DEF Says
    <3> QED
      BY <3>1, <3>2 DEF Types, ConnType
  <2>3. out' \in [Runs -> Seq(Event)] /\ pending' \in [Runs -> Seq(Event)]
    BY <1>8, EmitTyped DEF Says, Types, ConnType
  <2>4. ConnType'
    BY <1>8, <2>2, <2>3 DEF Says, Die, Types, ConnType
  <2> QED
    BY <1>1, <1>8, <2>4 DEF Says, Types
<1>9. ASSUME NEW how \in {"relaunch", "exit"}, Ends(r, how) PROVE Types'
  BY <1>1, <1>9 DEF Ends, Die, Types, ConnType, reporter
<1> QED
  BY <1>2, <1>3, <1>4, <1>5, <1>6, <1>7, <1>8, <1>9, EventsTyped DEF Connector, SaysLink, SaysDevice

\* The steps of a relay.
LEMMA RelayTypeStep ==
  ASSUME Types, NEW r \in Runs, Relay(r)
  PROVE  Types'
<1>1. ASSUME NEW ev \in Event, Take(r, ev)
      PROVE inHand' \in [Runs -> Event \cup {None}] /\ last' \in [Kinds -> Values]
  BY <1>1 DEF Take, Types, ShellType, Event
<1>2. CASE RelayTake(r)
  <2>1. Head(out[r]) \in Event /\ Tail(out[r]) \in Seq(Event)
    BY <1>2, HeadTailProperties DEF RelayTake, Types, ConnType
  <2>2. ConnType'
    BY <1>2, <2>1 DEF RelayTake, Types, ConnType
  <2>3. ShellType' /\ PageType'
    BY <1>1, <1>2, <2>1 DEF RelayTake, Types, ShellType, PageType, quitting, pageVars
  <2> QED
    BY <2>2, <2>3 DEF Types
<1>3. CASE RelayEmit(r)
  <2>1. inHand[r] \in Event
    BY <1>3 DEF RelayEmit, Types, ShellType
  <2>2. PageType'
    BY <1>3, <2>1, DeliverTyped DEF RelayEmit, Types
  <2>3. ConnType' /\ ShellType'
    BY <1>3 DEF RelayEmit, Types, ConnType, ShellType, conn, reporter, quitting
  <2> QED
    BY <2>2, <2>3 DEF Types
<1>4. CASE RelayEnd(r)
  BY <1>4 DEF RelayEnd, Types, ConnType, ShellType, PageType, conn, reporter, pageVars
<1>5. CASE RelayStopped(r)
  <2>1. Ev("blocked", "stopped") \in Event
    BY EventsTyped
  <2> QED
    BY <1>1, <1>5, <2>1
    DEF RelayStopped, Types, ConnType, ShellType, PageType, conn, reporter, quitting, pageVars
<1> QED
  BY <1>2, <1>3, <1>4, <1>5 DEF Relay

\* Every step.
LEMMA TypeStep ==
  ASSUME Types, [Next]_vars
  PROVE  Types'
<1> USE DEF Types
<1>1. CASE UNCHANGED vars
  BY <1>1 DEF vars, conn, service, pageVars, reporter, quitting, busy, ConnType, ShellType, PageType
<1>2. ASSUME NEW r \in Runs, Launch(r) PROVE Types'
  <2>1. last' \in [Kinds -> Values]
    BY <1>2 DEF Launch, ShellType, Kinds, Values
  <2> QED
    BY <1>2, <2>1 DEF Launch, ConnType, ShellType, PageType, reporter, quitting, pageVars
<1>3. CASE Start
  BY <1>3 DEF Start, ConnType, ShellType, PageType, conn, reporter, quitting, pageVars
<1>4. CASE LaunchFails
  <2>1. last' \in [Kinds -> Values]
    BY <1>4 DEF LaunchFails, ShellType, Kinds, Values
  <2>2. PageType'
    BY <1>4, EventsTyped, DeliverTyped DEF LaunchFails
  <2> QED
    BY <1>4, <2>1, <2>2 DEF LaunchFails, ConnType, ShellType, conn, reporter, quitting
<1>5. CASE QuitAnyway
  BY <1>5 DEF QuitAnyway, ConnType, ShellType, PageType, conn, reporter, pageVars
<1>6. CASE ServiceShutdown
  BY <1>6 DEF ServiceShutdown, ConnType, ShellType, PageType, conn, reporter, pageVars
<1>7. ASSUME Gone, \/ UNCHANGED <<pc, stop>>
                   \/ target # None /\ Die(target, "cut")
      PROVE  Types'
  <2>1. Nothing \in [Kinds -> Values] /\ <<>> \in Seq(Event)
    BY EmptySeq DEF Nothing, Values
  <2>2. ShellType' /\ PageType'
    BY <1>7, <2>1 DEF Gone, ShellType, PageType
  <2>3. /\ out' \in [Runs -> Seq(Event)] /\ pending' = out' /\ says' \in [Runs -> [Kinds -> Values]]
        /\ ready' = ready
    BY <1>7, <2>1 DEF Gone
  <2>4. ConnType'
    BY <1>7, <2>3 DEF Die, ConnType, ShellType
  <2> QED
    BY <2>2, <2>4
<1>8. CASE ShellEnds
  BY <1>7, <1>8 DEF ShellEnds
<1>9. CASE ShellKilled
  BY <1>7, <1>9 DEF ShellKilled
<1>10. CASE Page
  <2>1. /\ Fold(snap, queue) \in [Kinds -> Values] /\ <<>> \in Seq(Event)
        /\ Nothing \in [Kinds -> Values]
    BY FoldTyped, EmptySeq DEF PageType, Nothing, Values
  <2>2. ConnType' /\ ShellType'
    BY <1>10 DEF Page, Subscribe, Snapshot, Mount, conn, reporter, service, quitting, ConnType,
       ShellType
  <2>3. PageType'
    BY <1>10, <2>1 DEF Page, Subscribe, Snapshot, Mount, SnapshotThenQueue, PageType, ShellType
  <2> QED
    BY <2>2, <2>3
<1>11. ASSUME NEW r \in Runs, Relay(r) PROVE Types'
  BY <1>11, RelayTypeStep
<1>12. ASSUME NEW r \in Runs,
              \/ Connector(r) \/ LoseTail(r)
              \/ \E v \in {"on", "off"} : SaysLink(r, v)
              \/ \E v \in {"none", "armed"} : SaysDevice(r, v)
              \/ \E how \in {"relaunch", "exit"} : Ends(r, how)
       PROVE  Types'
  BY <1>12, ConnectorTypeStep
<1> QED
  BY <1>1, <1>2, <1>3, <1>4, <1>5, <1>6, <1>8, <1>9, <1>10, <1>11, <1>12
  DEF Next, ServiceStartup, Restart

-----------------------------------------------------------------------------
(* The steps. *)

\* One event more at the end, of the kind.
LEMMA FoldAppended ==
  ASSUME NEW s, NEW a \in Seq(Event), NEW e \in Event, NEW c, c = Append(a, e)
  PROVE  Fold(s, c)[e.kind] = e.val
<1>1. <<e>> \in Seq(Event) /\ e.kind \in Kinds
  BY DEF Event
<1>2. PICK b \in Seq(Event), k \in Kinds : b = <<e>> /\ e.kind = k
  BY <1>1
<1>3. c = a \o b
  BY <1>2, AppendIsConcat
<1>4. Fold(s, a \o b)[k] = Fold(Fold(s, a), b)[k]
  BY FoldConcat
<1>5. Fold(Fold(s, a), <<e>>)[k] = IF e.kind = k THEN e.val ELSE Fold(s, a)[k]
  BY FoldFew
<1> QED
  BY <1>2, <1>3, <1>4, <1>5

\* And one of another.
LEMMA FoldUntouched ==
  ASSUME NEW s, NEW a \in Seq(Event), NEW e \in Event, NEW k \in Kinds, NEW c, c = Append(a, e),
         e.kind # k
  PROVE  Fold(s, c)[k] = Fold(s, a)[k]
<1>1. <<e>> \in Seq(Event)
  OBVIOUS
<1>2. PICK b \in Seq(Event) : b = <<e>>
  BY <1>1
<1>3. c = a \o b
  BY <1>2, AppendIsConcat
<1>4. Fold(s, a \o b)[k] = Fold(Fold(s, a), b)[k]
  BY FoldConcat
<1>5. Fold(Fold(s, a), <<e>>)[k] = IF e.kind = k THEN e.val ELSE Fold(s, a)[k]
  BY FoldFew
<1> QED
  BY <1>2, <1>3, <1>4, <1>5

\* One event less in front.
LEMMA FoldHead ==
  ASSUME NEW s, NEW a \in Seq(Event), a # <<>>, NEW t, NEW k \in Kinds,
         t[k] = IF Head(a).kind = k THEN Head(a).val ELSE s[k]
  PROVE  Fold(t, Tail(a))[k] = Fold(s, a)[k]
<1>1. /\ Head(a) \in Event /\ Tail(a) \in Seq(Event) /\ Len(Tail(a)) = Len(a) - 1
      /\ \A i \in 1 .. Len(Tail(a)) : Tail(a)[i] = a[i + 1]
      /\ Len(a) \in Nat \ {0} /\ Head(a) = a[1]
  BY HeadTailProperties, EmptySeq
<1>2. PICK h \in Event : h = Head(a)
  BY <1>1
<1>3. PICK u \in Seq(Event) : u = Tail(a)
  BY <1>1
<1>4. a = <<h>> \o u
  <2>1. <<h>> \in Seq(Event) /\ Len(<<h>>) = 1 /\ (<<h>>)[1] = h
    OBVIOUS
  <2>2. /\ <<h>> \o u \in Seq(Event) /\ Len(<<h>> \o u) = 1 + Len(u)
        /\ \A i \in 1 .. 1 + Len(u) : (<<h>> \o u)[i] = IF i <= 1 THEN (<<h>>)[i] ELSE u[i - 1]
    BY <2>1, ConcatProperties
  <2>3. Len(<<h>> \o u) = Len(a)
    BY <1>1, <1>3, <2>2
  <2>4. \A i \in 1 .. Len(a) : (<<h>> \o u)[i] = a[i]
    <3> TAKE i \in 1 .. Len(a)
    <3>1. CASE i = 1
      BY <1>1, <1>2, <2>1, <2>2, <2>3, <3>1
    <3>2. CASE i # 1
      <4>1. i - 1 \in 1 .. Len(u) /\ (i - 1) + 1 = i /\ ~ (i <= 1) /\ i \in 1 .. 1 + Len(u)
        BY <1>1, <1>3, <3>2
      <4> QED
        BY <1>1, <1>3, <2>2, <4>1
    <3> QED
      BY <3>1, <3>2
  <2> QED
    BY <2>2, <2>3, <2>4, SeqEqual
<1>5. <<h>> \in Seq(Event)
  OBVIOUS
<1>6. Fold(s, a)[k] = Fold(Fold(s, <<h>>), u)[k]
  <2>1. PICK b \in Seq(Event) : b = <<h>>
    BY <1>5
  <2>2. Fold(s, b \o u)[k] = Fold(Fold(s, b), u)[k]
    BY FoldConcat
  <2> QED
    BY <1>4, <2>1, <2>2
<1>7. Fold(s, <<h>>)[k] = t[k]
  BY <1>2, FoldFew
<1>8. Fold(Fold(s, <<h>>), u)[k] = Fold(t, u)[k]
  BY <1>7, FoldLocal
<1> QED
  BY <1>3, <1>6, <1>8

\* One after the other, only what was before of the kind counts.
LEMMA FoldLocalTwice ==
  ASSUME NEW a \in Seq(Event), NEW b \in Seq(Event), NEW k \in Kinds, NEW s, NEW t, s[k] = t[k]
  PROVE  Fold(Fold(s, a), b)[k] = Fold(Fold(t, a), b)[k]
<1>1. Fold(s, a)[k] = Fold(t, a)[k]
  BY FoldLocal
<1> QED
  BY <1>1, FoldLocal

\* What the steps below are about.
flow == <<out, pending, says, ready, last, inHand, relay, page, view, queue, snap, mixed>>

\* Nothing of it changes, nor where the runs are.
LEMMA FlowStays ==
  ASSUME Order, OnWay, UNCHANGED <<flow, pc>>
  PROVE  Order' /\ OnWay'
BY DEF flow, Order, OnWay, OneHolds, Holds, Beginning, Relayed, Silent, Mute, Apart, SaidOnWay,
       InHandLast, PageLast, Base

\* A run that held the lock goes on to its end.
LEMMA FallStep ==
  ASSUME Types, Order, OnWay, NEW r \in Runs, Holds(r), NEW x \in {"down", "dead"},
         pc' = [pc EXCEPT ![r] = x], UNCHANGED flow
  PROVE  Order' /\ OnWay'
<1>1. /\ pc'[r] = x /\ \A q \in Runs : q # r => pc'[q] = pc[q]
      /\ \A q \in Runs : Holds(q)' => Holds(q)
  BY DEF Types, ConnType, Holds
<1>2. Order'
  <2>1. OneHolds'
    BY <1>1 DEF Order, OneHolds
  <2>2. Beginning'
    BY <1>1 DEF Order, Beginning, flow
  <2>3. Relayed'
    BY <1>1 DEF Order, Relayed, Silent, Mute, Holds, flow
  <2> QED
    BY <2>1, <2>2, <2>3 DEF Order, flow
<1>3. ~mixed => Apart'
  BY <1>1 DEF OnWay, Apart, Silent, Mute, flow
<1>4. ~mixed => SaidOnWay'
  BY <1>1 DEF OnWay, SaidOnWay, flow
<1>5. ~mixed => InHandLast' /\ PageLast'
  BY DEF OnWay, InHandLast, PageLast, Base, flow
<1> QED
  BY <1>2, <1>3, <1>4, <1>5 DEF OnWay, flow

\* A run takes the lock: the others are done, or have said nothing.
LEMMA LockStep ==
  ASSUME Types, Order, OnWay, NEW r \in Runs, TakeLock(r)
  PROVE  Order' /\ OnWay'
<1>1. /\ pc[r] = "lock" /\ pc'[r] = "start" /\ \A q \in Runs : q # r => pc'[q] = pc[q]
      /\ \A q \in Runs : ~Holds(q)
      /\ out' = out /\ pending' = pending /\ says' = says /\ ready' = ready /\ last' = last
      /\ inHand' = inHand /\ relay' = relay /\ page' = page /\ view' = view /\ queue' = queue
      /\ snap' = snap
  BY DEF TakeLock, Locked, Holds, Types, ConnType, reporter, service, pageVars
<1>2. \A q \in Runs : Holds(q)' => q = r
  BY <1>1 DEF Holds
<1>3. Order'
  <2>1. OneHolds'
    BY <1>2 DEF OneHolds
  <2>2. Beginning'
    BY <1>1 DEF Order, Beginning
  <2>3. Relayed'
    BY <1>1 DEF Order, Relayed, Silent, Mute
  <2> QED
    BY <1>1, <2>1, <2>2, <2>3 DEF Order
<1>4. ~mixed' => ~mixed /\ \A q \in Runs : pc[q] = "dead" => relay[q] = "done"
  BY DEF TakeLock
<1>5. ASSUME ~mixed' PROVE \A q \in Runs : Silent(q)
  <2> TAKE q \in Runs
  <2>1. CASE pc[q] \in {"none", "lock"}
    BY <2>1, EmptySeq DEF Order, Beginning, Silent, Mute
  <2>2. CASE pc[q] = "dead"
    BY <1>4, <1>5, <2>2 DEF Order, Relayed
  <2> QED
    BY <1>1, <2>1, <2>2 DEF Holds, Types, ConnType
<1>6. ~mixed' => Apart'
  BY <1>1, <1>5 DEF Apart, Silent, Mute
<1>7. ~mixed' => SaidOnWay'
  <2>1. says[r] = Nothing
    BY <1>1 DEF Order, Beginning
  <2>2. \A k \in Said : says[r][k] = None
    BY <2>1 DEF Nothing, Said
  <2> QED
    BY <1>1, <1>2, <2>2 DEF SaidOnWay
<1>8. ~mixed' => InHandLast' /\ PageLast'
  BY <1>1, <1>4 DEF OnWay, InHandLast, PageLast, Base
<1> QED
  BY <1>3, <1>6, <1>7, <1>8 DEF OnWay

\* The kinds of events.
LEMMA SaidKinds ==
  /\ Said \in SUBSET Kinds /\ "blocked" \notin Said /\ "hello" \in Said
  /\ "link" \in Said /\ "device" \in Said
BY DEF Said, Kinds

\* A run that finds the lock taken says no more than that.
LEMMA BlockedStep ==
  ASSUME Types, Order, OnWay, NEW r \in Runs, AlreadyRunning(r)
  PROVE  Order' /\ OnWay'
<1>1. /\ pc[r] = "lock" /\ pc'[r] = "dead" /\ \A q \in Runs : q # r => pc'[q] = pc[q]
      /\ out'[r] = Append(out[r], Ev("blocked", "running"))
      /\ \A q \in Runs : q # r => out'[q] = out[q]
      /\ pending' = pending /\ says' = says /\ ready' = ready /\ last' = last
      /\ inHand' = inHand /\ relay' = relay /\ page' = page /\ view' = view /\ queue' = queue
      /\ snap' = snap /\ mixed' = mixed
  BY DEF AlreadyRunning, Die, Types, ConnType, service, pageVars
<1>2. Mute(out'[r]) /\ inHand[r] = None
  <2>1. out[r] = <<>> /\ inHand[r] = None
    BY <1>1 DEF Order, Beginning
  <2>2. out'[r] = <<Ev("blocked", "running")>>
    BY <1>1, <2>1
  <2> QED
    BY <2>1, <2>2, EventsTyped DEF Mute
<1>3. \A q \in Runs : Holds(q)' => Holds(q) /\ q # r
  BY <1>1 DEF Holds
<1>4. \A q \in Runs : Silent(q) => Silent(q)'
  BY <1>1, <1>2 DEF Silent
<1>5. Order'
  <2>1. OneHolds'
    BY <1>3 DEF Order, OneHolds
  <2>2. Beginning'
    BY <1>1 DEF Order, Beginning
  <2>3. Relayed'
    BY <1>1, <1>4 DEF Order, Relayed
  <2> QED
    BY <1>1, <2>1, <2>2, <2>3 DEF Order
<1>6. ~mixed => Apart'
  BY <1>3, <1>4 DEF OnWay, Apart
<1>7. ~mixed => SaidOnWay'
  BY <1>1, <1>3 DEF OnWay, SaidOnWay
<1>8. ~mixed => InHandLast' /\ PageLast'
  BY <1>1 DEF OnWay, InHandLast, PageLast, Base
<1> QED
  BY <1>1, <1>5, <1>6, <1>7, <1>8 DEF OnWay

\* What an ended run had still in the pipe is lost.
LEMMA TailStep ==
  ASSUME Types, Order, OnWay, NEW r \in Runs, LoseTail(r)
  PROVE  Order' /\ OnWay'
<1>1. /\ pc[r] = "dead" /\ pc' = pc /\ out'[r] = <<>>
      /\ \A q \in Runs : q # r => out'[q] = out[q]
      /\ pending' = pending /\ says' = says /\ ready' = ready /\ last' = last
      /\ inHand' = inHand /\ relay' = relay /\ page' = page /\ view' = view /\ queue' = queue
      /\ snap' = snap /\ mixed' = mixed
  BY DEF LoseTail, Types, ConnType, service, pageVars
<1>2. Mute(out'[r])
  BY <1>1 DEF Mute
<1>3. \A q \in Runs : (Holds(q)' <=> Holds(q)) /\ (Holds(q) => q # r)
  BY <1>1 DEF Holds
<1>4. \A q \in Runs : Silent(q) => Silent(q)'
  BY <1>1, <1>2 DEF Silent
<1>5. Order'
  <2>1. OneHolds'
    BY <1>3 DEF Order, OneHolds
  <2>2. Beginning'
    BY <1>1 DEF Order, Beginning
  <2>3. Relayed'
    BY <1>1, <1>4 DEF Order, Relayed
  <2> QED
    BY <1>1, <2>1, <2>2, <2>3 DEF Order
<1>6. ~mixed => Apart'
  BY <1>3, <1>4 DEF OnWay, Apart
<1>7. ~mixed => SaidOnWay'
  BY <1>1, <1>3 DEF OnWay, SaidOnWay
<1>8. ~mixed => InHandLast' /\ PageLast'
  BY <1>1 DEF OnWay, InHandLast, PageLast, Base
<1> QED
  BY <1>1, <1>5, <1>6, <1>7, <1>8 DEF OnWay

\* The run that holds the lock says something more: what it says and what is
\* on its way go together.
LEMMA SpeakStep ==
  ASSUME Types, Order, OnWay, NEW r \in Runs, Holds(r),
         pc'[r] \in {"start", "up"}, \A q \in Runs : q # r => pc'[q] = pc[q],
         ConnType',
         \A q \in Runs : q # r => /\ out'[q] = out[q] /\ pending'[q] = pending[q]
                                  /\ ready'[q] = ready[q] /\ says'[q] = says[q],
         pc'[r] = "up" \/ ready'[r] => pending'[r] = <<>>,
         pc'[r] = "up" => ready'[r],
         \A i \in 1 .. Len(pending'[r]) : pending'[r][i].kind # "hello",
         ~mixed => \A k \in Said : says'[r][k] # None =>
                     Fold(Fold(last, out'[r]), pending'[r])[k] = says'[r][k],
         UNCHANGED <<last, inHand, relay, page, view, queue, snap, mixed>>
  PROVE  Order' /\ OnWay'
<1>1. \A q \in Runs : Holds(q)' <=> Holds(q)
  BY DEF Holds
<1>2. \A q \in Runs : q # r => ~Holds(q) /\ (Silent(q)' <=> Silent(q))
  BY DEF Order, OneHolds, Silent
<1>3. Order'
  <2>1. OneHolds'
    BY <1>1 DEF Order, OneHolds
  <2>2. Beginning'
    BY DEF Order, Beginning
  <2>3. relay'[r] \notin {"ended", "done"}
    BY DEF Order, Relayed, Holds
  <2>4. Relayed'
    BY <1>2, <2>3 DEF Order, Relayed
  <2> QED
    BY <2>1, <2>2, <2>4 DEF Order
<1>4. ~mixed => \A q \in Runs : q # r => Silent(q)
  BY DEF OnWay, Apart
<1>5. ~mixed => Apart'
  BY <1>1, <1>2, <1>4 DEF Apart
<1>6. ~mixed => SaidOnWay'
  BY <1>1, <1>2 DEF SaidOnWay
<1>7. ~mixed => InHandLast' /\ PageLast'
  BY DEF OnWay, InHandLast, PageLast, Base
<1> QED
  BY <1>3, <1>5, <1>6, <1>7 DEF OnWay

\* The link or the device: behind what is in the pipe, or waits for the hello.
LEMMA SaysStep ==
  ASSUME Types, Types', Order, OnWay, NEW r \in Runs, NEW ev \in Event,
         pc[r] \in {"start", "up"}, ev.kind # "hello", Says(r, ev)
  PROVE  Order' /\ OnWay'
<1>1. /\ ready' = ready /\ last' = last /\ inHand' = inHand /\ relay' = relay /\ page' = page
      /\ view' = view /\ queue' = queue /\ snap' = snap /\ mixed' = mixed
  BY DEF Says, service, pageVars
<1>2. Holds(r)
  BY DEF Holds
<1>3. CASE broken
  <2>1. pc' = [pc EXCEPT ![r] = "dead"] /\ UNCHANGED flow
    BY <1>1, <1>3 DEF Says, Die, flow
  <2> QED
    BY <1>2, <2>1, FallStep
<1>4. CASE ~broken
  <2>1. pc' = pc /\ Emit(r, ev) /\ says' = [says EXCEPT ![r][ev.kind] = ev.val]
    BY <1>4 DEF Says
  <2>2. /\ out[r] \in Seq(Event) /\ pending[r] \in Seq(Event)
        /\ ready[r] \in BOOLEAN /\ ev.kind \in Kinds /\ ev.val \in Values
    BY DEF Types, ConnType, Event
  <2>3. \A q \in Runs, k \in Kinds :
        says'[q][k] = IF q = r /\ k = ev.kind THEN ev.val ELSE says[q][k]
    <3>1. \A q \in Runs, k \in Kinds :
            [says EXCEPT ![r][ev.kind] = ev.val][q][k] =
              IF q = r /\ k = ev.kind THEN ev.val ELSE says[q][k]
      BY <2>2, SaysTyped DEF Types
    <3> QED
      BY <2>1, <3>1
  <2>4. \A q \in Runs : q # r => says'[q] = says[q]
    BY <2>1 DEF Types, ConnType
  <2>5. ~mixed => \A k \in Said : says[r][k] # None =>
        Fold(Fold(last, out[r]), pending[r])[k] = says[r][k]
    BY <1>2 DEF OnWay, SaidOnWay
  <2>6. CASE ready[r]
    <3>1. /\ out'[r] = Append(out[r], ev) /\ pending' = pending /\ pending[r] = <<>>
          /\ \A q \in Runs : q # r => out'[q] = out[q]
      BY <2>1, <2>6 DEF Emit, Order, Beginning, Types, ConnType
    <3>2. ASSUME ~mixed, NEW k \in Said, says'[r][k] # None
          PROVE  Fold(Fold(last, out'[r]), pending'[r])[k] = says'[r][k]
      <4>1. k \in Kinds
        BY SaidKinds
      <4>2. Fold(last, Append(out[r], ev))[k] =
            IF ev.kind = k THEN ev.val ELSE Fold(last, out[r])[k]
        <5>0. PICK a \in Seq(Event) : a = out[r]
          BY <2>2
        <5>1. PICK s, c : s = last /\ c = Append(a, ev)
          OBVIOUS
        <5>2. c = Append(a, ev)
          BY <5>1
        <5>3. CASE ev.kind = k
          <6>1. Fold(s, c)[ev.kind] = ev.val
            BY <5>2, FoldAppended
          <6> QED
            BY <5>0, <5>1, <5>3, <6>1
        <5>4. CASE ev.kind # k
          <6>1. Fold(s, c)[k] = Fold(s, a)[k]
            BY <4>1, <5>2, <5>4, FoldUntouched
          <6> QED
            BY <5>0, <5>1, <5>4, <6>1
        <5> QED
          BY <5>3, <5>4
      <4>3. /\ Fold(Fold(last, out[r]), <<>>)[k] = Fold(last, out[r])[k]
            /\ Fold(Fold(last, out'[r]), <<>>)[k] = Fold(last, out'[r])[k]
        BY <4>1, FoldFew
      <4> QED
        BY <2>3, <2>5, <3>1, <3>2, <4>1, <4>2, <4>3
    <3> QED
      BY <1>1, <1>2, <2>1, <2>4, <2>6, <3>1, <3>2, SpeakStep DEF Types, Order, Beginning
  <2>7. CASE ~ready[r]
    <3>1. /\ pending'[r] = Append(pending[r], ev) /\ out' = out /\ pc[r] # "up"
          /\ \A q \in Runs : q # r => pending'[q] = pending[q]
      BY <2>1, <2>7 DEF Emit, Order, Beginning, Types, ConnType
    <3>2. ASSUME ~mixed, NEW k \in Said, says'[r][k] # None
          PROVE  Fold(Fold(last, out'[r]), pending'[r])[k] = says'[r][k]
      <4>1. k \in Kinds
        BY SaidKinds
      <4>2. Fold(Fold(last, out[r]), Append(pending[r], ev))[k] =
              IF ev.kind = k THEN ev.val ELSE Fold(Fold(last, out[r]), pending[r])[k]
        <5>0. PICK a \in Seq(Event) : a = pending[r]
          BY <2>2
        <5>1. PICK s, c : s = Fold(last, out[r]) /\ c = Append(a, ev)
          OBVIOUS
        <5>2. c = Append(a, ev)
          BY <5>1
        <5>3. CASE ev.kind = k
          <6>1. Fold(s, c)[ev.kind] = ev.val
            BY <5>2, FoldAppended
          <6> QED
            BY <5>0, <5>1, <5>3, <6>1
        <5>4. CASE ev.kind # k
          <6>1. Fold(s, c)[k] = Fold(s, a)[k]
            BY <4>1, <5>2, <5>4, FoldUntouched
          <6> QED
            BY <5>0, <5>1, <5>4, <6>1
        <5> QED
          BY <5>3, <5>4
      <4> QED
        BY <2>3, <2>5, <3>1, <3>2, <4>1, <4>2
    <3>3. \A i \in 1 .. Len(pending'[r]) : pending'[r][i].kind # "hello"
      <4>1. /\ Len(Append(pending[r], ev)) = Len(pending[r]) + 1 /\ Len(pending[r]) \in Nat
            /\ \A i \in 1 .. Len(pending[r]) : Append(pending[r], ev)[i] = pending[r][i]
            /\ Append(pending[r], ev)[Len(pending[r]) + 1] = ev
        BY <2>2, AppendProperties, LenProperties
      <4>2. \A i \in 1 .. Len(pending[r]) : pending[r][i].kind # "hello"
        BY DEF Order, Beginning
      <4>3. \A i \in 1 .. Len(pending[r]) + 1 :
            i \in 1 .. Len(pending[r]) \/ i = Len(pending[r]) + 1
        BY <4>1
      <4> QED
        BY <3>1, <4>1, <4>2, <4>3
    <3> QED
      BY <1>1, <1>2, <2>1, <2>4, <2>7, <3>1, <3>2, <3>3, SpeakStep DEF Types
  <2> QED
    BY <2>2, <2>6, <2>7
<1> QED
  BY <1>3, <1>4

\* An event in front of what waited, on its own kind.
LEMMA FoldBefore ==
  ASSUME NEW s, NEW a \in Seq(Event), NEW h \in Event, NEW p \in Seq(Event),
         NEW c, c = a \o <<h>> \o p, \A i \in 1 .. Len(p) : p[i].kind # h.kind
  PROVE  Fold(s, c)[h.kind] = h.val
<1>1. PICK d : d = Append(a, h)
  OBVIOUS
<1>2. d \in Seq(Event) /\ c = d \o p
  <2>1. Append(a, h) \in Seq(Event) /\ Append(a, h) = a \o <<h>>
    BY AppendIsConcat, AppendProperties
  <2> QED
    BY <1>1, <2>1
<1>3. PICK k \in Kinds : k = h.kind
  BY DEF Event
<1>4. Fold(s, d)[h.kind] = h.val
  BY <1>1, FoldAppended
<1>5. Fold(s, d \o p)[k] = Fold(Fold(s, d), p)[k]
  BY <1>2, FoldConcat
<1>6. Fold(Fold(s, d), p)[k] = Fold(s, d)[k]
  BY <1>3, FoldNone
<1> QED
  BY <1>2, <1>3, <1>4, <1>5, <1>6

\* The hello, and what waited for it.
LEMMA ReadyStep ==
  ASSUME Types, Types', Order, OnWay, NEW r \in Runs, Ready(r)
  PROVE  Order' /\ OnWay'
<1>1. /\ pc[r] = "start" /\ last' = last /\ inHand' = inHand /\ relay' = relay /\ page' = page
      /\ view' = view /\ queue' = queue /\ snap' = snap /\ mixed' = mixed
  BY DEF Ready, service, pageVars
<1>2. Holds(r)
  BY <1>1 DEF Holds
<1>3. CASE broken
  <2>1. pc' = [pc EXCEPT ![r] = "dead"] /\ UNCHANGED flow
    BY <1>1, <1>3 DEF Ready, Die, flow
  <2> QED
    BY <1>2, <2>1, FallStep
<1>4. CASE ~broken
  <2>1. PICK h \in Event : h = Ev("hello", "hello") /\ h.kind = "hello" /\ h.val = "hello"
    BY EventsTyped
  <2>2. /\ pc'[r] = "up" /\ ready'[r] /\ pending'[r] = <<>>
        /\ out'[r] = out[r] \o <<h>> \o pending[r]
        /\ \A q \in Runs : q # r =>
             /\ pc'[q] = pc[q] /\ out'[q] = out[q] /\ pending'[q] = pending[q]
                                    /\ ready'[q] = ready[q]
        /\ says' = [says EXCEPT ![r].hello = "hello"]
    BY <1>4, <2>1 DEF Ready, HelloThenPending, Types, ConnType
  <2>3. \A q \in Runs, k \in Kinds :
        says'[q][k] = IF q = r /\ k = "hello" THEN "hello" ELSE says[q][k]
    <3>1. "hello" \in Kinds /\ "hello" \in Values
      BY DEF Kinds, Values
    <3>2. \A q \in Runs, k \in Kinds :
            [says EXCEPT ![r]["hello"] = "hello"][q][k] =
              IF q = r /\ k = "hello" THEN "hello" ELSE says[q][k]
      BY <3>1, SaysTyped DEF Types
    <3> QED
      BY <2>2, <3>2
  <2>4. \A q \in Runs : q # r => says'[q] = says[q]
    BY <2>2 DEF Types, ConnType
  <2>5. /\ out[r] \in Seq(Event) /\ pending[r] \in Seq(Event)
        /\ \A i \in 1 .. Len(pending[r]) : pending[r][i].kind # "hello"
    BY DEF Types, ConnType, Order, Beginning
  <2>0. PICK c, s : c = out'[r] /\ s = last
    OBVIOUS
  <2>6. PICK a \in Seq(Event), p \in Seq(Event) : a = out[r] /\ p = pending[r]
    BY <2>5
  <2>7. c = a \o <<h>> \o p
    BY <2>2, <2>0, <2>6
  <2>8. PICK d : d = Append(a, h)
    OBVIOUS
  <2>9. d \in Seq(Event) /\ c = d \o p
    <3>1. Append(a, h) \in Seq(Event) /\ Append(a, h) = a \o <<h>>
      BY AppendIsConcat, AppendProperties
    <3> QED
      BY <2>7, <2>8, <3>1
  <2>10. ASSUME ~mixed, NEW k \in Said, says'[r][k] # None
        PROVE  Fold(Fold(last, out'[r]), pending'[r])[k] = says'[r][k]
    <3>1. k \in Kinds
      BY SaidKinds
    <3>2. Fold(Fold(s, c), <<>>)[k] = Fold(s, c)[k]
      BY <2>1, <3>1, FoldFew
    <3>3. CASE k = "hello"
      <4>1. \A i \in 1 .. Len(p) : p[i].kind # h.kind
        BY <2>1, <2>5, <2>0, <2>6
      <4>2. Fold(s, c)[h.kind] = h.val
        BY <2>7, <4>1, FoldBefore
      <4>3. says'[r][k] = "hello"
        BY <2>3, <3>1, <3>3
      <4> QED
        BY <2>1, <2>2, <2>0, <2>6, <3>2, <3>3, <4>2, <4>3
    <3>4. CASE k # "hello"
      <4>1. h.kind # k
        BY <2>1, <3>4
      <4>2. Fold(s, c)[k] = Fold(Fold(s, a), p)[k]
        <5>1. Fold(s, d)[k] = Fold(s, a)[k]
          BY <2>8, <3>1, <4>1, FoldUntouched
        <5>2. Fold(Fold(s, d), p)[k] = Fold(Fold(s, a), p)[k]
          BY <3>1, <5>1, FoldLocal
        <5>3. Fold(s, d \o p)[k] = Fold(Fold(s, d), p)[k]
          BY <2>9, <3>1, FoldConcat
        <5> QED
          BY <2>9, <5>2, <5>3
      <4>3. says'[r][k] = says[r][k]
        BY <2>3, <3>1, <3>4
      <4>4. Fold(Fold(last, out[r]), pending[r])[k] = says[r][k]
        BY <1>2, <2>10, <4>3 DEF OnWay, SaidOnWay
      <4> QED
        BY <2>2, <2>0, <2>6, <3>2, <4>2, <4>3, <4>4
    <3> QED
      BY <3>3, <3>4
  <2>11. \A i \in 1 .. Len(pending'[r]) : pending'[r][i].kind # "hello"
    BY <2>2
  <2>12. ~mixed => \A k \in Said : says'[r][k] # None =>
                     Fold(Fold(last, out'[r]), pending'[r])[k] = says'[r][k]
    BY <2>10
  <2> QED
    BY <1>1, <1>2, <2>2, <2>4, <2>11, <2>12, SpeakStep DEF Types
<1> QED
  BY <1>3, <1>4

-----------------------------------------------------------------------------
(* The steps of the shell and of the page. *)

\* The page is as it was, and so is what the shell knows of the kind.
LEMMA BaseStays ==
  ASSUME Types, NEW k \in Said, last'[k] = last[k], UNCHANGED pageVars
  PROVE  Base'[k] = Base[k]
<1>1. queue \in Seq(Event) /\ k \in Kinds
  BY SaidKinds DEF Types, PageType
<1>2. PICK s, t : s = last /\ t = last'
  OBVIOUS
<1>3. s[k] = t[k]
  BY <1>2
<1>4. Fold(s, queue)[k] = Fold(t, queue)[k]
  BY <1>1, <1>3, FoldLocal
<1> QED
  BY <1>2, <1>4 DEF Base, pageVars

\* A live event of another kind.
LEMMA DeliverOther ==
  ASSUME Types, NEW ev \in Event, Deliver(ev), NEW k \in Kinds, last'[k] = last[k],
         ev.kind # k
  PROVE  Base'[k] = Base[k]
<1>1. queue \in Seq(Event) /\ page' = page /\ snap' = snap
  BY DEF Types, PageType, Deliver
<1>2. PICK s, t : s = last /\ t = last'
  OBVIOUS
<1>3. s[k] = t[k]
  BY <1>2
<1>4. CASE page = "none"
  <2>1. Fold(s, queue)[k] = Fold(t, queue)[k] /\ queue' = queue
    BY <1>1, <1>4, <1>3, FoldLocal DEF Deliver
  <2> QED
    BY <1>1, <1>4, <1>2, <2>1 DEF Base
<1>5. CASE page = "live"
  <2>1. view' = Fold(view, <<ev>>)
    BY <1>5 DEF Deliver
  <2>2. Fold(view, <<ev>>)[k] = view[k]
    BY FoldFew
  <2> QED
    BY <1>1, <1>5, <2>1, <2>2 DEF Base
<1>6. CASE page \notin {"none", "live"}
  <2>1. queue' = Append(queue, ev)
    BY <1>6 DEF Deliver
  <2>0. PICK c : c = queue'
    OBVIOUS
  <2>2. PICK a \in Seq(Event) : a = queue
    BY <1>1
  <2>3. c = Append(a, ev)
    BY <2>0, <2>1, <2>2
  <2>4. \A x : Fold(x, c)[k] = Fold(x, a)[k]
    BY <2>3, FoldUntouched
  <2>5. Fold(snap, c)[k] = Fold(snap, a)[k] /\ Fold(t, c)[k] = Fold(t, a)[k]
    BY <2>4
  <2>6. Fold(s, a)[k] = Fold(t, a)[k]
    BY <1>3, FoldLocal
  <2> QED
    BY <1>1, <1>2, <1>6, <2>0, <2>2, <2>5, <2>6 DEF Base
<1> QED
  BY <1>4, <1>5, <1>6

\* And one of the kind, where there is a page.
LEMMA DeliverOf ==
  ASSUME Types, NEW ev \in Event, Deliver(ev), page # "none", last' = last
  PROVE  Base'[ev.kind] = ev.val
<1>1. queue \in Seq(Event) /\ page' = page /\ snap' = snap /\ ev.kind \in Kinds
  BY DEF Types, PageType, Deliver, Event
<1>2. CASE page = "live"
  <2>1. view' = Fold(view, <<ev>>)
    BY <1>2 DEF Deliver
  <2>2. PICK k \in Kinds : k = ev.kind
    BY <1>1
  <2>3. Fold(view, <<ev>>)[k] = IF ev.kind = k THEN ev.val ELSE view[k]
    BY FoldFew
  <2> QED
    BY <1>1, <1>2, <2>1, <2>2, <2>3 DEF Base
<1>3. CASE page # "live"
  <2>1. queue' = Append(queue, ev)
    BY <1>3 DEF Deliver
  <2>0. PICK c : c = queue'
    OBVIOUS
  <2>2. PICK a \in Seq(Event) : a = queue
    BY <1>1
  <2>3. c = Append(a, ev)
    BY <2>0, <2>1, <2>2
  <2>4. \A s : Fold(s, c)[ev.kind] = ev.val
    BY <2>3, FoldAppended
  <2>5. Fold(snap, c)[ev.kind] = ev.val /\ Fold(last, c)[ev.kind] = ev.val
    BY <2>4
  <2> QED
    BY <1>1, <1>3, <2>0, <2>2, <2>5 DEF Base
<1> QED
  BY <1>2, <1>3

\* What the shell knows changes in nothing the runs speak of.
LEMMA SaidOnWayStays ==
  ASSUME Types, SaidOnWay, NEW r \in Runs, NEW k \in Said, Holds(r), says[r][k] # None,
         last'[k] = last[k]
  PROVE  Fold(Fold(last', out[r]), pending[r])[k] = says[r][k]
<1>1. PICK a \in Seq(Event), b \in Seq(Event) : a = out[r] /\ b = pending[r]
  BY DEF Types, ConnType
<1>2. PICK s, t : s = last /\ t = last'
  OBVIOUS
<1>3. s[k] = t[k] /\ k \in Kinds
  BY <1>2, SaidKinds
<1>4. Fold(Fold(s, a), b)[k] = Fold(Fold(t, a), b)[k]
  BY <1>3, FoldLocalTwice
<1> QED
  BY <1>1, <1>2, <1>4 DEF SaidOnWay

\* A step of the shell on what it knows of blocked only.
LEMMA BlockedOnly ==
  ASSUME Types, OnWay, \A k \in Said : last'[k] = last[k],
         \A r \in Runs : Holds(r)' => Holds(r),
         \A r \in Runs : Silent(r) => Silent(r)',
         \A r \in Runs : inHand'[r] # None /\ inHand'[r].kind \in Said => inHand'[r] = inHand[r],
         \A r \in Runs : inHand[r] # None /\ inHand[r].kind \in Said => inHand'[r] = inHand[r],
         UNCHANGED <<out, pending, says, pageVars, mixed>>
  PROVE  OnWay'
<1>1. SUFFICES ASSUME ~mixed PROVE (Apart /\ SaidOnWay /\ InHandLast /\ PageLast)'
  BY DEF OnWay
<1>2. Apart /\ SaidOnWay /\ InHandLast /\ PageLast
  BY <1>1 DEF OnWay
<1>3. Apart'
  BY <1>2 DEF Apart
<1>4. SaidOnWay'
  <2> SUFFICES ASSUME NEW r \in Runs, NEW k \in Said, Holds(r)', says[r][k] # None
               PROVE  Fold(Fold(last', out[r]), pending[r])[k] = says[r][k]
    BY DEF SaidOnWay
  <2>1. Holds(r) /\ last'[k] = last[k]
    OBVIOUS
  <2> QED
    BY <1>2, <2>1, SaidOnWayStays
<1>5. InHandLast'
  BY <1>2 DEF InHandLast
<1>6. PageLast'
  <2> SUFFICES ASSUME NEW k \in Said, page' # "none",
                      \A r \in Runs : inHand'[r] # None => inHand'[r].kind # k
               PROVE  Base'[k] = last'[k]
    BY DEF PageLast
  <2>1. \A r \in Runs : inHand[r] # None => inHand[r].kind # k
    OBVIOUS
  <2>2. Base[k] = last[k]
    BY <1>2, <2>1 DEF PageLast, pageVars
  <2> QED
    BY <2>2, BaseStays
<1> QED
  BY <1>3, <1>4, <1>5, <1>6

\* A connector is started: it has said nothing yet.
LEMMA LaunchStep ==
  ASSUME Types, Order, OnWay, NEW r \in Runs, Launch(r)
  PROVE  Order' /\ OnWay'
<1>1. /\ pc[r] = "none" /\ pc'[r] = "lock" /\ \A q \in Runs : q # r => pc'[q] = pc[q]
      /\ relay'[r] = "read" /\ \A q \in Runs : q # r => relay'[q] = relay[q]
      /\ \A k \in Said : last'[k] = last[k]
      /\ UNCHANGED <<out, pending, says, ready, inHand, pageVars, mixed>>
  BY DEF Launch, Said, Types, ConnType, ShellType, reporter
<1>2. \A q \in Runs : (Holds(q)' => Holds(q)) /\ (Silent(q) => Silent(q)')
  BY <1>1 DEF Holds, Silent
<1>3. Order'
  <2>1. OneHolds'
    BY <1>2 DEF Order, OneHolds
  <2>2. Beginning'
    BY <1>1 DEF Order, Beginning
  <2>3. Relayed'
    BY <1>1, <1>2 DEF Order, Relayed
  <2> QED
    BY <1>1, <2>1, <2>2, <2>3 DEF Order, pageVars
<1>4. OnWay'
  BY <1>1, <1>2, BlockedOnly
<1> QED
  BY <1>3, <1>4

\* The relay takes an event: the shell knows it now.
LEMMA TakeStep ==
  ASSUME Types, Types', Order, OnWay, NEW r \in Runs, RelayTake(r)
  PROVE  Order' /\ OnWay'
<1>1. out[r] \in Seq(Event) /\ out[r] # <<>> /\ relay[r] = "read" /\ inHand[r] = None
  BY DEF RelayTake, Types, ConnType
<1>2. PICK a \in Seq(Event) : a = out[r]
  BY <1>1
<1>3. Head(a) \in Event /\ Tail(a) \in Seq(Event) /\ a # <<>>
  BY <1>1, <1>2, HeadTailProperties
<1>4. PICK ev \in Event, u \in Seq(Event) : ev = Head(a) /\ u = Tail(a)
  BY <1>3
<1>5. /\ inHand'[r] = ev /\ out'[r] = u
      /\ \A q \in Runs : q # r => inHand'[q] = inHand[q] /\ out'[q] = out[q]
      /\ \A k \in Kinds : last'[k] = IF ev.kind = k THEN ev.val ELSE last[k]
      /\ UNCHANGED <<pc, pending, says, ready, relay, pageVars, mixed>>
  BY <1>2, <1>4 DEF RelayTake, Take, Types, ConnType, ShellType
<1>6. \A q \in Runs : Holds(q)' <=> Holds(q)
  BY <1>5 DEF Holds
<1>7. Silent(r) => ev.kind = "blocked" /\ Silent(r)'
  <2>1. /\ Head(a) = a[1] /\ 1 \in 1 .. Len(a) /\ Len(Tail(a)) = Len(a) - 1
        /\ \A i \in 1 .. Len(Tail(a)) : Tail(a)[i] = a[i + 1] /\ i + 1 \in 1 .. Len(a)
    <3>1. /\ Head(a) = a[1] /\ Len(a) \in Nat \ {0} /\ Len(Tail(a)) = Len(a) - 1
          /\ \A i \in 1 .. Len(Tail(a)) : Tail(a)[i] = a[i + 1]
      BY <1>3, HeadTailProperties, EmptySeq
    <3> QED
      BY <3>1
  <2>2. Mute(a) => Head(a).kind = "blocked"
    BY <2>1 DEF Mute
  <2>3. Mute(a) => Mute(Tail(a))
    BY <2>1 DEF Mute
  <2> QED
    BY <1>2, <1>4, <1>5, <2>2, <2>3 DEF Silent
<1>8. \A q \in Runs : Silent(q) => Silent(q)'
  BY <1>5, <1>7 DEF Silent
<1>9. Order'
  <2>1. OneHolds'
    BY <1>6 DEF Order, OneHolds
  <2>2. Beginning'
    BY <1>1, <1>5 DEF Order, Beginning
  <2>3. Relayed'
    <3> SUFFICES ASSUME NEW q \in Runs, relay'[q] \in {"ended", "done"}
                 PROVE  /\ pc'[q] = "dead" /\ out'[q] = <<>> /\ Silent(q)'
                        /\ relay'[q] = "ended" => inHand'[q] = None
      BY DEF Relayed
    <3>1. q # r
      BY <1>1, <1>5
    <3> QED
      BY <1>5, <1>8, <3>1 DEF Order, Relayed
  <2> QED
    BY <1>5, <2>1, <2>2, <2>3 DEF Order, pageVars
<1>10. SUFFICES ASSUME ~mixed PROVE (Apart /\ SaidOnWay /\ InHandLast /\ PageLast)'
  BY <1>9, <1>5 DEF OnWay
<1>11. Apart /\ SaidOnWay /\ InHandLast /\ PageLast
  BY <1>10 DEF OnWay
<1>12. Apart'
  BY <1>6, <1>8, <1>11 DEF Apart
<1>13. ASSUME NEW q \in Runs, q # r, ~Silent(q) \/ Holds(q), NEW k \in Said
       PROVE  last'[k] = last[k]
  <2>1. Silent(r)
    BY <1>11, <1>13 DEF Apart
  <2>2. ev.kind # k /\ k \in Kinds
    BY <1>7, <2>1, SaidKinds
  <2> QED
    BY <1>5, <2>2
<1>14. SaidOnWay'
  <2> SUFFICES ASSUME NEW q \in Runs, NEW k \in Said, Holds(q), says[q][k] # None
               PROVE  Fold(Fold(last', out'[q]), pending[q])[k] = says[q][k]
    BY <1>5, <1>6 DEF SaidOnWay
  <2>1. k \in Kinds
    BY SaidKinds
  <2>2. Fold(Fold(last, out[q]), pending[q])[k] = says[q][k]
    BY <1>11 DEF SaidOnWay
  <2>3. CASE q = r
    <3>0. PICK b \in Seq(Event) : b = pending[r]
      BY DEF Types, ConnType
    <3>1. PICK s, t : s = last /\ t = last'
      OBVIOUS
    <3>2. t[k] = IF Head(a).kind = k THEN Head(a).val ELSE s[k]
      BY <1>4, <1>5, <2>1, <3>1
    <3>3. Fold(t, Tail(a))[k] = Fold(s, a)[k]
      BY <1>3, <2>1, <3>2, FoldHead
    <3>4. Fold(t, u)[k] = Fold(s, a)[k]
      BY <1>4, <3>3
    <3>5. Fold(Fold(t, u), b)[k] = Fold(Fold(s, a), b)[k]
      BY <2>1, <3>4, FoldLocal
    <3> QED
      BY <1>2, <1>5, <2>2, <2>3, <3>0, <3>1, <3>5
  <2>4. CASE q # r
    <3>1. last'[k] = last[k]
      BY <1>13, <2>4
    <3>2. Fold(Fold(last', out[q]), pending[q])[k] = says[q][k]
      BY <1>11, <3>1, SaidOnWayStays
    <3> QED
      BY <1>5, <2>4, <3>2
  <2> QED
    BY <2>3, <2>4
<1>15. InHandLast'
  <2> SUFFICES ASSUME NEW q \in Runs, inHand'[q] # None, inHand'[q].kind \in Said
               PROVE  inHand'[q].val = last'[inHand'[q].kind]
    BY DEF InHandLast
  <2>1. CASE q = r
    BY <1>5, <2>1 DEF Event
  <2>2. CASE q # r
    <3>1. inHand[q] # None /\ inHand[q].kind \in Said
      BY <1>5, <2>2
    <3>2. ~Silent(q)
      BY <3>1, SaidKinds DEF Silent
    <3>3. last'[inHand[q].kind] = last[inHand[q].kind]
      BY <1>13, <2>2, <3>1, <3>2
    <3> QED
      BY <1>5, <1>11, <2>2, <3>1, <3>3 DEF InHandLast
  <2> QED
    BY <2>1, <2>2
<1>16. PageLast'
  <2> SUFFICES ASSUME NEW k \in Said, page' # "none",
                      \A q \in Runs : inHand'[q] # None => inHand'[q].kind # k
               PROVE  Base'[k] = last'[k]
    BY DEF PageLast
  <2>1. ev.kind # k /\ k \in Kinds
    BY <1>5, SaidKinds, NoneIsNoEvent
  <2>2. last'[k] = last[k]
    BY <1>5, <2>1
  <2>3. \A q \in Runs : inHand[q] # None => inHand[q].kind # k
    BY <1>1, <1>5
  <2>4. Base[k] = last[k]
    BY <1>5, <1>11, <2>3 DEF PageLast, pageVars
  <2> QED
    BY <1>5, <2>2, <2>4, BaseStays
<1> QED
  BY <1>12, <1>14, <1>15, <1>16

\* The relay passes on what it took: the page has it, or its queue.
LEMMA EmitStep ==
  ASSUME Types, Order, OnWay, NEW r \in Runs, RelayEmit(r)
  PROVE  Order' /\ OnWay'
<1>1. PICK ev \in Event : ev = inHand[r]
  BY DEF RelayEmit, Types, ShellType
<1>2. /\ inHand'[r] = None /\ \A q \in Runs : q # r => inHand'[q] = inHand[q]
      /\ Deliver(ev) /\ page' = page /\ inHand[r] # None
      /\ UNCHANGED <<pc, out, pending, says, ready, relay, last, mixed>>
  BY <1>1 DEF RelayEmit, Deliver, Types, ShellType, conn, reporter
<1>3. \A q \in Runs : (Holds(q)' <=> Holds(q)) /\ (Silent(q) => Silent(q)')
  BY <1>2 DEF Holds, Silent
<1>4. Order'
  <2>1. OneHolds'
    BY <1>3 DEF Order, OneHolds
  <2>2. Beginning'
    BY <1>2 DEF Order, Beginning
  <2>3. Relayed'
    BY <1>2, <1>3 DEF Order, Relayed
  <2>4. page = "none" => queue' = queue
    BY <1>2 DEF Deliver
  <2> QED
    BY <1>2, <2>1, <2>2, <2>3, <2>4 DEF Order
<1>5. SUFFICES ASSUME ~mixed PROVE (Apart /\ SaidOnWay /\ InHandLast /\ PageLast)'
  BY <1>2, <1>4 DEF OnWay
<1>6. Apart /\ SaidOnWay /\ InHandLast /\ PageLast
  BY <1>5 DEF OnWay
<1>7. Apart'
  BY <1>3, <1>6 DEF Apart
<1>8. SaidOnWay'
  BY <1>2, <1>3, <1>6 DEF SaidOnWay
<1>9. InHandLast'
  BY <1>2, <1>6 DEF InHandLast
<1>10. PageLast'
  <2> SUFFICES ASSUME NEW k \in Said, page' # "none",
                      \A q \in Runs : inHand'[q] # None => inHand'[q].kind # k
               PROVE  Base'[k] = last'[k]
    BY DEF PageLast
  <2>1. k \in Kinds
    BY SaidKinds
  <2>2. CASE ev.kind = k
    <3>1. Base'[ev.kind] = ev.val
      BY <1>2, DeliverOf
    <3>2. ev.val = last[ev.kind]
      BY <1>1, <1>2, <1>6, <2>2 DEF InHandLast
    <3> QED
      BY <1>2, <2>2, <3>1, <3>2
  <2>3. CASE ev.kind # k
    <3>1. \A q \in Runs : inHand[q] # None => inHand[q].kind # k
      BY <1>1, <1>2, <2>3
    <3>2. Base[k] = last[k]
      BY <1>2, <1>6, <3>1 DEF PageLast
    <3>3. Base'[k] = Base[k]
      BY <1>2, <2>1, <2>3, DeliverOther
    <3> QED
      BY <1>2, <3>2, <3>3
  <2> QED
    BY <2>2, <2>3
<1> QED
  BY <1>7, <1>8, <1>9, <1>10

\* A connector will not start: blocked only.
LEMMA FailsStep ==
  ASSUME Types, Order, OnWay, LaunchFails
  PROVE  Order' /\ OnWay'
<1>1. PICK ev \in Event : ev = Ev("blocked", "stopped") /\ ev.kind = "blocked"
  BY EventsTyped
<1>2. /\ \A k \in Said : last'[k] = last[k]
      /\ Deliver(ev) /\ page' = page
      /\ UNCHANGED <<pc, out, pending, says, ready, relay, inHand, mixed>>
  BY <1>1 DEF LaunchFails, Deliver, Said, Types, ShellType, conn, reporter
<1>3. \A q \in Runs : (Holds(q)' <=> Holds(q)) /\ (Silent(q)' <=> Silent(q))
  BY <1>2 DEF Holds, Silent
<1>4. Order'
  <2>1. OneHolds'
    BY <1>3 DEF Order, OneHolds
  <2>2. Beginning'
    BY <1>2 DEF Order, Beginning
  <2>3. Relayed'
    BY <1>2, <1>3 DEF Order, Relayed
  <2>4. page = "none" => queue' = queue
    BY <1>2 DEF Deliver
  <2> QED
    BY <1>2, <2>1, <2>2, <2>3, <2>4 DEF Order
<1>5. SUFFICES ASSUME ~mixed PROVE (Apart /\ SaidOnWay /\ InHandLast /\ PageLast)'
  BY <1>2, <1>4 DEF OnWay
<1>6. Apart /\ SaidOnWay /\ InHandLast /\ PageLast
  BY <1>5 DEF OnWay
<1>7. Apart'
  BY <1>3, <1>6 DEF Apart
<1>8. SaidOnWay'
  <2> SUFFICES ASSUME NEW r \in Runs, NEW k \in Said, Holds(r), says[r][k] # None
               PROVE  Fold(Fold(last', out[r]), pending[r])[k] = says[r][k]
    BY <1>2, <1>3 DEF SaidOnWay
  <2>1. last'[k] = last[k]
    BY <1>2
  <2> QED
    BY <1>6, <2>1, SaidOnWayStays
<1>9. InHandLast'
  BY <1>2, <1>6 DEF InHandLast
<1>10. PageLast'
  <2> SUFFICES ASSUME NEW k \in Said, page' # "none",
                      \A q \in Runs : inHand'[q] # None => inHand'[q].kind # k
               PROVE  Base'[k] = last'[k]
    BY DEF PageLast
  <2>1. k \in Kinds /\ ev.kind # k /\ last'[k] = last[k]
    BY <1>1, <1>2, SaidKinds
  <2>2. Base[k] = last[k]
    BY <1>2, <1>6 DEF PageLast
  <2>3. Base'[k] = Base[k]
    BY <1>2, <2>1, DeliverOther
  <2> QED
    BY <2>1, <2>2, <2>3
<1> QED
  BY <1>7, <1>8, <1>9, <1>10

\* The relay has passed on all there was.
LEMMA EndStep ==
  ASSUME Types, Order, OnWay, NEW r \in Runs, RelayEnd(r)
  PROVE  Order' /\ OnWay'
<1>1. /\ pc[r] = "dead" /\ out[r] = <<>> /\ inHand[r] = None
      /\ \A q \in Runs : q # r => relay'[q] = relay[q]
      /\ UNCHANGED <<pc, out, pending, says, ready, inHand, last, pageVars, mixed>>
  BY DEF RelayEnd, Types, ShellType, conn, reporter
<1>2. Silent(r)
  BY <1>1 DEF Silent, Mute
<1>3. \A q \in Runs : (Holds(q)' <=> Holds(q)) /\ (Silent(q)' <=> Silent(q))
  BY <1>1 DEF Holds, Silent
<1>4. Order'
  <2>1. OneHolds'
    BY <1>3 DEF Order, OneHolds
  <2>2. Beginning'
    BY <1>1 DEF Order, Beginning
  <2>3. Relayed'
    BY <1>1, <1>2, <1>3 DEF Order, Relayed
  <2> QED
    BY <1>1, <2>1, <2>2, <2>3 DEF Order, pageVars
<1>5. OnWay'
  BY <1>1, <1>3, BlockedOnly
<1> QED
  BY <1>4, <1>5

\* And says so itself.
LEMMA StoppedStep ==
  ASSUME Types, Order, OnWay, NEW r \in Runs, RelayStopped(r)
  PROVE  Order' /\ OnWay'
<1>1. PICK ev \in Event : ev = Ev("blocked", "stopped") /\ ev.kind = "blocked"
  BY EventsTyped
<1>2. /\ relay[r] = "ended" /\ inHand'[r] = ev
      /\ \A q \in Runs : q # r => inHand'[q] = inHand[q] /\ relay'[q] = relay[q]
      /\ \A k \in Said : last'[k] = last[k]
      /\ relay'[r] = "done"
      /\ UNCHANGED <<pc, out, pending, says, ready, pageVars, mixed>>
  BY <1>1 DEF RelayStopped, Take, Said, Types, ShellType, conn, reporter
<1>3. pc[r] = "dead" /\ out[r] = <<>> /\ inHand[r] = None
  BY <1>2 DEF Order, Relayed
<1>4. Silent(r)'
  BY <1>1, <1>2, <1>3 DEF Silent, Mute
<1>5. \A q \in Runs : (Holds(q)' <=> Holds(q)) /\ (Silent(q) => Silent(q)')
  BY <1>2, <1>4 DEF Holds, Silent
<1>6. Order'
  <2>1. OneHolds'
    BY <1>5 DEF Order, OneHolds
  <2>2. Beginning'
    BY <1>2, <1>3 DEF Order, Beginning
  <2>3. Relayed'
    BY <1>2, <1>3, <1>4, <1>5 DEF Order, Relayed
  <2> QED
    BY <1>2, <2>1, <2>2, <2>3 DEF Order, pageVars
<1>7. OnWay'
  <2>1. \A q \in Runs : inHand'[q] # None /\ inHand'[q].kind \in Said => inHand'[q] = inHand[q]
    BY <1>1, <1>2, SaidKinds
  <2>2. \A q \in Runs : inHand[q] # None /\ inHand[q].kind \in Said => inHand'[q] = inHand[q]
    BY <1>2, <1>3
  <2> QED
    BY <1>2, <1>5, <2>1, <2>2, BlockedOnly
<1> QED
  BY <1>6, <1>7

\* A page subscribes, reads what the shell knows, and mounts.
LEMMA PageStep ==
  ASSUME Types, Order, OnWay, Page
  PROVE  Order' /\ OnWay'
<1>1. UNCHANGED <<pc, out, pending, says, ready, inHand, relay, last, mixed>>
  BY DEF Page, Subscribe, Snapshot, Mount, conn, reporter, service
<1>2. page' # "none" /\ queue \in Seq(Event)
  BY DEF Page, Subscribe, Snapshot, Mount, Types, PageType
<1>3. \A r \in Runs : (Holds(r)' <=> Holds(r)) /\ (Silent(r)' <=> Silent(r))
  BY <1>1 DEF Holds, Silent
<1>4. Order'
  <2>1. OneHolds'
    BY <1>3 DEF Order, OneHolds
  <2>2. Beginning'
    BY <1>1 DEF Order, Beginning
  <2>3. Relayed'
    BY <1>1, <1>3 DEF Order, Relayed
  <2> QED
    BY <1>2, <2>1, <2>2, <2>3 DEF Order
<1>5. SUFFICES ASSUME ~mixed PROVE (Apart /\ SaidOnWay /\ InHandLast /\ PageLast)'
  BY <1>1, <1>4 DEF OnWay
<1>6. Apart /\ SaidOnWay /\ InHandLast /\ PageLast
  BY <1>5 DEF OnWay
<1>7. Apart'
  BY <1>3, <1>6 DEF Apart
<1>8. SaidOnWay'
  BY <1>1, <1>3, <1>6 DEF SaidOnWay
<1>9. InHandLast'
  BY <1>1, <1>6 DEF InHandLast
<1>10. PageLast'
  <2> SUFFICES ASSUME NEW k \in Said,
                      \A r \in Runs : inHand'[r] # None => inHand'[r].kind # k
               PROVE  Base'[k] = last'[k]
    BY DEF PageLast
  <2>1. k \in Kinds
    BY SaidKinds
  <2>2. page # "none" => Base[k] = last[k]
    BY <1>1, <1>6 DEF PageLast
  <2>3. CASE Subscribe
    <3>1. queue = <<>> /\ queue' = <<>> /\ page' = "asked"
      BY <2>3 DEF Subscribe, Order
    <3>2. PICK e \in Event : TRUE
      BY EventsTyped
    <3>3. Fold(last, <<>>)[k] = last[k]
      BY <2>1, <3>2, FoldFew
    <3> QED
      BY <1>1, <3>1, <3>3 DEF Base
  <2>4. CASE Snapshot
    BY <1>1, <2>2, <2>4 DEF Snapshot, Base
  <2>5. CASE Mount
    BY <1>1, <2>2, <2>5 DEF Mount, SnapshotThenQueue, Base
  <2> QED
    BY <2>3, <2>4, <2>5 DEF Page
<1> QED
  BY <1>7, <1>8, <1>9, <1>10

\* The ends of a run that had the lock.
LEMMA EndsStep ==
  ASSUME Types, Order, OnWay, NEW r \in Runs,
         StdinEnds(r) \/ WindsDown(r) \/ \E how \in {"relaunch", "exit"} : Ends(r, how)
  PROVE  Order' /\ OnWay'
<1>1. Holds(r)
  BY DEF StdinEnds, WindsDown, Ends, Holds
<1>2. UNCHANGED flow
  BY DEF StdinEnds, WindsDown, Ends, flow, reporter, service, pageVars
<1>3. PICK x \in {"down", "dead"} : pc' = [pc EXCEPT ![r] = x]
  BY DEF StdinEnds, WindsDown, Ends, Die
<1> QED
  BY <1>1, <1>2, <1>3, FallStep

\* Calls of start, and the ways to quit.
LEMMA QuitStep ==
  ASSUME Order, OnWay, ServiceStartup \/ Restart \/ QuitAnyway \/ ServiceShutdown \/ UNCHANGED vars
  PROVE  Order' /\ OnWay'
<1>1. UNCHANGED <<flow, pc>>
  BY DEF ServiceStartup, Restart, Start, QuitAnyway, ServiceShutdown, vars, flow, conn, reporter,
         service, pageVars
<1> QED
  BY <1>1, FlowStays

\* Every step of a shell that is still there afterwards.
LEMMA WindowStep ==
  ASSUME Types, Types', Order, OnWay, [Next]_vars, shell' # "gone"
  PROVE  Order' /\ OnWay'
<1>1. ASSUME NEW r \in Runs, Connector(r) PROVE Order' /\ OnWay'
  BY <1>1, LockStep, BlockedStep, ReadyStep, EndsStep DEF Connector
<1>2. ASSUME NEW r \in Runs, Relay(r) PROVE Order' /\ OnWay'
  BY <1>2, TakeStep, EmitStep, EndStep, StoppedStep DEF Relay
<1>3. ASSUME NEW r \in Runs, LoseTail(r) PROVE Order' /\ OnWay'
  BY <1>3, TailStep
<1>4. ASSUME NEW r \in Runs, NEW v \in {"on", "off"}, SaysLink(r, v) PROVE Order' /\ OnWay'
  <2>1. PICK ev \in Event : ev = Ev("link", v) /\ ev.kind = "link"
    BY EventsTyped
  <2>2. pc[r] \in {"start", "up"} /\ ev.kind # "hello" /\ Says(r, ev)
    BY <1>4, <2>1 DEF SaysLink
  <2> QED
    BY <2>2, SaysStep
<1>5. ASSUME NEW r \in Runs, NEW v \in {"none", "armed"}, SaysDevice(r, v) PROVE Order' /\ OnWay'
  <2>1. PICK ev \in Event : ev = Ev("device", v) /\ ev.kind = "device"
    BY EventsTyped
  <2>2. pc[r] \in {"start", "up"} /\ ev.kind # "hello" /\ Says(r, ev)
    BY <1>5, <2>1 DEF SaysDevice
  <2> QED
    BY <2>2, SaysStep
<1>6. ASSUME NEW r \in Runs, NEW how \in {"relaunch", "exit"}, Ends(r, how) PROVE Order' /\ OnWay'
  BY <1>6, EndsStep
<1>7. ASSUME NEW r \in Runs, Launch(r) PROVE Order' /\ OnWay'
  BY <1>7, LaunchStep
<1>8. CASE LaunchFails
  BY <1>8, FailsStep
<1>9. CASE ServiceStartup \/ Restart \/ QuitAnyway \/ ServiceShutdown \/ UNCHANGED vars
  BY <1>9, QuitStep
<1>10. CASE Page
  BY <1>10, PageStep
<1>11. ~ShellEnds /\ ~ShellKilled
  BY DEF ShellEnds, ShellKilled, Gone
<1> QED
  BY <1>1, <1>2, <1>3, <1>4, <1>5, <1>6, <1>7, <1>8, <1>9, <1>10, <1>11 DEF Next

\* A shell that is gone stays gone.
LEMMA GoneStays ==
  ASSUME shell = "gone", [Next]_vars
  PROVE  shell' = "gone"
<1>1. CASE UNCHANGED vars
  BY <1>1 DEF vars, service, quitting
<1>2. ASSUME NEW r \in Runs, Connector(r) \/ Relay(r) \/ LoseTail(r) PROVE shell' = "gone"
  BY <1>2 DEF Connector, TakeLock, AlreadyRunning, Ready, StdinEnds, WindsDown, Relay, RelayTake,
              RelayEmit, RelayEnd, RelayStopped, LoseTail, service, quitting
<1>3. ASSUME NEW r \in Runs, NEW v, SaysLink(r, v) \/ SaysDevice(r, v) \/ Ends(r, v)
      PROVE  shell' = "gone"
  BY <1>3 DEF SaysLink, SaysDevice, Says, Ends, service, quitting
<1>4. ASSUME NEW r \in Runs PROVE ~Launch(r)
  BY DEF Launch
<1>5. ~ServiceStartup /\ ~Restart /\ ~LaunchFails /\ ~QuitAnyway /\ ~ServiceShutdown /\ ~Page
  BY DEF ServiceStartup, Restart, Start, LaunchFails, QuitAnyway, ServiceShutdown, Page, Subscribe,
         Snapshot, Mount
<1>6. ShellEnds \/ ShellKilled => shell' = "gone"
  BY DEF ShellEnds, ShellKilled, Gone
<1> QED
  BY <1>1, <1>2, <1>3, <1>4, <1>5, <1>6 DEF Next

\* Nothing has been said at first.
LEMMA WindowInit ==
  ASSUME Init
  PROVE  Types /\ WindowInv
<1>1. Nothing \in [Kinds -> Values] /\ \A k \in Kinds : Nothing[k] = None
  BY DEF Nothing, Values
<1>2. <<>> \in Seq(Event) /\ Len(<<>>) = 0
  BY EmptySeq
<1>3. Types
  BY <1>1, <1>2 DEF Init, Types, ConnType, ShellType, PageType
<1>4. \A r \in Runs : pc[r] = "none" /\ out[r] = <<>> /\ pending[r] = <<>> /\ inHand[r] = None
                      /\ says[r] = Nothing /\ relay[r] = "none" /\ ~ready[r]
  BY DEF Init
<1>5. \A r \in Runs : ~Holds(r) /\ Silent(r)
  <2>1. Mute(<<>>)
    BY <1>2 DEF Mute
  <2> QED
    BY <1>4, <2>1 DEF Holds, Silent
<1>6. page = "none" /\ queue = <<>>
  BY DEF Init
<1>7. Order
  BY <1>4, <1>5, <1>6 DEF Order, OneHolds, Beginning, Relayed
<1>8. OnWay
  BY <1>4, <1>5, <1>6 DEF OnWay, Apart, SaidOnWay, InHandLast, PageLast
<1> QED
  BY <1>3, <1>7, <1>8 DEF WindowInv

\* Each stage holds what the one before has passed on, as long as the shell is there.
THEOREM WindowInvariant == Spec => [](Types /\ WindowInv)
<1>1. Init => Types /\ WindowInv
  BY WindowInit
<1>2. Types /\ WindowInv /\ [Next]_vars => (Types /\ WindowInv)'
  <2> SUFFICES ASSUME Types, WindowInv, [Next]_vars PROVE Types' /\ WindowInv'
    OBVIOUS
  <2>1. Types'
    BY TypeStep
  <2>2. ASSUME shell' # "gone" PROVE Order' /\ OnWay'
    <3>1. Order /\ OnWay
      BY <2>2, GoneStays DEF WindowInv
    <3> QED
      BY <2>1, <2>2, <3>1, WindowStep
  <2> QED
    BY <2>1, <2>2 DEF WindowInv
<1> QED
  BY <1>1, <1>2, PTL DEF Spec

\* PageCatchesUp (Window): what a running connector has said, the page shows
\* once everything said has been passed on.
THEOREM PageCatchesUpHolds == Spec => []PageCatchesUp
<1>1. ASSUME Types, WindowInv PROVE PageCatchesUp
  <2> SUFFICES ASSUME NEW r \in Runs, pc[r] = "up", ~mixed, shell = "up", page = "live",
                      \A q \in Runs : out[q] = <<>> /\ inHand[q] = None,
                      NEW k \in {"hello", "link", "device"}, says[r][k] # None
               PROVE  view[k] = says[r][k]
    BY DEF PageCatchesUp
  <2>1. Order /\ Apart /\ SaidOnWay /\ PageLast
    BY <1>1 DEF WindowInv, OnWay
  <2>2. k \in Said /\ k \in Kinds
    BY DEF Said, Kinds
  <2>3. pending[r] = <<>> /\ out[r] = <<>> /\ Holds(r)
    BY <2>1 DEF Order, Beginning, Holds
  <2>4. Fold(Fold(last, <<>>), <<>>)[k] = says[r][k]
    BY <2>1, <2>2, <2>3 DEF SaidOnWay
  <2>5. PICK e \in Event : TRUE
    BY EventsTyped
  <2>6. Fold(Fold(last, <<>>), <<>>)[k] = Fold(last, <<>>)[k] /\ Fold(last, <<>>)[k] = last[k]
    BY <2>2, <2>5, FoldFew
  <2>7. Base[k] = last[k]
    BY <2>1, <2>2 DEF PageLast
  <2> QED
    BY <2>4, <2>6, <2>7 DEF Base
<1> QED
  BY <1>1, WindowInvariant, PTL

-----------------------------------------------------------------------------
(* The hello first. *)

\* The pipe begins with the hello, or it has been passed on; there is nothing
\* of it before the run is ready, and no more than blocked once it has ended.
Greeting(r) ==
  \/ r \in heard
  \/ out[r] # <<>> /\ out[r][1].kind = "hello"
  \/ Mute(out[r]) /\ pc[r] = "dead"
  \/ out[r] = <<>> /\ ~ready[r]

Greetings == shell # "gone" => \A r \in Runs : Greeting(r)

\* What has been passed on stays so, and an end changes nothing.
LEMMA GreetingStays ==
  ASSUME NEW r \in Runs, Greeting(r), out'[r] = out[r], ready'[r] = ready[r], heard' = heard,
         pc[r] = "dead" => pc'[r] = "dead"
  PROVE  Greeting(r)'
BY DEF Greeting, Mute

\* More at the end leaves the first line as it is.
LEMMA FirstStays ==
  ASSUME NEW a \in Seq(Event), a # <<>>, NEW b \in Seq(Event)
  PROVE  a \o b # <<>> /\ (a \o b)[1] = a[1]
<1>1. /\ Len(a \o b) = Len(a) + Len(b) /\ Len(a) \in Nat /\ Len(b) \in Nat
      /\ \A i \in 1 .. Len(a) + Len(b) : (a \o b)[i] = IF i <= Len(a) THEN a[i] ELSE b[i - Len(a)]
  BY ConcatProperties, LenProperties
<1>2. Len(a) # 0
  BY EmptySeq
<1>3. 1 \in 1 .. Len(a) + Len(b) /\ 1 <= Len(a) /\ Len(a \o b) # 0
  BY <1>1, <1>2
<1>4. Len(<<>>) = 0
  BY EmptySeq
<1> QED
  BY <1>1, <1>3, <1>4

\* The steps of a run on its own lines.
LEMMA OwnGreeting ==
  ASSUME Types, Types', Order, NEW r \in Runs, Greeting(r),
         \/ Connector(r) \/ LoseTail(r) \/ Relay(r)
         \/ \E v \in {"on", "off"} : SaysLink(r, v)
         \/ \E v \in {"none", "armed"} : SaysDevice(r, v)
         \/ \E how \in {"relaunch", "exit"} : Ends(r, how)
         \/ Launch(r)
  PROVE  Greeting(r)'
<1>1. /\ out[r] \in Seq(Event) /\ pending[r] \in Seq(Event)
           /\ pc[r] \in {"none", "lock", "start", "up", "down", "dead"}
      /\ ready[r] \in BOOLEAN
  BY DEF Types, ConnType
<1>2. CASE TakeLock(r) \/ StdinEnds(r) \/ WindsDown(r) \/ Launch(r)
           \/ (\E how \in {"relaunch", "exit"} : Ends(r, how))
  <2>1. out' = out /\ ready' = ready /\ heard' = heard /\ pc[r] # "dead"
    BY <1>2 DEF TakeLock, StdinEnds, WindsDown, Launch, Ends, reporter, service
  <2> QED
    BY <2>1, GreetingStays
<1>3. CASE AlreadyRunning(r)
  <2>1. pc'[r] = "dead" /\ out[r] = <<>> /\ out'[r] = Append(out[r], Ev("blocked", "running"))
    BY <1>3 DEF AlreadyRunning, Die, Order, Beginning, Types, ConnType
  <2>2. Mute(out'[r])
    <3>1. out'[r] = <<Ev("blocked", "running")>>
      BY <2>1
    <3> QED
      BY <3>1, EventsTyped DEF Mute
  <2> QED
    BY <2>1, <2>2 DEF Greeting
<1>4. CASE Ready(r)
  <2>1. CASE broken
    <3>1. out' = out /\ ready' = ready /\ heard' = heard /\ pc[r] # "dead"
      BY <1>4, <2>1 DEF Ready, service
    <3> QED
      BY <3>1, GreetingStays
  <2>2. CASE ~broken
    <3>1. PICK h \in Event : h = Ev("hello", "hello") /\ h.kind = "hello"
      BY EventsTyped
    <3>2. heard' = heard /\ pc[r] # "dead" /\ out'[r] = out[r] \o <<h>> \o pending[r]
      BY <1>4, <2>2, <3>1 DEF Ready, HelloThenPending, service, Types, ConnType
    <3>3. <<h>> \in Seq(Event) /\ (<<h>>)[1] = h /\ <<h>> # <<>>
      OBVIOUS
    <3>4. PICK b \in Seq(Event), a \in Seq(Event), p \in Seq(Event) :
            b = <<h>> /\ a = out[r] /\ p = pending[r]
      BY <1>1, <3>3
    <3>5. PICK c \in Seq(Event) : c = a \o b
      BY ConcatProperties
    <3>6. out'[r] = c \o p
      BY <3>2, <3>4, <3>5
    <3>7. r \notin heard => c # <<>> /\ c[1].kind = "hello"
      <4>1. CASE a = <<>>
        <5>1. c = b
          BY <3>5, <4>1
        <5> QED
          BY <3>1, <3>3, <3>4, <5>1
      <4>2. CASE a # <<>> /\ r \notin heard
        <5>1. c # <<>> /\ c[1] = a[1]
          BY <3>5, <4>2, FirstStays
        <5>2. a[1].kind = "hello"
          BY <3>2, <3>4, <4>2 DEF Greeting
        <5> QED
          BY <5>1, <5>2
      <4> QED
        BY <4>1, <4>2
    <3>8. c # <<>> => c \o p # <<>> /\ (c \o p)[1] = c[1]
      BY FirstStays
    <3> QED
      BY <3>2, <3>6, <3>7, <3>8 DEF Greeting
  <2> QED
    BY <2>1, <2>2
<1>5. CASE LoseTail(r)
  <2>1. out'[r] = <<>> /\ pc'[r] = "dead"
    BY <1>5 DEF LoseTail, Types, ConnType
  <2> QED
    BY <2>1, EmptySeq DEF Greeting, Mute
<1>6. ASSUME NEW ev \in Event, pc[r] \in {"start", "up"}, Says(r, ev) PROVE Greeting(r)'
  <2>1. CASE broken \/ ~ready[r]
    <3>1. out' = out /\ ready' = ready /\ heard' = heard
      BY <1>6, <2>1 DEF Says, Emit, service
    <3> QED
      BY <1>6, <3>1, GreetingStays
  <2>2. CASE ~broken /\ ready[r]
    <3>1. heard' = heard /\ out'[r] = Append(out[r], ev)
      BY <1>6, <2>2 DEF Says, Emit, service, Types, ConnType
    <3>2. PICK b \in Seq(Event), a \in Seq(Event) : b = <<ev>> /\ a = out[r]
      <4>1. <<ev>> \in Seq(Event)
        OBVIOUS
      <4> QED
        BY <1>1, <4>1
    <3>3. out'[r] = a \o b
      BY <3>1, <3>2, AppendIsConcat
    <3>4. a # <<>> => a \o b # <<>> /\ (a \o b)[1] = a[1]
      BY FirstStays
    <3>5. r \notin heard => a # <<>> /\ a[1].kind = "hello"
      BY <1>6, <2>2, <3>2 DEF Greeting
    <3> QED
      BY <3>1, <3>3, <3>4, <3>5 DEF Greeting
  <2> QED
    BY <2>1, <2>2
<1>7. CASE \/ \E v \in {"on", "off"} : SaysLink(r, v)
           \/ \E v \in {"none", "armed"} : SaysDevice(r, v)
  BY <1>6, <1>7, EventsTyped DEF SaysLink, SaysDevice
<1>8. CASE RelayEmit(r) \/ RelayEnd(r) \/ RelayStopped(r)
  <2>1. out' = out /\ ready' = ready /\ heard' = heard /\ pc' = pc
    BY <1>8 DEF RelayEmit, RelayEnd, RelayStopped, conn, reporter
  <2> QED
    BY <2>1, GreetingStays
<1>9. CASE RelayTake(r)
  <2>1. /\ out[r] # <<>> /\ out'[r] = Tail(out[r]) /\ pc' = pc /\ ready' = ready
        /\ heard' = IF Head(out[r]).kind = "hello" THEN heard \cup {r} ELSE heard
    BY <1>9 DEF RelayTake, Types, ConnType
  <2>2. PICK a \in Seq(Event) : a = out[r] /\ a # <<>>
    BY <1>1, <2>1
  <2>3. /\ Head(a) = a[1] /\ Len(a) \in Nat \ {0} /\ Len(Tail(a)) = Len(a) - 1
        /\ \A i \in 1 .. Len(Tail(a)) : Tail(a)[i] = a[i + 1]
    BY <2>2, HeadTailProperties, EmptySeq
  <2>4. Mute(a) => Mute(Tail(a))
    <3>1. \A i \in 1 .. Len(Tail(a)) : i + 1 \in 1 .. Len(a)
      BY <2>3
    <3> QED
      BY <2>3, <3>1 DEF Mute
  <2> QED
    BY <2>1, <2>2, <2>3, <2>4 DEF Greeting
<1> QED
  BY <1>2, <1>3, <1>4, <1>5, <1>7, <1>8, <1>9 DEF Connector, Relay

\* They leave the lines of the others alone.
LEMMA OthersGreeting ==
  ASSUME Types, NEW r \in Runs, NEW q \in Runs, q # r, Greeting(q),
         \/ Connector(r) \/ LoseTail(r) \/ Relay(r)
         \/ \E v \in {"on", "off"} : SaysLink(r, v)
         \/ \E v \in {"none", "armed"} : SaysDevice(r, v)
         \/ \E how \in {"relaunch", "exit"} : Ends(r, how)
         \/ Launch(r)
  PROVE  Greeting(q)'
<1>1. out'[q] = out[q] /\ ready'[q] = ready[q] /\ pc'[q] = pc[q]
  <2>1. CASE Connector(r) \/ LoseTail(r)
    BY <2>1 DEF Connector, TakeLock, AlreadyRunning, Ready, HelloThenPending, StdinEnds,
       WindsDown, Die,
                LoseTail, Types, ConnType, reporter
  <2>2. CASE Relay(r) \/ Launch(r)
    BY <2>2 DEF Relay, RelayTake, RelayEmit, RelayEnd, RelayStopped, Launch, Types, ConnType, conn,
                reporter
  <2>3. CASE \/ \E v \in {"on", "off"} : SaysLink(r, v)
             \/ \E v \in {"none", "armed"} : SaysDevice(r, v)
             \/ \E how \in {"relaunch", "exit"} : Ends(r, how)
    BY <2>3 DEF SaysLink, SaysDevice, Says, Emit, Ends, Die, Types, ConnType, reporter
  <2> QED
    BY <2>1, <2>2, <2>3
<1>2. q \in heard => q \in heard'
  <2>1. CASE Relay(r)
    BY <2>1 DEF Relay, RelayTake, RelayEmit, RelayEnd, RelayStopped
  <2>2. CASE Connector(r) \/ LoseTail(r) \/ Launch(r)
    BY <2>2 DEF Connector, TakeLock, AlreadyRunning, Ready, StdinEnds, WindsDown, LoseTail, Launch,
                service
  <2>3. CASE \/ \E v \in {"on", "off"} : SaysLink(r, v)
             \/ \E v \in {"none", "armed"} : SaysDevice(r, v)
             \/ \E how \in {"relaunch", "exit"} : Ends(r, how)
    BY <2>3 DEF SaysLink, SaysDevice, Says, Ends, service
  <2> QED
    BY <2>1, <2>2, <2>3
<1> QED
  BY <1>1, <1>2 DEF Greeting, Mute

\* Every step of a shell that is still there afterwards.
LEMMA GreetingsStep ==
  ASSUME Types, Types', Order, \A r \in Runs : Greeting(r), [Next]_vars, shell' # "gone"
  PROVE  \A r \in Runs : Greeting(r)'
<1> DEFINE Own(r) == \/ Connector(r) \/ LoseTail(r) \/ Relay(r)
                     \/ \E v \in {"on", "off"} : SaysLink(r, v)
                     \/ \E v \in {"none", "armed"} : SaysDevice(r, v)
                     \/ \E how \in {"relaunch", "exit"} : Ends(r, how)
                     \/ Launch(r)
<1>1. ASSUME NEW r \in Runs, Own(r), NEW q \in Runs PROVE Greeting(q)'
  <2>1. CASE q = r
    BY <1>1, <2>1, OwnGreeting
  <2>2. CASE q # r
    BY <1>1, <2>2, OthersGreeting
  <2> QED
    BY <2>1, <2>2
<1>2. CASE \/ ServiceStartup \/ Restart \/ LaunchFails \/ QuitAnyway \/ ServiceShutdown \/ Page
           \/ UNCHANGED vars
  <2>1. out' = out /\ ready' = ready /\ heard' = heard /\ pc' = pc
    BY <1>2 DEF ServiceStartup, Restart, Start, LaunchFails, QuitAnyway, ServiceShutdown, Page,
                Subscribe, Snapshot, Mount, vars, conn, reporter, service
  <2> QED
    BY <2>1, GreetingStays
<1>3. ~ShellEnds /\ ~ShellKilled
  BY DEF ShellEnds, ShellKilled, Gone
<1>4. (\E r \in Runs : Own(r)) \/ ShellEnds \/ ShellKilled
      \/ ServiceStartup \/ Restart \/ LaunchFails \/ QuitAnyway \/ ServiceShutdown \/ Page
      \/ UNCHANGED vars
  BY DEF Next
<1> QED
  BY <1>1, <1>2, <1>3, <1>4

\* HelloFirst (Window): the first line of a run is its hello, unless it is its last word.
THEOREM HelloFirstHolds == Spec => []HelloFirst
<1>1. Init => Greetings
  BY DEF Init, Greetings, Greeting
<1>2. /\ Types /\ Types' /\ WindowInv /\ WindowInv'
      /\ Greetings /\ [Next]_vars
      => Greetings'
  <2> SUFFICES ASSUME Types, Types', WindowInv, Greetings, [Next]_vars, shell' # "gone"
               PROVE  \A r \in Runs : Greeting(r)'
    BY DEF Greetings
  <2>1. Order /\ \A r \in Runs : Greeting(r)
    BY GoneStays DEF WindowInv, Greetings
  <2> QED
    BY <2>1, GreetingsStep
<1>3. Types /\ Greetings => HelloFirst
  <2> SUFFICES ASSUME Types, NEW r \in Runs, Greeting(r), r \notin heard,
                      NEW i \in DOMAIN out[r], out[r][i].kind # "blocked"
               PROVE  LET spoken == {j \in DOMAIN out[r] : out[r][j].kind # "blocked"} IN
                      out[r][CHOOSE j \in spoken : \A k \in spoken : j <= k].kind = "hello"
    BY DEF HelloFirst, Greetings
  <2> DEFINE spoken == {j \in DOMAIN out[r] : out[r][j].kind # "blocked"}
  <2>1. out[r] \in Seq(Event) /\ Len(out[r]) \in Nat /\ DOMAIN out[r] = 1 .. Len(out[r])
    BY LenProperties DEF Types, ConnType
  <2>2. out[r] # <<>> /\ out[r][1].kind = "hello"
    BY <2>1, EmptySeq DEF Greeting, Mute
  <2>3. 1 \in spoken /\ \A k \in spoken : k \in Nat /\ 1 <= k
    BY <2>1, <2>2
  <2> HIDE DEF spoken
  <2>4. (CHOOSE j \in spoken : \A k \in spoken : j <= k) = 1
    <3>1. \A j \in spoken : (\A k \in spoken : j <= k) => j = 1
      BY <2>3
    <3> QED
      BY <2>3, <3>1
  <2> QED
    BY <2>2, <2>4 DEF spoken
<1> QED
  BY <1>1, <1>2, <1>3, WindowInvariant, PTL DEF Spec
=============================================================================

---------------------------- MODULE UplinkProofs ----------------------------
(***************************************************************************)
(* What the service learns, for any sessions, choices and bounds: the      *)
(* choice of cameras that Uplink implements, and the outbox with what is   *)
(* in Flush's hand.                                                        *)
(*                                                                         *)
(* The outbox and the hand are one sequence, ToSend, whose numbers rise;   *)
(* trimming and sending leave a part of it, in its order (Within).         *)
(***************************************************************************)
EXTENDS Uplink, FiniteSetTheorems, SequenceTheorems, WellFoundedInduction, TLAPS

-----------------------------------------------------------------------------
(* The choice of cameras. *)

ChoiceInv == ChoiceTypeOK /\ FileNamesCameras

Configs == [Parts -> Nat]
Changes == [cfg : Configs, parts : SUBSET Parts]

\* The variables' types, one by one.
LEMMA ChoiceTypes ==
  ChoiceTypeOK <=>
    /\ cfg \in Configs /\ saved \in Configs /\ offer \in Configs
    /\ on \in [Views -> BOOLEAN]
    /\ pending \in Changes \cup {Nothing} /\ apply \in Changes \cup {Nothing}
    /\ kept \in BOOLEAN /\ wakes \in Nat
BY DEF ChoiceTypeOK, Configs, Changes

\* mergeSourceConfig makes a configuration of a choice.
LEMMA MergedTyped ==
  ASSUME NEW c \in Asks, cfg \in Configs
  PROVE  [cfg |-> Merged(c), parts |-> DOMAIN c] \in Changes
<1>1. PICK parts \in SUBSET Parts \ {{}} : c \in [parts -> Nat]
  BY ChoicesAssumption
<1>2. Merged(c) \in Configs
  BY <1>1 DEF Merged, Configs
<1> QED
  BY <1>1, <1>2 DEF Changes

\* What is remembered names the cameras of the offers in force.
LEMMA RememberedCameras ==
  ASSUME ChoiceTypeOK, apply # Nothing
  PROVE  Remembered \in Configs /\ \A v \in Views : Remembered[v] = offer[v]
<1>1. offer \in [Parts -> Nat] /\ apply.cfg \in [Parts -> Nat]
  BY ChoiceTypes DEF Configs, Changes
<1>2. apply.cfg.share \in Nat
  BY <1>1 DEF Parts
<1>3. \A v \in Views : v \in Parts /\ v # "share"
  BY DEF Views, Parts
<1> QED
  BY <1>1, <1>2, <1>3 DEF Remembered, Configs

\* Setting a part leaves a change that is under way, and an offer.
LEMMA PartSet ==
  ASSUME ChoiceTypeOK, apply # Nothing, NEW p \in Parts, NEW parts \in SUBSET Parts
  PROVE  /\ [offer EXCEPT ![p] = apply.cfg[p]] \in Configs
         /\ [apply EXCEPT !.parts = parts] \in Changes
<1>1. offer \in Configs /\ apply \in Changes
  BY ChoiceTypes
<1>2. apply.cfg[p] \in Nat
  BY <1>1 DEF Configs, Changes
<1> QED
  BY <1>1, <1>2 DEF Configs, Changes

\* A choice's steps keep the types.
LEMMA ChoiceTypeStep ==
  ASSUME ChoiceTypeOK, [ChoiceStep \/ Save]_choiceVars
  PROVE  ChoiceTypeOK'
<1>1. CASE UNCHANGED choiceVars
  BY <1>1 DEF ChoiceTypeOK, choiceVars, inForce, history, bounds
<1>2. ASSUME NEW c \in Asks, Ask(c) PROVE ChoiceTypeOK'
  <2> DEFINE change == [cfg |-> Merged(c), parts |-> DOMAIN c]
  <2>1. UNCHANGED <<cfg, saved, offer, on, wakes, kept>>
    BY <1>2 DEF Ask, inForce
  <2>2. change \in Changes
    BY <1>2, MergedTyped, ChoiceTypes
  <2>3. /\ pending' \in {change, Nothing} /\ apply' \in {change, apply}
    BY <1>2 DEF Ask
  <2> HIDE DEF change
  <2> QED
    BY <2>1, <2>2, <2>3, ChoiceTypes DEF ChoiceTypeOK, Configs, Changes
<1>3. CASE ApplyPending
  <2>1. UNCHANGED <<cfg, saved, offer, on, kept>> /\ wakes > 0 /\ wakes' = wakes - 1
    BY <1>3 DEF ApplyPending, inForce, history
  <2>2. pending' \in {pending, Nothing} /\ apply' \in {pending, apply}
    BY <1>3 DEF ApplyPending
  <2>3. wakes' \in Nat
    BY <2>1, ChoiceTypes
  <2> QED
    BY <2>1, <2>2, <2>3, ChoiceTypes DEF ChoiceTypeOK, Configs, Changes
<1>4. ASSUME NEW v \in Views, SetOffer(v) PROVE ChoiceTypeOK'
  <2>1. /\ apply # Nothing /\ UNCHANGED <<cfg, saved, on, pending, wakes, kept>>
        /\ offer' = [offer EXCEPT ![v] = apply.cfg[v]]
        /\ apply' = [apply EXCEPT !.parts = apply.parts \ {v}]
    BY <1>4 DEF SetOffer, NextPart, history
  <2>2. v \in Parts /\ apply.parts \ {v} \in SUBSET Parts
    BY <2>1, ChoiceTypes DEF Changes, Parts
  <2>3. offer' \in Configs /\ apply' \in Changes
    BY <2>1, <2>2, PartSet
  <2> QED
    BY <2>1, <2>3, ChoiceTypes DEF ChoiceTypeOK, Configs, Changes
<1>5. ASSUME NEW v \in Views, OfferBusy(v) PROVE ChoiceTypeOK'
  BY <1>5 DEF OfferBusy, inForce, ChoiceTypeOK
<1>6. CASE SetShared
  <2>1. /\ apply # Nothing /\ UNCHANGED <<cfg, saved, on, pending, wakes, kept>>
        /\ offer' = [offer EXCEPT !.share = apply.cfg.share]
        /\ apply' = [apply EXCEPT !.parts = {}]
    BY <1>6 DEF SetShared, NextPart, history
  <2>2. "share" \in Parts /\ {} \in SUBSET Parts
    BY DEF Parts
  <2>3. offer' \in Configs /\ apply' \in Changes
    BY <2>1, <2>2, PartSet
  <2> QED
    BY <2>1, <2>3, ChoiceTypes DEF ChoiceTypeOK, Configs, Changes
<1>7. ASSUME NEW p \in Parts, PartFails(p) PROVE ChoiceTypeOK'
  <2>1. /\ UNCHANGED <<cfg, saved, on, pending, wakes>> /\ apply' = Nothing /\ kept' = FALSE
        /\ offer' \in {offer, [offer EXCEPT !.share = 0]}
    BY <1>7 DEF PartFails
  <2>2. offer' \in Configs
    BY <2>1, ChoiceTypes DEF Configs
  <2> QED
    BY <2>1, <2>2, ChoiceTypes DEF ChoiceTypeOK, Configs, Changes
<1>8. CASE Save
  <2>1. /\ apply # Nothing /\ apply' = Nothing /\ cfg' = Remembered /\ saved' \in {saved, cfg'}
        /\ kept' \in BOOLEAN /\ UNCHANGED <<offer, on, pending, wakes>>
    BY <1>8 DEF Save
  <2>2. Remembered \in Configs
    BY <2>1, RememberedCameras
  <2> QED
    BY <2>1, <2>2, ChoiceTypes DEF ChoiceTypeOK, Configs, Changes
<1>9. ASSUME NEW v \in Views, CameraOn(v) PROVE ChoiceTypeOK'
  <2>1. /\ on' = [on EXCEPT ![v] = TRUE]
        /\ UNCHANGED <<cfg, saved, offer, pending, apply, wakes, kept>>
    BY <1>9 DEF CameraOn, inForce, history
  <2> QED
    BY <2>1, ChoiceTypes DEF ChoiceTypeOK, Configs, Changes
<1>10. ASSUME NEW views \in SUBSET Views, CameraOff(views) PROVE ChoiceTypeOK'
  <2>1. /\ on' = [v \in Views |-> on[v] /\ v \notin views] /\ wakes' = wakes + 1
        /\ UNCHANGED <<cfg, saved, offer, pending, apply, kept>>
    BY <1>10 DEF CameraOff, inForce, history
  <2>2. on' \in [Views -> BOOLEAN] /\ wakes' \in Nat
    BY <2>1, ChoiceTypes
  <2> QED
    BY <2>1, <2>2, ChoiceTypes DEF ChoiceTypeOK, Configs, Changes
<1> QED
  BY <1>1, <1>2, <1>3, <1>4, <1>5, <1>6, <1>7, <1>8, <1>9, <1>10 DEF ChoiceStep, Apply

\* What a choice's end says of the file holds until the next is made.
LEMMA NamesStep ==
  ASSUME ChoiceTypeOK, FileNamesCameras, [ChoiceStep \/ Save]_choiceVars
  PROVE  FileNamesCameras'
<1>1. CASE UNCHANGED <<cfg, saved, offer, kept>> /\ (apply' = Nothing => apply = Nothing)
  BY <1>1 DEF FileNamesCameras
<1>2. CASE kept' = FALSE
  BY <1>2 DEF FileNamesCameras
<1>3. CASE apply' # Nothing
  BY <1>3 DEF FileNamesCameras
<1>4. CASE Save /\ kept' # FALSE
  <2>1. apply # Nothing /\ cfg' = Remembered /\ saved' = cfg' /\ offer' = offer
    BY <1>4 DEF Save
  <2> QED
    BY <2>1, RememberedCameras DEF FileNamesCameras
<1>5. ASSUME NEW c \in Asks, Ask(c)
      PROVE  UNCHANGED <<cfg, saved, offer, kept>> /\ (apply' = Nothing => apply = Nothing)
  BY <1>5 DEF Ask, inForce
<1>6. ASSUME ApplyPending
      PROVE  UNCHANGED <<cfg, saved, offer, kept>> /\ (apply' = Nothing => apply = Nothing)
  BY <1>6 DEF ApplyPending, inForce, history
<1>7. ASSUME NEW v \in Views, SetOffer(v)
      PROVE  apply' # Nothing
  <2>1. apply # Nothing /\ apply' = [apply EXCEPT !.parts = apply.parts \ {v}]
    BY <1>7 DEF SetOffer, NextPart
  <2>2. apply' \in Changes
    BY <2>1, ChoiceTypes DEF Changes
  <2> QED
    BY <2>2, ChoicesAssumption DEF Changes, Configs
<1>8. ASSUME SetShared
      PROVE  apply' # Nothing
  <2>1. apply # Nothing /\ apply' = [apply EXCEPT !.parts = {}]
    BY <1>8 DEF SetShared, NextPart
  <2>2. apply' \in Changes
    BY <2>1, ChoiceTypes DEF Changes
  <2> QED
    BY <2>2, ChoicesAssumption DEF Changes, Configs
<1>9. ASSUME NEW p \in Parts, PartFails(p) \/ (p \in Views /\ OfferBusy(p))
      PROVE  kept' = FALSE
  BY <1>9 DEF PartFails, OfferBusy
<1>10. ASSUME NEW v \in Views, CameraOn(v)
      PROVE  UNCHANGED <<cfg, saved, offer, kept, apply>>
  BY <1>10 DEF CameraOn, inForce, history
<1>11. ASSUME NEW views \in SUBSET Views, CameraOff(views)
      PROVE  UNCHANGED <<cfg, saved, offer, kept, apply>>
  BY <1>11 DEF CameraOff, inForce, history
<1>12. ASSUME UNCHANGED choiceVars
      PROVE  UNCHANGED <<cfg, saved, offer, kept, apply>>
  BY <1>12 DEF choiceVars, inForce, history
<1>13. CASE ChoiceStep
  <2>1. Views \subseteq Parts
    BY DEF Parts
  <2> QED
    BY <1>1, <1>2, <1>3, <1>5, <1>6, <1>7, <1>8, <1>9, <1>10, <1>11, <1>13, <2>1 DEF ChoiceStep,
       Apply
<1> QED
  BY <1>1, <1>2, <1>4, <1>12, <1>13

\* Every variable of the choices is of its type, and the file names the cameras served (apply.go,
\* applyLocked; source.go).
THEOREM ChoicesInvariant == ChoiceSpec => []ChoiceInv
<1>1. ChoiceInit => ChoiceInv
  BY DEF ChoiceInit, AsBefore, ChoiceInv, ChoiceTypeOK, FileNamesCameras, Parts
<1>2. ChoiceInv /\ [ChoiceStep \/ Save]_choiceVars => ChoiceInv'
  BY ChoiceTypeStep, NamesStep DEF ChoiceInv
<1> QED
  BY <1>1, <1>2, PTL DEF ChoiceSpec

-----------------------------------------------------------------------------
(* The outbox. *)

\* The messages the outbox owes, in the order they would be sent.
ToSend == hand \o outbox

\* A set of naturals has a least one.
LEMMA LeastOf ==
  ASSUME NEW S \in SUBSET Nat, S # {}
  PROVE  \E n \in S : \A m \in S : n <= m
<1>1. PICK n \in S : \A m \in S : ~ (<<m, n>> \in OpToRel(<, Nat))
  BY NatLessThanWellFounded, WFMin
<1>2. \A m \in S : ~ (m < n)
  BY <1>1 DEF OpToRel
<1> QED
  BY <1>2

\* How many of the places are there up to one of them.
UpTo(places, i) == {j \in places : j <= i}

\* One place further there is one more, if it is of the places.
LEMMA UpToNext ==
  ASSUME NEW n \in Nat, NEW places \in SUBSET (1 .. n), NEW i \in Nat
  PROVE  /\ IsFiniteSet(UpTo(places, i)) /\ Cardinality(UpTo(places, i)) \in Nat
         /\ Cardinality(UpTo(places, i + 1)) =
              IF i + 1 \in places THEN Cardinality(UpTo(places, i)) + 1
                                  ELSE Cardinality(UpTo(places, i))
<1>1. \A j \in places : j \in Nat
  OBVIOUS
<1>2. IsFiniteSet(places)
  <2>1. IsFiniteSet(1 .. n)
    BY FS_Interval
  <2> QED
    BY <2>1, FS_Subset
<1>3. UpTo(places, i) \in SUBSET places
  BY DEF UpTo
<1>4. IsFiniteSet(UpTo(places, i)) /\ Cardinality(UpTo(places, i)) \in Nat
  BY <1>2, <1>3, FS_Subset, FS_CardinalityType
<1>5. \A j \in places : j <= i + 1 <=> j <= i \/ j = i + 1
  BY <1>1
<1>6. CASE i + 1 \in places
  <2>1. UpTo(places, i + 1) = UpTo(places, i) \cup {i + 1}
    BY <1>5, <1>6, ZenonT(20) DEF UpTo
  <2>2. i + 1 \notin UpTo(places, i)
    BY DEF UpTo
  <2> QED
    BY <1>4, <1>6, <2>1, <2>2, FS_AddElement
<1>7. CASE i + 1 \notin places
  <2>1. \A j \in places : j <= i + 1 <=> j <= i
    BY <1>5, <1>7
  <2>2. UpTo(places, i + 1) = UpTo(places, i)
    BY <2>1 DEF UpTo
  <2> QED
    BY <1>4, <1>7, <2>2
<1> QED
  BY <1>4, <1>6, <1>7

\* It starts at none, and ends at them all.
LEMMA UpToEnds ==
  ASSUME NEW n \in Nat, NEW places \in SUBSET (1 .. n)
  PROVE  /\ UpTo(places, 0) = {} /\ UpTo(places, n) = places
         /\ Cardinality(UpTo(places, 0)) = 0
         /\ IsFiniteSet(places) /\ Cardinality(places) \in 0 .. n
<1>1. \A j \in places : j \in Nat /\ 1 <= j /\ j <= n
  OBVIOUS
<1>2. \A j \in places : ~ (j <= 0)
  BY <1>1
<1>3. UpTo(places, 0) = {}
  BY <1>2 DEF UpTo
<1>4. UpTo(places, n) = places
  BY <1>1 DEF UpTo
<1>5. IsFiniteSet(1 .. n) /\ Cardinality(1 .. n) = n
  BY FS_Interval
<1>6. IsFiniteSet(places) /\ Cardinality(places) <= Cardinality(1 .. n)
  BY <1>5, FS_Subset
<1>7. Cardinality(places) \in Nat /\ Cardinality({}) = 0
  BY <1>6, FS_CardinalityType, FS_EmptySet
<1>8. Cardinality(places) \in 0 .. n
  BY <1>5, <1>6, <1>7
<1> QED
  BY <1>3, <1>4, <1>6, <1>7, <1>8

\* There is a first, a second, and so on to the last of the places.
LEMMA KthPlace ==
  ASSUME NEW n \in Nat, NEW places \in SUBSET (1 .. n), NEW k \in 1 .. Cardinality(places)
  PROVE  \E i \in places : Cardinality(UpTo(places, i)) = k
<1> DEFINE S == {i \in 1 .. n : Cardinality(UpTo(places, i)) >= k}
<1>1. /\ Cardinality(places) \in 0 .. n /\ UpTo(places, n) = places
      /\ Cardinality(UpTo(places, 0)) = 0
  BY UpToEnds
<1>2. k \in Nat /\ 1 <= k /\ k <= Cardinality(places) /\ n \in 1 .. n
  BY <1>1
<1>3. n \in S /\ S \in SUBSET Nat
  BY <1>1, <1>2
<1>4. PICK i \in S : \A m \in S : i <= m
  <2> HIDE DEF S
  <2> QED
    BY <1>3, LeastOf
<1>5. i \in 1 .. n /\ Cardinality(UpTo(places, i)) >= k
  BY <1>4
<1>6. PICK h \in Nat : i = h + 1
  <2>1. i - 1 \in Nat /\ i = (i - 1) + 1
    BY <1>5
  <2> QED
    BY <2>1
<1>7. /\ Cardinality(UpTo(places, h)) \in Nat
      /\ Cardinality(UpTo(places, h + 1)) =
           IF h + 1 \in places THEN Cardinality(UpTo(places, h)) + 1
                               ELSE Cardinality(UpTo(places, h))
  BY UpToNext
<1>8. Cardinality(UpTo(places, h)) < k
  <2>1. CASE h = 0
    BY <1>1, <1>2, <2>1
  <2>2. CASE h # 0
    <3>1. h \in 1 .. n /\ ~ (i <= h)
      BY <1>5, <1>6, <2>2
    <3>2. h \notin S
      BY <1>4, <3>1
    <3> QED
      BY <1>2, <1>7, <3>1, <3>2
  <2> QED
    BY <2>1, <2>2
<1>9. h + 1 \in places /\ Cardinality(UpTo(places, h + 1)) = k
  BY <1>2, <1>5, <1>6, <1>7, <1>8
<1> QED
  BY <1>9

\* The place a message that is kept was at.
At(places, k) == CHOOSE i \in places : Cardinality({j \in places : j <= i}) = k

\* What is kept is at places that rise.
LEMMA AtRises ==
  ASSUME NEW n \in Nat, NEW places \in SUBSET (1 .. n)
  PROVE  /\ Cardinality(places) \in 0 .. n
         /\ \A k \in 1 .. Cardinality(places) : At(places, k) \in places
         /\ \A k, l \in 1 .. Cardinality(places) : k < l => At(places, k) < At(places, l)
<1>1. Cardinality(places) \in 0 .. n /\ IsFiniteSet(places)
  BY UpToEnds
<1>2. ASSUME NEW k \in 1 .. Cardinality(places)
      PROVE  At(places, k) \in places /\ Cardinality(UpTo(places, At(places, k))) = k
  <2>1. \E i \in places : Cardinality(UpTo(places, i)) = k
    BY KthPlace
  <2>2. \E i \in places : Cardinality({j \in places : j <= i}) = k
    BY <2>1 DEF UpTo
  <2>3. At(places, k) \in places /\ Cardinality({j \in places : j <= At(places, k)}) = k
    BY <2>2 DEF At
  <2> QED
    BY <2>3 DEF UpTo
<1>3. ASSUME NEW k \in 1 .. Cardinality(places), NEW l \in 1 .. Cardinality(places), k < l
      PROVE  At(places, k) < At(places, l)
  <2> DEFINE a == At(places, k)
             b == At(places, l)
  <2>1. /\ a \in places /\ Cardinality(UpTo(places, a)) = k
        /\ b \in places /\ Cardinality(UpTo(places, b)) = l
    BY <1>2
  <2> HIDE DEF a, b
  <2>2. \A j \in places : j \in Nat
    OBVIOUS
  <2>3. ASSUME b <= a PROVE FALSE
    <3>1. \A j \in places : j <= b => j <= a
      BY <2>1, <2>2, <2>3
    <3>2. UpTo(places, b) \in SUBSET UpTo(places, a)
      BY <3>1 DEF UpTo
    <3>3. UpTo(places, a) \in SUBSET places
      BY DEF UpTo
    <3>4. IsFiniteSet(UpTo(places, a))
      BY <1>1, <3>3, FS_Subset
    <3>5. l <= k
      BY <2>1, <3>2, <3>4, FS_Subset
    <3>6. k \in Nat /\ l \in Nat
      BY <1>1
    <3> QED
      BY <1>3, <3>5, <3>6
  <2>4. a < b
    BY <2>1, <2>2, <2>3
  <2> QED
    BY <2>4 DEF a, b
<1> QED
  BY <1>1, <1>2, <1>3

\* What is kept of a sequence is of it, in its order.
LEMMA OnlyParts ==
  ASSUME NEW q \in Seq(Message), NEW places \in SUBSET (1 .. Len(q))
  PROVE  /\ Only(q, places) \in Seq(Message) /\ Len(Only(q, places)) = Cardinality(places)
         /\ Cardinality(places) \in 0 .. Len(q)
         /\ \A k \in 1 .. Cardinality(places) :
              At(places, k) \in 1 .. Len(q) /\ Only(q, places)[k] = q[At(places, k)]
         /\ \A k, l \in 1 .. Cardinality(places) : k < l => At(places, k) < At(places, l)
<1>1. Len(q) \in Nat /\ \A i \in 1 .. Len(q) : q[i] \in Message
  BY LenProperties
<1>2. /\ Cardinality(places) \in 0 .. Len(q)
      /\ \A k \in 1 .. Cardinality(places) : At(places, k) \in places
      /\ \A k, l \in 1 .. Cardinality(places) : k < l => At(places, k) < At(places, l)
  BY <1>1, AtRises
<1>3. Only(q, places) = [k \in 1 .. Cardinality(places) |-> q[At(places, k)]]
  BY DEF Only, At
<1>4. \A k \in 1 .. Cardinality(places) : q[At(places, k)] \in Message
  BY <1>1, <1>2
<1>5. Only(q, places) \in Seq(Message) /\ Len(Only(q, places)) = Cardinality(places)
  BY <1>2, <1>3, <1>4
<1> QED
  BY <1>2, <1>3, <1>5

\* A message of an outbox that is to be trimmed, and those that go before it.
Ahead(q, i) ==
  {j \in 1 .. Len(q) : IF q[j].telemetry = q[i].telemetry THEN j < i ELSE q[j].telemetry}

\* The places that are kept.
Kept(q) == {i \in 1 .. Len(q) : Cardinality(Ahead(q, i)) >= Len(q) - MaxOutbox}

\* Trim keeps these places, and no more than MaxOutbox of them: which goes
\* before which is an order, so that no two messages have as many before them.
LEMMA KeptFew ==
  ASSUME NEW q \in Seq(Message)
  PROVE  /\ Trim(q) = Only(q, Kept(q)) /\ Kept(q) \in SUBSET (1 .. Len(q))
         /\ Cardinality(Kept(q)) \in 0 .. MaxOutbox
<1>1. Len(q) \in Nat /\ DOMAIN q = 1 .. Len(q) /\ MaxOutbox \in Nat
  BY LenProperties, UplinkAssumption
<1>2. \A i \in 1 .. Len(q) : q[i] \in Message
  BY ElementOfSeq
<1>3. \A i \in 1 .. Len(q) : q[i].telemetry \in BOOLEAN
  BY <1>2 DEF Message
<1>4. Trim(q) = Only(q, Kept(q)) /\ Kept(q) \in SUBSET (1 .. Len(q))
  BY <1>1 DEF Trim, Kept, Ahead
<1>5. IsFiniteSet(1 .. Len(q)) /\ Cardinality(1 .. Len(q)) = Len(q)
  <2>1. PICK n \in Nat : n = Len(q)
    BY <1>1
  <2>2. IsFiniteSet(1 .. n) /\ Cardinality(1 .. n) = n
    <3>1. /\ IsFiniteSet(1 .. n)
          /\ Cardinality(1 .. n) = IF 1 > n THEN 0 ELSE n - 1 + 1
      BY FS_Interval
    <3> QED
      BY <3>1
  <2> QED
    BY <2>1, <2>2
<1>6. ASSUME NEW i \in 1 .. Len(q)
      PROVE  /\ Ahead(q, i) \in SUBSET (1 .. Len(q)) /\ i \notin Ahead(q, i)
             /\ IsFiniteSet(Ahead(q, i)) /\ Cardinality(Ahead(q, i)) \in 0 .. Len(q) - 1
  <2>1. Ahead(q, i) \in SUBSET (1 .. Len(q)) /\ i \notin Ahead(q, i)
    BY <1>1 DEF Ahead
  <2>2. IsFiniteSet(Ahead(q, i)) /\ Cardinality(Ahead(q, i)) <= Len(q)
    BY <1>5, <2>1, FS_Subset
  <2>3. Cardinality(Ahead(q, i)) # Len(q)
    BY <1>5, <2>1, FS_Subset
  <2>4. Cardinality(Ahead(q, i)) \in Nat
    BY <2>2, FS_CardinalityType
  <2> QED
    BY <1>1, <2>1, <2>2, <2>3, <2>4
<1>7. ASSUME NEW i \in 1 .. Len(q), NEW j \in 1 .. Len(q), i \in Ahead(q, j)
      PROVE  Cardinality(Ahead(q, i)) < Cardinality(Ahead(q, j))
  <2>1. ASSUME NEW k \in Ahead(q, i) PROVE k \in Ahead(q, j)
    BY <1>1, <1>3, <1>7, <2>1 DEF Ahead
  <2>2. Ahead(q, i) \in SUBSET Ahead(q, j) /\ Ahead(q, i) # Ahead(q, j)
    BY <1>6, <1>7, <2>1
  <2>3. /\ Cardinality(Ahead(q, i)) <= Cardinality(Ahead(q, j))
        /\ Cardinality(Ahead(q, i)) # Cardinality(Ahead(q, j))
    BY <1>6, <2>2, FS_Subset
  <2>4. Cardinality(Ahead(q, i)) \in Nat /\ Cardinality(Ahead(q, j)) \in Nat
    BY <1>6, FS_CardinalityType
  <2> QED
    BY <2>3, <2>4
<1>8. ASSUME NEW i \in 1 .. Len(q), NEW j \in 1 .. Len(q), i # j
      PROVE  Cardinality(Ahead(q, i)) # Cardinality(Ahead(q, j))
  <2>1. i \in Ahead(q, j) \/ j \in Ahead(q, i)
    BY <1>1, <1>3, <1>8 DEF Ahead
  <2>2. Cardinality(Ahead(q, i)) \in Nat /\ Cardinality(Ahead(q, j)) \in Nat
    BY <1>6
  <2> QED
    BY <1>7, <2>1, <2>2
<1>9. IsFiniteSet(Kept(q)) /\ Cardinality(Kept(q)) \in Nat /\ Cardinality(Kept(q)) <= Len(q)
  BY <1>4, <1>5, FS_Subset, FS_CardinalityType
<1>10. CASE Len(q) <= MaxOutbox
  BY <1>1, <1>4, <1>9, <1>10
<1>11. CASE ~ (Len(q) <= MaxOutbox)
  <2> DEFINE ranks == (Len(q) - MaxOutbox) .. (Len(q) - 1)
             rank == [i \in Kept(q) |-> Cardinality(Ahead(q, i))]
  <2>1. IsFiniteSet(ranks) /\ Cardinality(ranks) = MaxOutbox
    <3> DEFINE low == Len(q) - MaxOutbox
               high == Len(q) - 1
    <3>1. low \in Int /\ high \in Int /\ high - low + 1 = MaxOutbox /\ low <= high + 1
      BY <1>1
    <3> HIDE DEF low, high
    <3>2. /\ IsFiniteSet(low .. high)
          /\ Cardinality(low .. high) = IF low > high THEN 0 ELSE high - low + 1
      BY <3>1, FS_Interval
    <3>3. IsFiniteSet(low .. high) /\ Cardinality(low .. high) = MaxOutbox
      BY <1>1, <3>1, <3>2
    <3> QED
      BY <3>3 DEF low, high
  <2>2. \A i \in Kept(q) : i \in 1 .. Len(q) /\ Cardinality(Ahead(q, i)) \in ranks
    BY <1>1, <1>6 DEF Kept
  <2>3. rank \in Injection(Kept(q), ranks)
    BY <1>8, <2>2 DEF Injection, IsInjective
  <2> HIDE DEF ranks, rank
  <2>4. Cardinality(Kept(q)) <= MaxOutbox
    BY <2>1, <2>3, FS_Injection
  <2> QED
    BY <1>1, <1>4, <1>9, <2>4
<1> QED
  BY <1>10, <1>11

\* A sequence is within another: what it holds is of the other, in its order.
Within(s, t) ==
  \E f \in [1 .. Len(s) -> 1 .. Len(t)] :
    /\ \A k \in 1 .. Len(s) : s[k] = t[f[k]]
    /\ \A k, l \in 1 .. Len(s) : k < l => f[k] < f[l]

\* What trimLocked leaves is within what was there, and is MaxOutbox messages or less.
LEMMA TrimWithin ==
  ASSUME NEW q \in Seq(Message)
  PROVE  Trim(q) \in Seq(Message) /\ Len(Trim(q)) \in 0 .. MaxOutbox /\ Within(Trim(q), q)
<1> DEFINE t == Trim(q)
           f == [k \in 1 .. Len(t) |-> At(Kept(q), k)]
<1>1. /\ t = Only(q, Kept(q)) /\ Kept(q) \in SUBSET (1 .. Len(q))
      /\ Cardinality(Kept(q)) \in 0 .. MaxOutbox
  BY KeptFew
<1>2. /\ t \in Seq(Message) /\ Len(t) = Cardinality(Kept(q))
      /\ \A k \in 1 .. Len(t) : At(Kept(q), k) \in 1 .. Len(q) /\ t[k] = q[At(Kept(q), k)]
      /\ \A k, l \in 1 .. Len(t) : k < l => At(Kept(q), k) < At(Kept(q), l)
  <2> HIDE DEF t
  <2> QED
    BY <1>1, OnlyParts
<1> HIDE DEF t
<1>3. f \in [1 .. Len(t) -> 1 .. Len(q)]
  BY <1>2
<1>4. \A k \in 1 .. Len(t) : f[k] = At(Kept(q), k)
  OBVIOUS
<1> HIDE DEF f
<1>5. Within(t, q)
  BY <1>2, <1>3, <1>4 DEF Within
<1> QED
  BY <1>1, <1>2, <1>5 DEF t

\* The places that are kept and the numbers of what is kept only depend on
\* the numbers and on which messages are telemetry.
LEMMA TrimSame ==
  ASSUME NEW q \in Seq(Message), NEW r \in Seq(Message), Len(q) = Len(r),
         \A i \in 1 .. Len(q) : q[i].n = r[i].n /\ q[i].telemetry = r[i].telemetry
  PROVE  Numbers(Trim(q)) = Numbers(Trim(r))
<1>1. \A i \in 1 .. Len(q) : Ahead(q, i) = Ahead(r, i)
  BY DEF Ahead
<1>2. Kept(q) = Kept(r)
  BY <1>1 DEF Kept
<1>3. /\ Trim(q) = Only(q, Kept(q)) /\ Kept(q) \in SUBSET (1 .. Len(q))
      /\ Trim(r) = Only(r, Kept(q))
  BY <1>2, KeptFew
<1>4. /\ Trim(q) \in Seq(Message) /\ Len(Trim(q)) = Cardinality(Kept(q))
      /\ \A k \in 1 .. Cardinality(Kept(q)) :
           At(Kept(q), k) \in 1 .. Len(q) /\ Trim(q)[k] = q[At(Kept(q), k)]
  BY <1>3, OnlyParts
<1>5. /\ Trim(r) \in Seq(Message) /\ Len(Trim(r)) = Cardinality(Kept(q))
      /\ \A k \in 1 .. Cardinality(Kept(q)) :
           At(Kept(q), k) \in 1 .. Len(r) /\ Trim(r)[k] = r[At(Kept(q), k)]
  <2>1. Kept(q) \in SUBSET (1 .. Len(r))
    BY <1>3
  <2> QED
    BY <1>3, <2>1, OnlyParts
<1>6. DOMAIN Trim(q) = 1 .. Cardinality(Kept(q)) /\ DOMAIN Trim(r) = 1 .. Cardinality(Kept(q))
  BY <1>4, <1>5, LenProperties
<1>7. \A k \in 1 .. Cardinality(Kept(q)) : Trim(q)[k].n = Trim(r)[k].n
  BY <1>4, <1>5
<1> QED
  BY <1>6, <1>7 DEF Numbers

\* They are in the order they were queued in.
Rising(s) == \A i, j \in 1 .. Len(s) : i < j => s[i].n < s[j].n

\* They are of those queued so far, and behind what has arrived, but for what
\* was sent and not heard of.
Due(s, got, top) ==
  \A i \in 1 .. Len(s) : s[i].n <= top /\ (~s[i].again => got[s[i].to] < s[i].n)

\* What is within a sequence has these of it.
LEMMA WithinKeeps ==
  ASSUME NEW s \in Seq(Message), NEW t \in Seq(Message), NEW got, NEW top, Within(s, t)
  PROVE  /\ Numbers(s) \in SUBSET Numbers(t)
         /\ Rising(t) => Rising(s)
         /\ Due(t, got, top) => Due(s, got, top)
<1>1. PICK f \in [1 .. Len(s) -> 1 .. Len(t)] :
        /\ \A k \in 1 .. Len(s) : s[k] = t[f[k]]
        /\ \A k, l \in 1 .. Len(s) : k < l => f[k] < f[l]
  BY DEF Within
<1>2. DOMAIN s = 1 .. Len(s) /\ DOMAIN t = 1 .. Len(t)
  BY LenProperties
<1>3. \A k \in 1 .. Len(s) : f[k] \in 1 .. Len(t)
  OBVIOUS
<1>4. Numbers(s) \in SUBSET Numbers(t)
  BY <1>1, <1>2, <1>3 DEF Numbers
<1>5. Rising(t) => Rising(s)
  BY <1>1, <1>3 DEF Rising
<1>6. Due(t, got, top) => Due(s, got, top)
  BY <1>1, <1>3 DEF Due
<1> QED
  BY <1>4, <1>5, <1>6

\* Something is in front of both.
LEMMA WithinBehind ==
  ASSUME NEW a \in Seq(Message), NEW s \in Seq(Message), NEW t \in Seq(Message), Within(s, t)
  PROVE  Within(a \o s, a \o t)
<1>1. PICK f \in [1 .. Len(s) -> 1 .. Len(t)] :
        /\ \A k \in 1 .. Len(s) : s[k] = t[f[k]]
        /\ \A k, l \in 1 .. Len(s) : k < l => f[k] < f[l]
  BY DEF Within
<1>2. Len(a) \in Nat /\ Len(s) \in Nat /\ Len(t) \in Nat
  BY LenProperties
<1>3. /\ Len(a \o s) = Len(a) + Len(s) /\ Len(a \o t) = Len(a) + Len(t)
      /\ \A i \in 1 .. Len(a) + Len(s) :
           (a \o s)[i] = IF i <= Len(a) THEN a[i] ELSE s[i - Len(a)]
      /\ \A i \in 1 .. Len(a) + Len(t) :
           (a \o t)[i] = IF i <= Len(a) THEN a[i] ELSE t[i - Len(a)]
  BY ConcatProperties
<1> DEFINE g == [i \in 1 .. Len(a) + Len(s) |->
                   IF i <= Len(a) THEN i ELSE Len(a) + f[i - Len(a)]]
<1>4. \A i \in 1 .. Len(a) + Len(s) :
        ~ (i <= Len(a)) => i - Len(a) \in 1 .. Len(s) /\ f[i - Len(a)] \in 1 .. Len(t)
  <2> SUFFICES ASSUME NEW i \in 1 .. Len(a) + Len(s), ~ (i <= Len(a))
               PROVE  i - Len(a) \in 1 .. Len(s) /\ f[i - Len(a)] \in 1 .. Len(t)
    OBVIOUS
  <2>1. i - Len(a) \in 1 .. Len(s)
    BY <1>2
  <2> QED
    BY <2>1
<1>5. \A i \in 1 .. Len(a) + Len(s) :
        g[i] = IF i <= Len(a) THEN i ELSE Len(a) + f[i - Len(a)]
  OBVIOUS
<1>6. \A i \in 1 .. Len(a) + Len(s) : g[i] \in 1 .. Len(a) + Len(t)
  BY <1>2, <1>4
<1>7. g \in [1 .. Len(a) + Len(s) -> 1 .. Len(a) + Len(t)]
  BY <1>6
<1> HIDE DEF g
<1>8. \A i \in 1 .. Len(a) + Len(s) : (a \o s)[i] = (a \o t)[g[i]]
  <2> TAKE i \in 1 .. Len(a) + Len(s)
  <2>1. CASE i <= Len(a)
    BY <1>2, <1>3, <1>5, <1>6, <2>1
  <2>2. CASE ~ (i <= Len(a))
    <3>1. /\ g[i] = Len(a) + f[i - Len(a)] /\ f[i - Len(a)] \in 1 .. Len(t)
          /\ i - Len(a) \in 1 .. Len(s)
      BY <1>4, <1>5, <2>2
    <3>2. ~ (g[i] <= Len(a)) /\ g[i] - Len(a) = f[i - Len(a)]
      BY <1>2, <3>1
    <3>3. (a \o t)[g[i]] = t[f[i - Len(a)]]
      BY <1>3, <1>6, <3>2
    <3> QED
      BY <1>1, <1>3, <2>2, <3>1, <3>3
  <2> QED
    BY <2>1, <2>2
<1>9. \A i, j \in 1 .. Len(a) + Len(s) : i < j => g[i] < g[j]
  <2> SUFFICES ASSUME NEW i \in 1 .. Len(a) + Len(s), NEW j \in 1 .. Len(a) + Len(s), i < j
               PROVE  g[i] < g[j]
    OBVIOUS
  <2>1. CASE i <= Len(a)
    BY <1>2, <1>4, <1>5, <2>1
  <2>2. CASE ~ (i <= Len(a))
    <3>1. ~ (j <= Len(a)) /\ i - Len(a) < j - Len(a)
      BY <1>2, <2>2
    <3>2. f[i - Len(a)] < f[j - Len(a)]
      BY <1>1, <1>4, <2>2, <3>1
    <3> QED
      BY <1>2, <1>4, <1>5, <2>2, <3>1, <3>2
  <2> QED
    BY <2>1, <2>2
<1> QED
  BY <1>3, <1>7, <1>8, <1>9 DEF Within

\* A sequence and what follows it.
LEMMA Both ==
  ASSUME NEW s \in Seq(Message), NEW t \in Seq(Message)
  PROVE  /\ s \o t \in Seq(Message) /\ Len(s \o t) = Len(s) + Len(t)
         /\ Len(s) \in Nat /\ Len(t) \in Nat
         /\ DOMAIN s = 1 .. Len(s) /\ DOMAIN t = 1 .. Len(t)
         /\ DOMAIN (s \o t) = 1 .. Len(s) + Len(t)
         /\ \A i \in 1 .. Len(s) : i \in 1 .. Len(s) + Len(t) /\ (s \o t)[i] = s[i]
         /\ \A i \in 1 .. Len(t) :
              Len(s) + i \in 1 .. Len(s) + Len(t) /\ (s \o t)[Len(s) + i] = t[i]
         /\ \A i \in 1 .. Len(s) + Len(t) :
              ~ (i <= Len(s)) => i - Len(s) \in 1 .. Len(t) /\ (s \o t)[i] = t[i - Len(s)]
         /\ Numbers(s \o t) = Numbers(s) \cup Numbers(t)
         /\ \A i \in 1 .. Len(s) : s[i] \in Message
         /\ \A i \in 1 .. Len(t) : t[i] \in Message
<1>1. /\ Len(s) \in Nat /\ Len(t) \in Nat
      /\ DOMAIN s = 1 .. Len(s) /\ DOMAIN t = 1 .. Len(t)
      /\ \A i \in 1 .. Len(s) : s[i] \in Message
      /\ \A i \in 1 .. Len(t) : t[i] \in Message
  BY LenProperties, ElementOfSeq
<1>2. /\ s \o t \in Seq(Message) /\ Len(s \o t) = Len(s) + Len(t)
      /\ \A i \in 1 .. Len(s) + Len(t) :
           (s \o t)[i] = IF i <= Len(s) THEN s[i] ELSE t[i - Len(s)]
  BY ConcatProperties
<1>3. DOMAIN (s \o t) = 1 .. Len(s) + Len(t)
  BY <1>2, LenProperties
<1>4. \A i \in 1 .. Len(s) : i \in 1 .. Len(s) + Len(t) /\ (s \o t)[i] = s[i]
  BY <1>1, <1>2
<1>5. \A i \in 1 .. Len(t) : Len(s) + i \in 1 .. Len(s) + Len(t) /\ (s \o t)[Len(s) + i] = t[i]
  <2> TAKE i \in 1 .. Len(t)
  <2>1. Len(s) + i \in 1 .. Len(s) + Len(t) /\ ~ (Len(s) + i <= Len(s)) /\ (Len(s) + i) - Len(s) = i
    BY <1>1
  <2> QED
    BY <1>2, <2>1
<1>6. \A i \in 1 .. Len(s) + Len(t) :
        ~ (i <= Len(s)) => i - Len(s) \in 1 .. Len(t) /\ (s \o t)[i] = t[i - Len(s)]
  BY <1>1, <1>2
<1>7. Numbers(s \o t) \in SUBSET (Numbers(s) \cup Numbers(t))
  <2> SUFFICES ASSUME NEW i \in 1 .. Len(s) + Len(t)
               PROVE  (s \o t)[i].n \in Numbers(s) \cup Numbers(t)
    BY <1>3 DEF Numbers
  <2>1. CASE i <= Len(s)
    <3>1. i \in 1 .. Len(s)
      BY <1>1, <2>1
    <3> QED
      BY <1>1, <1>4, <3>1 DEF Numbers
  <2>2. CASE ~ (i <= Len(s))
    BY <1>1, <1>6, <2>2 DEF Numbers
  <2> QED
    BY <2>1, <2>2
<1>8. Numbers(s) \cup Numbers(t) \in SUBSET Numbers(s \o t)
  <2>1. ASSUME NEW i \in 1 .. Len(s) PROVE s[i].n \in Numbers(s \o t)
    BY <1>3, <1>4 DEF Numbers
  <2>2. ASSUME NEW i \in 1 .. Len(t) PROVE t[i].n \in Numbers(s \o t)
    <3>1. Len(s) + i \in DOMAIN (s \o t) /\ (s \o t)[Len(s) + i] = t[i]
      BY <1>3, <1>5
    <3> QED
      BY <3>1 DEF Numbers
  <2> QED
    BY <1>1, <2>1, <2>2 DEF Numbers
<1> QED
  BY <1>1, <1>2, <1>3, <1>4, <1>5, <1>6, <1>7, <1>8

\* Messages in front of h, b of them, are done with.
LEMMA FrontGone ==
  ASSUME NEW h \in Seq(Message), NEW o \in Seq(Message), NEW rest \in Seq(Message),
         NEW b \in 0 .. Len(h), Len(rest) = Len(h) - b,
         \A i \in 1 .. Len(rest) : rest[i] = h[b + i]
  PROVE  /\ Within(rest \o o, h \o o)
         /\ Rising(h \o o) =>
              /\ Numbers(rest \o o) = Numbers(h \o o) \ {h[i].n : i \in 1 .. b}
              /\ \A i \in 1 .. Len(rest \o o), j \in 1 .. b : h[j].n < (rest \o o)[i].n
<1>1. /\ h \o o \in Seq(Message) /\ Len(h \o o) = Len(h) + Len(o)
      /\ Len(h) \in Nat /\ Len(o) \in Nat
      /\ DOMAIN (h \o o) = 1 .. Len(h) + Len(o)
      /\ \A i \in 1 .. Len(h) : (h \o o)[i] = h[i] /\ h[i] \in Message
      /\ \A i \in 1 .. Len(o) : (h \o o)[Len(h) + i] = o[i]
  BY Both
<1>2. /\ Len(rest \o o) = Len(rest) + Len(o) /\ DOMAIN (rest \o o) = 1 .. Len(rest) + Len(o)
      /\ \A i \in 1 .. Len(rest) : (rest \o o)[i] = rest[i]
      /\ \A i \in 1 .. Len(rest) + Len(o) :
           ~ (i <= Len(rest)) => i - Len(rest) \in 1 .. Len(o) /\ (rest \o o)[i] = o[i - Len(rest)]
  BY Both
<1>3. b \in Nat /\ b <= Len(h) /\ Len(rest) + Len(o) + b = Len(h) + Len(o)
  BY <1>1
<1>4. ASSUME NEW i \in 1 .. Len(rest) + Len(o)
      PROVE  b + i \in 1 .. Len(h) + Len(o) /\ (rest \o o)[i] = (h \o o)[b + i]
  <2>1. b + i \in 1 .. Len(h) + Len(o)
    BY <1>1, <1>3
  <2>2. CASE i <= Len(rest)
    <3>1. i \in 1 .. Len(rest) /\ b + i \in 1 .. Len(h)
      BY <1>1, <1>3, <2>2
    <3> QED
      BY <1>1, <1>2, <2>1, <3>1
  <2>3. CASE ~ (i <= Len(rest))
    <3>1. i - Len(rest) \in 1 .. Len(o) /\ (rest \o o)[i] = o[i - Len(rest)]
      BY <1>2, <2>3
    <3>2. Len(h) + (i - Len(rest)) = b + i
      BY <1>1, <1>3
    <3> QED
      BY <1>1, <2>1, <3>1, <3>2
  <2> QED
    BY <2>2, <2>3
<1> DEFINE f == [i \in 1 .. Len(rest) + Len(o) |-> b + i]
<1>5. /\ f \in [1 .. Len(rest) + Len(o) -> 1 .. Len(h) + Len(o)]
      /\ \A i \in 1 .. Len(rest) + Len(o) : f[i] = b + i
  BY <1>4
<1>6. \A i, j \in 1 .. Len(rest) + Len(o) : i < j => f[i] < f[j]
  BY <1>3, <1>5
<1> HIDE DEF f
<1>7. \A i \in 1 .. Len(rest) + Len(o) : (rest \o o)[i] = (h \o o)[f[i]]
  BY <1>4, <1>5
<1>8. Within(rest \o o, h \o o)
  BY <1>1, <1>2, <1>5, <1>6, <1>7 DEF Within
<1>9. ASSUME Rising(h \o o)
      PROVE  /\ Numbers(rest \o o) = Numbers(h \o o) \ {h[i].n : i \in 1 .. b}
             /\ \A i \in 1 .. Len(rest \o o), j \in 1 .. b : h[j].n < (rest \o o)[i].n
  <2>1. \A j \in 1 .. b : j \in 1 .. Len(h) /\ j \in 1 .. Len(h) + Len(o) /\ (h \o o)[j] = h[j]
    <3> TAKE j \in 1 .. b
    <3>1. j \in 1 .. Len(h) /\ j \in 1 .. Len(h) + Len(o)
      BY <1>1, <1>3
    <3> QED
      BY <1>1, <3>1
  <2>2. ASSUME NEW i \in 1 .. Len(rest) + Len(o), NEW j \in 1 .. b
        PROVE  h[j].n < (rest \o o)[i].n
    <3>1. /\ b + i \in 1 .. Len(h) + Len(o) /\ (rest \o o)[i] = (h \o o)[b + i]
          /\ j \in 1 .. Len(h) + Len(o) /\ (h \o o)[j] = h[j] /\ j < b + i
      BY <1>3, <1>4, <2>1
    <3>2. (h \o o)[j].n < (h \o o)[b + i].n
      BY <1>1, <1>9, <3>1 DEF Rising
    <3> QED
      BY <3>1, <3>2
  <2>3. \A j \in 1 .. b : h[j].n \in Nat
    BY <1>1, <2>1 DEF Message
  <2>4. Numbers(rest \o o) \in SUBSET (Numbers(h \o o) \ {h[i].n : i \in 1 .. b})
    <3> SUFFICES ASSUME NEW i \in 1 .. Len(rest) + Len(o)
                 PROVE  (rest \o o)[i].n \in Numbers(h \o o) \ {h[j].n : j \in 1 .. b}
      BY <1>2 DEF Numbers
    <3>1. (rest \o o)[i].n \in Numbers(h \o o)
      BY <1>1, <1>4 DEF Numbers
    <3>2. \A j \in 1 .. b : h[j].n # (rest \o o)[i].n
      BY <2>2, <2>3
    <3> QED
      BY <3>1, <3>2
  <2>5. Numbers(h \o o) \ {h[i].n : i \in 1 .. b} \in SUBSET Numbers(rest \o o)
    <3>0. Numbers(h \o o) = {(h \o o)[i].n : i \in 1 .. Len(h) + Len(o)}
      BY <1>1 DEF Numbers
    <3> SUFFICES ASSUME NEW i \in 1 .. Len(h) + Len(o),
                        (h \o o)[i].n \notin {h[j].n : j \in 1 .. b}
                 PROVE  (h \o o)[i].n \in Numbers(rest \o o)
      BY <3>0
    <3>1. i \notin 1 .. b
      BY <2>1
    <3>2. i - b \in 1 .. Len(rest) + Len(o) /\ b + (i - b) = i
      BY <1>1, <1>3, <3>1
    <3>3. (rest \o o)[i - b] = (h \o o)[i]
      BY <1>4, <3>2
    <3> QED
      BY <1>2, <3>2, <3>3 DEF Numbers
  <2> QED
    BY <1>2, <2>2, <2>4, <2>5
<1> QED
  BY <1>8, <1>9

-----------------------------------------------------------------------------
(* The batch. *)

\* There is a batch in what Flush has taken, in front of the rest.
LEMMA BatchParts ==
  ASSUME hand \in Seq(Message), hand # <<>>
  PROVE  /\ Len(Batch) \in 1 .. Len(hand) /\ Len(hand) \in Nat
         /\ \A i \in 1 .. Len(Batch) : Batch[i] = hand[i]
         /\ DOMAIN Batch = 1 .. Len(Batch)
         /\ Rest \in Seq(Message) /\ Len(Rest) = Len(hand) - Len(Batch)
         /\ \A i \in 1 .. Len(Rest) : Rest[i] = hand[Len(Batch) + i]
         /\ To \in Addressees
<1> DEFINE same == {n \in DOMAIN hand : \A i \in 1 .. n : hand[i].to = hand[1].to}
           other == {n \in 1 .. Len(hand) + 1 : n \notin same}
           b == CHOOSE n \in same : n + 1 \notin same
<1>1. Len(hand) \in Nat \ {0} /\ DOMAIN hand = 1 .. Len(hand)
  BY LenProperties, EmptySeq
<1>2. \A i \in 1 .. Len(hand) : hand[i] \in Message
  BY ElementOfSeq
<1>3. 1 \in same /\ same \in SUBSET (1 .. Len(hand))
  BY <1>1
<1>4. Len(hand) + 1 \in other /\ other \in SUBSET Nat
  BY <1>1
<1>5. PICK n \in other : \A m \in other : n <= m
  <2> HIDE DEF other
  <2> QED
    BY <1>4, LeastOf
<1>6. n \in 1 .. Len(hand) + 1 /\ n \notin same /\ n # 1
  BY <1>3, <1>5
<1>7. n - 1 \in 1 .. Len(hand) /\ ~ (n <= n - 1) /\ (n - 1) + 1 = n
  BY <1>1, <1>6
<1>8. n - 1 \in same
  <2>1. n - 1 \notin other
    BY <1>5, <1>7
  <2>2. n - 1 \in 1 .. Len(hand) + 1
    BY <1>1, <1>7
  <2> QED
    BY <2>1, <2>2
<1>9. \E m \in same : m + 1 \notin same
  <2> HIDE DEF same
  <2> QED
    BY <1>6, <1>7, <1>8
<1>10. b \in same
  <2> HIDE DEF same
  <2> QED
    BY <1>9
<1>11. b \in 1 .. Len(hand) /\ Batch = SubSeq(hand, 1, b)
  BY <1>3, <1>10 DEF Batch
<1> HIDE DEF same, other, b
<1>12. /\ Batch \in Seq(Message) /\ Len(Batch) = b
       /\ \A i \in 1 .. b : Batch[i] = hand[i]
  <2>1. b \in Int /\ 1 <= b /\ \A i \in 1 .. b : hand[i] \in Message
    BY <1>1, <1>2, <1>11
  <2>2. /\ SubSeq(hand, 1, b) \in Seq(Message)
        /\ Len(SubSeq(hand, 1, b)) = IF 1 <= b THEN b - 1 + 1 ELSE 0
        /\ \A i \in 1 .. b - 1 + 1 : SubSeq(hand, 1, b)[i] = hand[1 + i - 1]
    BY <2>1, SubSeqProperties
  <2>3. b - 1 + 1 = b /\ \A i \in 1 .. b : 1 + i - 1 = i
    BY <2>1
  <2> QED
    BY <1>11, <2>1, <2>2, <2>3
<1>13. /\ Rest \in Seq(Message) /\ Len(Rest) = Len(hand) - b
       /\ \A i \in 1 .. Len(Rest) : Rest[i] = hand[b + i]
  <2> DEFINE m == b + 1
  <2>1. m \in Int /\ Len(hand) \in Int /\ \A i \in m .. Len(hand) : hand[i] \in Message
    BY <1>1, <1>2, <1>11
  <2>2. Rest = SubSeq(hand, m, Len(hand))
    BY <1>12 DEF Rest
  <2>3. m = b + 1 /\ b \in 1 .. Len(hand)
    BY <1>11
  <2> HIDE DEF m
  <2>4. /\ Rest \in Seq(Message)
        /\ Len(Rest) = IF m <= Len(hand) THEN Len(hand) - m + 1 ELSE 0
        /\ \A i \in 1 .. Len(hand) - m + 1 : Rest[i] = hand[m + i - 1]
    BY <2>1, <2>2, SubSeqProperties
  <2>5. Len(hand) - m + 1 = Len(hand) - b /\ (~ (m <= Len(hand)) => Len(hand) - b = 0)
    <3>1. Len(hand) \in Nat /\ b \in Nat /\ b <= Len(hand)
      BY <1>1, <1>11
    <3> QED
      BY <2>3, <3>1
  <2>6. Len(Rest) = Len(hand) - b
    BY <2>4, <2>5
  <2>7. \A i \in 1 .. Len(hand) - b : m + i - 1 = b + i
    BY <1>1, <2>3
  <2> QED
    BY <2>4, <2>5, <2>6, <2>7
<1>14. To \in Addressees
  BY <1>1, <1>2 DEF To, Message
<1> QED
  BY <1>1, <1>11, <1>12, <1>13, <1>14, LenProperties

-----------------------------------------------------------------------------
(* What is owed. *)

BoxType ==
  /\ outbox \in Seq(Message) /\ hand \in Seq(Message)
  /\ Len(outbox) <= MaxOutbox /\ Len(hand) <= MaxOutbox
  /\ arrived \in [Addressees -> Nat] /\ queued \in Nat

\* With what has arrived never ahead of what was queued, it is inductive.
OutboxInv ==
  /\ Accounted /\ Rising(ToSend) /\ Due(ToSend, arrived, queued)
  /\ \A a \in Addressees : arrived[a] <= queued

\* It says what OutboxKept promises.
LEMMA OutboxInvKeeps ==
  ASSUME BoxType, OutboxInv
  PROVE  OutboxKept
<1>1. /\ ToSend \in Seq(Message) /\ Len(ToSend) \in Nat /\ DOMAIN ToSend = 1 .. Len(ToSend)
      /\ ToSend = hand \o outbox
  BY LenProperties, ConcatProperties DEF BoxType, ToSend
<1>2. \A i \in 1 .. Len(ToSend) : \A j \in 1 .. i - 1 : j \in 1 .. Len(ToSend) /\ j < i
  BY <1>1
<1>3. \A i \in 1 .. Len(ToSend) : ~ToSend[i].again => arrived[ToSend[i].to] < ToSend[i].n
  BY DEF OutboxInv, Due
<1>4. \A i \in 1 .. Len(ToSend) : \A j \in 1 .. i - 1 : ToSend[j].n < ToSend[i].n
  BY <1>2 DEF OutboxInv, Rising
<1> QED
  BY <1>1, <1>3, <1>4 DEF OutboxKept, Ordered, OutboxInv

\* Session.queue gives the next numbers, sheds what does not fit, and
\* leaves what is in Flush's hand where it is.
LEMMA QueueStep ==
  ASSUME BoxType, OutboxInv, NEW msgs \in Seq(Message),
         \A i \in 1 .. Len(msgs) : ~msgs[i].again,
         Queue(msgs)
  PROVE  BoxType' /\ OutboxInv'
<1> DEFINE new == [i \in 1 .. Len(msgs) |-> [msgs[i] EXCEPT !.n = queued + i]]
           all == outbox \o new
           staying == Trim(all)
<1>1. /\ Len(msgs) \in Nat /\ DOMAIN msgs = 1 .. Len(msgs) /\ queued \in Nat
      /\ \A i \in 1 .. Len(msgs) : msgs[i] \in Message
  BY LenProperties, ElementOfSeq DEF BoxType
<1>2. /\ outbox' = staying /\ queued' = queued + Len(msgs)
      /\ hand' = hand /\ arrived' = arrived
      /\ open' = (open \cup Numbers(new)) \ ((Numbers(outbox) \cup Numbers(new)) \ Numbers(outbox'))
  BY <1>1 DEF Queue
<1>3. \A i \in 1 .. Len(msgs) : /\ new[i] \in Message /\ new[i].n = queued + i
                               /\ new[i].again = FALSE /\ new[i].to \in Addressees
  <2> TAKE i \in 1 .. Len(msgs)
  <2>1. new[i] = [msgs[i] EXCEPT !.n = queued + i] /\ msgs[i] \in Message /\ queued + i \in Nat
    BY <1>1
  <2>2. ~msgs[i].again /\ msgs[i].again \in BOOLEAN /\ msgs[i].to \in Addressees
    BY <2>1 DEF Message
  <2> QED
    BY <2>1, <2>2 DEF Message
<1>4. new \in Seq(Message) /\ Len(new) = Len(msgs)
  BY <1>1, <1>3
<1> HIDE DEF new
<1>5. /\ all \in Seq(Message) /\ Len(all) = Len(outbox) + Len(new)
      /\ Numbers(all) = Numbers(outbox) \cup Numbers(new)
  BY <1>4, Both DEF BoxType
<1> HIDE DEF all
<1>6. staying \in Seq(Message) /\ Len(staying) \in 0 .. MaxOutbox /\ Within(staying, all)
  BY <1>5, TrimWithin
<1> HIDE DEF staying
<1>7. BoxType'
  BY <1>1, <1>2, <1>6, UplinkAssumption DEF BoxType
<1> DEFINE before == hand \o outbox
           whole == hand \o all
<1>8. /\ before \in Seq(Message) /\ Len(before) \in Nat
      /\ Rising(before) /\ Due(before, arrived, queued)
      /\ \A i \in 1 .. Len(before) : before[i] \in Message
  BY ConcatProperties, LenProperties, ElementOfSeq DEF BoxType, OutboxInv, ToSend
<1>9. whole = before \o new
  <2>1. (hand \o outbox) \o new = hand \o (outbox \o new)
    BY <1>4, ConcatAssociative DEF BoxType
  <2> QED
    BY <2>1 DEF all
<1> HIDE DEF before
<1>10. /\ whole \in Seq(Message) /\ Len(whole) = Len(before) + Len(new)
       /\ \A i \in 1 .. Len(before) : whole[i] = before[i]
       /\ \A i \in 1 .. Len(before) + Len(new) :
            ~ (i <= Len(before)) =>
              i - Len(before) \in 1 .. Len(new) /\ whole[i] = new[i - Len(before)]
  <2> HIDE DEF whole
  <2> QED
    BY <1>4, <1>8, <1>9, Both
<1>11. Rising(whole)
  <2> SUFFICES ASSUME NEW i \in 1 .. Len(whole), NEW j \in 1 .. Len(whole), i < j
               PROVE  whole[i].n < whole[j].n
    BY DEF Rising
  <2>1. CASE j <= Len(before)
    <3>1. i \in 1 .. Len(before) /\ j \in 1 .. Len(before)
      BY <1>1, <1>4, <1>8, <1>10, <2>1
    <3> QED
      BY <1>8, <1>10, <3>1 DEF Rising
  <2>2. CASE ~ (j <= Len(before)) /\ i <= Len(before)
    <3>1. i \in 1 .. Len(before) /\ j - Len(before) \in 1 .. Len(msgs)
      BY <1>1, <1>4, <1>8, <1>10, <2>2
    <3>2. whole[j] = new[j - Len(before)] /\ whole[i] = before[i]
      BY <1>10, <2>2, <3>1
    <3>3. whole[j].n = queued + (j - Len(before))
      BY <1>3, <3>1, <3>2
    <3>4. whole[i].n \in Nat /\ whole[i].n <= queued
      BY <1>8, <3>1, <3>2 DEF Due, Message
    <3>5. j - Len(before) \in Nat \ {0} /\ queued \in Nat
      BY <1>1, <1>4, <3>1
    <3> QED
      BY <3>3, <3>4, <3>5
  <2>3. CASE ~ (i <= Len(before))
    <3>1. ~ (j <= Len(before)) /\ i - Len(before) < j - Len(before)
      BY <1>8, <2>3
    <3>2. /\ i - Len(before) \in 1 .. Len(msgs) /\ whole[i] = new[i - Len(before)]
          /\ j - Len(before) \in 1 .. Len(msgs) /\ whole[j] = new[j - Len(before)]
      BY <1>4, <1>10, <2>3, <3>1
    <3>3. whole[i].n = queued + (i - Len(before)) /\ whole[j].n = queued + (j - Len(before))
      BY <1>3, <3>2
    <3> QED
      BY <1>1, <3>1, <3>2, <3>3
  <2> QED
    BY <2>1, <2>2, <2>3
<1>12. Due(whole, arrived, queued')
  <2> SUFFICES ASSUME NEW i \in 1 .. Len(whole)
               PROVE  /\ whole[i].n <= queued'
                      /\ ~whole[i].again => arrived[whole[i].to] < whole[i].n
    BY DEF Due
  <2>1. CASE i <= Len(before)
    <3>1. i \in 1 .. Len(before) /\ whole[i] = before[i]
      BY <1>8, <1>10, <2>1
    <3>2. whole[i].n \in Nat /\ whole[i].n <= queued
      BY <1>8, <3>1 DEF Due, Message
    <3>3. ~whole[i].again => arrived[whole[i].to] < whole[i].n
      BY <1>8, <3>1 DEF Due
    <3> QED
      BY <1>1, <1>2, <3>2, <3>3
  <2>2. CASE ~ (i <= Len(before))
    <3>1. i - Len(before) \in 1 .. Len(msgs) /\ whole[i] = new[i - Len(before)]
      BY <1>4, <1>10, <2>2
    <3>2. whole[i].n = queued + (i - Len(before)) /\ whole[i].to \in Addressees
      BY <1>3, <3>1
    <3>3. arrived[whole[i].to] \in Nat /\ arrived[whole[i].to] <= queued
      BY <3>2 DEF BoxType, OutboxInv
    <3> QED
      BY <1>1, <1>2, <3>1, <3>2, <3>3
  <2> QED
    BY <2>1, <2>2
<1>13. Within(hand \o staying, whole) /\ hand \o staying \in Seq(Message)
  BY <1>5, <1>6, WithinBehind, ConcatProperties DEF BoxType
<1>14. Rising(hand \o staying) /\ Due(hand \o staying, arrived, queued')
  <2> HIDE DEF whole
  <2> QED
    BY <1>10, <1>11, <1>12, <1>13, WithinKeeps
<1>15. \A a \in Addressees : arrived'[a] <= queued'
  <2>1. \A a \in Addressees : arrived[a] \in Nat /\ arrived[a] <= queued
    BY DEF BoxType, OutboxInv
  <2> QED
    BY <1>1, <1>2, <2>1
<1>16. \A m \in Numbers(hand) : m \notin Numbers(all)
  <2>1. /\ Len(hand) \in Nat /\ Len(all) \in Nat /\ Len(whole) = Len(hand) + Len(all)
        /\ DOMAIN hand = 1 .. Len(hand) /\ DOMAIN all = 1 .. Len(all)
        /\ \A i \in 1 .. Len(hand) : i \in 1 .. Len(hand) + Len(all) /\ whole[i] = hand[i]
        /\ \A i \in 1 .. Len(all) :
             Len(hand) + i \in 1 .. Len(hand) + Len(all) /\ whole[Len(hand) + i] = all[i]
        /\ \A i \in 1 .. Len(hand) : hand[i] \in Message
    BY <1>5, Both DEF BoxType
  <2> SUFFICES ASSUME NEW i \in 1 .. Len(hand), NEW j \in 1 .. Len(all)
               PROVE  hand[i].n # all[j].n
    BY <2>1 DEF Numbers
  <2>2. i < Len(hand) + j
    BY <2>1
  <2>3. whole[i].n < whole[Len(hand) + j].n
    BY <1>11, <2>1, <2>2 DEF Rising
  <2>4. hand[i].n \in Nat
    BY <2>1 DEF Message
  <2> QED
    BY <2>1, <2>3, <2>4
<1>17. Numbers(staying) \in SUBSET Numbers(all)
  BY <1>5, <1>6, WithinKeeps
<1>18. open = Numbers(hand) \cup Numbers(outbox)
  BY DEF OutboxInv, Accounted
<1>19. open' = Numbers(outbox') \cup Numbers(hand')
  BY <1>2, <1>5, <1>16, <1>17, <1>18
<1>20. ToSend' = hand \o staying
  BY <1>2 DEF ToSend
<1> QED
  BY <1>2, <1>7, <1>14, <1>15, <1>19, <1>20 DEF OutboxInv, Accounted

\* Flush takes all there is.
LEMMA TakeStep ==
  ASSUME BoxType, OutboxInv, hand = <<>>, hand' = outbox, outbox' = <<>>,
         UNCHANGED <<open, arrived, queued>>
  PROVE  BoxType' /\ OutboxInv'
<1>1. hand \o outbox = outbox /\ hand' \o outbox' = outbox /\ <<>> \in Seq(Message)
  BY ConcatEmptySeq, EmptySeq DEF BoxType
<1>2. BoxType'
  BY <1>1, EmptySeq, UplinkAssumption DEF BoxType
<1>3. ToSend' = ToSend
  BY <1>1 DEF ToSend
<1> QED
  BY <1>2, <1>3 DEF OutboxInv, Accounted

\* What has arrived once m has: never less than before.
Reached(got, a, m) == [got EXCEPT ![a] = IF @ < m THEN m ELSE @]

\* Messages in front are done with: they have arrived, or are given up.
LEMMA GoneStep ==
  ASSUME BoxType, OutboxInv, NEW b \in 0 .. Len(hand),
         hand' \in Seq(Message), Len(hand') = Len(hand) - b,
         \A i \in 1 .. Len(hand') : hand'[i] = hand[b + i],
         open' = open \ {hand[i].n : i \in 1 .. b},
         UNCHANGED <<outbox, queued>>,
         NEW a \in Addressees,
         \/ arrived' = arrived
         \/ b > 0 /\ arrived' = Reached(arrived, a, hand[b].n)
  PROVE  BoxType' /\ OutboxInv'
<1> DEFINE front == {hand[i].n : i \in 1 .. b}
           now == hand' \o outbox
<1>1. /\ ToSend \in Seq(Message) /\ Len(ToSend) \in Nat
      /\ Len(hand) \in Nat /\ Len(hand') \in Nat /\ Len(outbox) \in Nat
      /\ Numbers(ToSend) = Numbers(hand) \cup Numbers(outbox)
      /\ \A i \in 1 .. Len(hand) : i \in 1 .. Len(ToSend) /\ ToSend[i] = hand[i]
      /\ \A i \in 1 .. Len(hand) : hand[i] \in Message
  BY Both DEF BoxType, ToSend
<1>2. /\ now \in Seq(Message) /\ Numbers(now) = Numbers(hand') \cup Numbers(outbox)
      /\ \A i \in 1 .. Len(now) : now[i] \in Message
  <2>1. now \in Seq(Message) /\ Numbers(now) = Numbers(hand') \cup Numbers(outbox)
    BY Both DEF BoxType
  <2> HIDE DEF now
  <2> QED
    BY <2>1, ElementOfSeq
<1>3. /\ Within(now, ToSend) /\ Numbers(now) = Numbers(ToSend) \ front
      /\ \A i \in 1 .. Len(now), j \in 1 .. b : hand[j].n < now[i].n
  <2>1. /\ Within(hand' \o outbox, hand \o outbox)
        /\ Rising(hand \o outbox) =>
             /\ Numbers(hand' \o outbox) = Numbers(hand \o outbox) \ {hand[i].n : i \in 1 .. b}
             /\ \A i \in 1 .. Len(hand' \o outbox), j \in 1 .. b :
                  hand[j].n < (hand' \o outbox)[i].n
    <3>1. hand \in Seq(Message) /\ outbox \in Seq(Message)
      BY DEF BoxType
    <3> QED
      BY <3>1, FrontGone
  <2> QED
    BY <2>1 DEF OutboxInv, ToSend
<1> HIDE DEF front, now
<1>4. /\ Rising(now) /\ Due(now, arrived, queued)
  BY <1>1, <1>2, <1>3, WithinKeeps DEF OutboxInv
<1>5. /\ arrived' \in [Addressees -> Nat]
      /\ \A c \in Addressees : arrived'[c] <= queued
      /\ \A i \in 1 .. Len(now) : ~now[i].again => arrived'[now[i].to] < now[i].n
  <2>1. CASE arrived' = arrived
    BY <1>4, <2>1 DEF BoxType, OutboxInv, Due
  <2>2. CASE b > 0 /\ arrived' = Reached(arrived, a, hand[b].n)
    <3>1. b \in 1 .. Len(hand) /\ b \in 1 .. b
      BY <1>1, <2>2
    <3>2. hand[b].n \in Nat /\ hand[b].n <= queued
      <4>1. hand[b] = ToSend[b] /\ b \in 1 .. Len(ToSend) /\ hand[b] \in Message
        BY <1>1, <3>1
      <4> QED
        BY <4>1 DEF OutboxInv, Due, Message
    <3>3. /\ arrived' \in [Addressees -> Nat]
          /\ \A c \in Addressees :
               arrived'[c] = IF c = a /\ arrived[c] < hand[b].n THEN hand[b].n ELSE arrived[c]
      BY <2>2, <3>2 DEF Reached, BoxType
    <3>4. \A c \in Addressees : arrived'[c] <= queued
      BY <3>2, <3>3 DEF OutboxInv
    <3>5. ASSUME NEW i \in 1 .. Len(now), ~now[i].again
          PROVE  arrived'[now[i].to] < now[i].n
      <4>1. now[i].to \in Addressees
        BY <1>2 DEF Message
      <4>2. arrived[now[i].to] < now[i].n
        BY <1>4, <3>5 DEF Due
      <4>3. hand[b].n < now[i].n
        BY <1>3, <3>1
      <4> QED
        BY <3>3, <4>1, <4>2, <4>3
    <3> QED
      BY <3>3, <3>4, <3>5
  <2> QED
    BY <2>1, <2>2
<1>6. Due(now, arrived', queued)
  BY <1>4, <1>5 DEF Due
<1>7. ToSend' = now
  BY DEF ToSend, now
<1>8. open' = Numbers(hand') \cup Numbers(outbox)
  <2>1. open = Numbers(ToSend)
    BY <1>1 DEF OutboxInv, Accounted
  <2> QED
    BY <1>2, <1>3, <2>1 DEF front
<1>9. BoxType'
  <2>1. Len(hand') <= MaxOutbox
    <3>1. Len(hand) <= MaxOutbox /\ MaxOutbox \in Nat /\ b \in Nat
      BY <1>1, UplinkAssumption DEF BoxType
    <3> QED
      BY <1>1, <3>1
  <2> QED
    BY <1>5, <2>1 DEF BoxType
<1> QED
  BY <1>4, <1>5, <1>6, <1>7, <1>8, <1>9 DEF OutboxInv, Accounted

\* What could not be sent is put back, with what may have arrived of it marked.
LEMMA PutBackStep ==
  ASSUME BoxType, OutboxInv, NEW q \in Seq(Message), Len(q) = Len(hand),
         \A i \in 1 .. Len(hand) : q[i].n = hand[i].n /\ q[i].telemetry = hand[i].telemetry,
         arrived' \in [Addressees -> Nat], \A c \in Addressees : arrived'[c] <= queued,
         Due(q \o outbox, arrived', queued),
         outbox' = Trim(q \o outbox), hand' = <<>>, queued' = queued,
         open' = open \ ((Numbers(hand) \cup Numbers(outbox)) \ Numbers(Trim(hand \o outbox)))
  PROVE  BoxType' /\ OutboxInv'
<1> DEFINE marked == q \o outbox
           staying == Trim(marked)
<1>1. /\ ToSend \in Seq(Message) /\ Len(ToSend) = Len(hand) + Len(outbox)
      /\ Len(hand) \in Nat /\ Len(outbox) \in Nat
      /\ Numbers(ToSend) = Numbers(hand) \cup Numbers(outbox)
      /\ \A i \in 1 .. Len(hand) : ToSend[i] = hand[i]
      /\ \A i \in 1 .. Len(hand) + Len(outbox) :
           ~ (i <= Len(hand)) =>
             /\ i - Len(hand) \in 1 .. Len(outbox)
             /\ ToSend[i] = outbox[i - Len(hand)]
  BY Both DEF BoxType, ToSend
<1>2. /\ marked \in Seq(Message) /\ Len(marked) = Len(hand) + Len(outbox)
      /\ \A i \in 1 .. Len(hand) : marked[i] = q[i]
      /\ \A i \in 1 .. Len(hand) + Len(outbox) :
           ~ (i <= Len(hand)) => marked[i] = outbox[i - Len(hand)]
  <2>1. /\ marked \in Seq(Message) /\ Len(marked) = Len(q) + Len(outbox)
        /\ \A i \in 1 .. Len(q) : marked[i] = q[i]
        /\ \A i \in 1 .. Len(q) + Len(outbox) :
             ~ (i <= Len(q)) => marked[i] = outbox[i - Len(q)]
    BY Both DEF BoxType
  <2> QED
    BY <2>1
<1>3. \A i \in 1 .. Len(ToSend) :
        marked[i].n = ToSend[i].n /\ marked[i].telemetry = ToSend[i].telemetry
  <2> HIDE DEF marked
  <2> TAKE i \in 1 .. Len(ToSend)
  <2>1. CASE i <= Len(hand)
    <3>1. i \in 1 .. Len(hand)
      BY <1>1, <2>1
    <3> QED
      BY <1>1, <1>2, <3>1
  <2>2. CASE ~ (i <= Len(hand))
    BY <1>1, <1>2, <2>2
  <2> QED
    BY <2>1, <2>2
<1>4. Due(marked, arrived', queued)
  OBVIOUS
<1>5. outbox' = staying /\ open' = open \ (Numbers(ToSend) \ Numbers(Trim(ToSend)))
  BY <1>1 DEF ToSend
<1> HIDE DEF marked
<1>6. Rising(marked)
  BY <1>1, <1>2, <1>3 DEF OutboxInv, Rising
<1>7. staying \in Seq(Message) /\ Len(staying) \in 0 .. MaxOutbox /\ Within(staying, marked)
  BY <1>2, TrimWithin
<1>8. Numbers(staying) = Numbers(Trim(ToSend))
  BY <1>1, <1>2, <1>3, TrimSame
<1>9. Numbers(Trim(ToSend)) \in SUBSET Numbers(ToSend)
  BY <1>1, TrimWithin, WithinKeeps
<1> HIDE DEF staying
<1>10. Rising(staying) /\ Due(staying, arrived', queued)
  BY <1>2, <1>4, <1>6, <1>7, WithinKeeps
<1>11. ToSend' = staying
  BY <1>5, <1>7, ConcatEmptySeq DEF ToSend
<1>12. open = Numbers(ToSend)
  BY <1>1 DEF OutboxInv, Accounted
<1>13. Numbers(hand') = {}
  BY DEF Numbers
<1>14. open' = Numbers(outbox') \cup Numbers(hand')
  BY <1>5, <1>8, <1>9, <1>12, <1>13
<1>15. BoxType'
  BY <1>5, <1>7, EmptySeq, UplinkAssumption DEF BoxType
<1> QED
  BY <1>10, <1>11, <1>14, <1>15 DEF OutboxInv, Accounted

\* A set of places has a last one.
LEMMA GreatestOf ==
  ASSUME NEW n \in Nat, NEW S \in SUBSET (1 .. n), S # {}
  PROVE  \E i \in S : \A j \in S : j <= i
<1> DEFINE above == {m \in 1 .. n : \A j \in S : j <= m}
<1>1. n \in above
  <2>1. PICK i \in S : TRUE
    OBVIOUS
  <2>2. i \in 1 .. n /\ n \in 1 .. n /\ \A j \in S : j <= n
    BY <2>1
  <2> QED
    BY <2>2
<1>2. above \in SUBSET Nat /\ above # {}
  BY <1>1
<1>3. PICK m \in above : \A k \in above : m <= k
  <2> HIDE DEF above
  <2> QED
    BY <1>2, LeastOf
<1>4. m \in 1 .. n /\ \A j \in S : j <= m
  BY <1>3
<1>5. \A j \in S : j \in 1 .. n
  OBVIOUS
<1>6. CASE m \in S
  BY <1>4, <1>6
<1>7. CASE m \notin S
  <2>1. \A j \in S : j <= m - 1
    BY <1>4, <1>5, <1>7
  <2>2. m - 1 \in 1 .. n
    <3>1. PICK i \in S : TRUE
      OBVIOUS
    <3>2. i \in 1 .. n /\ i <= m - 1
      BY <1>5, <2>1, <3>1
    <3> QED
      BY <1>4, <3>2
  <2>3. m - 1 \in above
    BY <2>1, <2>2
  <2>4. m <= m - 1
    BY <1>3, <2>3
  <2> QED
    BY <1>4, <2>4
<1> QED
  BY <1>6, <1>7

-----------------------------------------------------------------------------
(* The steps. *)

ClientType ==
  /\ client \in {"hello", "source", "post", "attach", "stream", "wait"}
  /\ stream \in {"none", "up", "silent"} /\ (stream # "none" <=> client = "stream")
  /\ svc \in [known : BOOLEAN, online : BOOLEAN, device : Nat, source : [Parts -> Nat],
              bound : Sessions \cup {None}]
  /\ desc \in Nat /\ read \in [Parts -> Nat] /\ announce \in [{"client", "runtime"} -> Nat]
  /\ attached \in Sessions \cup {None}
  /\ flusher \in {"run", "final", "done"}

\* The parts of TypeOK.
LEMMA TypeParts == TypeOK <=> ChoiceTypeOK /\ BoxType /\ ClientType
BY DEF TypeOK, BoxType, ClientType

\* A plain message for one addressee.
LEMMA PlainTyped ==
  ASSUME NEW to \in Addressees
  PROVE  Plain(to) \in Message /\ Plain(to).again = FALSE
BY DEF Plain, Message

\* One message, or two, as they are queued.
LEMMA Queued ==
  ASSUME NEW a \in Message, NEW b \in Message, ~a.again, ~b.again
  PROVE  /\ <<a>> \in Seq(Message) /\ \A i \in 1 .. Len(<<a>>) : ~(<<a>>)[i].again
         /\ <<a, b>> \in Seq(Message) /\ \A i \in 1 .. Len(<<a, b>>) : ~(<<a, b>>)[i].again
<1>1. <<a>> \in Seq(Message) /\ <<a, b>> \in Seq(Message)
  OBVIOUS
<1>2. \A i \in 1 .. Len(<<a>>) : (<<a>>)[i] = a
  OBVIOUS
<1>3. \A i \in 1 .. Len(<<a, b>>) : (<<a, b>>)[i] = a \/ (<<a, b>>)[i] = b
  OBVIOUS
<1> QED
  BY <1>1, <1>2, <1>3

\* One message is queued.
LEMMA QueueOne ==
  ASSUME BoxType, OutboxInv, NEW a \in Message, ~a.again, Queue(<<a>>)
  PROVE  BoxType' /\ OutboxInv'
<1>1. PICK msgs \in Seq(Message) : msgs = <<a>> /\ \A i \in 1 .. Len(msgs) : ~msgs[i].again
  BY Queued
<1> QED
  BY <1>1, QueueStep

\* A message of the runtime or of the client's goroutine, with the session's if there is one.
LEMMA AnnounceStep ==
  ASSUME BoxType, ClientType, OutboxInv, NEW p \in {"client", "runtime"}, Announce(p)
  PROVE  BoxType' /\ OutboxInv'
<1>1. PICK device \in Message : device = [Plain(NoSession) EXCEPT !.device = announce[p]] /\ ~device.again
  <2>1. NoSession \in Addressees /\ announce[p] \in Nat
    BY DEF ClientType, Addressees
  <2>2. [Plain(NoSession) EXCEPT !.device = announce[p]] \in Message
    BY <2>1 DEF Plain, Message
  <2>3. ~[Plain(NoSession) EXCEPT !.device = announce[p]].again
    BY DEF Plain
  <2> QED
    BY <2>2, <2>3
<1>2. CASE attached = None
  <2>1. Queue(<<device>>)
    BY <1>1, <1>2 DEF Announce
  <2> QED
    BY <1>1, <2>1, QueueOne
<1>3. CASE attached # None
  <2>1. PICK state \in Message : state = Plain(attached) /\ ~state.again
    <3>1. attached \in Addressees
      BY <1>3 DEF ClientType, Addressees
    <3> QED
      BY <3>1, PlainTyped
  <2>2. PICK msgs \in Seq(Message) :
          msgs = <<device, state>> /\ \A i \in 1 .. Len(msgs) : ~msgs[i].again
    BY <1>1, <2>1, Queued
  <2>3. Queue(msgs)
    BY <1>1, <1>3, <2>1, <2>2 DEF Announce
  <2> QED
    BY <2>2, <2>3, QueueStep
<1> QED
  BY <1>2, <1>3

\* The session is told something: its state, its end, an ack, telemetry.
LEMMA SayStep ==
  ASSUME BoxType, ClientType, OutboxInv, attached # None, NEW telemetry \in BOOLEAN,
    NEW bad \in BOOLEAN,
         Queue(<<[Plain(attached) EXCEPT !.telemetry = telemetry, !.bad = bad]>>)
  PROVE  BoxType' /\ OutboxInv'
<1>1. attached \in Addressees
  BY DEF ClientType, Addressees
<1>2. PICK a \in Message :
        a = [Plain(attached) EXCEPT !.telemetry = telemetry, !.bad = bad] /\ ~a.again
  <2>1. [Plain(attached) EXCEPT !.telemetry = telemetry, !.bad = bad] \in Message
    BY <1>1 DEF Plain, Message
  <2>2. ~[Plain(attached) EXCEPT !.telemetry = telemetry, !.bad = bad].again
    BY DEF Plain
  <2> QED
    BY <2>1, <2>2
<1> QED
  BY <1>2, QueueOne

\* The same, of a plain message.
LEMMA TellStep ==
  ASSUME BoxType, OutboxInv, NEW to \in Addressees, Queue(<<Plain(to)>>)
  PROVE  BoxType' /\ OutboxInv'
BY PlainTyped, QueueOne

\* The batch is done with: it has arrived, was refused, or its session is gone.
LEMMA BatchGone ==
  ASSUME BoxType, OutboxInv, hand # <<>>,
         hand' = Rest, open' = open \ Numbers(Batch), UNCHANGED <<outbox, queued>>,
         arrived' = arrived \/ arrived' = Reached(arrived, To, Batch[Len(Batch)].n)
  PROVE  BoxType' /\ OutboxInv'
<1>1. /\ Len(Batch) \in 1 .. Len(hand) /\ Len(hand) \in Nat
      /\ \A i \in 1 .. Len(Batch) : Batch[i] = hand[i]
      /\ DOMAIN Batch = 1 .. Len(Batch)
      /\ Rest \in Seq(Message) /\ Len(Rest) = Len(hand) - Len(Batch)
      /\ \A i \in 1 .. Len(Rest) : Rest[i] = hand[Len(Batch) + i]
      /\ To \in Addressees
  BY BatchParts DEF BoxType
<1>2. PICK b \in 1 .. Len(hand) : b = Len(Batch)
  BY <1>1
<1>3. PICK a \in Addressees : a = To
  BY <1>1
<1>4. Numbers(Batch) = {hand[i].n : i \in 1 .. b}
  BY <1>1, <1>2 DEF Numbers
<1>5. Batch[Len(Batch)] = hand[b] /\ b \in 0 .. Len(hand) /\ b > 0
  BY <1>1, <1>2
<1>6. /\ hand' \in Seq(Message) /\ Len(hand') = Len(hand) - b
      /\ \A i \in 1 .. Len(hand') : hand'[i] = hand[b + i]
  BY <1>1, <1>2
<1>7. \/ arrived' = arrived
      \/ b > 0 /\ arrived' = Reached(arrived, a, hand[b].n)
  BY <1>3, <1>5
<1>8. open' = open \ {hand[i].n : i \in 1 .. b}
  BY <1>4
<1> QED
  BY <1>5, <1>6, <1>7, <1>8, GoneStep

\* The request or its answer is lost.
LEMMA FailStep ==
  ASSUME BoxType, OutboxInv, SendFails
  PROVE  BoxType' /\ OutboxInv'
<1>1. /\ Len(Batch) \in 1 .. Len(hand) /\ Len(hand) \in Nat
      /\ \A i \in 1 .. Len(Batch) : Batch[i] = hand[i]
      /\ To \in Addressees
  BY BatchParts DEF BoxType, SendFails
<1>2. /\ hand' = <<>> /\ queued' = queued
      /\ open' = open \ ((Numbers(hand) \cup Numbers(outbox)) \ Numbers(Trim(hand \o outbox)))
  BY DEF SendFails
<1>3. /\ DOMAIN hand = 1 .. Len(hand) /\ \A i \in 1 .. Len(hand) : hand[i] \in Message
      /\ ToSend = hand \o outbox /\ Len(outbox) \in Nat
      /\ Len(ToSend) = Len(hand) + Len(outbox)
      /\ \A i \in 1 .. Len(hand) : i \in 1 .. Len(ToSend) /\ ToSend[i] = hand[i]
      /\ \A i \in 1 .. Len(hand) + Len(outbox) :
           ~ (i <= Len(hand)) =>
             /\ i - Len(hand) \in 1 .. Len(outbox)
             /\ ToSend[i] = outbox[i - Len(hand)]
      /\ \A i \in 1 .. Len(outbox) : outbox[i] \in Message
  BY Both DEF BoxType, ToSend
<1>4. CASE UNCHANGED <<svc, arrived>> /\ PutBack(hand)
  <2>1. /\ arrived' \in [Addressees -> Nat] /\ \A c \in Addressees : arrived'[c] <= queued
        /\ Due(hand \o outbox, arrived', queued)
    BY <1>4 DEF BoxType, OutboxInv, ToSend
  <2>2. outbox' = Trim(hand \o outbox) /\ hand \in Seq(Message)
    BY <1>4 DEF PutBack, BoxType
  <2> QED
    BY <1>2, <2>1, <2>2, PutBackStep
<1>5. CASE Accepts /\ Arrive /\ PutBack(Marked)
  <2>1. PICK b \in 1 .. Len(hand) : b = Len(Batch)
    BY <1>1
  <2>2. PICK a \in Addressees : a = To
    BY <1>1
  <2>3. PICK q : q = Marked
    OBVIOUS
  <2>4. q = [i \in 1 .. Len(hand) |-> [hand[i] EXCEPT !.again = hand[i].again \/ i <= b]]
    BY <1>3, <2>1, <2>3 DEF Marked
  <2>5. ASSUME NEW i \in 1 .. Len(hand)
        PROVE  /\ q[i] \in Message /\ q[i].n = hand[i].n /\ q[i].to = hand[i].to
               /\ q[i].telemetry = hand[i].telemetry
               /\ q[i].again = (hand[i].again \/ i <= b)
    <3>1. q[i] = [hand[i] EXCEPT !.again = hand[i].again \/ i <= b] /\ hand[i] \in Message
      BY <1>3, <2>4
    <3>2. (hand[i].again \/ i <= b) \in BOOLEAN
      BY <3>1 DEF Message
    <3> QED
      BY <3>1, <3>2 DEF Message
  <2>6. q \in Seq(Message) /\ Len(q) = Len(hand)
    BY <1>1, <2>4, <2>5
  <2>7. hand[b].n \in Nat /\ hand[b].n <= queued /\ Batch[Len(Batch)] = hand[b]
    <3>1. hand[b] \in Message /\ b \in 1 .. Len(ToSend) /\ ToSend[b] = hand[b]
      BY <1>3
    <3>2. Batch[Len(Batch)] = hand[b]
      BY <1>1, <2>1
    <3> QED
      BY <3>1, <3>2 DEF OutboxInv, Due, Message
  <2>8. arrived' = Reached(arrived, a, hand[b].n)
    BY <1>5, <2>2, <2>7 DEF Arrive, Reached
  <2>9. /\ arrived' \in [Addressees -> Nat]
        /\ \A c \in Addressees :
             arrived'[c] = IF c = a /\ arrived[c] < hand[b].n THEN hand[b].n ELSE arrived[c]
        /\ \A c \in Addressees : arrived[c] \in Nat
    BY <2>7, <2>8 DEF Reached, BoxType
  <2>10. \A c \in Addressees : arrived'[c] <= queued
    BY <2>7, <2>9 DEF OutboxInv
  <2> DEFINE all == q \o outbox
  <2>11. /\ Len(all) = Len(hand) + Len(outbox)
         /\ \A i \in 1 .. Len(hand) : all[i] = q[i]
         /\ \A i \in 1 .. Len(hand) + Len(outbox) :
              ~ (i <= Len(hand)) => all[i] = outbox[i - Len(hand)]
    <3>1. /\ Len(all) = Len(q) + Len(outbox)
          /\ \A i \in 1 .. Len(q) : all[i] = q[i]
          /\ \A i \in 1 .. Len(q) + Len(outbox) :
               ~ (i <= Len(q)) => all[i] = outbox[i - Len(q)]
      BY <2>6, Both DEF BoxType
    <3> QED
      BY <2>6, <3>1
  <2> HIDE DEF all
  <2>12. ASSUME NEW i \in 1 .. Len(all)
         PROVE  /\ all[i].n = ToSend[i].n /\ all[i].to = ToSend[i].to /\ ToSend[i] \in Message
                /\ ~all[i].again => ~ToSend[i].again /\ ~ (i <= b)
    <3>1. CASE i <= Len(hand)
      <4>1. i \in 1 .. Len(hand)
        BY <1>1, <2>11, <3>1
      <4>2. all[i] = q[i] /\ ToSend[i] = hand[i]
        BY <1>3, <2>11, <4>1
      <4>3. hand[i].again \in BOOLEAN /\ hand[i] \in Message
        BY <1>3, <4>1 DEF Message
      <4> QED
        BY <2>5, <4>1, <4>2, <4>3
    <3>2. CASE ~ (i <= Len(hand))
      <4>1. /\ all[i] = ToSend[i] /\ i - Len(hand) \in 1 .. Len(outbox)
            /\ ToSend[i] = outbox[i - Len(hand)]
        BY <1>3, <2>11, <3>2
      <4>2. ~ (i <= b)
        BY <1>1, <2>11, <3>2
      <4> QED
        BY <1>3, <4>1, <4>2
    <3> QED
      BY <3>1, <3>2
  <2>13. Due(all, arrived', queued)
    <3> SUFFICES ASSUME NEW i \in 1 .. Len(all)
                 PROVE  /\ all[i].n <= queued
                        /\ ~all[i].again => arrived'[all[i].to] < all[i].n
      BY DEF Due
    <3>1. i \in 1 .. Len(ToSend)
      BY <1>3, <2>11
    <3>2. /\ ToSend[i].n <= queued /\ ToSend[i].to \in Addressees /\ ToSend[i].n \in Nat
          /\ ~ToSend[i].again => arrived[ToSend[i].to] < ToSend[i].n
      BY <2>12, <3>1 DEF OutboxInv, Due, Message
    <3>3. ~ (i <= b) => hand[b].n < ToSend[i].n
      <4>1. b \in 1 .. Len(ToSend) /\ ToSend[b] = hand[b]
        BY <1>3
      <4>2. ~ (i <= b) => b < i
        BY <1>1, <2>11
      <4> QED
        BY <3>1, <4>1, <4>2 DEF OutboxInv, Rising
    <3> QED
      BY <2>9, <2>12, <3>2, <3>3
  <2>14. outbox' = Trim(q \o outbox) /\ Due(q \o outbox, arrived', queued)
    BY <1>5, <2>3, <2>13 DEF PutBack, all
  <2>15. \A i \in 1 .. Len(hand) : q[i].n = hand[i].n /\ q[i].telemetry = hand[i].telemetry
    BY <2>5
  <2> QED
    BY <1>2, <2>6, <2>9, <2>10, <2>14, <2>15, PutBackStep
<1> QED
  BY <1>4, <1>5 DEF SendFails

\* Nothing of the outbox changes.
LEMMA BoxStays ==
  ASSUME BoxType, OutboxInv, UNCHANGED box
  PROVE  BoxType' /\ OutboxInv'
BY DEF box, BoxType, OutboxInv, Accounted, ToSend

\* The steps of the flusher.
LEMMA FlushStep ==
  ASSUME BoxType, ClientType, OutboxInv, Flush
  PROVE  BoxType' /\ OutboxInv'
<1>1. CASE FlushTakes
  BY <1>1, TakeStep DEF FlushTakes
<1>2. CASE SendOK
  <2>1. arrived' = Reached(arrived, To, Batch[Len(Batch)].n)
    BY <1>2 DEF SendOK, Arrive, Reached
  <2>2. /\ hand # <<>> /\ hand' = Rest /\ open' = open \ Numbers(Batch)
        /\ UNCHANGED <<outbox, queued>>
    BY <1>2 DEF SendOK
  <2> QED
    BY <2>1, <2>2, BatchGone
<1>3. CASE SendRefused
  <2>1. /\ hand # <<>> /\ hand' = Rest /\ open' = open \ Numbers(Batch)
        /\ UNCHANGED <<outbox, queued, arrived>>
    BY <1>3 DEF SendRefused
  <2> QED
    BY <2>1, BatchGone
<1>4. CASE SendGone
  <2>1. /\ hand # <<>> /\ hand' = Rest /\ open' = open \ Numbers(Batch)
        /\ UNCHANGED <<outbox, queued, arrived>>
    BY <1>4 DEF SendGone
  <2> QED
    BY <2>1, BatchGone
<1>5. CASE SendCut
  <2>1. /\ hand' = <<>> /\ open' = open \ Numbers(hand)
        /\ UNCHANGED <<outbox, queued, arrived>>
    BY <1>5 DEF SendCut
  <2>2. Len(hand) \in Nat /\ DOMAIN hand = 1 .. Len(hand)
    BY LenProperties DEF BoxType
  <2>3. PICK b \in 0 .. Len(hand) : b = Len(hand)
    <3>1. Len(hand) \in 0 .. Len(hand)
      BY <2>2
    <3> QED
      BY <3>1
  <2>4. PICK a \in Addressees : TRUE
    BY DEF Addressees
  <2>5. /\ hand' \in Seq(Message) /\ Len(hand') = Len(hand) - b
        /\ \A i \in 1 .. Len(hand') : hand'[i] = hand[b + i]
    BY <2>1, <2>2, <2>3, EmptySeq
  <2>6. open' = open \ {hand[i].n : i \in 1 .. b}
    BY <2>1, <2>2, <2>3 DEF Numbers
  <2> QED
    BY <2>1, <2>5, <2>6, GoneStep
<1>6. CASE SessionStops
  <2>1. CASE attached = None
    BY <1>6, <2>1, BoxStays DEF SessionStops, box
  <2>2. CASE attached # None
    <3>1. PICK to \in Addressees : to = attached
      BY <2>2 DEF ClientType, Addressees
    <3> QED
      BY <1>6, <2>2, <3>1, TellStep DEF SessionStops
  <2> QED
    BY <2>1, <2>2
<1>7. CASE LastFlush
  <2>1. CASE outbox = <<>>
    BY <1>7, <2>1, BoxStays DEF LastFlush, box
  <2>2. CASE outbox # <<>>
    BY <1>7, <2>2, TakeStep DEF LastFlush
  <2> QED
    BY <2>1, <2>2
<1> QED
  BY <1>1, <1>2, <1>3, <1>4, <1>5, <1>6, <1>7 DEF Flush, Send

\* Every other step of the link.
LEMMA LinkStep ==
  ASSUME BoxType, ClientType, OutboxInv, LinkNext
  PROVE  BoxType' /\ OutboxInv'
<1>1. CASE Client
  BY <1>1, BoxStays DEF Client, Hello, CurrentSource, PostSource, Attach, IdleTimer, Retry
<1>2. CASE DeviceChanges
  BY <1>2, BoxStays DEF DeviceChanges
<1>3. CASE Detach
  <2>1. PICK to \in Addressees : to = attached
    BY <1>3 DEF Detach, ClientType, Addressees
  <2> QED
    BY <1>3, <2>1, TellStep DEF Detach
<1>4. CASE Stop \/ ServiceDetach \/ StreamEnds \/ ServiceForgets
  BY <1>4, BoxStays DEF Stop, ServiceDetach, StreamEnds, ServiceForgets
<1>5. ASSUME NEW telemetry \in BOOLEAN, NEW bad \in BOOLEAN, Say(telemetry, bad)
      PROVE  BoxType' /\ OutboxInv'
  BY <1>5, SayStep DEF Say
<1>6. ASSUME NEW s \in Sessions, ServiceAttach(s)
      PROVE  BoxType' /\ OutboxInv'
  <2>1. s \in Addressees
    BY DEF Addressees
  <2> QED
    BY <1>6, <2>1, TellStep DEF ServiceAttach
<1> QED
  BY <1>1, <1>2, <1>3, <1>4, <1>5, <1>6, FlushStep, FailStep, AnnounceStep DEF LinkNext

\* The outbox through every step.
LEMMA OutboxStep ==
  ASSUME BoxType, ClientType, OutboxInv, [Next]_vars
  PROVE  BoxType' /\ OutboxInv'
<1>1. CASE UNCHANGED vars
  BY <1>1, BoxStays DEF vars, linkVars
<1>2. CASE LinkNext
  BY <1>2, LinkStep
<1>3. CASE Choose(ChoiceStep)
  BY <1>3, BoxStays DEF Choose, linkVars, ReportChoice
<1> QED
  BY <1>1, <1>2, <1>3 DEF Next

\* What the service knows.
Known == [known : BOOLEAN, online : BOOLEAN, device : Nat, source : [Parts -> Nat],
          bound : Sessions \cup {None}]

\* What it may come to know.
LEMMA KnownTyped ==
  ASSUME NEW s \in Known
  PROVE  /\ \A b \in BOOLEAN : [s EXCEPT !.known = b] \in Known /\ [s EXCEPT !.online = b] \in Known
         /\ \A d \in Nat : [s EXCEPT !.device = d] \in Known
         /\ \A c \in [Parts -> Nat] : [s EXCEPT !.source = c] \in Known
         /\ \A b \in Sessions \cup {None} : [s EXCEPT !.bound = b] \in Known
         /\ Forgotten \in Known
<1>1. Forgotten \in Known
  BY DEF Forgotten, Known, AsBefore
<1> QED
  BY <1>1 DEF Known

\* A batch tells it of a device, or of none.
LEMMA ArriveTyped ==
  ASSUME BoxType, ClientType, hand # <<>>, Arrive
  PROVE  svc' \in Known
<1> DEFINE devices == {i \in DOMAIN Batch : Batch[i].device # 0}
<1>1. /\ Len(Batch) \in 1 .. Len(hand) /\ Len(hand) \in Nat /\ DOMAIN Batch = 1 .. Len(Batch)
      /\ \A i \in 1 .. Len(Batch) : Batch[i] = hand[i]
  BY BatchParts DEF BoxType
<1>2. \A i \in 1 .. Len(hand) : hand[i] \in Message
  BY ElementOfSeq DEF BoxType
<1>3. svc \in Known
  BY DEF ClientType, Known
<1>4. CASE devices = {}
  BY <1>3, <1>4 DEF Arrive
<1>5. CASE devices # {}
  <2> DEFINE d == CHOOSE i \in devices : \A j \in devices : j <= i
  <2>1. \E i \in devices : \A j \in devices : j <= i
    <3>1. Len(Batch) \in Nat /\ devices \in SUBSET (1 .. Len(Batch))
      BY <1>1
    <3> HIDE DEF devices
    <3> QED
      BY <1>5, <3>1, GreatestOf
  <2>2. d \in devices
    <3> HIDE DEF devices
    <3> QED
      BY <2>1
  <2>3. Batch[d].device \in Nat
    <3>1. d \in 1 .. Len(Batch) /\ d \in 1 .. Len(hand)
      BY <1>1, <2>2
    <3> QED
      BY <1>1, <1>2, <3>1 DEF Message
  <2>4. svc' = [svc EXCEPT !.device = Batch[d].device]
    BY <1>5 DEF Arrive
  <2> HIDE DEF d
  <2> QED
    BY <1>3, <2>3, <2>4, KnownTyped
<1> QED
  BY <1>4, <1>5

\* The client, the stream and what is announced.
LEMMA ClientTypeStep ==
  ASSUME ChoiceTypeOK, BoxType, ClientType, [Next]_vars
  PROVE  ClientType'
<1>1. svc \in Known /\ offer \in [Parts -> Nat]
  BY DEF ClientType, Known, ChoiceTypeOK
<1>2. CASE UNCHANGED vars
  BY <1>2 DEF vars, linkVars, dispatcher, link, ClientType
<1>3. ASSUME NEW src \in [Parts -> Nat], Reported(src) \/ NotReported PROVE svc' \in Known
  BY <1>1, <1>3, KnownTyped DEF Reported, NotReported
<1>4. CASE Client
  <2>1. CASE Hello
    <3>1. svc' \in Known
      BY <1>1, <2>1, KnownTyped DEF Hello
    <3> QED
      BY <2>1, <3>1 DEF Hello, link, ClientType, Known
  <2>2. CASE CurrentSource
    BY <1>1, <2>2 DEF CurrentSource, link, ClientType
  <2>3. CASE PostSource
    <3>1. svc' \in Known
      BY <1>3, <2>3 DEF PostSource, ClientType
    <3> QED
      BY <2>3, <3>1 DEF PostSource, link, ClientType, Known
  <2>4. CASE Attach
    <3>1. svc' \in Known
      BY <1>1, <2>4, KnownTyped DEF Attach
    <3>2. announce' \in [{"client", "runtime"} -> Nat]
      BY <2>4 DEF Attach, OnOnline, ClientType
    <3> QED
      BY <2>4, <3>1, <3>2 DEF Attach, ClientType, Known
  <2>5. CASE IdleTimer
    BY <2>5 DEF IdleTimer, link, ClientType
  <2>6. CASE Retry
    BY <2>6 DEF Retry, link, ClientType
  <2> QED
    BY <1>4, <2>1, <2>2, <2>3, <2>4, <2>5, <2>6 DEF Client
<1>5. CASE Flush
  <2>1. CASE FlushTakes
    BY <2>1 DEF FlushTakes, dispatcher, link, ClientType
  <2>2. CASE SendOK
    <3>1. svc' \in Known
      BY <2>2, ArriveTyped DEF SendOK
    <3> QED
      BY <2>2, <3>1 DEF SendOK, dispatcher, link, ClientType, Known
  <2>3. CASE SendRefused
    BY <2>3 DEF SendRefused, dispatcher, link, ClientType
  <2>4. CASE SendGone
    BY <2>4 DEF SendGone, dispatcher, ClientType
  <2>5. CASE SendCut
    BY <2>5 DEF SendCut, dispatcher, link, ClientType
  <2>6. CASE SessionStops
    BY <2>6 DEF SessionStops, dispatcher, link, ClientType
  <2>7. CASE LastFlush
    BY <2>7 DEF LastFlush, dispatcher, link, ClientType
  <2> QED
    BY <1>5, <2>1, <2>2, <2>3, <2>4, <2>5, <2>6, <2>7 DEF Flush, Send
<1>6. CASE SendFails
  <2>1. svc' \in Known
    BY <1>1, <1>6, ArriveTyped DEF SendFails
  <2> QED
    BY <1>6, <2>1 DEF SendFails, dispatcher, link, ClientType, Known
<1>7. CASE DeviceChanges
  <2>1. desc' \in Nat /\ announce' \in [{"client", "runtime"} -> Nat]
    BY <1>7 DEF DeviceChanges, ClientType
  <2> QED
    BY <1>7, <2>1 DEF DeviceChanges, dispatcher, ClientType
<1>8. CASE Detach
  BY <1>8 DEF Detach, dispatcher, ClientType
<1>9. CASE Stop
  BY <1>9 DEF Stop, dispatcher, link, ClientType
<1>10. ASSUME NEW p \in {"client", "runtime"}, Announce(p) PROVE ClientType'
  BY <1>10 DEF Announce, dispatcher, ClientType
<1>11. ASSUME NEW telemetry \in BOOLEAN, NEW bad \in BOOLEAN, Say(telemetry, bad) PROVE ClientType'
  BY <1>11 DEF Say, dispatcher, link, ClientType
<1>12. ASSUME NEW s \in Sessions, ServiceAttach(s) PROVE ClientType'
  <2>1. svc' \in Known
    BY <1>1, <1>12, KnownTyped DEF ServiceAttach
  <2> QED
    BY <1>12, <2>1 DEF ServiceAttach, dispatcher, ClientType, Known
<1>13. CASE ServiceDetach
  <2>1. svc' \in Known
    BY <1>1, <1>13, KnownTyped DEF ServiceDetach
  <2> QED
    BY <1>13, <2>1 DEF ServiceDetach, dispatcher, ClientType, Known
<1>14. CASE StreamEnds
  <2>1. svc' \in Known
    BY <1>1, <1>14, KnownTyped DEF StreamEnds
  <2> QED
    BY <1>14, <2>1 DEF StreamEnds, link, ClientType, Known
<1>15. CASE ServiceForgets
  <2>1. svc' \in Known
    BY <1>1, <1>15, KnownTyped DEF ServiceForgets
  <2> QED
    BY <1>15, <2>1 DEF ServiceForgets, dispatcher, link, ClientType, Known
<1>16. CASE Choose(ChoiceStep)
  <2>1. CASE UNCHANGED linkVars
    BY <2>1 DEF linkVars, dispatcher, link, ClientType
  <2>2. CASE ReportChoice
    <3>1. svc' \in Known
      BY <1>1, <1>3, <2>2 DEF ReportChoice
    <3> QED
      BY <2>2, <3>1 DEF ReportChoice, dispatcher, link, ClientType, Known
  <2> QED
    BY <1>16, <2>1, <2>2 DEF Choose
<1> QED
  BY <1>2, <1>4, <1>5, <1>6, <1>7, <1>8, <1>9, <1>10, <1>11, <1>12, <1>13, <1>14, <1>15, <1>16
  DEF Next, LinkNext

UplinkInv == TypeOK /\ OutboxInv

\* It holds at the start.
LEMMA UplinkStart ==
  ASSUME Init
  PROVE  UplinkInv
<1>1. ChoiceTypeOK
  BY DEF Init, ChoiceInit, AsBefore, ChoiceTypeOK, Parts
<1>2. /\ hand = <<>> /\ outbox = <<>> /\ open = {} /\ queued = 0
      /\ arrived = [a \in Addressees |-> 0] /\ Len(<<>>) = 0 /\ <<>> \in Seq(Message)
  BY EmptySeq DEF Init
<1>3. BoxType
  BY <1>2, UplinkAssumption DEF BoxType
<1>4. ToSend = <<>>
  BY <1>2, ConcatEmptySeq DEF ToSend
<1>5. Rising(<<>>) /\ Due(<<>>, arrived, queued) /\ Numbers(<<>>) = {}
  BY <1>2 DEF Rising, Due, Numbers
<1>6. OutboxInv
  BY <1>2, <1>4, <1>5 DEF OutboxInv, Accounted
<1>7. svc \in Known
  BY KnownTyped DEF Init, Forgotten, Known, AsBefore
<1>8. ClientType
  BY <1>7 DEF Init, AsBefore, ClientType, Known
<1> QED
  BY <1>1, <1>3, <1>6, <1>8, TypeParts DEF UplinkInv

\* The choices are made in Uplink's steps as they are by themselves.
LEMMA ChoicesIn ==
  /\ Init => ChoiceInit
  /\ [Next]_vars => [ChoiceStep \/ Save]_choiceVars
BY DEF Init, Next, Choose, vars

\* Uplink implements the specification of the choices: reporting them adds
\* nothing to them (apply.go).
THEOREM ChoicesImplemented == Spec => ChoiceSpec
BY ChoicesIn, PTL DEF Spec, ChoiceSpec

\* Once a choice has gone through, source.json and the configuration name the cameras served,
\* although an earlier choice may have failed half-way, or be waiting for a camera that is on
\* (apply.go, rememberedConfig).
THEOREM FileNamesCamerasHolds == Spec => []FileNamesCameras
<1>1. ChoiceInv => FileNamesCameras
  BY DEF ChoiceInv
<1> QED
  BY <1>1, ChoicesImplemented, ChoicesInvariant, PTL

\* No offer is replaced while a session reads its camera, although "busy" is asked long
\* before (apply.go, setOffer and setFace).
LEMMA OfferStep ==
  ASSUME ChoiceTypeOK, ChoiceStep \/ Save, NEW v \in Views, on[v]
  PROVE  offer'[v] = offer[v]
<1>1. ASSUME NEW w \in Views, SetOffer(w) PROVE offer'[v] = offer[v]
  <2>1. w # v /\ offer' = [offer EXCEPT ![w] = apply.cfg[w]]
    BY <1>1 DEF SetOffer
  <2> QED
    BY <2>1, ChoiceTypes DEF Configs, Parts
<1>2. ASSUME NEW p \in Parts, PartFails(p) PROVE offer'[v] = offer[v]
  <2>1. v # "share"
    BY DEF Views
  <2>2. offer' \in {offer, [offer EXCEPT !.share = 0]}
    BY <1>2 DEF PartFails
  <2> QED
    BY <2>1, <2>2, ChoiceTypes DEF Configs, Parts
<1>3. CASE SetShared
  <2>1. v # "share" /\ offer' = [offer EXCEPT !.share = apply.cfg.share]
    BY <1>3 DEF SetShared, Views
  <2> QED
    BY <2>1, ChoiceTypes DEF Configs, Parts
<1>4. ASSUME offer' = offer PROVE offer'[v] = offer[v]
  BY <1>4
<1>5. \A c \in Asks : Ask(c) => offer' = offer
  BY DEF Ask, inForce
<1>6. ApplyPending => offer' = offer
  BY DEF ApplyPending, inForce
<1>7. \A w \in Views : OfferBusy(w) \/ CameraOn(w) => offer' = offer
  BY DEF OfferBusy, CameraOn, inForce
<1>8. \A views \in SUBSET Views : CameraOff(views) => offer' = offer
  BY DEF CameraOff, inForce
<1>9. Save => offer' = offer
  BY DEF Save
<1> QED
  BY <1>1, <1>2, <1>3, <1>4, <1>5, <1>6, <1>7, <1>8, <1>9 DEF ChoiceStep, Apply

\* While a camera is on, what is offered of it stays: a choice waits, or finds it busy at the
\* last moment ("an offer cannot be replaced while a session reads it", source.go).
THEOREM OffersHeld == Spec => OfferHeld
<1>1. ChoiceInv /\ [ChoiceStep \/ Save]_choiceVars
        => [\A v \in Views : on[v] => offer'[v] = offer[v]]_choiceVars
  BY OfferStep DEF ChoiceInv
<1>2. ChoiceSpec => OfferHeld
  BY <1>1, ChoicesInvariant, PTL DEF ChoiceSpec, OfferHeld
<1> QED
  BY <1>2, ChoicesImplemented, PTL

\* Every variable of the client, the outbox and the choices is of its type, the outbox
\* and Flush's hand within MaxOutbox, and what is owed is in the outbox or in the hand
\* (rendezvous.go, session.go).
THEOREM UplinkInvariant == Spec => []UplinkInv
<1>1. Init => UplinkInv
  BY UplinkStart
<1>2. UplinkInv /\ [Next]_vars => UplinkInv'
  <2> SUFFICES ASSUME UplinkInv, [Next]_vars
               PROVE  UplinkInv'
    OBVIOUS
  <2>1. ChoiceTypeOK /\ BoxType /\ ClientType /\ OutboxInv
    BY TypeParts DEF UplinkInv
  <2>2. ChoiceTypeOK'
    BY <2>1, ChoicesIn, ChoiceTypeStep
  <2>3. BoxType' /\ OutboxInv'
    BY <2>1, OutboxStep
  <2>4. ClientType'
    BY <2>1, ClientTypeStep
  <2> QED
    BY <2>2, <2>3, <2>4 DEF UplinkInv, TypeOK, BoxType, ClientType
<1> QED
  BY <1>1, <1>2, PTL DEF Spec

\* Whatever fails, is refused, is shed or is put back, every message the outbox owes
\* is in it or in Flush's hand, and goes to its addressee in the order it was queued
\* in (session.go, Flush, queue and trimLocked).
THEOREM OutboxKeptHolds == Spec => []OutboxKept
<1>1. UplinkInv => OutboxKept
  BY OutboxInvKeeps, TypeParts DEF UplinkInv
<1> QED
  BY <1>1, UplinkInvariant, PTL
=============================================================================

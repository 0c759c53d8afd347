---------------------------- MODULE TrustProofs ----------------------------
(***************************************************************************)
(* Who is trusted: the enclave of a tunnel, for any policies, floors,      *)
(* machines and records; the network camera, for any certificates, Sources *)
(* and runs; the connector at the gateway, for any connectors, targets and *)
(* connections; the release that replaces the program, for any files or a  *)
(* bundle; each for any bounds.                                            *)
(*                                                                         *)
(* A dial carries what it has checked with it (Checked): each of its steps *)
(* relies on those before, although the policy, the records kept and the   *)
(* machine at the origin may all have changed since.  That the checks are  *)
(* enough is Apply's promise, TightenedIsStricter.  For the camera, the    *)
(* store, each Source's pin and each run's certificate are tied to the     *)
(* certificate trusted first (Pinning).                                    *)
(*                                                                         *)
(* At the gateway a connection keeps the key of the expectation it dialed  *)
(* with (Dialed), and the session the gateway holds has not been given     *)
(* back (Held), which is what stops a later dial from taking its place     *)
(* while Server.attached still names it.                                   *)
(*                                                                         *)
(* What cannot be put in place, or would not start, leaves the program     *)
(* that tried it, as long as what is aside is there and goes back          *)
(* (Recoverable); and what has failed rests.                               *)
(***************************************************************************)
EXTENDS Trust, NetCamera, Gateway, Updater, SequenceTheorems, TLAPS

-----------------------------------------------------------------------------
(* Policies. *)

\* A served list that is cut to the floor's is no wider than either, when the
\* two are not at odds.
LEMMA CutIsWithin ==
  ASSUME NEW served, NEW floor, NEW x,
         served # {} /\ floor # {} => Kept(served, floor) # {},
         Cut(served, floor) # {} => x \cap Cut(served, floor) # {}
  PROVE  /\ served # {} => x \cap served # {}
         /\ floor # {} => x \cap floor # {}
<1>1. CASE floor = {}
  BY <1>1 DEF Cut
<1>2. CASE floor # {} /\ served = {}
  BY <1>2 DEF Cut
<1>3. CASE floor # {} /\ served # {}
  BY <1>3 DEF Cut, Kept
<1> QED
  BY <1>1, <1>2, <1>3

\* Apply's promise: what meets a served policy as the floors tighten it meets that
\* policy as it was served, and the floors, whose debug images are never allowed.
LEMMA TightenedIsStricter ==
  ASSUME NEW p \in PolicyType, NEW e \in EnclaveType,
         ~Contradicts(Floors, p), Meets(Tightened(Floors, p), e)
  PROVE  Meets(p, e) /\ Meets([Floors EXCEPT !.debug = FALSE], e)
<1> DEFINE t == Tightened(Floors, p)
           f == [Floors EXCEPT !.debug = FALSE]
<1>1. Floors \in PolicyType
  BY TrustAssumption
<1>2. /\ t.signers = Cut(p.signers, Floors.signers) /\ t.hosts = Cut(p.hosts, Floors.hosts)
      /\ t.min = (IF p.min < Floors.min THEN Floors.min ELSE p.min)
      /\ t.debug = FALSE /\ t.stable = (p.stable \/ Floors.stable)
      /\ t.project = Filled(p.project, Floors.project)
      /\ t.digests = p.digests /\ t.issuer = p.issuer
  BY <1>1 DEF Tightened, PolicyType
<1>3. /\ f.signers = Floors.signers /\ f.hosts = Floors.hosts /\ f.min = Floors.min
      /\ f.debug = FALSE /\ f.stable = Floors.stable /\ f.project = Floors.project
      /\ f.digests = {} /\ f.issuer = Floors.issuer
  BY <1>1, NoDigestFloor DEF PolicyType
<1> HIDE DEF t, f
<1>4. Meets(t, e)
  BY DEF t
<1>5. (p.hosts # {} => Host \in p.hosts) /\ (Floors.hosts # {} => Host \in Floors.hosts)
  <2>1. p.hosts # {} /\ Floors.hosts # {} => Kept(p.hosts, Floors.hosts) # {}
    BY DEF Contradicts
  <2>2. Cut(p.hosts, Floors.hosts) # {} => {Host} \cap Cut(p.hosts, Floors.hosts) # {}
    BY <1>2, <1>4 DEF Meets
  <2>3. /\ p.hosts # {} => {Host} \cap p.hosts # {}
        /\ Floors.hosts # {} => {Host} \cap Floors.hosts # {}
    BY <2>1, <2>2, CutIsWithin
  <2> QED
    BY <2>3
<1>6. /\ p.signers # {} => e.signers \cap p.signers # {}
      /\ Floors.signers # {} => e.signers \cap Floors.signers # {}
  <2>1. p.signers # {} /\ Floors.signers # {} => Kept(p.signers, Floors.signers) # {}
    BY DEF Contradicts
  <2>2. Cut(p.signers, Floors.signers) # {} => e.signers \cap Cut(p.signers, Floors.signers) # {}
    BY <1>2, <1>4 DEF Meets
  <2> QED
    BY <2>1, <2>2, CutIsWithin
<1>7. (p.min # 0 => e.release >= p.min) /\ (Floors.min # 0 => e.release >= Floors.min)
  <2>1. p.min \in Nat /\ Floors.min \in Nat /\ e.release \in Nat
    BY <1>1 DEF PolicyType, EnclaveType, Releases
  <2>2. t.min # 0 => e.release >= t.min
    BY <1>4 DEF Meets
  <2> QED
    BY <1>2, <2>1, <2>2
<1>8. (p.project # Absent => e.project = p.project) /\ (Floors.project # Absent => e.project = Floors.project)
  BY <1>2, <1>4 DEF Meets, Filled, Contradicts, Same
<1>9. e.issuer = p.issuer /\ e.issuer = Floors.issuer
  BY <1>2, <1>4 DEF Meets, Token, Contradicts
<1>10. ~e.debug /\ (p.stable => e.stable) /\ (Floors.stable => e.stable)
  BY <1>2, <1>4, <1>1 DEF Meets, PolicyType, EnclaveType
<1>11. p.digests # {} => e.digest \in p.digests
  BY <1>2, <1>4 DEF Meets
<1>12. Meets(p, e)
  BY <1>5, <1>6, <1>7, <1>8, <1>9, <1>10, <1>11 DEF Meets, Token
<1>13. Meets(f, e)
  BY <1>3, <1>5, <1>6, <1>7, <1>8, <1>9, <1>10 DEF Meets, Token
<1> QED
  BY <1>12, <1>13 DEF f

\* What is fetched and not at odds with the floors names their source.
LEMMA SourceIsFloors ==
  ASSUME NEW p \in PolicyType, ~Contradicts(Floors, p), Floors.source # Absent
  PROVE  Tightened(Floors, p).source = Floors.source
  BY DEF Tightened, Filled, Contradicts, Same, PolicyType

-----------------------------------------------------------------------------
(* The tunnel's enclave. *)

Dialing ==
  [pc : {"idle", "attest", "records", "connect", "up"}, policy : Policies \cup {Absent},
   seen : Enclaves \cup {Absent}, with : Enclaves \cup {Absent}]

\* What policyAttester and the dials hold, by type.
TrustType ==
  /\ policy \in Policies \cup {Absent} /\ old \in BOOLEAN
  /\ known \subseteq ExpectType
  /\ dial \in [Dials -> Dialing]

\* A policy in force was good for the floors when it was fetched, and is the one a
\* dial was given then.
InForce ==
  /\ policy # Absent => policy \in Policies /\ Fetched(policy)
  /\ \A d \in Dials : dial[d].pc # "idle" => dial[d].policy \in Policies /\ Fetched(dial[d].policy)

\* A result that is kept was found in the registry.
KeptIsProved == \A x \in known : Proved(x)

\* What a dial has behind it at each of its steps.
Checked ==
  \A d \in Dials :
    /\ dial[d].pc \in {"records", "connect", "up"} =>
         dial[d].seen \in Enclaves /\ Meets(Under(d), dial[d].seen)
    /\ dial[d].pc \in {"connect", "up"} =>
         dial[d].seen.release # 0 /\ Proved(About(Under(d), dial[d].seen))
    /\ dial[d].pc = "up" => dial[d].with = dial[d].seen

TrustInv == TrustType /\ InForce /\ KeptIsProved /\ Checked

\* The program starts with nothing fetched, kept or dialed.
LEMMA TrustInitInvariant == TrustInit => TrustInv
<1> SUFFICES ASSUME TrustInit PROVE TrustInv
  OBVIOUS
<1>1. NoDial \in Dialing /\ NoDial.pc = "idle"
  BY DEF NoDial, Dialing
<1>2. dial \in [Dials -> Dialing] /\ \A d \in Dials : dial[d].pc = "idle"
  BY <1>1 DEF TrustInit
<1> QED
  BY <1>2 DEF TrustInit, TrustInv, TrustType, InForce, KeptIsProved, Checked

\* A step of one dial leaves what the others have checked.
LEMMA OtherDials ==
  ASSUME TrustType, InForce, Checked, NEW d \in Dials, NEW x \in Dialing,
         dial' = [dial EXCEPT ![d] = x],
         x.pc # "idle" => x.policy \in Policies /\ Fetched(x.policy),
         x.pc \in {"records", "connect", "up"} =>
           x.seen \in Enclaves /\ Meets(Tightened(Floors, x.policy), x.seen),
         x.pc \in {"connect", "up"} =>
           x.seen.release # 0 /\ Proved(About(Tightened(Floors, x.policy), x.seen)),
         x.pc = "up" => x.with = x.seen
  PROVE  /\ dial' \in [Dials -> Dialing] /\ Checked'
         /\ \A c \in Dials : dial'[c].pc # "idle" =>
              dial'[c].policy \in Policies /\ Fetched(dial'[c].policy)
<1>1. dial' \in [Dials -> Dialing] /\ dial'[d] = x
  BY DEF TrustType
<1>2. \A c \in Dials : c # d => dial'[c] = dial[c]
  BY DEF TrustType
<1>3. ASSUME NEW c \in Dials
      PROVE  /\ dial'[c].pc # "idle" => dial'[c].policy \in Policies /\ Fetched(dial'[c].policy)
             /\ dial'[c].pc \in {"records", "connect", "up"} =>
                  dial'[c].seen \in Enclaves /\ Meets(Tightened(Floors, dial'[c].policy), dial'[c].seen)
             /\ dial'[c].pc \in {"connect", "up"} =>
                  /\ dial'[c].seen.release # 0
                  /\ Proved(About(Tightened(Floors, dial'[c].policy), dial'[c].seen))
             /\ dial'[c].pc = "up" => dial'[c].with = dial'[c].seen
  <2>1. CASE c = d
    BY <1>1, <2>1
  <2>2. CASE c # d
    BY <1>2, <2>2 DEF InForce, Checked, Under
  <2> QED
    BY <2>1, <2>2
<1> QED
  BY <1>1, <1>3 DEF Checked, Under

\* The policy is taken for five minutes, by a dial that begins.
LEMMA TakePolicyStep ==
  ASSUME TrustInv, NEW d \in Dials, TakePolicy(d)
  PROVE  TrustInv'
<1>1. policy' \in Policies /\ Fetched(policy') /\ old' \in BOOLEAN
  BY DEF TakePolicy, TrustInv, InForce, TrustType
<1> DEFINE x == [dial[d] EXCEPT !.pc = "attest", !.policy = policy']
<1>2. x \in Dialing /\ x.pc = "attest" /\ x.policy = policy'
  BY <1>1 DEF TrustInv, TrustType, Dialing
<1>3. dial' = [dial EXCEPT ![d] = x] /\ known' = known
  BY DEF TakePolicy, TrustInv, TrustType, Dialing
<1> HIDE DEF x
<1>4. /\ dial' \in [Dials -> Dialing] /\ Checked'
      /\ \A c \in Dials : dial'[c].pc # "idle" =>
           dial'[c].policy \in Policies /\ Fetched(dial'[c].policy)
  BY <1>1, <1>2, <1>3, OtherDials DEF TrustInv
<1> QED
  BY <1>1, <1>3, <1>4 DEF TrustInv, TrustType, InForce, KeptIsProved

\* The machine that answers is attested under the policy the dial was given.
LEMMA AttestStep ==
  ASSUME TrustInv, NEW d \in Dials, NEW e \in Enclaves, Attest(d, e)
  PROVE  TrustInv'
<1> DEFINE x == [dial[d] EXCEPT !.pc = "records", !.seen = e]
<1>1. x \in Dialing /\ x.pc = "records" /\ x.policy = dial[d].policy /\ x.seen = e
  BY DEF TrustInv, TrustType, Dialing
<1>2. dial' = [dial EXCEPT ![d] = x] /\ UNCHANGED <<policy, old, known>>
  BY DEF Attest, TrustInv, TrustType, Dialing
<1>3. Meets(Tightened(Floors, x.policy), x.seen) /\ x.policy \in Policies /\ Fetched(x.policy)
  BY <1>1 DEF Attest, Under, TrustInv, InForce
<1> HIDE DEF x
<1>4. /\ dial' \in [Dials -> Dialing] /\ Checked'
      /\ \A c \in Dials : dial'[c].pc # "idle" =>
           dial'[c].policy \in Policies /\ Fetched(dial'[c].policy)
  BY <1>1, <1>2, <1>3, OtherDials DEF TrustInv
<1> QED
  BY <1>2, <1>4 DEF TrustInv, TrustType, InForce, KeptIsProved

\* What is kept of the registry was found there, now or by the check that kept it.
LEMMA CheckRecordsStep ==
  ASSUME TrustInv, NEW d \in Dials, CheckRecords(d)
  PROVE  TrustInv'
<1> DEFINE a == About(Under(d), dial[d].seen)
           x == [dial[d] EXCEPT !.pc = "connect"]
<1>1. /\ a.release # 0 /\ a.source # Absent /\ (a \in known \/ Proved(a))
      /\ known' = known \cup {a} /\ UNCHANGED <<policy, old>>
  BY DEF CheckRecords, Known, Stored
<1>2. x \in Dialing /\ x.pc = "connect" /\ x.policy = dial[d].policy /\ x.seen = dial[d].seen
  BY DEF TrustInv, TrustType, Dialing
<1>3. dial' = [dial EXCEPT ![d] = x]
  BY DEF CheckRecords, TrustInv, TrustType, Dialing
<1>4. /\ dial[d].seen \in Enclaves /\ Meets(Under(d), dial[d].seen)
      /\ dial[d].policy \in Policies /\ Fetched(dial[d].policy)
  BY DEF CheckRecords, TrustInv, Checked, InForce
<1>5. Proved(a)
  BY <1>1 DEF TrustInv, KeptIsProved
<1>6. a.release = dial[d].seen.release
  BY DEF About
<1>7. a \in ExpectType
  <2>1. dial[d].seen \in EnclaveType /\ dial[d].policy \in PolicyType /\ Floors \in PolicyType
    BY <1>4, TrustAssumption
  <2>2. Under(d).source \in Sources \cup {Absent}
    BY <2>1 DEF Under, Tightened, Filled, PolicyType
  <2>3. dial[d].seen.digest \in Digests /\ dial[d].seen.release \in Releases /\ dial[d].seen.commit \in Nat
    BY <2>1 DEF EnclaveType
  <2> QED
    BY <2>2, <2>3 DEF About, ExpectType
<1>8. /\ x.seen \in Enclaves /\ Meets(Tightened(Floors, x.policy), x.seen)
      /\ x.policy \in Policies /\ Fetched(x.policy)
      /\ x.seen.release # 0 /\ Proved(About(Tightened(Floors, x.policy), x.seen))
  BY <1>1, <1>2, <1>4, <1>5, <1>6 DEF Under
<1> HIDE DEF a, x
<1>9. /\ dial' \in [Dials -> Dialing] /\ Checked'
      /\ \A c \in Dials : dial'[c].pc # "idle" =>
           dial'[c].policy \in Policies /\ Fetched(dial'[c].policy)
  BY <1>2, <1>3, <1>8, OtherDials DEF TrustInv
<1> QED
  BY <1>1, <1>5, <1>7, <1>9 DEF TrustInv, TrustType, InForce, KeptIsProved

\* Whoever answers the pinned handshake is the machine that was attested.
LEMMA ConnectStep ==
  ASSUME TrustInv, NEW d \in Dials, NEW e \in Enclaves, Connect(d, e)
  PROVE  TrustInv'
<1> DEFINE x == [dial[d] EXCEPT !.pc = "up", !.with = e]
<1>1. /\ x \in Dialing /\ x.pc = "up" /\ x.with = e
      /\ x.policy = dial[d].policy /\ x.seen = dial[d].seen
  BY DEF TrustInv, TrustType, Dialing
<1>2. dial' = [dial EXCEPT ![d] = x] /\ UNCHANGED <<policy, old, known>>
  BY DEF Connect, TrustInv, TrustType, Dialing
<1>3. /\ dial[d].seen \in Enclaves /\ Meets(Under(d), dial[d].seen)
      /\ dial[d].policy \in Policies /\ Fetched(dial[d].policy)
      /\ dial[d].seen.release # 0 /\ Proved(About(Under(d), dial[d].seen))
  BY DEF Connect, TrustInv, Checked, InForce
<1>4. e = dial[d].seen
  BY <1>3, OneKeyEach DEF Connect, Pinned
<1> HIDE DEF x
<1>5. /\ dial' \in [Dials -> Dialing] /\ Checked'
      /\ \A c \in Dials : dial'[c].pc # "idle" =>
           dial'[c].policy \in Policies /\ Fetched(dial'[c].policy)
  BY <1>1, <1>2, <1>3, <1>4, OtherDials DEF TrustInv, Under
<1> QED
  BY <1>2, <1>5 DEF TrustInv, TrustType, InForce, KeptIsProved

\* A dial given up has nothing behind it.
LEMMA GiveStep ==
  ASSUME TrustInv, NEW d \in Dials, Give(d)
  PROVE  TrustInv'
<1>1. NoDial \in Dialing /\ NoDial.pc = "idle"
  BY DEF NoDial, Dialing
<1>2. dial' = [dial EXCEPT ![d] = NoDial] /\ UNCHANGED <<policy, old, known>>
  BY DEF Give
<1>3. /\ dial' \in [Dials -> Dialing] /\ Checked'
      /\ \A c \in Dials : dial'[c].pc # "idle" =>
           dial'[c].policy \in Policies /\ Fetched(dial'[c].policy)
  BY <1>1, <1>2, OtherDials DEF TrustInv
<1> QED
  BY <1>2, <1>3 DEF TrustInv, TrustType, InForce, KeptIsProved

\* Every step of the dials, of time and of the program preserves it.
LEMMA TrustInductive == TrustInv /\ [TrustNext]_trustVars => TrustInv'
<1> SUFFICES ASSUME TrustInv, [TrustNext]_trustVars PROVE TrustInv'
  OBVIOUS
<1>1. CASE UNCHANGED trustVars
  BY <1>1 DEF trustVars, TrustInv, TrustType, InForce, KeptIsProved, Checked, Under
<1>2. CASE FiveMinutes
  BY <1>2 DEF FiveMinutes, TrustInv, TrustType, InForce, KeptIsProved, Checked, Under
<1>3. CASE StartsOver
  BY <1>3 DEF StartsOver, TrustInv, TrustType, InForce, KeptIsProved, Checked, NoDial, Dialing
<1>4. CASE \E x \in known : Week(x)
  BY <1>4 DEF Week, TrustInv, TrustType, InForce, KeptIsProved, Checked, Under
<1> QED
  BY <1>1, <1>2, <1>3, <1>4, TakePolicyStep, AttestStep, CheckRecordsStep, ConnectStep, GiveStep
     DEF TrustNext

\* What the two theorems below rest on holds throughout.
THEOREM TrustInvariant == TrustSpec => []TrustInv
  BY TrustInitInvariant, TrustInductive, PTL DEF TrustSpec

\* The enclave at the other end of a tunnel meets the policy as it was served and
\* the build's floors, whatever was served, whoever answered at each call and
\* however often the policy changed meanwhile.
THEOREM MeetsBothHolds == TrustSpec => []MeetsBoth
<1>1. TrustInv => MeetsBoth
  <2> SUFFICES ASSUME TrustInv, NEW d \in Dials, dial[d].pc = "up"
               PROVE  /\ Meets(dial[d].policy, dial[d].with)
                      /\ Meets([Floors EXCEPT !.debug = FALSE], dial[d].with)
    BY DEF MeetsBoth
  <2>1. /\ dial[d].with \in Enclaves /\ Meets(Tightened(Floors, dial[d].policy), dial[d].with)
        /\ dial[d].policy \in Policies /\ ~Contradicts(Floors, dial[d].policy)
    BY DEF TrustInv, Checked, InForce, Under, Fetched
  <2>2. dial[d].with \in EnclaveType /\ dial[d].policy \in PolicyType
    BY <2>1, TrustAssumption
  <2> QED
    BY <2>1, <2>2, TightenedIsStricter
<1> QED
  BY <1>1, TrustInvariant, PTL

\* The image it runs is proved to be built from the floors' source at the release
\* it is stamped with, by records of the registry alone, although a check of the
\* last week may stand for them.
THEOREM RecordsHoldThroughout == TrustSpec => []RecordsHold
<1>1. TrustInv => RecordsHold
  <2> SUFFICES ASSUME TrustInv, NEW d \in Dials, dial[d].pc = "up"
               PROVE  /\ dial[d].with.release # 0
                      /\ Proved(About(Under(d), dial[d].with))
                      /\ Floors.source # Absent => Under(d).source = Floors.source
    BY DEF RecordsHold
  <2>1. dial[d].policy \in PolicyType /\ ~Contradicts(Floors, dial[d].policy)
    BY TrustAssumption DEF TrustInv, InForce, Fetched
  <2> QED
    BY <2>1, SourceIsFloors DEF TrustInv, Checked, Under
<1> QED
  BY <1>1, TrustInvariant, PTL

-----------------------------------------------------------------------------
(* The network camera. *)

Cert == Certs \cup {Nobody}

Source == [pc : {"none", "new", "probed", "gone"}, given : Cert, pinned : Cert,
           ready : BOOLEAN, cancel : {0} \cup Pulls, publishing : BOOLEAN]

Pulling == [pc : {"none", "connect", "publish", "play", "stream", "unset", "close", "pause", "done"},
            of : {0} \cup Builds, cert : Cert]

\* The Sources, the runs and what is stored, by type.
CamType ==
  /\ at \in Cert /\ first \in Cert /\ store \in Cert \cup {Torn} /\ unsaved \in BOOLEAN
  /\ src \in [Builds -> Source] /\ pull \in [Pulls -> Pulling]
  /\ building \in {0} \cup Builds /\ offer \in {0} \cup Builds

\* A Source is pinned to what the person gave; without it, and as long as what was
\* trusted could be saved, the store and every pin are the certificate trusted
\* first, and a Source that is to trust another one finds none trusted before.
Pinning ==
  /\ \A s \in Builds : src[s].given # Nobody => src[s].pinned = src[s].given
  /\ ~unsaved =>
       /\ store \in {first, Torn}
       /\ \A s \in Builds : src[s].given = Nobody => src[s].pinned \in {Nobody, first}
       /\ \A s \in Builds : src[s].pc = "new" /\ src[s].pinned = Nobody => first = Nobody

\* One Source is being built; one that is ready has been probed and is pinned.
Probed ==
  /\ \A s \in Builds : src[s].pc = "new" => building = s
  /\ \A s \in Builds : src[s].ready => src[s].pc \in {"probed", "gone"} /\ src[s].pinned # Nobody

\* Where a run is between the certificate it accepted and giving it up.
Holding == {"publish", "play", "stream", "unset", "close"}

\* A run is of a Source that is ready, and what it has accepted is the pin.
Accepted ==
  \A r \in Pulls :
    /\ pull[r].pc \notin {"none", "done"} => pull[r].of \in Builds /\ src[pull[r].of].ready
    /\ pull[r].cert # Nobody =>
         pull[r].pc \in Holding /\ pull[r].cert = src[pull[r].of].pinned

CamInv == CamType /\ Pinning /\ Probed /\ Accepted

\* The camera starts with nothing stored, built or played.
LEMMA CamInitInvariant == CamInit => CamInv
<1> SUFFICES ASSUME CamInit PROVE CamInv
  OBVIOUS
<1>1. Unbuilt \in Source /\ NoPull \in Pulling
  BY DEF Unbuilt, Source, NoPull, Pulling, Cert
<1>2. CamType
  BY <1>1 DEF CamInit, CamType, Cert
<1>3. Pinning /\ Probed /\ Accepted
  BY DEF CamInit, Pinning, Probed, Accepted, Unbuilt, NoPull
<1> QED
  BY <1>2, <1>3 DEF CamInv

\* A certificate accepted is the one given or, saved, the one trusted first: only
\* a Source that is being built trusts a new one, and then none was before.
LEMMA VerifiedStep ==
  ASSUME CamInv, NEW s \in Builds, Verified(s), src[s].pc = "new" \/ src[s].pinned # Nobody
  PROVE  /\ at \in Certs /\ first' \in Cert /\ store' \in Cert \cup {Torn} /\ unsaved' \in BOOLEAN
         /\ src[s].pinned # Nobody => src[s].pinned = at /\ first' = first
         /\ src[s].given # Nobody => at = src[s].given
         /\ ~unsaved' =>
              /\ ~unsaved /\ store' \in {first', Torn}
              /\ src[s].given = Nobody => at = first'
              /\ first # Nobody => first' = first
<1> USE DEF CamInv, CamType, Pinning, Cert
<1>1. at \in Certs /\ src[s].pinned \in {Nobody, at}
  BY DEF Verified, Shows
<1>2. src[s] \in Source
  OBVIOUS
<1>3. CASE src[s].pinned = Nobody
  <2>1. src[s].given = Nobody /\ src[s].pc = "new"
    BY <1>3
  <2>2. first' = (IF first = Nobody THEN at ELSE first)
    BY <1>3 DEF Verified, Pins
  <2>3. (store' = at /\ unsaved' = unsaved) \/ (unsaved' = TRUE /\ store' = store)
    BY <1>3 DEF Verified, Pins
  <2>4. ~unsaved => first = Nobody
    BY <1>3, <2>1
  <2> QED
    BY <1>1, <1>3, <2>1, <2>2, <2>3, <2>4
<1>4. CASE src[s].pinned # Nobody
  <2>1. UNCHANGED <<store, first, unsaved>>
    BY <1>4 DEF Verified, Pins, trust
  <2> QED
    BY <1>1, <1>4, <2>1
<1> QED
  BY <1>3, <1>4

\* A new Source takes the pin given, or the one saved.
LEMMA NewStep ==
  ASSUME CamInv, NEW given \in Certs \cup {Nobody}, New(given)
  PROVE  CamInv'
<1> USE DEF CamInv, CamType
<1>1. PICK s \in Builds :
        /\ src[s].pc = "none" /\ building' = s
        /\ src' = [src EXCEPT ![s].pc = "new", ![s].given = given, ![s].pinned = Pin(given)]
  BY DEF New
<1>2. building = 0 /\ (given = Nobody => store # Torn) /\ UNCHANGED <<at, trust, offer, pull>>
  BY DEF New
<1>3. Pin(given) \in Cert /\ (given # Nobody => Pin(given) = given)
      /\ (~unsaved /\ given = Nobody => Pin(given) = first)
  BY <1>2 DEF Pin, Cert, Pinning
<1> DEFINE x == [src[s] EXCEPT !.pc = "new", !.given = given, !.pinned = Pin(given)]
<1>4. x \in Source /\ x.pc = "new" /\ x.given = given /\ x.pinned = Pin(given) /\ x.ready = src[s].ready
  BY <1>3 DEF Source, Cert
<1>5. src' = [src EXCEPT ![s] = x]
  BY <1>1 DEF Source
<1> HIDE DEF x
<1>6. src' \in [Builds -> Source] /\ src'[s] = x /\ \A t \in Builds : t # s => src'[t] = src[t]
  BY <1>4, <1>5
<1>7. ~src[s].ready
  BY <1>1 DEF Probed
<1>8. CamType'
  BY <1>1, <1>2, <1>6 DEF trust
<1>9. Pinning'
  BY <1>2, <1>3, <1>4, <1>6 DEF Pinning, trust
<1>10. Probed'
  BY <1>1, <1>2, <1>4, <1>6, <1>7, NetCameraAssumption DEF Probed
<1>11. Accepted'
  <2> SUFFICES ASSUME NEW r \in Pulls
               PROVE  /\ pull[r].pc \notin {"none", "done"} => pull[r].of \in Builds /\ src'[pull[r].of].ready
                      /\ pull[r].cert # Nobody =>
                           pull[r].pc \in Holding /\ pull[r].cert = src'[pull[r].of].pinned
    BY <1>2 DEF Accepted
  <2>1. CASE pull[r].pc \notin {"none", "done"}
    <3>1. pull[r].of \in Builds /\ pull[r].of # s
      BY <1>7, <2>1 DEF Accepted
    <3> QED
      BY <1>6, <2>1, <3>1 DEF Accepted
  <2>2. CASE pull[r].pc \in {"none", "done"}
    BY <2>2 DEF Accepted, Holding
  <2> QED
    BY <2>1, <2>2
<1> QED
  BY <1>8, <1>9, <1>10, <1>11

\* A Source's probe pins it to what it accepts; one that fails leaves it as it was.
LEMMA ProbeStep ==
  ASSUME CamInv, NEW s \in Builds, Probe(s)
  PROVE  CamInv'
<1> USE DEF CamInv, CamType
<1>1. building = s /\ src[s].pc = "new" /\ ~src[s].ready /\ UNCHANGED <<at, building, offer, pull>>
  BY DEF Probe, Probed, offers
<1>2. \A r \in Pulls : pull[r].pc \notin {"none", "done"} => pull[r].of \in Builds /\ pull[r].of # s
  BY <1>1 DEF Accepted
<1>3. CASE /\ Verified(s)
           /\ src' = [src EXCEPT ![s].pc = "probed", ![s].pinned = at, ![s].ready = TRUE]
  <2> DEFINE x == [src[s] EXCEPT !.pc = "probed", !.pinned = at, !.ready = TRUE]
  <2>1. x \in Source /\ x.pc = "probed" /\ x.given = src[s].given /\ x.pinned = at /\ x.ready
    BY DEF Source
  <2>2. src' = [src EXCEPT ![s] = x]
    BY <1>3 DEF Source
  <2> HIDE DEF x
  <2>3. src' \in [Builds -> Source] /\ src'[s] = x /\ \A t \in Builds : t # s => src'[t] = src[t]
    BY <2>1, <2>2
  <2>4. /\ at \in Certs /\ first' \in Cert /\ store' \in Cert \cup {Torn} /\ unsaved' \in BOOLEAN
        /\ src[s].given # Nobody => at = src[s].given
        /\ ~unsaved' =>
             /\ ~unsaved /\ store' \in {first', Torn}
             /\ src[s].given = Nobody => at = first'
             /\ first # Nobody => first' = first
    BY <1>1, <1>3, VerifiedStep
  <2>5. CamType'
    BY <1>1, <2>3, <2>4
  <2>6. \A t \in Builds : t # s => src[t].pc # "new"
    BY <1>1 DEF Probed
  <2>7. Pinning'
    BY <2>1, <2>3, <2>4, <2>6 DEF Pinning
  <2>8. at # Nobody
    BY <2>4, NetCameraAssumption
  <2>9. Probed'
    BY <1>1, <2>1, <2>3, <2>8 DEF Probed
  <2>10. Accepted'
    BY <1>1, <1>2, <2>3 DEF Accepted, Holding
  <2> QED
    BY <2>5, <2>7, <2>9, <2>10
<1>4. CASE Failed(s) /\ src' = [src EXCEPT ![s].pc = "probed"]
  <2> DEFINE x == [src[s] EXCEPT !.pc = "probed"]
  <2>1. /\ x \in Source /\ x.pc = "probed" /\ x.given = src[s].given
        /\ x.pinned = src[s].pinned /\ x.ready = src[s].ready
    BY DEF Source
  <2>2. src' = [src EXCEPT ![s] = x] /\ UNCHANGED <<store, first, unsaved>>
    BY <1>4 DEF Source, Failed, trust
  <2> HIDE DEF x
  <2>3. src' \in [Builds -> Source] /\ src'[s] = x /\ \A t \in Builds : t # s => src'[t] = src[t]
    BY <2>1, <2>2
  <2>4. CamType'
    BY <1>1, <2>2, <2>3
  <2>5. Pinning'
    BY <2>1, <2>2, <2>3 DEF Pinning
  <2>6. Probed'
    BY <1>1, <2>1, <2>3 DEF Probed
  <2>7. Accepted'
    BY <1>1, <1>2, <2>3 DEF Accepted, Holding
  <2> QED
    BY <2>4, <2>5, <2>6, <2>7
<1> QED
  BY <1>3, <1>4 DEF Probe

\* A step that neither pins nor builds leaves the runs to show what they accept.
LEMMA PinsKept ==
  ASSUME CamInv, UNCHANGED <<trust, building>>, at' \in Cert, offer' \in {0} \cup Builds,
         src' \in [Builds -> Source], pull' \in [Pulls -> Pulling],
         \A s \in Builds : /\ src'[s].pc = src[s].pc /\ src'[s].given = src[s].given
                           /\ src'[s].pinned = src[s].pinned /\ src'[s].ready = src[s].ready,
         \A r \in Pulls :
           /\ pull'[r].pc \notin {"none", "done"} =>
                pull'[r].of \in Builds /\ src[pull'[r].of].ready
           /\ pull'[r].cert # Nobody =>
                /\ pull'[r].pc \in Holding /\ pull'[r].cert = src[pull'[r].of].pinned
  PROVE  CamInv'
<1>1. CamType'
  BY DEF CamInv, CamType, trust
<1>2. Pinning'
  BY DEF CamInv, Pinning, trust
<1>3. Probed'
  BY DEF CamInv, Probed
<1>4. Accepted'
  BY DEF CamInv, Accepted, Holding
<1> QED
  BY <1>1, <1>2, <1>3, <1>4 DEF CamInv

\* An offer is of the Source that was built, which is dropped if the camera is on.
LEMMA OfferStep ==
  ASSUME CamInv, NEW s \in Builds, Offer(s)
  PROVE  CamInv'
<1> USE DEF CamInv, CamType
<1>1. /\ building = s /\ src[s].pc = "probed" /\ building' = 0
      /\ UNCHANGED <<at, trust, pull>> /\ offer' \in {0} \cup Builds
  BY DEF Offer
<1>2. \A t \in Builds : src[t].pc # "new"
  BY <1>1 DEF Probed
<1>3. CASE UNCHANGED src
  BY <1>1, <1>2, <1>3 DEF Pinning, Probed, Accepted, trust
<1>4. CASE src' = [src EXCEPT ![s].pc = "gone"]
  <2> DEFINE x == [src[s] EXCEPT !.pc = "gone"]
  <2>1. /\ x \in Source /\ x.pc = "gone" /\ x.given = src[s].given
        /\ x.pinned = src[s].pinned /\ x.ready = src[s].ready
    BY DEF Source
  <2>2. src' = [src EXCEPT ![s] = x]
    BY <1>4 DEF Source
  <2> HIDE DEF x
  <2>3. src' \in [Builds -> Source] /\ src'[s] = x /\ \A t \in Builds : t # s => src'[t] = src[t]
    BY <2>1, <2>2
  <2>4. CamType' /\ Pinning'
    BY <1>1, <2>1, <2>3 DEF Pinning, trust
  <2>5. Probed'
    BY <1>1, <1>2, <2>1, <2>3 DEF Probed
  <2>6. Accepted'
    BY <1>1, <2>1, <2>3 DEF Accepted, Holding
  <2> QED
    BY <2>4, <2>5, <2>6
<1> QED
  BY <1>3, <1>4 DEF Offer

\* A start begins a run of a Source that is ready; a stop ends none at once.
LEMMA StartStopStep ==
  ASSUME CamInv, StartCamera \/ StopCamera
  PROVE  CamInv'
<1> USE DEF CamInv, CamType
<1>1. offer \in Builds /\ UNCHANGED <<at, trust, building, offer>>
  BY DEF StartCamera, StopCamera, On, offers
<1> DEFINE With(c) == [src[offer] EXCEPT !.cancel = c]
<1>2. ASSUME NEW c \in {0} \cup Pulls, src' = [src EXCEPT ![offer].cancel = c]
      PROVE  /\ src' \in [Builds -> Source]
             /\ \A s \in Builds : /\ src'[s].pc = src[s].pc /\ src'[s].given = src[s].given
                                  /\ src'[s].pinned = src[s].pinned /\ src'[s].ready = src[s].ready
  <2>1. With(c) \in Source
    BY <1>1 DEF Source
  <2>2. src' = [src EXCEPT ![offer] = With(c)]
    BY <1>1, <1>2 DEF Source
  <2> QED
    BY <1>1, <2>1, <2>2 DEF Source
<1>3. CASE StopCamera
  BY <1>1, <1>2, <1>3, PinsKept DEF StopCamera, Accepted
<1>4. CASE StartCamera
  <2>1. PICK r \in Pulls : /\ pull' = [pull EXCEPT ![r] = [pc |-> "connect", of |-> offer, cert |-> Nobody]]
                           /\ src' = [src EXCEPT ![offer].cancel = r]
    BY <1>4 DEF StartCamera
  <2>2. src[offer].ready
    BY <1>4 DEF StartCamera
  <2>3. [pc |-> "connect", of |-> offer, cert |-> Nobody] \in Pulling
    BY <1>1 DEF Pulling, Cert
  <2>4. pull' \in [Pulls -> Pulling]
    BY <2>1, <2>3
  <2>5. ASSUME NEW q \in Pulls
        PROVE  /\ pull'[q].pc \notin {"none", "done"} => pull'[q].of \in Builds /\ src[pull'[q].of].ready
               /\ pull'[q].cert # Nobody =>
                    /\ pull'[q].pc \in Holding /\ pull'[q].cert = src[pull'[q].of].pinned
    <3>1. CASE q = r
      BY <1>1, <2>1, <2>2, <3>1
    <3>2. CASE q # r
      BY <2>1, <3>2 DEF Accepted
    <3> QED
      BY <3>1, <3>2
  <2> QED
    BY <1>1, <1>2, <2>1, <2>4, <2>5, PinsKept
<1> QED
  BY <1>3, <1>4

\* A run that connects accepts the pin of its Source.
LEMMA ConnectCameraStep ==
  ASSUME CamInv, NEW r \in Pulls, ConnectCamera(r)
  PROVE  CamInv'
<1> USE DEF CamInv, CamType
<1> DEFINE s == pull[r].of
<1>1. s \in Builds /\ src[s].ready /\ src[s].pinned # Nobody /\ UNCHANGED <<at, building, offer>>
  BY DEF ConnectCamera, Accepted, Probed, offers
<1>2. CASE /\ Verified(s) /\ pull' = [pull EXCEPT ![r].pc = "publish", ![r].cert = at]
           /\ src' = [src EXCEPT ![s].pinned = at]
  <2>1. src[s].pinned = at /\ at \in Certs
    BY <1>1, <1>2, VerifiedStep
  <2>2. UNCHANGED trust
    BY <1>1, <1>2 DEF Verified, Pins
  <2>3. src' = src
    <3>1. [src[s] EXCEPT !.pinned = at] = src[s]
      BY <1>1, <2>1 DEF Source
    <3>2. src' = [src EXCEPT ![s] = [src[s] EXCEPT !.pinned = at]]
      BY <1>1, <1>2 DEF Source
    <3> QED
      BY <1>1, <3>1, <3>2
  <2> DEFINE x == [pull[r] EXCEPT !.pc = "publish", !.cert = at]
  <2>4. x \in Pulling /\ x.pc = "publish" /\ x.of = s /\ x.cert = at
    BY <2>1 DEF Pulling, Cert
  <2>5. pull' = [pull EXCEPT ![r] = x]
    BY <1>2 DEF Pulling
  <2> HIDE DEF x, s
  <2>6. pull' \in [Pulls -> Pulling] /\ pull'[r] = x /\ \A q \in Pulls : q # r => pull'[q] = pull[q]
    BY <2>4, <2>5
  <2>7. ASSUME NEW q \in Pulls
        PROVE  /\ pull'[q].pc \notin {"none", "done"} => pull'[q].of \in Builds /\ src[pull'[q].of].ready
               /\ pull'[q].cert # Nobody =>
                    /\ pull'[q].pc \in Holding /\ pull'[q].cert = src[pull'[q].of].pinned
    <3>1. CASE q = r
      BY <1>1, <2>1, <2>4, <2>6, <3>1 DEF Holding
    <3>2. CASE q # r
      BY <2>6, <3>2 DEF Accepted
    <3> QED
      BY <3>1, <3>2
  <2> QED
    BY <1>1, <2>2, <2>3, <2>6, <2>7, PinsKept
<1>3. CASE Failed(s) /\ GivesUp(r) /\ UNCHANGED src
  <2> DEFINE x == [pull[r] EXCEPT !.pc = After(r), !.cert = Nobody]
  <2>1. x \in Pulling /\ x.of = s /\ x.cert = Nobody
    BY DEF Pulling, Cert, After
  <2>2. pull' = [pull EXCEPT ![r] = x]
    BY <1>3 DEF GivesUp, Pulling
  <2> HIDE DEF x
  <2>3. pull' \in [Pulls -> Pulling] /\ pull'[r] = x /\ \A q \in Pulls : q # r => pull'[q] = pull[q]
    BY <2>1, <2>2
  <2>4. ASSUME NEW q \in Pulls
        PROVE  /\ pull'[q].pc \notin {"none", "done"} => pull'[q].of \in Builds /\ src[pull'[q].of].ready
               /\ pull'[q].cert # Nobody =>
                    /\ pull'[q].pc \in Holding /\ pull'[q].cert = src[pull'[q].of].pinned
    <3>1. CASE q = r
      BY <1>1, <2>1, <2>3, <3>1
    <3>2. CASE q # r
      BY <2>3, <3>2 DEF Accepted
    <3> QED
      BY <3>1, <3>2
  <2> QED
    BY <1>1, <1>3, <2>3, <2>4, PinsKept DEF Failed
<1> QED
  BY <1>2, <1>3 DEF ConnectCamera

\* The rest of a run goes on with what it accepted, or gives it up.
LEMMA RunStep ==
  ASSUME CamInv, NEW r \in Pulls,
         \/ Publish(r) \/ Play(r) \/ PlayFails(r) \/ StreamEnds(r)
         \/ SetPublishing(r) \/ ClosePublication(r) \/ Pause(r)
  PROVE  CamInv'
<1> USE DEF CamInv, CamType
<1>1. pull[r].pc \notin {"none", "done"} /\ UNCHANGED <<at, trust, building, offer>>
  BY DEF Publish, Play, PlayFails, StreamEnds, SetPublishing, ClosePublication, Pause, offers
<1>2. pull[r].of \in Builds /\ src[pull[r].of].ready
  BY <1>1 DEF Accepted
<1>3. PICK x \in Pulling :
        /\ pull' = [pull EXCEPT ![r] = x] /\ x.of = pull[r].of
        /\ x.pc \notin Holding => x.cert = Nobody
        /\ x.cert \in {Nobody, pull[r].cert}
  <2>1. ASSUME NEW p \in {"play", "stream", "unset", "close"}, Goes(r, p)
        PROVE  [pull[r] EXCEPT !.pc = p] \in Pulling /\ pull' = [pull EXCEPT ![r] = [pull[r] EXCEPT !.pc = p]]
    BY <2>1 DEF Goes, Pulling
  <2>2. ASSUME GivesUp(r)
        PROVE  /\ [pull[r] EXCEPT !.pc = After(r), !.cert = Nobody] \in Pulling
               /\ pull' = [pull EXCEPT ![r] = [pull[r] EXCEPT !.pc = After(r), !.cert = Nobody]]
    BY <2>2 DEF GivesUp, After, Pulling, Cert
  <2>3. ASSUME Pause(r)
        PROVE  \E p \in {"done", "connect"} :
                 /\ [pull[r] EXCEPT !.pc = p] \in Pulling
                 /\ pull' = [pull EXCEPT ![r] = [pull[r] EXCEPT !.pc = p]]
    BY <2>3 DEF Pause, Goes, Pulling
  <2>4. CASE GivesUp(r)
    BY <2>2, <2>4 DEF After, Pulling, Holding
  <2>5. CASE \E p \in {"play", "stream", "unset", "close"} : Goes(r, p)
    BY <2>1, <2>5 DEF Pulling, Holding
  <2>6. CASE Pause(r)
    <3>1. pull[r].cert = Nobody
      BY <2>6 DEF Pause, Accepted, Holding
    <3> QED
      BY <2>3, <2>6, <3>1 DEF Pulling
  <2> QED
    BY <2>4, <2>5, <2>6 DEF Publish, Play, PlayFails, StreamEnds, SetPublishing, ClosePublication
<1> DEFINE SourcesKept ==
             /\ src' \in [Builds -> Source]
             /\ \A s \in Builds : /\ src'[s].pc = src[s].pc /\ src'[s].given = src[s].given
                                  /\ src'[s].pinned = src[s].pinned /\ src'[s].ready = src[s].ready
<1>4. SourcesKept
  <2>1. ASSUME NEW b \in BOOLEAN, src' = [src EXCEPT ![pull[r].of].publishing = b]
        PROVE  SourcesKept
    <3>1. [src[pull[r].of] EXCEPT !.publishing = b] \in Source
      BY <1>2 DEF Source
    <3>2. src' = [src EXCEPT ![pull[r].of] = [src[pull[r].of] EXCEPT !.publishing = b]]
      BY <1>2, <2>1 DEF Source
    <3> QED
      BY <1>2, <3>1, <3>2 DEF Source
  <2>2. CASE UNCHANGED src
    BY <2>2
  <2> QED
    BY <2>1, <2>2 DEF Publish, Play, PlayFails, StreamEnds, SetPublishing, ClosePublication, Pause
<1>5. pull' \in [Pulls -> Pulling] /\ pull'[r] = x /\ \A q \in Pulls : q # r => pull'[q] = pull[q]
  BY <1>3
<1>6. ASSUME NEW q \in Pulls
      PROVE  /\ pull'[q].pc \notin {"none", "done"} => pull'[q].of \in Builds /\ src[pull'[q].of].ready
             /\ pull'[q].cert # Nobody =>
                  /\ pull'[q].pc \in Holding /\ pull'[q].cert = src[pull'[q].of].pinned
  <2>1. CASE q = r
    BY <1>2, <1>3, <1>5, <2>1 DEF Accepted
  <2>2. CASE q # r
    BY <1>5, <2>2 DEF Accepted
  <2> QED
    BY <2>1, <2>2
<1> QED
  BY <1>1, <1>4, <1>5, <1>6, PinsKept

\* After a restart nothing is built, offered or played; what is stored stays, or is
\* torn.
LEMMA StartsAnewStep ==
  ASSUME CamInv, StartsAnew
  PROVE  CamInv'
<1> USE DEF CamInv, CamType
<1> DEFINE gone == [Unbuilt EXCEPT !.pc = "gone"]
           done == [NoPull EXCEPT !.pc = "done"]
<1>1. /\ src' = [s \in Builds |-> IF src[s].pc = "none" THEN Unbuilt ELSE gone]
      /\ pull' = [r \in Pulls |-> IF pull[r].pc = "none" THEN NoPull ELSE done]
      /\ building' = 0 /\ offer' = 0 /\ UNCHANGED <<at, first, unsaved>>
      /\ store' \in {store, Torn}
  BY DEF StartsAnew
<1>2. /\ {Unbuilt, gone} \subseteq Source /\ {NoPull, done} \subseteq Pulling
      /\ \A x \in {Unbuilt, gone} : x.pc # "new" /\ ~x.ready /\ x.given = Nobody /\ x.pinned = Nobody
      /\ \A x \in {NoPull, done} : x.pc \in {"none", "done"} /\ x.cert = Nobody
  <2>1. /\ Unbuilt \in Source /\ Unbuilt.pc = "none" /\ ~Unbuilt.ready
        /\ Unbuilt.given = Nobody /\ Unbuilt.pinned = Nobody
    BY DEF Unbuilt, Source, Cert
  <2>2. /\ gone \in Source /\ gone.pc = "gone" /\ ~gone.ready
        /\ gone.given = Nobody /\ gone.pinned = Nobody
    BY DEF Unbuilt, Source, Cert
  <2>3. NoPull \in Pulling /\ NoPull.pc = "none" /\ NoPull.cert = Nobody
    BY DEF NoPull, Pulling, Cert
  <2>4. done \in Pulling /\ done.pc = "done" /\ done.cert = Nobody
    BY DEF NoPull, Pulling, Cert
  <2> HIDE DEF gone, done
  <2> QED
    BY <2>1, <2>2, <2>3, <2>4
<1>3. /\ src' \in [Builds -> Source] /\ pull' \in [Pulls -> Pulling]
      /\ \A s \in Builds : src'[s] \in {Unbuilt, gone}
      /\ \A r \in Pulls : pull'[r] \in {NoPull, done}
  BY <1>1, <1>2
<1> HIDE DEF gone, done
<1>4. CamType'
  BY <1>1, <1>3
<1>5. Pinning'
  BY <1>1, <1>2, <1>3 DEF Pinning
<1>6. Probed' /\ Accepted'
  BY <1>2, <1>3 DEF Probed, Accepted
<1> QED
  BY <1>4, <1>5, <1>6

\* Every step of the camera, of its runs and of the world preserves it.
LEMMA CamInductive == CamInv /\ [CamNext]_camVars => CamInv'
<1> SUFFICES ASSUME CamInv, [CamNext]_camVars PROVE CamInv'
  OBVIOUS
<1>1. CASE UNCHANGED camVars
  BY <1>1 DEF camVars, offers, trust, CamInv, CamType, Pinning, Probed, Accepted
<1>2. CASE MachineChanges
  BY <1>2 DEF MachineChanges, offers, trust, CamInv, CamType, Pinning, Probed, Accepted, Cert
<1> QED
  BY <1>1, <1>2, NewStep, ProbeStep, OfferStep, StartStopStep, ConnectCameraStep, RunStep,
     StartsAnewStep DEF CamNext, OfPull

\* What the camera's theorem rests on holds throughout.
THEOREM CameraInvariant == CamSpec => []CamInv
  BY CamInitInvariant, CamInductive, PTL DEF CamSpec

\* What is played is of the machine the person pinned or, without a pin, of the one
\* trusted first, through any number of offers, runs, restarts and machines.
THEOREM TrustedOnlyHolds == CamSpec => []TrustedOnly
<1>1. CamInv => TrustedOnly
  <2> SUFFICES ASSUME CamInv, NEW r \in Pulls, pull[r].cert # Nobody
               PROVE  LET given == src[pull[r].of].given IN
                      pull[r].cert = IF given # Nobody THEN given ELSE IF unsaved THEN pull[r].cert ELSE first
    BY DEF TrustedOnly
  <2>1. /\ pull[r].of \in Builds /\ pull[r].cert = src[pull[r].of].pinned
    BY DEF CamInv, Accepted, Holding
  <2>2. unsaved \in BOOLEAN
    BY DEF CamInv, CamType
  <2> QED
    BY <2>1, <2>2 DEF CamInv, Pinning
<1> QED
  BY <1>1, CameraInvariant, PTL

-----------------------------------------------------------------------------
(* The gateway. *)

Expectation == [key : Keys, once : BOOLEAN, expired : BOOLEAN]

Connection == [pc : {"free", "shaking", "proved", "up", "ended"}, exp : Nat, key : Keys \cup {None}]

Relayed == [pc : {"free", "accepted", "opening", "resolving", "open"},
            target : Targets \cup {Own, None}, conn : Conns \cup {None}]

\* What the producer's handlers and the connectors' tickets are, by type.
ControlType ==
  /\ exps \in Seq(Expectation) /\ Len(exps) <= MaxExpect
  /\ expect \in {0} \cup Made /\ target \in Targets \cup {None} /\ clearing \in BOOLEAN
  /\ holds \in [Keys -> {0} \cup Made]

\* The connections and who closes them, by type.
LinksType ==
  /\ attached \in Conns \cup {None} /\ closing \subseteq Conns
  /\ conn \in [Conns -> Connection]
  /\ \A c \in Conns : conn[c].exp \in {0} \cup Made
  /\ drops \in 0 .. MaxDrops

\* The local connections and the targets admitted, by type.
StreamsType ==
  /\ relay \in [Relays -> Relayed]
  /\ \A r \in Relays : relay[r].pc = "resolving" => relay[r].target # Own
  /\ locked \in [Conns -> Targets \cup {None}]

\* A connection in use was dialed with the ticket of an expectation of its key;
\* a ticket was told to the connector it names.
Dialed ==
  /\ \A c \in Conns : conn[c].pc # "free" =>
       conn[c].exp \in Made /\ exps[conn[c].exp].key = conn[c].key
  /\ \A k \in Keys : holds[k] # 0 => exps[holds[k]].key = k

\* The session attached is one that was attached and has not been detached.
Held == attached # None => conn[attached].pc \in {"up", "ended"}

GatewayInv ==
  /\ ControlType /\ LinksType /\ StreamsType
  /\ Dialed /\ Held /\ ExpectedOnly /\ NoOrphan

-----------------------------------------------------------------------------
(* The ledger of expectations. *)

\* A new expectation is the next ticket, for the connector it names; those
\* before it are left as they were (handleExpect).
LEMMA ExpectAppends ==
  ASSUME ControlType, NEW k \in Keys, Expect(k)
  PROVE  /\ exps' \in Seq(Expectation) /\ Len(exps') <= MaxExpect
         /\ expect' \in Made' /\ expect' \notin Made /\ exps'[expect'].key = k
         /\ Made \subseteq Made' /\ \A e \in Made : exps'[e] = exps[e]
<1> DEFINE x == [key |-> k, once |-> SameConnector(k) /\ attached # None, expired |-> FALSE]
           e == Len(exps) + 1
<1>1. x \in Expectation
  BY DEF Expectation
<1>2. exps' = Append(exps, x) /\ expect' = e /\ e <= MaxExpect
  BY DEF Expect
<1>3. /\ exps \in Seq(Expectation) /\ Made = 1 .. Len(exps) /\ Len(exps) \in Nat
  BY DEF ControlType, Made
<1>4. /\ exps' \in Seq(Expectation) /\ Len(exps') = Len(exps) + 1
      /\ \A i \in 1 .. Len(exps) : exps'[i] = exps[i]
      /\ exps'[Len(exps) + 1] = x
  BY <1>1, <1>2, <1>3, AppendProperties
<1>5. Made' = 1 .. Len(exps) + 1
  BY <1>4 DEF Made
<1> HIDE DEF x
<1>6. x.key = k
  BY DEF x
<1> QED
  BY <1>2, <1>3, <1>4, <1>5, <1>6

\* Marking an expectation expired or attached leaves its key.
LEMMA MarkKeepsKeys ==
  ASSUME ControlType, NEW e \in Made, NEW x \in Expectation,
         x.key = exps[e].key, exps' = [exps EXCEPT ![e] = x]
  PROVE  /\ exps' \in Seq(Expectation) /\ Len(exps') <= MaxExpect
         /\ Made' = Made /\ \A d \in Made : exps'[d].key = exps[d].key
<1>1. exps \in Seq(Expectation) /\ Made = 1 .. Len(exps)
  BY DEF ControlType, Made
<1>2. /\ exps' \in Seq(Expectation) /\ Len(exps') = Len(exps)
      /\ \A i \in 1 .. Len(exps) : exps'[i] = IF i = e THEN x ELSE exps[i]
  BY <1>1, ExceptSeq
<1> QED
  BY <1>1, <1>2 DEF ControlType, Made

\* No step forgets an expectation made or renames its connector.
LEMMA LedgerStep ==
  ASSUME ControlType, LinksType, Dialed, [Next]_vars
  PROVE  /\ exps' \in Seq(Expectation) /\ Len(exps') <= MaxExpect
         /\ Made \subseteq Made' /\ \A e \in Made : exps'[e].key = exps[e].key
<1>1. CASE UNCHANGED exps
  BY <1>1 DEF ControlType, Made
<1>2. ASSUME NEW k \in Keys, Expect(k)
      PROVE  /\ exps' \in Seq(Expectation) /\ Len(exps') <= MaxExpect
             /\ Made \subseteq Made' /\ \A e \in Made : exps'[e].key = exps[e].key
  BY <1>2, ExpectAppends
<1>3. ASSUME NEW e \in Made, Expire(e)
      PROVE  /\ exps' \in Seq(Expectation) /\ Len(exps') <= MaxExpect
             /\ Made \subseteq Made' /\ \A d \in Made : exps'[d].key = exps[d].key
  <2>1. exps[e] \in Expectation
    BY DEF ControlType, Made
  <2> DEFINE x == [exps[e] EXCEPT !.expired = TRUE]
  <2>2. x \in Expectation /\ x.key = exps[e].key
    BY <2>1 DEF Expectation
  <2>3. exps' = [exps EXCEPT ![e] = x]
    BY <1>3 DEF Expire
  <2> HIDE DEF x
  <2> QED
    BY <2>2, <2>3, MarkKeepsKeys
<1>4. ASSUME NEW c \in Conns, Attach(c)
      PROVE  /\ exps' \in Seq(Expectation) /\ Len(exps') <= MaxExpect
             /\ Made \subseteq Made' /\ \A d \in Made : exps'[d].key = exps[d].key
  <2>1. CASE UNCHANGED exps
    BY <1>1, <2>1
  <2>2. CASE expect = conn[c].exp /\ exps' = [exps EXCEPT ![expect].once = TRUE]
    <3>1. expect \in Made
      BY <1>4, <2>2 DEF Attach, Dialed
    <3>2. exps[expect] \in Expectation
      BY <3>1 DEF ControlType, Made
    <3> DEFINE x == [exps[expect] EXCEPT !.once = TRUE]
    <3>3. x \in Expectation /\ x.key = exps[expect].key
      BY <3>2 DEF Expectation
    <3>4. exps' = [exps EXCEPT ![expect] = x]
      BY <2>2
    <3> HIDE DEF x
    <3> QED
      BY <3>1, <3>3, <3>4, MarkKeepsKeys
  <2> QED
    BY <1>4, <2>1, <2>2 DEF Attach
<1> QED
  BY <1>1, <1>2, <1>3, <1>4 DEF Next, Producer, Tunnels, Relaying, vars, control, links, streams,
     SetTarget, Clear, DropConnector, Told, Dial, Prove, HandshakeFails, Close, Drop, Detach,
     Accept, Look, Opened, Resolved, RelayEnds

-----------------------------------------------------------------------------
(* Types. *)

\* The producer's state keeps its type.
LEMMA ControlTypeStep ==
  ASSUME ControlType, LinksType, Dialed, [Next]_vars
  PROVE  ControlType'
<1> USE DEF ControlType
<1>1. exps' \in Seq(Expectation) /\ Len(exps') <= MaxExpect /\ Made \subseteq Made'
  BY LedgerStep
<1>2. CASE UNCHANGED control
  BY <1>1, <1>2 DEF control
<1>3. ASSUME NEW k \in Keys, Expect(k) PROVE ControlType'
  BY <1>1, <1>3, ExpectAppends DEF Expect
<1>4. CASE Clear \/ DropConnector \/ \E t \in Targets : SetTarget(t)
  BY <1>1, <1>4 DEF Clear, DropConnector, SetTarget
<1>5. CASE \E k \in Keys : \E e \in Made : Told(k, e)
  BY <1>1, <1>5 DEF Told
<1>6. CASE \E e \in Made : Expire(e)
  BY <1>1, <1>6 DEF Expire
<1>7. CASE \E c \in Conns : Attach(c)
  BY <1>1, <1>7 DEF Attach
<1> QED
  BY <1>2, <1>3, <1>4, <1>5, <1>6, <1>7 DEF Next, Producer, Tunnels, Relaying, vars,
     Dial, Prove, HandshakeFails, Close, Drop, Detach, Accept, Look, Opened, Resolved, RelayEnds

\* The connections keep their type.
LEMMA LinksTypeStep ==
  ASSUME ControlType, LinksType, Dialed, [Next]_vars
  PROVE  LinksType'
<1> USE DEF LinksType, Connection
<1>1. Made \subseteq Made'
  BY LedgerStep
<1>2. ASSUME NEW e \in {0} \cup Made PROVE e \in Nat
  <2>1. Made = 1 .. Len(exps)
    BY DEF ControlType, Made
  <2> QED
    BY <2>1
<1>3. CASE UNCHANGED links
  BY <1>1, <1>3 DEF links
<1>4. CASE \E k \in Keys : Expect(k)
  BY <1>1, <1>4 DEF Expect
<1>5. CASE DropConnector
  BY <1>1, <1>5 DEF DropConnector
<1>6. ASSUME NEW c \in Conns, NEW k \in Keys, Dial(k, c) PROVE LinksType'
  <2>1. holds[k] \in {0} \cup Made
    BY DEF ControlType
  <2>2. holds[k] \in Nat
    BY <1>2, <2>1
  <2> DEFINE new == [pc |-> "shaking", exp |-> holds[k], key |-> k]
  <2>3. new \in Connection /\ new.exp \in {0} \cup Made
    BY <2>1, <2>2
  <2>4. conn' = [conn EXCEPT ![c] = new] /\ UNCHANGED <<exps, attached, closing, drops>>
    BY <1>6 DEF Dial, control
  <2> HIDE DEF new, Connection
  <2>5. conn' \in [Conns -> Connection]
    BY <2>3, <2>4
  <2>6. \A d \in Conns : conn'[d].exp \in {0} \cup Made
    BY <2>3, <2>4
  <2> QED
    BY <1>1, <2>4, <2>5, <2>6
<1>7. ASSUME NEW c \in Conns, Prove(c) \/ HandshakeFails(c) \/ Close(c) \/ Drop(c) \/ Detach(c)
      PROVE  LinksType'
  BY <1>1, <1>7, GatewayAssumption DEF Prove, HandshakeFails, Close, Drop, Detach, Free
<1>8. ASSUME NEW c \in Conns, Attach(c) PROVE LinksType'
  BY <1>1, <1>8 DEF Attach
<1> QED
  BY <1>3, <1>4, <1>5, <1>6, <1>7, <1>8 DEF Next, Producer, Tunnels, Relaying, vars,
     Clear, SetTarget, Told, Expire, Accept, Look, Opened, Resolved, RelayEnds

\* The local connections keep their type.
LEMMA StreamsTypeStep ==
  ASSUME ControlType, LinksType, StreamsType, [Next]_vars
  PROVE  StreamsType'
<1> USE DEF StreamsType, Relayed
<1>1. CASE UNCHANGED streams
  BY <1>1 DEF streams
<1>2. CASE \E c \in Conns : Detach(c)
  BY <1>2 DEF Detach
<1>3. ASSUME NEW r \in Relays, NEW own \in BOOLEAN, Accept(r, own) PROVE StreamsType'
  BY <1>3 DEF Accept, ControlType
<1>4. ASSUME NEW r \in Relays, Look(r) PROVE StreamsType'
  <2>1. CASE attached = None \/ relay[r].target = None
    BY <1>4, <2>1 DEF Look, NoRelay
  <2>2. CASE attached # None /\ relay[r].target # None
    <3>1. [relay[r] EXCEPT !.pc = "opening", !.conn = attached] \in Relayed
      BY DEF LinksType
    <3>2. relay' = [relay EXCEPT ![r] = [relay[r] EXCEPT !.pc = "opening", !.conn = attached]]
      BY <1>4, <2>2 DEF Look
    <3> DEFINE x == [relay[r] EXCEPT !.pc = "opening", !.conn = attached]
    <3>3. x.pc = "opening" /\ UNCHANGED locked
      BY <1>4 DEF Look
    <3>4. x \in Relayed /\ relay' = [relay EXCEPT ![r] = x]
      BY <3>1, <3>2
    <3> HIDE DEF x, Relayed
    <3> QED
      BY <3>3, <3>4
  <2> QED
    BY <2>1, <2>2
<1>5. ASSUME NEW r \in Relays, Opened(r) \/ RelayEnds(r) PROVE StreamsType'
  <2>1. PICK x \in {NoRelay, [relay[r] EXCEPT !.pc = "open"], [relay[r] EXCEPT !.pc = "resolving"]} :
          /\ relay' = [relay EXCEPT ![r] = x] /\ UNCHANGED locked
          /\ x.pc = "resolving" => x.target # Own
    BY <1>5 DEF Opened, RelayEnds, NoRelay
  <2>2. x \in Relayed
    BY DEF NoRelay
  <2> QED
    BY <2>1, <2>2
<1>6. ASSUME NEW r \in Relays, Resolved(r) PROVE StreamsType'
  <2>1. relay[r].conn \in Conns \cup {None} /\ relay[r].target \in Targets \cup {None}
    BY <1>6 DEF Resolved
  <2> QED
    BY <1>6, <2>1 DEF Resolved, Live
<1> QED
  BY <1>1, <1>2, <1>3, <1>4, <1>5, <1>6 DEF Next, Producer, Tunnels, Relaying, vars,
     Clear, DropConnector, Expect, SetTarget, Told, Expire, Dial, Prove, HandshakeFails,
     Attach, Close, Drop

-----------------------------------------------------------------------------
(* The connections and the connector expected. *)

\* A connection keeps the expectation it dialed with, and that expectation its
\* connector.
LEMMA DialedStep ==
  ASSUME ControlType, LinksType, Dialed, [Next]_vars
  PROVE  Dialed'
<1> USE DEF Dialed
<1>1. Made \subseteq Made' /\ \A e \in Made : exps'[e].key = exps[e].key
  BY LedgerStep
<1>2. \A k \in Keys : holds[k] \in {0} \cup Made
  BY DEF ControlType
<1>3. CASE UNCHANGED <<conn, holds>>
  BY <1>1, <1>2, <1>3
<1>4. ASSUME NEW k \in Keys, NEW e \in Made, Told(k, e) PROVE Dialed'
  BY <1>1, <1>2, <1>4 DEF Told, links, ControlType
<1>5. ASSUME NEW c \in Conns, NEW k \in Keys, Dial(k, c) PROVE Dialed'
  BY <1>1, <1>2, <1>5 DEF Dial, Admits, control, LinksType
<1>6. ASSUME NEW c \in Conns, Prove(c) \/ HandshakeFails(c) \/ Close(c) \/ Drop(c) \/ Detach(c)
      PROVE  Dialed'
  BY <1>1, <1>2, <1>6 DEF Prove, HandshakeFails, Close, Drop, Detach, Free, control, LinksType, Connection
<1>7. ASSUME NEW c \in Conns, Attach(c) PROVE Dialed'
  BY <1>1, <1>2, <1>7 DEF Attach, LinksType, Connection
<1> QED
  BY <1>3, <1>4, <1>5, <1>6, <1>7 DEF Next, Producer, Tunnels, Relaying, vars, control, links,
     Clear, DropConnector, Expect, SetTarget, Expire, Accept, Look, Opened, Resolved, RelayEnds

\* The session the gateway holds is given back only when it is detached, and no
\* other takes its place meanwhile.
LEMMA HeldStep ==
  ASSUME LinksType, Held, [Next]_vars
  PROVE  Held'
<1> USE DEF Held, LinksType, Connection
<1>1. CASE UNCHANGED links
  BY <1>1 DEF links
<1>2. CASE DropConnector \/ \E k \in Keys : Expect(k)
  BY <1>2 DEF DropConnector, Expect
<1>3. ASSUME NEW c \in Conns, NEW k \in Keys, Dial(k, c) PROVE Held'
  BY <1>3 DEF Dial, Free
<1>4. ASSUME NEW c \in Conns, Prove(c) \/ HandshakeFails(c) \/ Close(c) \/ Drop(c) \/ Detach(c)
      PROVE  Held'
  BY <1>4, GatewayAssumption DEF Prove, HandshakeFails, Close, Drop, Detach, Free
<1>5. ASSUME NEW c \in Conns, Attach(c) PROVE Held'
  BY <1>5 DEF Attach
<1> QED
  BY <1>1, <1>2, <1>3, <1>4, <1>5 DEF Next, Producer, Tunnels, Relaying, vars,
     Clear, SetTarget, Told, Expire, Accept, Look, Opened, Resolved, RelayEnds

\* The connector attached stays the one expected: what is attached has proved
\* the expected key, and a new expectation of another key takes it out.
LEMMA ExpectedOnlyStep ==
  ASSUME ControlType, LinksType, Dialed, Held, ExpectedOnly, [Next]_vars
  PROVE  ExpectedOnly'
<1> USE DEF ExpectedOnly, LinksType, Connection
<1>1. \A e \in Made : exps'[e].key = exps[e].key
  BY LedgerStep
<1>2. expect \in {0} \cup Made
  BY DEF ControlType
<1>3. CASE UNCHANGED <<expect, attached, conn>>
  BY <1>1, <1>2, <1>3
<1>4. ASSUME NEW k \in Keys, Expect(k) PROVE ExpectedOnly'
  BY <1>4, ExpectAppends DEF Expect, SameConnector
<1>5. CASE Clear \/ DropConnector
  BY <1>5 DEF Clear, DropConnector
<1>6. ASSUME NEW c \in Conns, NEW k \in Keys, Dial(k, c) PROVE ExpectedOnly'
  <2>1. attached # c
    BY <1>6, GatewayAssumption DEF Dial, Held, Free
  <2> QED
    BY <1>1, <1>2, <1>6, <2>1 DEF Dial, control
<1>7. ASSUME NEW c \in Conns, Prove(c) \/ HandshakeFails(c) \/ Close(c) \/ Drop(c) \/ Detach(c)
      PROVE  ExpectedOnly'
  <2>1. expect' = expect /\ attached' \in {attached, None}
    BY <1>7 DEF Prove, HandshakeFails, Close, Drop, Detach, control
  <2>2. attached' # None => conn'[attached].key = conn[attached].key
    BY <1>7, <2>1, GatewayAssumption DEF Prove, HandshakeFails, Close, Drop, Detach, Held, Free
  <2> QED
    BY <1>1, <1>2, <2>1, <2>2
<1>8. ASSUME NEW c \in Conns, Attach(c) PROVE ExpectedOnly'
  <2>1. conn'[c].key = conn[c].key /\ \A d \in Conns : conn'[d].key = conn[d].key
    BY <1>8 DEF Attach
  <2>2. conn[c].exp \in Made /\ exps[conn[c].exp].key = conn[c].key
    BY <1>8 DEF Attach, Dialed
  <2> QED
    BY <1>1, <1>2, <1>8, <2>1, <2>2 DEF Attach
<1> QED
  BY <1>3, <1>4, <1>5, <1>6, <1>7, <1>8 DEF Next, Producer, Tunnels, Relaying, vars, control, links,
     SetTarget, Told, Expire, Accept, Look, Opened, Resolved, RelayEnds

\* Whoever takes a session out of Server.attached owes its closing.
LEMMA NoOrphanStep ==
  ASSUME LinksType, NoOrphan, [Next]_vars
  PROVE  NoOrphan'
<1> USE DEF NoOrphan, LinksType, Connection
<1>1. CASE UNCHANGED links
  BY <1>1 DEF links
<1>2. CASE DropConnector \/ \E k \in Keys : Expect(k)
  BY <1>2 DEF DropConnector, Expect
<1>3. ASSUME NEW c \in Conns, NEW k \in Keys, Dial(k, c) PROVE NoOrphan'
  BY <1>3 DEF Dial
<1>4. ASSUME NEW c \in Conns, Prove(c) \/ HandshakeFails(c) \/ Close(c) \/ Drop(c) \/ Detach(c)
      PROVE  NoOrphan'
  BY <1>4 DEF Prove, HandshakeFails, Close, Drop, Detach, Free
<1>5. ASSUME NEW c \in Conns, Attach(c) PROVE NoOrphan'
  BY <1>5, GatewayAssumption DEF Attach
<1> QED
  BY <1>1, <1>2, <1>3, <1>4, <1>5 DEF Next, Producer, Tunnels, Relaying, vars,
     Clear, SetTarget, Told, Expire, Accept, Look, Opened, Resolved, RelayEnds

-----------------------------------------------------------------------------
(* The theorems. *)

\* The gateway starts with nothing expected and nobody attached.
LEMMA GatewayInitInvariant == Init => GatewayInv
<1> SUFFICES ASSUME Init PROVE GatewayInv
  OBVIOUS
<1>1. exps = <<>> /\ Made = {} /\ Len(exps) = 0 /\ exps \in Seq(Expectation)
  BY DEF Init, Made
<1>2. ControlType
  <2>1. /\ expect \in {0} \cup Made /\ target \in Targets \cup {None} /\ clearing \in BOOLEAN
        /\ holds \in [Keys -> {0} \cup Made]
    BY DEF Init
  <2>2. 0 <= MaxExpect
    BY GatewayAssumption
  <2> QED
    BY <1>1, <2>1, <2>2 DEF ControlType
<1>3. LinksType
  BY <1>1, GatewayAssumption DEF Init, LinksType, Connection, Free
<1>4. StreamsType
  BY DEF Init, StreamsType, Relayed, NoRelay
<1>5. Dialed /\ Held /\ ExpectedOnly /\ NoOrphan
  BY DEF Init, Dialed, Held, ExpectedOnly, NoOrphan, Free
<1> QED
  BY <1>2, <1>3, <1>4, <1>5 DEF GatewayInv

\* Every step of the gateway and of its connectors preserves it.
LEMMA GatewayInductive == GatewayInv /\ [Next]_vars => GatewayInv'
  BY ControlTypeStep, LinksTypeStep, StreamsTypeStep, DialedStep, HeldStep, ExpectedOnlyStep,
     NoOrphanStep DEF GatewayInv

\* The invariant the theorems below rest on holds throughout.
THEOREM GatewayInvariant == Spec => []GatewayInv
  BY GatewayInitInvariant, GatewayInductive, PTL DEF Spec

\* The variables keep their types, whatever the producer, the connectors and
\* the local connections do.
THEOREM GatewayTyped == Spec => []TypeOK
<1>1. GatewayInv => TypeOK
  <2> SUFFICES ASSUME GatewayInv PROVE TypeOK
    OBVIOUS
  <2>1. Made = 1 .. Len(exps) /\ Len(exps) <= MaxExpect /\ Len(exps) \in Nat
        /\ \A e \in Made : exps[e] \in Expectation
    BY DEF GatewayInv, ControlType, Made
  <2>2. Made \subseteq 1 .. MaxExpect
    BY <2>1, GatewayAssumption
  <2>3. \A c \in Conns : conn[c] \in [pc : {"free", "shaking", "proved", "up", "ended"},
                                      exp : {0} \cup Made, key : Keys \cup {None}]
    BY DEF GatewayInv, LinksType, Connection
  <2> QED
    BY <2>1, <2>2, <2>3 DEF GatewayInv, TypeOK, ControlType, LinksType, StreamsType, Relayed, Expectation
<1> QED
  BY <1>1, GatewayInvariant, PTL

\* The gateway has the one connector expected, for any number of connectors,
\* connections and expectations: attach looks at the expectation again under the
\* mutex, and every session taken out of Server.attached is closed by the one who
\* took it.
THEOREM OneConnectorHolds == Spec => []OneConnector
<1>1. GatewayInv => OneConnector
  BY DEF GatewayInv, OneConnector
<1> QED
  BY <1>1, GatewayInvariant, PTL

\* A step that forgets the target was a clear, or an expectation of another
\* connector than the one before.
LEMMA TargetStep ==
  ASSUME GatewayInv, [Next]_vars, target # None, target' = None, expect # 0, expect' # 0
  PROVE  exps'[expect'].key # exps[expect].key
<1>1. CASE UNCHANGED target
  BY <1>1
<1>2. ASSUME NEW k \in Keys, Expect(k) PROVE exps'[expect'].key # exps[expect].key
  <2>1. exps'[expect'].key = k
    BY <1>2, ExpectAppends DEF GatewayInv
  <2>2. ~SameConnector(k)
    BY <1>2 DEF Expect
  <2>3. exps[expect].key # k
    BY <2>2 DEF SameConnector, GatewayInv, ExpectedOnly
  <2> QED
    BY <2>1, <2>3
<1>3. CASE \E t \in Targets : SetTarget(t)
  BY <1>3, GatewayAssumption DEF SetTarget
<1>4. CASE Clear
  BY <1>4 DEF Clear
<1> QED
  BY <1>1, <1>2, <1>3, <1>4 DEF Next, Producer, Tunnels, Relaying, vars, control,
     DropConnector, Told, Expire, Dial, Prove, HandshakeFails, Attach, Close, Drop, Detach,
     Accept, Look, Opened, Resolved, RelayEnds

\* The camera chosen for a session survives every new ticket for its connector,
\* whether its tunnel is up, down or being dialed.
THEOREM TargetSurvivesHolds == Spec => TargetSurvives
<1>1. GatewayInv /\ [Next]_vars =>
        [target # None /\ target' = None =>
           expect' = 0 \/ expect = 0 \/ exps'[expect'].key # exps[expect].key]_vars
  BY TargetStep
<1> QED
  BY <1>1, GatewayInvariant, PTL DEF Spec, TargetSurvives

-----------------------------------------------------------------------------
(* The updater. *)

\* The updater is at a release: it has found one, and has not given it up.
AtRelease == {"download", "stage", "idle", "swap", "moving", "undo", "restart", "back"}

\* The files are being moved, or put back, or all wait for the hand-over.
Touched == {"moving", "undo", "restart", "back"}

\* Where the updater is, with what it has there: one file at most half moved.
Placed ==
  /\ pc = "off" <=> ver = 0
  /\ pc \in AtRelease => tag \in Tags
  /\ pc # "moving" => half = {}
  /\ pc \notin {"moving", "undo", "back"} => todo = {}
  /\ \A f, g \in half : f = g
  /\ prover => online

\* What has failed is not staged, in the file either, nor is the updater at it but by the
\* person's command; once the moves are over nothing is staged.
Resting ==
  /\ mem.staged \notin mem.failed /\ disk.staged \notin disk.failed
  /\ pc \in AtRelease /\ mode # "hand" => tag \notin mem.failed
  /\ pc \in {"restart", "back"} => mem.staged = 0

\* Before the moves the install is whole, and the running program's; what is unpacked is
\* the release to come.
BeforeMoves ==
  /\ pc \notin Touched /\ ver # 0 => root = Whole(ver)
  /\ ver = 0 => \E t \in Tags : root = Whole(t)
  /\ pc \in {"idle", "swap"} => stage = Whole(tag)

\* The program's file is aside, or has gone after the service's first answer (proven).
IsAside(f) == prev[f] = ver \/ (online /\ prev[f] = 0)

\* Among the moves each file is the program's, aside, or the release's with the program's
\* aside.
Among ==
  pc = "moving" =>
    \A f \in Files :
      /\ f \in todo \ half => root[f] = ver
      /\ f \notin todo \ half => IsAside(f)
      /\ f \in todo => stage[f] = tag
      /\ f \notin todo => root[f] = tag

\* After the moves the release is in place and the whole program aside.
AfterMoves == pc = "restart" => root = Whole(tag) /\ \A f \in Files : IsAside(f)

\* While they are undone each file is the program's, or it is aside and has yet to go back.
GoingBack ==
  /\ pc \in {"undo", "back"} =>
       \A f \in Files : IF f \in todo THEN IsAside(f) ELSE root[f] = ver
  /\ pc = "back" => \A f \in todo : root[f] = tag

Recoverable == torn \/ lost \/ (BeforeMoves /\ Among /\ AfterMoves /\ GoingBack)

UpdaterInv == UpdaterTypeOK /\ Placed /\ Resting

-----------------------------------------------------------------------------
(* The types. *)

\* What is saved is a state of the updater's, in memory and in the file.
LEMMA SaveTypes ==
  ASSUME NEW s \in State, disk \in State, Save(s)
  PROVE  mem' \in State /\ disk' \in State
BY DEF Save

\* The types, for the provers.
LEMMA TypesApart ==
  UpdaterTypeOK <=>
    /\ latest \in Tags
    /\ root \in [Files -> {0} \cup Tags] /\ prev \in [Files -> {0} \cup Tags]
    /\ stage \in [Files -> {0} \cup Tags]
    /\ got \in {0} \cup Tags /\ disk \in State /\ mem \in State
    /\ ver \in {0} \cup Tags /\ tag \in {0} \cup Tags
    /\ mode \in {"launch", "loop", "hand"} /\ pc \in PCs
    /\ half \subseteq Files /\ todo \subseteq Files /\ half \subseteq todo
    /\ prover \in BOOLEAN /\ online \in BOOLEAN /\ session \in BOOLEAN /\ torn \in BOOLEAN
    /\ lost \in BOOLEAN /\ faults \in 0 .. MaxFaults /\ days \in 0 .. MaxDays
BY DEF UpdaterTypeOK

\* Every variable keeps its type.
LEMMA TypeStep == ASSUME UpdaterTypeOK, Placed, [UpdaterNext]_updaterVars PROVE UpdaterTypeOK'
<1> USE UpdaterAssumption DEF Tags, NoFiles, Whole
<1>1. CASE UNCHANGED updaterVars
  BY <1>1 DEF UpdaterTypeOK, updaterVars, install, run
<1>2. ASSUME NEW m \in {"launch", "hand"}, Start(m) PROVE UpdaterTypeOK'
  <2>1. mem' \in State /\ disk' \in State
    <3>1. (IF m = "launch" THEN Announced(disk) ELSE disk) \in State
      BY TypesApart, <1>2 DEF Announced, State
    <3> QED
      BY <3>1, <1>2, SaveTypes, TypesApart DEF Start
  <2>2. ver' \in Tags
    BY <1>2, TypesApart DEF Start
  <2> QED
    BY <1>2, <2>1, <2>2 DEF UpdaterTypeOK, Start, install, PCs
<1>3. CASE Finding
  <2>1. CASE UpToDate
    <3>1. mem' \in State /\ disk' \in State
      <4>1. [mem EXCEPT !.staged = 0] \in State
        BY TypesApart DEF State
      <4> QED
        BY <4>1, <2>1, SaveTypes, TypesApart DEF UpToDate
    <3> QED
      BY <2>1, <3>1 DEF UpdaterTypeOK, UpToDate, Rest, Ended, PCs
  <2>2. CASE NotStaged
    <3>1. mem' \in State /\ disk' \in State
      <4>1. [mem EXCEPT !.staged = 0] \in State
        BY TypesApart DEF State
      <4> QED
        BY <4>1, <2>2, SaveTypes, TypesApart DEF NotStaged
    <3> QED
      BY <2>2, <3>1 DEF UpdaterTypeOK, NotStaged, Rest, Ended, PCs, install
  <2>3. CASE Newer
    BY <2>3 DEF UpdaterTypeOK, Newer, GoesTo, PCs
  <2>4. CASE Download
    <3>1. mem' \in State /\ disk' \in State
      <4>1. [mem EXCEPT !.staged = tag] \in State
        BY TypesApart DEF State
      <4> QED
        BY <4>1, <2>4, SaveTypes, TypesApart DEF Download
    <3> QED
      BY <2>4, <3>1 DEF UpdaterTypeOK, Download, GoesTo, PCs
  <2> QED
    BY <1>3, <2>1, <2>2, <2>3, <2>4 DEF Finding
<1>4. CASE Placing
  <2>1. CASE Stage
    BY <2>1 DEF UpdaterTypeOK, Stage, GoesTo, PCs
  <2>2. CASE Idle \/ SwapBegins
    BY <2>2 DEF UpdaterTypeOK, Idle, SwapBegins, GoesTo, PCs, install
  <2>3. CASE SwapEnds
    <3>1. mem' \in State /\ disk' \in State
      <4>1. [mem EXCEPT !.previous = TRUE, !.installed = tag, !.staged = 0] \in State
        BY TypesApart DEF State
      <4> QED
        BY <4>1, <2>3, SaveTypes, TypesApart DEF SwapEnds
    <3> QED
      BY <2>3, <3>1 DEF UpdaterTypeOK, SwapEnds, Ended, PCs
  <2>4. CASE Restart
    BY <2>4 DEF UpdaterTypeOK, Restart, Ended, PCs, install
  <2>5. ASSUME NEW f \in Files, Aside(f) PROVE UpdaterTypeOK'
    BY <2>5 DEF UpdaterTypeOK, Aside
  <2>6. ASSUME NEW f \in Files, InPlace(f) PROVE UpdaterTypeOK'
    BY <2>6 DEF UpdaterTypeOK, InPlace
  <2> QED
    BY <1>4, <2>1, <2>2, <2>3, <2>4, <2>5, <2>6 DEF Placing
<1>5. ASSUME tag \in Tags, Refused
      PROVE  mem' \in State /\ disk' \in State
  <2>1. [mem EXCEPT !.failed = @ \cup {tag}, !.staged = 0] \in State
    BY <1>5, TypesApart DEF State
  <2> QED
    BY <1>5, <2>1, SaveTypes, TypesApart DEF Refused
<1>6. ASSUME Fault PROVE faults' \in 0 .. MaxFaults
  BY <1>6, TypesApart DEF Fault
<1>7. CASE Failing
  <2>1. CASE CheckFails
    <3>1. mem' \in State /\ disk' \in State
      BY <2>1, SaveTypes, TypesApart DEF CheckFails
    <3> QED
      BY <2>1, <3>1, <1>6 DEF UpdaterTypeOK, CheckFails, Rest, Ended, PCs, install
  <2>2. CASE DownloadFails
    <3>1. mem' \in State /\ disk' \in State
      BY <2>2, <1>5 DEF DownloadFails, Placed, AtRelease
    <3> QED
      BY <2>2, <3>1, <1>6 DEF UpdaterTypeOK, DownloadFails, Refused, Rest, Ended, PCs
  <2>3. CASE StageFails
    <3>1. mem' \in State /\ disk' \in State
      BY <2>3, <1>5 DEF StageFails, Placed, AtRelease
    <3> QED
      BY <2>3, <3>1, <1>6 DEF UpdaterTypeOK, StageFails, Refused, Rest, Ended, PCs
  <2>4. CASE SwapFails
    BY <2>4, <1>6 DEF UpdaterTypeOK, SwapFails, Moved, GoesTo, PCs, install
  <2>5. CASE RestartFails
    BY <2>5, <1>6 DEF UpdaterTypeOK, RestartFails, GoesTo, PCs, install, Placed
  <2>6. ASSUME NEW f \in Files, MoveBackFails(f) PROVE UpdaterTypeOK'
    <3>1. root' \in [Files -> {0} \cup Tags] /\ half' \subseteq todo'
      BY <2>6, TypesApart DEF MoveBackFails, Placed
    <3> QED
      BY <2>6, <3>1, <1>6 DEF UpdaterTypeOK, MoveBackFails
  <2> QED
    BY <1>7, <2>1, <2>2, <2>3, <2>4, <2>5, <2>6 DEF Failing
<1>14. CASE Undoing
  <2>1. CASE SwapUndone
    <3>1. mem' \in State /\ disk' \in State
      BY <2>1, <1>5 DEF SwapUndone, Placed, AtRelease
    <3> QED
      BY <2>1, <3>1 DEF UpdaterTypeOK, SwapUndone, RemoveAside, Refused, Rest, Ended, PCs
  <2>2. CASE RestartUndone
    <3>1. mem' \in State /\ disk' \in State
      <4>1. [mem EXCEPT !.previous = FALSE, !.installed = 0, !.failed = @ \cup {tag}] \in State
        <5>1. tag \in Tags /\ mem \in State
          BY <2>2, TypesApart DEF RestartUndone, Placed, AtRelease
        <5> QED
          BY <5>1 DEF State
      <4> QED
        BY <4>1, <2>2, SaveTypes, TypesApart DEF RestartUndone
    <3> QED
      BY <2>2, <3>1 DEF UpdaterTypeOK, RestartUndone, RemoveAside, Ended, PCs
  <2>3. ASSUME NEW f \in Files, MoveBack(f) PROVE UpdaterTypeOK'
    <3>1. /\ root' \in [Files -> {0} \cup Tags] /\ prev' \in [Files -> {0} \cup Tags]
          /\ half' \subseteq todo' /\ lost' \in BOOLEAN
      BY <2>3, TypesApart DEF MoveBack, Placed
    <3> QED
      BY <2>3, <3>1 DEF UpdaterTypeOK, MoveBack
  <2> QED
    BY <1>14, <2>1, <2>2, <2>3 DEF Undoing
<1>8. CASE Crash
  BY <1>8, <1>6 DEF UpdaterTypeOK, Crash, Ended, PCs, install
<1>9. CASE Online
  BY <1>9, TypesApart DEF UpdaterTypeOK, Online, State, install
<1>10. CASE RemovePrevious
  <2>1. mem' \in State /\ disk' \in State
    <3>1. [mem EXCEPT !.previous = FALSE] \in State
      BY TypesApart DEF State
    <3> QED
      BY <3>1, <1>10, SaveTypes, TypesApart DEF RemovePrevious
  <2> QED
    BY <1>10, <2>1 DEF UpdaterTypeOK, RemovePrevious
<1>15. ASSUME NEW f \in Files, RemoveSome(f) PROVE UpdaterTypeOK'
  BY <1>15 DEF UpdaterTypeOK, RemoveSome, run
<1>11. CASE NewRelease
  BY <1>11 DEF UpdaterTypeOK, NewRelease, install, run
<1>12. CASE DayPasses
  BY <1>12, TypesApart DEF UpdaterTypeOK, DayPasses, State, install
<1>13. ASSUME NEW on \in BOOLEAN, Session(on) PROVE UpdaterTypeOK'
  BY <1>13 DEF UpdaterTypeOK, Session, install
<1> QED
  BY <1>1, <1>2, <1>3, <1>4, <1>7, <1>8, <1>9, <1>10, <1>11, <1>12, <1>13, <1>14, <1>15
     DEF UpdaterNext, ByHand

-----------------------------------------------------------------------------
(* Where the updater is. *)

\* A step leaves the updater at a release, with what it moves, only among the moves.
LEMMA PlacedStep == ASSUME UpdaterTypeOK, Placed, [UpdaterNext]_updaterVars PROVE Placed'
<1> USE DEF Placed, AtRelease
<1>1. CASE UNCHANGED updaterVars
  BY <1>1 DEF updaterVars, run
<1>2. ASSUME NEW m \in {"launch", "hand"}, Start(m) PROVE Placed'
  <2>1. ver' # 0
    BY <1>2 DEF Start
  <2> QED
    BY <1>2, <2>1 DEF Start
<1>3. CASE Rest /\ pc \in PCs \ {"off", "restart"}
  BY <1>3 DEF Rest, Ended, PCs
<1>4. CASE Finding
  <2>1. CASE UpToDate \/ NotStaged
    BY <2>1, <1>3, TypesApart DEF UpToDate, NotStaged, PCs
  <2>2. CASE Newer \/ Download
    BY <2>2, TypesApart DEF Newer, Download, GoesTo, Tags
  <2> QED
    BY <1>4, <2>1, <2>2 DEF Finding
<1>5. CASE Placing
  <2>1. CASE Stage \/ Idle \/ SwapBegins
    BY <2>1, TypesApart DEF Stage, Idle, SwapBegins, GoesTo
  <2>2. CASE SwapEnds
    BY <2>2, TypesApart DEF SwapEnds, Ended
  <2>3. CASE Restart
    BY <2>3 DEF Restart, Ended
  <2>4. ASSUME NEW f \in Files, Aside(f) \/ InPlace(f) PROVE Placed'
    BY <2>4 DEF Aside, InPlace
  <2> QED
    BY <1>5, <2>1, <2>2, <2>3, <2>4 DEF Placing
<1>6. CASE Failing
  <2>1. CASE CheckFails
    BY <2>1, <1>3, TypesApart DEF CheckFails, PCs
  <2>2. CASE DownloadFails \/ StageFails
    BY <2>2, <1>3, TypesApart DEF DownloadFails, StageFails, Refused, PCs
  <2>3. CASE SwapFails \/ RestartFails
    BY <2>3 DEF SwapFails, RestartFails, GoesTo
  <2>4. ASSUME NEW f \in Files, MoveBackFails(f) PROVE Placed'
    BY <2>4 DEF MoveBackFails
  <2> QED
    BY <1>6, <2>1, <2>2, <2>3, <2>4 DEF Failing
<1>11. CASE Undoing
  <2>1. CASE SwapUndone
    BY <2>1, <1>3, TypesApart DEF SwapUndone, Refused, PCs
  <2>2. CASE RestartUndone
    BY <2>2 DEF RestartUndone, Ended
  <2>3. ASSUME NEW f \in Files, MoveBack(f) PROVE Placed'
    BY <2>3 DEF MoveBack
  <2> QED
    BY <1>11, <2>1, <2>2, <2>3 DEF Undoing
<1>12. ASSUME NEW f \in Files, RemoveSome(f) PROVE Placed'
  BY <1>12 DEF RemoveSome, run
<1>7. CASE Crash
  BY <1>7 DEF Crash, Ended
<1>8. CASE Online \/ RemovePrevious
  BY <1>8 DEF Online, RemovePrevious
<1>9. CASE NewRelease \/ DayPasses
  BY <1>9 DEF NewRelease, DayPasses, run, Tags
<1>10. ASSUME NEW on \in BOOLEAN, Session(on) PROVE Placed'
  BY <1>10 DEF Session
<1> QED
  BY <1>1, <1>2, <1>4, <1>5, <1>6, <1>7, <1>8, <1>9, <1>10, <1>11, <1>12 DEF UpdaterNext, ByHand

-----------------------------------------------------------------------------
(* What has failed rests. *)

\* Nothing failed stays staged: what a step saves, or forgets to save, is no exception.
LEMMA RestingStep == ASSUME UpdaterTypeOK, Placed, Resting, [UpdaterNext]_updaterVars PROVE Resting'
<1> DEFINE Rests(s) == s.staged \notin s.failed
<1> DEFINE Quiet ==
      /\ pc \in AtRelease /\ mode # "hand" => tag \notin mem.failed
      /\ pc \in {"restart", "back"} => mem.staged = 0
<1>0. /\ mem \in State /\ disk \in State /\ Rests(mem) /\ Rests(disk) /\ 0 \notin mem.failed
      /\ 0 \notin disk.failed /\ Quiet
  BY TypesApart DEF Resting, State, Tags
<1>1. ASSUME NEW s \in State, Save(s), Rests(s) PROVE Rests(mem') /\ Rests(disk')
  BY <1>0, <1>1 DEF Save
<1>2. ASSUME Rests(mem'), Rests(disk'), Quiet' PROVE Resting'
  BY <1>2 DEF Resting, AtRelease
<1>3. ASSUME UNCHANGED <<mem, disk>> PROVE Rests(mem') /\ Rests(disk')
  BY <1>0, <1>3
<1>4. CASE UNCHANGED updaterVars
  BY <1>4, <1>0, <1>2 DEF updaterVars, run, AtRelease
<1>5. ASSUME NEW m \in {"launch", "hand"}, Start(m) PROVE Resting'
  <2>1. (IF m = "launch" THEN Announced(disk) ELSE disk) \in State
    BY <1>0 DEF Announced, State
  <2>2. Rests(IF m = "launch" THEN Announced(disk) ELSE disk)
    BY <1>0 DEF Announced, State
  <2>3. Rests(mem') /\ Rests(disk')
    BY <2>1, <2>2, <1>1, <1>5 DEF Start
  <2> QED
    BY <2>3, <1>2, <1>5 DEF Start, AtRelease
<1>6. ASSUME Rest PROVE Quiet'
  BY <1>6 DEF Rest, Ended, AtRelease
<1>7. ASSUME Save([mem EXCEPT !.staged = 0]) PROVE Rests(mem') /\ Rests(disk')
  <2>1. [mem EXCEPT !.staged = 0] \in State
    BY <1>0 DEF State
  <2>2. Rests([mem EXCEPT !.staged = 0])
    BY <1>0 DEF State
  <2> QED
    BY <2>1, <2>2, <1>1, <1>7
<1>8. CASE Finding
  <2>1. CASE UpToDate
    BY <2>1, <1>2, <1>3, <1>6, <1>7 DEF UpToDate
  <2>2. CASE NotStaged
    BY <2>2, <1>2, <1>3, <1>6, <1>7 DEF NotStaged
  <2>3. CASE Newer
    <3>1. Rests(mem') /\ Rests(disk')
      BY <2>3, <1>3 DEF Newer
    <3>2. Quiet'
      BY <2>3, <1>0, TypesApart DEF Newer, GoesTo, AtRelease, StagedThere
    <3> QED
      BY <3>1, <3>2, <1>2
  <2>4. CASE Download
    <3>1. Rests(mem') /\ Rests(disk') /\ mem'.failed = mem.failed
      <4>1. CASE mode = "loop"
        <5>1. [mem EXCEPT !.staged = tag] \in State
          BY <1>0, TypesApart DEF State
        <5>2. Rests([mem EXCEPT !.staged = tag])
          BY <1>0, <2>4, <4>1 DEF State, Download, AtRelease
        <5> QED
          BY <5>1, <5>2, <1>0, <1>1, <2>4, <4>1 DEF Download, Save, State
      <4> QED
        BY <4>1, <2>4, <1>3 DEF Download
    <3>2. Quiet'
      BY <2>4, <3>1, <1>0 DEF Download, GoesTo, AtRelease
    <3> QED
      BY <3>1, <3>2, <1>2
  <2> QED
    BY <1>8, <2>1, <2>2, <2>3, <2>4 DEF Finding
<1>9. CASE Placing
  <2>1. CASE Stage \/ Idle \/ SwapBegins
    <3>1. Quiet'
      BY <2>1, <1>0 DEF Stage, Idle, SwapBegins, GoesTo, AtRelease
    <3> QED
      BY <3>1, <2>1, <1>2, <1>3 DEF Stage, Idle, SwapBegins
  <2>2. CASE SwapEnds
    <3> DEFINE s == [mem EXCEPT !.previous = TRUE, !.installed = tag, !.staged = 0]
    <3>1. s \in State /\ Rests(s) /\ s.failed = mem.failed /\ s.staged = 0
      BY <1>0, TypesApart DEF State
    <3>2. Rests(mem') /\ Rests(disk') /\ mem' = s
      BY <3>1, <2>2, <1>1 DEF SwapEnds, Save
    <3>3. Quiet'
      BY <3>1, <3>2, <2>2, <1>0 DEF SwapEnds, Ended, AtRelease
    <3> QED
      BY <3>2, <3>3, <1>2
  <2>3. CASE Restart
    BY <2>3, <1>2, <1>3 DEF Restart, Ended, AtRelease
  <2>4. ASSUME NEW f \in Files, Aside(f) \/ InPlace(f) PROVE Resting'
    <3>1. Quiet'
      BY <2>4, <1>0 DEF Aside, InPlace, AtRelease
    <3> QED
      BY <3>1, <2>4, <1>2, <1>3 DEF Aside, InPlace
  <2> QED
    BY <1>9, <2>1, <2>2, <2>3, <2>4 DEF Placing
\* What is refused is held against the release, and no longer staged.
<1>17. ASSUME pc \in AtRelease, Refused PROVE Resting'
  <2> DEFINE s == [mem EXCEPT !.failed = @ \cup {tag}, !.staged = 0]
  <2>1. tag \in Tags
    BY <1>17 DEF Placed
  <2>2. s.staged = 0 /\ s.failed = mem.failed \cup {tag} /\ s \in State
    BY <1>0, <2>1 DEF State
  <2>3. tag # 0
    BY <2>1 DEF Tags
  <2>4. Rests(s)
    BY <1>0, <2>2, <2>3
  <2>5. Rests(mem') /\ Rests(disk')
    BY <1>17, <2>4, <2>2, <1>1, <1>3 DEF Refused
  <2> QED
    BY <1>17, <2>5, <1>2, <1>6 DEF Refused
<1>10. CASE Failing
  <2>1. CASE CheckFails
    <3>1. Rests(mem') /\ Rests(disk')
      BY <2>1, <1>0, <1>1, <1>3 DEF CheckFails
    <3> QED
      BY <3>1, <2>1, <1>2, <1>6 DEF CheckFails
  <2>2. CASE DownloadFails \/ StageFails
    BY <2>2, <1>17 DEF DownloadFails, StageFails, AtRelease
  <2>3. CASE SwapFails \/ RestartFails
    <3>1. Quiet'
      BY <2>3, <1>0 DEF SwapFails, RestartFails, GoesTo, AtRelease
    <3> QED
      BY <3>1, <2>3, <1>2, <1>3 DEF SwapFails, RestartFails
  <2>4. ASSUME NEW f \in Files, MoveBackFails(f) PROVE Resting'
    <3>1. Quiet'
      BY <2>4, <1>0 DEF MoveBackFails, AtRelease
    <3> QED
      BY <3>1, <2>4, <1>2, <1>3 DEF MoveBackFails
  <2> QED
    BY <1>10, <2>1, <2>2, <2>3, <2>4 DEF Failing
<1>18. CASE Undoing
  <2>1. CASE SwapUndone
    BY <2>1, <1>17 DEF SwapUndone, AtRelease
  <2>2. CASE RestartUndone
    <3> DEFINE s == [mem EXCEPT !.previous = FALSE, !.installed = 0, !.failed = @ \cup {tag}]
    <3>1. tag \in Tags /\ tag # mem.staged
      BY <1>0, <2>2 DEF RestartUndone, Placed, AtRelease, Tags
    <3>2. s \in State /\ Rests(s)
      BY <1>0, <3>1 DEF State, Tags
    <3>3. Rests(mem') /\ Rests(disk')
      BY <3>2, <2>2, <1>1 DEF RestartUndone
    <3> QED
      BY <3>3, <2>2, <1>2 DEF RestartUndone, Ended, AtRelease
  <2>3. ASSUME NEW f \in Files, MoveBack(f) PROVE Resting'
    <3>1. Quiet'
      BY <2>3, <1>0 DEF MoveBack, AtRelease
    <3> QED
      BY <3>1, <2>3, <1>2, <1>3 DEF MoveBack
  <2> QED
    BY <1>18, <2>1, <2>2, <2>3 DEF Undoing
<1>19. ASSUME NEW f \in Files, RemoveSome(f) PROVE Resting'
  <2>1. Quiet'
    BY <1>19, <1>0 DEF RemoveSome, run, AtRelease
  <2> QED
    BY <2>1, <1>19, <1>2, <1>3 DEF RemoveSome, run
<1>11. CASE Crash
  BY <1>11, <1>2, <1>3 DEF Crash, Ended, AtRelease
<1>12. CASE Online
  <2>1. Quiet'
    BY <1>12, <1>0 DEF Online, AtRelease
  <2> QED
    BY <2>1, <1>12, <1>2, <1>3 DEF Online
<1>13. CASE RemovePrevious
  <2>1. [mem EXCEPT !.previous = FALSE] \in State /\ Rests([mem EXCEPT !.previous = FALSE])
    BY <1>0 DEF State
  <2>2. /\ Rests(mem') /\ Rests(disk')
        /\ mem'.failed = mem.failed /\ mem'.staged = mem.staged
    BY <2>1, <1>13, <1>1, <1>0 DEF RemovePrevious, Save, State
  <2>3. Quiet'
    BY <2>2, <1>13, <1>0 DEF RemovePrevious, AtRelease
  <2> QED
    BY <2>2, <2>3, <1>2
<1>14. CASE NewRelease
  BY <1>14, <1>0, <1>2, <1>3 DEF NewRelease, run, AtRelease
<1>15. CASE DayPasses
  <2>1. mem'.failed = {} /\ disk'.failed = {} /\ mem'.staged = mem.staged
    BY <1>15, <1>0 DEF DayPasses, State
  <2>2. Quiet'
    BY <2>1, <1>15, <1>0 DEF DayPasses
  <2> QED
    BY <2>1, <2>2, <1>2
<1>16. ASSUME NEW on \in BOOLEAN, Session(on) PROVE Resting'
  <2>1. Quiet'
    BY <1>16, <1>0 DEF Session, AtRelease
  <2> QED
    BY <2>1, <1>16, <1>2, <1>3 DEF Session
<1> QED
  BY <1>4, <1>5, <1>8, <1>9, <1>10, <1>11, <1>12, <1>13, <1>14, <1>15, <1>16, <1>18, <1>19
     DEF UpdaterNext, ByHand

-----------------------------------------------------------------------------
(* The install. *)

\* A program that ends, or an updater that rests, with the install whole leaves it so.
LEMMA BeforeHolds ==
  ASSUME NEW t \in Tags, root' = Whole(t), ver' \in {0, t}, pc' \notin AtRelease
  PROVE  Recoverable'
BY DEF Recoverable, BeforeMoves, Among, AfterMoves, GoingBack, AtRelease

\* A step that leaves the files, the run's place and what it is at leaves the install; what
\* is aside may go once the service has answered.
LEMMA InstallStays ==
  ASSUME Recoverable, UNCHANGED <<root, stage, ver, pc, tag, half, todo>>,
         torn => torn', lost => lost', online => online',
         \A f \in Files : prev'[f] = prev[f] \/ (online' /\ prev'[f] = 0),
         todo \subseteq Files
  PROVE  Recoverable'
<1>1. \A f \in Files : IsAside(f) => IsAside(f)'
  BY DEF IsAside
<1> QED
  BY <1>1 DEF Recoverable, BeforeMoves, Among, AfterMoves, GoingBack

\* A step that has the install whole before it and among no moves after it leaves it whole.
LEMMA StaysBefore ==
  ASSUME Recoverable, UNCHANGED <<root, ver, torn, lost>>,
         pc \notin Touched, pc' \notin Touched,
         pc' \in {"idle", "swap"} => stage' = Whole(tag')
  PROVE  Recoverable'
BY DEF Recoverable, BeforeMoves, Among, AfterMoves, GoingBack, Touched

\* The program at work is a release.
LEMMA Running == ASSUME UpdaterTypeOK, ver # 0 PROVE ver \in Tags
BY DEF UpdaterTypeOK

\* When all that was to go back has gone back, the program's files are in place.
LEMMA Back ==
  ASSUME UpdaterTypeOK, GoingBack, pc \in {"undo", "back"}, todo = {}
  PROVE  root = Whole(ver)
<1>1. \A f \in Files : root[f] = ver
  BY DEF GoingBack
<1> QED
  BY <1>1, TypesApart DEF Whole

\* A run that was cut off, or a file that did not go back, stays on record.
LEMMA OnRecord ==
  ASSUME [UpdaterNext]_updaterVars
  PROVE  (torn => torn') /\ (lost => lost')
<1>1. CASE UNCHANGED updaterVars
  BY <1>1 DEF updaterVars
<1>2. ASSUME NEW m \in {"launch", "hand"}, Start(m) PROVE UNCHANGED <<torn, lost>>
  BY <1>2 DEF Start
<1>3. CASE Finding
  BY <1>3 DEF Finding, UpToDate, NotStaged, Newer, Download
<1>4. CASE Placing
  BY <1>4 DEF Placing, Stage, Idle, SwapBegins, SwapEnds, Restart, Aside, InPlace
<1>5. CASE Failing
  <2>1. ASSUME NEW f \in Files, MoveBackFails(f) PROVE torn' = torn /\ lost'
    BY <2>1 DEF MoveBackFails
  <2>2. CASE RestartFails
    BY <2>2, Zenon DEF RestartFails
  <2>3. CASE CheckFails \/ DownloadFails \/ StageFails \/ SwapFails
    BY <2>3 DEF CheckFails, DownloadFails, StageFails, SwapFails
  <2> QED
    BY <1>5, <2>1, <2>2, <2>3 DEF Failing
<1>6. CASE Undoing
  <2>1. ASSUME NEW f \in Files, MoveBack(f) PROVE torn' = torn /\ (lost => lost')
    BY <2>1, Zenon DEF MoveBack
  <2>2. CASE SwapUndone \/ RestartUndone
    BY <2>2 DEF SwapUndone, RestartUndone
  <2> QED
    BY <1>6, <2>1, <2>2 DEF Undoing
<1>7. CASE Crash \/ Online \/ RemovePrevious \/ NewRelease \/ DayPasses
  <2>1. CASE Crash
    BY <2>1, Zenon DEF Crash
  <2>2. CASE Online \/ RemovePrevious \/ NewRelease \/ DayPasses
    BY <2>2 DEF Online, RemovePrevious, NewRelease, DayPasses
  <2> QED
    BY <1>7, <2>1, <2>2
<1>8. ASSUME NEW f \in Files, RemoveSome(f) PROVE UNCHANGED <<torn, lost>>
  BY <1>8 DEF RemoveSome
<1>9. ASSUME NEW on \in BOOLEAN, Session(on) PROVE UNCHANGED <<torn, lost>>
  BY <1>9 DEF Session
<1> QED
  BY <1>1, <1>2, <1>3, <1>4, <1>5, <1>6, <1>7, <1>8, <1>9 DEF UpdaterNext, ByHand

\* Unless a run was cut off between two renames, or a file did not go back, the install is
\* the program's, or what makes it so again is aside, after every step.
LEMMA RecoverableStep ==
  ASSUME UpdaterTypeOK, Placed, Recoverable, [UpdaterNext]_updaterVars
  PROVE  Recoverable'
<1> USE UpdaterAssumption DEF Touched
<1> SUFFICES ASSUME ~torn, ~lost PROVE Recoverable'
  BY OnRecord DEF Recoverable
<1>2. BeforeMoves /\ Among /\ AfterMoves /\ GoingBack
  BY DEF Recoverable
<1>0. todo \subseteq Files
  BY TypesApart
<1>3. CASE UNCHANGED updaterVars
  BY <1>3, <1>0, InstallStays DEF updaterVars, install, run
<1>4. ASSUME NEW m \in {"launch", "hand"}, Start(m) PROVE Recoverable'
  <2>1. PICK t \in Tags : root = Whole(t)
    BY <1>2, <1>4 DEF BeforeMoves, Start
  <2>2. ver' = t
    BY <2>1, <1>4 DEF Start, Whole
  <2> QED
    BY <2>1, <2>2, <1>4, BeforeHolds DEF Start, install, AtRelease
\* The updater rests with the install whole, or the program ends with it.
<1>5. ASSUME Rest, ver \in Tags, root' = Whole(ver) PROVE Recoverable'
  BY <1>5, BeforeHolds DEF Rest, Ended, AtRelease
<1>6. ASSUME ver # 0, pc \notin Touched PROVE ver \in Tags /\ root = Whole(ver)
  BY <1>2, <1>6, Running DEF BeforeMoves
<1>7. CASE Finding
  <2>1. CASE UpToDate
    BY <2>1, <1>5, <1>6 DEF UpToDate, Placed
  <2>2. CASE NotStaged
    BY <2>2, <1>5, <1>6 DEF NotStaged, Placed, install
  <2>3. CASE Newer
    BY <2>3, StaysBefore DEF Newer, GoesTo
  <2>4. CASE Download
    BY <2>4, StaysBefore DEF Download, GoesTo
  <2> QED
    BY <1>7, <2>1, <2>2, <2>3, <2>4 DEF Finding
<1>8. CASE Placing
  <2>1. CASE Stage
    BY <2>1, StaysBefore DEF Stage, GoesTo
  <2>2. CASE Idle
    BY <2>2, <1>2, StaysBefore DEF Idle, GoesTo, install, BeforeMoves
  <2>3. CASE SwapBegins
    <3>1. root = Whole(ver) /\ stage = Whole(tag) /\ half = {}
      BY <2>3, <1>2, <1>6 DEF SwapBegins, BeforeMoves, Placed
    <3>2. Among'
      BY <2>3, <3>1 DEF SwapBegins, GoesTo, Among, Whole
    <3>3. BeforeMoves'
      BY <2>3, <1>2 DEF SwapBegins, GoesTo, BeforeMoves
    <3>4. AfterMoves' /\ GoingBack'
      BY <2>3 DEF SwapBegins, GoesTo, AfterMoves, GoingBack
    <3> QED
      BY <3>2, <3>3, <3>4 DEF Recoverable
  <2>4. ASSUME NEW f \in Files, Aside(f) PROVE Recoverable'
    <3>1. /\ pc = "moving" /\ half = {} /\ f \in todo /\ half' = {f} /\ todo' = todo
          /\ stage' = stage /\ ver' = ver /\ tag' = tag /\ pc' = pc
          /\ online' = online /\ root' = [root EXCEPT ![f] = 0] /\ prev' = [prev EXCEPT ![f] = root[f]]
      BY <2>4 DEF Aside
    <3>2. /\ \A g \in Files : root'[g] = IF g = f THEN 0 ELSE root[g]
          /\ \A g \in Files : prev'[g] = IF g = f THEN root[f] ELSE prev[g]
      BY <3>1, TypesApart
    <3>3. Among'
      <4> SUFFICES ASSUME NEW g \in Files
                   PROVE  /\ g \in todo' \ half' => root'[g] = ver'
                          /\ g \notin todo' \ half' => IsAside(g)'
                          /\ g \in todo' => stage'[g] = tag'
                          /\ g \notin todo' => root'[g] = tag'
        BY DEF Among
      <4>1. CASE g = f
        BY <4>1, <3>1, <3>2, <1>2 DEF Among, IsAside
      <4>2. CASE g # f
        BY <4>2, <3>1, <3>2, <1>2 DEF Among, IsAside
      <4> QED
        BY <4>1, <4>2
    <3>4. BeforeMoves' /\ AfterMoves' /\ GoingBack'
      BY <3>1, <1>2 DEF BeforeMoves, AfterMoves, GoingBack, Placed
    <3> QED
      BY <3>3, <3>4 DEF Recoverable
  <2>5. ASSUME NEW f \in Files, InPlace(f) PROVE Recoverable'
    <3>1. /\ pc = "moving" /\ f \in half /\ f \in todo /\ half' = {} /\ todo' = todo \ {f}
          /\ prev' = prev /\ ver' = ver /\ tag' = tag /\ pc' = pc
          /\ online' = online /\ root' = [root EXCEPT ![f] = stage[f]] /\ stage' = [stage EXCEPT ![f] = 0]
      BY <2>5, TypesApart DEF InPlace
    <3>2. half = {f}
      BY <3>1 DEF Placed
    <3>3. /\ \A g \in Files : root'[g] = IF g = f THEN stage[f] ELSE root[g]
          /\ \A g \in Files : stage'[g] = IF g = f THEN 0 ELSE stage[g]
      BY <3>1, TypesApart
    <3>4. Among'
      <4> SUFFICES ASSUME NEW g \in Files
                   PROVE  /\ g \in todo' \ half' => root'[g] = ver'
                          /\ g \notin todo' \ half' => IsAside(g)'
                          /\ g \in todo' => stage'[g] = tag'
                          /\ g \notin todo' => root'[g] = tag'
        BY DEF Among
      <4>1. CASE g = f
        BY <4>1, <3>1, <3>3, <3>2, <1>2 DEF Among, IsAside
      <4>2. CASE g # f
        BY <4>2, <3>1, <3>3, <3>2, <1>2 DEF Among, IsAside
      <4> QED
        BY <4>1, <4>2
    <3>5. BeforeMoves' /\ AfterMoves' /\ GoingBack'
      BY <3>1, <1>2 DEF BeforeMoves, AfterMoves, GoingBack, Placed
    <3> QED
      BY <3>4, <3>5 DEF Recoverable
  <2>6. CASE SwapEnds
    <3>1. pc = "moving" /\ root' = root /\ prev' = prev /\ tag \in Tags /\ ver \in Tags
      BY <2>6, Running DEF SwapEnds, Placed, AtRelease
    <3>2. root = Whole(tag) /\ \A f \in Files : IsAside(f)
      BY <2>6, <3>1, <1>2, TypesApart DEF SwapEnds, Among, Whole
    <3>3. CASE mode = "hand"
      BY <3>3, <2>6, <3>1, <3>2, BeforeHolds DEF SwapEnds, Ended, AtRelease
    <3>4. CASE mode # "hand"
      BY <3>4, <2>6, <3>1, <3>2
         DEF SwapEnds, Recoverable, BeforeMoves, Among, AfterMoves, GoingBack, IsAside, Tags
    <3> QED
      BY <3>3, <3>4
  <2>7. CASE Restart
    <3>1. root' = Whole(tag) /\ tag \in Tags
      BY <2>7, <1>2 DEF Restart, AfterMoves, install, Placed, AtRelease
    <3> QED
      BY <3>1, <2>7, BeforeHolds DEF Restart, Ended, AtRelease
  <2> QED
    BY <1>8, <2>1, <2>2, <2>3, <2>4, <2>5, <2>6, <2>7 DEF Placing
<1>9. CASE Failing
  <2>1. CASE CheckFails
    BY <2>1, <1>5, <1>6 DEF CheckFails, Placed, install
  <2>2. CASE DownloadFails
    BY <2>2, <1>5, <1>6 DEF DownloadFails, Refused, Placed
  <2>3. CASE StageFails
    BY <2>3, <1>5, <1>6 DEF StageFails, Refused, Placed
  <2>4. CASE SwapFails
    <3>1. /\ pc = "moving" /\ pc' = "undo" /\ todo' = Moved /\ ver' = ver /\ online' = online
          /\ root' = root /\ prev' = prev
      BY <2>4 DEF SwapFails, GoesTo, install
    <3>2. \A f \in Files : f \in Moved <=> f \notin todo \ half
      BY TypesApart DEF Moved
    <3>3. GoingBack'
      BY <3>1, <3>2, <1>2 DEF GoingBack, Among, IsAside
    <3>4. BeforeMoves' /\ Among' /\ AfterMoves'
      BY <3>1, <1>2 DEF BeforeMoves, Among, AfterMoves, Placed
    <3> QED
      BY <3>3, <3>4 DEF Recoverable
  <2>5. CASE RestartFails
    <3>1. CASE lost'
      BY <3>1 DEF Recoverable
    <3>2. CASE ~lost'
      <4>1. /\ pc = "restart" /\ pc' = "back" /\ todo' = Files /\ ver' = ver /\ online' = online
            /\ root' = root /\ prev' = prev /\ tag' = tag
        BY <2>5, <3>2 DEF RestartFails, GoesTo, install
      <4>2. GoingBack'
        BY <4>1, <1>2 DEF GoingBack, AfterMoves, IsAside, Whole
      <4>3. BeforeMoves' /\ Among' /\ AfterMoves'
        BY <4>1, <1>2 DEF BeforeMoves, Among, AfterMoves, Placed
      <4> QED
        BY <4>2, <4>3 DEF Recoverable
    <3> QED
      BY <3>1, <3>2
  <2>6. ASSUME NEW f \in Files, MoveBackFails(f) PROVE Recoverable'
    BY <2>6 DEF MoveBackFails, Recoverable
  <2> QED
    BY <1>9, <2>1, <2>2, <2>3, <2>4, <2>5, <2>6 DEF Failing
<1>15. CASE Undoing
  <2>1. CASE SwapUndone
    <3>1. ver \in Tags /\ root' = Whole(ver)
      BY <2>1, <1>2, Back, Running DEF SwapUndone, Placed
    <3> QED
      BY <3>1, <2>1, <1>5 DEF SwapUndone, Refused
  <2>2. CASE RestartUndone
    <3>1. ver \in Tags /\ root' = Whole(ver)
      BY <2>2, <1>2, Back, Running DEF RestartUndone, Placed
    <3> QED
      BY <3>1, <2>2, BeforeHolds DEF RestartUndone, Ended, AtRelease
  <2>3. ASSUME NEW f \in Files, MoveBack(f) PROVE Recoverable'
    <3>1. /\ pc \in {"undo", "back"} /\ f \in todo /\ todo' = todo \ {f}
          /\ pc' = pc /\ ver' = ver /\ online' = online /\ tag' = tag
          /\ root' = [root EXCEPT ![f] = prev[f]] /\ prev' = [prev EXCEPT ![f] = 0]
          /\ lost' = (lost \/ prev[f] = 0)
      BY <2>3 DEF MoveBack
    <3>2. CASE prev[f] = 0
      BY <3>1, <3>2 DEF Recoverable
    <3>3. CASE prev[f] # 0
      <4>1. /\ \A g \in Files : root'[g] = IF g = f THEN prev[f] ELSE root[g]
            /\ \A g \in Files : prev'[g] = IF g = f THEN 0 ELSE prev[g]
        BY <3>1, TypesApart
      <4>2. prev[f] = ver
        BY <3>1, <3>3, <1>2 DEF GoingBack, IsAside
      <4>3. \A g \in Files : IF g \in todo' THEN IsAside(g)' ELSE root'[g] = ver'
        <5> SUFFICES ASSUME NEW g \in Files
                     PROVE  IF g \in todo' THEN IsAside(g)' ELSE root'[g] = ver'
          OBVIOUS
        <5>1. CASE g = f
          BY <5>1, <3>1, <4>1, <4>2
        <5>2. CASE g # f
          BY <5>2, <3>1, <4>1, <1>2 DEF GoingBack, IsAside
        <5> QED
          BY <5>1, <5>2
      <4>4. pc' = "back" => \A g \in todo' : root'[g] = tag'
        BY <3>1, <4>1, <1>0, <1>2 DEF GoingBack
      <4>5. GoingBack' /\ BeforeMoves' /\ Among' /\ AfterMoves'
        BY <3>1, <4>3, <4>4, <1>2 DEF GoingBack, BeforeMoves, Among, AfterMoves, Placed
      <4> QED
        BY <4>5 DEF Recoverable
    <3> QED
      BY <3>2, <3>3
  <2> QED
    BY <1>15, <2>1, <2>2, <2>3 DEF Undoing
\* A crash that tears nothing is before the first move or after the last.
<1>10. CASE Crash
  <2>1. CASE torn'
    BY <2>1 DEF Recoverable
  <2>2. CASE ~torn'
    <3>1. /\ ver \in Tags /\ half = {} /\ todo \in {{}, Files} /\ root' = root
          /\ pc = "undo" => todo = {}
      BY <2>2, <1>10, Running DEF Crash, Between, install
    <3>2. \E t \in Tags : root = Whole(t)
      <4>1. CASE pc = "moving" /\ todo = {}
        BY <4>1, <1>2, TypesApart DEF Among, Whole, Placed, AtRelease
      <4>2. CASE pc = "moving" /\ todo = Files
        BY <4>2, <3>1, <1>2, TypesApart DEF Among, Whole
      <4>3. CASE pc = "restart"
        BY <4>3, <1>2 DEF AfterMoves, Placed, AtRelease
      <4>4. CASE pc \in {"undo", "back"} /\ todo = {}
        BY <4>4, <3>1, <1>2, Back
      <4>5. CASE pc = "back" /\ todo = Files
        BY <4>5, <1>2, TypesApart DEF GoingBack, Whole, Placed, AtRelease
      <4>6. CASE pc \notin Touched
        BY <4>6, <3>1, <1>6, <1>10 DEF Crash
      <4> QED
        BY <3>1, <4>1, <4>2, <4>3, <4>4, <4>5, <4>6
    <3> QED
      BY <3>1, <3>2, <1>10, BeforeHolds DEF Crash, Ended, AtRelease
  <2> QED
    BY <2>1, <2>2
<1>11. CASE Online
  BY <1>11, <1>0, InstallStays DEF Online, install
<1>12. CASE RemovePrevious
  <2>1. prover /\ online /\ (prev' = prev \/ prev' = NoFiles)
    BY <1>12 DEF RemovePrevious, Placed
  <2>2. \A f \in Files : prev'[f] = prev[f] \/ (online' /\ prev'[f] = 0)
    BY <2>1, <1>12 DEF RemovePrevious, NoFiles
  <2> QED
    BY <2>2, <1>12, <1>0, InstallStays DEF RemovePrevious
<1>16. ASSUME NEW f \in Files, RemoveSome(f) PROVE Recoverable'
  <2>1. \A g \in Files : prev'[g] = prev[g] \/ (online' /\ prev'[g] = 0)
    BY <1>16, TypesApart DEF RemoveSome, run, Placed
  <2> QED
    BY <2>1, <1>16, <1>0, InstallStays DEF RemoveSome, run
<1>13. CASE NewRelease \/ DayPasses
  BY <1>13, <1>0, InstallStays DEF NewRelease, DayPasses, install, run
<1>14. ASSUME NEW on \in BOOLEAN, Session(on) PROVE Recoverable'
  BY <1>14, <1>0, InstallStays DEF Session, install
<1> QED
  BY <1>3, <1>4, <1>7, <1>8, <1>9, <1>10, <1>11, <1>12, <1>13, <1>14, <1>15, <1>16
     DEF UpdaterNext, ByHand

-----------------------------------------------------------------------------
(* The theorems. *)

\* The updater starts with nothing at work and the install whole.
LEMMA UpdaterInitInvariant == UpdaterInit => UpdaterInv /\ Recoverable
<1> SUFFICES ASSUME UpdaterInit PROVE UpdaterInv /\ Recoverable
  OBVIOUS
<1>1. 1 \in Tags
  BY UpdaterAssumption DEF Tags
<1>2. UpdaterTypeOK
  <2>1. Empty \in State
    BY DEF Empty, State
  <2>2. Whole(1) \in [Files -> {0} \cup Tags] /\ NoFiles \in [Files -> {0} \cup Tags]
    BY <1>1 DEF Whole, NoFiles
  <2>3. faults \in 0 .. MaxFaults /\ days \in 0 .. MaxDays
    BY UpdaterAssumption DEF UpdaterInit
  <2> QED
    BY <1>1, <2>1, <2>2, <2>3, TypesApart DEF UpdaterInit, PCs
<1>3. Placed /\ Resting
  BY DEF UpdaterInit, Placed, Resting, Empty, AtRelease
<1>4. Recoverable
  BY <1>1 DEF UpdaterInit, Recoverable, BeforeMoves, Among, AfterMoves, GoingBack
<1> QED
  BY <1>2, <1>3, <1>4 DEF UpdaterInv

\* Every variable keeps its type, the updater is where its program is, and what has
\* failed is not staged.
THEOREM UpdaterInvariant == UpdaterSpec => []UpdaterInv
<1>1. UpdaterInit => UpdaterInv
  BY UpdaterInitInvariant
<1>2. UpdaterInv /\ [UpdaterNext]_updaterVars => UpdaterInv'
  BY TypeStep, PlacedStep, RestingStep DEF UpdaterInv
<1> QED
  BY <1>1, <1>2, PTL DEF UpdaterSpec

\* A release that failed is left alone for its day, at the next launch too, whatever was
\* saved or not, except by the person's own command (updater.go, FailedRecently).
THEOREM FailedRestsHolds == UpdaterSpec => []FailedRests
<1>1. UpdaterInv => FailedRests
  BY DEF UpdaterInv, Resting, FailedRests, AtRelease
<1> QED
  BY <1>1, UpdaterInvariant, PTL

\* Unless a run was cut off between two renames, or a file did not go back, what is in
\* place is the program's or the release's, and what is aside is the program's, never what
\* an earlier update left there; none of it goes but after the service's first answer
\* (install.go, Swap and undo; update.go, proven).
THEOREM InstallInvariant == UpdaterSpec => []Recoverable
<1>1. UpdaterInit => Recoverable
  BY UpdaterInitInvariant
<1>2. UpdaterInv /\ Recoverable /\ [UpdaterNext]_updaterVars => Recoverable'
  BY RecoverableStep DEF UpdaterInv
<1> QED
  BY <1>1, <1>2, UpdaterInvariant, PTL DEF UpdaterSpec

\* What cannot be put in place, or would not start, leaves the program that tried it,
\* whole, for any files and a bundle alike, whenever the service answers first: unless a
\* run was cut off between two renames, or a file was not aside any more or would not go
\* back (install.go, Swap and undo).
THEOREM ComesBackHolds == UpdaterSpec => ComesBack
<1>1. ASSUME UpdaterInv, Recoverable, SwapUndone \/ RestartUndone, ~torn, ~lost
      PROVE  root' = Whole(ver)
  <2>1. UpdaterTypeOK /\ GoingBack
    BY <1>1 DEF UpdaterInv, Recoverable
  <2> QED
    BY <1>1, <2>1, Back DEF SwapUndone, RestartUndone
<1>2. UpdaterInv /\ Recoverable =>
        [(SwapUndone \/ RestartUndone) /\ ~torn /\ ~lost => root' = Whole(ver)]_updaterVars
  BY <1>1
<1> QED
  BY <1>2, UpdaterInvariant, InstallInvariant, PTL DEF ComesBack
=============================================================================

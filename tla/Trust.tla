------------------------------- MODULE Trust -------------------------------
(***************************************************************************)
(* Which enclave a tunnel may be dialed to: internal/attest, the floors,   *)
(* internal/provenance and the policyAttester that puts them together.     *)
(*                                                                         *)
(* The service serves a policy, which the build's floors tighten and the   *)
(* attester keeps for five minutes; the enclave at the origin answers with *)
(* claims; the public registry holds signed records of its image, and a    *)
(* check that passed is kept for a week; the tunnel is then dialed anew,   *)
(* pinned to the key that was attested.  Another machine may answer at the *)
(* origin at each of these calls, and each call may fail.                  *)
(*                                                                         *)
(* Data is kept to what a check tells apart: releases are numbers, 0 for   *)
(* none; a key set stands for issuer, jwksUrl, swname and hwmodel, a       *)
(* project for the project and the image's path, stable for the STABLE and *)
(* the GPU rule.  Cryptography answers truly.                              *)
(***************************************************************************)
EXTENDS Naturals

CONSTANTS
  Signers, Digests, Sources, Projects, Hosts, Issuers,
  MaxRelease,
  Policies,  \* what the service may serve
  Floors,    \* the build's floors
  Enclaves,  \* the machines that may answer at the origin
  Records,   \* the Sigstore records of the public registry
  Host,      \* the suffix the origin's name falls under
  Dials,     \* dials at a time
  Absent

Releases == 0 .. MaxRelease

PolicyType ==
  [signers : SUBSET Signers, digests : SUBSET Digests, min : Releases, debug : BOOLEAN,
   stable : BOOLEAN, source : Sources \cup {Absent}, project : Projects \cup {Absent},
   hosts : SUBSET Hosts, issuer : Issuers]

EnclaveType ==
  [tls : Nat, digest : Digests, release : Releases, commit : Nat, signers : SUBSET Signers,
   debug : BOOLEAN, stable : BOOLEAN, project : Projects, issuer : Issuers]

RecordType ==
  [kind : {"signature", "provenance"}, digest : Digests, release : Releases, commit : Nat,
   source : Sources, built : Releases]

ASSUME TrustAssumption ==
  /\ Floors \in PolicyType /\ Policies \subseteq PolicyType
  /\ Enclaves \subseteq EnclaveType /\ Records \subseteq RecordType
  /\ Host \in Hosts /\ Absent \notin Sources \cup Projects \cup PolicyType

\* Floors has no list of digests (floors.go): images are named by who signed them.
ASSUME NoDigestFloor == Floors.digests = {}

\* A machine makes its TLS key itself and no other holds it: the token it shows
\* binds the key, and only its holder completes the pinned handshake.
ASSUME OneKeyEach == \A e, f \in Enclaves : e.tls = f.tls => e = f

-----------------------------------------------------------------------------
(* Policies: Validate, Floors.Apply, checkClaims. *)

\* A policy that could pin anything is refused.
Valid(p) == p.signers # {} \/ p.digests # {}

\* The served entries that are under one of the floor's (suffixUnderAny).
Kept(got, floor) == got \cap floor

\* The served value is the floor's, or there is none.
Same(got, floor) == got = floor \/ got = Absent

\* Apply's refusals: the served policy contradicts the floors.
Contradicts(f, p) ==
  \/ p.issuer # f.issuer
  \/ f.signers # {} /\ p.signers # {} /\ Kept(p.signers, f.signers) = {}
  \/ f.source # Absent /\ ~Same(p.source, f.source)
  \/ f.hosts # {} /\ p.hosts # {} /\ Kept(p.hosts, f.hosts) = {}
  \/ f.project # Absent /\ ~Same(p.project, f.project)

\* Bug: an empty served list stays empty.
CutNothing(got, floor) == IF floor = {} THEN got ELSE Kept(got, floor)

\* A served list is cut down to the floor's entries; an empty one becomes it.
Cut(got, floor) ==
  IF floor = {} THEN got ELSE IF got = {} THEN floor ELSE Kept(got, floor)

Filled(got, floor) == IF got = Absent THEN floor ELSE got

Tightened(f, p) ==
  [p EXCEPT !.signers = Cut(@, f.signers),
            !.min = IF @ < f.min THEN f.min ELSE @,
            !.debug = FALSE,
            !.stable = @ \/ f.stable,
            !.source = Filled(@, f.source),
            !.hosts = Cut(@, f.hosts),
            !.project = Filled(@, f.project)]

\* VerifyToken: signed with a key of jwksUrl, for this origin and this hour.
Token(p, e) == e.issuer = p.issuer

\* checkClaims, the token and the origin's name.
Meets(p, e) ==
  /\ p.hosts # {} => Host \in p.hosts
  /\ Token(p, e)
  /\ p.digests # {} => e.digest \in p.digests
  /\ p.min # 0 => e.release >= p.min
  /\ e.debug => p.debug
  /\ p.stable => e.stable
  /\ p.signers # {} => e.signers \cap p.signers # {}
  /\ p.project # Absent => e.project = p.project

-----------------------------------------------------------------------------
(* Provenance: Verifier.Verify. *)

\* Expect: what the attestation said of the image, and where its records live.
About(p, e) ==
  [digest |-> e.digest, release |-> e.release, commit |-> e.commit, source |-> p.source]

ExpectType ==
  [digest : Digests, release : Releases, commit : Nat, source : Sources \cup {Absent}]

\* fetchBundles: the records attached to the digest.
Attached(x) == {r \in Records : r.digest = x.digest}

\* identity: the certificate is of a run of the source's workflow at this release
\* and, when the image names one, at this commit.
Identified(r, x) ==
  r.release = x.release /\ r.source = x.source /\ (x.commit # 0 => r.commit = x.commit)

\* checkStatement: the provenance says the build was of this release.
States(r, x) == r.built = x.release

Proved(x) ==
  /\ \E r \in Attached(x) : r.kind = "signature" /\ Identified(r, x)
  /\ \E r \in Attached(x) : r.kind = "provenance" /\ Identified(r, x) /\ States(r, x)

VARIABLES
  policy, \* policyAttester.policy: the served one it was made from, or Absent
  old,    \* it was fetched more than five minutes ago
  known,  \* the provenance results of the last week, in memory and on disk
  dial    \* each dial: where it is, the policy it took, the enclave attested

trustVars == <<policy, old, known, dial>>

NoDial == [pc |-> "idle", policy |-> Absent, seen |-> Absent, with |-> Absent]

TrustTypeOK ==
  /\ policy \in Policies \cup {Absent} /\ old \in BOOLEAN
  /\ \A x \in known : x \in ExpectType
  /\ \A d \in Dials :
       /\ dial[d].pc \in {"idle", "attest", "records", "connect", "up"}
       /\ dial[d].policy \in Policies \cup {Absent}
       /\ {dial[d].seen, dial[d].with} \subseteq Enclaves \cup {Absent}

TrustInit ==
  /\ policy = Absent /\ old = FALSE /\ known = {} /\ dial = [d \in Dials |-> NoDial]

\* The policy a dial works under.
Under(d) == Tightened(Floors, dial[d].policy)

\* policyAttester.Verify, under its mutex: a policy that is old is fetched anew
\* (fetchPolicy), and one that is refused leaves the old one, to be fetched again.
Fetched(p) == Valid(p) /\ ~Contradicts(Floors, p)

TakePolicy(d) ==
  /\ dial[d].pc = "idle"
  /\ IF policy # Absent /\ ~old THEN UNCHANGED <<policy, old>>
     ELSE \E p \in Policies : Fetched(p) /\ policy' = p /\ old' = FALSE
  /\ dial' = [dial EXCEPT ![d].pc = "attest", ![d].policy = policy']
  /\ UNCHANGED known

\* attest.Verifier.Verify: whoever answers at the origin, with a fresh nonce and
\* the TLS key of this connection bound into the token.
Attest(d, e) ==
  /\ dial[d].pc = "attest" /\ Meets(Under(d), e)
  /\ dial' = [dial EXCEPT ![d].pc = "records", ![d].seen = e]
  /\ UNCHANGED <<policy, old, known>>

\* Bug: a result is kept by digest alone.
KnownDigest(x) == \E k \in known : k.digest = x.digest

\* cacheKey names all that was checked.
Known(x) == x \in known

Stored(x) == known \cup {x}

\* checkProvenance: no stamp or no source is refused.
CheckRecords(d) ==
  /\ dial[d].pc = "records"
  /\ LET x == About(Under(d), dial[d].seen)
     IN /\ x.release # 0 /\ x.source # Absent
        /\ Known(x) \/ Proved(x)
        /\ known' = Stored(x)
  /\ dial' = [dial EXCEPT ![d].pc = "connect"]
  /\ UNCHANGED <<policy, old>>

\* PinnedTLSConfig.
Pinned(d, e) == e.tls = dial[d].seen.tls

\* Dialer.Dial connects anew.
Connect(d, e) ==
  /\ dial[d].pc = "connect" /\ Pinned(d, e)
  /\ dial' = [dial EXCEPT ![d].pc = "up", ![d].with = e]
  /\ UNCHANGED <<policy, old, known>>

\* Any call may fail, or refuse; a tunnel ends.
Give(d) ==
  /\ dial[d].pc # "idle" /\ dial' = [dial EXCEPT ![d] = NoDial]
  /\ UNCHANGED <<policy, old, known>>

FiveMinutes == policy # Absent /\ ~old /\ old' = TRUE /\ UNCHANGED <<policy, known, dial>>

Week(x) == known' = known \ {x} /\ UNCHANGED <<policy, old, dial>>

\* The program starts anew: results are on disk.
StartsOver ==
  /\ policy # Absent /\ policy' = Absent /\ old' = FALSE
  /\ dial' = [d \in Dials |-> NoDial] /\ UNCHANGED known

TrustNext ==
  \/ \E d \in Dials : \/ TakePolicy(d) \/ CheckRecords(d) \/ Give(d)
                      \/ \E e \in Enclaves : Attest(d, e) \/ Connect(d, e)
  \/ FiveMinutes \/ StartsOver \/ \E x \in known : Week(x)

TrustSpec == TrustInit /\ [][TrustNext]_trustVars

-----------------------------------------------------------------------------
(* Properties. *)

\* The enclave a tunnel speaks to meets the policy as the service served it and,
\* whatever was served, the build's floors (Apply: "at least as strict as both").
MeetsBoth ==
  \A d \in Dials : dial[d].pc = "up" =>
    Meets(dial[d].policy, dial[d].with) /\ Meets([Floors EXCEPT !.debug = FALSE], dial[d].with)

\* Its image is proved to be built from the floors' source at the release it is
\* stamped with, from the registry now or in the last week.
RecordsHold ==
  \A d \in Dials : dial[d].pc = "up" =>
    /\ dial[d].with.release # 0
    /\ Proved(About(Under(d), dial[d].with))
    /\ Floors.source # Absent => Under(d).source = Floors.source
=============================================================================

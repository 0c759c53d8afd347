------------------------------ MODULE MCTrust ------------------------------
(***************************************************************************)
(* Trust for TLC: policies that are looser than the floors each way,       *)
(* machines that fail each check, and a registry that has whole records of *)
(* one image at one release, and half of another's.  Beside it the trust   *)
(* in a network camera: the two share nothing, so that one rests while the *)
(* other is at work.                                                       *)
(***************************************************************************)
EXTENDS Trust, NetCamera

MCFloors == [signers |-> {"ours"}, digests |-> {}, min |-> 1, debug |-> FALSE, stable |-> TRUE,
             source |-> "src", project |-> "prod", hosts |-> {"tee"}, issuer |-> "google"]

\* Every way to be looser than the floors that they mend, and one of each that
\* they refuse.
MCPolicies ==
  {[MCFloors EXCEPT !.signers = s, !.digests = d, !.min = r, !.debug = TRUE, !.stable = FALSE,
                    !.source = Absent, !.project = Absent, !.hosts = h] :
     s \in {{}, {"ours", "theirs"}}, d \in {{}, {"d1"}}, r \in {0, 2}, h \in {{}, {"tee", "example"}}}
  \cup {[MCFloors EXCEPT !.signers = {"theirs"}], [MCFloors EXCEPT !.source = "fork"],
        [MCFloors EXCEPT !.hosts = {"example"}], [MCFloors EXCEPT !.issuer = "other"],
        [MCFloors EXCEPT !.project = "test"]}

\* Four good machines of two images, and one that fails each check.
Good(t, d, r) ==
  [tls |-> t, digest |-> d, release |-> r, commit |-> 7, signers |-> {"ours"}, debug |-> FALSE,
   stable |-> TRUE, project |-> "prod", issuer |-> "google"]
MCEnclaves ==
  {Good(1, "d1", 2), Good(2, "d1", 1), Good(3, "d2", 2), Good(4, "d2", 1), Good(5, "d1", 0)}
  \cup {[Good(6, "d1", 2) EXCEPT !.signers = {"theirs"}], [Good(7, "d1", 2) EXCEPT !.debug = TRUE],
        [Good(8, "d1", 2) EXCEPT !.stable = FALSE], [Good(9, "d1", 2) EXCEPT !.project = "test"]}

MCRecords ==
  {[kind |-> k, digest |-> "d1", release |-> 2, commit |-> 7, source |-> "src", built |-> 2] :
     k \in {"signature", "provenance"}}
  \cup {[kind |-> "signature", digest |-> "d2", release |-> 2, commit |-> 7, source |-> "src", built |-> 0],
        [kind |-> "provenance", digest |-> "d2", release |-> 2, commit |-> 7, source |-> "src", built |-> 1]}

Untouched == policy = Absent /\ known = {} /\ \A d \in Dials : dial[d] = NoDial
Unplugged == at = Nobody /\ upsets = 0 /\ \A s \in Builds : src[s] = Unbuilt

MCNext ==
  \/ Unplugged /\ TrustNext /\ UNCHANGED camVars
  \/ Untouched /\ CamNext /\ UNCHANGED trustVars

MCInit == TrustInit /\ CamInit

MCSpec == MCInit /\ [][MCNext]_<<trustVars, camVars>> /\ CamFair
=============================================================================

------------------------------ MODULE Certlab -------------------------------
(***************************************************************************)
(* The profile certlab-bundle-v1: _check_certlab and the re-reading of a   *)
(* capability contract, _check_certlab_render.                             *)
(*                                                                         *)
(* s.artifact is the artifact; s.check the check, where render is None or  *)
(* the headline found in the contract (Junk when there is none to find);   *)
(* s.hashes and s.commit are protocol.hashes and protocol.issuer_commit.   *)
(***************************************************************************)
EXTENDS ProfileResult

CertlabCounts(verdicts) ==
  [verdicts  |-> Len(verdicts),
   fixed     |-> Tally(verdicts, "fixed", TRUE),
   policy_ok |-> Tally(verdicts, "policy_ok", TRUE),
   tests_ok  |-> Tally(verdicts, "tests_ok", TRUE)]

(* One commit, one task set: what the protocol names the artifact carries. *)
(* Mutant: compared only when the artifact has the key as well.            *)
CertlabStampsIfThere(s) ==
  NameWhen(\E k \in {"taskset_hash", "prompt_hash"} \cap DOMAIN s.hashes \cap DOMAIN s.artifact :
             s.artifact[k] # s.hashes[k], "stamp: hashes")
    \cup NameWhen(/\ s.commit # None
                  /\ StampDiffers(s.artifact, "harness_commit", s.commit), "stamp: harness_commit")

CertlabStamps(s) ==
  NameWhen(\E k \in {"taskset_hash", "prompt_hash"} \cap DOMAIN s.hashes :
             StampDiffers(s.artifact, k, s.hashes[k]), "stamp: hashes")
    \cup NameWhen(/\ s.commit # None
                  /\ StampDiffers(s.artifact, "harness_commit", s.commit), "stamp: harness_commit")

(* A headline that cannot be found is refused, never skipped.              *)
CertlabRender(s, counts) ==
  LET headline == Get(s.check, "render")
  IN  CASE headline = None -> {}
        [] headline = Junk -> {"render: no headline"}
        [] OTHER           -> NameWhen(\E k \in {"fixed", "verdicts"} : headline[k] # counts[k],
                                       "render: differs")

(* The counts, and one count for each failure mode; a mode named like a    *)
(* recomputed field is withheld.                                           *)
(* Mutant: the issuer's own word may add a value to a recomputed field.    *)
CertlabPoolAnyMode(verdicts, counts) ==
  LET modes == {Get(verdicts[i], "failure_mode") : i \in DOMAIN verdicts} \ {None}
  IN  PoolOf(counts) \cup PoolOf([m \in modes |-> Tally(verdicts, "failure_mode", m)])

CertlabPool(verdicts, counts) ==
  LET modes == {Get(verdicts[i], "failure_mode") : i \in DOMAIN verdicts} \ {None}
  IN  PoolOf(counts)
        \cup PoolOf([m \in modes \ DOMAIN counts |-> Tally(verdicts, "failure_mode", m)])

CheckCertlab(s) ==
  IF s.artifact = None \/ Get(s.artifact, "verdicts") \in {None, Junk}
  THEN Refused("artifact: unparsable")
  ELSE LET verdicts == s.artifact["verdicts"]
           counts   == CertlabCounts(verdicts)
       IN  Result(ExpectReasons(Get(s.check, "expect"), counts)
                    \cup CertlabStamps(s) \cup CertlabRender(s, counts),
                  CertlabPool(verdicts, counts))
=============================================================================

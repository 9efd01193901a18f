------------------------------- MODULE Replay -------------------------------
(***************************************************************************)
(* The weekly replay, .github/workflows/replay.yml: a job for the pending  *)
(* entries, one that makes the matrix, and one per accepted entry, which   *)
(* downloads the entry's artifacts (fetch_bundle of vac/registry.py),      *)
(* verifies them, runs the bundle's replay block and reads its transcript. *)
(* Runs may overlap; each works on the commit it was started on.  Between  *)
(* its steps hosts and issuers change.                                     *)
(***************************************************************************)
EXTENDS Naturals, Sequences, FiniteSets, Functions

CONSTANTS
  Name,      \* registry entries
  Pending,   \* the job of the pending entries
  Unnamed,   \* what GitHub calls the job of a matrix that was never made
  Missing,   \* what cannot be fetched
  Blob,      \* contents of artifacts
  Reads,     \* of a manifest: pins, soundness, profiles, replay commands
  Registry,  \* what registry.json may be: entries with their pins, and
             \* whether there are pending ones
  Runs,      \* bound: replays
  Changes,   \* bound: changes of registry, hosts and issuers
  Accidents  \* bound: machines that fail

Manifest == "vac.json"

(* registry.json names entries only, each with a pinned manifest; the      *)
(* artifacts of an entry have the bytes they are pinned to.                *)
ASSUME ReplayAssumption ==
  /\ Pending # Unnamed /\ {Pending, Unnamed} \cap Name = {} /\ Missing \notin Blob
  /\ \A reg \in Registry :
       /\ DOMAIN reg.pins \subseteq Name
       /\ \A name \in DOMAIN reg.pins :
            /\ Manifest \in DOMAIN reg.pins[name]
            /\ reg.pins[name] \in [DOMAIN reg.pins[name] -> Blob]
  /\ {Runs, Changes, Accidents} \subseteq Nat

VARIABLES
  registry,  \* registry.json on main
  host,      \* what is served at an artifact's URL, by entry and artifact
  issuer,    \* what an issuer's pinned commit makes of the evidence
  runs,      \* the replay's runs, in the order they were created
  budget     \* what is left of the bounds

replayVars == <<registry, host, issuer, runs, budget>>

Issuer == {"reproduces", "diverges", "refuses", "gone"}

ReplayInit(start) ==
  /\ registry = start.registry /\ host = start.host /\ issuer = start.issuer
  /\ runs = <<>>
  /\ budget = [runs |-> start.runs, changes |-> start.changes, accidents |-> start.accidents]

Spend(what) == budget[what] > 0 /\ budget' = [budget EXCEPT ![what] = @ - 1]

-----------------------------------------------------------------------------
(* The world between two steps: registry.json is pushed; a URL serves      *)
(* other bytes, or none; an issuer's commit goes, or its grader decides    *)
(* otherwise.                                                              *)
Publish(new) ==
  /\ new # registry /\ Spend("changes")
  /\ registry' = new
  /\ UNCHANGED <<host, issuer, runs>>

Serve(name, file, blob) ==
  /\ host[name][file] # blob /\ Spend("changes")
  /\ host' = [host EXCEPT ![name][file] = blob]
  /\ UNCHANGED <<registry, issuer, runs>>

Regrade(name, how) ==
  /\ issuer[name] # how /\ Spend("changes")
  /\ issuer' = [issuer EXCEPT ![name] = how]
  /\ UNCHANGED <<registry, host, runs>>

-----------------------------------------------------------------------------
With(f, x, value) == [y \in DOMAIN f \cup {x} |-> IF y = x THEN value ELSE f[y]]

Due == [pc |-> "setup", todo |-> {}, bundle |-> <<>>, refused |-> FALSE, did |-> "nothing",
        transcript |-> {}, lost |-> FALSE, conclusion |-> "unknown"]

Concluded(job, conclusion) == [job EXCEPT !.pc = "done", !.conclusion = conclusion]

Verdict(job, ok) == Concluded(job, IF ok THEN "success" ELSE "failure")

StartRun ==
  /\ Spend("runs")
  /\ runs' = Append(runs, [on |-> registry, matrix |-> FALSE, jobs |-> [name \in {Pending} |-> Due]])
  /\ UNCHANGED <<registry, host, issuer>>

(* One job of run r goes on; the others do not notice (fail-fast: false).  *)
Advance(r, name, job) == runs' = [runs EXCEPT ![r].jobs[name] = job]

(* matrix and --emit-matrix.  Without entries, or on a machine that failed,*)
(* the jobs that need it are skipped.                                      *)
EmitMatrix(r) ==
  /\ ~runs[r].matrix
  /\ LET entries      == runs[r].on.pins
         Job(name)    == CASE name = Pending -> runs[r].jobs[Pending]
                           [] name = Unnamed -> Concluded(Due, "skipped")
                           [] OTHER          -> [Due EXCEPT !.todo = DOMAIN entries[name]]
         Matrix(more) == runs' = [runs EXCEPT ![r].matrix = TRUE,
                                              ![r].jobs = [name \in {Pending} \cup more |-> Job(name)]]
     IN  \/ /\ UNCHANGED budget
            /\ Matrix(IF DOMAIN entries = {} THEN {Unnamed} ELSE DOMAIN entries)
         \/ Spend("accidents") /\ Matrix({Unnamed})
  /\ UNCHANGED <<registry, host, issuer>>

(* Checkout, python and pip: a machine that fails is a job that failed.    *)
Setup(r, name) ==
  LET job == runs[r].jobs[name]
  IN  /\ job.pc = "setup"
      /\ \/ /\ UNCHANGED budget
            /\ Advance(r, name, [job EXCEPT !.pc = IF name = Pending THEN "list" ELSE "fetch"])
         \/ Spend("accidents") /\ Advance(r, name, [Verdict(job, FALSE) EXCEPT !.lost = TRUE])
      /\ UNCHANGED <<registry, host, issuer>>

(* --list-pending: to have a pending entry is to fail.                     *)
ListPending(r) ==
  LET job == runs[r].jobs[Pending]
  IN  /\ job.pc = "list" /\ Advance(r, Pending, Verdict(job, ~runs[r].on.pending))
      /\ UNCHANGED <<registry, host, issuer, budget>>

(* Mutant: what was downloaded is kept, whatever its digest.               *)
DriftsNever(blob, pin) == FALSE

Drifts(blob, pin) == blob # pin

Served(name, file) == IF file \in DOMAIN host[name] THEN host[name][file] ELSE Missing

(* fetch_bundle, one artifact: a fetch that fails leaves the others to be  *)
(* tried, and bytes that drifted are written before they are refused.      *)
FetchArtifact(r, name, file) ==
  LET job == runs[r].jobs[name]
      got == Served(name, file)
      on  == [job EXCEPT !.todo = @ \ {file}]
  IN  /\ job.pc = "fetch" /\ file \in job.todo
      /\ Advance(r, name,
           IF got = Missing THEN [on EXCEPT !.refused = TRUE]
           ELSE [on EXCEPT !.bundle = With(@, file, got),
                           !.refused = @ \/ Drifts(got, runs[r].on.pins[name][file])])
      /\ UNCHANGED <<registry, host, issuer, budget>>

FetchEnds(r, name) ==
  LET job == runs[r].jobs[name]
  IN  /\ job.pc = "fetch" /\ job.todo = {}
      /\ Advance(r, name, IF job.refused THEN Verdict(job, FALSE) ELSE [job EXCEPT !.pc = "verify"])
      /\ UNCHANGED <<registry, host, issuer, budget>>

(* vac.verify of what was downloaded: sound, and closed over its pins.     *)
Verifies(bundle) ==
  /\ Manifest \in DOMAIN bundle /\ bundle[Manifest] \in DOMAIN Reads
  /\ Reads[bundle[Manifest]].sound
  /\ [file \in DOMAIN bundle \ {Manifest} |-> bundle[file]] = Reads[bundle[Manifest]].pins

Verify(r, name) ==
  LET job == runs[r].jobs[name]
  IN  /\ job.pc = "verify"
      /\ Advance(r, name, IF Verifies(job.bundle) THEN [job EXCEPT !.pc = "replay"]
                          ELSE Verdict(job, FALSE))
      /\ UNCHANGED <<registry, host, issuer, budget>>

-----------------------------------------------------------------------------
(* External: a command of a replay block against the issuer's pinned       *)
(* commit, whether it fails and what it prints.  certlab's regrader exits  *)
(* 0 when it refuses; cmp fails silently on a file that was never emitted; *)
(* bash -x prints the word cmp of every cmp that it runs.                  *)
Fails(command, how) ==
  CASE command.kind = "checkout" -> how = "gone"
    [] command.kind = "regrade"  -> how = "diverges"
    [] command.kind = "emit"     -> how = "refuses"
    [] command.kind = "cmp"      -> how \in {"diverges", "refuses"}

Prints(command, how) ==
  CASE command.kind = "regrade" /\ how = "reproduces" -> {"consistent"}
    [] command.kind = "regrade" /\ how = "refuses"    -> {"stale-code"}
    [] command.kind = "cmp" /\ how = "diverges"       -> {"cmp", "differ"}
    [] command.kind = "cmp" /\ how # "diverges"       -> {"cmp"}
    [] OTHER                                          -> {}

(* bash -euxo pipefail: up to the first command that fails and does not    *)
(* absorb it.                                                              *)
Stops(commands, how) == {i \in DOMAIN commands : Fails(commands[i], how) /\ ~commands[i].absorbed}

Ran(commands, how) == {i \in DOMAIN commands : \A stop \in Stops(commands, how) : i <= stop}

(* Mutant: the pipe ends with the exit of tee.                             *)
BlockFailsUnpiped(commands, how) == FALSE

BlockFails(commands, how) == Stops(commands, how) # {}

Replay(r, name) ==
  LET job      == runs[r].jobs[name]
      commands == Reads[job.bundle[Manifest]].commands
      how      == issuer[name]
      ran      == [job EXCEPT !.did = how,
                              !.transcript = UNION {Prints(commands[i], how) : i \in Ran(commands, how)}]
  IN  /\ job.pc = "replay"
      /\ Advance(r, name, IF BlockFails(commands, how) THEN Verdict(ran, FALSE)
                          ELSE [ran EXCEPT !.pc = "predicates"])
      /\ UNCHANGED <<registry, host, issuer, budget>>

(* The certlab predicate, and that of fleet, evalmut, crashkit and         *)
(* modeldrift.  Other profiles have none.                                  *)
Consistent(transcript) == "consistent" \in transcript /\ "stale-code" \notin transcript

(* Mutant: that nothing differed is enough.                                *)
ComparedNothing(transcript) == "differ" \notin transcript

Compared(transcript) == "cmp" \in transcript /\ "differ" \notin transcript

Predicates(profiles, transcript) ==
  /\ "certlab" \in profiles => Consistent(transcript)
  /\ "compared" \in profiles => Compared(transcript)

ApplyPredicates(r, name) ==
  LET job == runs[r].jobs[name]
  IN  /\ job.pc = "predicates"
      /\ Advance(r, name, Verdict(job, Predicates(Reads[job.bundle[Manifest]].profiles, job.transcript)))
      /\ UNCHANGED <<registry, host, issuer, budget>>

-----------------------------------------------------------------------------
JobStep(r, name) ==
  \/ Setup(r, name)
  \/ \E file \in runs[r].jobs[name].todo : FetchArtifact(r, name, file)
  \/ FetchEnds(r, name) \/ Verify(r, name) \/ Replay(r, name) \/ ApplyPredicates(r, name)

RunStep ==
  \/ StartRun
  \/ \E r \in DOMAIN runs : EmitMatrix(r) \/ ListPending(r)
  \/ \E r \in DOMAIN runs : \E name \in DOMAIN runs[r].jobs : JobStep(r, name)

WorldStep ==
  \/ \E new \in Registry : Publish(new)
  \/ \E name \in Name : \E file \in DOMAIN host[name], blob \in Blob \cup {Missing} :
        Serve(name, file, blob)
  \/ \E name \in Name, how \in Issuer : Regrade(name, how)

Completed(run) == run.matrix /\ \A name \in DOMAIN run.jobs : run.jobs[name].pc = "done"

Conclusions(run) == [name \in DOMAIN run.jobs |-> run.jobs[name].conclusion]

-----------------------------------------------------------------------------
ReplayTypeOK ==
  /\ registry \in Registry
  /\ DOMAIN host = Name /\ \A name \in Name : Range(host[name]) \subseteq Blob \cup {Missing}
  /\ issuer \in [Name -> Issuer]
  /\ Len(runs) <= Runs
  /\ \A r \in DOMAIN runs :
       /\ runs[r].on \in Registry /\ runs[r].matrix \in BOOLEAN
       /\ DOMAIN runs[r].jobs \subseteq Name \cup {Pending, Unnamed}
       /\ \A name \in DOMAIN runs[r].jobs :
            LET job == runs[r].jobs[name]
            IN  /\ job.pc \in {"setup", "list", "fetch", "verify", "replay", "predicates", "done"}
                /\ job.conclusion \in {"unknown", "success", "failure", "skipped"}
                /\ job.pc = "done" <=> job.conclusion # "unknown"
                /\ Range(job.bundle) \subseteq Blob
  /\ budget \in [{"runs", "changes", "accidents"} -> Nat]

(* What the workflow is there to find out.                                 *)
Reproduced(commands, profiles, how) ==
  /\ Stops(commands, how) = {}
  /\ "certlab" \in profiles =>
       how = "reproduces" /\ \E i \in DOMAIN commands : commands[i].kind = "regrade"
  /\ "compared" \in profiles =>
       how = "reproduces" /\ \E i \in DOMAIN commands : commands[i].kind = "cmp"

(* A block of a bundle whose emitted bytes are compared fails when its     *)
(* checkout does, and does not absorb both the failure to emit and what cmp*)
(* says of a file that is not there.                                       *)
Strict(man) ==
  "compared" \in man.profiles =>
    \E i, j \in DOMAIN man.commands :
      /\ man.commands[i].kind = "checkout" /\ ~man.commands[i].absorbed
      /\ man.commands[j].kind \in {"emit", "cmp"} /\ ~man.commands[j].absorbed

StrictBlocks == \A blob \in DOMAIN Reads : Strict(Reads[blob])

(* A job is green if and only if, the machine not having failed, every     *)
(* artifact was downloaded with the bytes registry.json pins, the bundle   *)
(* they make verifies, its block ran to the end, and the grader re-earned  *)
(* the verdicts or the bytes were compared and are the same (replay.yml's  *)
(* opening comment): whatever the other jobs, hosts and issuers do         *)
(* meanwhile.                                                              *)
GreenIsEarned ==
  \A r \in DOMAIN runs : \A name \in DOMAIN runs[r].jobs \cap Name :
    LET job  == runs[r].jobs[name]
        pins == runs[r].on.pins[name]
        man  == Reads[pins[Manifest]]
    IN  job.pc = "done" /\ ~job.lost =>
          (job.conclusion = "success" <=>
             /\ job.bundle = pins /\ Verifies(pins)
             /\ job.did # "nothing" /\ Reproduced(man.commands, man.profiles, job.did))
=============================================================================

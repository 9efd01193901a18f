----------------------------- MODULE ReplayProofs -----------------------------
(* Theorems about Replay and ReplayNotes, for any registry, hosts, issuers,  *)
(* replay blocks, runs and pushes.                                           *)
EXTENDS ReplayNotes, SequenceTheorems, Induction

-----------------------------------------------------------------------------
(* What a job knows, by how far it has come.                               *)
IsJob(job) ==
  /\ DOMAIN job = DOMAIN Due
  /\ job.pc \in {"setup", "list", "fetch", "verify", "replay", "predicates", "done"}
  /\ job.conclusion \in {"unknown", "success", "failure", "skipped"}
  /\ job.pc = "done" <=> job.conclusion # "unknown"
  /\ Range(job.bundle) \subseteq Blob
  /\ job.refused \in BOOLEAN /\ job.lost \in BOOLEAN
  /\ job.did \in Issuer \cup {"nothing"}

Commands(pins) == Reads[pins[Manifest]].commands

Printed(pins, how) ==
  UNION {Prints(Commands(pins)[i], how) : i \in Ran(Commands(pins), how)}

(* The gate as the steps apply it: the block ran to its end and the        *)
(* transcript passed the predicates.                                       *)
Passed(pins, job) ==
  /\ job.bundle = pins /\ Verifies(pins)
  /\ job.did # "nothing" /\ Stops(Commands(pins), job.did) = {}
  /\ Predicates(Reads[pins[Manifest]].profiles, Printed(pins, job.did))

Fetching(pins, job) ==
  /\ job.todo \subseteq DOMAIN pins
  /\ ~job.refused =>
       /\ DOMAIN job.bundle = DOMAIN pins \ job.todo
       /\ job.bundle = [file \in DOMAIN job.bundle |-> job.bundle[file]]
       /\ \A file \in DOMAIN job.bundle : job.bundle[file] = pins[file]

Knows(pins, job) ==
  /\ job.pc # "list"
  /\ job.lost => job.pc = "done"
  /\ job.pc \in {"setup", "fetch", "verify", "replay"} => job.did = "nothing"
  /\ job.pc \in {"setup", "fetch"} => Fetching(pins, job)
  /\ job.pc \in {"verify", "replay", "predicates"} => job.bundle = pins
  /\ job.pc \in {"replay", "predicates"} => Verifies(pins)
  /\ job.pc = "predicates" =>
       /\ job.did # "nothing" /\ Stops(Commands(pins), job.did) = {}
       /\ job.transcript = Printed(pins, job.did)
  /\ job.pc = "done" /\ ~job.lost => (job.conclusion = "success" <=> Passed(pins, job))

(* What a run knows.                                                       *)
IsRun(run) ==
  /\ DOMAIN run = {"on", "matrix", "jobs"}
  /\ run.on \in Registry /\ run.matrix \in BOOLEAN
  /\ Pending \in DOMAIN run.jobs
  /\ DOMAIN run.jobs \subseteq {Pending, Unnamed} \cup DOMAIN run.on.pins
  /\ ~run.matrix => DOMAIN run.jobs = {Pending}
  /\ \A name \in DOMAIN run.jobs : IsJob(run.jobs[name])
  /\ run.jobs[Pending].pc \in {"setup", "list", "done"}
  /\ Unnamed \in DOMAIN run.jobs => run.jobs[Unnamed].pc = "done"
  /\ \A name \in DOMAIN run.jobs \cap Name : Knows(run.on.pins[name], run.jobs[name])

AreRuns(rs) == rs \in Seq(Range(rs)) /\ \A r \in DOMAIN rs : IsRun(rs[r])

IsWorld ==
  /\ registry \in Registry
  /\ DOMAIN host = Name /\ \A name \in Name : Range(host[name]) \subseteq Blob \cup {Missing}
  /\ issuer \in [Name -> Issuer]
  /\ budget \in [{"runs", "changes", "accidents"} -> Nat]

Inv == IsWorld /\ AreRuns(runs) /\ budget.runs + Len(runs) <= Runs

-----------------------------------------------------------------------------
(* Sequences of runs.                                                      *)

(* What is a function on an interval from 1 is a sequence.                 *)
LEMMA IsSequence ==
  ASSUME NEW n \in Nat, NEW f, DOMAIN f = 1..n, f = [i \in 1..n |-> f[i]]
  PROVE  f \in Seq(Range(f)) /\ Len(f) = n
<1>1. \A i \in 1..n : f[i] \in Range(f)
  BY DEF Range
<1>2. [i \in 1..n |-> f[i]] \in [1..n -> Range(f)]
  BY <1>1
<1>3. f \in [1..n -> Range(f)]
  BY <1>2
<1>4. f \in Seq(Range(f))
  BY <1>3, SeqDef
<1>. QED BY <1>4

(* A sequence is one over its own elements.                                *)
LEMMA OverItsRange == ASSUME NEW S, NEW s \in Seq(S) PROVE s \in Seq(Range(s))
<1>1. Len(s) \in Nat /\ DOMAIN s = 1..Len(s) /\ s = [i \in 1..Len(s) |-> s[i]]
  OBVIOUS
<1>. QED BY <1>1, IsSequence

(* One run is replaced by another.                                         *)
LEMMA RunReplaced ==
  ASSUME AreRuns(runs), NEW r \in DOMAIN runs, NEW run, IsRun(run),
         runs' = [runs EXCEPT ![r] = run]
  PROVE  AreRuns(runs') /\ Len(runs') = Len(runs) /\ DOMAIN runs' = DOMAIN runs
         /\ runs'[r] = run /\ \A s \in DOMAIN runs \ {r} : runs'[s] = runs[s]
<1>1. /\ Len(runs) \in Nat /\ DOMAIN runs = 1..Len(runs)
      /\ runs = [i \in 1..Len(runs) |-> runs[i]]
  BY DEF AreRuns
<1>2. DOMAIN runs' = 1..Len(runs) /\ runs' = [i \in 1..Len(runs) |-> runs'[i]]
  BY <1>1
<1>4. runs' \in Seq(Range(runs')) /\ Len(runs') = Len(runs)
  BY <1>1, <1>2, IsSequence
<1>. QED BY <1>1, <1>4 DEF AreRuns

(* A run is added.                                                         *)
LEMMA RunAdded ==
  ASSUME AreRuns(runs), NEW run, IsRun(run), runs' = Append(runs, run)
  PROVE  AreRuns(runs') /\ Len(runs') = Len(runs) + 1
         /\ DOMAIN runs \subseteq DOMAIN runs'
         /\ \A s \in DOMAIN runs : runs'[s] = runs[s]
<1>1. runs \in Seq(Range(runs) \cup {run})
  BY DEF AreRuns
<1>2. /\ Len(runs) \in Nat /\ DOMAIN runs = 1..Len(runs)
      /\ runs' \in Seq(Range(runs) \cup {run}) /\ Len(runs') = Len(runs) + 1
      /\ \A i \in 1..(Len(runs) + 1) : runs'[i] = IF i <= Len(runs) THEN runs[i] ELSE run
  BY <1>1
<1>3. DOMAIN runs' = 1..(Len(runs) + 1)
  BY <1>2
<1>4. runs' \in Seq(Range(runs'))
  BY <1>2, OverItsRange
<1>. QED BY <1>2, <1>3, <1>4 DEF AreRuns

(* One job of one run goes on.                                             *)
LEMMA JobAdvanced ==
  ASSUME AreRuns(runs), NEW r \in DOMAIN runs, NEW name \in DOMAIN runs[r].jobs,
         NEW job, Advance(r, name, job), IsJob(job),
         name = Pending => job.pc \in {"setup", "list", "done"},
         name # Unnamed,
         name \in Name => Knows(runs[r].on.pins[name], job)
  PROVE  /\ AreRuns(runs') /\ Len(runs') = Len(runs) /\ DOMAIN runs' = DOMAIN runs
         /\ \A s \in DOMAIN runs \ {r} : runs'[s] = runs[s]
<1>. DEFINE run == [runs[r] EXCEPT !.jobs[name] = job]
<1>1. IsRun(runs[r])
  BY DEF AreRuns
<1>2. runs' = [runs EXCEPT ![r] = run]
  BY DEF Advance
<1>3. /\ DOMAIN run = {"on", "matrix", "jobs"} /\ run.on = runs[r].on
      /\ run.matrix = runs[r].matrix /\ DOMAIN run.jobs = DOMAIN runs[r].jobs
      /\ run.jobs[name] = job
      /\ \A n \in DOMAIN run.jobs \ {name} : run.jobs[n] = runs[r].jobs[n]
  BY <1>1 DEF IsRun
<1>. HIDE DEF run
<1>4. IsRun(run)
  BY <1>1, <1>3 DEF IsRun
<1>. QED BY <1>2, <1>4, RunReplaced

-----------------------------------------------------------------------------
(* The steps of a job.                                                     *)

(* What is pinned of an entry is a function into blobs, with a manifest.   *)
LEMMA PinsOf ==
  ASSUME AreRuns(runs), NEW r \in DOMAIN runs, NEW name \in DOMAIN runs[r].jobs \cap Name
  PROVE  LET pins == runs[r].on.pins[name]
         IN  /\ name \in DOMAIN runs[r].on.pins
             /\ Manifest \in DOMAIN pins /\ pins \in [DOMAIN pins -> Blob]
             /\ IsJob(runs[r].jobs[name]) /\ Knows(pins, runs[r].jobs[name])
<1>1. IsRun(runs[r])
  BY DEF AreRuns
<1>2. name \in DOMAIN runs[r].on.pins /\ runs[r].on \in Registry
  BY <1>1, ReplayAssumption DEF IsRun
<1>. QED BY <1>1, <1>2, ReplayAssumption DEF IsRun

(* A job that takes a step is not the one of a matrix that was never made, *)
(* and the pending job takes no step of an entry but the first.            *)
LEMMA WhoSteps ==
  ASSUME AreRuns(runs), NEW r \in DOMAIN runs, NEW name \in DOMAIN runs[r].jobs,
         runs[r].jobs[name].pc # "done"
  PROVE  /\ name \in Name \cup {Pending} /\ name # Unnamed
         /\ runs[r].jobs[name].pc \notin {"setup", "list"} => name \in Name
<1>1. IsRun(runs[r]) /\ DOMAIN runs[r].on.pins \subseteq Name
  BY ReplayAssumption DEF AreRuns, IsRun
<1>. QED BY <1>1 DEF IsRun

(* A job that ends is a job that has ended.                                *)
LEMMA Ends ==
  ASSUME NEW job, IsJob(job), NEW ok \in BOOLEAN
  PROVE  LET end == Verdict(job, ok)
         IN  /\ IsJob(end) /\ end.pc = "done"
             /\ end.conclusion = IF ok THEN "success" ELSE "failure"
             /\ end.bundle = job.bundle /\ end.did = job.did /\ end.lost = job.lost
BY DEF IsJob, Verdict, Concluded, Due

(* What a step makes of a job.                                             *)
Continues(r, name, job) ==
  /\ Advance(r, name, job) /\ IsJob(job)
  /\ name = Pending => job.pc \in {"setup", "list", "done"}
  /\ name # Unnamed
  /\ name \in Name => Knows(runs[r].on.pins[name], job)

LEMMA SetupContinues ==
  ASSUME AreRuns(runs), NEW r \in DOMAIN runs, NEW name \in DOMAIN runs[r].jobs, Setup(r, name)
  PROVE  \E job : Continues(r, name, job)
<1>. DEFINE job == runs[r].jobs[name]
<1>1. IsJob(job) /\ job.pc = "setup"
  BY DEF AreRuns, IsRun, Setup
<1>2. name # Unnamed /\ name \in Name \cup {Pending}
  BY <1>1, WhoSteps
<1>3. CASE Advance(r, name, [job EXCEPT !.pc = IF name = Pending THEN "list" ELSE "fetch"])
  <2>. DEFINE on == [job EXCEPT !.pc = IF name = Pending THEN "list" ELSE "fetch"]
  <2>1. /\ IsJob(on) /\ on.pc = IF name = Pending THEN "list" ELSE "fetch"
        /\ on.bundle = job.bundle /\ on.did = job.did /\ on.lost = job.lost
        /\ on.todo = job.todo /\ on.refused = job.refused
    BY <1>1 DEF IsJob, Due
  <2>2. name \in Name => name # Pending /\ Knows(runs[r].on.pins[name], job)
    BY PinsOf, ReplayAssumption
  <2>3. name \in Name => Knows(runs[r].on.pins[name], on)
    BY <1>1, <2>1, <2>2 DEF Knows, Fetching
  <2>. QED BY <1>2, <1>3, <2>1, <2>3 DEF Continues
<1>4. CASE Advance(r, name, [Verdict(job, FALSE) EXCEPT !.lost = TRUE])
  <2>. DEFINE end == Verdict(job, FALSE)
              on  == [end EXCEPT !.lost = TRUE]
  <2>1. IsJob(end) /\ end.pc = "done"
    BY <1>1, Ends
  <2>. HIDE DEF end
  <2>2. IsJob(on) /\ on.pc = "done" /\ on.lost
    BY <2>1 DEF IsJob, Due
  <2>3. name \in Name => Knows(runs[r].on.pins[name], on)
    BY <2>2 DEF Knows
  <2>. QED BY <1>2, <1>4, <2>2, <2>3 DEF Continues, end
<1>. QED BY <1>3, <1>4 DEF Setup

LEMMA FetchContinues ==
  ASSUME IsWorld, AreRuns(runs), NEW r \in DOMAIN runs, NEW name \in DOMAIN runs[r].jobs,
         NEW file, FetchArtifact(r, name, file)
  PROVE  \E job : Continues(r, name, job)
<1>. DEFINE job == runs[r].jobs[name]
            pins == runs[r].on.pins[name]
            got == Served(name, file)
            on  == [job EXCEPT !.todo = @ \ {file}]
<1>1. job.pc = "fetch" /\ file \in job.todo
  BY DEF FetchArtifact
<1>2. name \in Name /\ name # Pending /\ name # Unnamed
  BY <1>1, WhoSteps, ReplayAssumption
<1>3. IsJob(job) /\ Fetching(pins, job) /\ job.did = "nothing" /\ ~job.lost
  BY <1>1, <1>2, PinsOf DEF Knows, IsJob
<1>4. got \in Blob \cup {Missing}
  BY <1>2 DEF IsWorld, Served, Range
<1>5. ASSUME NEW next, Advance(r, name, next), IsJob(next), next.pc = "fetch",
             Fetching(pins, next), next.did = "nothing", ~next.lost
      PROVE  Continues(r, name, next)
  BY <1>2, <1>5 DEF Continues, Knows
<1>6. CASE got = Missing
  <2>. DEFINE next == [on EXCEPT !.refused = TRUE]
  <2>1. /\ IsJob(next) /\ next.pc = "fetch" /\ next.did = "nothing" /\ ~next.lost
        /\ next.refused /\ next.todo = job.todo \ {file}
    BY <1>1, <1>3 DEF IsJob, Due
  <2>2. Advance(r, name, next)
    BY <1>6 DEF FetchArtifact
  <2>. HIDE DEF next
  <2>3. Fetching(pins, next)
    BY <1>3, <2>1 DEF Fetching
  <2>. QED BY <1>5, <2>1, <2>2, <2>3
<1>7. CASE got # Missing
  <2>. DEFINE next == [on EXCEPT !.bundle = With(@, file, got),
                                 !.refused = @ \/ Drifts(got, pins[file])]
  <2>1. Advance(r, name, next)
    BY <1>7 DEF FetchArtifact
  <2>2. /\ DOMAIN next = DOMAIN Due /\ next.pc = "fetch" /\ next.did = "nothing" /\ ~next.lost
        /\ next.conclusion = job.conclusion /\ next.lost = job.lost
        /\ next.todo = job.todo \ {file} /\ next.bundle = With(job.bundle, file, got)
        /\ next.refused = (job.refused \/ got # pins[file])
    BY <1>1, <1>3 DEF IsJob, Due, Drifts
  <2>. HIDE DEF next
  <2>3. /\ DOMAIN next.bundle = DOMAIN job.bundle \cup {file} /\ next.bundle[file] = got
        /\ \A f \in DOMAIN job.bundle \ {file} : next.bundle[f] = job.bundle[f]
        /\ next.bundle = [f \in DOMAIN next.bundle |-> next.bundle[f]]
    BY <2>2 DEF With
  <2>4. Range(next.bundle) \subseteq Blob
    BY <1>3, <1>4, <1>7, <2>3 DEF IsJob, Range
  <2>5. IsJob(next)
    <3>1. next.refused \in BOOLEAN
      BY <2>2
    <3>2. next.lost \in BOOLEAN
      BY <1>3, <2>2 DEF IsJob
    <3>. QED BY <1>1, <1>3, <2>2, <2>4, <3>1, <3>2 DEF IsJob
  <2>6. Fetching(pins, next)
    BY <1>1, <1>3, <2>2, <2>3 DEF Fetching
  <2>. QED BY <1>5, <2>1, <2>2, <2>5, <2>6
<1>. QED BY <1>6, <1>7

LEMMA FetchEndsContinues ==
  ASSUME AreRuns(runs), NEW r \in DOMAIN runs, NEW name \in DOMAIN runs[r].jobs,
         FetchEnds(r, name)
  PROVE  \E job : Continues(r, name, job)
<1>. DEFINE job == runs[r].jobs[name]
            pins == runs[r].on.pins[name]
<1>1. job.pc = "fetch" /\ job.todo = {}
  BY DEF FetchEnds
<1>2. name \in Name /\ name # Pending /\ name # Unnamed
  BY <1>1, WhoSteps, ReplayAssumption
<1>3. IsJob(job) /\ Fetching(pins, job) /\ job.did = "nothing" /\ ~job.lost
  BY <1>1, <1>2, PinsOf DEF Knows, IsJob
<1>4. CASE job.refused
  <2>. DEFINE end == Verdict(job, FALSE)
  <2>1. /\ IsJob(end) /\ end.pc = "done" /\ end.conclusion = "failure"
        /\ end.did = "nothing" /\ ~end.lost
    BY <1>3, Ends
  <2>2. Advance(r, name, end)
    BY <1>4 DEF FetchEnds
  <2>. HIDE DEF end
  <2>. QED BY <1>2, <2>1, <2>2 DEF Continues, Knows, Passed
<1>5. CASE ~job.refused
  <2>. DEFINE on == [job EXCEPT !.pc = "verify"]
  <2>1. /\ IsJob(on) /\ on.pc = "verify" /\ on.bundle = job.bundle
        /\ on.did = "nothing" /\ ~on.lost
    BY <1>1, <1>3 DEF IsJob, Due
  <2>2. Advance(r, name, on)
    BY <1>5 DEF FetchEnds
  <2>3. pins = [file \in DOMAIN pins |-> pins[file]]
    BY <1>2, PinsOf
  <2>4. job.bundle = pins
    BY <1>1, <1>3, <1>5, <2>3 DEF Fetching
  <2>. HIDE DEF on
  <2>. QED BY <1>2, <2>1, <2>2, <2>4 DEF Continues, Knows
<1>. QED BY <1>4, <1>5

LEMMA VerifyContinues ==
  ASSUME AreRuns(runs), NEW r \in DOMAIN runs, NEW name \in DOMAIN runs[r].jobs,
         Verify(r, name)
  PROVE  \E job : Continues(r, name, job)
<1>. DEFINE job == runs[r].jobs[name]
            pins == runs[r].on.pins[name]
<1>1. job.pc = "verify"
  BY DEF Verify
<1>2. name \in Name /\ name # Pending /\ name # Unnamed
  BY <1>1, WhoSteps, ReplayAssumption
<1>3. IsJob(job) /\ job.bundle = pins /\ job.did = "nothing" /\ ~job.lost
  BY <1>1, <1>2, PinsOf DEF Knows, IsJob
<1>4. CASE Verifies(pins)
  <2>. DEFINE on == [job EXCEPT !.pc = "replay"]
  <2>1. /\ IsJob(on) /\ on.pc = "replay" /\ on.bundle = pins
        /\ on.did = "nothing" /\ ~on.lost
    BY <1>1, <1>3 DEF IsJob, Due
  <2>2. Advance(r, name, on)
    BY <1>3, <1>4 DEF Verify
  <2>. HIDE DEF on
  <2>. QED BY <1>2, <1>4, <2>1, <2>2 DEF Continues, Knows
<1>5. CASE ~Verifies(pins)
  <2>. DEFINE end == Verdict(job, FALSE)
  <2>1. /\ IsJob(end) /\ end.pc = "done" /\ end.conclusion = "failure"
        /\ end.did = "nothing" /\ ~end.lost
    BY <1>3, Ends
  <2>2. Advance(r, name, end)
    BY <1>3, <1>5 DEF Verify
  <2>. HIDE DEF end
  <2>. QED BY <1>2, <2>1, <2>2 DEF Continues, Knows, Passed
<1>. QED BY <1>4, <1>5

LEMMA ReplayContinues ==
  ASSUME IsWorld, AreRuns(runs), NEW r \in DOMAIN runs, NEW name \in DOMAIN runs[r].jobs,
         Replay(r, name)
  PROVE  \E job : Continues(r, name, job)
<1>. DEFINE job == runs[r].jobs[name]
            pins == runs[r].on.pins[name]
            how == issuer[name]
            ran == [job EXCEPT !.did = how,
                               !.transcript = UNION {Prints(Commands(pins)[i], how)
                                                      : i \in Ran(Commands(pins), how)}]
<1>1. job.pc = "replay"
  BY DEF Replay
<1>2. name \in Name /\ name # Pending /\ name # Unnamed
  BY <1>1, WhoSteps, ReplayAssumption
<1>3. IsJob(job) /\ job.bundle = pins /\ Verifies(pins) /\ ~job.lost
  BY <1>1, <1>2, PinsOf DEF Knows, IsJob
<1>4. how \in Issuer /\ how # "nothing"
  BY <1>2 DEF IsWorld, Issuer
<1>5. /\ IsJob(ran) /\ ran.did = how /\ ran.transcript = Printed(pins, how)
      /\ ran.bundle = pins /\ ~ran.lost /\ ran.pc = "replay"
  BY <1>1, <1>3, <1>4 DEF IsJob, Due, Printed
<1>6. Advance(r, name, IF BlockFails(Commands(pins), how) THEN Verdict(ran, FALSE)
                       ELSE [ran EXCEPT !.pc = "predicates"])
  BY <1>3 DEF Replay, Commands
<1>. HIDE DEF ran
<1>7. CASE BlockFails(Commands(pins), how)
  <2>. DEFINE end == Verdict(ran, FALSE)
  <2>1. /\ IsJob(end) /\ end.pc = "done" /\ end.conclusion = "failure"
        /\ end.did = how /\ ~end.lost
    BY <1>5, Ends
  <2>2. Advance(r, name, end)
    BY <1>6, <1>7
  <2>. HIDE DEF end
  <2>. QED BY <1>2, <1>7, <2>1, <2>2 DEF Continues, Knows, Passed, BlockFails
<1>8. CASE ~BlockFails(Commands(pins), how)
  <2>. DEFINE on == [ran EXCEPT !.pc = "predicates"]
  <2>1. /\ IsJob(on) /\ on.pc = "predicates" /\ on.bundle = pins /\ on.did = how
        /\ ~on.lost /\ on.transcript = Printed(pins, how)
    BY <1>5 DEF IsJob, Due
  <2>2. Advance(r, name, on)
    BY <1>6, <1>8
  <2>. HIDE DEF on
  <2>. QED BY <1>2, <1>3, <1>4, <1>8, <2>1, <2>2 DEF Continues, Knows, BlockFails
<1>. QED BY <1>7, <1>8

LEMMA ApplyPredicatesContinues ==
  ASSUME AreRuns(runs), NEW r \in DOMAIN runs, NEW name \in DOMAIN runs[r].jobs,
         ApplyPredicates(r, name)
  PROVE  \E job : Continues(r, name, job)
<1>. DEFINE job == runs[r].jobs[name]
            pins == runs[r].on.pins[name]
            ok == Predicates(Reads[pins[Manifest]].profiles, Printed(pins, job.did))
            end == Verdict(job, ok)
<1>1. job.pc = "predicates"
  BY DEF ApplyPredicates
<1>2. name \in Name /\ name # Pending /\ name # Unnamed
  BY <1>1, WhoSteps, ReplayAssumption
<1>3. /\ IsJob(job) /\ job.bundle = pins /\ Verifies(pins) /\ ~job.lost
      /\ job.did # "nothing" /\ Stops(Commands(pins), job.did) = {}
      /\ job.transcript = Printed(pins, job.did)
  BY <1>1, <1>2, PinsOf DEF Knows, IsJob
<1>4. ok \in BOOLEAN
  BY DEF Predicates
<1>. HIDE DEF job, ok
<1>5. /\ IsJob(end) /\ end.pc = "done" /\ end.bundle = pins /\ end.did = job.did /\ ~end.lost
      /\ end.conclusion = IF ok THEN "success" ELSE "failure"
  BY <1>3, <1>4, Ends
<1>6. Advance(r, name, end)
  BY <1>3 DEF ApplyPredicates, job, ok
<1>7. end.conclusion = "success" <=> Passed(pins, end)
  BY <1>3, <1>5 DEF Passed, job, ok
<1>. HIDE DEF end
<1>. QED BY <1>2, <1>5, <1>6, <1>7 DEF Continues, Knows, job

LEMMA ListPendingContinues ==
  ASSUME AreRuns(runs), NEW r \in DOMAIN runs, ListPending(r)
  PROVE  \E job : Continues(r, Pending, job)
<1>. DEFINE job == runs[r].jobs[Pending]
<1>1. PICK ok \in BOOLEAN : Advance(r, Pending, Verdict(job, ok))
  BY DEF ListPending
<1>2. IsJob(job)
  BY DEF AreRuns, IsRun
<1>3. IsJob(Verdict(job, ok)) /\ Verdict(job, ok).pc = "done"
  BY <1>2, Ends
<1>. QED BY <1>1, <1>3, ReplayAssumption DEF Continues

LEMMA JobContinues ==
  ASSUME IsWorld, AreRuns(runs), NEW r \in DOMAIN runs, NEW name \in DOMAIN runs[r].jobs,
         JobStep(r, name)
  PROVE  \E job : Continues(r, name, job)
BY SetupContinues, FetchContinues, FetchEndsContinues, VerifyContinues, ReplayContinues,
   ApplyPredicatesContinues DEF JobStep

-----------------------------------------------------------------------------
(* The steps of a run, and of the world around it.                         *)

(* A run that has completed stays as it is.                                *)
Kept == \A r \in DOMAIN runs : Completed(runs[r]) => r \in DOMAIN runs' /\ runs'[r] = runs[r]

(* A job that is about to fetch an entry knows nothing yet.                *)
Fresh(pins) == [Due EXCEPT !.todo = DOMAIN pins]

LEMMA DueIsJob ==
  /\ IsJob(Due) /\ Due.pc = "setup"
  /\ IsJob(Concluded(Due, "skipped")) /\ Concluded(Due, "skipped").pc = "done"
  /\ \A pins : IsJob(Fresh(pins)) /\ Knows(pins, Fresh(pins))
<1>1. IsJob(Due) /\ Due.pc = "setup"
  BY DEF IsJob, Due, Range
<1>2. IsJob(Concluded(Due, "skipped")) /\ Concluded(Due, "skipped").pc = "done"
  BY DEF IsJob, Due, Range, Concluded
<1>3. ASSUME NEW pins
      PROVE  IsJob(Fresh(pins)) /\ Knows(pins, Fresh(pins))
  <2>. DEFINE job == Fresh(pins)
  <2>1. /\ DOMAIN job = DOMAIN Due /\ job.pc = "setup" /\ job.conclusion = "unknown"
        /\ job.bundle = <<>> /\ job.refused = FALSE /\ job.lost = FALSE
        /\ job.did = "nothing" /\ job.todo = DOMAIN pins
    BY DEF Due, Fresh
  <2>2. DOMAIN job.bundle = {} /\ Range(job.bundle) = {}
    BY <2>1 DEF Range
  <2>3. job.bundle = [file \in DOMAIN job.bundle |-> job.bundle[file]]
    BY <2>1
  <2>. HIDE DEF job
  <2>4. IsJob(job)
    BY <2>1, <2>2 DEF IsJob
  <2>5. Fetching(pins, job)
    BY <2>1, <2>2, <2>3 DEF Fetching
  <2>6. Knows(pins, job)
    BY <2>1, <2>5 DEF Knows
  <2>. QED BY <2>4, <2>6 DEF job
<1>. QED BY <1>1, <1>2, <1>3

LEMMA MatrixIsRun ==
  ASSUME AreRuns(runs), NEW r \in DOMAIN runs, ~runs[r].matrix,
         NEW more, more \in {{Unnamed}, DOMAIN runs[r].on.pins},
         NEW run, DOMAIN run = {"on", "matrix", "jobs"}, run.on = runs[r].on, run.matrix = TRUE,
         DOMAIN run.jobs = {Pending} \cup more,
         run.jobs[Pending] = runs[r].jobs[Pending],
         Unnamed \in more => run.jobs[Unnamed] = Concluded(Due, "skipped"),
         \A name \in more \ {Unnamed} :
            run.jobs[name] = Fresh(runs[r].on.pins[name])
  PROVE  IsRun(run)
<1>1. IsRun(runs[r]) /\ DOMAIN runs[r].on.pins \subseteq Name
  BY ReplayAssumption DEF AreRuns, IsRun
<1>2. /\ Pending # Unnamed /\ Pending \notin Name /\ Unnamed \notin Name
  BY ReplayAssumption
<1>3. \A name \in more \ {Unnamed} :
         IsJob(run.jobs[name]) /\ Knows(run.on.pins[name], run.jobs[name])
  BY DueIsJob
<1>4. Unnamed \in more => IsJob(run.jobs[Unnamed]) /\ run.jobs[Unnamed].pc = "done"
  BY DueIsJob
<1>5. IsJob(run.jobs[Pending]) /\ run.jobs[Pending].pc \in {"setup", "list", "done"}
  BY <1>1 DEF IsRun
<1>6. \A name \in DOMAIN run.jobs : IsJob(run.jobs[name])
  BY <1>3, <1>4, <1>5
<1>7. \A name \in DOMAIN run.jobs \cap Name : Knows(run.on.pins[name], run.jobs[name])
  BY <1>2, <1>3
<1>8. DOMAIN run.jobs \subseteq {Pending, Unnamed} \cup DOMAIN run.on.pins /\ Pending \in DOMAIN run.jobs
  OBVIOUS
<1>9. Unnamed \in DOMAIN run.jobs => run.jobs[Unnamed].pc = "done"
  BY <1>2, <1>4
<1>. QED BY <1>1, <1>5, <1>6, <1>7, <1>8, <1>9 DEF IsRun

LEMMA EmitMatrixKeeps ==
  ASSUME Inv, NEW r \in DOMAIN runs, EmitMatrix(r)
  PROVE  AreRuns(runs') /\ Len(runs') = Len(runs) /\ Kept
         /\ budget' \in [{"runs", "changes", "accidents"} -> Nat] /\ budget'.runs = budget.runs
<1>. DEFINE entries == runs[r].on.pins
            Job(name) == CASE name = Pending -> runs[r].jobs[Pending]
                           [] name = Unnamed -> Concluded(Due, "skipped")
                           [] OTHER          -> [Due EXCEPT !.todo = DOMAIN entries[name]]
            Run(more) == [runs[r] EXCEPT !.matrix = TRUE,
                                         !.jobs = [name \in {Pending} \cup more |-> Job(name)]]
<1>1. IsRun(runs[r]) /\ DOMAIN entries \subseteq Name /\ AreRuns(runs)
  BY ReplayAssumption DEF Inv, AreRuns, IsRun
<1>2. ~runs[r].matrix
  BY DEF EmitMatrix
<1>3. PICK more \in {{Unnamed}, DOMAIN entries} :
         runs' = [runs EXCEPT ![r].matrix = TRUE,
                              ![r].jobs = [name \in {Pending} \cup more |-> Job(name)]]
  BY DEF EmitMatrix
<1>. DEFINE run == Run(more)
<1>4. runs' = [runs EXCEPT ![r] = run]
  BY <1>3
<1>5. /\ DOMAIN run = {"on", "matrix", "jobs"} /\ run.on = runs[r].on /\ run.matrix = TRUE
      /\ run.jobs = [name \in {Pending} \cup more |-> Job(name)]
  BY <1>1 DEF IsRun
<1>. HIDE DEF run
<1>6. Pending # Unnamed /\ Pending \notin Name
  BY ReplayAssumption
<1>7. /\ DOMAIN run.jobs = {Pending} \cup more
      /\ run.jobs[Pending] = runs[r].jobs[Pending]
      /\ Unnamed \in more => run.jobs[Unnamed] = Concluded(Due, "skipped")
      /\ \A name \in more \ {Unnamed} :
            run.jobs[name] = Fresh(entries[name])
  BY <1>1, <1>5, <1>6 DEF Fresh
<1>8. IsRun(run)
  BY <1>1, <1>2, <1>5, <1>7, MatrixIsRun
<1>9. /\ AreRuns(runs') /\ Len(runs') = Len(runs) /\ DOMAIN runs' = DOMAIN runs
      /\ \A s \in DOMAIN runs \ {r} : runs'[s] = runs[s]
  BY <1>1, <1>4, <1>8, RunReplaced
<1>10. Kept
  BY <1>2, <1>9 DEF Kept, Completed
<1>11. budget' \in [{"runs", "changes", "accidents"} -> Nat] /\ budget'.runs = budget.runs
  BY DEF EmitMatrix, Spend, Inv, IsWorld
<1>. QED BY <1>9, <1>10, <1>11

LEMMA StartRunKeeps ==
  ASSUME Inv, StartRun
  PROVE  AreRuns(runs') /\ budget'.runs + Len(runs') <= Runs /\ Kept
         /\ budget' \in [{"runs", "changes", "accidents"} -> Nat]
<1>. DEFINE run == [on |-> registry, matrix |-> FALSE, jobs |-> [name \in {Pending} |-> Due]]
<1>1. IsRun(run)
  <2>1. /\ DOMAIN run = {"on", "matrix", "jobs"} /\ run.on \in Registry /\ run.matrix = FALSE
        /\ DOMAIN run.jobs = {Pending} /\ run.jobs[Pending] = Due
    BY DEF Inv, IsWorld
  <2>. HIDE DEF run
  <2>2. Pending # Unnamed /\ Pending \notin Name
    BY ReplayAssumption
  <2>. QED BY <2>1, <2>2, DueIsJob DEF IsRun
<1>2. /\ AreRuns(runs') /\ Len(runs') = Len(runs) + 1
      /\ DOMAIN runs \subseteq DOMAIN runs' /\ \A s \in DOMAIN runs : runs'[s] = runs[s]
  <2>1. AreRuns(runs) /\ runs' = Append(runs, run)
    BY DEF Inv, StartRun
  <2>. QED BY <1>1, <2>1, RunAdded
<1>3. /\ budget' \in [{"runs", "changes", "accidents"} -> Nat]
      /\ budget.runs \in Nat /\ budget'.runs = budget.runs - 1
  BY DEF StartRun, Spend, Inv, IsWorld
<1>4. Len(runs) \in Nat /\ budget.runs + Len(runs) <= Runs /\ Runs \in Nat
  BY ReplayAssumption DEF Inv, AreRuns
<1>. QED BY <1>2, <1>3, <1>4 DEF Kept

(* A job that goes on is one of a run that has not completed.              *)
LEMMA ContinuesKeeps ==
  ASSUME Inv, NEW r \in DOMAIN runs, NEW name \in DOMAIN runs[r].jobs,
         runs[r].jobs[name].pc # "done", NEW job, Continues(r, name, job)
  PROVE  AreRuns(runs') /\ Len(runs') = Len(runs) /\ Kept
<1>1. AreRuns(runs)
  BY DEF Inv
<1>2. /\ AreRuns(runs') /\ Len(runs') = Len(runs) /\ DOMAIN runs' = DOMAIN runs
      /\ \A s \in DOMAIN runs \ {r} : runs'[s] = runs[s]
  BY <1>1, JobAdvanced DEF Continues
<1>3. ~Completed(runs[r])
  BY DEF Completed
<1>. QED BY <1>2, <1>3 DEF Kept

(* What a step of a job takes is at most an accident.                      *)
LEMMA JobStepLeaves ==
  ASSUME Inv, NEW r \in DOMAIN runs, NEW name \in DOMAIN runs[r].jobs, JobStep(r, name)
  PROVE  /\ runs[r].jobs[name].pc # "done" /\ UNCHANGED <<registry, host, issuer>>
         /\ budget' \in [{"runs", "changes", "accidents"} -> Nat] /\ budget'.runs = budget.runs
<1>. DEFINE Left == /\ runs[r].jobs[name].pc # "done" /\ UNCHANGED <<registry, host, issuer>>
                    /\ UNCHANGED budget \/ Spend("accidents")
<1>1. Setup(r, name) => Left
  BY DEF Setup
<1>2. ASSUME NEW file, FetchArtifact(r, name, file) PROVE Left
  BY <1>2 DEF FetchArtifact
<1>3. FetchEnds(r, name) => Left
  BY DEF FetchEnds
<1>4. Verify(r, name) => Left
  BY DEF Verify
<1>5. Replay(r, name) => Left
  BY DEF Replay
<1>6. ApplyPredicates(r, name) => Left
  BY DEF ApplyPredicates
<1>7. Left
  BY <1>1, <1>2, <1>3, <1>4, <1>5, <1>6 DEF JobStep
<1>. QED BY <1>7 DEF Spend, Inv, IsWorld

LEMMA RunStepKeeps ==
  ASSUME Inv, RunStep
  PROVE  Inv' /\ Kept
<1>1. UNCHANGED <<registry, host, issuer>>
  <2>1. StartRun => UNCHANGED <<registry, host, issuer>>
    BY DEF StartRun
  <2>2. \A r \in DOMAIN runs : EmitMatrix(r) \/ ListPending(r) => UNCHANGED <<registry, host, issuer>>
    BY DEF EmitMatrix, ListPending
  <2>. QED BY <2>1, <2>2, JobStepLeaves DEF RunStep
<1>2. CASE StartRun
  BY <1>1, <1>2, StartRunKeeps DEF Inv, IsWorld
<1>3. ASSUME NEW r \in DOMAIN runs, EmitMatrix(r) PROVE Inv' /\ Kept
  BY <1>1, <1>3, EmitMatrixKeeps DEF Inv, IsWorld
<1>4. ASSUME NEW r \in DOMAIN runs, ListPending(r) PROVE Inv' /\ Kept
  <2>1. AreRuns(runs) /\ Pending \in DOMAIN runs[r].jobs
    BY DEF Inv, AreRuns, IsRun
  <2>2. PICK job : Continues(r, Pending, job)
    BY <1>4, <2>1, ListPendingContinues
  <2>3. runs[r].jobs[Pending].pc # "done" /\ UNCHANGED budget
    BY <1>4 DEF ListPending
  <2>. QED BY <1>1, <2>1, <2>2, <2>3, ContinuesKeeps DEF Inv, IsWorld
<1>5. ASSUME NEW r \in DOMAIN runs, NEW name \in DOMAIN runs[r].jobs, JobStep(r, name)
      PROVE  Inv' /\ Kept
  <2>1. PICK job : Continues(r, name, job)
    BY <1>5, JobContinues DEF Inv
  <2>2. runs[r].jobs[name].pc # "done"
    BY <1>5, JobStepLeaves
  <2>3. budget' \in [{"runs", "changes", "accidents"} -> Nat] /\ budget'.runs = budget.runs
    BY <1>5, JobStepLeaves
  <2>. QED BY <1>1, <2>1, <2>2, <2>3, ContinuesKeeps DEF Inv, IsWorld
<1>. QED BY <1>2, <1>3, <1>4, <1>5 DEF RunStep

LEMMA WorldStepKeeps ==
  ASSUME Inv, WorldStep
  PROVE  Inv' /\ Kept
<1>1. UNCHANGED runs
  BY DEF WorldStep, Publish, Serve, Regrade
<1>2. /\ budget' \in [{"runs", "changes", "accidents"} -> Nat] /\ budget'.runs = budget.runs
  BY DEF WorldStep, Publish, Serve, Regrade, Spend, Inv, IsWorld
<1>3. registry' \in Registry /\ issuer' \in [Name -> Issuer]
  BY DEF WorldStep, Publish, Serve, Regrade, Inv, IsWorld
<1>4. DOMAIN host' = Name /\ \A n \in Name : Range(host'[n]) \subseteq Blob \cup {Missing}
  <2>1. CASE UNCHANGED host
    BY <2>1 DEF Inv, IsWorld
  <2>2. ASSUME NEW name \in Name, NEW file \in DOMAIN host[name], NEW blob \in Blob \cup {Missing},
               host' = [host EXCEPT ![name][file] = blob]
        PROVE  DOMAIN host' = Name /\ \A n \in Name : Range(host'[n]) \subseteq Blob \cup {Missing}
    <3>1. DOMAIN host = Name /\ \A n \in Name : Range(host[n]) \subseteq Blob \cup {Missing}
      BY DEF Inv, IsWorld
    <3>2. /\ DOMAIN host' = Name /\ \A n \in Name \ {name} : host'[n] = host[n]
          /\ host'[name] = [host[name] EXCEPT ![file] = blob]
      BY <2>2, <3>1
    <3>3. Range(host'[name]) \subseteq Blob \cup {Missing}
      BY <3>1, <3>2 DEF Range
    <3>. QED BY <3>1, <3>2, <3>3
  <2>. QED BY <2>1, <2>2 DEF WorldStep, Publish, Serve, Regrade
<1>5. AreRuns(runs') /\ Kept
  BY <1>1 DEF Inv, Kept
<1>. QED BY <1>1, <1>2, <1>3, <1>4, <1>5 DEF Inv, IsWorld

-----------------------------------------------------------------------------
(* The notes.                                                              *)

FilesOf(outcomes) == [baseline : outcomes \cup {Nothing}, findings : outcomes \cup {Nothing}]

(* A checkout, by what replays have concluded.                             *)
IsDesk(d, outcomes) ==
  /\ DOMAIN d = DOMAIN Idle(0)
  /\ d.pc \in {"idle", "emit", "push"}
  /\ d.pushes \in 0..2 /\ d.left \in 0..Acknowledgements
  /\ d.pc = "idle" => d.base = Nothing
  /\ d.pc # "idle" => d.base \in FilesOf(outcomes) /\ d.mine \in FilesOf(outcomes)

NotesInv ==
  /\ main \in FilesOf(Outcomes)
  /\ DOMAIN desk = Who /\ \A who \in Who : IsDesk(desk[who], Outcomes)
  /\ reported \subseteq Outcomes

(* What a completed run concluded is an outcome.                           *)
LEMMA OutcomesAre ==
  ASSUME Inv
  PROVE  Outcomes \subseteq Outcome
<1>1. ASSUME NEW r \in DOMAIN runs, Completed(runs[r])
      PROVE  Conclusions(runs[r]) \in Outcome
  <2>1. IsRun(runs[r]) /\ DOMAIN runs[r].on.pins \subseteq Name
    BY ReplayAssumption DEF Inv, AreRuns, IsRun
  <2>2. DOMAIN runs[r].jobs \in SUBSET (Name \cup {Pending, Unnamed})
    BY <2>1 DEF IsRun
  <2>3. \A name \in DOMAIN runs[r].jobs :
           runs[r].jobs[name].conclusion \in {"success", "failure", "skipped"}
    BY <1>1, <2>1 DEF IsRun, IsJob, Completed
  <2>. QED BY <2>2, <2>3 DEF Outcome, Conclusions
<1>. QED BY <1>1 DEF Outcomes

(* No file is no outcome, and no pair of files.                            *)
LEMMA NothingIsNone ==
  ASSUME Inv
  PROVE  Nothing \notin Outcomes /\ Nothing \notin FilesOf(Outcomes)
<1>1. Outcomes \subseteq Outcome
  BY OutcomesAre
<1>2. FilesOf(Outcomes) \subseteq Files
  BY <1>1 DEF FilesOf, Files
<1>. QED BY <1>1, <1>2, NotesAssumption

(* Conclusions are kept.                                                   *)
LEMMA OutcomesGrow == Kept => Outcomes \subseteq Outcomes'
<1>1. ASSUME Kept, NEW r \in DOMAIN runs, Completed(runs[r])
      PROVE  Conclusions(runs[r]) \in Outcomes'
  BY <1>1 DEF Kept, Outcomes
<1>. QED BY <1>1 DEF Outcomes

(* A file of the outcomes is one of more outcomes.                         *)
LEMMA NotesGrow ==
  ASSUME NotesInv, Outcomes \subseteq Outcomes', UNCHANGED notesVars
  PROVE  NotesInv'
<1>1. FilesOf(Outcomes) \subseteq FilesOf(Outcomes')
  BY DEF FilesOf
<1>2. \A who \in Who : IsDesk(desk[who], Outcomes) => IsDesk(desk[who], Outcomes')
  BY <1>1 DEF IsDesk
<1>3. UNCHANGED <<main, desk, reported>>
  BY DEF notesVars
<1>. QED BY <1>1, <1>2, <1>3 DEF NotesInv

(* latest_outcome is one of the outcomes.                                  *)
LEMMA LatestIsOutcome ==
  ASSUME Inv, Done # {}
  PROVE  Latest \in Outcomes
<1>1. Len(runs) \in Nat /\ DOMAIN runs = 1..Len(runs)
  BY DEF Inv, AreRuns
<1>2. Done \subseteq 0..Len(runs)
  BY <1>1 DEF Done
<1>3. \E r \in Done : \A s \in Done : s <= r
  <2>. HIDE DEF Done
  <2>. QED BY <1>1, <1>2, GreatestNatural
<1>. DEFINE last == CHOOSE r \in Done : \A s \in Done : s <= r
<1>4. last \in Done
  BY <1>3
<1>5. Latest = Conclusions(runs[last])
  BY DEF Latest
<1>. HIDE DEF last
<1>. QED BY <1>4, <1>5 DEF Outcomes, Done

LEMMA EmittedAreFiles ==
  ASSUME Inv, Done # {}, NEW files \in FilesOf(Outcomes), NEW acknowledge \in BOOLEAN
  PROVE  Emitted(files, acknowledge) \in FilesOf(Outcomes)
<1>1. Latest \in Outcomes
  BY LatestIsOutcome
<1>. QED BY <1>1 DEF Emitted, FilesOf

LEMMA RebasedAreFiles ==
  ASSUME NEW O, NEW base \in FilesOf(O), NEW mine \in FilesOf(O), NEW theirs \in FilesOf(O)
  PROVE  Rebased(base, mine, theirs) \in FilesOf(O)
BY DEF Rebased, FilesOf

(* One desk is put in another order.                                       *)
LEMMA DeskTurns ==
  ASSUME NotesInv, NEW who \in Who, NEW d, IsDesk(d, Outcomes),
         desk' = [desk EXCEPT ![who] = d], UNCHANGED <<runs, reported>>,
         main' \in FilesOf(Outcomes)
  PROVE  NotesInv'
<1>1. Outcomes' = Outcomes
  BY DEF Outcomes
<1>2. DOMAIN desk' = Who /\ \A w \in Who : IsDesk(desk'[w], Outcomes)
  BY DEF NotesInv
<1>3. main' \in FilesOf(Outcomes') /\ reported' \subseteq Outcomes'
  BY <1>1 DEF NotesInv
<1>. QED BY <1>1, <1>2, <1>3 DEF NotesInv

LEMMA IdleIsDesk ==
  ASSUME NEW O, NEW left \in 0..Acknowledgements
  PROVE  IsDesk(Idle(left), O)
BY NotesAssumption DEF IsDesk, Idle

LEMMA HomeIsDesk ==
  ASSUME NotesInv, NEW who \in Who, GoesHome(who), UNCHANGED <<runs, reported>>,
         main' \in FilesOf(Outcomes)
  PROVE  NotesInv'
<1>1. IsDesk(desk[who], Outcomes)
  BY DEF NotesInv
<1>2. IsDesk(Idle(desk[who].left), Outcomes)
  BY <1>1, IdleIsDesk DEF IsDesk
<1>. QED BY <1>2, DeskTurns DEF GoesHome

LEMMA DeskStepKeeps ==
  ASSUME Inv, NotesInv, NEW who \in Who, DeskStep(who), UNCHANGED replayVars
  PROVE  NotesInv'
<1>1. /\ IsDesk(desk[who], Outcomes) /\ main \in FilesOf(Outcomes)
      /\ UNCHANGED runs
  BY DEF NotesInv, replayVars
<1>2. CASE Checkout(who)
  <2>. DEFINE d == [pc |-> "emit", base |-> main, at |-> registry, mine |-> main, pushes |-> 0,
                    left |-> IF who = "person" THEN desk[who].left - 1 ELSE desk[who].left]
  <2>1. desk' = [desk EXCEPT ![who] = d] /\ UNCHANGED <<main, reported>>
    BY <1>2 DEF Checkout
  <2>2. IsDesk(d, Outcomes)
    BY <1>1, <1>2, NotesAssumption DEF Checkout, IsDesk, Idle
  <2>. HIDE DEF d
  <2>. QED BY <1>1, <2>1, <2>2, DeskTurns
<1>3. CASE Emit(who)
  <2>1. UNCHANGED <<main, reported>>
    BY <1>3 DEF Emit
  <2>2. CASE GoesHome(who)
    BY <1>1, <2>1, <2>2, HomeIsDesk
  <2>3. CASE ~GoesHome(who)
    <3>. DEFINE files == Emitted(desk[who].mine, who = "person")
                d == [desk[who] EXCEPT !.mine = files, !.pc = "push"]
    <3>1. /\ Done # {} /\ desk[who].pc = "emit"
          /\ desk' = [desk EXCEPT ![who].mine = files, ![who].pc = "push"]
      BY <1>3, <2>3 DEF Emit
    <3>2. desk[who].mine \in FilesOf(Outcomes) /\ desk[who].base \in FilesOf(Outcomes)
      BY <1>1, <3>1 DEF IsDesk
    <3>3. files \in FilesOf(Outcomes)
      BY <3>1, <3>2, EmittedAreFiles
    <3>4. desk' = [desk EXCEPT ![who] = d]
      BY <3>1
    <3>. HIDE DEF files
    <3>5. IsDesk(d, Outcomes)
      BY <1>1, <3>2, <3>3 DEF IsDesk, Idle
    <3>. HIDE DEF d
    <3>. QED BY <1>1, <2>1, <3>4, <3>5, DeskTurns
  <2>. QED BY <2>2, <2>3
<1>4. CASE Push(who)
  <2>1. desk[who].mine \in FilesOf(Outcomes)
    BY <1>1, <1>4 DEF Push, IsDesk
  <2>. QED BY <1>1, <1>4, <2>1, HomeIsDesk DEF Push
<1>5. CASE PullRebase(who)
  <2>1. UNCHANGED <<main, reported>>
    BY <1>5 DEF PullRebase
  <2>2. CASE GoesHome(who)
    BY <1>1, <2>1, <2>2, HomeIsDesk
  <2>3. CASE ~GoesHome(who)
    <3>. DEFINE files == Rebased(desk[who].base, desk[who].mine, main)
                d == [desk[who] EXCEPT !.base = main, !.at = registry, !.mine = files,
                                       !.pushes = @ + 1]
    <3>1. /\ desk[who].pushes # 2 /\ desk[who].pc = "push"
          /\ desk' = [desk EXCEPT ![who].base = main, ![who].at = registry,
                                  ![who].mine = files, ![who].pushes = @ + 1]
      BY <1>5, <2>3 DEF PullRebase
    <3>2. desk[who].mine \in FilesOf(Outcomes) /\ desk[who].base \in FilesOf(Outcomes)
      BY <1>1, <3>1 DEF IsDesk
    <3>3. files \in FilesOf(Outcomes)
      BY <1>1, <3>2, RebasedAreFiles
    <3>4. desk' = [desk EXCEPT ![who] = d]
      BY <3>1
    <3>. HIDE DEF files
    <3>5. IsDesk(d, Outcomes)
      BY <1>1, <3>1, <3>2, <3>3 DEF IsDesk, Idle
    <3>. HIDE DEF d
    <3>. QED BY <1>1, <2>1, <3>4, <3>5, DeskTurns
  <2>. QED BY <2>2, <2>3
<1>. QED BY <1>2, <1>3, <1>4, <1>5 DEF DeskStep

LEMMA ReportKeeps ==
  ASSUME NotesInv, Report, UNCHANGED replayVars
  PROVE  NotesInv'
<1>1. main.findings \in Outcomes
  BY DEF NotesInv, Report, FilesOf
<1>2. Outcomes' = Outcomes
  BY DEF replayVars, Outcomes
<1>. QED BY <1>1, <1>2 DEF NotesInv, Report

-----------------------------------------------------------------------------
(* The invariant of the replay and its notes.                              *)

LEMMA Starts == Init => Inv /\ NotesInv
<1>. SUFFICES ASSUME Init PROVE Inv /\ NotesInv
  OBVIOUS
<1>1. PICK n \in 0..Runs, changes \in 0..Changes, accidents \in 0..Accidents :
        ReplayInit([registry |-> registry, host |-> host, issuer |-> issuer,
                    runs |-> n, changes |-> changes, accidents |-> accidents])
  BY DEF Init
<1>2. runs = <<>> /\ budget = [runs |-> n, changes |-> changes, accidents |-> accidents]
  BY <1>1 DEF ReplayInit
<1>3. AreRuns(runs) /\ Len(runs) = 0
  BY <1>2 DEF AreRuns
<1>4. budget \in [{"runs", "changes", "accidents"} -> Nat] /\ budget.runs <= Runs
  BY <1>2, ReplayAssumption
<1>5. Inv
  BY <1>3, <1>4 DEF Inv, IsWorld, Init
<1>6. NotesInv
  <2>1. \A who \in Who : IsDesk(Idle(Acknowledgements), Outcomes)
    BY IdleIsDesk, NotesAssumption
  <2>. QED BY <2>1 DEF NotesInv, NotesInit, Init, FilesOf
<1>. QED BY <1>5, <1>6

LEMMA Steps == Inv /\ NotesInv /\ [Next]_vars => Inv' /\ NotesInv'
<1>. SUFFICES ASSUME Inv, NotesInv, [Next]_vars PROVE Inv' /\ NotesInv'
  OBVIOUS
<1>1. CASE (RunStep \/ WorldStep) /\ UNCHANGED notesVars
  <2>1. Inv' /\ Kept
    BY <1>1, RunStepKeeps, WorldStepKeeps
  <2>. QED BY <1>1, <2>1, OutcomesGrow, NotesGrow
<1>2. CASE NotesStep /\ UNCHANGED replayVars
  <2>1. Inv'
    BY <1>2 DEF replayVars, Inv, IsWorld
  <2>2. NotesInv'
    BY <1>2, DeskStepKeeps, ReportKeeps DEF NotesStep
  <2>. QED BY <2>1, <2>2
<1>3. CASE UNCHANGED vars
  <2>1. Inv'
    BY <1>3 DEF vars, replayVars, Inv, IsWorld
  <2>2. Outcomes' = Outcomes
    BY <1>3 DEF vars, replayVars, Outcomes
  <2>3. NotesInv'
    BY <1>3, <2>2, NotesGrow DEF vars
  <2>. QED BY <2>1, <2>3
<1>. QED BY <1>1, <1>2, <1>3 DEF Next

LEMMA Always == Spec => [](Inv /\ NotesInv)
BY Starts, Steps, PTL DEF Spec

-----------------------------------------------------------------------------
(* Type correctness: runs, their jobs, the hosts and the desks of the notes*)
(* stay what they are, for any registry and any number of runs.            *)
THEOREM TypeCorrect == Spec => []TypeOK
<1>1. Inv /\ NotesInv => TypeOK
  <2>. SUFFICES ASSUME Inv, NotesInv PROVE TypeOK
    OBVIOUS
  <2>1. Len(runs) <= Runs
    BY ReplayAssumption DEF Inv, IsWorld, AreRuns
  <2>2. ASSUME NEW r \in DOMAIN runs
        PROVE  /\ runs[r].on \in Registry /\ runs[r].matrix \in BOOLEAN
               /\ DOMAIN runs[r].jobs \subseteq Name \cup {Pending, Unnamed}
               /\ \A name \in DOMAIN runs[r].jobs : IsJob(runs[r].jobs[name])
    <3>1. IsRun(runs[r]) /\ DOMAIN runs[r].on.pins \subseteq Name
      BY ReplayAssumption DEF Inv, AreRuns, IsRun
    <3>. QED BY <3>1 DEF IsRun
  <2>3. ReplayTypeOK
    BY <2>1, <2>2 DEF Inv, IsWorld, ReplayTypeOK, IsJob
  <2>4. ASSUME NEW who \in Who
        PROVE  /\ desk[who].pc \in {"idle", "emit", "push"}
               /\ desk[who].pushes \in 0..2 /\ desk[who].left \in 0..Acknowledgements
               /\ desk[who].pc = "idle" <=> desk[who].base = Nothing
    BY NothingIsNone DEF NotesInv, IsDesk
  <2>. QED BY <2>3, <2>4 DEF TypeOK
<1>. QED BY <1>1, Always, PTL

(* What the gate says of an entry: a job whose machine did not fail is     *)
(* green if and only if it downloaded what registry.json pinned at its     *)
(* commit, that verified, the block ran to its end against what the issuer *)
(* was then, and the transcript passed the predicates of its profiles.     *)
GreenIsGated ==
  \A r \in DOMAIN runs : \A name \in DOMAIN runs[r].jobs \cap Name :
    LET job == runs[r].jobs[name]
    IN  job.pc = "done" /\ ~job.lost =>
          (job.conclusion = "success" <=> Passed(runs[r].on.pins[name], job))

LEMMA Gated == Inv => GreenIsGated
<1>1. ASSUME Inv, NEW r \in DOMAIN runs, NEW name \in DOMAIN runs[r].jobs \cap Name
      PROVE  Knows(runs[r].on.pins[name], runs[r].jobs[name])
  BY <1>1, PinsOf DEF Inv
<1>. QED BY <1>1 DEF GreenIsGated, Knows

(* replay.yml's gate, for any replay blocks: green is what the steps made  *)
(* of the pinned bytes, and nothing that happens meanwhile to registry.json*)
(* hosts, issuers or other jobs makes it so.                               *)
THEOREM GreenGated == Spec => []GreenIsGated
BY Gated, Always, PTL

(* What words a command prints.                                            *)
LEMMA PrintsWords ==
  ASSUME NEW command, NEW how
  PROVE  /\ "consistent" \in Prints(command, how)
              <=> command.kind = "regrade" /\ how = "reproduces"
         /\ "stale-code" \in Prints(command, how)
              <=> command.kind = "regrade" /\ how = "refuses"
         /\ "cmp" \in Prints(command, how) <=> command.kind = "cmp"
         /\ "differ" \in Prints(command, how) <=> command.kind = "cmp" /\ how = "diverges"
<1>1. CASE command.kind = "regrade"
  BY <1>1 DEF Prints
<1>2. CASE command.kind = "cmp"
  <2>1. Prints(command, how) = IF how = "diverges" THEN {"cmp", "differ"} ELSE {"cmp"}
    BY <1>2 DEF Prints
  <2>. QED BY <1>2, <2>1
<1>3. CASE command.kind \notin {"regrade", "cmp"}
  <2>1. Prints(command, how) = {}
    BY <1>3 DEF Prints
  <2>. QED BY <1>3, <2>1
<1>. QED BY <1>1, <1>2, <1>3

(* A transcript passes if and only if the block reproduced the evidence.   *)
LEMMA PredicatesAreReproduced ==
  ASSUME NEW pins, Strict(Reads[pins[Manifest]]),
         NEW how \in Issuer, Stops(Commands(pins), how) = {}
  PROVE  Predicates(Reads[pins[Manifest]].profiles, Printed(pins, how))
           <=> Reproduced(Commands(pins), Reads[pins[Manifest]].profiles, how)
<1>. DEFINE commands == Commands(pins)
            profiles == Reads[pins[Manifest]].profiles
            printed  == Printed(pins, how)
<1>1. Ran(commands, how) = DOMAIN commands
  BY DEF Ran
<1>2. \A i \in DOMAIN commands : ~commands[i].absorbed => ~Fails(commands[i], how)
  BY DEF Stops
<1>3. \A word : word \in printed <=> \E i \in DOMAIN commands : word \in Prints(commands[i], how)
  BY <1>1 DEF Printed
<1>. HIDE DEF printed, commands
<1>4. Consistent(printed) <=>
        how = "reproduces" /\ \E i \in DOMAIN commands : commands[i].kind = "regrade"
  BY <1>3, PrintsWords DEF Consistent
<1>5. "compared" \in profiles =>
        (Compared(printed) <=>
           how = "reproduces" /\ \E i \in DOMAIN commands : commands[i].kind = "cmp")
  <2>. SUFFICES ASSUME "compared" \in profiles
                PROVE  Compared(printed) <=>
                         how = "reproduces" /\ \E i \in DOMAIN commands : commands[i].kind = "cmp"
    OBVIOUS
  <2>1. PICK i, j \in DOMAIN commands :
          /\ commands[i].kind = "checkout" /\ ~commands[i].absorbed
          /\ commands[j].kind \in {"emit", "cmp"} /\ ~commands[j].absorbed
    BY DEF Strict, Commands, commands
  <2>2. how # "gone"
    BY <1>2, <2>1 DEF Fails
  <2>3. how # "refuses"
    BY <1>2, <2>1 DEF Fails
  <2>4. how \in {"reproduces", "diverges"}
    BY <2>2, <2>3 DEF Issuer
  <2>5. "differ" \in printed <=>
          how = "diverges" /\ \E k \in DOMAIN commands : commands[k].kind = "cmp"
    BY <1>3, PrintsWords
  <2>6. "cmp" \in printed <=> \E k \in DOMAIN commands : commands[k].kind = "cmp"
    BY <1>3, PrintsWords
  <2>. QED BY <2>4, <2>5, <2>6 DEF Compared
<1>. QED BY <1>4, <1>5 DEF Predicates, Reproduced, commands, printed

(* Green is earned, for any registry, hosts and issuers and any replay     *)
(* blocks that are strict: without that a block may absorb the failure of  *)
(* its emit and of its cmp, and is green when the issuer refused.          *)
THEOREM GreenEarned ==
  ASSUME StrictBlocks
  PROVE  Spec => []GreenIsEarned
<1>1. ASSUME Inv PROVE GreenIsEarned
  <2>. SUFFICES ASSUME NEW r \in DOMAIN runs, NEW name \in DOMAIN runs[r].jobs \cap Name,
                       runs[r].jobs[name].pc = "done", ~runs[r].jobs[name].lost
                PROVE  LET job  == runs[r].jobs[name]
                           pins == runs[r].on.pins[name]
                           man  == Reads[pins[Manifest]]
                       IN  job.conclusion = "success" <=>
                             /\ job.bundle = pins /\ Verifies(pins)
                             /\ job.did # "nothing"
                             /\ Reproduced(man.commands, man.profiles, job.did)
    BY DEF GreenIsEarned
  <2>. DEFINE job  == runs[r].jobs[name]
              pins == runs[r].on.pins[name]
  <2>1. job.conclusion = "success" <=> Passed(pins, job)
    BY <1>1, Gated DEF GreenIsGated
  <2>2. job.did \in Issuer \cup {"nothing"}
    BY <1>1, PinsOf DEF Inv, IsJob
  <2>3. Verifies(pins) => Strict(Reads[pins[Manifest]])
    BY DEF StrictBlocks, Verifies
  <2>4. ASSUME Verifies(pins), job.did # "nothing"
        PROVE  (Stops(Commands(pins), job.did) = {}
                  /\ Predicates(Reads[pins[Manifest]].profiles, Printed(pins, job.did)))
               <=> Reproduced(Commands(pins), Reads[pins[Manifest]].profiles, job.did)
    <3>1. Reproduced(Commands(pins), Reads[pins[Manifest]].profiles, job.did)
            => Stops(Commands(pins), job.did) = {}
      BY DEF Reproduced
    <3>. QED BY <2>2, <2>3, <2>4, <3>1, PredicatesAreReproduced
  <2>. QED BY <2>1, <2>4 DEF Passed, Commands
<1>. QED BY <1>1, Always, PTL

(* A replay that has completed keeps its conclusions.                      *)
ConclusionsAreKept ==
  [][\A r \in DOMAIN runs : Completed(runs[r]) =>
        r \in DOMAIN runs' /\ Conclusions(runs[r])' = Conclusions(runs[r])]_vars

(* latest_outcome reads runs whose conclusions no later step changes.      *)
THEOREM ConclusionsKept == Spec => ConclusionsAreKept
<1>1. ASSUME Inv, [Next]_vars
      PROVE  \A r \in DOMAIN runs : Completed(runs[r]) =>
               r \in DOMAIN runs' /\ Conclusions(runs[r])' = Conclusions(runs[r])
  <2>1. Kept
    <3>1. CASE (RunStep \/ WorldStep) /\ UNCHANGED notesVars
      BY <1>1, <3>1, RunStepKeeps, WorldStepKeeps
    <3>2. CASE UNCHANGED runs
      BY <3>2 DEF Kept
    <3>. QED BY <1>1, <3>1, <3>2 DEF Next, vars, replayVars
  <2>. QED BY <2>1 DEF Kept, Conclusions
<1>. QED BY <1>1, Always, PTL DEF Spec, ConclusionsAreKept

(* What the notes report, and the baseline they compare with, is what a    *)
(* completed replay concluded: whatever run is in progress, whoever pushes *)
(* over whom, and however often a push is rebased.                         *)
THEOREM ReportsWereConcluded == Spec => []ReportedWasConcluded
<1>1. NotesInv => ReportedWasConcluded
  BY DEF NotesInv, FilesOf, ReportedWasConcluded
<1>. QED BY <1>1, Always, PTL
=============================================================================

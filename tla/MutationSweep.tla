---------------------------- MODULE MutationSweep ---------------------------
(***************************************************************************)
(* Sweeps of tools/mutation_sweep.py over one tree.  Each is a process     *)
(* that measures the source (main), takes the lock and edits the source in *)
(* place (_sweep_transaction), and can be interrupted between any two of   *)
(* its steps by a signal, whose handler runs _restore in its stead.        *)
(*                                                                         *)
(* The source is a text and the refusal site that is blanked in it, if     *)
(* any.  A catchable signal is SIGINT or SIGTERM; a kill is SIGKILL, an    *)
(* out-of-memory kill or a lost machine.                                   *)
(***************************************************************************)
EXTENDS Naturals

CONSTANTS
  Sweep,      \* processes, each run once
  Text,       \* source texts people have written
  Sites,      \* how many refusal sites there are
  Caught,     \* the sites whose blanking some detector notices
  Signals,    \* bound: catchable signals
  Kills,      \* bound: kills
  Edits,      \* bound: edits by people
  Nobody, Orphan, Nothing  \* of ExclusiveEdit

ASSUME SweepAssumption ==
  /\ Sites \in Nat /\ Caught \subseteq 1..Sites
  /\ Signals \in Nat /\ Kills \in Nat /\ Edits \in Nat
  /\ Nobody \notin Sweep /\ Orphan \notin Sweep \cup {Nobody}

Clean == 0
Source == [text : Text, blanked : 0..Sites]
Pristine == [text : Text, blanked : {Clean}]

VARIABLES
  src,       \* vac/verify.py
  lock,      \* .mutation_sweep.lock exists
  pc,        \* where each process is in main
  handler,   \* where it is in _on_signal, or "none"
  raw,       \* the source it measured, and takes its mutants from
  snapshot,  \* the source as read under the lock
  restored,  \* _restore has written the snapshot back
  next,      \* the site it measures next
  caught,    \* sites recorded as caught
  budget     \* what is left of the bounds

process == <<pc, handler, raw, snapshot, restored, next, caught>>
vars == <<src, lock, process, budget>>

-----------------------------------------------------------------------------
Init ==
  /\ src \in Pristine /\ lock = FALSE
  /\ pc = [s \in Sweep |-> "start"] /\ handler = [s \in Sweep |-> "none"]
  /\ raw = [s \in Sweep |-> src] /\ snapshot = raw
  /\ restored = [s \in Sweep |-> FALSE]
  /\ next = [s \in Sweep |-> 1] /\ caught = [s \in Sweep |-> {}]
  /\ budget = [signals |-> Signals, kills |-> Kills, edits |-> Edits]

At(s, here) == pc[s] = here /\ handler[s] = "none"
GoTo(s, there) == pc' = [pc EXCEPT ![s] = there]

(* observe: does some detector notice what is in the file right now?       *)
Noticed(source) == source.blanked \in Caught

(* One read of the source; a blanked site changes the population of sites, *)
(* and a population nobody declared aborts the run.                        *)
Measure(s) ==
  /\ At(s, "start")
  /\ raw' = [raw EXCEPT ![s] = src]
  /\ GoTo(s, IF src.blanked = Clean THEN "measured" ELSE "ended")
  /\ UNCHANGED <<src, lock, handler, snapshot, restored, next, caught, budget>>

Baseline(s) ==
  /\ At(s, "measured")
  /\ GoTo(s, IF Noticed(src) THEN "ended" ELSE "baselined")
  /\ UNCHANGED <<src, lock, handler, raw, snapshot, restored, next, caught, budget>>

(* Mutant: the lock file is opened whether or not it is there.             *)
AcquireShared(s) ==
  /\ At(s, "baselined")
  /\ GoTo(s, "locked")
  /\ lock' = TRUE
  /\ UNCHANGED <<src, handler, raw, snapshot, restored, next, caught, budget>>

(* os.open with O_EXCL.                                                    *)
Acquire(s) ==
  /\ At(s, "baselined")
  /\ GoTo(s, IF lock THEN "ended" ELSE "locked")
  /\ lock' = TRUE
  /\ UNCHANGED <<src, handler, raw, snapshot, restored, next, caught, budget>>

(* Mutant: what was measured is the snapshot, read before the lock.        *)
SnapshotMeasured(s) ==
  /\ At(s, "locked")
  /\ snapshot' = [snapshot EXCEPT ![s] = raw[s]]
  /\ GoTo(s, "snapped")
  /\ UNCHANGED <<src, lock, handler, raw, restored, next, caught, budget>>

Snapshot(s) ==
  /\ At(s, "locked")
  /\ snapshot' = [snapshot EXCEPT ![s] = src]
  /\ GoTo(s, "snapped")
  /\ UNCHANGED <<src, lock, handler, raw, restored, next, caught, budget>>

Arm(s) ==          \* the handlers are installed
  /\ At(s, "snapped")
  /\ GoTo(s, "armed")
  /\ UNCHANGED <<src, lock, handler, raw, snapshot, restored, next, caught, budget>>

Enter(s) ==        \* try: the with body starts
  /\ At(s, "armed")
  /\ GoTo(s, "body")
  /\ UNCHANGED <<src, lock, handler, raw, snapshot, restored, next, caught, budget>>

Mutant(s) == [raw[s] EXCEPT !.blanked = next[s]]

(* Mutant: one site too many.                                              *)
MutatePast(s) ==
  /\ At(s, "body") /\ next[s] <= Sites + 1
  /\ src' = Mutant(s)
  /\ GoTo(s, "observing")
  /\ UNCHANGED <<lock, handler, raw, snapshot, restored, next, caught, budget>>

Mutate(s) ==
  /\ At(s, "body") /\ next[s] <= Sites
  /\ src' = Mutant(s)
  /\ GoTo(s, "observing")
  /\ UNCHANGED <<lock, handler, raw, snapshot, restored, next, caught, budget>>

(* Mutant: the site is counted up before it is recorded.                   *)
ObserveLate(s) ==
  /\ At(s, "observing")
  /\ next' = [next EXCEPT ![s] = @ + 1]
  /\ caught' = IF Noticed(src) THEN [caught EXCEPT ![s] = @ \cup {next'[s]}] ELSE caught
  /\ GoTo(s, "body")
  /\ UNCHANGED <<src, lock, handler, raw, snapshot, restored, budget>>

Observe(s) ==
  /\ At(s, "observing")
  /\ caught' = IF Noticed(src) THEN [caught EXCEPT ![s] = @ \cup {next[s]}] ELSE caught
  /\ next' = [next EXCEPT ![s] = @ + 1]
  /\ GoTo(s, "body")
  /\ UNCHANGED <<src, lock, handler, raw, snapshot, restored, budget>>

(* Mutant: an exception in the body only gives the lock up.                *)
LeaveUnrestored(s) ==
  /\ handler[s] = "none"
  /\ (pc[s] = "body" /\ next[s] > Sites) \/ pc[s] = "observing"
  /\ GoTo(s, IF pc[s] = "body" THEN "restoring" ELSE "unlinking")
  /\ UNCHANGED <<src, lock, handler, raw, snapshot, restored, next, caught, budget>>

(* The body is over, or raised: either way the finally clause.             *)
Leave(s) ==
  /\ handler[s] = "none"
  /\ (pc[s] = "body" /\ next[s] > Sites) \/ pc[s] = "observing"
  /\ GoTo(s, "restoring")
  /\ UNCHANGED <<src, lock, handler, raw, snapshot, restored, next, caught, budget>>

-----------------------------------------------------------------------------
(* _restore, as the finally clause and the handler both call it: write the *)
(* snapshot back unless that was done, look at the file again, unlink.     *)
WriteBack(s) ==
  /\ src' = IF restored[s] THEN src ELSE snapshot[s]
  /\ restored' = [restored EXCEPT ![s] = TRUE]

(* Mutant: the file is compared with what was measured.                    *)
IsRestoredMeasured(s) == src = raw[s]

IsRestored(s) == src = snapshot[s]

Unlink == lock' = FALSE

Restore(s) ==
  \/ /\ At(s, "restoring") /\ WriteBack(s) /\ GoTo(s, "asserting")
     /\ UNCHANGED <<lock, handler, raw, snapshot, next, caught, budget>>
  \/ /\ At(s, "asserting") /\ GoTo(s, IF IsRestored(s) THEN "unlinking" ELSE "ended")
     /\ UNCHANGED <<src, lock, handler, raw, snapshot, restored, next, caught, budget>>
  \/ /\ At(s, "unlinking") /\ Unlink /\ GoTo(s, "disarming")
     /\ UNCHANGED <<src, handler, raw, snapshot, restored, next, caught, budget>>
  \/ /\ At(s, "disarming") /\ GoTo(s, "ended")
     /\ UNCHANGED <<src, lock, handler, raw, snapshot, restored, next, caught, budget>>

(* What leaves the handler is an exception, raised where the signal came:  *)
(* inside the try it still meets the finally clause.                       *)
Raise(s) ==
  /\ handler' = [handler EXCEPT ![s] = "none"]
  /\ GoTo(s, IF pc[s] \in {"body", "observing"} THEN "restoring" ELSE "ended")

Handle(s) ==
  \/ /\ handler[s] = "restoring" /\ WriteBack(s)
     /\ handler' = [handler EXCEPT ![s] = "asserting"]
     /\ UNCHANGED <<lock, pc, raw, snapshot, next, caught, budget>>
  \/ /\ handler[s] = "asserting" /\ ~IsRestored(s) /\ Raise(s)
     /\ UNCHANGED <<src, lock, raw, snapshot, restored, next, caught, budget>>
  \/ /\ handler[s] = "asserting" /\ IsRestored(s)
     /\ handler' = [handler EXCEPT ![s] = "unlinking"]
     /\ UNCHANGED <<src, lock, pc, raw, snapshot, restored, next, caught, budget>>
  \/ /\ handler[s] = "unlinking" /\ Unlink
     /\ handler' = [handler EXCEPT ![s] = "exiting"]
     /\ UNCHANGED <<src, pc, raw, snapshot, restored, next, caught, budget>>
  \/ /\ handler[s] = "exiting" /\ Raise(s)
     /\ UNCHANGED <<src, lock, raw, snapshot, restored, next, caught, budget>>

-----------------------------------------------------------------------------
Spend(what) == budget[what] > 0 /\ budget' = [budget EXCEPT ![what] = @ - 1]

Armed == {"armed", "body", "observing", "restoring", "asserting", "unlinking", "disarming"}

(* SIGINT or SIGTERM: fatal until the handlers are in.  A second one stops *)
(* a handler half way and starts over: what its own handler raises goes    *)
(* through the first.                                                      *)
Signal(s) ==
  /\ pc[s] # "ended" /\ Spend("signals")
  /\ IF pc[s] \in Armed
     THEN handler' = [handler EXCEPT ![s] = "restoring"] /\ UNCHANGED pc
     ELSE GoTo(s, "ended") /\ UNCHANGED handler
  /\ UNCHANGED <<src, lock, raw, snapshot, restored, next, caught>>

Kill(s) ==
  /\ pc[s] # "ended" /\ Spend("kills")
  /\ GoTo(s, "ended") /\ handler' = [handler EXCEPT ![s] = "none"]
  /\ UNCHANGED <<src, lock, raw, snapshot, restored, next, caught>>

(* People edit the source while no lock is there, and remove a lock only   *)
(* after confirming that no sweep is running, as the abort message asks.   *)
EditSource ==
  /\ ~lock /\ Spend("edits")
  /\ src' \in Pristine
  /\ UNCHANGED <<lock, process>>

RemoveLock ==
  /\ lock /\ \A s \in Sweep : pc[s] \in {"start", "ended"}
  /\ lock' = FALSE
  /\ UNCHANGED <<src, process, budget>>

Step(s) ==
  \/ Measure(s) \/ Baseline(s) \/ Acquire(s) \/ Snapshot(s) \/ Arm(s) \/ Enter(s)
  \/ Mutate(s) \/ Observe(s) \/ Leave(s) \/ Restore(s) \/ Handle(s)

Next == \/ \E s \in Sweep : Step(s) \/ Signal(s) \/ Kill(s)
        \/ EditSource \/ RemoveLock

(* A sweep that has started runs on.  Nobody is obliged to start one, or   *)
(* to clear a lock.                                                        *)
Fairness == \A s \in Sweep : WF_vars(pc[s] # "start" /\ Step(s))

Spec == Init /\ [][Next]_vars /\ Fairness

-----------------------------------------------------------------------------
Place == Armed \cup {"start", "measured", "baselined", "locked", "snapped", "ended"}

(* Type invariant.                                                         *)
TypeOK ==
  /\ src \in Source /\ lock \in BOOLEAN
  /\ pc \in [Sweep -> Place] /\ (\A s \in Sweep : pc[s] = "observing" => next[s] <= Sites)
  /\ handler \in [Sweep -> {"none", "restoring", "asserting", "unlinking", "exiting"}]
  /\ raw \in [Sweep -> Source] /\ snapshot \in [Sweep -> Source]
  /\ restored \in [Sweep -> BOOLEAN]
  /\ next \in [Sweep -> 1..(Sites + 1)] /\ caught \in [Sweep -> SUBSET (1..Sites)]
  /\ budget \in [{"signals", "kills", "edits"} -> Nat]

(* The promise, as ExclusiveEdit puts it: whoever is between taking the    *)
(* lock and unlinking it holds the source, and a lock nobody alive took    *)
(* belongs to an orphan.                                                   *)
Inside == {s \in Sweep : pc[s] \in (Armed \ {"disarming"}) \cup {"locked", "snapped"}}

Holder == IF ~lock THEN Nobody
          ELSE IF Inside = {} THEN Orphan ELSE CHOOSE s \in Inside : TRUE

Saved == IF Holder \notin Sweep THEN Nothing
         ELSE IF pc[Holder] = "locked" THEN src ELSE snapshot[Holder]

Promise == INSTANCE ExclusiveEdit WITH
             Content <- Source, holder <- Holder, content <- src, saved <- Saved

(* One sweep at a time has the source to itself, and gives it back as it   *)
(* was when the lock was taken, whoever else starts, edits or dies.        *)
GivesBack == Promise!Spec

(* While no lock is there nobody reads a mutated source: this is what the  *)
(* lock is for (the ABORT message: a concurrent test run would read a      *)
(* mutated file and report a phantom failure).  A kill leaves the mutant,  *)
(* and the lock to a person who may not notice it.                         *)
MutantNeedsLock == ~lock /\ budget.kills = Kills => src.blanked = Clean

(* What a sweep records of a site is what its detectors see of that site   *)
(* blanked, never of another sweep's mutant, a restored file or an edit.   *)
ScoreIsTrue == \A s \in Sweep : caught[s] = Caught \cap (1..(next[s] - 1))

(* A sweep that took the lock and installed its handlers gives the lock up,*)
(* on normal exit, exception, SIGINT and SIGTERM: everything but a kill.   *)
ArmedIsReleased ==
  \A s \in Sweep : pc[s] \in Armed ~> (~lock \/ budget.kills < Kills)

(* _sweep_transaction guarantees byte-identical restore (its docstring):   *)
(* once no sweep is running, none of them has left a mutant behind.        *)
NothingLeftBehind ==
  (\A s \in Sweep : pc[s] \in {"start", "ended"}) => src.blanked = Clean
=============================================================================

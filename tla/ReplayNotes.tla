----------------------------- MODULE ReplayNotes ----------------------------
(***************************************************************************)
(* What becomes of the weekly replay's outcome: notes/emit_findings.py,    *)
(* run by .github/workflows/notes.yml after each replay and by a person    *)
(* with --acknowledge, compares replay's conclusions with a committed      *)
(* baseline and writes notes/findings.json when they differ.  Each works   *)
(* in a checkout and pushes to main.                                       *)
(*                                                                         *)
(* An outcome gives a conclusion to each job of a replay.  The reader of   *)
(* findings.json (model-drift, another repository) is known from what      *)
(* emit_findings.py says of it: a finding whose run_key it has seen is     *)
(* dropped as already reported.                                            *)
(***************************************************************************)
EXTENDS Replay

CONSTANTS
  Nothing,          \* a file that does not exist
  Acknowledgements  \* bound: times the person starts

(* An outcome: the conclusion of each job of a replay.                     *)
Outcome == UNION {[names -> {"success", "failure", "skipped"}]
                    : names \in SUBSET (Name \cup {Pending, Unnamed})}

Files == [baseline : Outcome \cup {Nothing}, findings : Outcome \cup {Nothing}]

ASSUME NotesAssumption == Nothing \notin Outcome \cup Files /\ Acknowledgements \in Nat

VARIABLES
  main,      \* on main: notes/baseline.json, and the outcome that the one
             \* finding of notes/findings.json describes
  desk,      \* the notes job's checkout and the person's
  reported   \* what the reader has passed on

notesVars == <<main, desk, reported>>
vars == <<replayVars, notesVars>>

Who == {"notes", "person"}
Idle(left) == [pc |-> "idle", base |-> Nothing, at |-> Nothing, mine |-> Nothing,
               pushes |-> 0, left |-> left]

NotesInit ==
  /\ main = [baseline |-> Nothing, findings |-> Nothing]
  /\ desk = [who \in Who |-> Idle(Acknowledgements)]
  /\ reported = {}

-----------------------------------------------------------------------------
(* Mutant: a run in progress is taken for the latest.                      *)
DoneOrNot == DOMAIN runs

Done == {r \in DOMAIN runs : Completed(runs[r])}

(* latest_outcome: of the completed runs, the one that was created last.   *)
Latest ==
  IF Done = {} THEN Nothing
  ELSE Conclusions(runs[CHOOSE r \in Done : \A s \in Done : s <= r])

(* The notes job starts every week, one at a time (its concurrency group); *)
(* a person when there is something to look at.                            *)
Checkout(who) ==
  /\ desk[who].pc = "idle"
  /\ who = "person" => desk[who].left > 0
  /\ desk' = [desk EXCEPT ![who] =
               [pc |-> "emit", base |-> main, at |-> registry, mine |-> main, pushes |-> 0,
                left |-> IF who = "person" THEN @.left - 1 ELSE @.left]]
  /\ UNCHANGED <<main, reported>>

(* Mutant: the checkout of last time is still there.                       *)
GoesHomeStale(who) == desk' = [desk EXCEPT ![who].pc = "idle"]

GoesHome(who) == desk' = [desk EXCEPT ![who] = Idle(@.left)]

(* Mutant: entries that appear or leave are no change.                     *)
MovedConclusions(was, now) ==
  \E name \in DOMAIN was \cap DOMAIN now : was[name] # now[name]

(* diff and _is_material: an entry changed, appeared or left.              *)
Moved(was, now) ==
  \/ DOMAIN was # DOMAIN now
  \/ \E name \in DOMAIN was \cap DOMAIN now : was[name] # now[name]

(* emit, on a checkout's files: a first sight is a baseline, and only an   *)
(* acknowledgement advances it.                                            *)
Emitted(files, acknowledge) ==
  IF files.baseline = Nothing THEN [files EXCEPT !.baseline = Latest]
  ELSE IF ~Moved(files.baseline, Latest) THEN files
  ELSE [baseline |-> IF acknowledge THEN Latest ELSE files.baseline, findings |-> Latest]

(* Without a completed run emit_findings.py raises; with nothing to commit *)
(* there is nothing to push.                                               *)
Emit(who) ==
  /\ desk[who].pc = "emit"
  /\ IF Done = {} THEN GoesHome(who)
     ELSE LET files == Emitted(desk[who].mine, who = "person")
          IN  IF files = desk[who].base THEN GoesHome(who)
              ELSE desk' = [desk EXCEPT ![who].mine = files, ![who].pc = "push"]
  /\ UNCHANGED <<main, reported>>

(* Whether main is still the commit that was checked out.                  *)
Unmoved(who) == main = desk[who].base /\ registry = desk[who].at

Push(who) ==
  /\ desk[who].pc = "push" /\ Unmoved(who)
  /\ main' = desk[who].mine /\ GoesHome(who)
  /\ UNCHANGED reported

(* External: git pull --rebase.  A file that both changed, and changed to  *)
(* different contents, is a conflict.                                      *)
Conflicts(base, mine, theirs) ==
  {file \in DOMAIN base : Cardinality({base[file], mine[file], theirs[file]}) = 3}

Rebased(base, mine, theirs) ==
  [file \in DOMAIN base |-> IF mine[file] = base[file] THEN theirs[file] ELSE mine[file]]

(* The push is refused because main has moved: rebase and try again, three *)
(* times in all.                                                           *)
PullRebase(who) ==
  /\ desk[who].pc = "push" /\ ~Unmoved(who)
  /\ LET d == desk[who]
     IN  IF Conflicts(d.base, d.mine, main) # {} \/ d.pushes = 2 THEN GoesHome(who)
         ELSE desk' = [desk EXCEPT ![who].base = main, ![who].at = registry,
                                   ![who].mine = Rebased(d.base, d.mine, main),
                                   ![who].pushes = @ + 1]
  /\ UNCHANGED <<main, reported>>

DeskStep(who) == Checkout(who) \/ Emit(who) \/ Push(who) \/ PullRebase(who)

(* The reader's next look at findings.json; the run_key is the outcome.    *)
Report ==
  /\ main.findings \notin {Nothing} \cup reported
  /\ reported' = reported \cup {main.findings}
  /\ UNCHANGED <<main, desk>>

NotesStep == (\E who \in Who : DeskStep(who)) \/ Report

Init ==
  /\ registry \in Registry /\ issuer \in [Name -> Issuer]
  /\ DOMAIN host = Name /\ \A name \in Name : Range(host[name]) \subseteq Blob \cup {Missing}
  /\ \E n \in 0..Runs, changes \in 0..Changes, accidents \in 0..Accidents :
        ReplayInit([registry |-> registry, host |-> host, issuer |-> issuer,
                    runs |-> n, changes |-> changes, accidents |-> accidents])
  /\ NotesInit

Next ==
  \/ (RunStep \/ WorldStep) /\ UNCHANGED notesVars
  \/ NotesStep /\ UNCHANGED replayVars

(* notes.yml runs every week, and so does its reader; replays and          *)
(* acknowledgements are not owed.                                          *)
Fairness ==
  WF_vars(DeskStep("notes") /\ UNCHANGED replayVars) /\ WF_vars(Report /\ UNCHANGED replayVars)

Spec == Init /\ [][Next]_vars /\ Fairness

-----------------------------------------------------------------------------
Outcomes == {Conclusions(runs[r]) : r \in {s \in DOMAIN runs : Completed(runs[s])}}

(* Type invariant.                                                         *)
TypeOK ==
  /\ ReplayTypeOK
  /\ \A who \in Who :
       /\ desk[who].pc \in {"idle", "emit", "push"}
       /\ desk[who].pushes \in 0..2 /\ desk[who].left \in 0..Acknowledgements
       /\ desk[who].pc = "idle" <=> desk[who].base = Nothing

(* What is reported is what a replay concluded (the docstring of           *)
(* latest_outcome: a run that has not finished has no verdict), whoever    *)
(* pushes what over whom; and so is the baseline it is compared with.      *)
ReportedWasConcluded ==
  /\ reported \subseteq Outcomes
  /\ {main.baseline, main.findings} \subseteq Outcomes \cup {Nothing}

(* An outcome that stays other than the baseline comes to be reported: the *)
(* notes job may be early, late, outrun by a person's push or stopped by a *)
(* conflict with it.                                                       *)
StandingChangeIsReported ==
  <>[](Nothing \notin {Latest, main.baseline} /\ Latest # main.baseline) => <>(Latest \in reported)
=============================================================================

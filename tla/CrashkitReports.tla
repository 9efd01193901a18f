-------------------------- MODULE CrashkitReports ---------------------------
(***************************************************************************)
(* Two profiles over one severity table: crashkit-battery-v1, one run of a *)
(* battery (_check_crashkit), and crashkit-variance-v1, a report on many   *)
(* runs (_check_crashkit_variance).                                        *)
(***************************************************************************)
EXTENDS ProfileResult, FiniteSetsExt

Weight == [none |-> 0, low |-> 1, med |-> 2, high |-> 4, critical |-> 8]

ASSUME SeverityAssumption == None \notin DOMAIN Weight

AccuracyAliases == {"faithfulness", "precision@k", "recall@k", "citation_rate"}

Share(num, den) == IF den = 0 THEN 0 ELSE Rounded(num, den, 10000)

WeightOf(rows, indices) == MapThenSumSet(LAMBDA i : Weight[rows[i].severity], indices)

Unknown(rows, indices) == \E i \in indices : Get(rows[i], "severity") \notin DOMAIN Weight

-----------------------------------------------------------------------------
(* A battery.  Truncated cases are not graded; the frozen severity table   *)
(* is required of graded cases only.                                       *)
Graded(cases) == Where(cases, "truncated", FALSE)
Passed(cases) == Where(cases, "passed", TRUE)

(* Free-text notes are not parsed: the booleans and the kind are there.    *)
Explicit(case) == /\ \A k \in {"passed", "truncated", "flagged"} : Get(case, k) \in BOOLEAN
                  /\ Get(case, "kind") \notin {None, Junk}

FlagContradictsRun(case) == case.flagged # (~ case.passed /\ ~ case.truncated)

BatteryRecount(cases) ==
  LET graded == Graded(cases)
      errors == Tally(cases, "grader", "error")
      cut    == Len(cases) - Cardinality(graded)
  IN  [accuracy            |-> Share(Cardinality(graded \cap Passed(cases)), Cardinality(graded)),
       vulnerability_score |-> Share(WeightOf(cases, graded \ Passed(cases)), WeightOf(cases, graded)),
       flagged_cases       |-> Tally(cases, "flagged", TRUE),
       n_cases             |-> Len(cases),
       truncations         |-> cut,
       reliability         |-> Share(Len(cases) - errors - cut, Len(cases)),
       cases               |-> Len(cases),
       graded              |-> Cardinality(graded),
       errors              |-> errors]

(* The accuracy of each kind of which a case was graded.                   *)
PerKind(cases) ==
  LET OfKind(kind) == Graded(cases) \cap Where(cases, "kind", kind)
  IN  [kind \in {cases[i].kind : i \in Graded(cases)} |->
         Share(Cardinality(OfKind(kind) \cap Passed(cases)), Cardinality(OfKind(kind)))]

BatteryMetrics(recount) ==
  [k \in AccuracyAliases \cup {"vulnerability_score", "flagged_cases", "n_cases",
                               "truncations", "reliability"} |->
     IF k \in AccuracyAliases THEN recount.accuracy ELSE recount[k]]

BatteryStamp(s) ==
  LET key == Get(s.check, "battery_hash_key")
  IN  IF key = None THEN {"stamp: no key"}
      ELSE IF key \notin DOMAIN s.hashes THEN {"stamp: absent"}
      ELSE NameWhen(s.hashes[key] # Get(s.artifact, "git_sha"), "stamp: differs")

CheckCrashkit(s) ==
  IF s.artifact = None \/ \E k \in {"cases", "metrics", "per_kind"} :
                            Get(s.artifact, k) \in {None, Junk}
     \/ \E i \in DOMAIN s.artifact["cases"] : ~ Explicit(s.artifact["cases"][i])
  THEN Refused("artifact: unparsable")
  ELSE
    LET cases   == s.artifact["cases"]
        flags   == NameWhen(\E i \in DOMAIN cases : FlagContradictsRun(cases[i]), "case: flag")
        recount == BatteryRecount(cases)
        kinds   == PerKind(cases)
        perKind == s.artifact["per_kind"]
    IN  IF Unknown(cases, Graded(cases)) THEN Result(flags \cup {"case: severity"}, None)
        ELSE Result(flags
                 \cup NameWhen(Differing(s.artifact["metrics"], BatteryMetrics(recount)) # {},
                               "metrics: differ")
                 \cup NameWhen(\E k \in DOMAIN perKind \cup DOMAIN kinds :
                                 Get(perKind, k) # Get(kinds, k), "per_kind: differs")
                 \cup BatteryStamp(s) \cup ExpectReasons(Get(s.check, "expect"), recount),
               PoolOf(recount))

-----------------------------------------------------------------------------
(* A variance report: tasks, each run some times and passed some.          *)
SomeFailed(row) == row.passes < row.runs
Flaky(row)      == SomeFailed(row) /\ row.passes > 0

TaskRecount(row) == [pass_rate   |-> Rounded(row.passes, row.runs, 10000),
                     flaky       |-> Flaky(row),
                     ever_failed |-> SomeFailed(row)]

(* The mean over runs, weighed: exact up to the last division.             *)
MeanFailed(rows) ==
  MapThenSumSet(LAMBDA i : Exactly(Weight[rows[i].severity] * (rows[i].runs - rows[i].passes),
                                   rows[i].runs), DOMAIN rows)

VarianceRecount(rows) ==
  LET flaky  == {i \in DOMAIN rows : Flaky(rows[i])}
      failed == {i \in DOMAIN rows : SomeFailed(rows[i])}
      total  == WeightOf(rows, DOMAIN rows)
  IN  [n_tasks                  |-> Len(rows),
       flaky_cases              |-> Cardinality(flaky),
       stability                |-> Share(Len(rows) - Cardinality(flaky), Len(rows)),
       mean_vulnerability       |-> Share(MeanFailed(rows), total * Unit),
       worst_case_vulnerability |-> Share(WeightOf(rows, failed), total)]

Counted(row) == /\ Get(row, "runs") \in Nat /\ Get(row, "passes") \in Nat
                /\ row.runs > 0 /\ row.passes <= row.runs

CheckVariance(s) ==
  LET rows    == s.artifact["per_task"]
      metrics == Get(s.artifact, "metrics")
      flags   == NameWhen(\E i \in DOMAIN rows : Differing(rows[i], TaskRecount(rows[i])) # {},
                          "row: differs")
      recount == VarianceRecount(rows)
  IN  CASE s.artifact = None -> Refused("artifact: unparsable")
        [] s.artifact # None /\ Get(s.artifact, "per_task") \in {None, Junk, <<>>} ->
             Refused("artifact: unparsable")
        [] OTHER ->
             IF \E i \in DOMAIN rows : ~ Counted(rows[i]) THEN Refused("row: counts")
             ELSE IF Where(rows, "severity", Junk) # {} THEN Result({}, Raised)
             ELSE IF Unknown(rows, DOMAIN rows) THEN Refused("row: severity")
             ELSE IF metrics \in {None, Junk} THEN Result(flags \cup {"artifact: unparsable"}, None)
             ELSE Result(flags
                           \cup NameWhen(Differing(metrics, recount) # {}, "metrics: differ")
                           \cup NameWhen(\E i \in DOMAIN rows : rows[i].runs # Get(s.artifact, "n"),
                                         "n: differs"),
                         PoolOf(recount))
=============================================================================

----------------------------- MODULE MCProfiles -----------------------------
(* Small measurements for every profile, and what the issuing tools write  *)
(* from them.  Each family has the corners of its profile: no rows, one    *)
(* row, equal rows, everything failed, a division that does not come out.  *)
EXTENDS Profiles

MCProvider == [alpha |-> "A", beta |-> "B", gamma |-> "C", gamma2 |-> "C", mock |-> "mock"]

-----------------------------------------------------------------------------
Verdict4(fixed, tests, mode) ==
  [fixed |-> fixed, policy_ok |-> TRUE, tests_ok |-> tests, failure_mode |-> mode]

MCVerdicts == {Verdict4(TRUE, TRUE, None), Verdict4(FALSE, TRUE, "timeout"),
               Verdict4(FALSE, FALSE, "fixed"), Verdict4(TRUE, FALSE, "timeout")}

CertlabSubmission(verdicts, hashes, commit, headline) ==
  [profile |-> "certlab", version |-> "0.2", hashes |-> hashes, commit |-> commit,
   check |-> [expect |-> CertlabNumbers(verdicts),
              render |-> IF headline THEN [k \in {"fixed", "verdicts"} |-> CertlabNumbers(verdicts)[k]]
                         ELSE None],
   artifact |-> [verdicts |-> verdicts, taskset_hash |-> "t", prompt_hash |-> "p",
                 harness_commit |-> "c"]]

MCCertlab == {CertlabSubmission(v, h, c, r) :
                v \in SeqOf(MCVerdicts, 2), c \in {None, "c"}, r \in BOOLEAN,
                h \in {<<>>, [taskset_hash |-> "t"], [taskset_hash |-> "t", prompt_hash |-> "p"]}}

-----------------------------------------------------------------------------
Line(key, failed, passed) ==
  [suite |-> key[1], member |-> key[2], detected |-> failed /\ passed,
   defective_failed |-> failed, clean_passed |-> passed]

MCLines == {Line(<<"s1", "a">>, TRUE, TRUE), Line(<<"s1", "b">>, TRUE, FALSE),
            Line(<<"s1", "a">>, FALSE, TRUE), Line(<<"s2", "a">>, TRUE, TRUE)}

FleetSubmission(raw, version, stamped) ==
  [profile |-> "fleet", version |-> version, raw |-> raw,
   hashes |-> IF stamped THEN [fleet_commit |-> "c"] ELSE <<>>,
   commit |-> IF stamped THEN "c" ELSE None,
   check |-> [expect |-> IF stamped THEN [rows |-> Cardinality(FleetWritten(raw))] ELSE None],
   artifact |-> [rows |-> SetToSeq(FleetWritten(raw)), fleet_commit |-> "c"]]

MCFleet == {FleetSubmission(raw, v, TRUE) :
              raw \in SeqOf(MCLines, 3), v \in {"0.1", "0.2"}}
             \cup {FleetSubmission(raw, "0.2", FALSE) : raw \in SeqOf(MCLines, 2)}

-----------------------------------------------------------------------------
Row(op, outcome, case) ==
  [operator_id |-> op, outcome |-> outcome, case_name |-> case, family |-> "f",
   polarity |-> IF outcome = "flagged" THEN "equivalent" ELSE "defect",
   op_type  |-> IF op = "o1" THEN "kill" ELSE "sanity"]

MCRows == {Row("o1", "caught", "c1"), Row("o1", "missed", "c1"), Row("o2", "missed", None),
           Row("o2", "flagged", "c2"), Row("o1", "error", "c1")}

Entry(op, polarity) ==
  [id |-> op, real_origin |-> "r", family |-> "f", polarity |-> polarity,
   op_type |-> IF op = "o1" THEN "kill" ELSE "sanity"]

(* o2 is mutated with both polarities only by rows of one of them.         *)
EvalmutSubmission(rows, extras) ==
  LET tally   == EvalmutTally(rows)
      applied == EvalmutApplied(rows)
      flagged == tally["flagged"] > 0
      base    == [expect |-> [applied |-> applied, results |-> Len(rows)]]
  IN  [profile |-> "evalmut", version |-> "0.2", hashes |-> <<>>, commit |-> None,
       check |-> IF ~ extras THEN base
                 ELSE Join(base,
                      [render   |-> [caught |-> tally["caught"], applied |-> applied, na |-> 0,
                                     score_3 |-> Rounded(tally["caught"], applied, 1000)],
                       catalog  |-> SetToSeq({Entry(rows[i]["operator_id"], rows[i]["polarity"]) :
                                                i \in DOMAIN rows}),
                       fixtures |-> [manifest_version |-> 1, case_count |-> 2,
                                     cases |-> <<"c1", "c2">>]]),
       artifact |-> [results |-> rows, tally |-> tally, holes |-> EvalmutHoles(rows),
                     score |-> Exactly(tally["caught"], applied)]]

(* One polarity for each operator; something was applied.                  *)
OnePolarity(rows) == \A i, j \in DOMAIN rows :
  rows[i]["operator_id"] = rows[j]["operator_id"] => rows[i]["polarity"] = rows[j]["polarity"]

MCEvalmut == {EvalmutSubmission(rows, x) : x \in BOOLEAN,
                rows \in {rows \in SeqOf(MCRows, 3) : EvalmutApplied(rows) > 0 /\ OnePolarity(rows)}}

-----------------------------------------------------------------------------
Case(passed, truncated, kind, severity, grader) ==
  [passed |-> passed, truncated |-> truncated, flagged |-> ~ passed /\ ~ truncated,
   kind |-> kind, severity |-> severity, grader |-> grader]

(* A truncated case may carry any label.                                   *)
MCCases == {Case(TRUE, FALSE, "k1", "critical", "ok"), Case(FALSE, FALSE, "k1", "med", "ok"),
            Case(FALSE, TRUE, "k2", "unlisted", "ok"), Case(FALSE, FALSE, "k2", "none", "error")}

CrashkitSubmission(cases) ==
  [profile |-> "crashkit", version |-> "0.2", hashes |-> [battery |-> "g"], commit |-> None,
   check |-> [expect |-> [n_cases |-> Len(cases)], battery_hash_key |-> "battery"],
   artifact |-> Join(BatteryWritten(cases), [cases |-> cases, git_sha |-> "g"])]

MCCrashkit == {CrashkitSubmission(cases) : cases \in SeqOf(MCCases, 3)}

Task(runs, passes, severity) == VarianceRow([runs |-> runs, passes |-> passes, severity |-> severity])

VarianceSubmission(rows) ==
  [profile |-> "variance", version |-> "0.2", hashes |-> <<>>, commit |-> None, check |-> <<>>,
   artifact |-> [per_task |-> rows, metrics |-> VarianceNumbers(rows), n |-> rows[1]["runs"]]]

MCVariance ==
  {VarianceSubmission(rows) : rows \in
     UNION {[1..n -> {Task(runs, p, w) : p \in 0..runs, w \in {"none", "low", "high"}}] :
              n \in 1..2, runs \in {1, 3}}}

-----------------------------------------------------------------------------
Cell(n, b) == [x |-> [type |-> "number", value |-> n],
               ok |-> [type |-> "bool", value |-> IF b THEN 1 ELSE 0]]

MCRecipe == [cases |-> [op |-> "count"], total |-> [op |-> "sum", field |-> "x"],
             mean  |-> [op |-> "mean", field |-> "x", round |-> 0],
             fine  |-> [op |-> "mean", field |-> "x"],
             low   |-> [op |-> "min", field |-> "x"], high |-> [op |-> "max", field |-> "x", round |-> 0],
             rate  |-> [op |-> "rate_true", field |-> "ok"]]

RowsSubmission(rows, bare) ==
  [profile |-> "rows", version |-> "0.2", hashes |-> <<>>, commit |-> None, bare |-> bare,
   check |-> [rows_key |-> "data", recompute |-> MCRecipe,
              expect |-> [k \in DOMAIN MCRecipe |-> Recomputed(rows, MCRecipe[k])]],
   artifact |-> [k \in {IF bare THEN "document" ELSE "data"} |-> rows]]

MCRowsAggregate == {RowsSubmission(rows, b) : b \in BOOLEAN,
                      rows \in SeqOf({Cell(0, TRUE), Cell(1, FALSE), Cell(-2, TRUE), Cell(3, TRUE)}, 3) \ {<<>>}}

-----------------------------------------------------------------------------
MCSuite == [suite_version |-> "v", suite_hash |-> "h", task_ids |-> <<"t1", "t2", "t3">>, tasks |-> 3]

(* A probe grades the calls it got an answer to; the floor is 5 tenths.    *)
Point(day, acc, reliability, fails) ==
  [t |-> day, acc |-> acc, reliability |-> reliability, graded |-> 3, out |-> {}, fails |-> fails,
   fails_runs |-> {fails}]

Good(day)    == Point(day, 10000, 10, {})
Worse(day)   == Point(day, 6667, 5, {"t1"})
Outage(day)  == Point(day, 0, 4, {"t1", "t2"})
Bare(day)    == [t |-> day, acc |-> 10000, reliability |-> 9, out |-> {}]

MCHistories == {<<>>, <<Good(1)>>, <<Outage(1)>>, <<Good(1), Worse(2)>>, <<Worse(1), Outage(2)>>,
                <<Good(1), Outage(2), Good(3)>>, <<Worse(1), Good(2), Worse(3)>>,
                <<Bare(1), Worse(2)>>, <<Good(1), Bare(2), Worse(3), Outage(4)>>}

Control == <<Point(1, 10000, 10, {}), Point(2, 10000, 10, {})>>

DriftSubmission(a, b, version, html) ==
  LET series   == [alpha |-> a, beta |-> b, gamma |-> a, gamma2 |-> b, mock |-> Control]
      floor    == IF version = "0.2" THEN 5 ELSE None
      registry == <<[id |-> "beta", label |-> None], [id |-> "alpha", label |-> "L"],
                    [id |-> "absent", label |-> None]>>
      metrics  == [series |-> series, rel_floor |-> floor]
  IN  [profile |-> "modeldrift", version |-> version, commit |-> None,
       check |-> [expect |-> [claims_fired |-> 1], rel_floor |-> floor],
       hashes |-> [suite_hash |-> "h", metrics_sha256 |-> metrics, registry_sha256 |-> registry],
       files |-> Join([metrics |-> metrics, registry |-> registry, fingerprint |-> MCSuite,
                       narrative |-> [sentences |-> 1, claims_fired |-> 1, html |-> html,
                                      text |-> TextOf(html)]],
                      DriftBoard(series, registry, MCSuite, floor))]

MCHtml == [1..5 -> {"<", ">", "x", " "}]

MCDrift == {DriftSubmission(a, b, v, <<"<", "x", ">", "x">>) :
              a \in MCHistories, b \in MCHistories, v \in {"0.1", "0.2"}}
             \cup {DriftSubmission(<<>>, <<>>, "0.1", html) : html \in MCHtml}

-----------------------------------------------------------------------------
(* Small submissions are edited twice.                                     *)
MCMaxEdits(s) ==
  CASE s.profile = "certlab"  -> IF Len(s.artifact["verdicts"]) < 3 THEN 2 ELSE 1
    [] s.profile = "fleet"    -> IF Len(s.raw) < 3 THEN 2 ELSE 1
    [] s.profile = "evalmut"  -> IF Len(s.artifact["results"]) < 3 THEN 2 ELSE 1
    [] s.profile = "crashkit" -> IF Len(s.artifact["cases"]) < 3 THEN 2 ELSE 1
    [] s.profile = "variance" -> IF Len(s.artifact["per_task"]) < 3 THEN 2 ELSE 1
    [] s.profile = "rows"     -> IF Len(s.artifact[RowsAt(s)]) < 3 THEN 2 ELSE 1
    [] OTHER                  -> 1

MCSubmissions == MCCertlab \cup MCFleet \cup MCEvalmut \cup MCCrashkit \cup MCVariance
                   \cup MCRowsAggregate \cup MCDrift

(* What the theorems ask of submissions.                                   *)
ASSUME AllAsMeasured == \A s \in MCSubmissions : AsMeasured(s)
=============================================================================

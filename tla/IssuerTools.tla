---------------------------- MODULE IssuerTools -----------------------------
(***************************************************************************)
(* The issuing side, outside this repository: what the tools of an issuer  *)
(* write from what they measured, known here from SPEC section 3 and from  *)
(* the artifacts the tests and bundles carry.  Each number is counted in   *)
(* one pass over the measurements, the way a tool that prints as it goes   *)
(* counts, and not the way the verifier does.                              *)
(*                                                                         *)
(* What is only arithmetic or layout (Rounded, Share, Standing, ResultsMd, *)
(* Normalized) and the definition of a provider's alarm are shared with    *)
(* the verifier: about those the two cannot disagree here.                 *)
(***************************************************************************)
EXTENDS Certlab, FleetBoard, EvalmutRun, CrashkitReports, RowsAggregate, ModelDrift,
        SequencesExt

(* One pass over flags, and over numbers, from the first to the last: how  *)
(* many are set, what they add up to, and the least (sign 1) or the        *)
(* greatest (sign -1) of them.                                             *)
Trues(flags)   == FoldLeft(LAMBDA n, flag : IF flag THEN n + 1 ELSE n, 0, flags)
Added(numbers) == FoldLeft(LAMBDA n, number : n + number, 0, numbers)
Best(sign, numbers) ==
  FoldLeft(LAMBDA best, n : IF sign * n < sign * best THEN n ELSE best, numbers[1], numbers)

CountIf(rows, P(_)) == Trues([i \in DOMAIN rows |-> P(rows[i])])
SumOver(rows, F(_)) == Added([i \in DOMAIN rows |-> F(rows[i])])

Without(obj, key)    == [k \in DOMAIN obj \ {key} |-> obj[k]]
With(obj, key, value) == Join([k \in {key} |-> value], obj)

-----------------------------------------------------------------------------
(* certlab: the counts, and one for each failure mode that is not a count. *)
CertlabNumbers(verdicts) ==
  [verdicts  |-> Len(verdicts),
   fixed     |-> CountIf(verdicts, LAMBDA v : v["fixed"]),
   policy_ok |-> CountIf(verdicts, LAMBDA v : v["policy_ok"]),
   tests_ok  |-> CountIf(verdicts, LAMBDA v : v["tests_ok"])]

CertlabCitable(s) ==
  LET verdicts == s.artifact["verdicts"]
      modes    == ToSet([i \in DOMAIN verdicts |-> Get(verdicts[i], "failure_mode")])
  IN  PoolOf(CertlabNumbers(verdicts))
        \cup {<<m, CountIf(verdicts, LAMBDA v : Get(v, "failure_mode") = m)>>
                : m \in modes \ {None, "verdicts", "fixed", "policy_ok", "tests_ok"}}

-----------------------------------------------------------------------------
(* fleet: one line after the other is added to its pair's entry; suites    *)
(* and the board are sums of entries.                                      *)
NoEntry == [n |-> 0, detected |-> 0, false_alarms |-> 0]

Together(a, b) == [k \in DOMAIN a |-> a[k] + b[k]]

EntryOf(line) == [n |-> 1, detected |-> IF line["detected"] THEN 1 ELSE 0,
                  false_alarms |-> IF line["clean_passed"] THEN 0 ELSE 1]

FleetEntries(raw) ==
  FoldLeft(LAMBDA entries, line :
             With(entries, KeyOf(line),
                  Together(EntryOf(line), IF KeyOf(line) \in DOMAIN entries
                                          THEN entries[KeyOf(line)] ELSE NoEntry)),
           <<>>, raw)

Summed(entries, keys) == FoldFunctionOnSet(Together, NoEntry, entries, keys)

WithRates(entry) ==
  Join(entry, [detection_rate   |-> Rounded(entry.detected, entry.n, 1000),
               false_alarm_rate |-> Rounded(entry.false_alarms, entry.n, 1000)])

FleetWritten(raw) ==
  LET entries == FleetEntries(raw)
  IN  {Join([suite |-> key[1], member |-> key[2]], WithRates(entries[key])) : key \in DOMAIN entries}

FleetCitable(s) ==
  LET entries  == FleetEntries(s.raw)
      keys     == DOMAIN entries
      suites   == {key[1] : key \in keys}
      In(suite) == {key \in keys : key[1] = suite}
      Cited(level, numbers) ==
        {<<IF s.version = "0.2" THEN level \o "_" \o k ELSE k, numbers[k]>> : k \in DOMAIN numbers}
  IN  Cited("board", [rows |-> Cardinality(keys), suites |-> Cardinality(suites)])
        \cup (IF keys = {} THEN {} ELSE Cited("board", WithRates(Summed(entries, keys))))
        \cup (UNION {Cited("member", WithRates(entries[key])) : key \in keys})
        \cup (UNION {Cited("suite", Join([members |-> Cardinality(In(suite))],
                                        WithRates(Summed(entries, In(suite))))) : suite \in suites})

-----------------------------------------------------------------------------
(* evalmut: rows in one pass; a hole is a mutation that was not caught.    *)
EvalmutTally(rows) == [o \in {"caught", "missed", "flagged", "error", "na"} |->
                         CountIf(rows, LAMBDA r : r["outcome"] = o)]

EvalmutApplied(rows) == CountIf(rows, LAMBDA r : r["outcome"] \in {"caught", "missed", "flagged"})

EvalmutHoles(rows) ==
  LET Ended(outcome)   == {i \in DOMAIN rows : rows[i]["outcome"] = outcome}
      Missed(op_type) == Kept(rows, {i \in Ended("missed") : rows[i]["op_type"] = op_type})
  IN  [vacuous |-> Missed("sanity"), blind |-> Missed("kill"), coverage_gap |-> Missed("diagnostic"),
       error   |-> Kept(rows, Ended("error")), brittle |-> Kept(rows, Ended("flagged"))]

EvalmutCitable(s) ==
  LET rows  == s.artifact["results"]
      tally == EvalmutTally(rows)
      Missed(op_type) == CountIf(rows, LAMBDA r : r["outcome"] = "missed" /\ r["op_type"] = op_type)
  IN  PoolOf(tally) \cup
      PoolOf([applied |-> EvalmutApplied(rows), results |-> Len(rows),
              score   |-> Exactly(tally["caught"], EvalmutApplied(rows)),
              score_3 |-> Rounded(tally["caught"], EvalmutApplied(rows), 1000),
              vacuous |-> Missed("sanity"), blind |-> Missed("kill"),
              brittle |-> tally["flagged"], coverage_gap |-> Missed("diagnostic"),
              operators_exercised |-> Cardinality({rows[i]["operator_id"] : i \in DOMAIN rows})])
      \cup (IF Get(s.check, "catalog") \in {None, Junk} THEN {}
            ELSE IF Mined(s.check["catalog"]) THEN {<<"operators", Len(s.check["catalog"])>>} ELSE {})

-----------------------------------------------------------------------------
(* crashkit: a case adds its weight to what was at stake, and to what was  *)
(* lost when it failed.                                                    *)
Stake(case) == IF case["truncated"] THEN 0 ELSE Weight[case["severity"]]
Lost(case)  == IF case["passed"] THEN 0 ELSE Stake(case)

AccuracyOver(cases, P(_)) ==
  Share(CountIf(cases, LAMBDA c : P(c) /\ ~ c["truncated"] /\ c["passed"]),
        CountIf(cases, LAMBDA c : P(c) /\ ~ c["truncated"]))

BatteryNumbers(cases) ==
  LET cut == CountIf(cases, LAMBDA c : c["truncated"])
      bad == CountIf(cases, LAMBDA c : Get(c, "grader") = "error")
  IN  [accuracy |-> AccuracyOver(cases, LAMBDA c : TRUE),
       vulnerability_score |-> Share(SumOver(cases, Lost), SumOver(cases, Stake)),
       flagged_cases |-> CountIf(cases, LAMBDA c : c["flagged"]), n_cases |-> Len(cases),
       truncations |-> cut, reliability |-> Share(Len(cases) - bad - cut, Len(cases)),
       cases |-> Len(cases), graded |-> Len(cases) - cut, errors |-> bad]

BatteryWritten(cases) ==
  LET numbers == BatteryNumbers(cases)
  IN  [metrics  |-> Join([k \in AccuracyAliases |-> numbers.accuracy],
                         [k \in {"vulnerability_score", "flagged_cases", "n_cases",
                                 "truncations", "reliability"} |-> numbers[k]]),
       per_kind |-> [kind \in {cases[i]["kind"] : i \in {i \in DOMAIN cases : ~ cases[i]["truncated"]}} |->
                       AccuracyOver(cases, LAMBDA c : c["kind"] = kind)]]

(* The variance report: tasks fail always, sometimes or never.             *)
VarianceNumbers(rows) ==
  LET W(r)      == Weight[r["severity"]]
      total     == SumOver(rows, W)
      steady    == CountIf(rows, LAMBDA r : r["passes"] \in {0, r["runs"]})
  IN  [n_tasks |-> Len(rows), flaky_cases |-> Len(rows) - steady,
       stability |-> Share(steady, Len(rows)),
       mean_vulnerability |->
         Share(SumOver(rows, LAMBDA r : Exactly(W(r) * (r["runs"] - r["passes"]), r["runs"])),
               total * Unit),
       worst_case_vulnerability |->
         Share(total - SumOver(rows, LAMBDA r : IF r["passes"] = r["runs"] THEN W(r) ELSE 0), total)]

VarianceRow(row) ==
  Join([pass_rate   |-> Rounded(row["passes"], row["runs"], 10000),
        ever_failed |-> row["passes"] # row["runs"],
        flaky       |-> row["passes"] \notin {0, row["runs"]}], row)

-----------------------------------------------------------------------------
(* rows-aggregate: the issuer's own recipe over the issuer's own rows.     *)
Recomputed(rows, spec) ==
  LET numbers == [i \in DOMAIN rows |-> Get(rows[i], Get(spec, "field")).value]
      half    == Get(spec, "round")
  IN  CASE spec.op = "count" -> Len(rows) * Unit
        [] spec.op = "sum"   -> Added(numbers) * Unit
        [] spec.op \in {"mean", "rate_true"} ->
             IF half = None THEN Exactly(Added(numbers), Len(rows))
             ELSE Rounded(Added(numbers), Len(rows), 1) * Unit
        [] spec.op = "min"   -> Best(1, numbers) * Unit
        [] spec.op = "max"   -> Best(-1, numbers) * Unit

RowsCitable(s) ==
  LET rows == s.artifact[RowsAt(s)]
  IN  {<<k, Recomputed(rows, s.check["recompute"][k])>> : k \in DOMAIN s.check["recompute"]}

-----------------------------------------------------------------------------
(* model-drift: outages are set aside first; then the board is written as  *)
(* if they had never been, but for the column that shows the last probe.   *)
Measured(series, relFloor) ==
  IF relFloor = None THEN series
  ELSE [m \in DOMAIN series |->
          Kept(series[m], {i \in DOMAIN series[m] : series[m][i]["reliability"] >= relFloor})]

(* Flips, noted from point to point as the series is read.                 *)
FlipsNoted(model, points) ==
  LET seen == Kept(points, {i \in DOMAIN points : "fails" \in DOMAIN points[i]})
      Note(log, i) ==
        LET before == FailsOf(seen[i - 1])
            now    == FailsOf(seen[i])
            turned == {task \in before \cup now : (task \in before) # (task \in now)}
        IN  [task \in DOMAIN log \cup turned |->
               IF task \notin turned THEN log[task]
               ELSE [flips |-> 1 + (IF task \in DOMAIN log THEN log[task].flips ELSE 0),
                     broke |-> task \in now, day |-> seen[i]["t"]]]
      log == FoldLeft(Note, <<>>, [n \in 1..Len(seen) - 1 |-> n + 1])
  IN  {Join([model |-> model, task |-> task], log[task]) : task \in DOMAIN log}

FlipsWritten(series) ==
  LET rows == UNION {FlipsNoted(m, series[m]) : m \in {m \in DOMAIN series : ~ Mock(m)}}
  IN  [repeat_offenders |-> {row \in rows : row.flips >= 2},
       one_offs         |-> {row \in rows : row.flips < 2},
       probe_alarms     |-> ProbeAlarms(series),
       models_with_enough_history |->
         Cardinality({m \in DOMAIN series : CountIf(series[m], LAMBDA p : "fails" \in DOMAIN p) > 1})]

DriftBoard(series, registry, suite, relFloor) ==
  LET plain == StandingsRows(Measured(series, relFloor), registry, None)
      Seen(i) == SeriesOf(series, registry[i].id)
      rows  == [i \in DOMAIN registry |->
                  IF relFloor = None THEN plain[i]
                  ELSE With(plain[i], "latest_observed",
                            IF Seen(i) = <<>> THEN None
                            ELSE LET p == Last(Seen(i))
                                 IN  [when |-> p["t"], acc |-> p["acc"], reliability |-> p["reliability"],
                                      qualified |-> p["reliability"] >= relFloor])]
  IN  [standings  |-> [suite_version |-> suite.suite_version, suite_hash |-> suite.suite_hash,
                       min_detectable_pts_full_grade |-> Rounded(100, suite.tasks, 1000),
                       rows |-> rows],
       results_md |-> ResultsMd(rows, suite.suite_version, relFloor),
       flips      |-> FlipsWritten(Measured(series, relFloor))]

(* The text of the narrative: what no tag <...> of one character or more   *)
(* covers.                                                                 *)
TextOf(html) ==
  LET tags == {ij \in (DOMAIN html) \X (DOMAIN html) :
                 /\ ij[2] > ij[1] + 1 /\ html[ij[1]] = "<" /\ html[ij[2]] = ">"
                 /\ \A k \in ij[1] + 1..ij[2] - 1 : html[k] # ">"}
      left == {k \in DOMAIN html : ~ \E ij \in tags : k \in ij[1]..ij[2]}
  IN  Normalized(Kept(html, left))

(* What the board may be cited for, from the board it publishes.           *)
DriftCitable(s) ==
  LET relFloor == IF s.version = "0.2" THEN s.check["rel_floor"] ELSE None
      suite    == s.files.fingerprint
      series   == s.files.metrics["series"]
      board    == DriftBoard(series, s.files.registry, suite, relFloor)
      Standings(v) == CountIf(board.standings.rows, LAMBDA row : row["verdict"] = v)
  IN  PoolOf([rows |-> Len(s.files.registry), regressed |-> Standings("regressed"),
              improved |-> Standings("improved"), unchanged |-> Standings("unchanged"),
              baseline |-> Standings("baseline"), no_data |-> Standings("no-data"),
              series |-> Cardinality(DOMAIN series),
              points |-> FoldFunction(LAMBDA pts, n : Len(pts) + n, 0, series), tasks |-> suite.tasks,
              min_detectable_pts_full_grade |-> Rounded(100, suite.tasks, 1000),
              probe_alarms |-> Cardinality(board.flips.probe_alarms),
              repeat_offenders |-> Cardinality(board.flips.repeat_offenders),
              one_offs |-> Cardinality(board.flips.one_offs),
              models_with_enough_history |-> board.flips.models_with_enough_history,
              claims_fired |-> s.files.narrative.sentences])
=============================================================================

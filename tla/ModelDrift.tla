----------------------------- MODULE ModelDrift -----------------------------
(***************************************************************************)
(* The profile modeldrift-board-v1: _check_modeldrift and what it          *)
(* recomputes: standings, the published table, flips and probe alarms, the *)
(* narrative's text.  s.files holds the seven files; a digest is the       *)
(* content it is the digest of.                                            *)
(*                                                                         *)
(* Accuracy is in ten-thousandths, reliability in tenths, a day stands for *)
(* a timestamp.  Of a point, fails is a set of tasks; out names those of   *)
(* its other numbers (latency, runs, spread, refusals) out of their range. *)
(***************************************************************************)
EXTENDS ProfileResult, FiniteSetsExt

CONSTANTS
  ProviderOf,   \* model -> what its id has before the colon
  MockProvider  \* the provider of the deterministic control

Whole == 10000   \* an accuracy of one

Mock(model) == ProviderOf[model] = MockProvider

Series(s) == s.files.metrics["series"]
Suite(s)  == s.files.fingerprint
Tasks(s)  == {Suite(s).task_ids[i] : i \in DOMAIN Suite(s).task_ids}
TaskCount(s) == Len(Suite(s).task_ids)   \* an id that is listed twice counts twice

SeriesOf(series, model) == IF model \in DOMAIN series THEN series[model] ELSE <<>>
FailsOf(point) == IF Get(point, "fails") = None THEN {} ELSE point["fails"]

-----------------------------------------------------------------------------
(* Per-point coherence: from rows that break it nothing is derived.        *)
PointIncoherent(s, model, i) ==
  LET p    == Series(s)[model][i]
      runs == Get(p, "fails_runs")
  IN  \/ p["t"] = Junk
      \/ i > 1 /\ Series(s)[model][i - 1]["t"] # Junk /\ p["t"] < Series(s)[model][i - 1]["t"]
      \/ Get(p, "acc") \notin 0..Whole \/ Get(p, "reliability") \notin 0..10
      \/ p["out"] # {}
      \/ Get(p, "fails") = Junk \/ ~ FailsOf(p) \subseteq Tasks(s)
      \/ Get(p, "graded") # None /\ p["graded"] \notin 1..TaskCount(s)
      \/ Get(p, "suite") \notin {None, Suite(s).suite_version}
      \/ Get(p, "suite_hash") \notin {None, Suite(s).suite_hash}
      \/ runs # None /\ (\/ runs = Junk
                         \/ \E sample \in runs : ~ sample \subseteq Tasks(s)
                         \/ FailsOf(p) \notin runs)
      \/ Mock(model) /\ (p["acc"] # Whole \/ FailsOf(p) # {})

Coherent(s) == \A model \in DOMAIN Series(s) : \A i \in DOMAIN Series(s)[model] :
                 ~ PointIncoherent(s, model, i)

-----------------------------------------------------------------------------
(* The points accuracy is scored from; every point when there is no floor. *)
Qualifies(point, relFloor) == \/ relFloor = None
                              \/ Get(point, "reliability") = None
                              \/ point["reliability"] >= relFloor

(* Mutant: an outage counts like any other point.                          *)
QualifyingAll(points, relFloor) == points

Qualifying(points, relFloor) == Kept(points, {i \in DOMAIN points : Qualifies(points[i], relFloor)})

Verdict(points, delta) == CASE points = <<>>     -> "no-data"
                            [] Len(points) = 1   -> "baseline"
                            [] OTHER -> CASE delta < 0 -> "regressed"
                                          [] delta > 0 -> "improved"
                                          [] OTHER     -> "unchanged"

(* A movement is below the floor when it is smaller than one graded call.  *)
BelowFloor(delta, graded) ==
  IF delta = None \/ graded = None THEN FALSE
  ELSE LET size == IF delta < 0 THEN -delta ELSE delta
       IN  size > 0 /\ size * graded < Whole

(* What the last point of all shows, whether it counts or not.             *)
LatestObserved(points, relFloor) ==
  LET p == points[Len(points)]
  IN  IF points = <<>> THEN None
      ELSE [when |-> p["t"], acc |-> Get(p, "acc"), reliability |-> Get(p, "reliability"),
            qualified |-> Qualifies(p, relFloor)]

(* One row of the standings, from the last two qualifying points.          *)
Standing(entry, raw, relFloor) ==
  LET points == Qualifying(raw, relFloor)
      n      == Len(points)
      delta  == IF n < 2 THEN None ELSE points[n]["acc"] - points[n - 1]["acc"]
      graded == IF n = 0 THEN None ELSE Get(points[n], "graded")
  IN  Join([id |-> entry.id, label |-> IF entry.label = None THEN entry.id ELSE entry.label,
            when |-> IF n = 0 THEN None ELSE points[n]["t"],
            acc |-> IF n = 0 THEN None ELSE points[n]["acc"],
            delta |-> delta, verdict |-> Verdict(points, delta), graded |-> graded,
            min_detectable_pts |-> IF graded = None THEN None ELSE Rounded(100, graded, 1000),
            below_floor |-> BelowFloor(delta, graded)],
           IF relFloor = None THEN <<>>
           ELSE [latest_observed |-> LatestObserved(raw, relFloor)])

StandingsRows(series, registry, relFloor) ==
  [i \in DOMAIN registry |-> Standing(registry[i], SeriesOf(series, registry[i].id), relFloor)]

(* The published table: what each line shows, to one decimal of a point.   *)
ResultsMd(rows, suiteVersion, relFloor) ==
  [suite |-> suiteVersion, floor |-> relFloor,
   lines |-> [i \in DOMAIN rows |->
     IF rows[i]["acc"] = None THEN <<rows[i]["label"]>>
     ELSE <<rows[i]["label"], Rounded(rows[i]["acc"], Whole, 1000),
            IF rows[i]["delta"] = None THEN None ELSE Rounded(rows[i]["delta"], Whole, 1000),
            IF rows[i]["graded"] = None THEN None ELSE Rounded(100, rows[i]["graded"], 10),
            rows[i]["below_floor"], rows[i]["verdict"]>>]]

-----------------------------------------------------------------------------
(* Flips: between consecutive points that record their fails.  Lists of    *)
(* rows are compared without their order.                                  *)
Recorded(points) == Kept(points, {i \in DOMAIN points : "fails" \in DOMAIN points[i]})

Flipped(points, i) == (FailsOf(points[i]) \ FailsOf(points[i + 1]))
                        \cup (FailsOf(points[i + 1]) \ FailsOf(points[i]))

FlipsOf(model, raw) ==
  LET points   == Recorded(raw)
      turns    == 1..Len(points) - 1
      At(task) == {i \in turns : task \in Flipped(points, i)}
      Last(task) == CHOOSE i \in At(task) : \A j \in At(task) : j <= i
  IN  {[model |-> model, task |-> task, flips |-> Cardinality(At(task)),
        broke |-> task \in FailsOf(points[Last(task) + 1]),
        day   |-> points[Last(task) + 1]["t"]]
        : task \in UNION {Flipped(points, i) : i \in turns}}

(* Models from different labs do not fail one task on one day in unison.   *)
ProbeAlarms(series) ==
  LET models == {m \in DOMAIN series : ~ Mock(m)}
      days   == UNION {{series[m][i]["t"] : i \in DOMAIN series[m]} : m \in models}
      tasks  == UNION {UNION {FailsOf(series[m][i]) : i \in DOMAIN series[m]} : m \in models}
      Providers(day, task) ==
        {ProviderOf[m] : m \in {m \in models : \E i \in DOMAIN series[m] :
                                  series[m][i]["t"] = day /\ task \in FailsOf(series[m][i])}}
  IN  {[day |-> x[1], task |-> x[2], providers |-> Providers(x[1], x[2])]
        : x \in {x \in days \X tasks : Cardinality(Providers(x[1], x[2])) >= 3}}

Flips(series) ==
  LET all == UNION {FlipsOf(m, series[m]) : m \in {m \in DOMAIN series : ~ Mock(m)}}
  IN  [repeat_offenders |-> {row \in all : row.flips > 1},
       one_offs         |-> {row \in all : row.flips = 1},
       probe_alarms     |-> ProbeAlarms(series),
       models_with_enough_history |->
         Cardinality({m \in DOMAIN series : Len(Recorded(series[m])) >= 2})]

(* Mutant: flips are taken over every point, as the code once did.         *)
FlipSeriesRaw(series, relFloor) == series

FlipSeries(series, relFloor) == [m \in DOMAIN series |-> Qualifying(series[m], relFloor)]

-----------------------------------------------------------------------------
(* _strip_tags, over the characters that matter: from i on.                *)
StripFrom(html) ==
  LET Next(c, from) == LET at == {k \in from..Len(html) : html[k] = c}
                       IN  IF at = {} THEN 0 ELSE CHOOSE k \in at : \A j \in at : k <= j
      strip[i \in 1..Len(html) + 1] ==
        LET lt == Next("<", i)
            gt == Next(">", lt + 1)
        IN  CASE lt = 0 \/ gt = 0 -> SubSeq(html, i, Len(html))
              [] lt # 0 /\ gt = lt + 1 -> SubSeq(html, i, lt) \o strip[lt + 1]
              [] OTHER -> SubSeq(html, i, lt - 1) \o strip[gt + 1]
  IN  strip[1]

(* Runs of white space become one blank, and none is left at the ends.     *)
Normalized(text) ==
  Kept(text, {i \in DOMAIN text :
                \/ text[i] # " "
                \/ i > 1 /\ text[i - 1] # " " /\ \E j \in i..Len(text) : text[j] # " "})

-----------------------------------------------------------------------------
(* The declared reliability floor: in its range, and the same everywhere.  *)
FloorReasons(s) ==
  LET v == Get(s.check, "rel_floor")
  IN  IF v \in {None, Junk} THEN {"rel_floor: required"}
      ELSE IF v \notin 0..9 THEN {"rel_floor: range"}
      ELSE IF Get(s.files.metrics, "rel_floor") # v THEN {"rel_floor: metrics"}
      ELSE NameWhen(s.files.results_md.floor # v, "rel_floor: table")

StandingsReasons(stand, s, rows) ==
  LET stamps == [suite_version |-> Suite(s).suite_version, suite_hash |-> Suite(s).suite_hash,
                 min_detectable_pts_full_grade |-> Rounded(100, TaskCount(s), 1000)]
      got    == stand["rows"]
  IN  NameWhen(Differing(stand, stamps) # {}, "standings: stamps")
        \cup NameWhen(~ DOMAIN stand \subseteq DOMAIN stamps \cup {"rows"}, "standings: extra key")
        \cup (IF [i \in DOMAIN got |-> Get(got[i], "id")] # [i \in DOMAIN rows |-> rows[i]["id"]]
              THEN {"standings: coverage"}
              ELSE NameWhen(\E i \in DOMAIN rows : Differing(got[i], rows[i]) # {},
                            "standings: row differs")
                     \cup NameWhen(\E i \in DOMAIN rows : ~ DOMAIN got[i] \subseteq DOMAIN rows[i],
                                   "standings: extra key in row"))

FlipsReasons(declared, flips) ==
  NameWhen(Differing(declared, flips) # {}, "flips: differ")
    \cup NameWhen(~ DOMAIN declared \subseteq DOMAIN flips, "flips: extra key")

(* Mutant: only the number of claims is held.                              *)
NarrativeReasonsCounted(narrative) ==
  NameWhen(narrative.claims_fired # narrative.sentences, "narrative: claims")

NarrativeReasons(narrative) ==
  NameWhen(narrative.claims_fired # narrative.sentences, "narrative: claims")
    \cup NameWhen(narrative.text # Normalized(StripFrom(narrative.html)), "narrative: text")

DriftStamps(s) ==
  NameWhen(Get(s.hashes, "suite_hash") # Suite(s).suite_hash, "stamp: suite_hash")
    \cup NameWhen(Get(s.hashes, "metrics_sha256") # s.files.metrics, "stamp: metrics_sha256")
    \cup NameWhen(Get(s.hashes, "registry_sha256") # s.files.registry, "stamp: registry_sha256")

DriftRecount(s, rows, flips) ==
  LET Verdicts(v) == Tally(rows, "verdict", v)
      series      == Series(s)
  IN  [rows |-> Len(rows), regressed |-> Verdicts("regressed"), improved |-> Verdicts("improved"),
       unchanged |-> Verdicts("unchanged"), baseline |-> Verdicts("baseline"),
       no_data |-> Verdicts("no-data"), series |-> Cardinality(DOMAIN series),
       points |-> MapThenSumSet(LAMBDA m : Len(series[m]), DOMAIN series), tasks |-> TaskCount(s),
       min_detectable_pts_full_grade |-> Rounded(100, TaskCount(s), 1000),
       probe_alarms |-> Cardinality(flips.probe_alarms),
       repeat_offenders |-> Cardinality(flips.repeat_offenders),
       one_offs |-> Cardinality(flips.one_offs),
       models_with_enough_history |-> flips.models_with_enough_history,
       claims_fired |-> s.files.narrative.sentences]

CheckModelDrift(s) ==
  IF \E file \in DOMAIN s.files : s.files[file] = None THEN Refused("files: unparsable")
  ELSE IF Suite(s).tasks # Len(Suite(s).task_ids) THEN Refused("fingerprint: tasks")
  ELSE IF ~ Coherent(s) THEN Refused("point: incoherent")
  ELSE IF s.version = "0.2" /\ FloorReasons(s) # {} THEN Result(FloorReasons(s), None)
  ELSE
    LET relFloor == IF s.version = "0.2" THEN s.check["rel_floor"] ELSE None
        rows     == StandingsRows(Series(s), s.files.registry, relFloor)
        flips    == Flips(FlipSeries(Series(s), relFloor))
        recount  == DriftRecount(s, rows, flips)
    IN  Result(StandingsReasons(s.files.standings, s, rows)
                 \cup NameWhen(s.files.results_md # ResultsMd(rows, Suite(s).suite_version, relFloor),
                               "table: differs")
                 \cup FlipsReasons(s.files.flips, flips)
                 \cup NarrativeReasons(s.files.narrative)
                 \cup DriftStamps(s) \cup ExpectReasons(Get(s.check, "expect"), recount),
               PoolOf(recount))
=============================================================================

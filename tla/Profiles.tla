------------------------------ MODULE Profiles ------------------------------
(***************************************************************************)
(* The evidence profiles over submissions that change.  A submission is    *)
(* first what an issuer's tool wrote (IssuerTools); a profile's function   *)
(* judges it (Judge); the issuer changes one declared or measured datum    *)
(* and submits again (Edit), or says the same otherwise (Restate).  The    *)
(* contract BundleVerify relies on, that a function without a pool has     *)
(* named a reason, is part of TypeOK.                                      *)
(***************************************************************************)
EXTENDS IssuerEdits

CONSTANTS
  Submissions,   \* what issuers' tools wrote
  MaxEdits(_),   \* bound on the edits made before a submission is edited
  Pending        \* no verdict yet

VARIABLES
  submission,    \* the check and the files it refers to
  edits,         \* how often the submission was edited
  restated,      \* and whether it was restated
  verdict        \* what the profile's function gave, or Pending

vars == <<submission, edits, restated, verdict>>

(* The dispatch table of _coherence.                                       *)
CheckFns(s) ==
  CASE s.profile = "certlab"    -> CheckCertlab(s)
    [] s.profile = "fleet"      -> CheckFleet(s)
    [] s.profile = "evalmut"    -> CheckEvalmut(s)
    [] s.profile = "crashkit"   -> CheckCrashkit(s)
    [] s.profile = "variance"   -> CheckVariance(s)
    [] s.profile = "rows"       -> CheckRows(s)
    [] s.profile = "modeldrift" -> CheckModelDrift(s)

-----------------------------------------------------------------------------
Init == /\ submission \in Submissions
        /\ edits = 0
        /\ restated = FALSE
        /\ verdict = Pending

Judge == /\ verdict = Pending
         /\ verdict' = CheckFns(submission)
         /\ UNCHANGED <<submission, edits, restated>>

Edit == /\ verdict # Pending /\ edits < MaxEdits(submission)
        /\ submission' \in Edits(submission)
        /\ edits' = edits + 1
        /\ verdict' = Pending
        /\ UNCHANGED restated

(* Bound: once, and before any edit.                                       *)
Restate == /\ verdict # Pending /\ edits = 0 /\ ~ restated
           /\ submission' \in Restatements(submission)
           /\ restated' = TRUE
           /\ verdict' = Pending
           /\ UNCHANGED edits

Next == Judge \/ Edit \/ Restate

Spec == Init /\ [][Next]_vars

-----------------------------------------------------------------------------
Judged   == verdict # Pending
Clean    == Judged /\ verdict.reasons = {} /\ verdict.pool # Raised
HasPool  == Judged /\ verdict.pool \notin {None, Raised}

(* What a tool would have counted over the measurements now submitted.     *)
Citable(s) == CASE s.profile = "certlab"    -> CertlabCitable(s)
                [] s.profile = "fleet"      -> FleetCitable(s)
                [] s.profile = "evalmut"    -> EvalmutCitable(s)
                [] s.profile = "crashkit"   -> PoolOf(BatteryNumbers(s.artifact["cases"]))
                [] s.profile = "variance"   -> PoolOf(VarianceNumbers(s.artifact["per_task"]))
                [] s.profile = "rows"       -> RowsCitable(s)
                [] s.profile = "modeldrift" -> DriftCitable(s)

Expected(s) == LET expect == Get(s.check, "expect")
               IN  IF expect = None THEN {} ELSE PoolOf(expect)

(* An object says what a tool would have written, as far as dict.get can   *)
(* tell: a null and no such key are one.  It may say more (Alike) or has   *)
(* no keys but the tool's (Within).                                        *)
Alike(declared, written)  == \A k \in DOMAIN written : Get(declared, k) = Get(written, k)
Within(declared, written) == Alike(declared, written) /\ DOMAIN declared \subseteq DOMAIN written

BoardWritten(s) ==
  DriftBoard(s.files.metrics["series"], s.files.registry, s.files.fingerprint,
             IF s.version = "0.2" THEN s.check["rel_floor"] ELSE None)

(* The standings: stamps, and a row for each model, in the board's order.  *)
StandingsReissued(stand, board) ==
  /\ Within(Without(stand, "rows"), Without(board, "rows"))
  /\ DOMAIN stand["rows"] = DOMAIN board["rows"]
  /\ \A i \in DOMAIN board["rows"] : Within(stand["rows"][i], board["rows"][i])

(* What the artifacts declare is what a tool would have written.           *)
Reissued(s) ==
  LET a == s.artifact
  IN  CASE s.profile = "fleet" ->
             LET written == FleetWritten(s.raw)
             IN  /\ Len(a["rows"]) = Cardinality(written)
                 /\ \A row \in written : \E i \in DOMAIN a["rows"] : Alike(a["rows"][i], row)
        [] s.profile = "evalmut" ->
             /\ Alike(a["tally"], EvalmutTally(a["results"]))
             /\ \A class \in DOMAIN HoleClass :
                  SameRows(DeclaredHoles(a["holes"], class), EvalmutHoles(a["results"])[class])
        [] s.profile = "crashkit" ->
             LET written == BatteryWritten(a["cases"])
             IN  /\ Alike(a["metrics"], written.metrics)
                 /\ Alike(a["per_kind"], written.per_kind) /\ Alike(written.per_kind, a["per_kind"])
        [] s.profile = "variance" ->
             /\ Alike(Get(a, "metrics"), VarianceNumbers(a["per_task"]))
             /\ \A i \in DOMAIN a["per_task"] : Alike(a["per_task"][i], VarianceRow(a["per_task"][i]))
        [] s.profile = "modeldrift" ->
             LET f == s.files
             IN  /\ StandingsReissued(f.standings, BoardWritten(s).standings)
                 /\ f.results_md = BoardWritten(s).results_md
                 /\ Within(f.flips, BoardWritten(s).flips)
                 /\ f.narrative.text = TextOf(f.narrative.html)
        [] OTHER -> TRUE

(* A verdict is reasons and a pool, and no pool is given up without a      *)
(* reason: the contract of every profile function.                         *)
TypeOK ==
  /\ edits \in Nat /\ restated \in BOOLEAN
  /\ Judged => /\ DOMAIN verdict = {"reasons", "pool"}
               /\ verdict.pool = None => verdict.reasons # {}
               /\ HasPool => \A x \in verdict.pool : x[2] \in Int

(* What JSON, the issuing tools and the meaning of a recount give, and no  *)
(* profile asks: rows are a list, flags are flags, a cell that is said to  *)
(* be a number or a truth value holds one, what is stamped is not the rows *)
(* and a catalog that parses is a list.  A board whose files all parse has *)
(* lists of points, of tasks and of models, and a narrative with a text.   *)
IsList(rows) == rows \in Seq(ToSet(rows))

RowsKey(s) == CASE s.profile = "certlab"  -> "verdicts"
                [] s.profile = "evalmut"  -> "results"
                [] s.profile = "crashkit" -> "cases"
                [] s.profile = "variance" -> "per_task"
                [] OTHER                  -> RowsAt(s)

MeasuredRows(s) == IF s.profile = "fleet" THEN s.raw ELSE s.artifact[RowsKey(s)]

Flagged(row, flags) == \A flag \in flags : flag \in DOMAIN row /\ row[flag] \in BOOLEAN

RowAsMeasured(profile, row) ==
  CASE profile = "certlab" -> Flagged(row, {"fixed", "policy_ok", "tests_ok"})
    [] profile = "fleet"   -> {"suite", "member"} \subseteq DOMAIN row /\ Flagged(row, {"detected", "clean_passed"})
    [] profile = "evalmut" -> {"outcome", "op_type", "operator_id"} \subseteq DOMAIN row
    [] profile = "rows"    -> \A k \in DOMAIN row : row[k].type \in {"number", "bool"} => row[k].value \in Int
    [] OTHER               -> TRUE

CatalogRead(check) == Get(check, "catalog") \in {None, Junk} \/ IsList(Get(check, "catalog"))

BoardFiles == {"metrics", "registry", "standings", "flips", "narrative", "results_md", "fingerprint"}

BoardRead(f) ==
  LET series == f.metrics["series"]
  IN  \/ \E file \in DOMAIN f : f[file] = None
      \/ /\ BoardFiles \subseteq DOMAIN f
         /\ "series" \in DOMAIN f.metrics /\ "task_ids" \in DOMAIN f.fingerprint
         /\ "sentences" \in DOMAIN f.narrative /\ f.narrative["sentences"] \in Nat
         /\ "html" \in DOMAIN f.narrative /\ IsList(f.narrative["html"])
         /\ IsList(f.registry) /\ IsList(f.fingerprint["task_ids"]) /\ f.fingerprint["task_ids"] # <<>>
         /\ IsFiniteSet(DOMAIN series) /\ series = [m \in DOMAIN series |-> series[m]]
         /\ \A m \in DOMAIN series :
              /\ IsList(series[m])
              /\ \A i \in DOMAIN series[m] : "t" \in DOMAIN series[m][i] /\ series[m][i]["t"] \in Int \cup {Junk}

FleetRowsAreRead(s) ==
  /\ "artifact" \in DOMAIN s /\ "rows" \in DOMAIN s.artifact \ DOMAIN s.hashes
  /\ IsList(s.artifact["rows"])

AsMeasured(s) ==
  /\ {"profile", "check", "hashes"} \subseteq DOMAIN s
  /\ s.profile \in {"certlab", "fleet", "evalmut", "crashkit", "variance", "rows", "modeldrift"}
  /\ CASE s.profile = "fleet"      -> "raw" \in DOMAIN s
       [] s.profile = "modeldrift" -> {"files", "version"} \subseteq DOMAIN s /\ BoardRead(s.files)
       [] OTHER                    -> "artifact" \in DOMAIN s /\ RowsKey(s) \in DOMAIN s.artifact
  /\ s.profile = "rows" => "bare" \in DOMAIN s
  /\ s.profile = "fleet" => FleetRowsAreRead(s)
  /\ s.profile = "certlab" => "verdicts" \notin DOMAIN s.hashes
  /\ s.profile = "evalmut" => CatalogRead(s.check)
  /\ s.profile # "modeldrift" =>
       /\ IsList(MeasuredRows(s))
       /\ \A i \in DOMAIN MeasuredRows(s) : RowAsMeasured(s.profile, MeasuredRows(s)[i])

(* What a summary may cite is what a one-pass count over the submitted     *)
(* measurements gives, at its own level of grouping and under its own      *)
(* name, whatever the artifact declares and however it was edited.         *)
PoolIsRecount == HasPool => verdict.pool = Citable(submission)

(* A submission without reasons declares, everywhere, what the issuing     *)
(* tool would have written from the measurements it now holds, up to nulls *)
(* and keys of its own.  Its expected numbers are part of that; a fleet    *)
(* board expects by row, and a variance report has no expected numbers.    *)
ExpectedIsCounted ==
  Clean /\ submission.profile \notin {"fleet", "variance"} =>
    Expected(submission) \subseteq Citable(submission)

CleanIsReissued == ExpectedIsCounted /\ (Clean => Reissued(submission))

(* What the tools write is accepted: aggregates, stamps, re-renders and    *)
(* the optional files agree, outages and empty corners included.           *)
HonestIsClean == Judged /\ edits = 0 /\ ~ restated => Clean /\ HasPool

(* One bound datum changed or left out costs the verdict: leaving a stamp  *)
(* out costs what faking it does.                                          *)
EditCosts == Judged /\ edits = 1 /\ ~ restated => ~ Clean

(* At 0.2 a point below the declared reliability floor moves nothing: the  *)
(* numbers, points apart, are those of a history without the outage.       *)
WithoutOutages(s) ==
  LET Up(points) == Kept(points, {i \in DOMAIN points : points[i]["reliability"] >= s.check["rel_floor"]})
      series     == s.files.metrics["series"]
  IN  [s EXCEPT !.files = With(@, "metrics",
         With(s.files.metrics, "series", [m \in DOMAIN series |-> Up(series[m])]))]

OutageMovesNothing ==
  HasPool /\ submission.profile = "modeldrift" /\ submission.version = "0.2" =>
    LET NoPoints(pool) == {x \in pool : x[1] # "points"}
    IN  NoPoints(verdict.pool) = NoPoints(CheckFns(WithoutOutages(submission)).pool)
=============================================================================

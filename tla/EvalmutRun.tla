----------------------------- MODULE EvalmutRun -----------------------------
(***************************************************************************)
(* The profile evalmut-run-v1: _check_evalmut and _check_evalmut_render.   *)
(* s.artifact is the payload (results, tally, holes, score).  Of the files *)
(* a check may name besides, each is None in s.check when it is not named: *)
(* fixtures and catalog are the parsed file (Junk when it does not parse), *)
(* render the headline found in it (Junk when there is none).              *)
(***************************************************************************)
EXTENDS ProfileResult

Outcome == {"caught", "missed", "flagged", "error", "na"}

(* The hole classes: an outcome, and an op_type unless it is None.         *)
HoleClass == [vacuous      |-> <<"missed", "sanity">>,
              blind        |-> <<"missed", "kill">>,
              error        |-> <<"error", None>>,
              brittle      |-> <<"flagged", None>>,
              coverage_gap |-> <<"missed", "diagnostic">>]

InClass(row, class) == /\ Get(row, "outcome") = HoleClass[class][1]
                       /\ HoleClass[class][2] \in {None, Get(row, "op_type")}

(* None stands for no op_type, and so it is not one.                       *)
ASSUME OpTypeAssumption == None \notin {"sanity", "kill", "diagnostic"}

HoleCount(rows, class) == Cardinality({i \in DOMAIN rows : InClass(rows[i], class)})

HoleRows(rows, class) == Kept(rows, {i \in DOMAIN rows : InClass(rows[i], class)})

(* The same rows in any order, each as often.                              *)
SameRows(a, b) ==
  /\ Len(a) = Len(b)
  /\ \A i \in DOMAIN a : Cardinality({j \in DOMAIN a : a[j] = a[i]})
                           = Cardinality({j \in DOMAIN b : b[j] = a[i]})

(* Entries of a declared class that are not objects are dropped unread.    *)
DeclaredHoles(holes, class) ==
  IF Get(holes, class) \in {None, Junk} THEN <<>>
  ELSE SelectSeq(holes[class], LAMBDA row : row # Junk)

(* MISSED is meant for a defect, FLAGGED for an equivalent mutation.       *)
OutcomeContradicts(row) ==
  \/ Get(row, "outcome") = "missed"  /\ Get(row, "polarity") # "defect"
  \/ Get(row, "outcome") = "flagged" /\ Get(row, "polarity") # "equivalent"

(* The optional corpus: rows may cite none but its cases.                  *)
FixturesReasons(fixtures, rows) ==
  CASE fixtures = None -> {}
    [] fixtures = Junk -> {"fixtures: unparsable"}
    [] OTHER ->
       LET cases == Get(fixtures, "cases")
           names == {cases[i] : i \in DOMAIN cases} \ {None}
       IN  NameWhen(Get(fixtures, "manifest_version") # 1, "fixtures: version")
             \cup (IF cases \in {None, Junk} THEN {"fixtures: unparsable"}
                   ELSE NameWhen(Cardinality(names) # Len(cases), "fixtures: names")
                     \cup NameWhen(Get(fixtures, "case_count") # Len(cases), "fixtures: count")
                     \cup NameWhen(\E i \in DOMAIN rows :
                                     Get(rows[i], "case_name") \notin names \cup {None},
                                   "fixtures: stray case"))

(* A set of the rows' case names is built: an unhashable one raises.       *)
FixturesRaise(fixtures, rows) ==
  /\ fixtures \notin {None, Junk}
  /\ Get(fixtures, "cases") \notin {None, Junk}
  /\ Where(rows, "case_name", Junk) # {}

(* The optional catalog: every entry mined, every row drawn from it.       *)
Mined(catalog) ==
  /\ \A i \in DOMAIN catalog : Get(catalog[i], "id") # None /\ Get(catalog[i], "real_origin") # None
  /\ \A i, j \in DOMAIN catalog : catalog[i].id = catalog[j].id => i = j

CatalogReasons(catalog, rows) ==
  IF catalog = None THEN {}
  ELSE IF catalog = Junk THEN {"catalog: unparsable"}
  ELSE IF ~ Mined(catalog) THEN {"catalog: entries"}
  ELSE
       UNION {LET drawn == {j \in DOMAIN catalog : catalog[j].id = Get(rows[i], "operator_id")}
              IN  NameWhen(drawn = {}, "catalog: unknown operator")
                    \cup NameWhen(\E j \in drawn, k \in {"family", "polarity", "op_type"} :
                                    Get(catalog[j], k) # Get(rows[i], k), "catalog: contradicts row")
                : i \in DOMAIN rows}

RenderReasons(headline, recount) ==
  CASE headline = None -> {}
    [] headline = Junk -> {"render: no headline"}
    [] OTHER -> NameWhen(\E k \in {"caught", "applied", "na", "score_3"} :
                           headline[k] # recount[k], "render: differs")

EvalmutRecount(rows, catalog) ==
  LET counts  == [o \in Outcome |-> Tally(rows, "outcome", o)]
      applied == counts["caught"] + counts["missed"] + counts["flagged"]
      holes   == [class \in {"vacuous", "blind", "brittle", "coverage_gap"} |-> HoleCount(rows, class)]
      others  == [applied   |-> applied,
                  results   |-> Len(rows),
                  score_3   |-> Rounded(counts["caught"], applied, 1000),
                  operators_exercised |->
                    Cardinality({Get(rows[i], "operator_id") : i \in DOMAIN rows})]
      battery == IF catalog \in {None, Junk} \/ ~ Mined(catalog) THEN <<>>
                 ELSE [operators |-> Len(catalog)]
  IN  Join(Join(counts, holes), Join(others, battery))

CheckEvalmut(s) ==
  IF s.artifact = None \/ \E k \in {"results", "tally", "holes"} :
                            Get(s.artifact, k) \in {None, Junk}
  THEN Refused("artifact: unparsable")
  ELSE
    LET rows    == s.artifact["results"]
        badRow  == FirstOf(rows, LAMBDA row : Get(row, "operator_id") = Junk)
        flags   == NameWhen(\E n \in 1..badRow - 1 : OutcomeContradicts(rows[n]), "row: outcome")
        counts  == [o \in Outcome |-> Tally(rows, "outcome", o)]
        early   == flags \cup NameWhen(Differing(s.artifact["tally"], counts) # {}, "tally: differs")
        applied == counts["caught"] + counts["missed"] + counts["flagged"]
        score   == Exactly(counts["caught"], applied)
        catalog == Get(s.check, "catalog")
        fixture == Get(s.check, "fixtures")
        recount == EvalmutRecount(rows, catalog)
    IN  CASE badRow <= Len(rows) -> Result(flags \cup {"row: identifiers"}, None)
          [] badRow > Len(rows) /\ applied = 0 -> Result(early \cup {"score: nothing applied"}, None)
          [] badRow > Len(rows) /\ applied > 0 /\ FixturesRaise(fixture, rows) -> Result({}, Raised)
          [] OTHER -> Result(early
                     \cup NameWhen(Get(s.artifact, "score") # score, "score: differs")
                     \cup NameWhen(\E class \in DOMAIN HoleClass :
                                     ~ SameRows(DeclaredHoles(s.artifact["holes"], class),
                                                HoleRows(rows, class)), "holes: differ")
                     \cup FixturesReasons(fixture, rows) \cup CatalogReasons(catalog, rows)
                     \cup RenderReasons(Get(s.check, "render"), recount)
                     \cup ExpectReasons(Get(s.check, "expect"), recount),
                   PoolOf(recount) \cup {<<"score", score>>})
=============================================================================

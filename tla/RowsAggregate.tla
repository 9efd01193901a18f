--------------------------- MODULE RowsAggregate ----------------------------
(***************************************************************************)
(* The profile rows-aggregate-v1: _check_rows_aggregate.  The issuer's     *)
(* rows, and a recipe that names one operation and one field for each      *)
(* declared number.  A cell is [type, value], where value is a whole       *)
(* number, or 1 and 0 for true and false; the artifact is an object that   *)
(* holds the array under rows_key, or (s.bare) is the array itself, held   *)
(* here under the key "document".                                          *)
(***************************************************************************)
EXTENDS ProfileResult, FiniteSetsExt

RowOps == {"count", "sum", "mean", "rate_true", "min", "max"}

(* What may be wrong with a line of the recipe, or with a row it reads.    *)
RecipeFaults == {"recipe: not an object", "recipe: op", "recipe: field", "recipe: round",
                 "row: field absent", "row: type"}

ASSUME RecipeAssumption == None \notin RowOps \cup RecipeFaults

Cells(rows, field)  == {rows[i][field] : i \in DOMAIN rows}
Total(rows, field)  == MapThenSumSet(LAMBDA i : rows[i][field].value, DOMAIN rows)

(* round(num / den, places), places being 0 or None.                       *)
AtPlaces(num, den, places) ==
  IF places = None THEN Exactly(num, den) ELSE Rounded(num, den, 1) * Unit

RowsAggregated(rows, op, field, places) ==
  LET values == {cell.value : cell \in Cells(rows, field)}
  IN  CASE op = "count"     -> Len(rows) * Unit
        [] op = "sum"       -> AtPlaces(Total(rows, field), 1, places)
        [] op = "mean"      -> AtPlaces(Total(rows, field), Len(rows), places)
        [] op = "rate_true" -> AtPlaces(Total(rows, field), Len(rows), places)
        [] op = "min"       -> AtPlaces(Min(values), 1, places)
        [] op = "max"       -> AtPlaces(Max(values), 1, places)

TypeDue(op) == IF op = "rate_true" THEN "bool" ELSE "number"

(* What is wrong with one line of the recipe, in the order it is looked    *)
(* at.  Which of several wrong lines is named is not told apart.           *)
RecipeReason(rows, spec) ==
  LET op    == Get(spec, "op")
      field == Get(spec, "field")
  IN  IF spec = Junk THEN "recipe: not an object"
      ELSE IF op \notin RowOps THEN "recipe: op"
      ELSE IF op # "count" /\ field = None THEN "recipe: field"
      ELSE IF Get(spec, "round") \notin {None, 0} THEN "recipe: round"
      ELSE IF op = "count" THEN None
      ELSE IF \E i \in DOMAIN rows : field \notin DOMAIN rows[i] THEN "row: field absent"
      ELSE IF \E cell \in Cells(rows, field) : cell.type # TypeDue(op) THEN "row: type"
      ELSE None

RowsAt(s) == IF s.bare THEN "document" ELSE Get(s.check, "rows_key")

CheckRows(s) ==
  LET rows    == IF s.artifact \in {None, Junk} THEN None
                 ELSE Get(s.artifact, RowsAt(s))
      recipe  == Get(s.check, "recompute")
      expect  == Get(s.check, "expect")
      wrong   == {RecipeReason(rows, recipe[k]) : k \in DOMAIN recipe} \ {None}
      recount == [k \in DOMAIN recipe |->
                    RowsAggregated(rows, recipe[k].op, Get(recipe[k], "field"),
                                   Get(recipe[k], "round"))]
  IN  IF rows \in {None, Junk} THEN Refused("artifact: unparsable")
      ELSE IF rows = <<>> THEN Refused("artifact: no rows")
      ELSE IF recipe = None \/ DOMAIN recipe = {} THEN Refused("recipe: required")
      ELSE IF wrong # {} THEN Refused(CHOOSE reason \in wrong : TRUE)
      ELSE IF expect = None \/ DOMAIN expect = {} THEN Refused("expect: required")
      ELSE Result(ExpectReasons(expect, recount), PoolOf(recount))
=============================================================================

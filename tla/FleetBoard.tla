----------------------------- MODULE FleetBoard -----------------------------
(***************************************************************************)
(* The profile fleet-board-v1: _check_fleet.  s.artifact is the aggregate, *)
(* s.raw the lines it is said to come from.  A line pairs a run with the   *)
(* defect and a run without, and belongs to a suite and a member; the      *)
(* aggregate has one row for each such pair of names.                      *)
(***************************************************************************)
EXTENDS ProfileResult

KeyOf(row) == <<Get(row, "suite"), Get(row, "member")>>
Unhashable(row) == Junk \in {Get(row, "suite"), Get(row, "member")}

(* The indices of the lines of one group, of one suite, of the board.      *)
OfKey(raw, key)     == {i \in DOMAIN raw : KeyOf(raw[i]) = key}
OfSuite(raw, suite) == Where(raw, "suite", suite)

FleetRates(raw, lines) ==
  LET n   == Cardinality(lines)
      det == Cardinality(lines \cap Where(raw, "detected", TRUE))
      fa  == Cardinality(lines \ Where(raw, "clean_passed", TRUE))
  IN  [n |-> n, detected |-> det, false_alarms |-> fa,
       detection_rate |-> Rounded(det, n, 1000), false_alarm_rate |-> Rounded(fa, n, 1000)]

(* A line's own flag must follow from its pair of runs.                    *)
FlagContradicts(line) ==
  Get(line, "detected") # (Get(line, "defective_failed") = TRUE /\ Get(line, "clean_passed") = TRUE)

FleetExpect(expect, rows) ==
  IF expect = None THEN {}
  ELSE NameWhen(~ DOMAIN expect \subseteq {"rows"}, "expect: not recomputable")
         \cup NameWhen("rows" \in DOMAIN expect /\ expect["rows"] # Len(rows), "expect: differs")

(* What the loop over the aggregate's rows names in the rows before upTo.  *)
FleetRows(rows, raw, upTo) ==
  UNION {LET key   == KeyOf(rows[n])
             lines == OfKey(raw, key)
         IN  IF \E i \in 1..n - 1 : KeyOf(rows[i]) = key THEN {"row: duplicate"}
             ELSE IF lines = {} THEN {"row: no raw lines"}
             ELSE NameWhen(Differing(rows[n], FleetRates(raw, lines)) # {}, "row: differs")
           : n \in 1..upTo - 1}

FleetStamps(s) ==
  NameWhen(s.commit # None /\ StampDiffers(s.artifact, "fleet_commit", s.commit),
           "stamp: fleet_commit")
    \cup NameWhen(/\ "fleet_commit" \in DOMAIN s.hashes
                  /\ StampDiffers(s.artifact, "fleet_commit", s.hashes["fleet_commit"]),
                  "stamp: hashes")

(* Three levels of grouping.  At 0.2 each has fields of its own; at 0.1    *)
(* they share them.                                                        *)
Field(version, level, name) == IF version = "0.2" THEN level \o "_" \o name ELSE name

AtLevel(version, level, numbers) ==
  {<<Field(version, level, name), numbers[name]>> : name \in DOMAIN numbers}

FleetPool(raw, version) ==
  LET keys   == {KeyOf(raw[i]) : i \in DOMAIN raw}
      suites == {key[1] : key \in keys}
      Members(suite) == [members |-> Cardinality({key \in keys : key[1] = suite})]
  IN  AtLevel(version, "board", [rows |-> Cardinality(keys), suites |-> Cardinality(suites)])
        \cup (IF raw = <<>> THEN {}
              ELSE AtLevel(version, "board", FleetRates(raw, DOMAIN raw)))
        \cup (UNION {AtLevel(version, "member", FleetRates(raw, OfKey(raw, key))) : key \in keys})
        \cup (UNION {AtLevel(version, "suite", FleetRates(raw, OfSuite(raw, suite)))
                      \cup AtLevel(version, "suite", Members(suite)) : suite \in suites})

CheckFleet(s) ==
  IF s.raw = None THEN Refused("raw: unparsable")
  ELSE IF s.artifact = None \/ Get(s.artifact, "rows") \in {None, Junk}
  THEN Refused("artifact: unparsable")
  ELSE
    LET rows    == s.artifact["rows"]
        badLine == FirstOf(s.raw, Unhashable)
        badRow  == FirstOf(rows, Unhashable)
        flags   == NameWhen(\E n \in 1..badLine - 1 : FlagContradicts(s.raw[n]), "raw: flag")
        early   == flags \cup FleetExpect(Get(s.check, "expect"), rows)
                     \cup FleetRows(rows, s.raw, badRow)
        rowless == {KeyOf(s.raw[i]) : i \in DOMAIN s.raw} \ {KeyOf(rows[i]) : i \in DOMAIN rows}
    IN  IF badLine <= Len(s.raw) THEN Result(flags \cup {"raw: identifiers"}, None)
        ELSE IF badRow <= Len(rows) THEN Result(early \cup {"artifact: identifiers"}, None)
        ELSE Result(early \cup NameWhen(rowless # {}, "raw: no row") \cup FleetStamps(s),
                    FleetPool(s.raw, s.version))
=============================================================================

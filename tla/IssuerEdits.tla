---------------------------- MODULE IssuerEdits -----------------------------
(***************************************************************************)
(* What an issuer may change in a submission between two verifications: a  *)
(* number, a row, a stamp, a flag, a file.  Every edit concerns a datum    *)
(* that the profile binds to another one.                                  *)
(***************************************************************************)
EXTENDS IssuerTools

(* One datum of a submission changed: left out, doubled, or another value. *)
Rewrites(obj, keys, value) ==
  {Without(obj, k) : k \in keys \cap DOMAIN obj}
    \cup {With(obj, k, value) : k \in {k \in keys \cap DOMAIN obj : obj[k] # value}}

RowsChanged(rows, Change(_)) == {ReplaceAt(rows, i, Change(rows[i])) : i \in DOMAIN rows}
RowsLess(rows)               == {RemoveAt(rows, i) : i \in DOMAIN rows}

(* The artifact with another value under a key.                            *)
Artifacts(s, key, values) == {[s EXCEPT !.artifact = With(@, key, v)] : v \in values}
Checks(s, key, values)    == {[s EXCEPT !.check = With(@, key, v)] : v \in values}

ExpectEdits(s) ==
  IF Get(s.check, "expect") = None THEN {}
  ELSE {[s EXCEPT !.check = Without(@, "expect")]}
         \cup Checks(s, "expect", {With(s.check["expect"], k, s.check["expect"][k] + 1)
                                     : k \in DOMAIN s.check["expect"]})

HeadlineEdits(s) ==
  IF Get(s.check, "render") \in {None, Junk} THEN {}
  ELSE Checks(s, "render", {Junk} \cup {[s.check["render"] EXCEPT ![k] = @ + 1]
                                          : k \in DOMAIN s.check["render"]})

CertlabEdits(s) ==
  ExpectEdits(s) \cup HeadlineEdits(s)
    \cup {[s EXCEPT !.artifact = a] : a \in Rewrites(s.artifact,
            DOMAIN s.hashes \cup (IF s.commit = None THEN {} ELSE {"harness_commit"}), "other")}

FleetEdits(s) ==
  LET rows == s.artifact["rows"]
  IN  Artifacts(s, "rows", RowsLess(rows) \cup {Append(rows, rows[i]) : i \in DOMAIN rows}
                 \cup (UNION {RowsChanged(rows, LAMBDA r : With(r, k, r[k] + 1)) :
                               k \in {"n", "detected", "false_alarms", "detection_rate"}})
                 \cup RowsChanged(rows, LAMBDA r : With(r, "suite", Junk)))
      \cup {[s EXCEPT !.raw = lines] : lines \in RowsLess(s.raw)
              \cup RowsChanged(s.raw, LAMBDA l : With(l, "detected", ~ l["detected"]))
              \cup RowsChanged(s.raw, LAMBDA l : With(l, "member", Junk))
              \cup {Append(s.raw, s.raw[i]) : i \in DOMAIN s.raw}}
      \cup {[s EXCEPT !.artifact = a] : a \in Rewrites(s.artifact,
              DOMAIN s.hashes \cup (IF s.commit = None THEN {} ELSE {"fleet_commit"}), "other")}

EvalmutEdits(s) ==
  LET rows == s.artifact["results"]
      cat  == Get(s.check, "catalog")
      fix  == Get(s.check, "fixtures")
  IN  ExpectEdits(s) \cup HeadlineEdits(s)
      \cup Artifacts(s, "tally", UNION {Rewrites(s.artifact["tally"], {k}, 9) : k \in Outcome})
      \cup Artifacts(s, "score", {0, Unit} \ {Get(s.artifact, "score")})
      \cup Artifacts(s, "holes", UNION {{With(s.artifact["holes"], class, less) :
               less \in RowsLess(s.artifact["holes"][class])} : class \in DOMAIN HoleClass})
      \cup Artifacts(s, "results", RowsLess(rows)
               \cup ({ReplaceAt(rows, i, With(rows[i], "outcome", o)) :
                        i \in DOMAIN rows, o \in {"caught", "missed"}} \ {rows}))
      \cup Artifacts(s, "results", RowsChanged(rows, LAMBDA r : With(r, "operator_id", Junk)))
      \cup (IF cat \in {None, Junk} THEN {}
            ELSE Checks(s, "catalog", {Junk} \cup RowsLess(cat)
                          \cup RowsChanged(cat, LAMBDA o : Without(o, "real_origin"))
                          \cup RowsChanged(cat, LAMBDA o : With(o, "polarity", "other"))))
      \cup (IF fix \in {None, Junk} THEN {}
            ELSE Checks(s, "fixtures", {Junk, With(fix, "manifest_version", 2),
                                        With(fix, "case_count", 9)}
                          \cup {With(fix, "cases", less) : less \in RowsLess(fix["cases"])})
                 \cup Artifacts(s, "results", RowsChanged(rows, LAMBDA r : With(r, "case_name", Junk))))

CrashkitEdits(s) ==
  LET cases == s.artifact["cases"]
      Changed(Change(_)) == {ReplaceAt(cases, i, Change(cases[i])) :
                               i \in {i \in DOMAIN cases : cases[i]["truncated"] = FALSE}}
  IN  ExpectEdits(s) \cup {[s EXCEPT !.check = Without(@, "battery_hash_key")]}
      \cup {[s EXCEPT !.artifact = a] : a \in Rewrites(s.artifact, {"git_sha"}, "other")}
      \cup Artifacts(s, "metrics", UNION {Rewrites(s.artifact["metrics"], {k}, 9) :
                                            k \in DOMAIN s.artifact["metrics"]})
      \cup Artifacts(s, "per_kind", UNION {Rewrites(s.artifact["per_kind"], {k}, 9) :
                                             k \in DOMAIN s.artifact["per_kind"]})
      \cup Artifacts(s, "cases", RowsLess(cases)
               \cup RowsChanged(cases, LAMBDA c : With(c, "flagged", ~ c["flagged"]))
               \cup RowsChanged(cases, LAMBDA c : With(c, "truncated", None))
               \cup Changed(LAMBDA c : With(c, "severity", "Critical"))
               \cup Changed(LAMBDA c : With(c, "severity", Junk))
               \cup Changed(LAMBDA c : With(c, "passed", ~ c["passed"])))

VarianceEdits(s) ==
  LET rows == s.artifact["per_task"]
  IN  Artifacts(s, "metrics", UNION {Rewrites(s.artifact["metrics"], {k}, 9) :
                                       k \in DOMAIN s.artifact["metrics"]})
      \cup {[s EXCEPT !.artifact = a] : a \in Rewrites(s.artifact, {"n"}, 9)}
      \cup Artifacts(s, "per_task", RowsLess(rows)
             \cup RowsChanged(rows, LAMBDA r : With(r, "passes", r["passes"] + 1))
             \cup RowsChanged(rows, LAMBDA r : With(r, "flaky", ~ r["flaky"]))
             \cup RowsChanged(rows, LAMBDA r : With(r, "severity", "Critical"))
             \cup RowsChanged(rows, LAMBDA r : With(r, "severity", Junk)))

RowsEdits(s) ==
  LET rows   == s.artifact[RowsAt(s)]
      recipe == s.check["recompute"]
      read   == {Get(recipe[k], "field") : k \in DOMAIN recipe} \ {None}
      New(more) == Artifacts(s, RowsAt(s), more)
  IN  ExpectEdits(s) \cup New({<<>>} \cup RowsLess(rows)
             \cup (UNION {RowsChanged(rows, LAMBDA r : Without(r, k)) : k \in read})
             \cup (UNION {RowsChanged(rows, LAMBDA r : With(r, k, [type |-> "text", value |-> 0])) : k \in read}))
      \cup Checks(s, "recompute", {Without(recipe, k) : k \in DOMAIN recipe}
             \cup {With(recipe, k, With(recipe[k], "op", "median")) : k \in DOMAIN recipe})

DriftEdits(s) ==
  LET f     == s.files
      stand == f.standings
      File(name, contents) == {[s EXCEPT !.files = With(@, name, c)] : c \in contents}
      Points(Change(_)) ==
        UNION {{With(f.metrics, "series", With(f.metrics["series"], m, points)) :
                  points \in RowsChanged(f.metrics["series"][m], Change)} : m \in DOMAIN f.metrics["series"]}
  IN  IF \E name \in DOMAIN f : f[name] = None THEN {}
      ELSE
      ExpectEdits(s) \cup {[s EXCEPT !.hashes = h] : h \in Rewrites(s.hashes, {"suite_hash"}, "other")}
      \cup File("standings", {With(stand, "rows", rows) : rows \in RowsLess(stand["rows"])
                 \cup RowsChanged(stand["rows"], LAMBDA r : With(r, "acc", 1))
                 \cup RowsChanged(stand["rows"], LAMBDA r : With(r, "verdict", "steady"))
                 \cup RowsChanged(stand["rows"], LAMBDA r : With(r, "note", "x"))}
               \cup Rewrites(stand, {"suite_hash"}, "other") \cup {With(stand, "note", "x")})
      \cup File("flips", {With(f.flips, k, {}) : k \in {"repeat_offenders", "one_offs", "probe_alarms"}} \ {f.flips})
      \cup File("results_md", {None, [f.results_md EXCEPT !.lines = SubSeq(@, 2, Len(@))]})
      \cup File("narrative", {[f.narrative EXCEPT !.claims_fired = @ + 1],
                              [f.narrative EXCEPT !.html = Append(@, "x")]})
      \cup File("fingerprint", {[f.fingerprint EXCEPT !.tasks = @ + 1]})
      \cup File("metrics", Points(LAMBDA p : With(p, "acc", Whole + 1))
                             \cup Points(LAMBDA p : With(p, "fails", {"no such task"}))
                             \cup Points(LAMBDA p : With(p, "reliability", None))
                             \cup Points(LAMBDA p : With(p, "t", Junk))
                             \cup Points(LAMBDA p : With(p, "out", {"latency_ms"})))
      \cup (IF s.version # "0.2" THEN {}
            ELSE Checks(s, "rel_floor", {None, 10}) \cup File("metrics", {Without(f.metrics, "rel_floor")}))

Edits(s) == CASE s.profile = "certlab"    -> CertlabEdits(s)
              [] s.profile = "fleet"      -> FleetEdits(s)
              [] s.profile = "evalmut"    -> EvalmutEdits(s)
              [] s.profile = "crashkit"   -> CrashkitEdits(s)
              [] s.profile = "variance"   -> VarianceEdits(s)
              [] s.profile = "rows"       -> RowsEdits(s)
              [] s.profile = "modeldrift" -> DriftEdits(s)

(* The same said otherwise: a null that is left out or written where there *)
(* was none, and a key of the issuer's own.                                *)
NoNulls(row) == [k \in {k \in DOMAIN row : row[k] # None} |-> row[k]]

Restatements(s) ==
  LET More(key) == Artifacts(s, key, {With(s.artifact[key], "note", 0)})
  IN  CASE s.profile = "fleet"    -> Artifacts(s, "rows", RowsChanged(s.artifact["rows"], LAMBDA r : With(r, "note", 0)))
        [] s.profile = "evalmut"  -> More("tally")
        [] s.profile = "crashkit" -> More("metrics") \cup Artifacts(s, "per_kind",
                                                          {With(s.artifact["per_kind"], "k0", None)})
        [] s.profile = "variance" -> More("metrics")
        [] s.profile = "modeldrift" ->
             LET stand == s.files.standings
             IN  IF \E name \in DOMAIN s.files : s.files[name] = None THEN {}
                 ELSE {[s EXCEPT !.files = With(@, "standings", With(stand, "rows",
                     [i \in DOMAIN stand["rows"] |-> NoNulls(stand["rows"][i])]))]}
        [] OTHER -> {}
=============================================================================

--------------------------- MODULE MCBundleVerify ---------------------------
(* Small instances of BundleVerify: families of bundles in which each      *)
(* phase's interesting cases, and their combinations, happen.              *)
EXTENDS BundleVerify

CONSTANTS NoScopeMV, NoRefMV, BadRefMV, NoPoolMV

(* "a" and "a2" have the same stem; "x" has a stem that is no scope.       *)
MCPath == {"a", "a2", "b", "x"}
MCBlob == {"one", "two", "bad", "mute", "off"}
MCStemOf == [p \in MCPath |-> CASE p \in {"a", "a2"} -> "a"
                                [] p = "b"           -> "b"
                                [] OTHER             -> NoScopeMV]

(* What the profiles make of each content: two good artifacts that differ  *)
(* in one value and share another, one that does not parse, one that gives *)
(* neither pool nor reason, and one whose declared numbers are off.        *)
MCRecompute(p, bytes) ==
  LET held == {bytes[k] : k \in DOMAIN bytes}
  IN  IF "bad" \in held THEN [reasons |-> {"artifact-unparsable"}, pool |-> NoPoolMV]
      ELSE IF "mute" \in held THEN [reasons |-> {}, pool |-> NoPoolMV]
      ELSE IF "off" \in held THEN [reasons |-> {"summary-mismatch"}, pool |-> {<<"rate", 1>>}]
      ELSE [reasons |-> {}, pool |-> {<<"rate", IF held = {"one"} THEN 1 ELSE 0>>, <<"n", 2>>}]

-----------------------------------------------------------------------------
Refs(f) == [k \in RefKey |-> IF k \in DOMAIN f THEN f[k] ELSE NoRefMV]
CheckOf(p, f) == [profile |-> p, refs |-> Refs(f), scope |-> FALSE]
Crash(ref) == CheckOf("crashkit", [artifact |-> ref])
Number(path, v) == [path |-> path, kind |-> "number", value |-> v]
Pin(p, sha) == [path |-> p, sha |-> sha]
Disk(f) == [p \in MCPath |-> IF p \in DOMAIN f THEN f[p] ELSE "absent"]

Plain == [manifest |-> "object", todo |-> {}, version |-> "0.2", broken |-> {},
          evidence |-> <<Pin("a", "one"), Pin("b", "two")>>,
          results |-> "object", shape |-> "list",
          checks |-> <<Crash("a"), Crash("b")>>,
          summary |-> {Number(<<"a", "rate">>, 1), Number(<<"b", "rate">>, 0)},
          disk |-> Disk([a |-> "one", b |-> "two"])]

(* The manifest unreadable, a draft, or with one or two broken rules.      *)
ManifestInit ==
  \/ \E x \in {"absent", "unparsable", "not-object"} :
        Submitted([Plain EXCEPT !.manifest = x])
  \/ \E t \in {{"claim.scope"}, {"claim.scope", "subject.id"}} :
        Submitted([Plain EXCEPT !.todo = t])
  \/ \E r, q \in SchemaRule : Submitted([Plain EXCEPT !.broken = {r, q}])
  \/ \E r \in {"absent", "object"} :
        Submitted([Plain EXCEPT !.results = r, !.shape = "iterable",
                                !.checks = <<>>, !.summary = NoSummary])
  \/ Submitted([Plain EXCEPT !.summary = NoSummary])

(* Any two evidence entries against any contents of two listed places and  *)
(* of one more.                                                            *)
Pins == {Pin(p, s) : p \in {"a", "b"}, s \in {"one", "two", BadRefMV}}
          \cup {Pin(BadRefMV, "one")}

EvidenceInit ==
  \E ev \in {<<>>} \cup {<<e>> : e \in Pins} \cup {<<e, f>> : e, f \in Pins},
     x, y \in {"one", "two", "absent", "symlink"}, z \in {"one", "absent", "symlink"},
     cs \in {<<Crash("a"), Crash("b")>>, <<Crash("a")>>} :
       Submitted([Plain EXCEPT !.evidence = ev, !.checks = cs, !.summary = {},
                               !.disk = Disk([a |-> x, b |-> y, x |-> z])])

(* Any two checks over two listed artifacts.                               *)
CheckPool ==
  {Crash(r) : r \in {"a", "b", "x", NoRefMV, BadRefMV}}
    \cup {CheckOf("certlab", [artifact |-> "a", render |-> r]) : r \in {"b", "x", BadRefMV}}
    \cup {CheckOf("fleet", [aggregate |-> "a", raw |-> "b"]),
          CheckOf("fleet", [aggregate |-> "b"]),
          CheckOf("unknown", [artifact |-> "b"]),
          CheckOf("malformed", [artifact |-> "b"]),
          [Crash("b") EXCEPT !.scope = TRUE]}

Checks == {<<c>> : c \in CheckPool} \cup {<<c, d>> : c, d \in CheckPool}

Summaries ==
  {{}} \cup {{Number(p, v)} : p \in {<<"a", "rate">>, <<"b", "rate">>, <<"rate">>,
                                     <<"other">>, <<"b", "n">>}, v \in 0..2}
       \cup {{[path |-> <<"a", "rate">>, kind |-> k, value |-> 1]} : k \in {"numeral", "other"}}

Holding(p, x, q, y) ==
  [Plain EXCEPT !.evidence = <<Pin(p, x), Pin(q, y)>>,
                !.disk = [r \in MCPath |-> CASE r = p -> x [] r = q -> y
                                             [] OTHER -> "absent"]]

ChecksInit ==
  \/ \E x, y \in MCBlob, cs \in Checks :
        Submitted([Holding("a", x, "b", y) EXCEPT !.checks = cs])
  \/ \E v \in {"0.1", "0.2", "other"}, cs \in Checks, s \in Summaries, y \in {"one", "two"} :
        Submitted([Holding("a", "one", "b", y) EXCEPT
                     !.version = v, !.checks = cs, !.summary = s])

(* Scopes that collide, or that no name gives.                             *)
ScopeInit ==
  \E v \in {"0.1", "0.2"}, p, q \in MCPath, s \in Summaries :
     Submitted([Holding(p, "one", q, "two") EXCEPT
                  !.version = v, !.checks = <<Crash(p), Crash(q)>>, !.summary = s])

(* A check that mentions an artifact under a key its profile does not read.*)
MentionInit ==
  \E v \in {"0.1", "0.2"}, r \in {"b", "x"} :
     Submitted([Plain EXCEPT !.version = v, !.summary = {},
                  !.checks = <<CheckOf("crashkit", [artifact |-> "a", note |-> r])>>])

(* results, or results.checks, of a shape the loops do not expect.         *)
MisshapenInit ==
  \E v \in {"0.1", "0.2"} :
     \/ Submitted([Plain EXCEPT !.version = v, !.results = "other", !.shape = "iterable",
                                !.checks = <<>>, !.summary = NoSummary])
     \/ Submitted([Plain EXCEPT !.version = v, !.shape = "scalar", !.checks = <<>>])

-----------------------------------------------------------------------------
First(init) == init /\ prev = NoPrev

MCSpec == First(ManifestInit \/ EvidenceInit \/ ChecksInit \/ ScopeInit \/ MentionInit
                  \/ MisshapenInit)
            /\ [][Next]_vars

MCMisshapenSpec == First(ManifestInit \/ MisshapenInit) /\ [][Next]_vars
=============================================================================

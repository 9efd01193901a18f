---------------------------- MODULE BundleVerify ----------------------------
(***************************************************************************)
(* The structural verifier, vac/verify.py: verify_bundle and the phases it *)
(* runs in order over one bundle: the manifest is read and a draft refused *)
(* wholesale; _validate_manifest; _verify_artifacts (presence, sha256,     *)
(* closure of the directory); _coherence (one step per declared check,     *)
(* then evidence coverage and the binding of the summary).  Each phase     *)
(* relies on an earlier one having NAMED what it skips in silence.         *)
(*                                                                         *)
(* Data are abstracted to what the phases tell apart.  A file is one of a  *)
(* few byte strings (Blob), a digest is the byte string it is the digest   *)
(* of, and what a profile's own function recomputes from its artifacts is  *)
(* the constant operator Recompute.  A reason is <<code, subject>>.        *)
(***************************************************************************)
EXTENDS Naturals, Sequences

CONSTANTS
  Path,            \* safe relative names, vac.json apart
  Blob,            \* contents a regular file may have
  StemOf,          \* Path -> the stem _scope_of derives from it, or NoScope
  NoScope,         \* a stem that _SCOPE_RE does not match
  NoRef,           \* a reference key that the check does not hold
  BadRef,          \* a reference key holding something other than a name
  NoPool,          \* a profile's function returned None
  NoSummary,       \* results.summary is not an object
  NoPrev,          \* nothing was submitted before this bundle
  Recompute(_, _)  \* profile, bytes read -> [reasons, pool], where pool is
                   \* NoPool or a set of <<field, value>>; a function may
                   \* name a reason and still return its pool

VARIABLES
  bundle,      \* the submitted directory and manifest
  pc,          \* the phase verify_bundle is about to run
  failures,    \* every reason named so far
  trusted,     \* listed paths whose bytes hashed to their pin
  next,        \* index of the check _coherence runs next
  complete,    \* every check so far contributed its recomputation
  pooled,      \* indices of the checks whose pool was appended
  scopes,      \* scopes claimed so far (v0.2)
  prev         \* the accepted bundle this one was cut down from, or NoPrev

vars == <<bundle, pc, failures, trusted, next, complete, pooled, scopes, prev>>

-----------------------------------------------------------------------------
(* The reference tables: a profile's first required key is its primary.    *)
RequiredRefs ==
  [certlab |-> <<"artifact">>, fleet |-> <<"aggregate", "raw">>,
   evalmut |-> <<"artifact">>, crashkit |-> <<"artifact">>,
   variance |-> <<"artifact">>, rows |-> <<"artifact">>,
   modeldrift |-> <<"metrics", "registry", "standings", "flips",
                    "narrative", "results_md", "fingerprint">>]

Profile == DOMAIN RequiredRefs

OptionalRefs(p) == CASE p = "certlab" -> {"render"}
                     [] p = "evalmut" -> {"catalog", "fixtures", "render"}
                     [] OTHER         -> {}

Primary(p) == RequiredRefs[p][1]

RequiredKeys(p) == {RequiredRefs[p][i] : i \in DOMAIN RequiredRefs[p]}

RefKey == {"artifact", "aggregate", "raw", "render", "catalog", "fixtures",
           "metrics", "registry", "standings", "flips", "narrative",
           "results_md", "fingerprint", "note"}

(* What a submitted bundle is.  "malformed" is a check that is not an      *)
(* object; "note" stands for any key of a check that no profile reads.     *)
Check == [profile : Profile \cup {"unknown", "malformed"},
          refs    : [RefKey -> Path \cup {NoRef, BadRef}],
          scope   : BOOLEAN]

Leaf == [path : Seq(STRING), kind : {"number", "numeral", "other"},
         value : Nat]

SchemaRule == {"claim", "limitations", "subject", "protocol", "hashes",
               "commit-missing", "commit-differs", "replay"}

Bundle == [manifest  : {"absent", "unparsable", "not-object", "object"},
           todo      : SUBSET STRING,
           version   : {"0.1", "0.2", "other"},
           broken    : SUBSET SchemaRule,
           evidence  : Seq([path : Path \cup {BadRef}, sha : Blob \cup {BadRef}]),
           results   : {"object", "absent", "other"},
           shape     : {"list", "iterable", "scalar"},
           checks    : Seq(Check),
           summary   : {NoSummary} \cup SUBSET Leaf,
           disk      : [Path -> Blob \cup {"absent", "symlink"}]]

(* Only a list of checks has checks, and only an object has either field.  *)
WellShaped(b) == /\ b.results # "object" => b.summary = NoSummary /\ b.shape = "iterable"
                 /\ b.shape # "list" => b.checks = <<>>

ASSUME NamesAssumption ==
  /\ StemOf \in [Path -> STRING \cup {NoScope}]
  /\ Blob \cap {"absent", "symlink"} = {}
  /\ BadRef \notin Path \cup Blob
  /\ NoRef \notin Path \cup {BadRef}
  /\ NoPrev \notin [bundle : Bundle, deleted : Check]

(* A pool holds pairs of a field and a value.                              *)
ASSUME RecomputeAssumption ==
  \A p \in Profile : \A opt \in SUBSET OptionalRefs(p) :
     \A bytes \in [RequiredKeys(p) \cup opt -> Blob] :
        \/ Recompute(p, bytes).pool = NoPool
        \/ Recompute(p, bytes).pool \subseteq STRING \X Nat

-----------------------------------------------------------------------------
(* What the phases derive from a manifest.  An entry whose path is no safe *)
(* relative name is dropped after it has been named.                       *)
V2(b)      == b.version = "0.2"
Entries(b) == {e \in {b.evidence[i] : i \in DOMAIN b.evidence} : e.path \in Path}
Listed(b)  == {e.path : e \in Entries(b)}

(* _coherence scans the references of EVERY check that is an object, under *)
(* any key: a check covers what it mentions.                               *)
Mentions(c) == IF c.profile = "malformed" THEN {} ELSE {c.refs[k] : k \in RefKey}
Covered(b)  == Listed(b) \cap (UNION {Mentions(b.checks[i]) : i \in DOMAIN b.checks})

(* The references a check is held to: every required one, and an optional  *)
(* one as soon as its key is there.                                        *)
KeysHeld(c) == RequiredKeys(c.profile)
                 \cup {k \in OptionalRefs(c.profile) : c.refs[k] # NoRef}

ScopeOf(c) == LET ref == c.refs[Primary(c.profile)]
              IN  IF ref \in Path THEN StemOf[ref] ELSE NoScope

(* What a check's own function gives over the bytes it is handed.          *)
Recomputed(b, c) == Recompute(c.profile, [k \in KeysHeld(c) |-> b.disk[c.refs[k]]])

-----------------------------------------------------------------------------
(* _validate_manifest: every rule is looked at and every violation named.  *)
NameIf(cond, code, subject) == IF cond THEN {<<code, subject>>} ELSE {}

SchemaCode(rule) == CASE rule = "limitations"    -> "empty-limitations"
                      [] rule = "commit-missing" -> "missing-issuer-commit"
                      [] rule = "commit-differs" -> "issuer-commit-mismatch"
                      [] OTHER                   -> "schema-violation"

(* Mutant: the search for an earlier entry of the path finds the entry.    *)
EntryFailuresSelf(b, i) ==
  LET e == b.evidence[i]
  IN  IF e.path \notin Path THEN {<<"schema-violation", "evidence.path">>}
      ELSE NameIf(e.sha = BadRef, "schema-violation", "evidence.sha256")
             \cup NameIf(\E j \in 1..i : b.evidence[j].path = e.path,
                         "duplicate-artifact", e.path)

EntryFailures(b, i) ==
  LET e == b.evidence[i]
  IN  IF e.path \notin Path THEN {<<"schema-violation", "evidence.path">>}
      ELSE NameIf(e.sha = BadRef, "schema-violation", "evidence.sha256")
             \cup NameIf(\E j \in 1..(i - 1) : b.evidence[j].path = e.path,
                         "duplicate-artifact", e.path)

(* Mutant: a profile that nobody knows is not named.                       *)
CheckFailuresKnown(b, c) ==
  NameIf(c.profile = "malformed", "schema-violation", "results.checks")
    \cup NameIf(V2(b) /\ c.scope /\ c.profile # "malformed",
                "schema-violation", "results.checks.scope")

CheckFailures(b, c) ==
  NameIf(c.profile = "malformed", "schema-violation", "results.checks")
    \cup NameIf(c.profile = "unknown", "unknown-profile", "results.checks")
    \cup NameIf(V2(b) /\ c.scope /\ c.profile # "malformed",
                "schema-violation", "results.checks.scope")

SchemaFailures(b) ==
  {<<SchemaCode(rule), rule>> : rule \in b.broken}
    \cup NameIf(b.version = "other", "schema-violation", "vac_version")
    \cup NameIf(b.evidence = <<>>, "schema-violation", "evidence")
    \cup NameIf(b.results # "object", "schema-violation", "results")
    \cup NameIf(b.summary = NoSummary, "schema-violation", "results.summary")
    \cup NameIf(b.checks = <<>>, "schema-violation", "results.checks")
    \cup (UNION {EntryFailures(b, i) : i \in DOMAIN b.evidence})
    \cup (UNION {CheckFailures(b, b.checks[i]) : i \in DOMAIN b.checks})

(* .get on a results that is not an object, or a loop over a checks value  *)
(* that is truthy and not iterable: neither is guarded, and the exception  *)
(* leaves verify_bundle.  The v0.2 scope rule meets both first.            *)
SchemaRaises(b) ==
  V2(b) /\ (b.results = "other" \/ (b.results = "object" /\ b.shape = "scalar"))

CoherenceRaises(b) == b.results = "object" /\ b.shape = "scalar"

-----------------------------------------------------------------------------
(* _verify_artifacts.  A symlink is named before anything is read through  *)
(* it; a digest that is not 64 hex was named as a schema violation and is  *)
(* passed over in silence here.                                            *)
EntryArtifactFailures(b, e) ==
  LET held == b.disk[e.path]
  IN  CASE held = "symlink" -> {<<"unsafe-bundle", e.path>>}
        [] held = "absent"  -> {<<"missing-artifact", e.path>>}
        [] OTHER -> NameIf(e.sha # BadRef /\ e.sha # held, "sha256-mismatch", e.path)

(* Mutant: the walk of the directory passes symlinks over.                 *)
ClosureFailuresFiles(b) ==
  UNION {NameIf(b.disk[p] \in Blob, "unlisted-file", p) : p \in Path \ Listed(b)}

ClosureFailures(b) ==
  UNION {NameIf(b.disk[p] = "symlink", "unsafe-bundle", p)
           \cup NameIf(b.disk[p] \in Blob, "unlisted-file", p)
         : p \in Path \ Listed(b)}

ArtifactFailures(b) ==
  ClosureFailures(b) \cup (UNION {EntryArtifactFailures(b, e) : e \in Entries(b)})

Trusted(b) == {e.path : e \in {x \in Entries(b) : /\ b.disk[x.path] \in Blob
                                                  /\ x.sha = b.disk[x.path]}}

-----------------------------------------------------------------------------
(* _summary_outruns, over the pools of the checks in S.  A v0.1 leaf binds *)
(* on its own key against pools merged by bare field, then on any value    *)
(* recomputed anywhere; a v0.2 leaf binds on its full path against         *)
(* scope.field and has no second tier.                                     *)
PoolKeys(b, c, f) == IF V2(b) THEN <<ScopeOf(c), f>> ELSE <<f>>

ByField(b, S) ==
  UNION {{[key |-> PoolKeys(b, b.checks[i], fv[1]), value |-> fv[2]]
             : fv \in Recomputed(b, b.checks[i]).pool} : i \in S}

BindingKey(b, leaf) == IF V2(b) THEN leaf.path ELSE <<leaf.path[Len(leaf.path)]>>

(* Mutants: the second tier for every version; and for a key that some     *)
(* check knows as well.                                                    *)
OutrunsAnywhere(b, S, leaf) ==
  \/ leaf.kind = "numeral"
  \/ /\ leaf.kind = "number"
     /\ \A x \in ByField(b, S) : x.key = BindingKey(b, leaf) => x.value # leaf.value
     /\ \/ \E x \in ByField(b, S) : x.key = BindingKey(b, leaf)
        \/ \A x \in ByField(b, S) : x.value # leaf.value

OutrunsLoosely(b, S, leaf) ==
  \/ leaf.kind = "numeral"
  \/ /\ leaf.kind = "number"
     /\ \A x \in ByField(b, S) :
           x.value # leaf.value \/ (V2(b) /\ x.key # BindingKey(b, leaf))

Outruns(b, S, leaf) ==
  \/ leaf.kind = "numeral"
  \/ /\ leaf.kind = "number"
     /\ LET bound == {x \in ByField(b, S) : x.key = BindingKey(b, leaf)}
        IN  IF bound # {} THEN \A x \in bound : x.value # leaf.value
            ELSE V2(b) \/ \A x \in ByField(b, S) : x.value # leaf.value

SummaryOutruns(b, S) == {<<"summary-outruns-checks", leaf.path>>
                            : leaf \in {l \in b.summary : Outruns(b, S, l)}}

-----------------------------------------------------------------------------
Submitted(b) ==
  /\ bundle = b /\ pc = "read" /\ failures = {} /\ trusted = {} /\ next = 1
  /\ complete = TRUE /\ pooled = {} /\ scopes = {}

Init == \E b \in Bundle : WellShaped(b) /\ Submitted(b) /\ prev = NoPrev

Stop(reasons) ==
  /\ failures' = failures \cup reasons
  /\ pc' = "done"

Unmoved == <<bundle, trusted, next, complete, pooled, scopes, prev>>

(* _todo_failures: one reason per marker of vac.draft that is still there. *)
DraftFailures(b) == {<<"draft-incomplete", path>> : path \in b.todo}

(* No manifest, no JSON object, or a draft: the only reasons returned.     *)
RefuseOutright ==
  /\ pc = "read"
  /\ \/ bundle.manifest = "absent" /\ Stop({<<"missing-manifest", "vac.json">>})
     \/ /\ bundle.manifest \in {"unparsable", "not-object"}
        /\ Stop({<<"invalid-json", "vac.json">>})
     \/ /\ bundle.manifest = "object" /\ bundle.todo # {}
        /\ Stop(DraftFailures(bundle))
  /\ UNCHANGED Unmoved

ValidateManifest ==
  /\ pc = "read" /\ bundle.manifest = "object" /\ bundle.todo = {}
  /\ IF SchemaRaises(bundle)
     THEN pc' = "raised" /\ UNCHANGED failures
     ELSE pc' = "artifacts" /\ failures' = failures \cup SchemaFailures(bundle)
  /\ UNCHANGED Unmoved

VerifyArtifacts ==
  /\ pc = "artifacts"
  /\ failures' = failures \cup ArtifactFailures(bundle)
  /\ trusted' = Trusted(bundle)
  /\ pc' = IF CoherenceRaises(bundle) THEN "raised" ELSE "checks"
  /\ UNCHANGED <<bundle, next, complete, pooled, scopes, prev>>

-----------------------------------------------------------------------------
(* One turn of _coherence's loop over the declared checks.                 *)
Usable(c) == \A k \in KeysHeld(c) : c.refs[k] \in trusted

Skip(reasons) ==
  /\ failures' = failures \cup reasons
  /\ complete' = FALSE
  /\ UNCHANGED <<pooled, scopes>>

SkipCheck(c) ==      \* already named by _validate_manifest
  /\ c.profile \notin Profile
  /\ Skip({})

(* Mutant: a reference outside the evidence counts as named already.       *)
SkipUnusableSilently(c) ==
  /\ c.profile \in Profile /\ ~Usable(c)
  /\ Skip({})

SkipUnusable(c) ==   \* a listed reference that is not trusted is named already
  /\ c.profile \in Profile /\ ~Usable(c)
  /\ Skip({<<"check-artifact-not-listed", k>>
              : k \in {x \in KeysHeld(c) : c.refs[x] \notin Listed(bundle)}})

Reasons(r) == {<<code, next>> : code \in r.reasons}

(* Mutant: a scope that is claimed already is claimed again.               *)
UnscopableNamed(c) == V2(bundle) /\ ScopeOf(c) = NoScope

Unscopable(c) == V2(bundle) /\ ScopeOf(c) \in scopes \cup {NoScope}

RunCheck(c) ==
  /\ c.profile \in Profile /\ Usable(c)
  /\ LET r == Recomputed(bundle, c)
     IN \/ /\ r.pool = NoPool
           /\ Skip(Reasons(r) \cup NameIf(r.reasons = {}, "artifact-unparsable", next))
        \/ /\ r.pool # NoPool /\ Unscopable(c)
           /\ Skip(Reasons(r) \cup {<<"unscopable-check", next>>})
        \/ /\ r.pool # NoPool /\ ~Unscopable(c)
           /\ failures' = failures \cup Reasons(r)
           /\ pooled' = pooled \cup {next}
           /\ scopes' = IF V2(bundle) THEN scopes \cup {ScopeOf(c)} ELSE scopes
           /\ UNCHANGED complete

(* Mutant: giving up on a check leaves the loop (break for continue).      *)
CheckStepBreaks ==
  /\ pc = "checks" /\ next \in DOMAIN bundle.checks
  /\ LET c == bundle.checks[next]
     IN  \/ (SkipCheck(c) \/ SkipUnusable(c)) /\ next' = Len(bundle.checks) + 1
         \/ RunCheck(c) /\ next' = next + 1
  /\ UNCHANGED <<bundle, pc, trusted, prev>>

CheckStep ==
  /\ pc = "checks" /\ next \in DOMAIN bundle.checks
  /\ LET c == bundle.checks[next] IN SkipCheck(c) \/ SkipUnusable(c) \/ RunCheck(c)
  /\ next' = next + 1
  /\ UNCHANGED <<bundle, pc, trusted, prev>>

(* Evidence no check mentions (the code's one reason counts what is beyond *)
(* the fourth); then the summary, over a complete pool only.               *)
Finish ==
  /\ pc = "checks" /\ next \notin DOMAIN bundle.checks
  /\ Stop({<<"evidence-unchecked", p>> : p \in Listed(bundle) \ Covered(bundle)}
          \cup IF complete /\ pooled # {} /\ bundle.summary # NoSummary
               THEN SummaryOutruns(bundle, pooled) ELSE {})
  /\ UNCHANGED Unmoved

(* The issuer cuts an accepted bundle down by one check, then by any of    *)
(* the evidence only that check mentioned, and submits what is left.       *)
Without(s, i) == SubSeq(s, 1, i - 1) \o SubSeq(s, i + 1, Len(s))

(* Mutant: the next verification starts where this one ended.              *)
DeleteCheckStale ==
  /\ pc = "done" /\ failures = {} /\ prev = NoPrev
  /\ \E i \in DOMAIN bundle.checks :
        /\ bundle' = [bundle EXCEPT !.checks = Without(@, i)]
        /\ prev' = [bundle |-> bundle, deleted |-> bundle.checks[i]]
  /\ pc' = "editing"
  /\ UNCHANGED <<failures, trusted, next, complete, pooled, scopes>>

DeleteCheck ==
  /\ pc = "done" /\ failures = {} /\ prev = NoPrev
  /\ \E i \in DOMAIN bundle.checks :
        /\ bundle' = [bundle EXCEPT !.checks = Without(@, i)]
        /\ prev' = [bundle |-> bundle, deleted |-> bundle.checks[i]]
  /\ pc' = "editing"
  /\ trusted' = {} /\ next' = 1 /\ complete' = TRUE /\ pooled' = {} /\ scopes' = {}
  /\ UNCHANGED failures

DropEvidence ==
  /\ pc = "editing"
  /\ \E i \in DOMAIN bundle.evidence :
        LET p == bundle.evidence[i].path
        IN  /\ p \in Listed(bundle) \ Covered(bundle)
            /\ bundle' = [bundle EXCEPT !.evidence = Without(@, i), !.disk[p] = "absent"]
  /\ UNCHANGED <<pc, failures, trusted, next, complete, pooled, scopes, prev>>

Resubmit == pc = "editing" /\ pc' = "read"
            /\ UNCHANGED <<bundle, failures, trusted, next, complete, pooled, scopes, prev>>

Next == \/ RefuseOutright \/ ValidateManifest \/ VerifyArtifacts
        \/ CheckStep \/ Finish
        \/ DeleteCheck \/ DropEvidence \/ Resubmit

Spec == Init /\ [][Next]_vars

-----------------------------------------------------------------------------
Phase == {"editing", "read", "artifacts", "checks", "done", "raised"}

(* Type invariant.                                                         *)
TypeOK ==
  /\ bundle \in Bundle
  /\ pc \in Phase
  /\ trusted \subseteq Path
  /\ next \in 1..(Len(bundle.checks) + 1)
  /\ complete \in BOOLEAN
  /\ pooled \subseteq 1..(next - 1)
  /\ scopes \subseteq STRING
  /\ prev = NoPrev \/ prev \in [bundle : Bundle, deleted : Check]

Accepted == pc = "done" /\ failures = {}

(* The verifier fails closed: once some check has not contributed its      *)
(* recomputation (so the summary will not be enforced), a reason has been  *)
(* named, although three of the four places that give up on a check name   *)
(* nothing themselves and count on an earlier phase having done so.        *)
IncompleteIsNamed == ~complete => failures # {}

(* A clean verdict means the directory holds exactly the listed evidence,  *)
(* each file a regular one with the bytes it is pinned to, however the     *)
(* manifest repeats, misspells or omits an entry.                          *)
AcceptedIsClosed ==
  Accepted => /\ \A p \in Path : bundle.disk[p] # "absent" <=> p \in Listed(bundle)
              /\ \A i \in DOMAIN bundle.evidence :
                    LET e == bundle.evidence[i]
                    IN  e.path \in Path /\ e.sha \in Blob /\ bundle.disk[e.path] = e.sha

(* A clean verdict means every declared check ran: it has a known profile, *)
(* every reference it holds names hash-verified evidence, and its function *)
(* gave a pool and no reason.  Nothing declared was skipped in silence.    *)
AcceptedIsRecomputed ==
  Accepted => /\ bundle.checks # <<>>
              /\ \A i \in DOMAIN bundle.checks :
                    LET c == bundle.checks[i]
                    IN  /\ c.profile \in Profile
                        /\ \A k \in KeysHeld(c) : c.refs[k] \in Listed(bundle)
                        /\ Recomputed(bundle, c).pool # NoPool
                        /\ Recomputed(bundle, c).reasons = {}

(* Under v0.2 a clean verdict binds every number of the summary to one     *)
(* check: the one whose primary evidence gives the path's first component, *)
(* whose recomputation gave that value under the second.  No number is     *)
(* earned by another arm of the same profile (SPEC 2.5.1).                 *)
AcceptedSummaryIsEarned ==
  Accepted /\ V2(bundle) =>
    \A leaf \in bundle.summary :
       /\ leaf.kind # "numeral"
       /\ leaf.kind = "number" =>
            \E i \in DOMAIN bundle.checks :
               /\ \A j \in DOMAIN bundle.checks :
                     ScopeOf(bundle.checks[j]) = leaf.path[1] <=> i = j
               /\ Len(leaf.path) = 2
               /\ <<leaf.path[2], leaf.value>> \in Recomputed(bundle, bundle.checks[i]).pool

(* Under v0.1 a number whose key some check recomputes is held to a value  *)
(* recomputed under that key; equality with a quantity of another name is  *)
(* only for keys no check knows (SPEC 2.5).                                *)
PoolsOf(b) == UNION {Recomputed(b, b.checks[i]).pool : i \in DOMAIN b.checks}

KnownKeyIsHeld ==
  Accepted /\ ~V2(bundle) =>
    \A leaf \in {l \in bundle.summary : l.kind = "number"} :
       LET key == leaf.path[Len(leaf.path)]
       IN  \/ <<key, leaf.value>> \in PoolsOf(bundle)
           \/ \A fv \in PoolsOf(bundle) : fv[1] # key

(* A bundle as SPEC sections 2 and 3 ask for it, said of the whole bundle  *)
(* at once: no phases, no order, no flags.                                 *)
HonestEvidence(b) ==
  /\ b.evidence # <<>>
  /\ \A i, j \in DOMAIN b.evidence : b.evidence[i].path = b.evidence[j].path => i = j
  /\ \A e \in {b.evidence[i] : i \in DOMAIN b.evidence} :
        e.path \in Path /\ e.sha \in Blob /\ b.disk[e.path] = e.sha
  /\ \A p \in Path \ Listed(b) : b.disk[p] = "absent"
  /\ Listed(b) \subseteq Covered(b)

HonestChecks(b) ==
  /\ b.checks # <<>>
  /\ \A i \in DOMAIN b.checks :
        LET c == b.checks[i]
        IN  /\ c.profile \in Profile
            /\ \A k \in KeysHeld(c) : c.refs[k] \in Listed(b)
            /\ Recomputed(b, c).reasons = {} /\ Recomputed(b, c).pool # NoPool
            /\ V2(b) => ~c.scope /\ ScopeOf(c) # NoScope
  /\ V2(b) => \A i, j \in DOMAIN b.checks :
                 ScopeOf(b.checks[i]) = ScopeOf(b.checks[j]) => i = j

HonestNumber(b, leaf) ==
  IF V2(b)
  THEN \E i \in DOMAIN b.checks, fv \in PoolsOf(b) :
          /\ fv \in Recomputed(b, b.checks[i]).pool
          /\ leaf.path = <<ScopeOf(b.checks[i]), fv[1]>> /\ leaf.value = fv[2]
  ELSE LET key == leaf.path[Len(leaf.path)]
       IN  \/ <<key, leaf.value>> \in PoolsOf(b)
           \/ /\ \A fv \in PoolsOf(b) : fv[1] # key
              /\ \E fv \in PoolsOf(b) : fv[2] = leaf.value

Honest(b) ==
  /\ b.manifest = "object" /\ b.todo = {} /\ b.broken = {}
  /\ b.version \in {"0.1", "0.2"} /\ b.results = "object" /\ b.shape = "list"
  /\ HonestEvidence(b) /\ HonestChecks(b)
  /\ b.summary # NoSummary
  /\ \A leaf \in b.summary : /\ leaf.kind # "numeral"
                             /\ leaf.kind = "number" => HonestNumber(b, leaf)

(* No false refusal: the verifier neither raises on an honest bundle nor,  *)
(* in any phase, names a reason that would have to be taken back.          *)
HonestIsAccepted == Honest(bundle) => failures = {} /\ pc # "raised"

(* Deleting a check costs what breaking it costs (SPEC 2.5): under v0.2 an *)
(* accepted bundle cut down by one check, alone or with the evidence only  *)
(* it mentioned, is accepted again only if no number of the summary came   *)
(* from that check's scope.                                                *)
DeletedCheckCosts ==
  prev # NoPrev /\ Accepted /\ V2(bundle) =>
    \A leaf \in bundle.summary :
       leaf.kind = "number" => leaf.path[1] # ScopeOf(prev.deleted)

(* One named reason per failure, all of them (vac/verify.py:21-22): unless *)
(* the manifest was refused outright, what is wrong with one entry, file   *)
(* or check is named although others failed before it, in its phase or in  *)
(* an earlier one.  Runs is a check whose function is called and pools.    *)
Held(b, c) == /\ c.profile \in Profile
              /\ \A k \in KeysHeld(c) : c.refs[k] \in Trusted(b)

Runs(b, c) == Held(b, c) /\ Recomputed(b, c).pool # NoPool

ClaimedBefore(b, i) == \E j \in 1..(i - 1) : /\ Runs(b, b.checks[j])
                                             /\ ScopeOf(b.checks[j]) = ScopeOf(b.checks[i])

CheckIsNamed(b, i, named) ==
  LET c == b.checks[i]
  IN  /\ c.profile \in Profile =>
           \A k \in KeysHeld(c) :
              c.refs[k] \notin Listed(b) => <<"check-artifact-not-listed", k>> \in named
      /\ Held(b, c) =>
           /\ \A code \in Recomputed(b, c).reasons : <<code, i>> \in named
           /\ \/ Runs(b, c)
              \/ \E code \in Recomputed(b, c).reasons \cup {"artifact-unparsable"} :
                    <<code, i>> \in named
      /\ Runs(b, c) /\ V2(b) /\ (ScopeOf(c) = NoScope \/ ClaimedBefore(b, i)) =>
           <<"unscopable-check", i>> \in named

NothingIsHidden ==
  pc = "done" /\ bundle.manifest = "object" /\ bundle.todo = {} =>
    /\ SchemaFailures(bundle) \cup ArtifactFailures(bundle) \subseteq failures
    /\ \A i \in DOMAIN bundle.checks : CheckIsNamed(bundle, i, failures)
    /\ \A p \in Listed(bundle) \ Covered(bundle) : <<"evidence-unchecked", p>> \in failures

(* As the comment above the coverage rule has it (vac/verify.py:1972-1976) *)
(* an accepted bundle holds no artifact that no check reads.               *)
EveryArtifactIsRead ==
  Accepted => \A p \in Listed(bundle) :
                 \E i \in DOMAIN bundle.checks :
                    \E k \in KeysHeld(bundle.checks[i]) : bundle.checks[i].refs[k] = p

(* As the module's docstring has it (vac/verify.py:21-22), what is not     *)
(* clean ends in named reasons: no bundle makes the verifier raise.        *)
VerdictIsNamed == pc # "raised"

-----------------------------------------------------------------------------
(* The inductive invariant behind the theorems: what a phase relies on the *)
(* earlier ones for.  Contributed is what a check that went through gives. *)
Contributed(b, i) ==
  LET c == b.checks[i]
  IN  /\ c.profile \in Profile
      /\ \A k \in KeysHeld(c) : c.refs[k] \in Trusted(b)
      /\ Recomputed(b, c).pool # NoPool
      /\ Recomputed(b, c).reasons = {}

PhaseInv ==
  /\ pc \in {"read", "editing"} => failures = {}
  /\ pc \in {"read", "editing", "artifacts"} =>
        next = 1 /\ complete /\ pooled = {} /\ scopes = {}
  /\ pc \in {"artifacts", "checks"} => SchemaFailures(bundle) \subseteq failures
  /\ pc = "checks" => /\ ArtifactFailures(bundle) \subseteq failures
                      /\ trusted = Trusted(bundle)

LoopInv ==
  /\ complete => pooled = 1..(next - 1)
  /\ failures = {} => \A i \in 1..(next - 1) : Contributed(bundle, i)
  /\ complete /\ V2(bundle) =>
        /\ scopes = {ScopeOf(bundle.checks[i]) : i \in 1..(next - 1)}
        /\ NoScope \notin scopes
        /\ \A i, j \in 1..(next - 1) :
              ScopeOf(bundle.checks[i]) = ScopeOf(bundle.checks[j]) => i = j

VerdictInv ==
  Accepted => /\ SchemaFailures(bundle) = {} /\ ArtifactFailures(bundle) = {}
              /\ next = Len(bundle.checks) + 1
              /\ Listed(bundle) \subseteq Covered(bundle)
              /\ bundle.summary # NoSummary
              /\ SummaryOutruns(bundle, DOMAIN bundle.checks) = {}

IInv == TypeOK /\ IncompleteIsNamed /\ PhaseInv /\ LoopInv /\ VerdictInv
=============================================================================

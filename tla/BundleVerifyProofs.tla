------------------------- MODULE BundleVerifyProofs -------------------------
(* Theorems about BundleVerify, for every bundle and every recomputation.  *)
EXTENDS BundleVerify, SequenceTheorems, TLAPS

(* Taking one element out of a sequence leaves a sequence of the same set. *)
LEMMA WithoutType ==
  ASSUME NEW S, NEW s \in Seq(S), NEW i \in DOMAIN s
  PROVE  Without(s, i) \in Seq(S)
<1>1. i \in 1..Len(s) /\ Len(s) \in Nat
  OBVIOUS
<1>2. SubSeq(s, 1, i - 1) \in Seq(S)
  BY <1>1, SubSeqProperties
<1>3. SubSeq(s, i + 1, Len(s)) \in Seq(S)
  BY <1>1, SubSeqProperties
<1>. QED BY <1>2, <1>3, ConcatProperties DEF Without

(* A check that _coherence skips in silence was named by _validate_manifest.*)
LEMMA SkippedCheckIsNamed ==
  ASSUME NEW b \in Bundle, NEW i \in DOMAIN b.checks, b.checks[i].profile \notin Profile
  PROVE  SchemaFailures(b) # {}
<1>1. b.checks[i] \in Check
  BY DEF Bundle
<1>2. b.checks[i].profile \in {"unknown", "malformed"}
  BY <1>1 DEF Check
<1>3. CheckFailures(b, b.checks[i]) # {}
  BY <1>2 DEF CheckFailures, NameIf
<1>. QED BY <1>3 DEF SchemaFailures

(* A listed path that is not trusted was named: by the artifact phase, or,  *)
(* when its digest is no digest at all, by the schema phase before it.      *)
LEMMA GapIsNamed ==
  ASSUME NEW b \in Bundle, NEW p \in Listed(b) \ Trusted(b)
  PROVE  SchemaFailures(b) # {} \/ ArtifactFailures(b) # {}
<1>1. PICK i \in DOMAIN b.evidence : b.evidence[i].path = p /\ p \in Path
  BY DEF Listed, Entries
<1>2. b.evidence[i] \in Entries(b)
  BY <1>1 DEF Entries
<1>3. b.disk[p] \in Blob \cup {"absent", "symlink"}
  BY <1>1 DEF Bundle
<1>4. CASE b.disk[p] \notin Blob
  <2>1. EntryArtifactFailures(b, b.evidence[i]) # {}
    BY <1>1, <1>3, <1>4 DEF EntryArtifactFailures
  <2>. QED BY <1>2, <2>1 DEF ArtifactFailures
<1>5. CASE b.disk[p] \in Blob /\ b.evidence[i].sha = BadRef
  <2>1. EntryFailures(b, i) # {}
    BY <1>1, <1>5 DEF EntryFailures, NameIf
  <2>. QED BY <2>1 DEF SchemaFailures
<1>6. CASE b.disk[p] \in Blob /\ b.evidence[i].sha # BadRef
  <2>1. b.evidence[i].sha # b.disk[p]
    BY <1>1, <1>2, <1>6 DEF Trusted
  <2>2. b.disk[p] \notin {"absent", "symlink"}
    BY <1>6, NamesAssumption
  <2>3. EntryArtifactFailures(b, b.evidence[i]) # {}
    BY <1>1, <1>6, <2>1, <2>2 DEF EntryArtifactFailures, NameIf
  <2>. QED BY <1>2, <2>3 DEF ArtifactFailures
<1>. QED BY <1>4, <1>5, <1>6

-----------------------------------------------------------------------------
(* Type correctness.                                                        *)
LEMMA InitTypeOK == Init => TypeOK
<1>. SUFFICES ASSUME Init PROVE TypeOK
  OBVIOUS
<1>1. PICK b \in Bundle : Submitted(b) /\ prev = NoPrev
  BY DEF Init
<1>2. Len(b.checks) \in Nat
  BY <1>1 DEF Bundle
<1>. QED BY <1>1, <1>2 DEF Submitted, TypeOK, Phase

LEMMA StepTypeOK == TypeOK /\ [Next]_vars => TypeOK'
<1>. SUFFICES ASSUME TypeOK, [Next]_vars PROVE TypeOK'
  OBVIOUS
<1>0. /\ bundle.checks \in Seq(Check) /\ Len(bundle.checks) \in Nat
      /\ DOMAIN bundle.checks = 1..Len(bundle.checks)
  BY DEF TypeOK, Bundle
<1>1. CASE RefuseOutright
  BY <1>1 DEF RefuseOutright, DraftFailures, Stop, Unmoved, TypeOK, Phase
<1>2. CASE ValidateManifest
  BY <1>2 DEF ValidateManifest, Unmoved, TypeOK, Phase
<1>3. CASE VerifyArtifacts
  <2>1. Trusted(bundle) \subseteq Path
    BY DEF Trusted, Entries
  <2>. QED BY <1>3, <2>1 DEF VerifyArtifacts, TypeOK, Phase
<1>4. CASE CheckStep
  <2>. DEFINE c == bundle.checks[next]
  <2>1. /\ next \in 1..Len(bundle.checks) /\ next' = next + 1 /\ c \in Check
        /\ UNCHANGED <<bundle, pc, trusted, prev>>
    BY <1>0, <1>4 DEF CheckStep
  <2>2. next' \in 1..(Len(bundle.checks) + 1) /\ next \in 1..(next' - 1)
        /\ 1..(next - 1) \subseteq 1..(next' - 1)
    BY <1>0, <2>1
  <2>4. SkipCheck(c) \/ SkipUnusable(c) \/ RunCheck(c)
    BY <1>4 DEF CheckStep
  <2>5. CASE SkipCheck(c)
    BY <2>1, <2>2, <2>5 DEF SkipCheck, Skip, TypeOK
  <2>6. CASE SkipUnusable(c)
    BY <2>1, <2>2, <2>6 DEF SkipUnusable, Skip, TypeOK
  <2>7. CASE RunCheck(c)
    <3>3. complete' \in BOOLEAN /\ pooled' \subseteq pooled \cup {next}
      BY <2>7 DEF RunCheck, Reasons, Unscopable, Skip, TypeOK
    <3>4. ScopeOf(c) \in STRING \cup {NoScope}
      BY NamesAssumption DEF ScopeOf
    <3>5. scopes' \subseteq STRING
      BY <2>7, <3>4 DEF RunCheck, Reasons, Unscopable, Skip, TypeOK
    <3>. QED BY <2>1, <2>2, <3>3, <3>5 DEF TypeOK
  <2>. QED BY <2>4, <2>5, <2>6, <2>7
<1>5. CASE Finish
  BY <1>5 DEF Finish, Stop, Unmoved, SummaryOutruns, TypeOK, Phase
<1>6. CASE DeleteCheck
  <2>1. PICK i \in DOMAIN bundle.checks :
           /\ bundle' = [bundle EXCEPT !.checks = Without(@, i)]
           /\ prev' = [bundle |-> bundle, deleted |-> bundle.checks[i]]
    BY <1>6 DEF DeleteCheck
  <2>2. Without(bundle.checks, i) \in Seq(Check)
    BY <1>0, <2>1, WithoutType
  <2>3. bundle' \in Bundle
    BY <2>1, <2>2 DEF TypeOK, Bundle
  <2>4. prev' \in [bundle : Bundle, deleted : Check]
    BY <1>0, <2>1 DEF TypeOK
  <2>5. Len(bundle'.checks) \in Nat
    BY <2>3 DEF Bundle
  <2>. QED BY <1>6, <2>3, <2>4, <2>5 DEF DeleteCheck, TypeOK, Phase
<1>7. CASE DropEvidence
  <2>1. PICK i \in DOMAIN bundle.evidence :
           /\ bundle.evidence[i].path \in Path
           /\ bundle' = [bundle EXCEPT !.evidence = Without(@, i),
                                       !.disk[bundle.evidence[i].path] = "absent"]
    BY <1>7 DEF DropEvidence, Listed, Entries
  <2>. DEFINE Entry == [path : Path \cup {BadRef}, sha : Blob \cup {BadRef}]
  <2>2. bundle.evidence \in Seq(Entry)
    BY DEF TypeOK, Bundle
  <2>3. Without(bundle.evidence, i) \in Seq(Entry)
    BY <2>1, <2>2, WithoutType
  <2>4. bundle' \in Bundle /\ bundle'.checks = bundle.checks
    BY <2>1, <2>3 DEF TypeOK, Bundle
  <2>. QED BY <1>7, <2>4 DEF DropEvidence, TypeOK, Phase
<1>8. CASE Resubmit
  BY <1>8 DEF Resubmit, TypeOK, Phase
<1>9. CASE UNCHANGED vars
  BY <1>9 DEF vars, TypeOK, Phase
<1>. QED BY <1>1, <1>2, <1>3, <1>4, <1>5, <1>6, <1>7, <1>8, <1>9 DEF Next

THEOREM TypeCorrect == Spec => []TypeOK
BY InitTypeOK, StepTypeOK, PTL DEF Spec

-----------------------------------------------------------------------------
(* With nothing named by the first two phases, the directory is exactly the *)
(* listed evidence under its pins.                                          *)
LEMMA CleanIsClosed ==
  ASSUME NEW b \in Bundle, SchemaFailures(b) = {}, ArtifactFailures(b) = {}
  PROVE  /\ \A p \in Path : b.disk[p] # "absent" <=> p \in Listed(b)
         /\ \A i \in DOMAIN b.evidence :
               LET e == b.evidence[i]
               IN  e.path \in Path /\ e.sha \in Blob /\ b.disk[e.path] = e.sha
<1>1. ASSUME NEW i \in DOMAIN b.evidence
      PROVE  LET e == b.evidence[i]
             IN  e.path \in Path /\ e.sha \in Blob /\ b.disk[e.path] = e.sha
  <2>. DEFINE e == b.evidence[i]
  <2>1. EntryFailures(b, i) = {}
    BY <1>1 DEF SchemaFailures
  <2>2. e.path \in Path /\ e.sha # BadRef
    BY <2>1 DEF EntryFailures, NameIf
  <2>3. e \in Entries(b) /\ e.path \in Listed(b)
    BY <1>1, <2>2 DEF Entries, Listed
  <2>4. EntryArtifactFailures(b, e) = {}
    BY <2>3 DEF ArtifactFailures
  <2>5. b.disk[e.path] \in Blob \cup {"absent", "symlink"}
    BY <2>2 DEF Bundle
  <2>6. b.disk[e.path] \in Blob /\ b.disk[e.path] = e.sha
    BY <2>2, <2>4, <2>5 DEF EntryArtifactFailures, NameIf
  <2>. QED BY <2>2, <2>6
<1>2. ASSUME NEW p \in Path, p \in Listed(b)
      PROVE  b.disk[p] # "absent"
  <2>1. PICK i \in DOMAIN b.evidence : b.evidence[i].path = p
    BY <1>2 DEF Listed, Entries
  <2>. QED BY <1>1, <2>1, NamesAssumption
<1>3. ASSUME NEW p \in Path, p \notin Listed(b)
      PROVE  b.disk[p] = "absent"
  <2>1. /\ NameIf(b.disk[p] = "symlink", "unsafe-bundle", p) = {}
        /\ NameIf(b.disk[p] \in Blob, "unlisted-file", p) = {}
    BY <1>3 DEF ArtifactFailures, ClosureFailures
  <2>2. b.disk[p] \in Blob \cup {"absent", "symlink"}
    BY DEF Bundle
  <2>. QED BY <2>1, <2>2 DEF NameIf
<1>. QED BY <1>1, <1>2, <1>3

(* One turn of the loop keeps the invariant.                                *)
LEMMA CheckStepInv ==
  ASSUME IInv, TypeOK', CheckStep
  PROVE  IInv'
<1>. DEFINE c == bundle.checks[next]
<1>. USE DEF IInv
<1>1. /\ bundle \in Bundle /\ bundle.checks \in Seq(Check)
      /\ Len(bundle.checks) \in Nat /\ DOMAIN bundle.checks = 1..Len(bundle.checks)
      /\ next \in 1..Len(bundle.checks) /\ c \in Check
  BY DEF TypeOK, Bundle, CheckStep
<1>2. pc = "checks" /\ next' = next + 1 /\ UNCHANGED <<bundle, pc, trusted, prev>>
  BY DEF CheckStep
<1>3. 1..(next' - 1) = 1..(next - 1) \cup {next} /\ next \notin 1..(next - 1)
  BY <1>1, <1>2
<1>4. /\ SchemaFailures(bundle) \subseteq failures
      /\ ArtifactFailures(bundle) \subseteq failures /\ trusted = Trusted(bundle)
  BY <1>2 DEF PhaseInv
<1>5. ASSUME failures \subseteq failures'
      PROVE  PhaseInv' /\ VerdictInv'
  BY <1>2, <1>4, <1>5 DEF PhaseInv, VerdictInv, Accepted
<1>6. ASSUME NEW R, Skip(R), failures \cup R # {}
      PROVE  IInv'
  <2>1. /\ failures' = failures \cup R /\ complete' = FALSE
        /\ UNCHANGED <<pooled, scopes>>
    BY <1>6 DEF Skip
  <2>. QED BY <1>5, <1>6, <2>1 DEF IncompleteIsNamed, LoopInv
<1>7. CASE SkipCheck(c)
  <2>1. SchemaFailures(bundle) # {}
    BY <1>1, <1>7, SkippedCheckIsNamed DEF SkipCheck
  <2>. QED BY <1>4, <1>6, <1>7, <2>1 DEF SkipCheck
<1>8. CASE SkipUnusable(c)
  <2>. DEFINE R == {<<"check-artifact-not-listed", k>>
                       : k \in {x \in KeysHeld(c) : c.refs[x] \notin Listed(bundle)}}
  <2>1. PICK k \in KeysHeld(c) : c.refs[k] \notin trusted
    BY <1>8 DEF SkipUnusable, Usable
  <2>2. CASE c.refs[k] \notin Listed(bundle)
    <3>1. R # {}
      BY <2>1, <2>2
    <3>. QED BY <1>6, <1>8, <3>1 DEF SkipUnusable
  <2>3. CASE c.refs[k] \in Listed(bundle)
    <3>1. failures # {}
      BY <1>1, <1>4, <2>1, <2>3, GapIsNamed
    <3>. QED BY <1>6, <1>8, <3>1 DEF SkipUnusable
  <2>. QED BY <2>2, <2>3
<1>9. CASE RunCheck(c)
  <2>. DEFINE r     == Recomputed(bundle, c)
              named == {<<code, next>> : code \in r.reasons}
  <2>1. CASE r.pool = NoPool
    <3>1. Skip(named \cup NameIf(r.reasons = {}, "artifact-unparsable", next))
      BY <1>9, <2>1 DEF RunCheck, Reasons, Unscopable
    <3>2. named \cup NameIf(r.reasons = {}, "artifact-unparsable", next) # {}
      BY DEF NameIf
    <3>. QED BY <1>6, <3>1, <3>2
  <2>2. CASE r.pool # NoPool /\ V2(bundle) /\ ScopeOf(c) \in scopes \cup {NoScope}
    <3>1. Skip(named \cup {<<"unscopable-check", next>>})
      BY <1>9, <2>2 DEF RunCheck, Reasons, Unscopable
    <3>. QED BY <1>6, <3>1
  <2>3. CASE r.pool # NoPool /\ (V2(bundle) => ScopeOf(c) \notin scopes \cup {NoScope})
    <3>1. /\ c.profile \in Profile /\ Usable(c)
          /\ failures' = failures \cup named /\ pooled' = pooled \cup {next}
          /\ scopes' = IF V2(bundle) THEN scopes \cup {ScopeOf(c)} ELSE scopes
          /\ complete' = complete
      BY <1>9, <2>3 DEF RunCheck, Reasons, Unscopable
    <3>2. IncompleteIsNamed'
      BY <3>1 DEF IncompleteIsNamed
    <3>3. failures' = {} => Contributed(bundle, next)
      BY <1>4, <2>3, <3>1 DEF Contributed, Usable
    <3>4. LoopInv'
      <4>1. (complete => pooled = 1..(next - 1))'
        BY <1>3, <3>1 DEF LoopInv
      <4>2. (failures = {} => \A i \in 1..(next - 1) : Contributed(bundle, i))'
        BY <1>2, <1>3, <3>1, <3>3 DEF LoopInv, Contributed
      <4>3. ASSUME complete, V2(bundle)
            PROVE  (/\ scopes = {ScopeOf(bundle.checks[i]) : i \in 1..(next - 1)}
                    /\ NoScope \notin scopes
                    /\ \A i, j \in 1..(next - 1) :
                          ScopeOf(bundle.checks[i]) = ScopeOf(bundle.checks[j]) => i = j)'
        <5>1. /\ scopes = {ScopeOf(bundle.checks[i]) : i \in 1..(next - 1)}
              /\ NoScope \notin scopes
              /\ \A i, j \in 1..(next - 1) :
                    ScopeOf(bundle.checks[i]) = ScopeOf(bundle.checks[j]) => i = j
          BY <4>3 DEF LoopInv
        <5>2. ScopeOf(c) \notin scopes \cup {NoScope} /\ scopes' = scopes \cup {ScopeOf(c)}
          BY <2>3, <3>1, <4>3 DEF V2
        <5>3. bundle' = bundle /\ next' = next + 1 /\ next \in Nat /\ next >= 1 /\ c = bundle.checks[next]
          BY <1>2, <1>3
        <5>. DEFINE sc(i) == ScopeOf(bundle.checks[i])
        <5>4. \A i : sc(i)' = sc(i)
          BY <5>3 DEF ScopeOf
        <5>5. 1..(next' - 1) = (1..(next - 1)) \cup {next}
          BY <5>3
        <5>6. /\ scopes = {sc(i) : i \in 1..(next - 1)} /\ NoScope \notin scopes
              /\ \A i, j \in 1..(next - 1) : sc(i) = sc(j) => i = j
              /\ sc(next) \notin scopes /\ sc(next) # NoScope
              /\ scopes' = scopes \cup {sc(next)}
          BY <5>1, <5>2, <5>3
        <5>. HIDE DEF sc
        <5>7. scopes' = {sc(i) : i \in 1..(next' - 1)} /\ NoScope \notin scopes'
          BY <5>5, <5>6
        <5>8. \A i, j \in 1..(next' - 1) : sc(i) = sc(j) => i = j
          BY <5>5, <5>6
        <5>. QED BY <5>4, <5>7, <5>8 DEF sc
      <4>. QED BY <1>2, <3>1, <4>1, <4>2, <4>3 DEF LoopInv, V2
    <3>. QED BY <1>5, <3>1, <3>2, <3>4
  <2>. QED BY <2>1, <2>2, <2>3
<1>. QED BY <1>7, <1>8, <1>9 DEF CheckStep

(* The end of _coherence: whatever is unmentioned or unearned is named, and *)
(* with nothing named the pool is complete, so the summary was looked at.   *)
LEMMA FinishInv ==
  ASSUME IInv, TypeOK', Finish
  PROVE  IInv'
<1>. USE DEF IInv
<1>. DEFINE unread  == {<<"evidence-unchecked", p>> : p \in Listed(bundle) \ Covered(bundle)}
            unearned == IF complete /\ pooled # {} /\ bundle.summary # NoSummary
                        THEN SummaryOutruns(bundle, pooled) ELSE {}
<1>1. /\ pc = "checks" /\ next \notin DOMAIN bundle.checks /\ pc' = "done"
      /\ failures' = failures \cup unread \cup unearned
      /\ UNCHANGED <<bundle, trusted, next, complete, pooled, scopes, prev>>
  BY DEF Finish, Stop, Unmoved
<1>2. /\ bundle \in Bundle /\ Len(bundle.checks) \in Nat
      /\ DOMAIN bundle.checks = 1..Len(bundle.checks)
      /\ next = Len(bundle.checks) + 1
  BY <1>1 DEF TypeOK, Bundle
<1>3. IncompleteIsNamed' /\ PhaseInv'
  BY <1>1 DEF IncompleteIsNamed, PhaseInv
<1>4. LoopInv'
  BY <1>1 DEF LoopInv, Contributed
<1>5. ASSUME failures' = {}
      PROVE  /\ SchemaFailures(bundle) = {} /\ ArtifactFailures(bundle) = {}
             /\ Listed(bundle) \subseteq Covered(bundle)
             /\ bundle.summary # NoSummary
             /\ SummaryOutruns(bundle, DOMAIN bundle.checks) = {}
  <2>1. failures = {} /\ unread = {} /\ unearned = {}
    BY <1>1, <1>5
  <2>2. SchemaFailures(bundle) = {} /\ ArtifactFailures(bundle) = {}
    BY <1>1, <2>1 DEF PhaseInv
  <2>3. bundle.summary # NoSummary /\ bundle.checks # <<>>
    BY <2>2 DEF SchemaFailures, NameIf
  <2>4. complete /\ pooled = DOMAIN bundle.checks
    BY <1>2, <2>1 DEF IncompleteIsNamed, LoopInv
  <2>5. pooled # {}
    <3>1. Len(bundle.checks) # 0
      BY <1>2, <2>3, EmptySeq DEF Bundle
    <3>. QED BY <1>2, <2>4, <3>1
  <2>6. SummaryOutruns(bundle, DOMAIN bundle.checks) = {}
    BY <2>1, <2>3, <2>4, <2>5
  <2>. QED BY <2>1, <2>2, <2>3, <2>6
<1>6. VerdictInv'
  BY <1>1, <1>2, <1>5 DEF VerdictInv, Accepted
<1>. QED BY <1>3, <1>4, <1>6

-----------------------------------------------------------------------------
(* The inductive invariant.  One step per action; under CheckStep one per   *)
(* way a check ends.                                                        *)
THEOREM Inductive == Spec => []IInv
<1>1. Init => IInv
  <2>. SUFFICES ASSUME Init PROVE IInv
    OBVIOUS
  <2>1. TypeOK
    BY InitTypeOK
  <2>2. PICK b \in Bundle : Submitted(b) /\ prev = NoPrev
    BY DEF Init
  <2>. QED BY <2>1, <2>2 DEF Submitted, IInv, IncompleteIsNamed, PhaseInv, LoopInv,
                             VerdictInv, Accepted
<1>2. IInv /\ [Next]_vars => IInv'
  <2>. SUFFICES ASSUME IInv, [Next]_vars PROVE IInv'
    OBVIOUS
  <2>. USE DEF IInv
  <2>0. TypeOK'
    BY StepTypeOK
  <2>a. /\ bundle \in Bundle /\ bundle.checks \in Seq(Check)
        /\ Len(bundle.checks) \in Nat /\ DOMAIN bundle.checks = 1..Len(bundle.checks)
        /\ next \in 1..(Len(bundle.checks) + 1)
    BY DEF TypeOK, Bundle
  <2>1. CASE RefuseOutright
    <3>1. failures' # {} /\ pc' = "done"
      BY <2>1 DEF RefuseOutright, DraftFailures, Stop
    <3>2. bundle' = bundle /\ UNCHANGED <<trusted, next, complete, pooled, scopes>>
      BY <2>1 DEF RefuseOutright, DraftFailures, Unmoved
    <3>. QED BY <2>0, <2>1, <3>1, <3>2 DEF RefuseOutright, DraftFailures, IncompleteIsNamed, PhaseInv,
                                           LoopInv, VerdictInv, Accepted, Contributed
  <2>2. CASE ValidateManifest
    BY <2>0, <2>2 DEF ValidateManifest, Unmoved, IncompleteIsNamed, PhaseInv, LoopInv,
                      VerdictInv, Accepted, Contributed
  <2>3. CASE VerifyArtifacts
    BY <2>0, <2>3 DEF VerifyArtifacts, IncompleteIsNamed, PhaseInv, LoopInv,
                      VerdictInv, Accepted, Contributed
  <2>4. CASE CheckStep
    BY <2>0, <2>4, CheckStepInv
  <2>5. CASE Finish
    BY <2>0, <2>5, FinishInv
  <2>6. CASE DeleteCheck
    <3>1. /\ pc' = "editing" /\ failures' = {} /\ complete' /\ next' = 1
          /\ pooled' = {} /\ scopes' = {}
      BY <2>6 DEF DeleteCheck
    <3>. QED BY <2>0, <3>1 DEF IncompleteIsNamed, PhaseInv, LoopInv, VerdictInv, Accepted
  <2>7. CASE DropEvidence
    <3>1. /\ pc' = "editing" /\ failures' = {} /\ complete' /\ next' = 1
          /\ pooled' = {} /\ scopes' = {}
      BY <2>7 DEF DropEvidence, PhaseInv
    <3>. QED BY <2>0, <3>1 DEF IncompleteIsNamed, PhaseInv, LoopInv, VerdictInv, Accepted
  <2>8. CASE Resubmit
    BY <2>0, <2>8 DEF Resubmit, IncompleteIsNamed, PhaseInv, LoopInv, VerdictInv, Accepted
  <2>9. CASE UNCHANGED vars
    BY <2>0, <2>9 DEF vars, IncompleteIsNamed, PhaseInv, LoopInv, VerdictInv, Accepted,
                      Contributed
  <2>. QED BY <2>1, <2>2, <2>3, <2>4, <2>5, <2>6, <2>7, <2>8, <2>9 DEF Next
<1>. QED BY <1>1, <1>2, PTL DEF Spec

(* Giving up on a check never goes unnamed.                                 *)
THEOREM FailsClosed == Spec => []IncompleteIsNamed
<1>1. IInv => IncompleteIsNamed
  BY DEF IInv
<1>. QED BY <1>1, Inductive, PTL

(* An accepted directory is exactly its pinned evidence.                    *)
THEOREM AcceptedClosed == Spec => []AcceptedIsClosed
<1>1. IInv => AcceptedIsClosed
  <2>. SUFFICES ASSUME IInv, Accepted PROVE AcceptedIsClosed
    BY DEF AcceptedIsClosed
  <2>1. /\ bundle \in Bundle
        /\ SchemaFailures(bundle) = {} /\ ArtifactFailures(bundle) = {}
    BY DEF IInv, TypeOK, VerdictInv
  <2>. QED BY <2>1, CleanIsClosed DEF AcceptedIsClosed
<1>. QED BY <1>1, Inductive, PTL

(* An accepted bundle had every declared check recomputed.                  *)
THEOREM AcceptedRecomputed == Spec => []AcceptedIsRecomputed
<1>1. IInv => AcceptedIsRecomputed
  <2>. SUFFICES ASSUME IInv, Accepted PROVE AcceptedIsRecomputed
    BY DEF AcceptedIsRecomputed
  <2>1. /\ bundle \in Bundle /\ SchemaFailures(bundle) = {} /\ failures = {}
        /\ next = Len(bundle.checks) + 1
    BY DEF IInv, TypeOK, VerdictInv, Accepted
  <2>2. bundle.checks # <<>>
    BY <2>1 DEF SchemaFailures, NameIf
  <2>3. \A i \in DOMAIN bundle.checks : Contributed(bundle, i)
    BY <2>1 DEF IInv, LoopInv, Bundle
  <2>4. Trusted(bundle) \subseteq Listed(bundle)
    BY DEF Trusted, Listed
  <2>. QED BY <2>2, <2>3, <2>4 DEF AcceptedIsRecomputed, Contributed
<1>. QED BY <1>1, Inductive, PTL

(* What a check that contributed pooled is pairs of a field and a value.    *)
LEMMA PoolType ==
  ASSUME NEW b \in Bundle, NEW i \in DOMAIN b.checks, Contributed(b, i)
  PROVE  Recomputed(b, b.checks[i]).pool \subseteq STRING \X Nat
<1>. DEFINE c     == b.checks[i]
            opt   == {k \in OptionalRefs(c.profile) : c.refs[k] # NoRef}
            bytes == [k \in KeysHeld(c) |-> b.disk[c.refs[k]]]
<1>1. c.profile \in Profile /\ opt \in SUBSET OptionalRefs(c.profile)
  BY DEF Contributed
<1>2. KeysHeld(c) = RequiredKeys(c.profile) \cup opt
  BY DEF KeysHeld
<1>3. \A k \in KeysHeld(c) : b.disk[c.refs[k]] \in Blob
  BY DEF Contributed, Trusted
<1>4. bytes \in [RequiredKeys(c.profile) \cup opt -> Blob]
  BY <1>2, <1>3
<1>5. Recomputed(b, c) = Recompute(c.profile, bytes)
  BY DEF Recomputed
<1>6. Recompute(c.profile, bytes).pool # NoPool
  BY <1>5 DEF Contributed
<1>. HIDE DEF c, opt, bytes
<1>7. Recompute(c.profile, bytes).pool \subseteq STRING \X Nat
  BY <1>1, <1>4, <1>6, RecomputeAssumption
<1>. QED BY <1>5, <1>7 DEF c

(* Under v0.2 each number of an accepted summary is earned by one check.    *)
THEOREM AcceptedSummaryEarned == Spec => []AcceptedSummaryIsEarned
<1>1. IInv => AcceptedSummaryIsEarned
  <2>. SUFFICES ASSUME IInv, Accepted, V2(bundle), NEW leaf \in bundle.summary
                PROVE  /\ leaf.kind # "numeral"
                       /\ leaf.kind = "number" =>
                            \E i \in DOMAIN bundle.checks :
                               /\ \A j \in DOMAIN bundle.checks :
                                     ScopeOf(bundle.checks[j]) = leaf.path[1] <=> i = j
                               /\ Len(leaf.path) = 2
                               /\ <<leaf.path[2], leaf.value>>
                                     \in Recomputed(bundle, bundle.checks[i]).pool
    BY DEF AcceptedSummaryIsEarned
  <2>. DEFINE all == DOMAIN bundle.checks
  <2>1. /\ bundle \in Bundle /\ failures = {} /\ complete
        /\ all = 1..(next - 1) /\ SummaryOutruns(bundle, all) = {}
    BY DEF IInv, TypeOK, VerdictInv, Accepted, IncompleteIsNamed, Bundle
  <2>2. ~Outruns(bundle, all, leaf)
    BY <2>1 DEF SummaryOutruns
  <2>3. leaf.kind # "numeral"
    BY <2>2 DEF Outruns
  <2>4. ASSUME leaf.kind = "number"
        PROVE  \E i \in all :
                  /\ \A j \in all : ScopeOf(bundle.checks[j]) = leaf.path[1] <=> i = j
                  /\ Len(leaf.path) = 2
                  /\ <<leaf.path[2], leaf.value>>
                        \in Recomputed(bundle, bundle.checks[i]).pool
    <3>1. PICK x \in ByField(bundle, all) : x.key = leaf.path /\ x.value = leaf.value
      BY <2>2, <2>4 DEF Outruns, BindingKey
    <3>2. PICK i \in all : \E fv \in Recomputed(bundle, bundle.checks[i]).pool :
             x = [key |-> PoolKeys(bundle, bundle.checks[i], fv[1]), value |-> fv[2]]
      BY <3>1 DEF ByField
    <3>3. PICK fv \in Recomputed(bundle, bundle.checks[i]).pool :
             x = [key |-> PoolKeys(bundle, bundle.checks[i], fv[1]), value |-> fv[2]]
      BY <3>2
    <3>4. leaf.path = <<ScopeOf(bundle.checks[i]), fv[1]>> /\ leaf.value = fv[2]
      BY <3>1, <3>3 DEF PoolKeys
    <3>5. fv \in STRING \X Nat
      BY <2>1, <3>3, PoolType DEF IInv, LoopInv
    <3>6. fv = <<leaf.path[2], leaf.value>> /\ leaf.path[1] = ScopeOf(bundle.checks[i])
          /\ Len(leaf.path) = 2
      BY <3>4, <3>5
    <3>7. \A j \in all : ScopeOf(bundle.checks[j]) = ScopeOf(bundle.checks[i]) => i = j
      BY <2>1 DEF IInv, LoopInv
    <3>8. \A j \in all : ScopeOf(bundle.checks[j]) = leaf.path[1] <=> i = j
      BY <3>6, <3>7
    <3>. QED BY <3>3, <3>6, <3>8
  <2>. QED BY <2>3, <2>4
<1>. QED BY <1>1, Inductive, PTL

(* Under v0.1 a number whose key some check knows has a value of that key:  *)
(* the second tier is for the others.                                       *)
THEOREM KnownKeysHeld == Spec => []KnownKeyIsHeld
<1>1. IInv => KnownKeyIsHeld
  <2>. SUFFICES ASSUME IInv, Accepted, ~V2(bundle), NEW leaf \in bundle.summary,
                       leaf.kind = "number"
                PROVE  \/ <<leaf.path[Len(leaf.path)], leaf.value>> \in PoolsOf(bundle)
                       \/ \A fv \in PoolsOf(bundle) : fv[1] # leaf.path[Len(leaf.path)]
    BY DEF KnownKeyIsHeld
  <2>. DEFINE all == DOMAIN bundle.checks
              key == leaf.path[Len(leaf.path)]
              X(fv) == [key |-> <<fv[1]>>, value |-> fv[2]]
  <2>1. /\ bundle \in Bundle /\ failures = {}
        /\ all = 1..(next - 1) /\ SummaryOutruns(bundle, all) = {}
    BY DEF IInv, TypeOK, VerdictInv, Accepted, Bundle
  <2>2. ~Outruns(bundle, all, leaf)
    BY <2>1 DEF SummaryOutruns
  <2>3. ByField(bundle, all) = {X(fv) : fv \in PoolsOf(bundle)}
    BY DEF ByField, PoolsOf, PoolKeys
  <2>4. PoolsOf(bundle) \subseteq STRING \X Nat
    BY <2>1, PoolType DEF IInv, LoopInv, PoolsOf
  <2>. SUFFICES ASSUME NEW fv \in PoolsOf(bundle), fv[1] = key
                PROVE  <<key, leaf.value>> \in PoolsOf(bundle)
    OBVIOUS
  <2>5. X(fv) \in {x \in ByField(bundle, all) : x.key = BindingKey(bundle, leaf)}
    BY <2>3 DEF BindingKey
  <2>6. PICK x \in ByField(bundle, all) : x.key = <<key>> /\ x.value = leaf.value
    BY <2>2, <2>5 DEF Outruns, BindingKey
  <2>7. PICK gv \in PoolsOf(bundle) : <<gv[1]>> = <<key>> /\ gv[2] = leaf.value
    BY <2>3, <2>6
  <2>8. gv \in STRING \X Nat /\ gv[1] = key
    BY <2>4, <2>7
  <2>9. gv = <<key, leaf.value>>
    BY <2>7, <2>8
  <2>. QED BY <2>9
<1>. QED BY <1>1, Inductive, PTL

-----------------------------------------------------------------------------
(* No false refusal.                                                        *)

(* The first two phases find nothing in an honest bundle.                   *)
LEMMA HonestIsClosed ==
  ASSUME NEW b \in Bundle, Honest(b)
  PROVE  /\ SchemaFailures(b) = {} /\ ArtifactFailures(b) = {}
         /\ ~SchemaRaises(b) /\ ~CoherenceRaises(b)
         /\ Trusted(b) = Listed(b)
<1>. USE DEF Honest, HonestEvidence
<1>1. \A i \in DOMAIN b.evidence : EntryFailures(b, i) = {}
  <2>. SUFFICES ASSUME NEW i \in DOMAIN b.evidence PROVE EntryFailures(b, i) = {}
    OBVIOUS
  <2>1. b.evidence[i].path \in Path /\ b.evidence[i].sha \in Blob /\ b.evidence[i].sha # BadRef
    BY NamesAssumption
  <2>2. i \in Nat /\ 1..(i - 1) \subseteq DOMAIN b.evidence
    BY DEF Bundle
  <2>3. \A j \in 1..(i - 1) : b.evidence[j].path # b.evidence[i].path
    BY <2>2
  <2>. QED BY <2>1, <2>3 DEF EntryFailures, NameIf
<1>2. \A i \in DOMAIN b.checks : CheckFailures(b, b.checks[i]) = {}
  BY DEF HonestChecks, CheckFailures, NameIf, Profile, RequiredRefs
<1>3. SchemaFailures(b) = {}
  <2>1. UNION {EntryFailures(b, i) : i \in DOMAIN b.evidence} = {}
    BY <1>1
  <2>2. UNION {CheckFailures(b, b.checks[i]) : i \in DOMAIN b.checks} = {}
    <3>. DEFINE Named(i) == CheckFailures(b, b.checks[i])
    <3>1. \A i \in DOMAIN b.checks : Named(i) = {}
      BY <1>2
    <3>. HIDE DEF Named
    <3>2. UNION {Named(i) : i \in DOMAIN b.checks} = {}
      BY <3>1
    <3>. QED BY <3>2 DEF Named
  <2>3. /\ b.broken = {} /\ b.version # "other" /\ b.evidence # <<>> /\ b.results = "object"
        /\ b.summary # NoSummary /\ b.checks # <<>>
    BY DEF HonestChecks
  <2>. QED BY <2>1, <2>2, <2>3 DEF SchemaFailures, NameIf
<1>4. \A e \in Entries(b) : /\ e.path \in Path /\ e.sha \in Blob /\ b.disk[e.path] = e.sha
                            /\ e.sha # "symlink" /\ e.sha # "absent"
  BY NamesAssumption DEF Entries
<1>5. \A e \in Entries(b) : EntryArtifactFailures(b, e) = {}
  BY <1>4 DEF EntryArtifactFailures, NameIf
<1>6. ClosureFailures(b) = {}
  BY NamesAssumption DEF ClosureFailures, NameIf
<1>7. ArtifactFailures(b) = {}
  BY <1>5, <1>6 DEF ArtifactFailures
<1>8. Trusted(b) = Listed(b)
  BY <1>4 DEF Trusted, Listed
<1>. QED BY <1>3, <1>7, <1>8 DEF SchemaRaises, CoherenceRaises

(* Nor does the summary outrun its checks.                                  *)
LEMMA HonestIsEarned ==
  ASSUME NEW b \in Bundle, Honest(b)
  PROVE  SummaryOutruns(b, DOMAIN b.checks) = {}
<1>. DEFINE all == DOMAIN b.checks
<1>. SUFFICES ASSUME NEW leaf \in b.summary PROVE ~Outruns(b, all, leaf)
  BY DEF SummaryOutruns
<1>. SUFFICES ASSUME leaf.kind = "number" PROVE ~Outruns(b, all, leaf)
  BY DEF Honest, Outruns
<1>. DEFINE bound == {x \in ByField(b, all) : x.key = BindingKey(b, leaf)}
<1>1. HonestNumber(b, leaf)
  BY DEF Honest
<1>2. \A i \in all : \A fv \in Recomputed(b, b.checks[i]).pool :
        [key |-> PoolKeys(b, b.checks[i], fv[1]), value |-> fv[2]] \in ByField(b, all)
  BY DEF ByField
<1>3. CASE V2(b)
  <2>1. PICK i \in all, fv \in PoolsOf(b) :
          /\ fv \in Recomputed(b, b.checks[i]).pool
          /\ leaf.path = <<ScopeOf(b.checks[i]), fv[1]>> /\ leaf.value = fv[2]
    BY <1>1, <1>3 DEF HonestNumber
  <2>. DEFINE x == [key |-> PoolKeys(b, b.checks[i], fv[1]), value |-> fv[2]]
  <2>2. x \in ByField(b, all) /\ x.key = leaf.path /\ x.value = leaf.value
    BY <1>2, <1>3, <2>1 DEF PoolKeys
  <2>3. x \in bound /\ x.value = leaf.value
    BY <1>3, <2>2 DEF BindingKey
  <2>. QED BY <2>3 DEF Outruns
<1>4. CASE ~V2(b)
  <2>. DEFINE key == leaf.path[Len(leaf.path)]
              X(fv) == [key |-> <<fv[1]>>, value |-> fv[2]]
  <2>1. ByField(b, all) = {X(fv) : fv \in PoolsOf(b)}
    BY <1>4 DEF ByField, PoolsOf, PoolKeys
  <2>2. CASE <<key, leaf.value>> \in PoolsOf(b)
    <3>1. X(<<key, leaf.value>>) \in bound
      BY <1>4, <2>1, <2>2 DEF BindingKey
    <3>2. X(<<key, leaf.value>>).value = leaf.value
      OBVIOUS
    <3>. QED BY <3>1, <3>2 DEF Outruns
  <2>3. CASE (\A fv \in PoolsOf(b) : fv[1] # key) /\ \E fv \in PoolsOf(b) : fv[2] = leaf.value
    <3>1. bound = {}
      BY <1>4, <2>1, <2>3 DEF BindingKey
    <3>2. \E x \in ByField(b, all) : x.value = leaf.value
      <4>1. PICK fv \in PoolsOf(b) : fv[2] = leaf.value
        BY <2>3
      <4>2. X(fv) \in ByField(b, all) /\ X(fv).value = leaf.value
        BY <2>1, <4>1
      <4>. QED BY <4>2
    <3>. QED BY <1>4, <3>1, <3>2 DEF Outruns
  <2>. QED BY <1>1, <1>4, <2>2, <2>3 DEF HonestNumber
<1>. QED BY <1>3, <1>4

(* Nothing is ever named of an honest bundle: of each phase the premises    *)
(* under which it names nothing are what the earlier ones left (IInv).      *)
HonestInv == Honest(bundle) => failures = {} /\ pc # "raised"

LEMMA HonestSteps ==
  /\ Init => HonestInv
  /\ IInv /\ HonestInv /\ [Next]_vars => HonestInv'
<1>1. Init => HonestInv
  BY DEF Init, Submitted, HonestInv
<1>2. IInv /\ HonestInv /\ [Next]_vars => HonestInv'
  <2>. SUFFICES ASSUME IInv, HonestInv, [Next]_vars, Honest(bundle')
                PROVE  failures' = {} /\ pc' # "raised"
    BY DEF HonestInv
  <2>1. CASE DeleteCheck
    BY <2>1 DEF DeleteCheck
  <2>2. CASE DropEvidence
    BY <2>2 DEF DropEvidence, IInv, PhaseInv
  <2>. SUFFICES ASSUME bundle' = bundle, ~DeleteCheck, ~DropEvidence
                PROVE  failures' = {} /\ pc' # "raised"
    BY <2>1, <2>2 DEF Next, vars, RefuseOutright, ValidateManifest, VerifyArtifacts, CheckStep,
                      Finish, Resubmit, Unmoved
  <2>3. /\ bundle \in Bundle /\ Honest(bundle) /\ failures = {} /\ pc # "raised" /\ complete
        /\ bundle.checks \in Seq(Check) /\ next \in 1..(Len(bundle.checks) + 1)
    BY DEF HonestInv, IInv, TypeOK, IncompleteIsNamed, Bundle
  <2>4. /\ SchemaFailures(bundle) = {} /\ ArtifactFailures(bundle) = {}
        /\ ~SchemaRaises(bundle) /\ ~CoherenceRaises(bundle)
        /\ Trusted(bundle) = Listed(bundle)
    BY <2>3, HonestIsClosed
  <2>5. ~RefuseOutright
    BY <2>3 DEF RefuseOutright, Honest
  <2>6. CASE ValidateManifest
    BY <2>3, <2>4, <2>6 DEF ValidateManifest
  <2>7. CASE VerifyArtifacts
    BY <2>3, <2>4, <2>7 DEF VerifyArtifacts
  <2>8. CASE CheckStep
    <3>. DEFINE c == bundle.checks[next]
                r == Recomputed(bundle, c)
    <3>1. pc = "checks" /\ next \in DOMAIN bundle.checks /\ pc' = pc
      BY <2>8 DEF CheckStep
    <3>2. /\ c.profile \in Profile /\ \A k \in KeysHeld(c) : c.refs[k] \in Listed(bundle)
          /\ r.reasons = {} /\ r.pool # NoPool
          /\ V2(bundle) => ScopeOf(c) # NoScope
          /\ V2(bundle) => \A i \in DOMAIN bundle.checks :
                             ScopeOf(bundle.checks[i]) = ScopeOf(c) => i = next
      BY <2>3, <3>1 DEF Honest, HonestChecks
    <3>3. Usable(c)
      BY <2>4, <3>1, <3>2 DEF Usable, IInv, PhaseInv
    <3>4. ~Unscopable(c)
      <4>. SUFFICES ASSUME V2(bundle), ScopeOf(c) \in scopes PROVE FALSE
        BY <3>2 DEF Unscopable
      <4>1. PICK i \in 1..(next - 1) : ScopeOf(c) = ScopeOf(bundle.checks[i])
        BY <2>3 DEF IInv, LoopInv
      <4>2. i \in DOMAIN bundle.checks /\ i # next
        BY <2>3, <3>1
      <4>. QED BY <3>2, <4>1, <4>2
    <3>5. RunCheck(c)
      BY <2>8, <3>2, <3>3 DEF CheckStep, SkipCheck, SkipUnusable
    <3>6. failures' = failures \cup Reasons(r)
      BY <3>2, <3>4, <3>5 DEF RunCheck
    <3>7. Reasons(r) = {}
      BY <3>2 DEF Reasons
    <3>. QED BY <2>3, <3>1, <3>6, <3>7
  <2>9. CASE Finish
    <3>1. next \notin DOMAIN bundle.checks /\ pc' = "done"
      BY <2>9 DEF Finish, Stop
    <3>2. pooled = DOMAIN bundle.checks
      BY <2>3, <3>1 DEF IInv, LoopInv
    <3>3. Listed(bundle) \ Covered(bundle) = {} /\ SummaryOutruns(bundle, pooled) = {}
      BY <2>3, <3>2, HonestIsEarned DEF Honest, HonestEvidence
    <3>. QED BY <2>3, <2>9, <3>1, <3>3 DEF Finish, Stop
  <2>10. CASE Resubmit
    BY <2>3, <2>10 DEF Resubmit
  <2>11. CASE UNCHANGED vars
    BY <2>3, <2>11 DEF vars
  <2>. QED BY <2>5, <2>6, <2>7, <2>8, <2>9, <2>10, <2>11 DEF Next
<1>. QED BY <1>1, <1>2

(* No honest bundle is refused, and none makes the verifier raise.          *)
THEOREM HonestAccepted == Spec => []HonestIsAccepted
<1>1. Init => HonestInv
  BY HonestSteps
<1>2. IInv /\ HonestInv /\ [Next]_vars => HonestInv'
  BY HonestSteps
<1>3. HonestInv => HonestIsAccepted
  BY DEF HonestInv, HonestIsAccepted
<1>. QED BY <1>1, <1>2, <1>3, Inductive, PTL DEF Spec

-----------------------------------------------------------------------------
(* Nothing is hidden.                                                       *)

(* What has been looked at so far is named, and each scope that a check     *)
(* could claim is claimed.                                                  *)
LoopNamed ==
  /\ bundle.manifest = "object" /\ bundle.todo = {}
  /\ SchemaFailures(bundle) \cup ArtifactFailures(bundle) \subseteq failures
  /\ \A i \in 1..(next - 1) : CheckIsNamed(bundle, i, failures)
  /\ V2(bundle) => \A i \in 1..(next - 1) :
                     Runs(bundle, bundle.checks[i]) =>
                        ScopeOf(bundle.checks[i]) \in scopes \cup {NoScope}

NamedSoFar ==
  /\ pc = "artifacts" => bundle.manifest = "object" /\ bundle.todo = {}
  /\ pc = "checks" => LoopNamed
  /\ NothingIsHidden

(* More reasons hide nothing that was named.                                *)
LEMMA NamedStays ==
  ASSUME NEW b, NEW i, NEW named, CheckIsNamed(b, i, named),
         NEW more, named \subseteq more
  PROVE  CheckIsNamed(b, i, more)
<1>. DEFINE c == b.checks[i]
            r == Recomputed(b, c)
<1>. HIDE DEF c, r
<1>. QED BY DEF CheckIsNamed, c, r

(* A turn of the loop names what its own check earns.                       *)
LEMMA TurnIsNamed ==
  ASSUME IInv, LoopNamed, CheckStep
  PROVE  /\ CheckIsNamed(bundle, next, failures')
         /\ Runs(bundle, bundle.checks[next]) /\ V2(bundle) =>
               ScopeOf(bundle.checks[next]) \in scopes' \cup {NoScope}
         /\ failures \subseteq failures' /\ scopes \subseteq scopes'
<1>. DEFINE c == bundle.checks[next]
            r == Recomputed(bundle, c)
            Turn == /\ CheckIsNamed(bundle, next, failures')
                    /\ Runs(bundle, c) /\ V2(bundle) => ScopeOf(c) \in scopes' \cup {NoScope}
                    /\ failures \subseteq failures' /\ scopes \subseteq scopes'
<1>. SUFFICES Turn
  OBVIOUS
<1>1. next \in DOMAIN bundle.checks /\ trusted = Trusted(bundle)
      /\ next \in Nat /\ bundle \in Bundle
  BY DEF CheckStep, IInv, PhaseInv, TypeOK
<1>2. Held(bundle, c) <=> c.profile \in Profile /\ Usable(c)
  BY <1>1 DEF Usable, Held
<1>3. Runs(bundle, c) <=> Held(bundle, c) /\ r.pool # NoPool
  BY DEF Runs
<1>4. Trusted(bundle) \subseteq Listed(bundle)
  BY DEF Trusted, Listed
<1>5. ClaimedBefore(bundle, next) /\ V2(bundle) => ScopeOf(c) \in scopes \cup {NoScope}
  BY DEF ClaimedBefore, LoopNamed
<1>6. SkipCheck(c) \/ SkipUnusable(c) \/ RunCheck(c)
  BY DEF CheckStep
<1>7. CASE SkipCheck(c)
  <2>1. c.profile \notin Profile /\ failures' = failures /\ scopes' = scopes
    BY <1>7 DEF SkipCheck, Skip
  <2>. QED BY <1>2, <1>3, <2>1 DEF CheckIsNamed
<1>8. CASE SkipUnusable(c)
  <2>1. /\ ~Held(bundle, c) /\ scopes' = scopes
        /\ failures' = failures \cup {<<"check-artifact-not-listed", k>>
               : k \in {x \in KeysHeld(c) : c.refs[x] \notin Listed(bundle)}}
    BY <1>2, <1>8 DEF SkipUnusable, Skip
  <2>. QED BY <1>3, <2>1 DEF CheckIsNamed
<1>9. CASE RunCheck(c)
  <2>1. Held(bundle, c) /\ \A k \in KeysHeld(c) : c.refs[k] \in Listed(bundle)
    BY <1>2, <1>4, <1>9 DEF RunCheck, Held
  <2>. HIDE DEF c, r
  <2>2. CheckIsNamed(bundle, next, failures') <=>
          /\ \A code \in r.reasons : <<code, next>> \in failures'
          /\ \/ r.pool # NoPool
             \/ \E code \in r.reasons \cup {"artifact-unparsable"} : <<code, next>> \in failures'
          /\ r.pool # NoPool /\ V2(bundle)
                /\ (ScopeOf(c) = NoScope \/ ClaimedBefore(bundle, next)) =>
               <<"unscopable-check", next>> \in failures'
    BY <1>3, <2>1 DEF CheckIsNamed, c, r
  <2>3. \/ /\ r.pool = NoPool
           /\ Skip(Reasons(r) \cup NameIf(r.reasons = {}, "artifact-unparsable", next))
        \/ /\ r.pool # NoPool /\ Unscopable(c)
           /\ Skip(Reasons(r) \cup {<<"unscopable-check", next>>})
        \/ /\ r.pool # NoPool /\ ~Unscopable(c)
           /\ failures' = failures \cup Reasons(r)
           /\ scopes' = IF V2(bundle) THEN scopes \cup {ScopeOf(c)} ELSE scopes
    BY <1>9 DEF RunCheck, c, r
  <2>4. \A code \in r.reasons : <<code, next>> \in Reasons(r)
    BY DEF Reasons
  <2>5. CASE r.pool = NoPool /\ Skip(Reasons(r) \cup NameIf(r.reasons = {}, "artifact-unparsable", next))
    BY <1>3, <2>2, <2>4, <2>5 DEF Skip, NameIf
  <2>6. CASE r.pool # NoPool /\ Unscopable(c) /\ Skip(Reasons(r) \cup {<<"unscopable-check", next>>})
    BY <2>2, <2>4, <2>6 DEF Skip, Unscopable
  <2>7. CASE /\ r.pool # NoPool /\ ~Unscopable(c)
             /\ failures' = failures \cup Reasons(r)
             /\ scopes' = IF V2(bundle) THEN scopes \cup {ScopeOf(c)} ELSE scopes
    BY <1>5, <2>2, <2>4, <2>7 DEF Unscopable
  <2>. QED BY <2>3, <2>5, <2>6, <2>7
<1>. QED BY <1>6, <1>7, <1>8, <1>9

(* It holds at first, and every step keeps it.                             *)
LEMMA NamedSteps ==
  /\ Init => NamedSoFar
  /\ IInv /\ NamedSoFar /\ [Next]_vars => NamedSoFar'
<1>1. Init => NamedSoFar
  BY DEF Init, Submitted, NamedSoFar, NothingIsHidden
<1>2. IInv /\ NamedSoFar /\ [Next]_vars => NamedSoFar'
  <2>. SUFFICES ASSUME IInv, NamedSoFar, [Next]_vars PROVE NamedSoFar'
    OBVIOUS
  <2>1. CASE RefuseOutright
    <3>1. bundle' = bundle /\ pc' = "done"
          /\ ~(bundle.manifest = "object" /\ bundle.todo = {})
      BY <2>1 DEF RefuseOutright, Stop, Unmoved
    <3>. QED BY <3>1 DEF NamedSoFar, NothingIsHidden
  <2>2. CASE ValidateManifest
    BY <2>2 DEF ValidateManifest, Unmoved, NamedSoFar, NothingIsHidden
  <2>3. CASE VerifyArtifacts
    <3>1. /\ bundle' = bundle /\ next' = 1 /\ pc' \in {"raised", "checks"}
          /\ bundle.manifest = "object" /\ bundle.todo = {}
          /\ SchemaFailures(bundle) \cup ArtifactFailures(bundle) \subseteq failures'
      BY <2>3 DEF VerifyArtifacts, NamedSoFar, IInv, PhaseInv
    <3>. QED BY <3>1 DEF NamedSoFar, LoopNamed, NothingIsHidden
  <2>4. CASE CheckStep
    <3>1. /\ bundle' = bundle /\ pc = "checks" /\ pc' = "checks" /\ next' = next + 1
          /\ next \in Nat /\ LoopNamed
      BY <2>4 DEF CheckStep, NamedSoFar, IInv, TypeOK
    <3>2. /\ CheckIsNamed(bundle, next, failures')
          /\ Runs(bundle, bundle.checks[next]) /\ V2(bundle) =>
                ScopeOf(bundle.checks[next]) \in scopes' \cup {NoScope}
          /\ failures \subseteq failures' /\ scopes \subseteq scopes'
      BY <2>4, <3>1, TurnIsNamed
    <3>3. \A i \in 1..(next' - 1) : i \in 1..(next - 1) \/ i = next
      BY <3>1
    <3>4. \A i \in 1..(next' - 1) : CheckIsNamed(bundle, i, failures')
      BY <3>1, <3>2, <3>3, NamedStays DEF LoopNamed
    <3>5. V2(bundle) => \A i \in 1..(next' - 1) :
                          Runs(bundle, bundle.checks[i]) =>
                             ScopeOf(bundle.checks[i]) \in scopes' \cup {NoScope}
      BY <3>1, <3>2, <3>3 DEF LoopNamed
    <3>6. SchemaFailures(bundle) \cup ArtifactFailures(bundle) \subseteq failures'
      BY <3>1, <3>2 DEF LoopNamed
    <3>7. LoopNamed'
      BY <3>1, <3>4, <3>5, <3>6 DEF LoopNamed
    <3>. QED BY <3>1, <3>7 DEF NamedSoFar, NothingIsHidden
  <2>5. CASE Finish
    <3>1. /\ bundle' = bundle /\ pc = "checks" /\ pc' = "done" /\ LoopNamed
          /\ failures \subseteq failures'
          /\ \A p \in Listed(bundle) \ Covered(bundle) :
                <<"evidence-unchecked", p>> \in failures'
      BY <2>5 DEF Finish, Stop, Unmoved, NamedSoFar
    <3>2. DOMAIN bundle.checks \subseteq 1..(next - 1)
      BY <2>5 DEF Finish, IInv, TypeOK, Bundle
    <3>3. \A i \in DOMAIN bundle.checks : CheckIsNamed(bundle, i, failures')
      BY <3>1, <3>2, NamedStays DEF LoopNamed
    <3>4. SchemaFailures(bundle) \cup ArtifactFailures(bundle) \subseteq failures'
      BY <3>1 DEF LoopNamed
    <3>5. NothingIsHidden'
      BY <3>1, <3>3, <3>4 DEF NothingIsHidden
    <3>. QED BY <3>1, <3>5 DEF NamedSoFar
  <2>6. CASE DeleteCheck \/ DropEvidence \/ Resubmit
    BY <2>6 DEF DeleteCheck, DropEvidence, Resubmit, NamedSoFar, NothingIsHidden
  <2>7. CASE UNCHANGED vars
    <3>1. /\ bundle' = bundle /\ pc' = pc /\ failures' = failures /\ next' = next
          /\ scopes' = scopes
      BY <2>7 DEF vars
    <3>. QED BY <3>1 DEF NamedSoFar, LoopNamed, NothingIsHidden
  <2>. QED BY <2>1, <2>2, <2>3, <2>4, <2>5, <2>6, <2>7 DEF Next
<1>. QED BY <1>1, <1>2

(* The verdict names everything, whatever failed first.                     *)
THEOREM AllIsNamed == Spec => []NothingIsHidden
<1>1. Init => NamedSoFar
  BY NamedSteps
<1>2. IInv /\ NamedSoFar /\ [Next]_vars => NamedSoFar'
  BY NamedSteps
<1>3. NamedSoFar => NothingIsHidden
  BY DEF NamedSoFar
<1>. QED BY <1>1, <1>2, <1>3, Inductive, PTL DEF Spec

-----------------------------------------------------------------------------
(* A check that is left out.                                                *)

(* The checks that are left claim other scopes: those of a bundle that was  *)
(* accepted are all different.                                              *)
ScopeIsGone ==
  prev # NoPrev /\ V2(bundle) =>
    \A i \in DOMAIN bundle.checks : ScopeOf(bundle.checks[i]) # ScopeOf(prev.deleted)

(* Where one element is taken out, the others stay.                         *)
LEMMA OthersStay ==
  ASSUME NEW S, NEW s \in Seq(S), NEW i \in DOMAIN s, NEW j \in DOMAIN Without(s, i)
  PROVE  \E k \in DOMAIN s \ {i} : Without(s, i)[j] = s[k]
<1>. DEFINE front == SubSeq(s, 1, i - 1)
            back  == SubSeq(s, i + 1, Len(s))
<1>1. i \in 1..Len(s) /\ Len(s) \in Nat /\ DOMAIN s = 1..Len(s)
  OBVIOUS
<1>2. /\ front \in Seq(S) /\ Len(front) = i - 1
      /\ \A k \in 1..(i - 1) : front[k] = s[k]
  BY <1>1
<1>3. /\ back \in Seq(S) /\ Len(back) = Len(s) - i
      /\ \A k \in 1..(Len(s) - i) : back[k] = s[i + k]
  BY <1>1
<1>. HIDE DEF front, back
<1>4. /\ front \o back \in Seq(S) /\ Len(front \o back) = Len(front) + Len(back)
      /\ \A k \in 1..(Len(front) + Len(back)) :
           (front \o back)[k] = IF k <= Len(front) THEN front[k] ELSE back[k - Len(front)]
  BY <1>2, <1>3, ConcatProperties
<1>5. Without(s, i) = front \o back
  BY DEF Without, front, back
<1>6. j \in 1..(Len(s) - 1) /\ Len(front) + Len(back) = Len(s) - 1
  BY <1>1, <1>2, <1>3, <1>4, <1>5
<1>7. CASE j <= i - 1
  <2>1. (front \o back)[j] = s[j] /\ j \in DOMAIN s \ {i}
    BY <1>1, <1>2, <1>4, <1>6, <1>7
  <2>. QED BY <1>5, <2>1
<1>8. CASE ~(j <= i - 1)
  <2>1. j - (i - 1) \in 1..(Len(s) - i) /\ i + (j - (i - 1)) = j + 1
    BY <1>1, <1>6, <1>8
  <2>2. (front \o back)[j] = back[j - (i - 1)]
    BY <1>2, <1>4, <1>6, <1>8
  <2>3. (front \o back)[j] = s[j + 1] /\ j + 1 \in DOMAIN s \ {i}
    BY <1>1, <1>3, <1>6, <1>8, <2>1, <2>2
  <2>. QED BY <1>5, <2>3
<1>. QED BY <1>7, <1>8

LEMMA ScopeGoneSteps ==
  /\ Init => ScopeIsGone
  /\ IInv /\ ScopeIsGone /\ [Next]_vars => ScopeIsGone'
<1>1. Init => ScopeIsGone
  BY DEF Init, ScopeIsGone
<1>2. ASSUME ScopeIsGone, bundle'.checks = bundle.checks, bundle'.version = bundle.version, prev' = prev
      PROVE  ScopeIsGone'
  BY <1>2 DEF ScopeIsGone, V2, ScopeOf
<1>3. ASSUME IInv, DeleteCheck PROVE ScopeIsGone'
  <2>1. PICK i \in DOMAIN bundle.checks :
          /\ bundle' = [bundle EXCEPT !.checks = Without(bundle.checks, i)]
          /\ prev' = [bundle |-> bundle, deleted |-> bundle.checks[i]]
    BY <1>3 DEF DeleteCheck
  <2>2. /\ bundle \in Bundle /\ bundle.checks \in Seq(Check)
        /\ bundle'.checks = Without(bundle.checks, i) /\ bundle'.version = bundle.version
        /\ prev'.deleted = bundle.checks[i]
    BY <1>3, <2>1 DEF IInv, TypeOK, Bundle
  <2>3. Accepted /\ complete /\ next = Len(bundle.checks) + 1
    BY <1>3 DEF DeleteCheck, Accepted, IInv, IncompleteIsNamed, VerdictInv
  <2>4. V2(bundle) => \A j, k \in DOMAIN bundle.checks :
                         ScopeOf(bundle.checks[j]) = ScopeOf(bundle.checks[k]) => j = k
    BY <1>3, <2>2, <2>3 DEF IInv, LoopInv
  <2>. SUFFICES ASSUME V2(bundle), NEW j \in DOMAIN Without(bundle.checks, i)
                PROVE  ScopeOf(Without(bundle.checks, i)[j]) # ScopeOf(bundle.checks[i])
    BY <2>2 DEF ScopeIsGone, V2, ScopeOf
  <2>5. PICK k \in DOMAIN bundle.checks \ {i} : Without(bundle.checks, i)[j] = bundle.checks[k]
    BY <2>2, OthersStay
  <2>. QED BY <2>4, <2>5
<1>4. ASSUME IInv, ScopeIsGone, DropEvidence PROVE ScopeIsGone'
  <2>1. bundle'.checks = bundle.checks /\ bundle'.version = bundle.version /\ prev' = prev
    BY <1>4 DEF DropEvidence, IInv, TypeOK, Bundle
  <2>. QED BY <1>2, <1>4, <2>1
<1>5. ASSUME ScopeIsGone, UNCHANGED <<bundle, prev>> PROVE ScopeIsGone'
  BY <1>2, <1>5
<1>. QED BY <1>1, <1>3, <1>4, <1>5
         DEF Next, vars, RefuseOutright, ValidateManifest, VerifyArtifacts, CheckStep, Finish,
             Resubmit, Unmoved

(* Deleting a check costs the numbers of its scope.                         *)
THEOREM DeletedChecksCost == Spec => []DeletedCheckCosts
<1>1. Init => ScopeIsGone
  BY ScopeGoneSteps
<1>2. IInv /\ ScopeIsGone /\ [Next]_vars => ScopeIsGone'
  BY ScopeGoneSteps
<1>3. ScopeIsGone /\ AcceptedSummaryIsEarned => DeletedCheckCosts
  BY DEF ScopeIsGone, AcceptedSummaryIsEarned, DeletedCheckCosts
<1>. QED BY <1>1, <1>2, <1>3, Inductive, AcceptedSummaryEarned, PTL DEF Spec
=============================================================================

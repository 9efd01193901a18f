--------------------------- MODULE RegistryProofs ---------------------------
(* Theorems about Registry, for any issuers, trees, runs, edits and bounds. *)
EXTENDS Registry, SequenceTheorems, TLAPS

(* The documents the scan builds are documents: an entry of a bundle that   *)
(* was not refused has a type.                                              *)
LEMMA EntryTyped ==
  ASSUME NEW repo \in Repo, NEW dir \in Dir, NEW files \in Files,
         NEW pinned \in Commit \cup {MutableRef}, Refusal(repo, files) = "none"
  PROVE  Entry(repo, dir, files, pinned) \in EntryType
<1>1. files[Manifest] \in DOMAIN Reads
  BY DEF Refusal, Verifies
<1>2. Reads[files[Manifest]].summary \in Nat
  BY <1>1, RegistryAssumption
<1>. QED BY <1>2 DEF Entry, EntryType

(* A hand edit leaves an entry an entry.                                    *)
LEMMA EditedTyped ==
  ASSUME NEW e \in EntryType, NEW kind \in Edit
  PROVE  Edited(e, kind) \in EntryType
<1>1. e.files \in Files /\ e.summary + 1 \in Nat
  BY DEF EntryType
<1>2. \A x : [e.files EXCEPT ![x] = NoFile] \in Files
  BY <1>1 DEF Files
<1>3. kind \in {"mark", "url", "repin", "drop", "summary"}
  BY RegistryAssumption
<1>4. CASE kind = "drop"
  BY <1>2, <1>4 DEF Edited, EntryType
<1>5. CASE kind # "drop"
  BY <1>1, <1>3, <1>5 DEF Edited, EntryType
<1>. QED BY <1>4, <1>5

(* A record that is not an entry is a pending record.                       *)
LEMMA PendingTyped ==
  ASSUME NEW repo \in Repo, NEW dir \in Dir \cup {Promised}, NEW reason \in Reason
  PROVE  Pending(repo, dir, reason) \in [repo : Repo, dir : Dir \cup {Promised}, reason : Reason]
BY DEF Pending

(* Every reason of a refusal is a reason a pending record may give.         *)
LEMMA RefusalTyped == ASSUME NEW repo, NEW files
                      PROVE  Refusal(repo, files) \in Reason \cup {"none"}
BY DEF Refusal, Reason
-----------------------------------------------------------------------------
(* Type correctness of the issuers, the scan, the maintainers and the runs. *)
LEMMA InitTypeOK == Init => TypeOK
<1>. SUFFICES ASSUME Init PROVE TypeOK
  OBVIOUS
<1>1. Nothing \in Document
  BY DEF Nothing, Document
<1>2. Empty \in Files
  BY DEF Empty, Files
<1>3. budget \in [{"moves", "edits", "commits"} -> Nat]
  BY RegistryAssumption DEF Init
<1>4. job \in [Job -> [pc : {"idle", "check", "deploy"}, doc : Document,
                       todo : SUBSET EntryType, ok : BOOLEAN]]
  BY <1>1 DEF Init
<1>5. tracked \subseteq Repo \X Commit /\ served \subseteq Repo \X Commit
  BY RegistryAssumption DEF Init
<1>. QED BY <1>1, <1>2, <1>3, <1>4, <1>5 DEF Init, TypeOK, Promised

(* The steps of the scan.                                                   *)
LEMMA ScanTypeOK == ASSUME TypeOK, StartScan \/ ScanStep PROVE TypeOK'
<1>. USE RegistryAssumption
<1>0. /\ Nothing \in Document /\ Empty \in Files
      /\ Reset => /\ pc' = "idle" /\ turn' = 1 /\ sha' = MutableRef /\ listing' = {}
                  /\ dirs' = {} /\ here' = Promised /\ td' = Empty /\ found' = Nothing
  BY DEF Nothing, Document, Empty, Files, Reset
<1>a. ASSUME pc # "idle" PROVE Repository \in Repo
  BY <1>a DEF TypeOK, Repository
<1>b. ASSUME Reset, file' \in Document, UNCHANGED <<issuerVars, committed, job, page, budget>>
      PROVE  TypeOK'
  BY <1>0, <1>b DEF TypeOK, issuerVars, Promised
<1>1. CASE StartScan
  <2>1. Len(Issuers) # 0 /\ Len(Issuers) \in Nat
    BY <1>1, EmptySeq DEF StartScan
  <2>2. 1 \in DOMAIN Issuers
    BY <2>1
  <2>. QED BY <1>1, <2>2 DEF StartScan, TypeOK, issuerVars
<1>2. CASE ScanFails
  BY <1>b, <1>2 DEF ScanFails, Abort, TypeOK
<1>3. CASE Resolve
  BY <1>a, <1>3 DEF Resolve, TypeOK, issuerVars
<1>4. CASE Contains
  <2>1. CASE Abort
    BY <1>b, <1>4, <2>1 DEF Contains, Abort, TypeOK
  <2>2. CASE pc' = "list" /\ UNCHANGED <<turn, sha, listing, dirs, here, td, found, file>>
    BY <1>4, <2>2 DEF Contains, TypeOK, issuerVars
  <2>. QED BY <1>4, <2>1, <2>2 DEF Contains
<1>5. CASE List
  <2>1. listing' \subseteq Dir \X File /\ dirs' \subseteq Dir
    BY <1>5 DEF List, Committed
  <2>2. Pending(Repository, Promised, "not-committed")
          \in [repo : Repo, dir : Dir \cup {Promised}, reason : Reason]
    BY <1>a, <1>5, PendingTyped DEF List, Reason
  <2>3. found' \in Document
    BY <1>5, <2>2 DEF List, TypeOK, Document
  <2>. QED BY <1>5, <2>1, <2>3 DEF List, TypeOK, issuerVars
<1>6. ASSUME NEW d \in Dir, OpenDir(d) PROVE TypeOK'
  <2>1. Pending(Repository, d, "no-manifest")
          \in [repo : Repo, dir : Dir \cup {Promised}, reason : Reason]
    BY <1>a, <1>6, PendingTyped DEF OpenDir, Reason
  <2>2. CASE <<d, Manifest>> \in listing
    BY <1>6, <2>2 DEF OpenDir, TypeOK, issuerVars
  <2>3. CASE <<d, Manifest>> \notin listing
    <3>1. /\ found' = [found EXCEPT !.pending =
                        found.pending \cup {Pending(Repository, d, "no-manifest")}]
          /\ dirs' = dirs \ {d} /\ UNCHANGED <<pc, here>>
      BY <1>6, <2>3 DEF OpenDir
    <3>2. found' \in Document
      BY <2>1, <3>1 DEF TypeOK, Document
    <3>. QED BY <1>6, <3>1, <3>2 DEF OpenDir, TypeOK, issuerVars
  <2>. QED BY <2>2, <2>3
<1>7. ASSUME NEW f \in File, ReadBlob(f) PROVE TypeOK'
  <2>1. CASE Abort
    BY <1>b, <1>7, <2>1 DEF ReadBlob, Abort, TypeOK
  <2>2. CASE ~Abort
    <3>1. /\ td' = [td EXCEPT ![f] = Tree[head[Repository]][here][f]]
          /\ UNCHANGED <<pc, turn, sha, listing, dirs, here, found, file>>
      BY <1>7, <2>2 DEF ReadBlob
    <3>2. Repository \in Repo /\ here \in Dir
      BY <1>a, <1>7 DEF ReadBlob, TypeOK
    <3>3. Tree[head[Repository]] \in [Dir -> Files]
      BY <3>2 DEF TypeOK, Commit
    <3>4. Tree[head[Repository]][here] \in Files
      BY <3>2, <3>3
    <3>5. Tree[head[Repository]][here][f] \in Blob \cup {NoFile}
      BY <3>4 DEF Files
    <3>6. td' \in Files
      BY <3>1, <3>5 DEF TypeOK, Files
    <3>. QED BY <1>7, <3>1, <3>6 DEF ReadBlob, TypeOK, issuerVars
  <2>. QED BY <2>1, <2>2
<1>8. CASE Judge
  <2>. DEFINE reason == Refusal(Repository, td)
  <2>1. Repository \in Repo /\ here \in Dir \cup {Promised} /\ reason \in Reason \cup {"none"}
    BY <1>a, <1>8, RefusalTyped DEF Judge, TypeOK
  <2>2. found' \in Document
    <3>1. CASE reason = "none"
      <4>1. here \in Dir
        BY <1>8 DEF Judge, TypeOK
      <4>2. Entry(Repository, here, td, sha) \in EntryType
        BY <2>1, <3>1, <4>1, EntryTyped DEF TypeOK
      <4>. QED BY <1>8, <3>1, <4>2 DEF Judge, TypeOK, Document
    <3>2. CASE reason # "none"
      <4>1. Pending(Repository, here, reason)
              \in [repo : Repo, dir : Dir \cup {Promised}, reason : Reason]
        BY <2>1, <3>2, PendingTyped
      <4>. QED BY <1>8, <3>2, <4>1 DEF Judge, TypeOK, Document
    <3>. QED BY <3>1, <3>2
  <2>. QED BY <1>0, <1>8, <2>2 DEF Judge, TypeOK, issuerVars, Promised
<1>9. CASE NextIssuer
  BY <1>a, <1>9 DEF NextIssuer, TypeOK, issuerVars
<1>10. CASE Write
  BY <1>b, <1>10 DEF Write, TypeOK
<1>. QED BY <1>1, <1>2, <1>3, <1>4, <1>5, <1>6, <1>7, <1>8, <1>9, <1>10 DEF ScanStep

(* The steps of everyone else.                                              *)
LEMMA StepTypeOK == TypeOK /\ [Next]_vars => TypeOK'
<1>. SUFFICES ASSUME TypeOK, [Next]_vars PROVE TypeOK'
  OBVIOUS
<1>. USE RegistryAssumption
<1>a. ASSUME NEW what \in {"moves", "edits", "commits"}, Spend(what)
      PROVE  budget' \in [{"moves", "edits", "commits"} -> Nat]
  BY <1>a DEF Spend, TypeOK
<1>b. Nothing \in Document
  BY DEF Nothing, Document
<1>1. CASE Issuer
  <2>1. ASSUME NEW r \in Repo, NEW c \in Commit, MoveHead(r, c) PROVE TypeOK'
    BY <1>a, <2>1 DEF MoveHead, TypeOK, scanVars
  <2>2. ASSUME NEW r \in Repo, Push(r) PROVE TypeOK'
    <3>1. <<r, head[r]>> \in Repo \X Commit
      BY DEF TypeOK
    <3>2. tracked' \subseteq Repo \X Commit /\ served' \subseteq Repo \X Commit
      BY <2>2, <3>1 DEF Push, TypeOK
    <3>. QED BY <2>2, <3>2 DEF Push, TypeOK, scanVars
  <2>3. ASSUME NEW rc \in Repo \X Commit, Vanish(rc) PROVE TypeOK'
    BY <1>a, <2>3 DEF Vanish, TypeOK, scanVars
  <2>. QED BY <1>1, <2>1, <2>2, <2>3 DEF Issuer
<1>2. CASE StartScan \/ ScanStep
  BY <1>2, ScanTypeOK
<1>3. CASE HandEdit
  <2>1. PICK e \in file.entries, kind \in Edit :
           file' = [file EXCEPT !.entries = (file.entries \ {e}) \cup {Edited(e, kind)}]
    BY <1>3 DEF HandEdit
  <2>2. e \in EntryType
    BY <2>1 DEF TypeOK, Document
  <2>3. Edited(e, kind) \in EntryType
    BY <2>2, EditedTyped
  <2>4. file' \in Document
    BY <2>1, <2>3 DEF TypeOK, Document
  <2>. QED BY <1>3, <1>a, <2>4 DEF HandEdit, TypeOK, issuerVars, scanVars
<1>4. CASE CommitFile
  BY <1>4, <1>a DEF CommitFile, TypeOK, issuerVars, scanVars
<1>5. ASSUME NEW j \in Job, Trigger(j) \/ JobStep(j) \/ FetchFails(j) PROVE TypeOK'
  <2>. DEFINE Run == [pc : {"idle", "check", "deploy"}, doc : Document,
                      todo : SUBSET EntryType, ok : BOOLEAN]
  <2>0. job \in [Job -> Run] /\ job[j] \in Run
    BY DEF TypeOK
  <2>1. CASE Trigger(j)
    <3>1. [pc |-> "check", doc |-> committed, todo |-> committed.entries,
           ok |-> \A e \in committed.entries : e.ref # MutableRef] \in Run
      BY DEF TypeOK, Document
    <3>. QED BY <2>0, <2>1, <3>1 DEF Trigger, TypeOK, issuerVars, scanVars
  <2>2. CASE FetchFails(j)
    <3>1. PICK e \in job[j].todo : job' = [job EXCEPT ![j].todo = @ \ {e}, ![j].ok = FALSE]
      BY <2>2 DEF FetchFails
    <3>2. job' \in [Job -> Run]
      BY <2>0, <3>1
    <3>. QED BY <1>a, <2>2, <3>2 DEF FetchFails, TypeOK, issuerVars, scanVars
  <2>3. CASE CheckEntry(j)
    <3>1. PICK e \in job[j].todo :
             job' = [job EXCEPT ![j].todo = @ \ {e}, ![j].ok = @ /\ Regenerates(e)]
      BY <2>3 DEF CheckEntry
    <3>2. Regenerates(e) \in BOOLEAN
      BY DEF Regenerates
    <3>3. job' \in [Job -> Run]
      BY <2>0, <3>1, <3>2
    <3>. QED BY <2>3, <3>3 DEF CheckEntry, TypeOK, issuerVars, scanVars
  <2>4. CASE EndCheck(j)
    <3>1. job' \in [Job -> Run]
      BY <1>b, <2>0, <2>4 DEF EndCheck
    <3>. QED BY <2>4, <3>1 DEF EndCheck, TypeOK, issuerVars, scanVars
  <2>5. CASE Deploy(j)
    <3>1. job' \in [Job -> Run] /\ page' \in Document
      BY <1>b, <2>0, <2>5 DEF Deploy
    <3>. QED BY <2>5, <3>1 DEF Deploy, TypeOK, issuerVars, scanVars
  <2>. QED BY <1>5, <2>1, <2>2, <2>3, <2>4, <2>5 DEF JobStep
<1>6. CASE UNCHANGED vars
  BY <1>6 DEF vars, TypeOK, issuerVars, scanVars
<1>. QED BY <1>1, <1>2, <1>3, <1>4, <1>5, <1>6 DEF Next

(* Type correctness, as a theorem of the specification.                     *)
THEOREM TypeCorrect == Spec => []TypeOK
<1>. QED BY InitTypeOK, StepTypeOK, PTL DEF Spec

-----------------------------------------------------------------------------
(* What a pages run knows.  Being earned is about a commit's tree, so it    *)
(* outlives the fetch that established it: nothing the issuers do between   *)
(* the check and the deploy can undo it.                                    *)
RunInv ==
  \A j \in Job :
     /\ job[j].ok /\ job[j].pc = "check" =>
          /\ \A e \in job[j].doc.entries : e.ref # MutableRef
          /\ \A e \in job[j].doc.entries \ job[j].todo : Earned(e)
     /\ job[j].pc = "deploy" => \A e \in job[j].doc.entries : Earned(e)

PagesInv == TypeOK /\ RunInv /\ PageIsEarned

(* An entry that regenerates, and is not addressed at a branch, is earned.  *)
LEMMA RegeneratedIsEarned ==
  ASSUME NEW e \in EntryType, Regenerates(e), e.ref # MutableRef
  PROVE  Earned(e)
<1>1. /\ Fetched(e) = e.files /\ Refusal(e.repo, e.files) = "none"
      /\ Entry(e.repo, e.dir, e.files, e.pinned) = e
  BY DEF Regenerates
<1>2. e.ref = e.pinned /\ e.summary = Reads[e.files[Manifest]].summary
  BY <1>1 DEF Entry
<1>3. e.pinned \in Commit
  BY <1>2 DEF EntryType
<1>4. ASSUME NEW f \in File, e.files[f] # NoFile
      PROVE  e.files[f] = Tree[e.pinned][e.dir][f]
  BY <1>1, <1>2, <1>4 DEF Fetched
<1>. QED BY <1>1, <1>2, <1>3, <1>4 DEF Earned

(* Every entry on the page is addressed at a commit, is what that commit    *)
(* holds, verifies, is admitted, and shows its manifest's own summary.      *)
THEOREM PageEarned == Spec => []PageIsEarned
<1>1. Init => PagesInv
  BY InitTypeOK DEF Init, PagesInv, RunInv, PageIsEarned, Nothing
<1>2. PagesInv /\ [Next]_vars => PagesInv'
  <2>. SUFFICES ASSUME PagesInv, [Next]_vars PROVE PagesInv'
    OBVIOUS
  <2>. USE DEF PagesInv
  <2>0. TypeOK'
    BY StepTypeOK
  <2>a. ASSUME NEW j \in Job, NEW run, job' = [job EXCEPT ![j] = run],
               run.ok /\ run.pc = "check" =>
                 /\ \A e \in run.doc.entries : e.ref # MutableRef
                 /\ \A e \in run.doc.entries \ run.todo : Earned(e),
               run.pc = "deploy" => \A e \in run.doc.entries : Earned(e)
        PROVE  RunInv'
    BY <2>a DEF RunInv, TypeOK, Earned
  <2>b. UNCHANGED job => RunInv'
    BY DEF RunInv, Earned
  <2>c. UNCHANGED page => PageIsEarned'
    BY DEF PageIsEarned, Earned
  <2>1. ASSUME NEW j \in Job, Trigger(j) PROVE PagesInv'
    <3>. DEFINE run == [pc |-> "check", doc |-> committed, todo |-> committed.entries,
                        ok |-> \A e \in committed.entries : e.ref # MutableRef]
    <3>1. /\ job' = [job EXCEPT ![j] = run] /\ UNCHANGED page
          /\ run.pc = "check" /\ run.doc = committed /\ run.todo = committed.entries
      BY <2>1 DEF Trigger
    <3>2. run.ok => \A e \in committed.entries : e.ref # MutableRef
      OBVIOUS
    <3>. HIDE DEF run
    <3>. QED BY <2>0, <2>a, <2>c, <3>1, <3>2
  <2>2. ASSUME NEW j \in Job, FetchFails(j) PROVE PagesInv'
    <3>1. PICK e \in job[j].todo : job' = [job EXCEPT ![j].todo = @ \ {e}, ![j].ok = FALSE]
      BY <2>2 DEF FetchFails
    <3>. DEFINE run == [job[j] EXCEPT !.todo = @ \ {e}, !.ok = FALSE]
    <3>2. job' = [job EXCEPT ![j] = run] /\ run.pc = "check" /\ run.ok = FALSE
      BY <2>2, <3>1 DEF FetchFails, TypeOK
    <3>. HIDE DEF run
    <3>. QED BY <2>0, <2>2, <2>a, <2>c, <3>2 DEF FetchFails
  <2>3. ASSUME NEW j \in Job, CheckEntry(j) PROVE PagesInv'
    <3>1. PICK e \in job[j].todo :
             job' = [job EXCEPT ![j].todo = @ \ {e}, ![j].ok = @ /\ Regenerates(e)]
      BY <2>3 DEF CheckEntry
    <3>. DEFINE run == [job[j] EXCEPT !.todo = @ \ {e}, !.ok = @ /\ Regenerates(e)]
    <3>2. /\ job' = [job EXCEPT ![j] = run]
          /\ run.pc = "check" /\ run.doc = job[j].doc /\ run.todo = job[j].todo \ {e}
          /\ run.ok <=> (job[j].ok /\ Regenerates(e))
      BY <2>3, <3>1 DEF CheckEntry, TypeOK
    <3>3. e \in EntryType
      BY <3>1 DEF TypeOK
    <3>. HIDE DEF run
    <3>4. ASSUME run.ok
          PROVE  /\ \A x \in run.doc.entries : x.ref # MutableRef
                 /\ \A x \in run.doc.entries \ run.todo : Earned(x)
      <4>1. /\ \A x \in job[j].doc.entries : x.ref # MutableRef
            /\ \A x \in job[j].doc.entries \ job[j].todo : Earned(x)
        BY <2>3, <3>2, <3>4 DEF CheckEntry, RunInv
      <4>2. e \in job[j].doc.entries => Earned(e)
        BY <3>2, <3>3, <3>4, <4>1, RegeneratedIsEarned
      <4>. QED BY <3>2, <4>1, <4>2
    <3>. QED BY <2>0, <2>3, <2>a, <2>c, <3>2, <3>4 DEF CheckEntry
  <2>4. ASSUME NEW j \in Job, EndCheck(j) PROVE PagesInv'
    <3>. DEFINE run == [job[j] EXCEPT !.pc = IF job[j].ok THEN "deploy" ELSE "idle",
                                      !.doc = IF job[j].ok THEN @ ELSE Nothing, !.ok = TRUE]
    <3>1. /\ job' = [job EXCEPT ![j] = run]
          /\ run.pc = (IF job[j].ok THEN "deploy" ELSE "idle")
          /\ job[j].ok => run.doc = job[j].doc
      BY <2>4 DEF EndCheck, TypeOK
    <3>2. job[j].ok => \A e \in job[j].doc.entries : Earned(e)
      BY <2>4 DEF EndCheck, RunInv
    <3>. HIDE DEF run
    <3>. QED BY <2>0, <2>4, <2>a, <2>c, <3>1, <3>2 DEF EndCheck
  <2>5. ASSUME NEW j \in Job, Deploy(j) PROVE PagesInv'
    <3>. DEFINE run == [job[j] EXCEPT !.pc = "idle", !.doc = Nothing]
    <3>1. job' = [job EXCEPT ![j] = run] /\ run.pc = "idle"
      BY <2>5 DEF Deploy, TypeOK
    <3>2. PageIsEarned'
      BY <2>5 DEF Deploy, RunInv, PageIsEarned, Earned
    <3>. HIDE DEF run
    <3>. QED BY <2>0, <2>a, <3>1, <3>2
  <2>6. CASE Issuer \/ StartScan \/ ScanStep \/ HandEdit \/ CommitFile
    <3>1. UNCHANGED <<job, page>>
      BY <2>6 DEF Issuer, MoveHead, Push, Vanish, StartScan, ScanStep, ScanFails, Resolve,
                  Contains, List, Judge, NextIssuer, Write, OpenDir, ReadBlob, HandEdit, CommitFile
    <3>. QED BY <2>0, <2>b, <2>c, <3>1
  <2>7. CASE UNCHANGED vars
    BY <2>0, <2>7, <2>b, <2>c DEF vars
  <2>. QED BY <2>1, <2>2, <2>3, <2>4, <2>5, <2>6, <2>7 DEF Next, JobStep
<1>3. PagesInv => PageIsEarned
  BY DEF PagesInv
<1>. QED BY <1>1, <1>2, <1>3, PTL DEF Spec

-----------------------------------------------------------------------------
(* What becomes registered: an entry the scan judged, or one of those as a *)
(* hand edit left it.                                                      *)
LEMMA EntriesFrom ==
  ASSUME TypeOK, [Next]_vars
  PROVE  /\ \A e \in found'.entries :
              \/ e \in found.entries
              \/ /\ Judge /\ e = Entry(Repository, here, td, sha)
                 /\ Refusal(Repository, td) = "none"
         /\ \A e \in file'.entries :
              \/ e \in file.entries \cup found.entries
              \/ \E x \in file.entries, kind \in Edit : e = Edited(x, kind)
<1>. DEFINE FoundFrom == \A e \in found'.entries :
                           \/ e \in found.entries
                           \/ /\ Judge /\ e = Entry(Repository, here, td, sha)
                              /\ Refusal(Repository, td) = "none"
            FileFrom  == \A e \in file'.entries :
                           \/ e \in file.entries \cup found.entries
                           \/ \E x \in file.entries, kind \in Edit : e = Edited(x, kind)
<1>0. UNCHANGED <<found, file>> => FoundFrom /\ FileFrom
  OBVIOUS
<1>a. Reset /\ file' \in {file, found} => FoundFrom /\ FileFrom
  BY DEF Reset, Nothing
<1>b. /\ DOMAIN found = {"entries", "pending"} /\ DOMAIN file = {"entries", "pending"}
  BY DEF TypeOK, Document
<1>1. CASE Issuer \/ StartScan \/ Resolve \/ NextIssuer \/ CommitFile
           \/ \E j \in Job : Trigger(j) \/ JobStep(j) \/ FetchFails(j)
  <2>1. UNCHANGED <<found, file>>
    BY <1>1 DEF Issuer, MoveHead, Push, Vanish, StartScan, Resolve, NextIssuer, CommitFile,
                Trigger, JobStep, CheckEntry, EndCheck, Deploy, FetchFails, scanVars
  <2>. QED BY <1>0, <2>1
<1>2. CASE ScanFails \/ Contains \/ Write
  BY <1>0, <1>2, <1>a DEF ScanFails, Contains, Abort, Write
<1>3. CASE List
  <2>1. found'.entries = found.entries /\ UNCHANGED file
    BY <1>3, <1>b DEF List
  <2>. QED BY <2>1
<1>4. ASSUME NEW d \in Dir, OpenDir(d) PROVE FoundFrom /\ FileFrom
  <2>1. found'.entries = found.entries /\ UNCHANGED file
    BY <1>4, <1>b DEF OpenDir
  <2>. QED BY <2>1
<1>5. ASSUME NEW f \in File, ReadBlob(f) PROVE FoundFrom /\ FileFrom
  BY <1>0, <1>5, <1>a DEF ReadBlob, Abort
<1>6. CASE Judge
  <2>1. UNCHANGED file
    BY <1>6 DEF Judge
  <2>2. FoundFrom
    BY <1>6, <1>b DEF Judge
  <2>. QED BY <2>1, <2>2
<1>7. CASE HandEdit
  <2>1. PICK e \in file.entries, kind \in Edit :
           file' = [file EXCEPT !.entries = (file.entries \ {e}) \cup {Edited(e, kind)}]
    BY <1>7 DEF HandEdit
  <2>2. UNCHANGED found
    BY <1>7 DEF HandEdit, scanVars
  <2>. QED BY <1>b, <2>1, <2>2
<1>8. CASE UNCHANGED vars
  BY <1>0, <1>8 DEF vars, scanVars
<1>. QED BY <1>1, <1>2, <1>3, <1>4, <1>5, <1>6, <1>7, <1>8 DEF Next, ScanStep

-----------------------------------------------------------------------------
(* What the scan has asked the remote about: head_sha is the commit that   *)
(* was looked for, wherever HEAD has moved meanwhile, and a commit that is *)
(* on a remote branch stays known as one.                                  *)
Pushed(repo, commit) == repo \in Remote => <<repo, commit>> \in tracked

PushedInv ==
  /\ pc \in {"list", "dirs", "blobs"} => Pushed(Repository, sha)
  /\ \A e \in found.entries \cup file.entries : Pushed(e.repo, e.pinned)

(* Nothing is registered that only this machine can fetch, unless somebody *)
(* re-pins an entry by hand: HEADs may move during the scan, and issuers   *)
(* may push or lose what they will.                                        *)
THEOREM PinnedPushed == ASSUME "repin" \notin Edit PROVE Spec => []PinnedIsPushed
<1>1. Init => PushedInv
  BY DEF Init, PushedInv, Nothing
<1>2. TypeOK /\ PushedInv /\ [Next]_vars => PushedInv'
  <2>. SUFFICES ASSUME TypeOK, PushedInv, [Next]_vars PROVE PushedInv'
    OBVIOUS
  <2>1. tracked \subseteq tracked'
    <3>1. CASE \E r \in Repo : Push(r)
      BY <3>1 DEF Push
    <3>2. CASE UNCHANGED tracked
      BY <3>2
    <3>3. CASE (\E r \in Repo, c \in Commit : MoveHead(r, c)) \/ (\E rc \in Repo \X Commit : Vanish(rc))
      BY <3>3 DEF MoveHead, Vanish
    <3>4. CASE StartScan \/ ScanStep
      BY <3>4 DEF StartScan, ScanStep, ScanFails, Resolve, Contains, List, OpenDir, ReadBlob,
                  Judge, NextIssuer, Write, issuerVars
    <3>5. CASE HandEdit \/ CommitFile \/ \E j \in Job : Trigger(j) \/ JobStep(j) \/ FetchFails(j)
      BY <3>5 DEF HandEdit, CommitFile, Trigger, JobStep, CheckEntry, EndCheck, Deploy,
                  FetchFails, issuerVars
    <3>. QED BY <3>1, <3>2, <3>3, <3>4, <3>5 DEF Next, Issuer, vars, issuerVars
  <2>2. \A repo, commit : Pushed(repo, commit) => Pushed(repo, commit)'
    BY <2>1 DEF Pushed
  <2>3. \A e \in found'.entries : Pushed(e.repo, e.pinned)'
    <3>1. Judge => Pushed(Repository, sha)
      BY DEF PushedInv, Judge
    <3>2. Judge => Pushed(Entry(Repository, here, td, sha).repo, Entry(Repository, here, td, sha).pinned)
      BY <3>1 DEF Entry
    <3>. QED BY <2>2, <3>2, EntriesFrom DEF PushedInv
  <2>4. \A e \in file'.entries : Pushed(e.repo, e.pinned)'
    <3>1. ASSUME NEW x \in file.entries, NEW kind \in Edit
          PROVE  Edited(x, kind).repo = x.repo /\ Edited(x, kind).pinned = x.pinned
      <4>1. x \in EntryType /\ kind \in {"mark", "url", "drop", "summary"}
        BY RegistryAssumption DEF TypeOK, Document
      <4>. QED BY <4>1 DEF Edited, EntryType
    <3>. QED BY <2>2, <3>1, EntriesFrom DEF PushedInv
  <2>5. pc' \in {"list", "dirs", "blobs"} => Pushed(Repository, sha)'
    <3>1. CASE Contains
      <4>1. pc' = "list" => Pushed(Repository, sha) /\ UNCHANGED <<turn, sha>>
        BY <3>1 DEF Contains, Abort, Reset, Pushed
      <4>2. pc' \in {"list", "idle"}
        BY <3>1 DEF Contains, Abort, Reset
      <4>. QED BY <2>2, <4>1, <4>2 DEF Repository
    <3>2. CASE pc \in {"list", "dirs", "blobs"} /\ UNCHANGED <<turn, sha>>
      BY <2>2, <3>2 DEF PushedInv, Repository
    <3>3. CASE UNCHANGED scanVars
      BY <2>2, <3>3 DEF PushedInv, Repository, scanVars
    <3>4. CASE pc' \in {"idle", "resolve", "contains"}
      BY <3>4
    <3>5. CASE Issuer \/ HandEdit \/ CommitFile
               \/ \E j \in Job : Trigger(j) \/ JobStep(j) \/ FetchFails(j)
      BY <3>3, <3>5 DEF Issuer, MoveHead, Push, Vanish, HandEdit, CommitFile, Trigger, JobStep,
                        CheckEntry, EndCheck, Deploy, FetchFails
    <3>6. CASE StartScan \/ ScanFails \/ Resolve \/ NextIssuer \/ Write
      BY <3>4, <3>6 DEF StartScan, ScanFails, Abort, Reset, Resolve, NextIssuer, Write
    <3>7. CASE List \/ Judge \/ \E d \in Dir : OpenDir(d)
      BY <3>2, <3>7 DEF List, Judge, OpenDir
    <3>8. CASE \E f \in File : ReadBlob(f)
      BY <3>2, <3>4, <3>8 DEF ReadBlob, Abort, Reset
    <3>. QED BY <3>1, <3>3, <3>5, <3>6, <3>7, <3>8 DEF Next, ScanStep, vars
  <2>. QED BY <2>3, <2>4, <2>5 DEF PushedInv
<1>3. PushedInv => PinnedIsPushed
  BY DEF PushedInv, Pushed, PinnedIsPushed
<1>. QED BY <1>1, <1>2, <1>3, TypeCorrect, PTL DEF Spec

-----------------------------------------------------------------------------
(* The scan, when nobody moves a HEAD under it: every call after rev-parse *)
(* still sees the tree of head_sha, so the files materialized are those of *)
(* the commit the entry is pinned to.                                      *)
QuietInv ==
  /\ pc \notin {"idle", "resolve"} => sha = head[Repository]
  /\ pc \in {"dirs", "blobs"} => listing = Committed(sha)
  /\ IF pc = "blobs" THEN \A f \in File : td[f] # NoFile => td[f] = Tree[sha][here][f]
                     ELSE td = Empty

(* The directory that is judged is the committed one.                      *)
LEMMA Materialized ==
  ASSUME TypeOK, QuietInv, pc = "blobs",
         \A f \in File : <<here, f>> \in listing => td[f] # NoFile
  PROVE  td = Tree[sha][here] /\ sha \in Commit
<1>1. Repository \in Repo /\ here \in Dir
  BY RegistryAssumption DEF TypeOK, Repository
<1>2. sha \in Commit /\ Tree[sha] \in [Dir -> Files]
  BY <1>1, RegistryAssumption DEF QuietInv, TypeOK, Commit
<1>3. Tree[sha][here] \in Files /\ td \in Files
  BY <1>1, <1>2 DEF TypeOK
<1>4. ASSUME NEW f \in File PROVE td[f] = Tree[sha][here][f]
  <2>1. CASE td[f] # NoFile
    BY <2>1 DEF QuietInv
  <2>2. CASE td[f] = NoFile
    BY <1>1, <2>2 DEF QuietInv, Committed
  <2>. QED BY <2>1, <2>2
<1>. QED BY <1>2, <1>3, <1>4 DEF Files

LEMMA QuietStep == ASSUME QuietScan, TypeOK, QuietInv, [Next]_vars PROVE QuietInv'
<1>. USE DEF QuietInv
<1>a. ASSUME Reset PROVE QuietInv'
  BY <1>a DEF Reset
<1>b. ASSUME UNCHANGED <<head, scanVars>> PROVE QuietInv'
  BY <1>b DEF scanVars, Repository, Committed
<1>1. ASSUME NEW r \in Repo, NEW c \in Commit, MoveHead(r, c) PROVE QuietInv'
  BY <1>1 DEF MoveHead, scanVars
<1>2. CASE (\E r \in Repo : Push(r)) \/ (\E rc \in Repo \X Commit : Vanish(rc))
           \/ HandEdit \/ CommitFile \/ \E j \in Job : Trigger(j) \/ JobStep(j) \/ FetchFails(j)
  <2>1. UNCHANGED <<head, scanVars>>
    BY <1>2 DEF Push, Vanish, HandEdit, CommitFile, Trigger, JobStep, CheckEntry, EndCheck,
                Deploy, FetchFails, issuerVars
  <2>. QED BY <1>b, <2>1
<1>3. CASE StartScan \/ Resolve \/ NextIssuer
  BY <1>3 DEF StartScan, Resolve, NextIssuer, issuerVars, Repository
<1>4. CASE ScanFails \/ Contains \/ Write
  <2>1. CASE Reset
    BY <1>a, <2>1
  <2>2. CASE ~Reset
    BY <1>4, <2>2 DEF ScanFails, Contains, Write, Abort, issuerVars, Repository
  <2>. QED BY <2>1, <2>2
<1>5. CASE List
  <2>1. /\ pc = "list" /\ pc' = "dirs" /\ listing' = Committed(sha)
        /\ UNCHANGED <<head, turn, sha, td>>
    BY <1>5 DEF List, issuerVars
  <2>. QED BY <2>1 DEF Repository, Committed
<1>6. ASSUME NEW d \in Dir, OpenDir(d) PROVE QuietInv'
  <2>1. /\ pc = "dirs" /\ pc' \in {"dirs", "blobs"}
        /\ UNCHANGED <<head, turn, sha, listing, td>>
    BY <1>6 DEF OpenDir, issuerVars
  <2>2. \A f \in File : td'[f] = NoFile
    BY <2>1 DEF Empty
  <2>. QED BY <2>1, <2>2 DEF Repository, Committed
<1>7. ASSUME NEW f \in File, ReadBlob(f) PROVE QuietInv'
  <2>1. CASE Reset
    BY <1>a, <2>1
  <2>2. CASE ~Reset
    <3>1. /\ pc = "blobs" /\ td' = [td EXCEPT ![f] = Tree[sha][here][f]]
          /\ UNCHANGED <<head, pc, turn, sha, listing, here>>
      BY <1>7, <2>2 DEF ReadBlob, Abort, issuerVars
    <3>2. \A g \in File : td'[g] # NoFile => td'[g] = Tree[sha][here][g]
      BY <3>1 DEF TypeOK, Files
    <3>. QED BY <3>1, <3>2 DEF Repository, Committed
  <2>. QED BY <2>1, <2>2
<1>8. CASE Judge
  <2>1. pc = "blobs" /\ pc' = "dirs" /\ td' = Empty /\ UNCHANGED <<head, turn, sha, listing>>
    BY <1>8 DEF Judge, issuerVars
  <2>. QED BY <2>1 DEF Repository, Committed
<1>9. CASE UNCHANGED vars
  BY <1>9, <1>b DEF vars, issuerVars
<1>. QED BY <1>1, <1>2, <1>3, <1>4, <1>5, <1>6, <1>7, <1>8, <1>9 DEF Next, Issuer, ScanStep

LEMMA AlwaysQuiet == ASSUME QuietScan PROVE Spec => [](TypeOK /\ QuietInv)
<1>1. Init => QuietInv
  BY DEF Init, QuietInv
<1>2. TypeOK /\ QuietInv /\ [Next]_vars => QuietInv'
  BY QuietStep
<1>. QED BY <1>1, <1>2, TypeCorrect, PTL DEF Spec

Faithful(e) == e.files = Tree[e.pinned][e.dir]

FaithfulInv == \A e \in found.entries \cup file.entries : Faithful(e)

(* Under a quiet scan the pinned commit holds exactly the registered files *)
(* unless somebody re-pins an entry or drops a file of it by hand.         *)
THEOREM PinnedRead ==
  ASSUME QuietScan, Edit \cap {"repin", "drop"} = {}
  PROVE  Spec => []PinnedIsRead
<1>1. Init => FaithfulInv
  BY DEF Init, FaithfulInv, Nothing
<1>2. TypeOK /\ QuietInv /\ FaithfulInv /\ [Next]_vars => FaithfulInv'
  <2>. SUFFICES ASSUME TypeOK, QuietInv, FaithfulInv, [Next]_vars PROVE FaithfulInv'
    OBVIOUS
  <2>1. Judge => Faithful(Entry(Repository, here, td, sha))
    <3>1. Judge => td = Tree[sha][here]
      BY Materialized DEF Judge
    <3>. QED BY <3>1 DEF Entry, Faithful
  <2>2. ASSUME NEW x \in file.entries, NEW kind \in Edit PROVE Faithful(Edited(x, kind))
    <3>1. x \in EntryType /\ kind \in {"mark", "url", "summary"} /\ Faithful(x)
      BY RegistryAssumption DEF TypeOK, Document, FaithfulInv
    <3>2. /\ Edited(x, kind).files = x.files /\ Edited(x, kind).pinned = x.pinned
          /\ Edited(x, kind).dir = x.dir
      BY <3>1 DEF Edited, EntryType
    <3>. QED BY <3>1, <3>2 DEF Faithful
  <2>3. \A e \in found'.entries : Faithful(e)
    BY <2>1, EntriesFrom DEF FaithfulInv
  <2>4. \A e \in file'.entries : Faithful(e)
    BY <2>2, EntriesFrom DEF FaithfulInv
  <2>. QED BY <2>3, <2>4 DEF FaithfulInv, Faithful
<1>3. FaithfulInv => PinnedIsRead
  BY DEF FaithfulInv, PinnedIsRead, Faithful
<1>. QED BY <1>1, <1>2, <1>3, AlwaysQuiet, PTL DEF Spec

-----------------------------------------------------------------------------
(* What a scan has recorded so far, of the bundles it has judged and of the*)
(* issuers it has looked at, by what the HEADs are.                        *)
HeldAt(h, rd) == Tree[h[rd[1]]][rd[2]]

Named == {Issuers[i] : i \in DOMAIN Issuers}

BundlesAt(h) == {rd \in Named \X Dir : HeldAt(h, rd) # Empty}

EntriesOf(h, B) ==
  {Entry(rd[1], rd[2], HeldAt(h, rd), h[rd[1]])
     : rd \in {x \in B : Refusal(x[1], HeldAt(h, x)) = "none"}}

ReasonAt(h, rd) == IF HeldAt(h, rd)[Manifest] = NoFile THEN "no-manifest"
                   ELSE Refusal(rd[1], HeldAt(h, rd))

PendingOf(h, B) ==
  {Pending(rd[1], rd[2], ReasonAt(h, rd)) : rd \in {x \in B : Refusal(x[1], HeldAt(h, x)) # "none"}}

AbsentOf(h, R) ==
  {Pending(r, Promised, "not-committed") : r \in R \ (Family \cup {rd[1] : rd \in BundlesAt(h)})}

Before(n) == {Issuers[i] : i \in {j \in DOMAIN Issuers : j < n}}

Listed == pc \in {"dirs", "blobs"}

Judged ==
  {rd \in BundlesAt(head) : rd[1] \in Before(turn) \/ (Listed /\ rd[1] = Repository /\ rd[2] \notin dirs)}

Looked == {r \in Named : r \in Before(turn) \/ (Listed /\ r = Repository)}

MechanicalInv ==
  /\ found = [entries |-> EntriesOf(head, Judged),
              pending |-> PendingOf(head, Judged) \cup AbsentOf(head, Looked)]
  /\ Listed => \A d \in dirs : <<Repository, d>> \in BundlesAt(head)
  /\ pc = "blobs" => here \in dirs /\ <<here, Manifest>> \in listing

LEMMA NoneYet ==
  ASSUME NEW h
  PROVE  EntriesOf(h, {}) = {} /\ PendingOf(h, {}) = {} /\ AbsentOf(h, {}) = {}
BY DEF EntriesOf, PendingOf, AbsentOf

LEMMA NoneBefore == Before(1) = {}
BY RegistryAssumption DEF Before

(* A directory is committed when a file of it is.                          *)
LEMMA CommittedDirs ==
  ASSUME TypeOK, NEW r \in Repo
  PROVE  /\ {df[1] : df \in Committed(head[r])} = {d \in Dir : HeldAt(head, <<r, d>>) # Empty}
         /\ \A d \in Dir : HeldAt(head, <<r, d>>) \in Files
<1>1. head[r] \in Commit /\ Tree[head[r]] \in [Dir -> Files]
  BY RegistryAssumption DEF TypeOK, Commit
<1>2. ASSUME NEW d \in Dir
      PROVE  /\ HeldAt(head, <<r, d>>) \in Files
             /\ HeldAt(head, <<r, d>>) # Empty <=> \E f \in File : Tree[head[r]][d][f] # NoFile
  BY <1>1 DEF HeldAt, Files, Empty
<1>3. \A d : d \in {df[1] : df \in Committed(head[r])}
                <=> d \in Dir /\ \E f \in File : Tree[head[r]][d][f] # NoFile
  <2>1. ASSUME NEW d \in Dir, NEW f \in File, Tree[head[r]][d][f] # NoFile
        PROVE  d \in {df[1] : df \in Committed(head[r])}
    <3>1. <<d, f>> \in Committed(head[r]) /\ <<d, f>>[1] = d
      BY <2>1 DEF Committed
    <3>. QED BY <3>1
  <2>2. ASSUME NEW df \in Committed(head[r])
        PROVE  df[1] \in Dir /\ \E f \in File : Tree[head[r]][df[1]][f] # NoFile
    BY <2>2 DEF Committed
  <2>. QED BY <2>1, <2>2
<1>. QED BY <1>2, <1>3

(* A scan that starts, or starts again, has recorded nothing.              *)
LEMMA NothingRecorded ==
  ASSUME pc' = "idle" \/ pc' = "resolve", turn' = 1, found' = Nothing
  PROVE  MechanicalInv'
<1>1. Judged' = {} /\ Looked' = {}
  BY NoneBefore DEF Judged, Looked, Listed
<1>2. EntriesOf(head', {}) = {} /\ PendingOf(head', {}) = {} /\ AbsentOf(head', {}) = {}
  BY NoneYet
<1>. QED BY <1>1, <1>2 DEF MechanicalInv, Listed, Nothing

LEMMA IdleHasNothing == TypeOK /\ MechanicalInv /\ pc = "idle" => found = Nothing /\ turn = 1
<1>. SUFFICES ASSUME TypeOK, MechanicalInv, pc = "idle" PROVE found = Nothing /\ turn = 1
  OBVIOUS
<1>1. turn = 1
  BY DEF TypeOK
<1>2. Judged = {} /\ Looked = {}
  BY <1>1, NoneBefore DEF Judged, Looked, Listed
<1>. QED BY <1>1, <1>2, NoneYet DEF MechanicalInv, Nothing

LEMMA MechanicalStep ==
  ASSUME QuietScan, TypeOK, QuietInv, MechanicalInv, [Next]_vars
  PROVE  MechanicalInv'
<1>. USE RegistryAssumption
<1>a. ASSUME Reset PROVE MechanicalInv'
  BY <1>a, NothingRecorded DEF Reset
<1>b. ASSUME UNCHANGED <<head, turn, dirs, found>>, Listed' = Listed,
             pc' = "blobs" => here' \in dirs /\ <<here', Manifest>> \in listing'
      PROVE  MechanicalInv'
  <2>1. Judged' = Judged /\ Looked' = Looked /\ Repository' = Repository
    BY <1>b DEF Judged, Looked, Repository
  <2>. QED BY <1>b, <2>1 DEF MechanicalInv
<1>c. ASSUME UNCHANGED <<head, scanVars>> PROVE MechanicalInv'
  BY <1>b, <1>c DEF scanVars, Listed, MechanicalInv
<1>1. ASSUME NEW r \in Repo, NEW c \in Commit, MoveHead(r, c) PROVE MechanicalInv'
  BY <1>1, IdleHasNothing, NothingRecorded DEF MoveHead, scanVars
<1>2. CASE (\E r \in Repo : Push(r)) \/ (\E rc \in Repo \X Commit : Vanish(rc))
           \/ HandEdit \/ CommitFile \/ \E j \in Job : Trigger(j) \/ JobStep(j) \/ FetchFails(j)
  <2>1. UNCHANGED <<head, scanVars>>
    BY <1>2 DEF Push, Vanish, HandEdit, CommitFile, Trigger, JobStep, CheckEntry, EndCheck,
                Deploy, FetchFails, issuerVars
  <2>. QED BY <1>c, <2>1
<1>3. CASE StartScan \/ Resolve
  BY <1>3, <1>b DEF StartScan, Resolve, issuerVars, Listed
<1>4. CASE ScanFails \/ Contains \/ Write
  <2>1. CASE Reset
    BY <1>a, <2>1
  <2>2. CASE ~Reset
    BY <1>4, <1>b, <2>2 DEF ScanFails, Contains, Write, Abort, issuerVars, Listed
  <2>. QED BY <2>1, <2>2
<1>d. pc # "idle" => turn \in DOMAIN Issuers /\ Repository \in Named /\ Repository \in Repo
  BY DEF TypeOK, Repository, Named
<1>5. CASE List
  <2>1. /\ pc = "list" /\ pc' = "dirs" /\ UNCHANGED <<head, turn>>
        /\ dirs' = {df[1] : df \in Committed(head[Repository])}
        /\ found' = IF dirs' = {} /\ Repository \notin Family
                    THEN [found EXCEPT !.pending =
                            @ \cup {Pending(Repository, Promised, "not-committed")}]
                    ELSE found
    BY <1>5 DEF List, issuerVars
  <2>2. dirs' = {d \in Dir : <<Repository, d>> \in BundlesAt(head)}
    BY <1>d, <2>1, CommittedDirs DEF BundlesAt
  <2>3. Judged' = Judged
    BY <2>1, <2>2 DEF Judged, Listed, Repository, BundlesAt
  <2>4. Looked' = Looked \cup {Repository}
    BY <1>d, <2>1 DEF Looked, Listed, Repository
  <2>5. dirs' = {} <=> Repository \notin {rd[1] : rd \in BundlesAt(head)}
    BY <2>2 DEF BundlesAt
  <2>6. AbsentOf(head, Looked \cup {Repository}) =
          IF dirs' = {} /\ Repository \notin Family
          THEN AbsentOf(head, Looked) \cup {Pending(Repository, Promised, "not-committed")}
          ELSE AbsentOf(head, Looked)
    BY <2>5 DEF AbsentOf
  <2>7. found' = [entries |-> EntriesOf(head', Judged'),
                  pending |-> PendingOf(head', Judged') \cup AbsentOf(head', Looked')]
    BY <2>1, <2>3, <2>4, <2>6 DEF MechanicalInv
  <2>. QED BY <2>1, <2>2, <2>7 DEF MechanicalInv, Repository
<1>e. ASSUME NEW d \in dirs, Listed, UNCHANGED <<head, turn>>, dirs' = dirs \ {d}, pc' = "dirs",
             found' = IF Refusal(Repository, HeldAt(head, <<Repository, d>>)) = "none"
                      THEN [found EXCEPT !.entries =
                              @ \cup {Entry(Repository, d, HeldAt(head, <<Repository, d>>),
                                            head[Repository])}]
                      ELSE [found EXCEPT !.pending =
                              @ \cup {Pending(Repository, d, ReasonAt(head, <<Repository, d>>))}]
      PROVE  MechanicalInv'
  <2>. DEFINE rd == <<Repository, d>>
              more == Judged \cup {rd}
  <2>1. rd \in BundlesAt(head) /\ rd[1] = Repository /\ rd[2] = d
    BY <1>e DEF MechanicalInv
  <2>2. Judged' = more
    BY <1>e, <2>1 DEF Judged, Listed, Repository, BundlesAt
  <2>3. Looked' = Looked
    BY <1>e DEF Looked, Listed, Repository
  <2>5. more = Judged \cup {rd}
    OBVIOUS
  <2>. HIDE DEF rd, more
  <2>6. /\ Refusal(rd[1], HeldAt(head, rd)) = "none" =>
             /\ EntriesOf(head, more)
                  = EntriesOf(head, Judged) \cup {Entry(rd[1], rd[2], HeldAt(head, rd), head[rd[1]])}
             /\ PendingOf(head, more) = PendingOf(head, Judged)
        /\ Refusal(rd[1], HeldAt(head, rd)) # "none" =>
             /\ EntriesOf(head, more) = EntriesOf(head, Judged)
             /\ PendingOf(head, more)
                  = PendingOf(head, Judged) \cup {Pending(rd[1], rd[2], ReasonAt(head, rd))}
    BY <2>5 DEF EntriesOf, PendingOf
  <2>4. found' = [entries |-> EntriesOf(head, more),
                  pending |-> PendingOf(head, more) \cup AbsentOf(head, Looked)]
    <3>. DEFINE entry == Entry(Repository, d, HeldAt(head, rd), head[Repository])
                record == Pending(Repository, d, ReasonAt(head, rd))
    <3>1. /\ found.entries = EntriesOf(head, Judged)
          /\ found.pending = PendingOf(head, Judged) \cup AbsentOf(head, Looked)
          /\ DOMAIN found = {"entries", "pending"}
      BY DEF MechanicalInv
    <3>2. CASE Refusal(Repository, HeldAt(head, rd)) = "none"
      <4>1. /\ EntriesOf(head, more) = EntriesOf(head, Judged) \cup {entry}
            /\ PendingOf(head, more) = PendingOf(head, Judged)
        BY <2>1, <2>6, <3>2
      <4>2. found' = [found EXCEPT !.entries = @ \cup {entry}]
        BY <1>e, <3>2 DEF rd
      <4>. HIDE DEF entry
      <4>. QED BY <3>1, <4>1, <4>2 DEF MechanicalInv
    <3>3. CASE Refusal(Repository, HeldAt(head, rd)) # "none"
      <4>1. /\ EntriesOf(head, more) = EntriesOf(head, Judged)
            /\ PendingOf(head, more) = PendingOf(head, Judged) \cup {record}
        BY <2>1, <2>6, <3>3
      <4>2. found' = [found EXCEPT !.pending = @ \cup {record}]
        BY <1>e, <3>3 DEF rd
      <4>. HIDE DEF record
      <4>. QED BY <3>1, <4>1, <4>2 DEF MechanicalInv
    <3>. QED BY <3>2, <3>3
  <2>. QED BY <1>e, <2>2, <2>3, <2>4 DEF MechanicalInv, Repository
<1>6. ASSUME NEW d \in Dir, OpenDir(d) PROVE MechanicalInv'
  <2>1. pc = "dirs" /\ d \in dirs /\ UNCHANGED <<head, turn, sha, listing>>
    BY <1>6 DEF OpenDir, issuerVars
  <2>2. CASE <<d, Manifest>> \in listing
    BY <1>6, <1>b, <2>1, <2>2 DEF OpenDir, Listed
  <2>3. CASE <<d, Manifest>> \notin listing
    <3>1. HeldAt(head, <<Repository, d>>)[Manifest] = NoFile
      BY <2>1, <2>3 DEF QuietInv, Committed, HeldAt
    <3>2. NoFile \notin DOMAIN Reads
      OBVIOUS
    <3>3. Refusal(Repository, HeldAt(head, <<Repository, d>>)) # "none"
      BY <3>1, <3>2 DEF Refusal, Verifies
    <3>4. ReasonAt(head, <<Repository, d>>) = "no-manifest"
      BY <3>1 DEF ReasonAt
    <3>. QED BY <1>6, <1>e, <2>1, <2>3, <3>3, <3>4 DEF OpenDir, Listed
  <2>. QED BY <2>2, <2>3
<1>7. ASSUME NEW f \in File, ReadBlob(f) PROVE MechanicalInv'
  <2>1. CASE Reset
    BY <1>a, <2>1
  <2>2. CASE ~Reset
    <3>1. pc = "blobs" /\ UNCHANGED <<head, pc, turn, listing, dirs, here, found>>
      BY <1>7, <2>2 DEF ReadBlob, Abort, issuerVars
    <3>. QED BY <1>b, <3>1 DEF Listed, MechanicalInv
  <2>. QED BY <2>1, <2>2
<1>8. CASE Judge
  <2>1. /\ pc = "blobs" /\ pc' = "dirs" /\ UNCHANGED <<head, turn>> /\ dirs' = dirs \ {here}
        /\ here \in dirs /\ <<here, Manifest>> \in listing
    BY <1>8 DEF Judge, issuerVars, MechanicalInv
  <2>2. td = HeldAt(head, <<Repository, here>>) /\ sha = head[Repository]
    BY <1>8, <2>1, Materialized DEF Judge, QuietInv, HeldAt
  <2>3. td[Manifest] # NoFile
    BY <1>8, <2>1 DEF Judge
  <2>4. ReasonAt(head, <<Repository, here>>) = Refusal(Repository, td)
    BY <2>2, <2>3 DEF ReasonAt
  <2>5. found' = IF Refusal(Repository, td) = "none"
                 THEN [found EXCEPT !.entries = @ \cup {Entry(Repository, here, td, sha)}]
                 ELSE [found EXCEPT !.pending = @ \cup {Pending(Repository, here, Refusal(Repository, td))}]
    BY <1>8 DEF Judge
  <2>. QED BY <1>e, <2>1, <2>2, <2>4, <2>5 DEF Listed
<1>9. CASE NextIssuer
  <2>1. /\ pc = "dirs" /\ pc' = "resolve" /\ dirs = {} /\ turn' = turn + 1
        /\ UNCHANGED <<head, found>>
    BY <1>9 DEF NextIssuer, issuerVars
  <2>2. Before(turn + 1) = Before(turn) \cup {Repository}
    BY <1>d, <2>1 DEF Before, Repository
  <2>3. Judged' = Judged /\ Looked' = Looked
    BY <2>1, <2>2 DEF Judged, Looked, Listed
  <2>. QED BY <2>1, <2>3 DEF MechanicalInv, Listed
<1>10. CASE UNCHANGED vars
  BY <1>10, <1>c DEF vars, issuerVars
<1>. QED BY <1>1, <1>2, <1>3, <1>4, <1>5, <1>6, <1>7, <1>8, <1>9, <1>10 DEF Next, Issuer, ScanStep

(* What the last issuer leaves is what the committed trees make.           *)
LEMMA WrittenIsAll ==
  ASSUME TypeOK, MechanicalInv, Write
  PROVE  file' = RegistryOfHeads
<1>. USE RegistryAssumption
<1>1. pc = "dirs" /\ dirs = {} /\ turn = Len(Issuers) /\ file' = found
  BY DEF Write
<1>2. turn \in DOMAIN Issuers
  BY <1>1 DEF TypeOK
<1>3. Named = Before(turn) \cup {Repository}
  BY <1>1, <1>2 DEF Named, Before, Repository
<1>4. Judged = BundlesAt(head) /\ Looked = Named
  BY <1>1, <1>3 DEF Judged, Looked, Listed, BundlesAt
<1>5. BundlesAt(head) = Bundles
  BY DEF BundlesAt, Bundles, HeldAt, Named
<1>6. EntriesOf(head, Bundles) = RegistryOfHeads.entries
  BY DEF EntriesOf, RegistryOfHeads, Held, HeldAt
<1>7. PendingOf(head, Bundles) \cup AbsentOf(head, Named) = RegistryOfHeads.pending
  BY <1>5 DEF PendingOf, AbsentOf, RegistryOfHeads, Held, HeldAt, ReasonAt, Named
<1>8. RegistryOfHeads = [entries |-> RegistryOfHeads.entries, pending |-> RegistryOfHeads.pending]
  BY DEF RegistryOfHeads
<1>. QED BY <1>1, <1>4, <1>5, <1>6, <1>7, <1>8 DEF MechanicalInv

(* The scan is mechanical, for any trees and any order and repetition of   *)
(* the issuers, whatever an earlier scan or a hand edit left in the file,  *)
(* as long as nobody moves a HEAD while it runs.                           *)
THEOREM Mechanical == ASSUME QuietScan PROVE Spec => ScanIsMechanical
<1>1. Init => MechanicalInv
  <2>. SUFFICES ASSUME Init PROVE MechanicalInv
    OBVIOUS
  <2>1. pc = "idle" /\ turn = 1 /\ found = Nothing
    BY DEF Init
  <2>2. Judged = {} /\ Looked = {}
    BY <2>1, NoneBefore DEF Judged, Looked, Listed
  <2>. QED BY <2>1, <2>2, NoneYet DEF MechanicalInv, Nothing, Listed
<1>2. TypeOK /\ QuietInv /\ MechanicalInv /\ [Next]_vars => MechanicalInv'
  BY MechanicalStep
<1>3. TypeOK /\ MechanicalInv /\ [Next]_vars => [Write => file' = RegistryOfHeads]_vars
  BY WrittenIsAll
<1>. QED BY <1>1, <1>2, <1>3, AlwaysQuiet, PTL DEF Spec, ScanIsMechanical
=============================================================================

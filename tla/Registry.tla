------------------------------ MODULE Registry ------------------------------
(***************************************************************************)
(* The registry, vac/registry.py and .github/workflows/pages.yml: the scan *)
(* of the issuers' checkouts that writes registry.json (scan_issuer, one   *)
(* step per git call, since each call reads the checkout again), and the   *)
(* pages run that rebuilds every entry from artifacts fetched at their     *)
(* URLs (check_fetched) before the page is deployed.                       *)
(*                                                                         *)
(* Around them: issuers who commit, push and lose commits; maintainers who *)
(* edit registry.json by hand, as SPEC section 6 asks them to when a       *)
(* bundle is challenged, and commit it.  A file is one of a few byte       *)
(* strings, a digest is the bytes it is the digest of, and what the        *)
(* verifier proves of a directory (BundleVerify: AcceptedIsClosed) is that *)
(* the manifest is a sound one and pins exactly the other files.           *)
(***************************************************************************)
EXTENDS Naturals, Sequences, FiniteSets

CONSTANTS
  Repo,       \* issuer repositories
  Issuers,    \* the configured issuers, in order
  Family,     \* the repositories configured with a glob of directories
  Remote,     \* the checkouts that have a remote
  Dir,        \* bundle directories
  File,       \* names inside a bundle directory
  Blob,       \* contents of a file
  Tree,       \* the committed tree of each commit
  Reads,      \* what a blob reads as, when it is a manifest
  Job,        \* pages runs that may be under way at once
  Edit,       \* kinds of hand edit the maintainers make
  QuietScan,  \* nobody moves a HEAD while the scan runs
  Moves,      \* bound: HEAD moves, lost commits and failing fetches
  Edits,      \* bound: hand edits
  Commits     \* bound: commits of registry.json

NoFile == "no file"
Manifest == "vac.json"
MutableRef == "main"
Commit == DOMAIN Tree

Files == [File -> Blob \cup {NoFile}]
Empty == [f \in File |-> NoFile]

ASSUME RegistryAssumption ==
  /\ Manifest \in File
  /\ NoFile \notin Blob /\ MutableRef \notin Commit
  /\ Issuers \in Seq(Repo) /\ Family \subseteq Repo /\ Remote \subseteq Repo
  /\ Tree \in [Commit -> [Dir -> Files]]
  /\ DOMAIN Reads \subseteq Blob
  /\ \A blob \in DOMAIN Reads :
        Reads[blob] \in [pins : Files, sound : BOOLEAN, issuer : Repo,
                         version : {"0.1", "0.2"}, summary : Nat]
  /\ Moves \in Nat /\ Edits \in Nat /\ Commits \in Nat
  /\ Edit \subseteq {"mark", "url", "repin", "drop", "summary"}

VARIABLES
  head,      \* HEAD of each local checkout
  tracked,   \* <<repo, commit>>: on a remote branch, as the checkout knows it
  main,      \* the remote's main branch
  served,    \* <<repo, commit>>: what the raw host answers for
  pc, turn,  \* the scan: its place, and the issuer it is at
  sha,       \* head_sha, from rev-parse
  listing,   \* head_files, from ls-tree
  dirs,      \* bundle directories still to be judged
  here,      \* the directory being materialized
  td,        \* the temporary directory
  found,     \* entries and pending records so far
  file,      \* registry.json in the maintainers' working tree
  committed, \* registry.json on the registry's own main branch
  job,       \* the pages runs
  page,      \* registry.json as deployed
  budget     \* what is left of the bounds

scanVars == <<pc, turn, sha, listing, dirs, here, td, found>>
issuerVars == <<head, tracked, main, served>>
vars == <<issuerVars, scanVars, file, committed, job, page, budget>>

-----------------------------------------------------------------------------
(* verify_bundle over a materialized directory.                            *)
Verifies(files) ==
  /\ files[Manifest] \in DOMAIN Reads
  /\ LET man == Reads[files[Manifest]]
     IN  man.sound /\ \A f \in File \ {Manifest} : files[f] = man.pins[f]

(* _entry: the named reason of a refusal, in the order it is looked for.   *)
Refusal(repo, files) ==
  IF ~Verifies(files) THEN "structural"
  ELSE IF Reads[files[Manifest]].issuer # repo THEN "issuer-mismatch"
  ELSE IF Reads[files[Manifest]].version # "0.2" THEN "version-not-admitted"
  ELSE "none"

Entry(repo, dir, files, pinned) ==
  LET man == Reads[files[Manifest]]
  IN  [repo |-> repo, dir |-> dir, pinned |-> pinned, ref |-> pinned, files |-> files,
       summary |-> man.summary, status |-> "accepted", challenges |-> 0]

Pending(repo, dir, reason) == [repo |-> repo, dir |-> dir, reason |-> reason]

Nothing == [entries |-> {}, pending |-> {}]

(* The name a configured directory goes by before anything is committed.   *)
Promised == "promised"

Init ==
  /\ head \in [Repo -> Commit] /\ main = head
  /\ tracked = {<<r, head[r]>> : r \in Remote} /\ served = tracked
  /\ pc = "idle" /\ turn = 1 /\ sha = MutableRef /\ listing = {} /\ dirs = {}
  /\ here = Promised /\ td = Empty /\ found = Nothing
  /\ file = Nothing /\ committed = Nothing /\ page = Nothing
  /\ job = [j \in Job |-> [pc |-> "idle", doc |-> Nothing, todo |-> {}, ok |-> TRUE]]
  /\ budget = [moves |-> Moves, edits |-> Edits, commits |-> Commits]

-----------------------------------------------------------------------------
(* The issuers.  Any commit can be checked out or made; a push publishes   *)
(* it; a history rewritten or a repository removed takes it off the host.  *)
Spend(what) == budget[what] > 0 /\ budget' = [budget EXCEPT ![what] = @ - 1]

MoveHead(r, c) ==
  /\ Spend("moves")
  /\ QuietScan => pc = "idle"
  /\ head' = [head EXCEPT ![r] = c]
  /\ UNCHANGED <<tracked, main, served, scanVars, file, committed, job, page>>

Push(r) ==
  /\ r \in Remote
  /\ tracked' = tracked \cup {<<r, head[r]>>} /\ served' = served \cup {<<r, head[r]>>}
  /\ main' = [main EXCEPT ![r] = head[r]]
  /\ UNCHANGED <<head, scanVars, file, committed, job, page, budget>>

Vanish(rc) ==
  /\ Spend("moves")
  /\ rc \in served /\ served' = served \ {rc}
  /\ UNCHANGED <<head, tracked, main, scanVars, file, committed, job, page>>

-----------------------------------------------------------------------------
(* The scan: python -m vac.registry.                                       *)
Repository == Issuers[turn]

StartScan ==
  /\ pc = "idle" /\ Issuers # <<>>
  /\ pc' = "resolve"
  /\ UNCHANGED <<issuerVars, turn, sha, listing, dirs, here, td, found,
                 file, committed, job, page, budget>>

Reset ==
  /\ pc' = "idle" /\ turn' = 1 /\ sha' = MutableRef /\ listing' = {} /\ dirs' = {}
  /\ here' = Promised /\ td' = Empty /\ found' = Nothing

(* RegistryError: exit 2 before anything is written.                       *)
Abort == Reset /\ UNCHANGED file

ScanFails ==       \* no checkout there, or a git call that fails
  /\ pc # "idle" /\ Abort
  /\ UNCHANGED <<issuerVars, committed, job, page, budget>>

Resolve ==         \* git rev-parse HEAD
  /\ pc = "resolve"
  /\ sha' = head[Repository] /\ pc' = "contains"
  /\ UNCHANGED <<issuerVars, turn, listing, dirs, here, td, found, file,
                 committed, job, page, budget>>

(* Mutant: the remote branches are not looked at.                          *)
ContainsUnasked ==
  /\ pc = "contains" /\ pc' = "list"
  /\ UNCHANGED <<issuerVars, turn, sha, listing, dirs, here, td, found, file,
                 committed, job, page, budget>>

Contains ==        \* git branch -r --contains head_sha
  /\ pc = "contains"
  /\ IF Repository \in Remote /\ <<Repository, sha>> \notin tracked
     THEN Abort
     ELSE pc' = "list" /\ UNCHANGED <<turn, sha, listing, dirs, here, td, found, file>>
  /\ UNCHANGED <<issuerVars, committed, job, page, budget>>

Committed(c) == {df \in Dir \X File : Tree[c][df[1]][df[2]] # NoFile}

(* Mutant: a promised directory that is not committed goes unrecorded.     *)
ListBlind ==
  /\ pc = "list"
  /\ listing' = Committed(head[Repository])
  /\ dirs' = {df[1] : df \in listing'}
  /\ pc' = "dirs"
  /\ UNCHANGED <<issuerVars, turn, sha, here, td, found, file, committed, job, page, budget>>

List ==            \* git ls-tree -r HEAD
  /\ pc = "list"
  /\ listing' = Committed(head[Repository])
  /\ dirs' = {df[1] : df \in listing'}
  /\ found' = IF dirs' = {} /\ Repository \notin Family
              THEN [found EXCEPT !.pending =
                      @ \cup {Pending(Repository, Promised, "not-committed")}]
              ELSE found
  /\ pc' = "dirs"
  /\ UNCHANGED <<issuerVars, turn, sha, here, td, file, committed, job, page, budget>>

OpenDir(d) ==
  /\ pc = "dirs" /\ d \in dirs
  /\ IF <<d, Manifest>> \in listing
     THEN pc' = "blobs" /\ here' = d /\ UNCHANGED <<dirs, found>>
     ELSE /\ found' = [found EXCEPT !.pending =
                         @ \cup {Pending(Repository, d, "no-manifest")}]
          /\ dirs' = dirs \ {d}
          /\ UNCHANGED <<pc, here>>
  /\ UNCHANGED <<issuerVars, turn, sha, listing, td, file, committed, job, page, budget>>

ReadBlob(f) ==     \* git cat-file blob HEAD:dir/f
  /\ pc = "blobs" /\ <<here, f>> \in listing /\ td[f] = NoFile
  /\ LET blob == Tree[head[Repository]][here][f]
     IN  IF blob = NoFile
         THEN Abort
         ELSE /\ td' = [td EXCEPT ![f] = blob]
              /\ UNCHANGED <<pc, turn, sha, listing, dirs, here, found, file>>
  /\ UNCHANGED <<issuerVars, committed, job, page, budget>>

(* Mutant: one temporary directory serves for all of them.                 *)
JudgeShared ==
  /\ pc = "blobs" /\ \A f \in File : <<here, f>> \in listing => td[f] # NoFile
  /\ LET reason == Refusal(Repository, td)
     IN  found' = IF reason = "none"
                  THEN [found EXCEPT !.entries = @ \cup {Entry(Repository, here, td, sha)}]
                  ELSE [found EXCEPT !.pending = @ \cup {Pending(Repository, here, reason)}]
  /\ dirs' = dirs \ {here} /\ pc' = "dirs" /\ here' = Promised
  /\ UNCHANGED <<issuerVars, turn, sha, listing, td, file, committed, job, page, budget>>

Judge ==
  /\ pc = "blobs" /\ \A f \in File : <<here, f>> \in listing => td[f] # NoFile
  /\ LET reason == Refusal(Repository, td)
     IN  found' = IF reason = "none"
                  THEN [found EXCEPT !.entries = @ \cup {Entry(Repository, here, td, sha)}]
                  ELSE [found EXCEPT !.pending = @ \cup {Pending(Repository, here, reason)}]
  /\ dirs' = dirs \ {here} /\ pc' = "dirs" /\ td' = Empty /\ here' = Promised
  /\ UNCHANGED <<issuerVars, turn, sha, listing, file, committed, job, page, budget>>

(* Mutant: one issuer too many.                                            *)
NextIssuerPast ==
  /\ pc = "dirs" /\ dirs = {} /\ turn <= Len(Issuers)
  /\ turn' = turn + 1 /\ pc' = "resolve" /\ sha' = MutableRef /\ listing' = {}
  /\ UNCHANGED <<issuerVars, dirs, here, td, found, file, committed, job, page, budget>>

NextIssuer ==
  /\ pc = "dirs" /\ dirs = {} /\ turn < Len(Issuers)
  /\ turn' = turn + 1 /\ pc' = "resolve" /\ sha' = MutableRef /\ listing' = {}
  /\ UNCHANGED <<issuerVars, dirs, here, td, found, file, committed, job, page, budget>>

Write ==
  /\ pc = "dirs" /\ dirs = {} /\ turn = Len(Issuers)
  /\ file' = found /\ Reset
  /\ UNCHANGED <<issuerVars, committed, job, page, budget>>

ScanStep ==
  \/ ScanFails \/ Resolve \/ Contains \/ List \/ Judge \/ NextIssuer \/ Write
  \/ \E d \in Dir : OpenDir(d)
  \/ \E f \in File : ReadBlob(f)

-----------------------------------------------------------------------------
(* The maintainers.  A mark is the outcome of a challenge (SPEC section 6);*)
(* the other edits are the mistakes the deploy gate is there for.          *)
Edited(e, kind) ==
  CASE kind = "mark"    -> [e EXCEPT !.status = "invalidated", !.challenges = 1]
    [] kind = "url"     -> [e EXCEPT !.ref = MutableRef]
    [] kind = "repin"   -> [e EXCEPT !.ref = MutableRef, !.pinned = MutableRef]
    [] kind = "drop"    -> [e EXCEPT !.files[CHOOSE f \in File : f # Manifest] = NoFile]
    [] kind = "summary" -> [e EXCEPT !.summary = @ + 1]

HandEdit ==
  /\ Spend("edits")
  /\ \E e \in file.entries, kind \in Edit :
        file' = [file EXCEPT !.entries = (@ \ {e}) \cup {Edited(e, kind)}]
  /\ UNCHANGED <<issuerVars, scanVars, committed, job, page>>

CommitFile ==
  /\ file # committed /\ Spend("commits")
  /\ committed' = file
  /\ UNCHANGED <<issuerVars, scanVars, file, job, page>>

-----------------------------------------------------------------------------
(* A pages run.  Both of its jobs check the same commit out, so what is    *)
(* deployed is the document that was checked.                              *)
Trigger(j) ==
  /\ job[j].pc = "idle"
  /\ job' = [job EXCEPT ![j] = [pc |-> "check", doc |-> committed,
                                todo |-> committed.entries,
                                ok |-> \A e \in committed.entries : e.ref # MutableRef]]
  /\ UNCHANGED <<issuerVars, scanVars, file, committed, page, budget>>

(* Mutant: the URLs are built over the branch, whatever the entry's ref.   *)
FetchedFromMain(e) ==
  LET c == main[e.repo]
  IN  [f \in File |-> IF e.files[f] # NoFile /\ <<e.repo, c>> \in served
                        THEN Tree[c][e.dir][f] ELSE NoFile]

Fetched(e) ==
  LET c == IF e.ref = MutableRef THEN main[e.repo] ELSE e.ref
  IN  [f \in File |-> IF e.files[f] # NoFile /\ <<e.repo, c>> \in served
                        THEN Tree[c][e.dir][f] ELSE NoFile]

(* Mutant: the record is not rebuilt from what was fetched.                *)
RegeneratesBundle(e) == Fetched(e) = e.files /\ Refusal(e.repo, e.files) = "none"

(* An entry regenerates when every artifact is fetched and hashes to its   *)
(* pin, the bundle is admitted, and the record rebuilt from it is the one  *)
(* in registry.json.                                                       *)
Regenerates(e) ==
  /\ Fetched(e) = e.files
  /\ Refusal(e.repo, e.files) = "none"
  /\ Entry(e.repo, e.dir, e.files, e.pinned) = e

CheckEntry(j) ==
  /\ job[j].pc = "check"
  /\ \E e \in job[j].todo :
        job' = [job EXCEPT ![j].todo = @ \ {e}, ![j].ok = @ /\ Regenerates(e)]
  /\ UNCHANGED <<issuerVars, scanVars, file, committed, page, budget>>

FetchFails(j) ==   \* the network's doing: the entry is named, the run goes on
  /\ job[j].pc = "check" /\ Spend("moves")
  /\ \E e \in job[j].todo :
        job' = [job EXCEPT ![j].todo = @ \ {e}, ![j].ok = FALSE]
  /\ UNCHANGED <<issuerVars, scanVars, file, committed, page>>

EndCheck(j) ==
  /\ job[j].pc = "check" /\ job[j].todo = {}
  /\ job' = [job EXCEPT ![j].pc = IF job[j].ok THEN "deploy" ELSE "idle",
                        ![j].doc = IF job[j].ok THEN @ ELSE Nothing,
                        ![j].ok = TRUE]
  /\ UNCHANGED <<issuerVars, scanVars, file, committed, page, budget>>

Deploy(j) ==
  /\ job[j].pc = "deploy"
  /\ page' = job[j].doc
  /\ job' = [job EXCEPT ![j].pc = "idle", ![j].doc = Nothing]
  /\ UNCHANGED <<issuerVars, scanVars, file, committed, budget>>

JobStep(j) == CheckEntry(j) \/ EndCheck(j) \/ Deploy(j)

-----------------------------------------------------------------------------
Issuer == \/ \E r \in Repo, c \in Commit : MoveHead(r, c)
          \/ \E r \in Repo : Push(r)
          \/ \E rc \in Repo \X Commit : Vanish(rc)

Next == \/ Issuer
        \/ StartScan \/ ScanStep
        \/ HandEdit \/ CommitFile
        \/ \E j \in Job : Trigger(j) \/ JobStep(j) \/ FetchFails(j)

(* A scan and a run, once started, go on to their end, and the daily       *)
(* schedule of pages.yml starts a run again and again.  Nothing obliges an *)
(* issuer or a maintainer to act.                                          *)
Fairness == /\ WF_vars(ScanStep)
            /\ \A j \in Job : WF_vars(Trigger(j)) /\ WF_vars(JobStep(j))

Spec == Init /\ [][Next]_vars /\ Fairness

-----------------------------------------------------------------------------
EntryType == [repo : Repo, dir : Dir, pinned : Commit \cup {MutableRef},
              ref : Commit \cup {MutableRef}, files : Files, summary : Nat,
              status : {"accepted", "invalidated"}, challenges : Nat]

Reason == {"structural", "issuer-mismatch", "version-not-admitted", "no-manifest",
           "not-committed"}

Document == [entries : SUBSET EntryType,
             pending : SUBSET [repo : Repo, dir : Dir \cup {Promised}, reason : Reason]]

(* Type invariant.                                                         *)
TypeOK ==
  /\ head \in [Repo -> Commit] /\ main \in [Repo -> Commit]
  /\ tracked \subseteq Repo \X Commit /\ served \subseteq Repo \X Commit
  /\ pc \in {"idle", "resolve", "contains", "list", "dirs", "blobs"}
  /\ IF pc = "idle" THEN turn = 1 ELSE turn \in DOMAIN Issuers
  /\ sha \in Commit \cup {MutableRef} /\ listing \subseteq Dir \X File
  /\ dirs \subseteq Dir /\ here \in Dir \cup {Promised} /\ td \in Files
  /\ (pc = "blobs" => here \in Dir)
  /\ found \in Document /\ file \in Document /\ committed \in Document /\ page \in Document
  /\ job \in [Job -> [pc : {"idle", "check", "deploy"}, doc : Document,
                      todo : SUBSET EntryType, ok : BOOLEAN]]
  /\ budget \in [{"moves", "edits", "commits"} -> Nat]

(* The page shows only what a stranger could have fetched and verified:    *)
(* each entry is addressed at a commit, never at a branch; each artifact   *)
(* it lists is what that commit holds; the artifacts verify and are        *)
(* admitted; and the summary shown is the manifest's.  Whatever the scan   *)
(* read, the maintainers edited, or the issuers moved meanwhile.           *)
Earned(e) ==
  /\ e.pinned \in Commit /\ e.ref = e.pinned
  /\ \A f \in File : e.files[f] # NoFile => e.files[f] = Tree[e.pinned][e.dir][f]
  /\ Refusal(e.repo, e.files) = "none"
  /\ e.summary = Reads[e.files[Manifest]].summary

PageIsEarned == \A e \in page.entries : Earned(e)

(* The commit an entry is pinned to is the one its bytes were read from    *)
(* (the comment in _entry, vac/registry.py): it holds exactly that bundle. *)
PinnedIsRead == \A e \in file.entries : e.files = Tree[e.pinned][e.dir]

(* Nothing is registered that only this machine can fetch: every pinned    *)
(* commit of a checkout with a remote had been pushed.                     *)
PinnedIsPushed ==
  \A e \in file.entries : e.repo \in Remote => <<e.repo, e.pinned>> \in tracked

(* The scan is mechanical: what it writes is a function of the committed   *)
(* trees alone, with each committed directory of each configured issuer    *)
(* either accepted or pending with its reason, a promised directory that   *)
(* is not there pending too, and nothing left over from an earlier scan.   *)
Bundles == {rd \in {Issuers[i] : i \in DOMAIN Issuers} \X Dir :
              Tree[head[rd[1]]][rd[2]] # Empty}

Held(rd) == Tree[head[rd[1]]][rd[2]]

RegistryOfHeads ==
  [entries |-> {Entry(rd[1], rd[2], Held(rd), head[rd[1]])
                  : rd \in {x \in Bundles : Refusal(x[1], Held(x)) = "none"}},
   pending |->
     {Pending(rd[1], rd[2], IF Held(rd)[Manifest] = NoFile THEN "no-manifest"
                            ELSE Refusal(rd[1], Held(rd)))
        : rd \in {x \in Bundles : Refusal(x[1], Held(x)) # "none"}}
     \cup {Pending(r, Promised, "not-committed")
             : r \in {Issuers[i] : i \in DOMAIN Issuers}
                       \ (Family \cup {rd[1] : rd \in Bundles})}]

ScanIsMechanical == [][Write => file' = RegistryOfHeads]_vars

(* A registry that is earned, unchallenged and still on the host reaches   *)
(* the page and stays on it, whichever run finishes last and wherever the  *)
(* issuers' branches have moved, as long as runs keep being started.       *)
Standing(e) == /\ Earned(e) /\ e.status = "accepted" /\ e.challenges = 0
               /\ <<e.repo, e.pinned>> \in served

PageConverges ==
  <>[](\A e \in committed.entries : Standing(e)) => <>[](page = committed)

(* An invalidated entry stays visible as a dead one (SPEC section 6): once *)
(* the mark is committed for good, the page comes to show it.              *)
DeadEntryStaysVisible ==
  <>[](\E e \in committed.entries : e.status = "invalidated") =>
    <>(\E e \in page.entries : e.status = "invalidated")

(* The commit the page shows as the fetched one is claimed to hold a       *)
(* verifying bundle (index.html:93-94).                                    *)
PinnedCommitVerifies == \A e \in page.entries : Verifies(Tree[e.pinned][e.dir])
=============================================================================

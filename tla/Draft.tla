------------------------------- MODULE Draft --------------------------------
(***************************************************************************)
(* The draft tool, vac/draft.py, on a live directory: it lists the files,  *)
(* hashes them one after the other, asks git for HEAD and then for the     *)
(* state of the tree, and writes vac.json.  Between these steps a person   *)
(* changes files, commits, or writes a manifest by hand; afterwards the    *)
(* person replaces the markers, or deletes the draft to have another.      *)
(***************************************************************************)
EXTENDS BundleFiles

CONSTANTS
  Ignored,   \* paths git ignores
  Object,    \* the text of a manifest
  Edits,     \* bound: changes to files
  Commits    \* bound: commits

NoCommit == 0

Git == <<".git", "HEAD">>   \* a file of a repository's own

ASSUME DraftAssumption ==
  /\ Git \in Ignored /\ Ignored \subseteq Path /\ Object \in Seq(Char)
  /\ Edits \in Nat /\ Commits \in Nat

VARIABLES
  dir,      \* the issuer's directory
  repo,     \* git: whether the directory is in a repository, whether that has
            \* a remote that names an issuer, and its commits, HEAD the last
  draft,    \* python -m vac.draft, under way
  authored, \* the fields of vac.json a person has filled in
  budget    \* what is left of the bounds

draftVars == <<dir, repo, draft, authored, budget>>

NotDrafting == [pc |-> "idle", todo |-> {}, pins |-> <<>>, commit |-> NoCommit,
                warned |-> FALSE, untouched |-> TRUE, overtaken |-> FALSE]

IsPins(pins) == DOMAIN pins \subseteq Path /\ \A p \in DOMAIN pins : pins[p] \in Seq(Char)

IsManifest(file) ==
  /\ DOMAIN file = {"kind", "text", "sound", "pins", "commit", "todo"}
  /\ file.kind = "manifest" /\ file.text \in Seq(Char) /\ file.sound \in BOOLEAN
  /\ IsPins(file.pins) /\ file.commit \in Nat /\ file.todo \subseteq Field

IsDirectory(files) ==
  /\ files = [p \in DOMAIN files |-> files[p]] /\ DOMAIN files \subseteq Path
  /\ \A p \in DOMAIN files : IF p = Manifest THEN IsManifest(files[p])
                            ELSE files[p] \in [kind : {"data", "link"}, text : Seq(Char)]

IsRepository(r) ==
  /\ DOMAIN r = {"there", "remote", "commits"}
  /\ r.there \in BOOLEAN /\ r.remote \in BOOLEAN
  /\ r.commits \in Seq(Range(r.commits))
  /\ \A i \in DOMAIN r.commits : IsDirectory(r.commits[i])

(* Any directory, and a manifest that no draft wrote is a person's.        *)
DraftInit ==
  /\ IsDirectory(dir) /\ IsRepository(repo)
  /\ draft = NotDrafting
  /\ authored = IF Manifest \in DOMAIN dir THEN Field ELSE {}
  /\ budget \in [edits : 0..Edits, commits : 0..Commits]

Spend(what) == budget[what] > 0 /\ budget' = [budget EXCEPT ![what] = @ - 1]

-----------------------------------------------------------------------------
(* git: what a commit would hold, HEAD, and git status --porcelain.        *)
Tracked(files) == [p \in DOMAIN files \ Ignored |-> files[p]]

Newest == IF ~repo.there THEN NoCommit ELSE Len(repo.commits)

(* Mutant: git diff, which does not see files that were never added.       *)
DirtyByDiff ==
  Newest # NoCommit /\ \E p \in DOMAIN repo.commits[Newest] :
                          p \notin DOMAIN dir \/ dir[p] # repo.commits[Newest][p]

Dirty == repo.there /\ (Newest = NoCommit \/ Tracked(dir) # repo.commits[Newest])

-----------------------------------------------------------------------------
(* The person.  Whatever changes while a draft is under way is noted, and  *)
(* so is that a manifest was written meanwhile.                            *)
Touch == draft' = [draft EXCEPT !.untouched = draft.pc = "idle"]

(* vac.json written by hand, from what is there: right or wrong, and every *)
(* field of it the person's.                                               *)
ByHand(sound) ==
  [kind |-> "manifest", text |-> Object, sound |-> sound,
   pins |-> [p \in DOMAIN dir |-> dir[p].text], commit |-> Newest, todo |-> {}]

WriteManifest ==
  /\ Manifest \notin DOMAIN dir /\ Spend("edits")
  /\ \E sound \in BOOLEAN : dir' = With(dir, Manifest, ByHand(sound))
  /\ authored' = Field
  /\ draft' = [draft EXCEPT !.untouched = draft.pc = "idle", !.overtaken = draft.pc # "idle"]
  /\ UNCHANGED repo

Put(p, content) ==
  /\ p \notin {Manifest, Git} /\ Spend("edits") /\ Touch
  /\ dir' = With(dir, p, content)
  /\ UNCHANGED <<repo, authored>>

Delete(p) ==
  /\ p \in DOMAIN dir \ {Git} /\ Spend("edits") /\ Touch
  /\ dir' = Without(dir, p)
  /\ authored' = IF p = Manifest THEN {} ELSE authored
  /\ UNCHANGED repo

Commit ==
  /\ repo.there /\ Spend("commits") /\ Touch
  /\ repo' = [repo EXCEPT !.commits = Append(@, Tracked(dir))]
  /\ UNCHANGED <<dir, authored>>

(* One marker is replaced by what it asks for, right or wrong.             *)
Author(field) ==
  /\ Manifest \in DOMAIN dir /\ field \in dir[Manifest].todo
  /\ \E sound \in BOOLEAN :
       dir' = [dir EXCEPT ![Manifest].todo = @ \ {field}, ![Manifest].sound = sound]
  /\ authored' = authored \cup {field}
  /\ UNCHANGED <<repo, draft, budget>>

-----------------------------------------------------------------------------
(* Mutant: whatever is called vac.json is left out, wherever it is.        *)
ArtifactsByName(files) == {p \in DOMAIN files : p[Len(p)] # "vac.json"}

(* scan_artifacts: is_file follows links.                                  *)
Artifacts(files) == DOMAIN files \ {Manifest}

(* Mutant: a manifest that is there is no obstacle.                        *)
RefusesGitOnly == Git \in DOMAIN dir

(* main, before anything is read: a manifest that is there already, or a   *)
(* repository inside.                                                      *)
RefusesDraft == {Manifest, Git} \cap DOMAIN dir # {}

StartDraft ==
  /\ draft.pc = "idle" /\ ~RefusesDraft
  /\ draft' = [NotDrafting EXCEPT !.pc = "hash", !.todo = Artifacts(dir)]
  /\ UNCHANGED <<dir, repo, authored, budget>>

(* A file that has gone since it was listed raises.                        *)
HashFile(p) ==
  /\ draft.pc = "hash" /\ p \in draft.todo
  /\ draft' = IF p \in DOMAIN dir
              THEN [draft EXCEPT !.todo = @ \ {p}, !.pins = With(draft.pins, p, dir[p].text)]
              ELSE NotDrafting
  /\ UNCHANGED <<dir, repo, authored, budget>>

(* git_facts: HEAD first.  A directory without artifacts is refused.       *)
AskHead ==
  /\ draft.pc = "hash" /\ draft.todo = {}
  /\ draft' = IF DOMAIN draft.pins = {} THEN NotDrafting
              ELSE [draft EXCEPT !.pc = "status", !.commit = Newest]
  /\ UNCHANGED <<dir, repo, authored, budget>>

AskStatus ==
  /\ draft.pc = "status"
  /\ draft' = [draft EXCEPT !.pc = "write", !.warned = Dirty /\ draft.commit # NoCommit]
  /\ UNCHANGED <<dir, repo, authored, budget>>

(* Mutant: a commit that cannot be derived is left blank.                  *)
BlankCommit(pins, commit, remote) ==
  [kind |-> "manifest", text |-> Object, sound |-> TRUE, pins |-> pins, commit |-> commit,
   todo |-> Judgment \cup (IF remote THEN {} ELSE {"issuer"})]

(* draft_manifest: what git did not say is a marker too.                   *)
Drafted(pins, commit, remote) ==
  [kind |-> "manifest", text |-> Object, sound |-> TRUE, pins |-> pins, commit |-> commit,
   todo |-> Judgment \cup (IF remote THEN {} ELSE {"issuer"})
                     \cup (IF commit = NoCommit THEN {"issuer_commit"} ELSE {})]

WriteDraft ==
  /\ draft.pc = "write"
  /\ dir' = With(dir, Manifest, Drafted(draft.pins, draft.commit,
                                        repo.there /\ repo.remote))
  /\ draft' = NotDrafting /\ authored' = {}
  /\ UNCHANGED <<repo, budget>>

DraftStep ==
  StartDraft \/ (\E p \in Path : HashFile(p)) \/ AskHead \/ AskStatus \/ WriteDraft

PersonStep ==
  \/ \E p \in Path, text \in Text : Put(p, Data(text)) \/ Put(p, Link(text))
  \/ WriteManifest
  \/ \E p \in Path : Delete(p)
  \/ \E field \in Field : Author(field)
  \/ Commit

DraftNext == DraftStep \/ PersonStep

-----------------------------------------------------------------------------
DraftTypeOK ==
  /\ IsDirectory(dir)
  /\ IsRepository(repo)
  /\ DOMAIN draft = DOMAIN NotDrafting
  /\ draft.pc \in {"idle", "hash", "status", "write"}
  /\ draft.todo \subseteq Path /\ IsPins(draft.pins) /\ draft.commit \in Nat
  /\ {draft.warned, draft.untouched, draft.overtaken} \subseteq BOOLEAN
  /\ authored \subseteq Field
  /\ budget \in [edits : 0..Edits, commits : 0..Commits]

(* What a person has written into a manifest is not the draft tool's to    *)
(* undo (main, vac/draft.py: drafting over an existing manifest would      *)
(* destroy authored judgment), a manifest aside that was written by hand   *)
(* while the tool was at work: main asks for one once, before it hashes,   *)
(* and writes at the end without asking again.                             *)
AuthoredSurvives ==
  [][authored # {} /\ ~draft.overtaken /\ DraftStep => UNCHANGED <<dir, authored>>]_draftVars

(* A draft pins exactly the closure the verifier will demand (the docstring*)
(* of scan_artifacts): nobody having touched the directory meanwhile, the  *)
(* verifier misses nothing, finds nothing more and disputes no digest.     *)
Disputed == {"missing-artifact", "sha256-mismatch", "unlisted-file"}

DraftIsTheClosure ==
  draft.pc = "write" /\ draft.untouched =>
    LET man == Drafted(draft.pins, draft.commit, FALSE)
    IN  \A reason \in ArtifactFailures(With(dir, Manifest, man), man, MaxDepth) :
           reason[1] \in Disputed => reason[2] \in Odd

(* A draft that names a commit without a warning names one that holds the  *)
(* bytes it pins, those aside that git was told to ignore (the dirty-tree  *)
(* warning of main).                                                       *)
UnwarnedIsCommitted ==
  draft.pc = "write" /\ draft.untouched /\ draft.commit # NoCommit /\ ~draft.warned =>
    \A p \in DOMAIN draft.pins \ Ignored :
       /\ p \in DOMAIN repo.commits[draft.commit]
       /\ repo.commits[draft.commit][p].text = draft.pins[p]
=============================================================================

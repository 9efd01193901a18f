-------------------------- MODULE SubmissionProofs --------------------------
(* Theorems about Submission, for any directories, archives, texts, limits *)
(* and hosts.                                                              *)
EXTENDS Submission, JsonTextProofs, FiniteSetTheorems, TLAPS

-----------------------------------------------------------------------------
(* Files and sequences.                                                    *)

(* A file is put into a directory, and taken out of it.                    *)
LEMMA WithAndWithout ==
  ASSUME NEW files, NEW p, NEW content
  PROVE  /\ DOMAIN With(files, p, content) = DOMAIN files \cup {p}
         /\ With(files, p, content)[p] = content
         /\ \A q \in DOMAIN files \ {p} : With(files, p, content)[q] = files[q]
         /\ DOMAIN Without(files, p) = DOMAIN files \ {p}
         /\ \A q \in DOMAIN files \ {p} : Without(files, p)[q] = files[q]
BY DEF With, Without

(* A sequence is one over its own elements.                                *)
LEMMA OverItsRange == ASSUME NEW S, NEW s \in Seq(S) PROVE s \in Seq(Range(s))
<1>1. Len(s) \in Nat /\ DOMAIN s = 1..Len(s) /\ s = [i \in 1..Len(s) |-> s[i]]
  OBVIOUS
<1>2. \A i \in 1..Len(s) : s[i] \in Range(s)
  BY <1>1 DEF Range
<1>3. [i \in 1..Len(s) |-> s[i]] \in [1..Len(s) -> Range(s)]
  BY <1>2
<1>. QED BY <1>1, <1>3

(* One more commit leaves a repository a repository.                       *)
LEMMA CommitTyped ==
  ASSUME NEW s, s \in Seq(Range(s)), NEW x
  PROVE  /\ Append(s, x) \in Seq(Range(Append(s, x)))
         /\ \A i \in DOMAIN Append(s, x) : 
              \/ Append(s, x)[i] = x
              \/ i \in DOMAIN s /\ Append(s, x)[i] = s[i]
<1>1. s \in Seq(Range(s) \cup {x})
  OBVIOUS
<1>2. Append(s, x) \in Seq(Range(s) \cup {x})
  BY <1>1
<1>3. /\ Len(Append(s, x)) = Len(s) + 1
      /\ \A i \in 1..(Len(s) + 1) : Append(s, x)[i] = IF i <= Len(s) THEN s[i] ELSE x
  BY <1>1
<1>4. DOMAIN Append(s, x) = 1..(Len(s) + 1) /\ DOMAIN s = 1..Len(s) /\ Len(s) \in Nat
  BY <1>2, <1>3
<1>5. Append(s, x) \in Seq(Range(Append(s, x)))
  BY <1>2, OverItsRange
<1>6. ASSUME NEW i \in DOMAIN Append(s, x), Append(s, x)[i] # x
      PROVE  i \in DOMAIN s /\ Append(s, x)[i] = s[i]
  BY <1>3, <1>4, <1>6
<1>. QED BY <1>5, <1>6

-----------------------------------------------------------------------------
(* tar.                                                                    *)

(* The paths of a directory can be put in a sequence.                      *)
LEMMA Enumerated ==
  ASSUME NEW S, IsFiniteSet(S)
  PROVE  SetToSeq(S) \in Seq(S)
<1>1. Cardinality(S) \in Nat /\ ExistsBijection(1..Cardinality(S), S)
  BY FS_CardinalityType
<1>2. PICK f \in [1..Cardinality(S) -> S] : IsInjective(f)
  <2>1. PICK f \in Bijection(1..Cardinality(S), S) : TRUE
    BY <1>1 DEF ExistsBijection
  <2>. QED BY <2>1 DEF Bijection, Injection, IsInjective
<1>3. SetToSeq(S) \in [1..Cardinality(S) -> S]
  BY <1>2 DEF SetToSeq
<1>. QED BY <1>1, <1>3

(* A sequence of one.                                                      *)
LEMMA Single == ASSUME NEW S, NEW x \in S PROVE <<x>> \in Seq(S)
OBVIOUS

(* Whatever is in a directory has a text.                                  *)
LEMMA TextsTyped ==
  ASSUME NEW files, IsDirectory(files)
  PROVE  \A p \in DOMAIN files : files[p].text \in Seq(Char)
BY DEF IsDirectory, IsManifest

(* A tar of a directory is an archive.                                     *)
LEMMA PackedIsArchive ==
  ASSUME NEW files, IsDirectory(files), NEW prefix \in {<<>>, <<BundleName>>}
  PROVE  IsArchive([members |-> Packed(files, prefix), bytes |-> "whole"])
<1>. DEFINE paths == SetToSeq(DOMAIN files)
            tail  == [i \in DOMAIN paths |-> Member(prefix \o paths[i], files[paths[i]])]
            all   == {Root(prefix)} \cup Range(tail)
<1>1. paths \in Seq(DOMAIN files) /\ DOMAIN files \subseteq Path
  <2>1. IsFiniteSet(DOMAIN files)
    BY FilesAssumption, FS_Subset DEF IsDirectory
  <2>. QED BY <2>1, Enumerated DEF IsDirectory
<1>2. Len(paths) \in Nat /\ DOMAIN paths = 1..Len(paths)
  BY <1>1
<1>3. tail \in Seq(all)
  <2>1. \A i \in 1..Len(paths) : tail[i] \in all
    BY <1>2 DEF Range
  <2>2. tail \in [1..Len(paths) -> all]
    BY <1>2, <2>1
  <2>. QED BY <1>2, <2>2, SeqDef
<1>4. <<Root(prefix)>> \in Seq(all)
  OBVIOUS
<1>5. Packed(files, prefix) = <<Root(prefix)>> \o tail
  BY DEF Packed
<1>6. Packed(files, prefix) \in Seq(all)
  BY <1>3, <1>4, <1>5
<1>7. prefix \in Seq(STRING)
  <2>1. <<>> \in Seq(STRING)
    OBVIOUS
  <2>2. <<BundleName>> \in Seq(STRING)
    BY NameAssumption, Single
  <2>3. CASE prefix = <<>>
    BY <2>1, <2>3
  <2>4. CASE prefix = <<BundleName>>
    BY <2>2, <2>4
  <2>. QED BY <2>3, <2>4
<1>8. IsMember(Root(prefix))
  <2>1. <<>> \in Seq(Char)
    OBVIOUS
  <2>. QED BY <1>7, <2>1 DEF Root, Data, IsMember
<1>9. \A i \in DOMAIN paths : IsMember(tail[i])
  <2>. SUFFICES ASSUME NEW i \in DOMAIN paths PROVE IsMember(tail[i])
    OBVIOUS
  <2>1. paths[i] \in Seq(STRING) /\ paths[i] \in DOMAIN files
    BY <1>1, <1>2, FilesAssumption
  <2>2. prefix \o paths[i] \in Seq(STRING)
    BY <2>1, <1>7
  <2>3. files[paths[i]].text \in Seq(Char)
    BY <2>1, TextsTyped
  <2>. QED BY <2>2, <2>3 DEF Member, IsMember
<1>10. \A m \in all : IsMember(m)
  BY <1>8, <1>9 DEF Range
<1>11. \A i \in DOMAIN Packed(files, prefix) : Packed(files, prefix)[i] \in all
  BY <1>6
<1>. QED BY <1>6, <1>10, <1>11, OverItsRange DEF IsArchive

-----------------------------------------------------------------------------
(* Types: the directory, git and the draft.                                *)

(* Nothing pinned is a set of pins, and one more pin leaves it one.        *)
LEMMA PinsTyped ==
  /\ IsPins(<<>>)
  /\ \A pins : IsPins(pins) => \A p \in Path, text \in Seq(Char) : IsPins(With(pins, p, text))
<1>1. IsPins(<<>>)
  BY DEF IsPins
<1>2. ASSUME NEW pins, IsPins(pins), NEW p \in Path, NEW text \in Seq(Char)
      PROVE  IsPins(With(pins, p, text))
  BY <1>2 DEF IsPins, With
<1>. QED BY <1>1, <1>2

(* A manifest of the draft tool is a manifest.                             *)
LEMMA DraftedTyped ==
  ASSUME NEW pins, IsPins(pins), NEW commit \in Nat, NEW remote \in BOOLEAN
  PROVE  IsManifest(Drafted(pins, commit, remote))
<1>1. Drafted(pins, commit, remote).todo \subseteq Field
  BY DEF Drafted, Field
<1>. QED BY <1>1, DraftAssumption DEF Drafted, IsManifest

(* And so is what a person writes from the files that are there.           *)
LEMMA ByHandTyped ==
  ASSUME IsDirectory(dir), IsRepository(repo), NEW sound \in BOOLEAN
  PROVE  IsManifest(ByHand(sound))
<1>. DEFINE pins == [p \in DOMAIN dir |-> dir[p].text]
<1>1. IsPins(pins)
  BY DEF IsPins, IsDirectory, IsManifest
<1>2. Newest \in Nat
  BY DEF Newest, NoCommit, IsRepository
<1>. HIDE DEF pins
<1>3. ByHand(sound) = [kind |-> "manifest", text |-> Object, sound |-> sound, pins |-> pins,
                       commit |-> Newest, todo |-> {}]
  BY DEF ByHand, pins
<1>. QED BY <1>1, <1>2, <1>3, DraftAssumption DEF IsManifest

(* Directories stay directories when a file is put, taken out or committed.*)
LEMMA DirectoryTyped ==
  ASSUME NEW files, IsDirectory(files)
  PROVE  /\ \A p \in Path : IsDirectory(Without(files, p))
         /\ \A p \in Path \ {Manifest} : \A content \in [kind : {"data", "link"}, text : Seq(Char)] :
               IsDirectory(With(files, p, content))
         /\ \A man : IsManifest(man) => IsDirectory(With(files, Manifest, man))
         /\ IsDirectory(Tracked(files))
<1>1. \A p \in Path : IsDirectory(Without(files, p))
  BY DEF IsDirectory, Without
<1>2. ASSUME NEW p \in Path \ {Manifest}, NEW content \in [kind : {"data", "link"}, text : Seq(Char)]
      PROVE  IsDirectory(With(files, p, content))
  BY DEF IsDirectory, With
<1>3. ASSUME NEW man, IsManifest(man) PROVE IsDirectory(With(files, Manifest, man))
  BY <1>3, FilesAssumption DEF IsDirectory, With
<1>4. IsDirectory(Tracked(files))
  BY DEF IsDirectory, Tracked
<1>. QED BY <1>1, <1>2, <1>3, <1>4

(* The draft tool.                                                         *)
LEMMA DraftStepTyped == DraftTypeOK /\ DraftStep => DraftTypeOK'
<1>. SUFFICES ASSUME DraftTypeOK, DraftStep PROVE DraftTypeOK'
  OBVIOUS
<1>. USE DEF DraftTypeOK
<1>1. /\ IsPins(NotDrafting.pins) /\ NotDrafting.todo \subseteq Path /\ NotDrafting.commit \in Nat
      /\ {NotDrafting.warned, NotDrafting.untouched, NotDrafting.overtaken} \subseteq BOOLEAN
      /\ NotDrafting.pc = "idle"
  BY PinsTyped DEF NotDrafting, NoCommit
<1>2. CASE StartDraft
  <2>1. Artifacts(dir) \subseteq Path
    BY DEF Artifacts, IsDirectory
  <2>. QED BY <1>1, <1>2, <2>1 DEF StartDraft
<1>3. ASSUME NEW p \in Path, HashFile(p) PROVE DraftTypeOK'
  <2>1. CASE p \in DOMAIN dir
    <3>1. dir[p].text \in Seq(Char)
      BY <2>1 DEF IsDirectory, IsManifest
    <3>2. IsPins(With(draft.pins, p, dir[p].text))
      BY <3>1, PinsTyped
    <3>. QED BY <1>3, <2>1, <3>2 DEF HashFile, NotDrafting
  <2>2. CASE p \notin DOMAIN dir
    BY <1>1, <1>3, <2>2 DEF HashFile
  <2>. QED BY <2>1, <2>2
<1>4. CASE AskHead
  <2>1. Newest \in Nat
    BY DEF Newest, NoCommit, IsRepository
  <2>. QED BY <1>1, <1>4, <2>1 DEF AskHead, NotDrafting
<1>5. CASE AskStatus
  BY <1>5 DEF AskStatus, NotDrafting
<1>6. CASE WriteDraft
  <2>1. IsManifest(Drafted(draft.pins, draft.commit, repo.there /\ repo.remote))
    BY DraftedTyped
  <2>2. IsDirectory(dir')
    BY <1>6, <2>1, DirectoryTyped DEF WriteDraft
  <2>. QED BY <1>1, <1>6, <2>2 DEF WriteDraft, Field
<1>. QED BY <1>2, <1>3, <1>4, <1>5, <1>6 DEF DraftStep

(* The person.                                                             *)
LEMMA PersonStepTyped == DraftTypeOK /\ PersonStep => DraftTypeOK'
<1>. SUFFICES ASSUME DraftTypeOK, PersonStep PROVE DraftTypeOK'
  OBVIOUS
<1>. USE DEF DraftTypeOK
<1>1. ASSUME NEW what \in {"edits", "commits"}, Spend(what)
      PROVE  budget' \in [edits : 0..Edits, commits : 0..Commits]
  BY <1>1, DraftAssumption DEF Spend
<1>2. Touch => /\ DOMAIN draft' = DOMAIN NotDrafting
               /\ draft'.pc = draft.pc /\ draft'.todo = draft.todo /\ draft'.pins = draft.pins
               /\ draft'.commit = draft.commit /\ draft'.warned = draft.warned
               /\ draft'.untouched \in BOOLEAN /\ draft'.overtaken = draft.overtaken
  BY DEF Touch, NotDrafting
<1>3. ASSUME NEW p \in Path, NEW text \in Text, Put(p, Data(text)) \/ Put(p, Link(text))
      PROVE  DraftTypeOK'
  <2>1. {Data(text), Link(text)} \subseteq [kind : {"data", "link"}, text : Seq(Char)]
    BY FilesAssumption DEF Data, Link
  <2>2. IsDirectory(dir')
    BY <1>3, <2>1, DirectoryTyped DEF Put
  <2>. QED BY <1>1, <1>2, <1>3, <2>2 DEF Put
<1>4. ASSUME NEW p \in Path, Delete(p) PROVE DraftTypeOK'
  <2>1. IsDirectory(dir')
    BY <1>4, DirectoryTyped DEF Delete
  <2>. QED BY <1>1, <1>2, <1>4, <2>1 DEF Delete
<1>5. ASSUME NEW field \in Field, Author(field) PROVE DraftTypeOK'
  <2>1. PICK sound \in BOOLEAN :
          dir' = [dir EXCEPT ![Manifest].todo = @ \ {field}, ![Manifest].sound = sound]
    BY <1>5 DEF Author
  <2>2. IsManifest(dir[Manifest]) /\ Manifest \in DOMAIN dir
    BY <1>5 DEF Author, IsDirectory
  <2>3. IsManifest(dir'[Manifest])
    BY <2>1, <2>2 DEF IsManifest
  <2>4. IsDirectory(dir')
    BY <2>1, <2>2, <2>3 DEF IsDirectory
  <2>. QED BY <1>5, <2>4 DEF Author
<1>6. CASE Commit
  <2>1. IsDirectory(Tracked(dir))
    BY DirectoryTyped
  <2>2. IsRepository(repo')
    <3>1. /\ DOMAIN repo' = DOMAIN repo /\ repo'.there = repo.there /\ repo'.remote = repo.remote
          /\ repo'.commits = Append(repo.commits, Tracked(dir))
      BY <1>6 DEF Commit, IsRepository
    <3>2. repo.commits \in Seq(Range(repo.commits)) /\ \A i \in DOMAIN repo.commits : IsDirectory(repo.commits[i])
      BY DEF IsRepository
    <3>3. \A i \in DOMAIN repo'.commits : IsDirectory(repo'.commits[i])
      BY <2>1, <3>1, <3>2, CommitTyped
    <3>4. repo'.commits \in Seq(Range(repo'.commits))
      BY <3>1, <3>2, CommitTyped
    <3>. QED BY <3>1, <3>3, <3>4 DEF IsRepository
  <2>. QED BY <1>1, <1>2, <1>6, <2>2 DEF Commit
<1>7. CASE WriteManifest
  <2>1. /\ DOMAIN draft' = DOMAIN NotDrafting
        /\ draft'.pc = draft.pc /\ draft'.todo = draft.todo /\ draft'.pins = draft.pins
        /\ draft'.commit = draft.commit /\ draft'.warned = draft.warned
        /\ {draft'.untouched, draft'.overtaken} \subseteq BOOLEAN
    BY <1>7 DEF WriteManifest, NotDrafting
  <2>2. PICK sound \in BOOLEAN : dir' = With(dir, Manifest, ByHand(sound))
    BY <1>7 DEF WriteManifest
  <2>3. IsManifest(ByHand(sound))
    BY ByHandTyped
  <2>4. IsDirectory(dir')
    BY <2>2, <2>3, DirectoryTyped
  <2>. QED BY <1>1, <1>7, <2>1, <2>4 DEF WriteManifest
<1>. QED BY <1>3, <1>4, <1>5, <1>6, <1>7 DEF PersonStep

-----------------------------------------------------------------------------
(* Types: the archive and the verifier.                                    *)

(* The directories above a path are paths, none of them the path itself.   *)
LEMMA ParentsTyped ==
  ASSUME NEW path \in Seq(STRING)
  PROVE  Parents(path) \subseteq Seq(STRING) /\ path \notin Parents(path)
<1>1. \A n \in 0..(Len(path) - 1) : SubSeq(path, 1, n) \in Seq(STRING) /\ Len(SubSeq(path, 1, n)) = n
  OBVIOUS
<1>. QED BY <1>1 DEF Parents

(* Whatever is reported, the report is one.                                *)
LEMMA ReportTyped ==
  ASSUME NEW target \in {"directory", "archive"}, NEW files, NEW reasons, Report(target, files, reasons)
  PROVE  outcome'.target \in {"none", "directory", "archive"} /\ outcome'.exit \in {0, 1}
BY DEF Report

(* An archive has a number of members.                                     *)
LEMMA MembersCounted ==
  ASSUME NEW a, IsArchive(a)
  PROVE  Len(a.members) \in Nat /\ DOMAIN a.members = 1..Len(a.members)
<1>1. a.members \in Seq(Range(a.members))
  BY DEF IsArchive
<1>. QED BY <1>1

(* A refusal, wherever it comes from.                                      *)
LEMMA RefusalTyped == IntakeTypeOK /\ RefuseArchive => IntakeTypeOK'
<1>. SUFFICES ASSUME IntakeTypeOK, RefuseArchive PROVE IntakeTypeOK'
  OBVIOUS
<1>1. outcome'.target \in {"none", "directory", "archive"} /\ outcome'.exit \in {0, 1}
  BY ReportTyped DEF RefuseArchive
<1>2. /\ DOMAIN job' = DOMAIN job /\ job'.pc = "idle" /\ job'.at = job.at /\ job'.td = job.td
      /\ job'.dirs = job.dirs /\ job'.outside = job.outside
      /\ archive' = archive /\ host' = host
  BY DEF RefuseArchive, IntakeTypeOK, NotJudging
<1>. QED BY <1>1, <1>2 DEF IntakeTypeOK

(* One member is written, skipped or refused.                              *)
LEMMA ExtractTyped == IntakeTypeOK /\ ExtractMember => IntakeTypeOK'
<1>. SUFFICES ASSUME IntakeTypeOK, ExtractMember, ~RefuseArchive PROVE IntakeTypeOK'
  BY RefusalTyped
<1>. DEFINE member == archive.members[job.at]
            path   == Part(member.name, host.flavour)
            on     == [job EXCEPT !.at = @ + 1]
<1>1. /\ Len(archive.members) \in Nat
      /\ DOMAIN archive.members = 1..Len(archive.members)
      /\ job.at \in 1..Len(archive.members)
  <2>1. Len(archive.members) \in Nat /\ DOMAIN archive.members = 1..Len(archive.members)
    BY MembersCounted DEF IntakeTypeOK
  <2>. QED BY <2>1 DEF IntakeTypeOK, ExtractMember
<1>2. path \in Seq(STRING) /\ Parents(path) \subseteq Seq(STRING) /\ path \notin Parents(path)
  <2>1. path \in Seq(STRING)
    BY <1>1 DEF IntakeTypeOK, IsArchive, IsMember, IsHost, Part
  <2>. QED BY <2>1, ParentsTyped
<1>3. /\ DOMAIN on = DOMAIN job /\ on.pc = job.pc /\ on.at = job.at + 1 /\ on.td = job.td
      /\ on.dirs = job.dirs /\ on.outside = job.outside
  BY DEF IntakeTypeOK, NotJudging
<1>4. /\ archive' = archive /\ outcome' = outcome /\ host' = host
      /\ \/ job' = [on EXCEPT !.outside = TRUE]
         \/ job' = on
         \/ path \notin DOMAIN job.td /\ ~Blocked(path)
            /\ job' = [on EXCEPT !.dirs = @ \cup Parents(path) \cup {path}]
         \/ path \notin job.dirs /\ ~Blocked(path)
            /\ job' = [on EXCEPT !.td = With(@, path, member.content), !.dirs = @ \cup Parents(path)]
  BY DEF ExtractMember
<1>5. /\ DOMAIN job' = DOMAIN NotJudging /\ job'.pc = job.pc /\ job'.at = job.at + 1
      /\ job'.outside \in BOOLEAN
  BY <1>3, <1>4 DEF IntakeTypeOK, NotJudging
<1>6. /\ DOMAIN job'.td \cup job'.dirs \subseteq Seq(STRING)
      /\ DOMAIN job'.td \cap job'.dirs = {}
  <2>1. \/ job'.td = job.td /\ job'.dirs = job.dirs
        \/ /\ path \notin DOMAIN job.td /\ ~Blocked(path)
           /\ job'.td = job.td /\ job'.dirs = job.dirs \cup Parents(path) \cup {path}
        \/ /\ path \notin job.dirs /\ ~Blocked(path)
           /\ job'.td = With(job.td, path, member.content)
           /\ job'.dirs = job.dirs \cup Parents(path)
    BY <1>3, <1>4 DEF IntakeTypeOK, NotJudging
  <2>2. DOMAIN With(job.td, path, member.content) = DOMAIN job.td \cup {path}
    BY WithAndWithout
  <2>. QED BY <1>2, <2>1, <2>2 DEF Blocked, IntakeTypeOK
<1>. QED BY <1>1, <1>4, <1>5, <1>6 DEF IntakeTypeOK

(* The command line, from the start of a verification to its end.          *)
LEMMA ArchiveStepTyped == IntakeTypeOK /\ ArchiveStep => IntakeTypeOK'
<1>. SUFFICES ASSUME IntakeTypeOK, ArchiveStep, ~RefuseArchive PROVE IntakeTypeOK'
  BY RefusalTyped
<1>1. Len(archive.members) \in Nat
  BY MembersCounted DEF IntakeTypeOK
<1>2. CASE StartIntake
  <2>1. job' = [pc |-> "vet", at |-> 0, td |-> <<>>, dirs |-> {}, outside |-> FALSE]
    BY <1>2 DEF StartIntake, NotJudging
  <2>2. archive' = archive /\ host' = host /\ outcome' = NoOutcome
    BY <1>2 DEF StartIntake
  <2>. QED BY <1>1, <2>1, <2>2 DEF NotJudging, NoOutcome, IntakeTypeOK
<1>3. CASE ReadShort
  <2>1. /\ DOMAIN job' = DOMAIN job /\ job'.pc = "idle" /\ job'.at = job.at /\ job'.td = job.td
        /\ job'.dirs = job.dirs /\ job'.outside = job.outside
        /\ archive' = archive /\ host' = host
        /\ outcome'.target = "archive" /\ outcome'.exit = 1
    <3>1. /\ job' = [job EXCEPT !.pc = "idle"] /\ archive' = archive /\ host' = host
          /\ outcome' = [target |-> "archive", files |-> <<>>, reasons |-> {}, exit |-> 1]
      BY <1>3 DEF ReadShort
    <3>2. DOMAIN job = {"pc", "at", "td", "dirs", "outside"}
      BY DEF IntakeTypeOK, NotJudging
    <3>. QED BY <3>1, <3>2
  <2>. QED BY <2>1 DEF IntakeTypeOK
<1>4. CASE Vet
  <2>1. /\ job' = [job EXCEPT !.pc = "extract", !.at = 1]
        /\ archive' = archive /\ outcome' = outcome /\ host' = host
    BY <1>4 DEF Vet
  <2>2. DOMAIN job = {"pc", "at", "td", "dirs", "outside"}
    BY DEF IntakeTypeOK, NotJudging
  <2>3. /\ DOMAIN job' = DOMAIN job /\ job'.pc = "extract" /\ job'.at = 1 /\ job'.td = job.td
        /\ job'.dirs = job.dirs /\ job'.outside = job.outside
    BY <2>1, <2>2
  <2>. QED BY <1>1, <2>1, <2>3 DEF IntakeTypeOK
<1>5. CASE ExtractMember
  BY <1>5, ExtractTyped
<1>6. CASE Judge
  <2>1. /\ DOMAIN job' = DOMAIN job /\ job'.pc = "idle" /\ job'.at = job.at /\ job'.td = job.td
        /\ job'.dirs = job.dirs /\ job'.outside = job.outside
        /\ archive' = archive /\ host' = host
    BY <1>6 DEF Judge, IntakeTypeOK, NotJudging
  <2>2. outcome'.target \in {"none", "directory", "archive"} /\ outcome'.exit \in {0, 1}
    BY <1>6 DEF Judge, Report
  <2>. QED BY <2>1, <2>2 DEF IntakeTypeOK
<1>. QED BY <1>2, <1>3, <1>4, <1>5, <1>6 DEF ArchiveStep

-----------------------------------------------------------------------------
(* Types: the whole.                                                       *)

(* Every state Init allows has the types.                                  *)
LEMMA InitTyped == Init => TypeOK
<1>. SUFFICES ASSUME Init PROVE TypeOK
  OBVIOUS
<1>1. DraftTypeOK
  BY PinsTyped DEF Init, DraftInit, DraftTypeOK, NotDrafting, NoCommit
<1>2. IntakeTypeOK
  <2>1. Len(archive.members) \in Nat
    BY MembersCounted DEF Init, IntakeInit
  <2>. QED BY <2>1 DEF Init, IntakeInit, IntakeTypeOK, NotJudging, NoOutcome
<1>. QED BY <1>1, <1>2 DEF Init, TypeOK

(* A step of one side leaves the other side's types alone.                 *)
LEMMA Untouched ==
  /\ DraftTypeOK /\ UNCHANGED draftVars => DraftTypeOK'
  /\ IntakeTypeOK /\ UNCHANGED intakeVars => IntakeTypeOK'
BY DEF DraftTypeOK, draftVars, IntakeTypeOK, intakeVars, Newest

(* Every step keeps the types.                                             *)
LEMMA StepTyped == TypeOK /\ [Next]_vars => TypeOK'
<1>. SUFFICES ASSUME TypeOK, [Next]_vars PROVE TypeOK'
  OBVIOUS
<1>. USE DEF TypeOK
<1>1. CASE DraftStep /\ UNCHANGED intakeVars /\ packed' = IF dir' = dir THEN packed ELSE FALSE
  BY <1>1, DraftStepTyped, Untouched
<1>2. CASE PersonStep /\ packed' = FALSE /\ UNCHANGED intakeVars
  BY <1>2, PersonStepTyped, Untouched
<1>3. CASE VerifyInPlace
  <2>1. IntakeTypeOK'
    BY <1>3 DEF VerifyInPlace, VerifyDirectory, Report, IntakeTypeOK
  <2>. QED BY <1>3, <2>1, Untouched DEF VerifyInPlace
<1>4. ASSUME NEW prefix \in {<<>>, <<BundleName>>}, Pack(prefix) PROVE TypeOK'
  <2>1. IsArchive(archive')
    BY <1>4, PackedIsArchive DEF Pack, DraftTypeOK
  <2>2. Len(archive'.members) \in Nat
    BY <2>1, MembersCounted
  <2>3. IntakeTypeOK'
    BY <1>4, <2>1, <2>2 DEF Pack, IntakeTypeOK, NotJudging, NoOutcome
  <2>. QED BY <1>4, <2>3, Untouched DEF Pack
<1>5. CASE ArchiveStep /\ UNCHANGED <<draftVars, packed>>
  BY <1>5, ArchiveStepTyped, Untouched
<1>6. CASE UNCHANGED vars
  BY <1>6, Untouched DEF vars
<1>. QED BY <1>1, <1>2, <1>3, <1>4, <1>5, <1>6 DEF Next

(* Every variable keeps to its type, and no path is at once a file and a   *)
(* directory where an archive is extracted.                                *)
THEOREM TypeCorrect == Spec => []TypeOK
BY InitTyped, StepTyped, PTL DEF Spec

-----------------------------------------------------------------------------
(* What is true of a draft under way and of the manifest in the directory. *)

(* While a draft is under way there is no manifest but one that was written*)
(* meanwhile, which is a touch; and where a person has written there is one.*)
Guarded ==
  /\ draft.pc # "idle" /\ ~draft.overtaken => Manifest \notin DOMAIN dir
  /\ draft.overtaken => draft.pc # "idle" /\ ~draft.untouched
  /\ authored # {} => Manifest \in DOMAIN dir

(* It holds at first, and every step keeps it.                             *)
LEMMA GuardedSteps ==
  /\ Init => Guarded
  /\ TypeOK /\ Guarded /\ [Next]_vars => Guarded'
<1>1. Init => Guarded
  BY DEF Init, DraftInit, NotDrafting, Guarded
<1>2. ASSUME TypeOK, Guarded, DraftStep PROVE Guarded'
  <2>1. CASE StartDraft
    BY <1>2, <2>1 DEF StartDraft, RefusesDraft, NotDrafting, Guarded
  <2>2. ASSUME NEW p \in Path, HashFile(p) PROVE Guarded'
    BY <1>2, <2>2 DEF HashFile, NotDrafting, Guarded, TypeOK, DraftTypeOK
  <2>3. CASE AskHead \/ AskStatus
    <3>1. dir' = dir /\ authored' = authored /\ draft.pc # "idle"
      BY <2>3 DEF AskHead, AskStatus
    <3>2. \/ draft' = NotDrafting
          \/ /\ draft'.pc # "idle" /\ draft'.overtaken = draft.overtaken
             /\ draft'.untouched = draft.untouched
      BY <1>2, <2>3 DEF AskHead, AskStatus, NotDrafting, TypeOK, DraftTypeOK
    <3>3. NotDrafting.pc = "idle" /\ ~NotDrafting.overtaken
      BY DEF NotDrafting
    <3>. QED BY <1>2, <3>1, <3>2, <3>3 DEF Guarded
  <2>4. CASE WriteDraft
    BY <2>4 DEF WriteDraft, NotDrafting, Guarded
  <2>. QED BY <1>2, <2>1, <2>2, <2>3, <2>4 DEF DraftStep
<1>3. ASSUME TypeOK, Guarded, PersonStep PROVE Guarded'
  <2>1. Touch => /\ draft'.pc = draft.pc /\ draft'.overtaken = draft.overtaken
                 /\ draft'.untouched = (draft.pc = "idle")
    BY <1>3 DEF Touch, TypeOK, DraftTypeOK, NotDrafting
  <2>2. ASSUME NEW p \in Path, NEW content, Put(p, content) PROVE Guarded'
    BY <1>3, <2>1, <2>2 DEF Put, With, Guarded
  <2>3. ASSUME NEW p \in Path, Delete(p) PROVE Guarded'
    BY <1>3, <2>1, <2>3 DEF Delete, Without, Guarded
  <2>4. ASSUME NEW field \in Field, Author(field) PROVE Guarded'
    BY <1>3, <2>4 DEF Author, Guarded
  <2>5. CASE Commit
    BY <1>3, <2>1, <2>5 DEF Commit, Guarded
  <2>6. CASE WriteManifest
    <3>1. /\ draft'.pc = draft.pc /\ draft'.untouched = (draft.pc = "idle")
          /\ draft'.overtaken = (draft.pc # "idle")
      BY <1>3, <2>6 DEF WriteManifest, TypeOK, DraftTypeOK, NotDrafting
    <3>2. Manifest \in DOMAIN dir'
      BY <2>6 DEF WriteManifest, With
    <3>. QED BY <3>1, <3>2 DEF Guarded
  <2>. QED BY <1>3, <2>2, <2>3, <2>4, <2>5, <2>6 DEF PersonStep
<1>4. ASSUME Guarded, UNCHANGED draftVars PROVE Guarded'
  BY <1>4 DEF Guarded, draftVars
<1>. QED BY <1>1, <1>2, <1>3, <1>4 DEF Next, vars, VerifyInPlace, Pack

(* Until somebody changes something, the pins are the digests of the files *)
(* there are, the commit is HEAD, and the warning is about the tree.       *)
Accurate ==
  draft.pc # "idle" /\ draft.untouched =>
    /\ draft.todo \cup DOMAIN draft.pins = Artifacts(dir)
    /\ draft.pc # "hash" => draft.todo = {}
    /\ \A p \in DOMAIN draft.pins : draft.pins[p] = dir[p].text
    /\ draft.pc \in {"status", "write"} => draft.commit = Newest
    /\ draft.pc = "write" => (draft.warned <=> Dirty /\ draft.commit # NoCommit)

(* It holds at first, and every step keeps it.                             *)
LEMMA AccurateSteps ==
  /\ Init => Accurate
  /\ TypeOK /\ Guarded /\ Accurate /\ [Next]_vars => Accurate'
<1>1. Init => Accurate
  BY DEF Init, DraftInit, NotDrafting, Accurate
<1>2. ASSUME TypeOK, Accurate, DraftStep PROVE Accurate'
  <2>. USE <1>2 DEF TypeOK, DraftTypeOK
  <2>1. draft' = NotDrafting => Accurate'
    BY DEF NotDrafting, Accurate
  <2>2. repo' = repo /\ dir' = dir => Newest' = Newest /\ Dirty' = Dirty /\ Artifacts(dir)' = Artifacts(dir)
    BY DEF Newest, Dirty, Artifacts
  <2>3. CASE StartDraft
    <3>1. draft'.todo = Artifacts(dir) /\ draft'.pins = <<>> /\ draft'.pc = "hash" /\ dir' = dir
      BY <2>3 DEF StartDraft, NotDrafting
    <3>2. DOMAIN draft'.pins = {}
      BY <3>1
    <3>. QED BY <3>1, <3>2 DEF Accurate, Artifacts
  <2>4. ASSUME NEW p \in Path, HashFile(p) PROVE Accurate'
    <3>1. CASE p \in DOMAIN dir
      <4>1. /\ draft'.todo = draft.todo \ {p} /\ draft'.pins = With(draft.pins, p, dir[p].text)
            /\ draft'.pc = "hash" /\ draft.pc = "hash" /\ draft'.untouched = draft.untouched
            /\ p \in draft.todo
            /\ dir' = dir
        BY <2>4, <3>1 DEF HashFile, NotDrafting
      <4>2. /\ DOMAIN draft'.pins = DOMAIN draft.pins \cup {p}
            /\ \A q \in DOMAIN draft'.pins :
                  draft'.pins[q] = IF q = p THEN dir[p].text ELSE draft.pins[q]
        BY <4>1 DEF With
      <4>3. ASSUME draft.untouched
            PROVE  /\ draft'.todo \cup DOMAIN draft'.pins = Artifacts(dir')
                   /\ \A q \in DOMAIN draft'.pins : draft'.pins[q] = dir'[q].text
        <5>1. /\ draft.todo \cup DOMAIN draft.pins = Artifacts(dir)
              /\ \A q \in DOMAIN draft.pins : draft.pins[q] = dir[q].text
          BY <4>1, <4>3 DEF Accurate
        <5>2. draft'.todo \cup DOMAIN draft'.pins = draft.todo \cup DOMAIN draft.pins
          BY <4>1, <4>2
        <5>3. \A q \in DOMAIN draft'.pins : draft'.pins[q] = dir[q].text
          BY <4>2, <5>1
        <5>. QED BY <4>1, <5>1, <5>2, <5>3
      <4>. QED BY <4>1, <4>3 DEF Accurate
    <3>. QED BY <2>1, <2>4, <3>1 DEF HashFile
  <2>5. CASE AskHead /\ draft' # NotDrafting
    <3>1. /\ draft.pc = "hash" /\ draft.todo = {} /\ dir' = dir /\ repo' = repo
          /\ draft'.pc = "status" /\ draft'.commit = Newest
          /\ draft'.todo = draft.todo /\ draft'.pins = draft.pins
          /\ draft'.untouched = draft.untouched
      BY <2>5 DEF AskHead, NotDrafting
    <3>. QED BY <2>2, <3>1 DEF Accurate
  <2>6. CASE AskStatus
    <3>1. /\ draft.pc = "status" /\ dir' = dir /\ repo' = repo
          /\ draft'.pc = "write" /\ draft'.commit = draft.commit
          /\ draft'.warned <=> Dirty /\ draft.commit # NoCommit
          /\ draft'.todo = draft.todo /\ draft'.pins = draft.pins
          /\ draft'.untouched = draft.untouched
      BY <2>6 DEF AskStatus, NotDrafting
    <3>2. ASSUME draft.untouched
          PROVE  /\ draft'.todo \cup DOMAIN draft'.pins = Artifacts(dir)'
                 /\ draft'.todo = {}
                 /\ \A p \in DOMAIN draft'.pins : draft'.pins[p] = dir'[p].text
                 /\ draft'.commit = Newest'
      BY <2>2, <3>1, <3>2 DEF Accurate
    <3>3. draft'.warned <=> Dirty' /\ draft'.commit # NoCommit
      BY <2>2, <3>1
    <3>. QED BY <3>1, <3>2, <3>3 DEF Accurate
  <2>. QED BY <2>1, <2>3, <2>4, <2>5, <2>6 DEF DraftStep, WriteDraft
<1>3. ASSUME TypeOK, Guarded, PersonStep PROVE Accurate'
  <2>1. Touch => draft'.pc = draft.pc /\ draft'.untouched = (draft.pc = "idle")
    BY <1>3 DEF Touch, TypeOK, DraftTypeOK, NotDrafting
  <2>2. Touch => Accurate'
    BY <2>1 DEF Accurate
  <2>3. ASSUME NEW field \in Field, Author(field) PROVE Accurate'
    BY <1>3, <2>3 DEF Author, Guarded, Accurate
  <2>4. CASE WriteManifest
    <3>1. draft'.pc = draft.pc /\ draft'.untouched = (draft.pc = "idle")
      BY <1>3, <2>4 DEF WriteManifest, TypeOK, DraftTypeOK, NotDrafting
    <3>. QED BY <3>1 DEF Accurate
  <2>. QED BY <1>3, <2>2, <2>3, <2>4 DEF PersonStep, Put, Delete, Commit
<1>4. ASSUME Accurate, UNCHANGED draftVars PROVE Accurate'
  BY <1>4 DEF Accurate, draftVars, Newest, Dirty, Artifacts
<1>. QED BY <1>1, <1>2, <1>3, <1>4 DEF Next, vars, VerifyInPlace, Pack

(* What nobody has filled in is still marked, in a text that reads.        *)
DueOf(man) ==
  (Judgment \cup (IF man.commit = NoCommit THEN {"issuer_commit"} ELSE {})) \ authored

Marked ==
  Manifest \in DOMAIN dir =>
    /\ DueOf(dir[Manifest]) \subseteq dir[Manifest].todo
    /\ DueOf(dir[Manifest]) # {} => dir[Manifest].text = Object

(* It holds at first, and every step keeps it.                             *)
LEMMA MarkedSteps ==
  /\ Init => Marked
  /\ TypeOK /\ Marked /\ [Next]_vars => Marked'
<1>1. Init => Marked
  BY DEF Init, DraftInit, Field, DueOf, Marked
<1>2. ASSUME Marked, DraftStep PROVE Marked'
  <2>1. CASE WriteDraft
    <3>1. dir' = With(dir, Manifest, Drafted(draft.pins, draft.commit, repo.there /\ repo.remote))
      BY <2>1 DEF WriteDraft
    <3>2. dir'[Manifest] = Drafted(draft.pins, draft.commit, repo.there /\ repo.remote)
      BY <3>1 DEF With
    <3>. QED BY <3>2 DEF Drafted, DueOf, Marked
  <2>2. dir' = dir /\ authored' = authored => Marked'
    BY <1>2 DEF DueOf, Marked
  <2>. QED BY <1>2, <2>1, <2>2 DEF DraftStep, StartDraft, HashFile, AskHead, AskStatus
<1>3. ASSUME TypeOK, Marked, PersonStep PROVE Marked'
  <2>1. ASSUME NEW p \in Path, NEW content, Put(p, content) PROVE Marked'
    BY <1>3, <2>1 DEF Put, With, DueOf, Marked
  <2>2. ASSUME NEW p \in Path, Delete(p) PROVE Marked'
    BY <1>3, <2>2 DEF Delete, Without, DueOf, Marked
  <2>3. ASSUME NEW field \in Field, Author(field) PROVE Marked'
    <3>1. PICK sound \in BOOLEAN :
            dir' = [dir EXCEPT ![Manifest].todo = @ \ {field}, ![Manifest].sound = sound]
      BY <2>3 DEF Author
    <3>2. Manifest \in DOMAIN dir /\ IsManifest(dir[Manifest]) /\ authored' = authored \cup {field}
      BY <1>3, <2>3 DEF Author, TypeOK, DraftTypeOK, IsDirectory
    <3>3. /\ dir'[Manifest].todo = dir[Manifest].todo \ {field}
          /\ dir'[Manifest].commit = dir[Manifest].commit
          /\ dir'[Manifest].text = dir[Manifest].text
      BY <3>1, <3>2 DEF IsManifest
    <3>. QED BY <1>3, <3>2, <3>3 DEF DueOf, Marked
  <2>4. CASE Commit
    BY <1>3, <2>4 DEF Commit, DueOf, Marked
  <2>5. CASE WriteManifest
    <3>1. authored' = Field
      BY <2>5 DEF WriteManifest
    <3>2. \A man : DueOf(man)' = {}
      BY <3>1 DEF DueOf, Field
    <3>. QED BY <3>2 DEF Marked
  <2>. QED BY <1>3, <2>1, <2>2, <2>3, <2>4, <2>5 DEF PersonStep
<1>4. ASSUME Marked, UNCHANGED draftVars PROVE Marked'
  BY <1>4 DEF Marked, DueOf, draftVars
<1>. QED BY <1>1, <1>2, <1>3, <1>4 DEF Next, vars, VerifyInPlace, Pack

-----------------------------------------------------------------------------
(* What is true of the verifier at work.                                   *)

(* Whatever has been written was vetted, and nothing left the destination. *)
Vetted ==
  /\ ~job.outside
  /\ job.pc = "extract" \/ job.td # <<>> \/ job.dirs # {} =>
       \A i \in DOMAIN archive.members : ~Unsafe(archive.members[i])

(* It holds at first, and every step keeps it.                             *)
LEMMA VettedSteps ==
  /\ Init => Vetted
  /\ TypeOK /\ Vetted /\ [Next]_vars => Vetted'
<1>1. Init => Vetted
  BY DEF Init, IntakeInit, NotJudging, Vetted
<1>2. ASSUME Vetted, job' = NotJudging PROVE Vetted'
  BY <1>2 DEF NotJudging, Vetted
<1>3. ASSUME TypeOK, Vetted, ArchiveStep PROVE Vetted'
  <2>. USE <1>3
  <2>1. DOMAIN job = {"pc", "at", "td", "dirs", "outside"}
    BY DEF TypeOK, IntakeTypeOK, NotJudging
  <2>2. job' = [job EXCEPT !.pc = "idle"] /\ archive' = archive => Vetted'
    BY <2>1 DEF Vetted
  <2>3. CASE StartIntake
    BY <2>3 DEF StartIntake, NotJudging, Vetted
  <2>4. CASE ReadShort \/ Judge
    BY <2>2, <2>4 DEF ReadShort, Judge, RefuseArchive
  <2>5. CASE Vet
    BY <2>1, <2>2, <2>5 DEF Vet, RefuseArchive, Vetted
  <2>6. CASE ExtractMember
    <3>. DEFINE member == archive.members[job.at]
    <3>1. job.at \in DOMAIN archive.members /\ job.pc = "extract"
      BY <2>6, MembersCounted DEF ExtractMember, TypeOK, IntakeTypeOK
    <3>2. ~Unsafe(member)
      BY <3>1 DEF Vetted
    <3>3. member.name.posix = <<>> <=> member.name.windows = <<>>
      BY <3>1 DEF TypeOK, IntakeTypeOK, IsArchive, IsMember
    <3>4. host.flavour \in {"posix", "windows"}
      BY DEF TypeOK, IntakeTypeOK, IsHost
    <3>5. ~Leaves(member.name)
      BY <3>2, <3>3, <3>4 DEF Unsafe, IsEmpty, Leaves, Part, Climbs
    <3>6. archive' = archive
      BY <2>6 DEF ExtractMember, RefuseArchive
    <3>7. job'.outside = job.outside
      BY <2>1, <2>6, <3>5 DEF ExtractMember, RefuseArchive
    <3>. QED BY <3>1, <3>6, <3>7 DEF Vetted
  <2>. QED BY <2>3, <2>4, <2>5, <2>6 DEF ArchiveStep
<1>4. ASSUME Vetted, UNCHANGED <<archive, job>> PROVE Vetted'
  BY <1>4 DEF Vetted
<1>. QED BY <1>1, <1>2, <1>3, <1>4
         DEF Next, vars, VerifyInPlace, VerifyDirectory, Pack, intakeVars

(* The outcome for a directory is what verify_bundle says of its files.    *)
Answered ==
  outcome.target = "directory" =>
    /\ outcome.reasons = Failures(outcome.files, host.stack)
    /\ outcome.exit = IF outcome.reasons = {} THEN 0 ELSE 1

(* It holds at first, and every step keeps it.                             *)
LEMMA AnsweredSteps ==
  /\ Init => Answered
  /\ Answered /\ [Next]_vars => Answered'
<1>1. Init => Answered
  BY DEF Init, IntakeInit, NoOutcome, Answered
<1>2. ASSUME Answered, UNCHANGED <<outcome, host>> PROVE Answered'
  BY <1>2 DEF Answered
<1>3. outcome' = NoOutcome => Answered'
  BY DEF NoOutcome, Answered
<1>4. ASSUME NEW files, NEW reasons, Report("archive", files, reasons) PROVE Answered'
  BY <1>4 DEF Report, Answered
<1>5. ASSUME VerifyInPlace PROVE Answered'
  <2>1. host' = host /\ Report("directory", dir, Failures(dir, host.stack))
    BY <1>5 DEF VerifyInPlace, VerifyDirectory
  <2>2. /\ outcome'.files = dir /\ outcome'.reasons = Failures(dir, host.stack)
        /\ outcome'.exit = IF outcome'.reasons = {} THEN 0 ELSE 1
    BY <2>1 DEF Report
  <2>. QED BY <2>1, <2>2 DEF Answered
<1>6. ASSUME Answered, ArchiveStep PROVE Answered'
  <2>1. RefuseArchive => Answered'
    BY <1>4 DEF RefuseArchive
  <2>2. CASE ReadShort
    <3>1. \/ RefuseArchive
          \/ outcome' = [target |-> "archive", files |-> <<>>, reasons |-> {}, exit |-> 1]
      BY <2>2 DEF ReadShort
    <3>2. ASSUME outcome' = [target |-> "archive", files |-> <<>>, reasons |-> {}, exit |-> 1]
          PROVE  outcome'.target # "directory"
      BY <3>2
    <3>. QED BY <2>1, <3>1, <3>2 DEF Answered
  <2>3. CASE Judge
    BY <1>4, <2>1, <2>3 DEF Judge
  <2>4. CASE StartIntake
    BY <1>3, <2>4 DEF StartIntake
  <2>5. CASE Vet
    BY <1>2, <1>6, <2>1, <2>5 DEF Vet
  <2>6. CASE ExtractMember
    <3>1. RefuseArchive \/ UNCHANGED <<outcome, host>>
      BY <2>6 DEF ExtractMember
    <3>. QED BY <1>2, <1>6, <2>1, <3>1
  <2>. QED BY <1>6, <2>2, <2>3, <2>4, <2>5, <2>6 DEF ArchiveStep
<1>. QED BY <1>1, <1>2, <1>3, <1>5, <1>6 DEF Next, vars, intakeVars, Pack

-----------------------------------------------------------------------------
(* The inductive invariant, and what follows from it.                      *)
Inv == TypeOK /\ Guarded /\ Accurate /\ Marked /\ Vetted /\ Answered

(* All of it holds of every reachable state.                               *)
LEMMA Invariance == Spec => []Inv
<1>1. Init => Inv
  BY InitTyped, GuardedSteps, AccurateSteps, MarkedSteps, VettedSteps, AnsweredSteps DEF Inv
<1>2. Inv /\ [Next]_vars => Inv'
  BY StepTyped, GuardedSteps, AccurateSteps, MarkedSteps, VettedSteps, AnsweredSteps DEF Inv
<1>. QED BY <1>1, <1>2, PTL DEF Spec

(* Nothing a person has written is undone by the draft tool, whatever else *)
(* the person does while it runs, unless what it undoes was written while  *)
(* it ran: it starts only where there is no manifest.                      *)
THEOREM AuthoredIsKept == Spec => AuthoredSurvives
<1>1. Inv /\ [Next]_vars =>
        [authored # {} /\ ~draft.overtaken /\ DraftStep => UNCHANGED <<dir, authored>>]_draftVars
  <2>. SUFFICES ASSUME Inv, authored # {}, ~draft.overtaken, DraftStep
                PROVE  UNCHANGED <<dir, authored>>
    OBVIOUS
  <2>1. draft.pc = "idle"
    BY DEF Inv, Guarded
  <2>. QED BY <2>1 DEF DraftStep, StartDraft, HashFile, AskHead, AskStatus, WriteDraft
<1>. QED BY <1>1, Invariance, PTL DEF Spec, AuthoredSurvives

(* One member that would leave the destination on some host, or that is    *)
(* neither file nor directory, and nothing has been written.               *)
THEOREM VetsFirst == Spec => []VettedFirst
<1>1. Inv => VettedFirst
  <2>. SUFFICES ASSUME Inv PROVE VettedFirst
    OBVIOUS
  <2>1. ~job.outside
    BY DEF Inv, Vetted
  <2>2. ASSUME NEW i \in DOMAIN archive.members,
               LET member == archive.members[i]
               IN  \/ member.name.anchored # {} \/ member.kind \notin {"file", "dir"}
                   \/ \E flavour \in {"posix", "windows"} : Climbs(Part(member.name, flavour))
        PROVE  Unsafe(archive.members[i])
    <3>1. archive.members[i].name.posix = <<>> <=> archive.members[i].name.windows = <<>>
      BY DEF Inv, TypeOK, IntakeTypeOK, IsArchive, IsMember
    <3>. QED BY <2>2, <3>1 DEF Unsafe, IsEmpty, Part, Climbs
  <2>. QED BY <2>1, <2>2 DEF Inv, Vetted, VettedFirst
<1>. QED BY <1>1, Invariance, PTL

(* A draft with something left to fill in is refused, and refused as one.  *)
THEOREM DraftsAreRefused == Spec => []DraftIsRefused
<1>1. Inv => DraftIsRefused
  <2>. SUFFICES ASSUME Inv, outcome.target = "directory", outcome.files = dir,
                       Manifest \in DOMAIN dir, DueOf(dir[Manifest]) # {}
       PROVE  /\ outcome.exit = 1
              /\ {<<"draft-incomplete", field>> : field \in DueOf(dir[Manifest])}
                   \subseteq outcome.reasons
              /\ {reason[1] : reason \in outcome.reasons} = {"draft-incomplete"}
    BY DEF DraftIsRefused, DueOf
  <2>1. dir[Manifest].text = Object /\ DueOf(dir[Manifest]) \subseteq dir[Manifest].todo
    BY DEF Inv, Marked
  <2>2. Reading(Object, FALSE, host.stack) = "value"
    BY ObjectAssumption DEF Inv, TypeOK, IntakeTypeOK, IsHost
  <2>3. outcome.reasons = {<<"draft-incomplete", field>> : field \in dir[Manifest].todo}
    BY <2>1, <2>2 DEF Inv, Answered, Failures, Markers
  <2>4. outcome.exit = 1
    BY <2>1, <2>3 DEF Inv, Answered
  <2>5. {reason[1] : reason \in outcome.reasons} = {"draft-incomplete"}
    <3>1. PICK field : field \in dir[Manifest].todo
      BY <2>1
    <3>2. \A reason \in outcome.reasons : reason[1] = "draft-incomplete"
      BY <2>3
    <3>3. <<"draft-incomplete", field>> \in outcome.reasons
      BY <2>3, <3>1
    <3>. QED BY <3>2, <3>3
  <2>. QED BY <2>1, <2>3, <2>4, <2>5
<1>. QED BY <1>1, Invariance, PTL

(* Where a draft names a commit without a warning, the commit holds what it*)
(* pins, but for what git ignores.                                         *)
THEOREM UnwarnedCommitted == Spec => []UnwarnedIsCommitted
<1>1. Inv => UnwarnedIsCommitted
  <2>. SUFFICES ASSUME Inv, draft.pc = "write", draft.untouched,
                       draft.commit # NoCommit, ~draft.warned,
                       NEW p \in DOMAIN draft.pins \ Ignored
       PROVE  /\ p \in DOMAIN repo.commits[draft.commit]
              /\ repo.commits[draft.commit][p].text = draft.pins[p]
    BY DEF UnwarnedIsCommitted
  <2>1. draft.commit = Newest /\ ~Dirty
    BY DEF Inv, Accurate
  <2>2. repo.there /\ Tracked(dir) = repo.commits[draft.commit]
    BY <2>1 DEF Dirty, Newest
  <2>3. p \in DOMAIN dir \ Ignored /\ draft.pins[p] = dir[p].text
    BY DEF Inv, Accurate, Artifacts
  <2>. QED BY <2>2, <2>3 DEF Tracked
<1>. QED BY <1>1, Invariance, PTL

(* The pins of a draft are the closure the verifier demands.               *)
THEOREM DraftsPinTheClosure == Spec => []DraftIsTheClosure
<1>1. Inv => DraftIsTheClosure
  <2>. DEFINE man   == Drafted(draft.pins, draft.commit, FALSE)
              files == With(dir, Manifest, man)
  <2>. SUFFICES ASSUME Inv, draft.pc = "write", draft.untouched,
                       NEW reason \in ArtifactFailures(files, man, MaxDepth),
                       reason[1] \in Disputed
       PROVE  reason[2] \in Odd
    BY DEF DraftIsTheClosure
  <2>1. man.pins = draft.pins
    BY DEF Drafted
  <2>2. Manifest \notin DOMAIN dir /\ DOMAIN draft.pins = DOMAIN dir
    BY DEF Inv, Guarded, Accurate, Artifacts
  <2>3. /\ DOMAIN files = DOMAIN dir \cup {Manifest}
        /\ \A p \in DOMAIN dir : files[p].text = draft.pins[p]
    BY <2>2 DEF Inv, Accurate, With
  <2>. DEFINE listed  == DOMAIN man.pins \ Odd
              links   == NamedLinks(files)
              there   == (listed \cap DOMAIN files) \ links
              trusted == {p \in there : files[p].text = man.pins[p]}
              read    == [p \in trusted |-> Reading(man.pins[p], TRUE, MaxDepth)]
  <2>4. \A p \in trusted : read[p] \notin Disputed
    BY DEF Reading, Disputed
  <2>5. listed \ (DOMAIN files \cup links) = {} /\ there \ trusted = {}
    BY <2>1, <2>2, <2>3
  <2>6. DOMAIN files \ (listed \cup links \cup {Manifest}) \subseteq Odd
    BY <2>1, <2>2, <2>3
  <2>7. \/ \E p \in DOMAIN man.pins \cap Odd : reason = <<"schema-violation", p>>
        \/ \E p \in links : reason = <<"unsafe-bundle", p>>
        \/ \E p \in DOMAIN files \ (listed \cup links \cup {Manifest}) :
              reason = <<"unlisted-file", p>>
        \/ \E p \in trusted : reason = <<read[p], p>>
    BY <2>5 DEF ArtifactFailures
  <2>8. ASSUME NEW p, reason = <<"schema-violation", p>> \/ reason = <<"unsafe-bundle", p>>
        PROVE  FALSE
    BY <2>8 DEF Disputed
  <2>9. ASSUME NEW p \in trusted, reason = <<read[p], p>> PROVE FALSE
    BY <2>4, <2>9
  <2>10. PICK p \in DOMAIN files \ (listed \cup links \cup {Manifest}) :
           reason = <<"unlisted-file", p>>
    BY <2>7, <2>8, <2>9
  <2>. QED BY <2>6, <2>10
<1>. QED BY <1>1, Invariance, PTL

-----------------------------------------------------------------------------
(* What an archive is when it is accepted.                                 *)

(* Where the members before the n-th end up that are not directories.      *)
Written(n) ==
  {Part(archive.members[i].name, host.flavour) :
     i \in {j \in DOMAIN archive.members : j < n /\ archive.members[j].kind # "dir"}}

(* While an archive is extracted nothing has been reported, and the files  *)
(* there are those of the members that have been read.                     *)
Extracted ==
  /\ IsFiniteSet(DOMAIN job.td) /\ IsFiniteSet(job.dirs)
  /\ job.pc # "idle" => outcome.target = "none"
  /\ job.pc = "vet" => job.td = <<>> /\ job.dirs = {}
  /\ job.pc = "extract" => DOMAIN job.td = Written(job.at)

(* The directories above a path are finitely many.                         *)
LEMMA ParentsFinite == ASSUME NEW path \in Seq(STRING) PROVE IsFiniteSet(Parents(path))
<1>. DEFINE lengths == 0..(Len(path) - 1)
            above   == [n \in lengths |-> SubSeq(path, 1, n)]
<1>1. IsFiniteSet(lengths)
  BY FS_Interval
<1>2. above \in Surjection(lengths, Parents(path))
  BY DEF Surjection, Parents
<1>. QED BY <1>1, <1>2, FS_Surjection

(* Nothing more is written once the last member has been read.             *)
LEMMA WrittenOn ==
  ASSUME IntakeTypeOK, job.at \in DOMAIN archive.members
  PROVE  Written(job.at + 1) =
           IF archive.members[job.at].kind = "dir" THEN Written(job.at)
           ELSE Written(job.at) \cup {Part(archive.members[job.at].name, host.flavour)}
<1>1. DOMAIN archive.members \subseteq Nat /\ job.at \in Nat
  BY MembersCounted DEF IntakeTypeOK
<1>2. \A j \in DOMAIN archive.members : j < job.at + 1 <=> j < job.at \/ j = job.at
  BY <1>1
<1>. QED BY <1>2 DEF Written

(* It holds at first, and every step keeps it.                             *)
LEMMA ExtractedSteps ==
  /\ Init => Extracted
  /\ TypeOK /\ Vetted /\ Extracted /\ [Next]_vars => Extracted'
<1>1. IsFiniteSet({}) /\ DOMAIN <<>> = {}
  BY FS_EmptySet
<1>2. Init => Extracted
  BY <1>1 DEF Init, IntakeInit, NotJudging, Extracted
<1>3. ASSUME job' = NotJudging PROVE Extracted'
  BY <1>1, <1>3 DEF NotJudging, Extracted
<1>4. ASSUME TypeOK, Vetted, Extracted, ArchiveStep PROVE Extracted'
  <2>. USE <1>4
  <2>1. DOMAIN job = {"pc", "at", "td", "dirs", "outside"}
    BY DEF TypeOK, IntakeTypeOK, NotJudging
  <2>2. job' = [job EXCEPT !.pc = "idle"] => Extracted'
    BY <2>1 DEF Extracted
  <2>3. CASE StartIntake
    <3>1. job'.pc = "vet" /\ job'.td = <<>> /\ job'.dirs = {} /\ outcome'.target = "none"
      BY <2>3 DEF StartIntake, NotJudging, NoOutcome
    <3>. QED BY <1>1, <3>1 DEF Extracted
  <2>4. CASE ReadShort \/ Judge \/ RefuseArchive
    BY <2>2, <2>4 DEF ReadShort, Judge, RefuseArchive
  <2>5. CASE Vet
    <3>1. \/ RefuseArchive
          \/ /\ job'.pc = "extract" /\ job'.at = 1 /\ job'.td = job.td /\ job'.dirs = job.dirs
             /\ job.pc = "vet" /\ archive' = archive /\ outcome' = outcome /\ host' = host
      BY <2>1, <2>5 DEF Vet
    <3>2. DOMAIN archive.members \subseteq Nat \ {0}
      BY MembersCounted DEF TypeOK, IntakeTypeOK
    <3>3. Written(1) = {}
      BY <3>2 DEF Written
    <3>. QED BY <1>1, <2>4, <3>1, <3>3 DEF Extracted, Written
  <2>6. CASE ExtractMember /\ ~RefuseArchive
    <3>. DEFINE member == archive.members[job.at]
                path   == Part(member.name, host.flavour)
    <3>1. job.at \in DOMAIN archive.members /\ job.pc = "extract"
      BY <2>6, MembersCounted DEF ExtractMember, TypeOK, IntakeTypeOK
    <3>2. ~Leaves(member.name)
      <4>1. ~Unsafe(member)
        BY <3>1 DEF Vetted
      <4>2. member.name.posix = <<>> <=> member.name.windows = <<>>
        BY <3>1 DEF TypeOK, IntakeTypeOK, IsArchive, IsMember
      <4>3. host.flavour \in {"posix", "windows"}
        BY DEF TypeOK, IntakeTypeOK, IsHost
      <4>. QED BY <4>1, <4>2, <4>3 DEF Unsafe, IsEmpty, Leaves, Part, Climbs
    <3>3. path \in Seq(STRING)
      BY <3>1 DEF TypeOK, IntakeTypeOK, IsArchive, IsMember, IsHost, Part
    <3>4. IsFiniteSet(Parents(path)) /\ IsFiniteSet({path})
      BY <3>3, ParentsFinite, FS_Singleton
    <3>5. archive' = archive /\ outcome' = outcome /\ host' = host /\ job'.pc = "extract"
          /\ job'.at = job.at + 1
      BY <2>1, <2>6, <3>1, <3>2 DEF ExtractMember
    <3>6. \/ member.kind = "dir" /\ job'.td = job.td /\ job'.dirs = job.dirs
          \/ member.kind = "dir" /\ job'.td = job.td /\ job'.dirs = job.dirs \cup Parents(path) \cup {path}
          \/ /\ member.kind # "dir" /\ job'.td = With(job.td, path, member.content)
             /\ job'.dirs = job.dirs \cup Parents(path)
      BY <2>1, <2>6, <3>2 DEF ExtractMember
    <3>7. IsFiniteSet(DOMAIN job'.td) /\ IsFiniteSet(job'.dirs)
      <4>1. DOMAIN With(job.td, path, member.content) = DOMAIN job.td \cup {path}
        BY WithAndWithout
      <4>2. /\ IsFiniteSet(job.dirs \cup Parents(path))
            /\ IsFiniteSet(job.dirs \cup Parents(path) \cup {path})
            /\ IsFiniteSet(DOMAIN job.td \cup {path})
        BY <3>4, FS_Union DEF Extracted
      <4>. QED BY <3>6, <4>1, <4>2 DEF Extracted
    <3>8. DOMAIN job'.td = Written(job.at + 1)
      <4>1. Written(job.at + 1) = IF member.kind = "dir" THEN Written(job.at) ELSE Written(job.at) \cup {path}
        BY <3>1, WrittenOn DEF TypeOK
      <4>2. DOMAIN job.td = Written(job.at)
        BY <3>1 DEF Extracted
      <4>3. DOMAIN With(job.td, path, member.content) = DOMAIN job.td \cup {path}
        BY WithAndWithout
      <4>. QED BY <3>6, <4>1, <4>2, <4>3
    <3>9. (Written(job.at))' = Written(job.at + 1)
      BY <3>5 DEF Written
    <3>. QED BY <3>1, <3>5, <3>7, <3>8, <3>9 DEF Extracted
  <2>. QED BY <2>3, <2>4, <2>5, <2>6 DEF ArchiveStep
<1>5. ASSUME Extracted, VerifyInPlace PROVE Extracted'
  BY <1>5 DEF VerifyInPlace, VerifyDirectory, Extracted
<1>6. ASSUME Extracted, UNCHANGED intakeVars PROVE Extracted'
  BY <1>6 DEF intakeVars, Extracted, Written
<1>. QED BY <1>2, <1>3, <1>4, <1>5, <1>6 DEF Next, vars, Pack

(* A path is its beginning and the rest of it.                             *)
LEMMA CutInTwo ==
  ASSUME NEW path \in Seq(STRING), NEW n \in 0..Len(path)
  PROVE  /\ SubSeq(path, 1, n) \in Seq(STRING) /\ Len(SubSeq(path, 1, n)) = n
         /\ SubSeq(path, n + 1, Len(path)) \in Seq(STRING)
         /\ path = SubSeq(path, 1, n) \o SubSeq(path, n + 1, Len(path))
<1>. DEFINE front == SubSeq(path, 1, n)
            rest  == SubSeq(path, n + 1, Len(path))
<1>1. /\ front \in Seq(STRING) /\ Len(front) = n
      /\ \A i \in 1..n : front[i] = path[i]
  OBVIOUS
<1>2. /\ rest \in Seq(STRING) /\ Len(rest) = Len(path) - n
      /\ \A i \in 1..(Len(path) - n) : rest[i] = path[n + i]
  OBVIOUS
<1>. HIDE DEF front, rest
<1>3. front \o rest \in Seq(STRING) /\ Len(front \o rest) = Len(path)
  BY <1>1, <1>2
<1>4. \A i \in 1..Len(path) : (front \o rest)[i] = path[i]
  BY <1>1, <1>2
<1>5. front \o rest = path
  BY <1>3, <1>4, SeqEqual
<1>. QED BY <1>1, <1>2, <1>5 DEF front, rest

(* The files under a root, and the paths they have above it.               *)
LEMMA UnderRoot ==
  ASSUME NEW files, DOMAIN files \subseteq Seq(STRING), NEW root \in Seq(STRING)
  PROVE  /\ \A rest \in DOMAIN Under(files, root) :
              /\ rest \in Seq(STRING) /\ Len(rest) > 0
              /\ root \o rest \in DOMAIN files
              /\ Under(files, root)[rest] = files[root \o rest]
         /\ \A path \in DOMAIN files :
              Len(path) > Len(root) /\ SubSeq(path, 1, Len(root)) = root =>
                \E rest \in DOMAIN Under(files, root) : path = root \o rest
<1>. DEFINE inside == {path \in DOMAIN files : Len(path) > Len(root) /\ SubSeq(path, 1, Len(root)) = root}
            Rest(path) == SubSeq(path, Len(root) + 1, Len(path))
<1>1. DOMAIN Under(files, root) = {Rest(path) : path \in inside}
  BY DEF Under
<1>2. \A rest \in DOMAIN Under(files, root) : Under(files, root)[rest] = files[root \o rest]
  BY DEF Under
<1>3. ASSUME NEW path \in inside
      PROVE  Rest(path) \in Seq(STRING) /\ Len(Rest(path)) > 0 /\ path = root \o Rest(path)
  <2>1. Len(root) \in 0..Len(path) /\ path \in Seq(STRING)
    BY <1>3
  <2>2. Len(Rest(path)) = Len(path) - Len(root)
    BY <2>1
  <2>. QED BY <2>1, <2>2, CutInTwo
<1>. QED BY <1>1, <1>2, <1>3

(* Where everything is under the root, nothing is left out.                *)
LEMMA UnderAll ==
  ASSUME NEW files, DOMAIN files \subseteq Seq(STRING), NEW root \in Seq(STRING),
         \A path \in DOMAIN files : Len(path) > Len(root) /\ SubSeq(path, 1, Len(root)) = root
  PROVE  /\ \A rest \in DOMAIN Under(files, root) : Under(files, root)[rest] = files[root \o rest]
         /\ DOMAIN files = {root \o rest : rest \in DOMAIN Under(files, root)}
<1>1. /\ \A rest \in DOMAIN Under(files, root) :
           root \o rest \in DOMAIN files /\ Under(files, root)[rest] = files[root \o rest]
      /\ \A path \in DOMAIN files : \E rest \in DOMAIN Under(files, root) : path = root \o rest
  BY UnderRoot
<1>. QED BY <1>1

(* A sequence of one is its first element.                                 *)
LEMMA OneLong == ASSUME NEW s \in Seq(STRING), Len(s) = 1 PROVE s = <<s[1]>>
OBVIOUS

(* In the destination nothing is both a file and a directory, what is in a *)
(* directory has its name in front, and the root is no file.               *)
LEMMA BundleFound ==
  ASSUME IntakeTypeOK, IsFiniteSet(DOMAIN job.td), IsFiniteSet(job.dirs),
         <<>> \notin DOMAIN job.td, ~Beside,
         Manifest \in DOMAIN Under(job.td, BundleRoot)
  PROVE  /\ BundleRoot \in {<<>>} \cup {SubSeq(path, 1, 1) : path \in DOMAIN job.td}
         /\ BundleRoot \in Seq(STRING)
         /\ \A rest \in DOMAIN Under(job.td, BundleRoot) :
              Under(job.td, BundleRoot)[rest] = job.td[BundleRoot \o rest]
         /\ DOMAIN job.td = {BundleRoot \o rest : rest \in DOMAIN Under(job.td, BundleRoot)}
<1>. DEFINE td == job.td
            lone == {path \in Subdirectories : Subdirectories = {path} /\ path \o Manifest \in DOMAIN td}
<1>1. DOMAIN td \subseteq Seq(STRING) /\ job.dirs \subseteq Seq(STRING) /\ DOMAIN td \cap job.dirs = {}
  BY DEF IntakeTypeOK
<1>2. CASE BundleRoot = <<>>
  <2>1. <<>> \in Seq(STRING) /\ Len(<<>>) = 0
    OBVIOUS
  <2>2. \A path \in DOMAIN td : Len(path) > 0 /\ SubSeq(path, 1, 0) = <<>>
    BY <1>1
  <2>. DEFINE root == BundleRoot
  <2>3. root \in Seq(STRING) /\ Len(root) = 0
    BY <1>2, <2>1
  <2>4. \A path \in DOMAIN td : Len(path) > Len(root) /\ SubSeq(path, 1, Len(root)) = root
    BY <1>2, <2>2
  <2>. HIDE DEF root, td
  <2>5. /\ \A rest \in DOMAIN Under(td, root) : Under(td, root)[rest] = td[root \o rest]
        /\ DOMAIN td = {root \o rest : rest \in DOMAIN Under(td, root)}
    BY <1>1, <2>3, <2>4, UnderAll
  <2>. QED BY <1>2, <2>3, <2>5 DEF root, td
<1>3. CASE BundleRoot # <<>>
  <2>1. Manifest \notin DOMAIN td /\ BundleRoot \in lone
    BY <1>3 DEF BundleRoot
  <2>2. /\ BundleRoot \in job.dirs /\ BundleRoot \in Seq(STRING) /\ Len(BundleRoot) = 1
        /\ BundleRoot \o Manifest \in DOMAIN td
    BY <1>1, <2>1 DEF Subdirectories
  <2>3. Cardinality(Top) <= 1 /\ IsFiniteSet(Top)
    <3>. DEFINE all == (DOMAIN td \cup job.dirs) \ {<<>>}
                first == [path \in all |-> path[1]]
    <3>1. IsFiniteSet(DOMAIN td \cup job.dirs)
      BY FS_Union
    <3>2. IsFiniteSet(all)
      BY <3>1, FS_Subset
    <3>3. first \in Surjection(all, Top)
      BY DEF Surjection, Top
    <3>4. IsFiniteSet(Top)
      BY <3>2, <3>3, FS_Surjection
    <3>. QED BY <3>4, <2>1, FS_CardinalityType DEF Beside
  <2>4. \A a, b \in Top : a = b
    <3>. SUFFICES ASSUME NEW a \in Top, NEW b \in Top PROVE a = b
      OBVIOUS
    <3>1. Cardinality(Top) \in Nat /\ Cardinality(Top) # 0
      BY <2>3, FS_CardinalityType, FS_EmptySet
    <3>2. Cardinality(Top) = 1
      BY <2>3, <3>1
    <3>. QED BY <2>3, <3>2, FS_Singleton
  <2>5. BundleRoot[1] \in Top /\ BundleRoot = <<BundleRoot[1]>>
    BY <1>3, <2>2 DEF Top
  <2>6. ASSUME NEW path \in DOMAIN td
        PROVE  Len(path) > 1 /\ SubSeq(path, 1, 1) = BundleRoot
    <3>1. path \in Seq(STRING) /\ path # <<>>
      BY <1>1
    <3>2. path[1] \in Top
      BY <3>1 DEF Top
    <3>3. path[1] = BundleRoot[1]
      BY <2>4, <2>5, <3>2
    <3>4. Len(path) >= 1 /\ SubSeq(path, 1, 1) = <<path[1]>>
      <4>1. Len(path) >= 1
        BY <3>1
      <4>2. SubSeq(path, 1, 1) \in Seq(STRING) /\ Len(SubSeq(path, 1, 1)) = 1 /\ SubSeq(path, 1, 1)[1] = path[1]
        BY <3>1, <4>1
      <4>. DEFINE front == SubSeq(path, 1, 1)
      <4>. HIDE DEF front
      <4>3. front = <<path[1]>>
        BY <4>2, OneLong DEF front
      <4>. QED BY <4>1, <4>3 DEF front
    <3>5. Len(path) # 1
      <4>. SUFFICES ASSUME Len(path) = 1 PROVE FALSE
        OBVIOUS
      <4>1. path = <<path[1]>>
        BY <3>1
      <4>. QED BY <1>1, <2>2, <2>5, <3>3, <4>1
    <3>. QED BY <2>5, <3>1, <3>3, <3>4, <3>5
  <2>7. BundleRoot \in {SubSeq(path, 1, 1) : path \in DOMAIN td}
    BY <2>2, <2>6
  <2>8. \A path \in DOMAIN td : Len(path) > Len(BundleRoot) /\ SubSeq(path, 1, Len(BundleRoot)) = BundleRoot
    BY <2>2, <2>6
  <2>. DEFINE root == BundleRoot
  <2>. HIDE DEF root, td
  <2>9. /\ \A rest \in DOMAIN Under(td, root) : Under(td, root)[rest] = td[root \o rest]
        /\ DOMAIN td = {root \o rest : rest \in DOMAIN Under(td, root)}
    BY <1>1, <2>2, <2>8, UnderAll DEF root
  <2>. QED BY <2>2, <2>7, <2>9 DEF root, td
<1>. QED BY <1>2, <1>3

(* What passes is the manifest and what it pins.                           *)
LEMMA PassedIsPinned ==
  ASSUME NEW files, NEW stack, Failures(files, stack) = {}
  PROVE  /\ Manifest \in DOMAIN files
         /\ DOMAIN files = DOMAIN files[Manifest].pins \cup {Manifest}
         /\ \A path \in DOMAIN files[Manifest].pins : files[path].text = files[Manifest].pins[path]
         /\ DOMAIN files \cap Odd = {} /\ \A path \in DOMAIN files : files[path].kind # "link"
<1>. DEFINE man     == files[Manifest]
            listed  == DOMAIN man.pins \ Odd
            links   == NamedLinks(files)
            there   == (listed \cap DOMAIN files) \ links
            trusted == {p \in there : files[p].text = man.pins[p]}
<1>1. Manifest \in DOMAIN files
  BY DEF Failures
<1>2. ArtifactFailures(files, man, stack) = {}
  <2>1. Reading(man.text, FALSE, stack) = "value"
    BY <1>1 DEF Failures
  <2>2. Markers(man) = {}
    <3>. SUFFICES ASSUME NEW field \in Markers(man) PROVE FALSE
      OBVIOUS
    <3>1. Failures(files, stack) = {<<"draft-incomplete", f>> : f \in Markers(man)}
      BY <1>1, <2>1 DEF Failures
    <3>. QED BY <3>1
  <2>. QED BY <1>1, <2>1, <2>2 DEF Failures
<1>3. /\ DOMAIN man.pins \cap Odd = {} /\ links = {}
      /\ listed \ (DOMAIN files \cup links) = {} /\ there \ trusted = {}
      /\ DOMAIN files \ (listed \cup links \cup {Manifest}) = {}
  <2>. DEFINE read == [p \in trusted |-> Reading(man.pins[p], TRUE, stack)]
              a == {<<"schema-violation", p>> : p \in DOMAIN man.pins \cap Odd}
              b == {<<"unsafe-bundle", p>> : p \in links}
              c == {<<"missing-artifact", p>> : p \in listed \ (DOMAIN files \cup links)}
              d == {<<"sha256-mismatch", p>> : p \in there \ trusted}
              e == {<<"unlisted-file", p>> : p \in DOMAIN files \ (listed \cup links \cup {Manifest})}
              f == {<<read[p], p>> : p \in {q \in trusted : read[q] # "value"}}
  <2>1. a \cup b \cup c \cup d \cup e \cup f = {}
    BY <1>2 DEF ArtifactFailures
  <2>2. a = {} /\ b = {} /\ c = {} /\ d = {} /\ e = {}
    BY <2>1
  <2>. HIDE DEF listed, links, there, trusted
  <2>3. /\ \A x \in DOMAIN man.pins \cap Odd : <<"schema-violation", x>> \in a
        /\ \A x \in links : <<"unsafe-bundle", x>> \in b
        /\ \A x \in listed \ (DOMAIN files \cup links) : <<"missing-artifact", x>> \in c
        /\ \A x \in there \ trusted : <<"sha256-mismatch", x>> \in d
        /\ \A x \in DOMAIN files \ (listed \cup links \cup {Manifest}) : <<"unlisted-file", x>> \in e
    OBVIOUS
  <2>. QED BY <2>2, <2>3
<1>4. Manifest \notin Odd
  BY FilesAssumption
<1>5. links = {path \in DOMAIN files : files[path].kind = "link"}
  BY DEF NamedLinks, Links
<1>6. /\ DOMAIN files = DOMAIN man.pins \cup {Manifest}
      /\ \A path \in DOMAIN man.pins : files[path].text = man.pins[path]
  BY <1>1, <1>3
<1>7. DOMAIN files \cap Odd = {}
  BY <1>3, <1>4, <1>6
<1>8. \A path \in DOMAIN files : files[path].kind # "link"
  BY <1>3, <1>5
<1>. QED BY <1>1, <1>6, <1>7, <1>8

(* A refusal is exit code 1 and has a reason.                              *)
LEMMA RefusalReported ==
  RefuseArchive => /\ outcome'.target = "archive" /\ outcome'.exit = 1
                   /\ outcome'.files = <<>> /\ outcome'.reasons # {}
<1>. DEFINE reasons == {<<"unsafe-archive", "archive">>}
<1>1. reasons # {}
  OBVIOUS
<1>. HIDE DEF reasons
<1>2. RefuseArchive => outcome' = [target |-> "archive", files |-> <<>>, reasons |-> reasons, exit |-> 1]
  BY <1>1 DEF RefuseArchive, Report, reasons
<1>. QED BY <1>1, <1>2

(* What an accepted archive holds, when the verdict is given.              *)
LEMMA JudgedIsTheBundle ==
  ASSUME TypeOK, Vetted, Extracted, Judge PROVE ArchiveIsTheBundle'
<1>. DEFINE files == Under(job.td, BundleRoot)
            held  == {i \in DOMAIN archive.members : archive.members[i].kind # "dir"}
            names == {Part(archive.members[i].name, host.flavour) : i \in held}
<1>1. RefuseArchive => ArchiveIsTheBundle'
  BY RefusalReported DEF ArchiveIsTheBundle
<1>. SUFFICES ASSUME ~RefuseArchive, outcome'.exit = 0
     PROVE  LET pins == outcome'.files[Manifest].pins
            IN  \E root \in {<<>>} \cup {SubSeq(path, 1, 1) : path \in DOMAIN job.td} :
                  /\ names = {root \o path : path \in DOMAIN pins \cup {Manifest}}
                  /\ \A path \in DOMAIN pins : job.td[root \o path].text = pins[path]
  <2>1. (job'.td = job.td /\ archive' = archive /\ host' = host) \/ RefuseArchive
    BY DEF Judge, TypeOK, IntakeTypeOK, NotJudging
  <2>. QED BY <1>1, <2>1 DEF ArchiveIsTheBundle
<1>2. /\ ~Beside /\ Report("archive", files, Failures(files, host.stack))
      /\ job.pc = "extract" /\ job.at > Len(archive.members)
  BY DEF Judge
<1>3. outcome'.files = files /\ Failures(files, host.stack) = {}
  BY <1>2 DEF Report
<1>4. /\ Manifest \in DOMAIN files
      /\ DOMAIN files = DOMAIN files[Manifest].pins \cup {Manifest}
      /\ \A path \in DOMAIN files[Manifest].pins : files[path].text = files[Manifest].pins[path]
  BY <1>3, PassedIsPinned
<1>5. DOMAIN job.td = names
  <2>1. \A i \in DOMAIN archive.members : i < job.at
    BY <1>2, MembersCounted DEF TypeOK, IntakeTypeOK
  <2>2. Written(job.at) = names
    BY <2>1 DEF Written
  <2>. QED BY <1>2, <2>2 DEF Extracted
<1>6. <<>> \notin names
  <2>. SUFFICES ASSUME NEW i \in held PROVE Part(archive.members[i].name, host.flavour) # <<>>
    OBVIOUS
  <2>1. ~Unsafe(archive.members[i])
    BY <1>2 DEF Vetted
  <2>2. archive.members[i].name.posix = <<>> <=> archive.members[i].name.windows = <<>>
    BY DEF TypeOK, IntakeTypeOK, IsArchive, IsMember
  <2>. QED BY <2>1, <2>2 DEF Unsafe, IsEmpty, Part
<1>. DEFINE root == BundleRoot
<1>7. /\ root \in {<<>>} \cup {SubSeq(path, 1, 1) : path \in DOMAIN job.td}
      /\ \A rest \in DOMAIN files : files[rest] = job.td[root \o rest]
      /\ DOMAIN job.td = {root \o rest : rest \in DOMAIN files}
  <2>1. <<>> \notin DOMAIN job.td /\ IsFiniteSet(DOMAIN job.td) /\ IsFiniteSet(job.dirs) /\ IntakeTypeOK
    BY <1>5, <1>6 DEF Extracted, TypeOK
  <2>. QED BY <1>2, <1>4, <2>1, BundleFound
<1>. HIDE DEF files, root, names
<1>8. names = {root \o path : path \in DOMAIN files[Manifest].pins \cup {Manifest}}
  BY <1>4, <1>5, <1>7
<1>9. \A path \in DOMAIN files[Manifest].pins : job.td[root \o path].text = files[Manifest].pins[path]
  BY <1>4, <1>7
<1>. QED BY <1>3, <1>7, <1>8, <1>9

(* It holds at first, and every step keeps it.                             *)
LEMMA BundleSteps ==
  /\ Init => ArchiveIsTheBundle
  /\ TypeOK /\ Vetted /\ Extracted /\ ArchiveIsTheBundle /\ [Next]_vars => ArchiveIsTheBundle'
<1>1. Init => ArchiveIsTheBundle
  BY DEF Init, IntakeInit, NoOutcome, ArchiveIsTheBundle
<1>2. ASSUME outcome'.target # "archive" \/ outcome'.exit # 0 PROVE ArchiveIsTheBundle'
  BY <1>2 DEF ArchiveIsTheBundle
<1>3. outcome' = NoOutcome => ArchiveIsTheBundle'
  BY <1>2 DEF NoOutcome
<1>4. ASSUME TypeOK, Vetted, Extracted, ArchiveIsTheBundle, ArchiveStep PROVE ArchiveIsTheBundle'
  <2>. USE <1>4
  <2>1. RefuseArchive => ArchiveIsTheBundle'
    BY <1>2, RefusalReported
  <2>2. job.pc # "idle" /\ outcome' = outcome => ArchiveIsTheBundle'
    BY <1>2 DEF Extracted
  <2>3. CASE StartIntake
    BY <1>3, <2>3 DEF StartIntake
  <2>4. CASE ReadShort
    <3>1. RefuseArchive \/ outcome' = [target |-> "archive", files |-> <<>>, reasons |-> {}, exit |-> 1]
      BY <2>4 DEF ReadShort
    <3>2. outcome' = [target |-> "archive", files |-> <<>>, reasons |-> {}, exit |-> 1] => outcome'.exit = 1
      OBVIOUS
    <3>. QED BY <1>2, <2>1, <3>1, <3>2
  <2>5. CASE Vet \/ ExtractMember
    BY <2>1, <2>2, <2>5 DEF Vet, ExtractMember
  <2>6. CASE Judge
    BY <2>6, JudgedIsTheBundle
  <2>. QED BY <2>3, <2>4, <2>5, <2>6 DEF ArchiveStep
<1>5. VerifyInPlace => ArchiveIsTheBundle'
  BY <1>2 DEF VerifyInPlace, VerifyDirectory, Report
<1>6. ASSUME ArchiveIsTheBundle, UNCHANGED intakeVars PROVE ArchiveIsTheBundle'
  <2>1. archive' = archive /\ job' = job /\ outcome' = outcome /\ host' = host
    BY <1>6 DEF intakeVars
  <2>2. ArchiveIsTheBundle <=> ArchiveIsTheBundle'
    BY <2>1, SMT DEF ArchiveIsTheBundle
  <2>. QED BY <1>6, <2>2
<1>. QED BY <1>1, <1>3, <1>4, <1>5, <1>6 DEF Next, vars, Pack

(* Nothing rides along in an accepted archive.                             *)
THEOREM NothingRidesAlong == Spec => []ArchiveIsTheBundle
<1>1. Init => Extracted /\ ArchiveIsTheBundle
  BY ExtractedSteps, BundleSteps
<1>2. Inv /\ Extracted /\ ArchiveIsTheBundle /\ [Next]_vars => (Extracted /\ ArchiveIsTheBundle)'
  BY ExtractedSteps, BundleSteps DEF Inv
<1>. QED BY <1>1, <1>2, Invariance, PTL DEF Spec

-----------------------------------------------------------------------------
(* A directory and a tar of it.                                            *)

TarPrefix == {<<>>, <<BundleName>>}

(* A prefix is a path, and nothing when the archive is made from inside.   *)
LEMMA PrefixTyped ==
  ASSUME NEW prefix \in TarPrefix
  PROVE  /\ prefix \in Seq(STRING) /\ Len(prefix) \in {0, 1}
         /\ prefix = <<>> \/ prefix = <<BundleName>>
<1>1. <<>> \in Seq(STRING) /\ Len(<<>>) = 0
  OBVIOUS
<1>2. <<BundleName>> \in Seq(STRING) /\ Len(<<BundleName>>) = 1
  BY NameAssumption, Single
<1>. QED BY <1>1, <1>2 DEF TarPrefix

(* The paths of a directory, each of them at its place in a sequence.      *)
LEMMA AllEnumerated ==
  ASSUME NEW S, IsFiniteSet(S)
  PROVE  \A x \in S : \E i \in DOMAIN SetToSeq(S) : SetToSeq(S)[i] = x
<1>. DEFINE n == Cardinality(S)
<1>1. n \in Nat /\ ExistsBijection(1..n, S)
  BY FS_CardinalityType
<1>2. PICK f \in [1..n -> S] : IsInjective(f)
  <2>1. PICK f \in Bijection(1..n, S) : TRUE
    BY <1>1 DEF ExistsBijection
  <2>. QED BY <2>1 DEF Bijection, Injection, IsInjective
<1>3. SetToSeq(S) \in [1..n -> S] /\ IsInjective(SetToSeq(S))
  BY <1>2 DEF SetToSeq
<1>4. SetToSeq(S) \in Injection(1..n, S)
  BY <1>3 DEF Injection, IsInjective
<1>5. IsFiniteSet(1..n) /\ Cardinality(1..n) = n
  BY <1>1, FS_Interval
<1>6. SetToSeq(S) \in Surjection(1..n, S)
  BY <1>4, <1>5, FS_Injection
<1>. QED BY <1>3, <1>6 DEF Surjection

(* A tar of a directory is its root, and every file of it once or more.    *)
LEMMA PackedMembers ==
  ASSUME NEW files, IsDirectory(files), NEW prefix \in TarPrefix, NEW members,
         members = Packed(files, prefix)
  PROVE  /\ 1 \in DOMAIN members /\ members[1] = Root(prefix)
         /\ \A i \in DOMAIN members \ {1} :
              \E q \in DOMAIN files : members[i] = Member(prefix \o q, files[q])
         /\ \A q \in DOMAIN files :
              \E i \in DOMAIN members \ {1} : members[i] = Member(prefix \o q, files[q])
<1>. DEFINE paths == SetToSeq(DOMAIN files)
            tail  == [i \in DOMAIN paths |-> Member(prefix \o paths[i], files[paths[i]])]
            all   == {Root(prefix)} \cup Range(tail)
            head  == <<Root(prefix)>>
<1>1. IsFiniteSet(DOMAIN files)
  BY FilesAssumption, FS_Subset DEF IsDirectory
<1>2. /\ paths \in Seq(DOMAIN files) /\ Len(paths) \in Nat /\ DOMAIN paths = 1..Len(paths)
      /\ \A i \in DOMAIN paths : paths[i] \in DOMAIN files
      /\ \A q \in DOMAIN files : \E i \in DOMAIN paths : paths[i] = q
  <2>1. paths \in Seq(DOMAIN files)
    BY <1>1, Enumerated
  <2>. HIDE DEF paths
  <2>2. Len(paths) \in Nat /\ DOMAIN paths = 1..Len(paths) /\ \A i \in DOMAIN paths : paths[i] \in DOMAIN files
    BY <2>1
  <2>. QED BY <1>1, <2>1, <2>2, AllEnumerated DEF paths
<1>. HIDE DEF paths
<1>3. tail \in Seq(all) /\ Len(tail) = Len(paths)
  <2>1. tail \in [1..Len(paths) -> all]
    BY <1>2 DEF Range
  <2>. QED BY <1>2, <2>1, SeqDef
<1>4. head \in Seq(all) /\ Len(head) = 1 /\ head[1] = Root(prefix)
  OBVIOUS
<1>5. members = head \o tail
  BY DEF Packed, paths
<1>6. \A i \in DOMAIN paths : tail[i] = Member(prefix \o paths[i], files[paths[i]])
  OBVIOUS
<1>. HIDE DEF tail, head, all
<1>7. /\ members \in Seq(all) /\ Len(members) = 1 + Len(paths)
      /\ \A i \in 1..(1 + Len(paths)) : members[i] = IF i <= 1 THEN head[i] ELSE tail[i - 1]
  <2>1. /\ head \o tail \in Seq(all) /\ Len(head \o tail) = Len(head) + Len(tail)
        /\ \A i \in 1..(Len(head) + Len(tail)) :
              (head \o tail)[i] = IF i <= Len(head) THEN head[i] ELSE tail[i - Len(head)]
    BY <1>3, <1>4, ConcatProperties
  <2>. QED BY <1>3, <1>4, <1>5, <2>1
<1>8. DOMAIN members = 1..(1 + Len(paths))
  BY <1>7
<1>9. ASSUME NEW i \in DOMAIN members \ {1}
      PROVE  i - 1 \in DOMAIN paths /\ members[i] = tail[i - 1]
  BY <1>2, <1>7, <1>8
<1>10. ASSUME NEW i \in DOMAIN paths
       PROVE  i + 1 \in DOMAIN members \ {1} /\ members[i + 1] = tail[i]
  BY <1>2, <1>7, <1>8
<1>11. 1 \in DOMAIN members /\ members[1] = Root(prefix)
  BY <1>2, <1>4, <1>7, <1>8
<1>12. \A i \in DOMAIN members \ {1} :
         \E q \in DOMAIN files : members[i] = Member(prefix \o q, files[q])
  BY <1>2, <1>6, <1>9
<1>13. \A q \in DOMAIN files :
         \E i \in DOMAIN members \ {1} : members[i] = Member(prefix \o q, files[q])
  BY <1>2, <1>6, <1>10
<1>. QED BY <1>11, <1>12, <1>13

(* The vetting of a tar of a directory stops at a path that is refused or  *)
(* at a link, and nowhere else.                                            *)
LEMMA PackedIsVetted ==
  ASSUME Standing, NEW files, IsDirectory(files), NEW prefix \in TarPrefix,
         NEW stack, Failures(files, stack) = {},
         NEW i \in DOMAIN Packed(files, prefix)
  PROVE  ~Unsafe(Packed(files, prefix)[i])
<1>. DEFINE members == Packed(files, prefix)
<1>1. CASE i = 1
  <2>1. members[1] = Root(prefix)
    BY PackedMembers
  <2>2. ~Climbs(prefix)
    BY PrefixTyped DEF Climbs, Standing
  <2>. QED BY <1>1, <2>1, <2>2 DEF Root, Unsafe, IsEmpty
<1>2. CASE i # 1
  <2>1. PICK q \in DOMAIN files : members[i] = Member(prefix \o q, files[q])
    BY <1>2, PackedMembers
  <2>2. q \in Path \ Odd /\ files[q].kind # "link" /\ q \in Seq(STRING)
    BY PassedIsPinned, FilesAssumption DEF IsDirectory
  <2>3. ~Climbs(q) /\ q # <<>>
    BY <2>2 DEF Standing
  <2>4. prefix \o q \notin Odd
    <3>1. <<>> \o q = q
      BY <2>2, ConcatEmptySeq
    <3>. QED BY <2>2, <3>1, PrefixTyped DEF Standing
  <2>5. ~Climbs(prefix \o q) /\ prefix \o q # <<>>
    <3>1. /\ prefix \o q \in Seq(STRING) /\ Len(prefix \o q) = Len(prefix) + Len(q)
          /\ \A k \in 1..(Len(prefix) + Len(q)) : (prefix \o q)[k] = IF k <= Len(prefix) THEN prefix[k] ELSE q[k - Len(prefix)]
      <4>1. prefix \in Seq(STRING)
        BY PrefixTyped
      <4>. QED BY <2>2, <4>1, ConcatProperties
    <3>2. Len(prefix) \in Nat /\ Len(q) \in Nat /\ Len(q) > 0 /\ DOMAIN q = 1..Len(q)
          /\ DOMAIN (prefix \o q) = 1..(Len(prefix) + Len(q))
      BY <2>2, <2>3, <3>1, PrefixTyped
    <3>3. \A k \in 1..Len(prefix) : prefix[k] # ".."
      BY PrefixTyped DEF Standing
    <3>4. \A k \in 1..Len(q) : q[k] # ".."
      BY <2>3, <3>2 DEF Climbs
    <3>5. \A k \in DOMAIN (prefix \o q) : (prefix \o q)[k] # ".."
      BY <3>1, <3>2, <3>3, <3>4
    <3>. QED BY <3>1, <3>2, <3>5 DEF Climbs
  <2>6. /\ members[i].name.posix = prefix \o q /\ members[i].name.windows = prefix \o q
        /\ members[i].name.anchored = {} /\ members[i].kind = "file"
    BY <2>1, <2>2, <2>4 DEF Member
  <2>. HIDE DEF members
  <2>7. ~Unsafe(members[i])
    BY <2>5, <2>6 DEF Unsafe, IsEmpty
  <2>. QED BY <2>7 DEF members
<1>. QED BY <1>1, <1>2

(* What can come to be a directory where a tar of a directory is extracted.*)
Above(files, prefix) ==
  {prefix} \cup Parents(prefix) \cup UNION {Parents(prefix \o q) : q \in DOMAIN files}

(* A path with a prefix in front, and the paths above it.                  *)
LEMMA Fronted ==
  ASSUME NEW q \in Seq(STRING), NEW prefix \in TarPrefix
  PROVE  /\ prefix \o q \in Seq(STRING) /\ Len(prefix \o q) = Len(prefix) + Len(q)
         /\ Len(prefix) \in {0, 1} /\ Len(q) \in Nat
         /\ \A p \in Seq(STRING) : prefix \o p \in Parents(prefix \o q) => p \in Parents(q)
         /\ \A p \in Seq(STRING) : prefix \o p = prefix \o q => p = q
<1>1. prefix \in Seq(STRING) /\ Len(prefix) \in {0, 1}
  BY PrefixTyped
<1>2. \A p \in Seq(STRING) :
        /\ prefix \o p \in Seq(STRING) /\ Len(prefix \o p) = Len(prefix) + Len(p)
        /\ \A k \in 1..(Len(prefix) + Len(p)) :
              (prefix \o p)[k] = IF k <= Len(prefix) THEN prefix[k] ELSE p[k - Len(prefix)]
  BY <1>1, ConcatProperties
<1>3. \A p \in Seq(STRING) : Len(p) \in Nat
  OBVIOUS
<1>4. ASSUME NEW p \in Seq(STRING), NEW n \in 0..Len(q),
             \A k \in 1..(Len(prefix) + Len(p)) : (prefix \o p)[k] = (prefix \o q)[k],
             Len(p) = n
      PROVE  p = SubSeq(q, 1, n)
  <2>1. \A k \in 1..n : k + Len(prefix) \in 1..(Len(prefix) + Len(p)) /\ k + Len(prefix) > Len(prefix)
    BY <1>1, <1>3, <1>4
  <2>2. \A k \in 1..n : p[k] = q[k]
    <3>. SUFFICES ASSUME NEW k \in 1..n PROVE p[k] = q[k]
      OBVIOUS
    <3>1. (prefix \o p)[k + Len(prefix)] = (prefix \o q)[k + Len(prefix)]
      BY <1>4, <2>1
    <3>2. (prefix \o p)[k + Len(prefix)] = p[k]
      BY <1>1, <1>2, <1>3, <1>4, <2>1
    <3>3. (prefix \o q)[k + Len(prefix)] = q[k]
      BY <1>1, <1>2, <1>3, <1>4, <2>1
    <3>. QED BY <3>1, <3>2, <3>3
  <2>3. SubSeq(q, 1, n) \in Seq(STRING) /\ Len(SubSeq(q, 1, n)) = n
        /\ \A k \in 1..n : SubSeq(q, 1, n)[k] = q[k]
    OBVIOUS
  <2>. QED BY <1>4, <2>2, <2>3, SeqEqual
<1>5. ASSUME NEW p \in Seq(STRING), prefix \o p \in Parents(prefix \o q) PROVE p \in Parents(q)
  <2>1. PICK n \in 0..(Len(prefix \o q) - 1) : prefix \o p = SubSeq(prefix \o q, 1, n)
    BY <1>5 DEF Parents
  <2>2. n \in 0..(Len(prefix) + Len(q) - 1) /\ Len(q) \in Nat /\ Len(p) \in Nat
    BY <1>2, <1>3, <2>1
  <2>. DEFINE whole == prefix \o q
              front == SubSeq(whole, 1, n)
  <2>3. whole \in Seq(STRING) /\ Len(whole) = Len(prefix) + Len(q)
    BY <1>2
  <2>. HIDE DEF whole
  <2>4. Len(front) = n /\ \A k \in 1..n : front[k] = whole[k]
    BY <1>1, <2>2, <2>3
  <2>. HIDE DEF front
  <2>5. Len(prefix) + Len(p) = n
    BY <1>2, <2>1, <2>4 DEF front, whole
  <2>6. Len(p) \in 0..(Len(q) - 1)
    BY <1>1, <2>2, <2>5
  <2>7. \A k \in 1..(Len(prefix) + Len(p)) : (prefix \o p)[k] = (prefix \o q)[k]
    BY <2>1, <2>4, <2>5 DEF front, whole
  <2>8. p = SubSeq(q, 1, Len(p))
    BY <1>4, <2>2, <2>6, <2>7
  <2>. QED BY <2>6, <2>8 DEF Parents
<1>6. ASSUME NEW p \in Seq(STRING), prefix \o p = prefix \o q PROVE p = q
  <2>1. Len(p) = Len(q)
    BY <1>1, <1>2, <1>3, <1>6
  <2>2. p = SubSeq(q, 1, Len(q))
    BY <1>3, <1>4, <1>6, <2>1
  <2>3. q = SubSeq(q, 1, Len(q))
    OBVIOUS
  <2>. QED BY <2>2, <2>3
<1>. QED BY <1>1, <1>2, <1>3, <1>5, <1>6

(* Where the files of a directory are extracted, no file is in the way of  *)
(* another, and no directory is where a file is due.                       *)
LEMMA NothingInTheWay ==
  ASSUME Standing, NEW files, IsDirectory(files), NEW prefix \in TarPrefix, NEW q \in DOMAIN files
  PROVE  /\ prefix \o q \notin Above(files, prefix)
         /\ \A p \in DOMAIN files : prefix \o p \notin Parents(prefix \o q)
         /\ \A p \in DOMAIN files : prefix \o p \notin {prefix} \cup Parents(prefix)
<1>1. DOMAIN files \subseteq Path /\ DOMAIN files \subseteq Seq(STRING)
  BY FilesAssumption DEF IsDirectory
<1>2. \A p \in DOMAIN files : Len(p) \in Nat /\ Len(p) > 0
  BY <1>1 DEF Standing
<1>3. \A p \in DOMAIN files : \A r \in DOMAIN files : prefix \o p \notin Parents(prefix \o r)
  BY <1>1, Fronted DEF Standing
<1>4. ASSUME NEW p \in DOMAIN files PROVE prefix \o p \notin {prefix} \cup Parents(prefix)
  <2>1. Len(prefix \o p) \in Nat /\ Len(prefix \o p) > Len(prefix) /\ Len(prefix) \in Nat /\ prefix \in Seq(STRING)
    BY <1>1, <1>2, Fronted, PrefixTyped
  <2>2. \A n \in 0..(Len(prefix) - 1) : Len(SubSeq(prefix, 1, n)) = n
    BY <2>1
  <2>. DEFINE whole == prefix \o p
  <2>4. Len(whole) \in Nat /\ Len(whole) > Len(prefix) /\ Len(prefix) \in Nat
    BY <2>1
  <2>. HIDE DEF whole
  <2>5. whole # prefix
    BY <2>4
  <2>6. \A n \in 0..(Len(prefix) - 1) : whole # SubSeq(prefix, 1, n)
    BY <2>2, <2>4
  <2>7. whole \notin Parents(prefix)
    BY <2>6 DEF Parents
  <2>. QED BY <2>5, <2>7 DEF whole
<1>. QED BY <1>3, <1>4 DEF Above

(* An archive that is the directory as it is, and what has been extracted  *)
(* of it.                                                                  *)
Unpacked(prefix) ==
  /\ \A q \in DOMAIN dir : prefix \o q \in DOMAIN job.td => job.td[prefix \o q] = dir[q]
  /\ job.dirs \subseteq Above(dir, prefix)
  /\ job.at > 1 => prefix \in job.dirs

PackedFrom(prefix) ==
  /\ archive = [members |-> Packed(dir, prefix), bytes |-> "whole"]
  /\ job.pc = "extract" => Unpacked(prefix)

Repacked ==
  packed => Manifest \in DOMAIN dir /\ \E prefix \in TarPrefix : PackedFrom(prefix)

(* One more member of such an archive: it is not refused.                  *)
LEMMA UnpackStep ==
  ASSUME Standing, TypeOK, Vetted, Extracted, NEW prefix \in TarPrefix, PackedFrom(prefix),
         ExtractMember, dir' = dir
  PROVE  job'.pc = "extract" /\ PackedFrom(prefix)' /\ outcome' = outcome
<1>. DEFINE member == archive.members[job.at]
            path   == Part(member.name, host.flavour)
<1>1. job.at \in DOMAIN archive.members /\ job.pc = "extract" /\ job.at \in Nat
  BY MembersCounted DEF ExtractMember, TypeOK, IntakeTypeOK
<1>2. IsDirectory(dir) /\ archive.members = Packed(dir, prefix) /\ Unpacked(prefix)
  BY <1>1 DEF TypeOK, DraftTypeOK, PackedFrom
<1>3. /\ archive.members[1] = Root(prefix)
      /\ \A i \in DOMAIN archive.members \ {1} :
           \E q \in DOMAIN dir : archive.members[i] = Member(prefix \o q, dir[q])
  BY <1>2, PackedMembers
<1>4. ~Leaves(member.name)
  <2>1. ~Unsafe(member)
    BY <1>1 DEF Vetted
  <2>2. member.name.posix = <<>> <=> member.name.windows = <<>>
    BY <1>1 DEF TypeOK, IntakeTypeOK, IsArchive, IsMember
  <2>3. host.flavour \in {"posix", "windows"}
    BY DEF TypeOK, IntakeTypeOK, IsHost
  <2>. QED BY <2>1, <2>2, <2>3 DEF Unsafe, IsEmpty, Leaves, Part, Climbs
<1>5. DOMAIN job.td = Written(job.at)
  BY <1>1 DEF Extracted
<1>6. DOMAIN archive.members \subseteq Nat \ {0}
  BY MembersCounted DEF TypeOK, IntakeTypeOK
<1>7. DOMAIN job = {"pc", "at", "td", "dirs", "outside"}
  BY DEF TypeOK, IntakeTypeOK, NotJudging
<1>8. CASE job.at = 1
  <2>1. member = Root(prefix) /\ path = prefix /\ member.kind = "dir"
    BY <1>8, <1>3 DEF Root, Part
  <2>2. DOMAIN job.td = {}
    BY <1>5, <1>6, <1>8 DEF Written
  <2>3. ~Blocked(path)
    BY <2>2 DEF Blocked
  <2>4. /\ job' = [[job EXCEPT !.at = @ + 1] EXCEPT !.dirs = @ \cup Parents(prefix) \cup {prefix}]
        /\ archive' = archive /\ outcome' = outcome
    BY <1>4, <2>1, <2>2, <2>3 DEF ExtractMember
  <2>5. /\ job'.dirs = job.dirs \cup Parents(prefix) \cup {prefix} /\ job'.td = job.td
        /\ job'.pc = "extract"
    BY <1>1, <1>7, <2>4
  <2>6. job'.dirs \subseteq Above(dir, prefix) /\ prefix \in job'.dirs
    BY <1>2, <2>5 DEF Unpacked, Above
  <2>. QED BY <1>2, <2>4, <2>5, <2>6 DEF PackedFrom, Unpacked
<1>9. CASE job.at # 1
  <2>1. PICK q \in DOMAIN dir : member = Member(prefix \o q, dir[q])
    BY <1>1, <1>9, <1>3
  <2>2. path = prefix \o q /\ member.kind # "dir" /\ member.content = dir[q]
    BY <2>1 DEF Member, Part
  <2>3. \A p \in DOMAIN job.td : p = prefix \/ \E r \in DOMAIN dir : p = prefix \o r
    <3>. SUFFICES ASSUME NEW i \in DOMAIN archive.members, i < job.at, archive.members[i].kind # "dir"
         PROVE  \E r \in DOMAIN dir : Part(archive.members[i].name, host.flavour) = prefix \o r
      BY <1>5 DEF Written
    <3>1. i # 1
      BY <1>3 DEF Root
    <3>2. PICK r \in DOMAIN dir : archive.members[i] = Member(prefix \o r, dir[r])
      BY <1>3, <3>1
    <3>3. Part(archive.members[i].name, host.flavour) = prefix \o r
      BY <3>2 DEF Member, Part
    <3>. QED BY <3>3
  <2>4. prefix \notin DOMAIN job.td
    BY <1>1, <1>2, <1>9 DEF Unpacked, TypeOK, IntakeTypeOK
  <2>5. ~Blocked(path)
    <3>1. \A r \in DOMAIN dir : prefix \o r \notin Parents(prefix \o q)
      BY <1>2, NothingInTheWay
    <3>. QED BY <2>2, <2>3, <2>4, <3>1 DEF Blocked
  <2>6. path \notin job.dirs
    BY <1>2, <2>2, NothingInTheWay DEF Unpacked
  <2>7. /\ job' = [[job EXCEPT !.at = @ + 1] EXCEPT !.td = With(@, path, member.content), !.dirs = @ \cup Parents(path)]
        /\ archive' = archive /\ outcome' = outcome
    BY <1>4, <2>2, <2>5, <2>6 DEF ExtractMember
  <2>8. /\ job'.td = With(job.td, prefix \o q, dir[q]) /\ job'.dirs = job.dirs \cup Parents(prefix \o q)
        /\ job'.pc = "extract"
    BY <1>1, <1>7, <2>2, <2>7
  <2>9. job'.dirs \subseteq Above(dir, prefix) /\ prefix \in job'.dirs
    <3>1. job.dirs \subseteq Above(dir, prefix) /\ prefix \in job.dirs
      BY <1>1, <1>2, <1>9 DEF Unpacked, TypeOK, IntakeTypeOK
    <3>2. Parents(prefix \o q) \subseteq Above(dir, prefix)
      BY DEF Above
    <3>. QED BY <2>8, <3>1, <3>2
  <2>10. ASSUME NEW r \in DOMAIN dir, prefix \o r \in DOMAIN job'.td
         PROVE  job'.td[prefix \o r] = dir[r]
    <3>1. CASE prefix \o r = prefix \o q
      <4>1. q \in Seq(STRING) /\ r \in Seq(STRING)
        BY <1>2, FilesAssumption DEF IsDirectory
      <4>2. r = q
        BY <3>1, <4>1, Fronted
      <4>. QED BY <2>8, <4>2 DEF With
    <3>2. CASE prefix \o r # prefix \o q
      <4>1. prefix \o r \in DOMAIN job.td /\ job'.td[prefix \o r] = job.td[prefix \o r]
        <5>1. /\ DOMAIN job'.td = DOMAIN job.td \cup {prefix \o q}
              /\ \A x \in DOMAIN job.td \ {prefix \o q} : job'.td[x] = job.td[x]
          <6>1. /\ DOMAIN With(job.td, prefix \o q, dir[q]) = DOMAIN job.td \cup {prefix \o q}
                /\ \A x \in DOMAIN job.td \ {prefix \o q} : With(job.td, prefix \o q, dir[q])[x] = job.td[x]
            BY DEF With
          <6>. QED BY <2>8, <6>1
        <5>. QED BY <2>10, <3>2, <5>1
      <4>. QED BY <1>2, <4>1 DEF Unpacked
    <3>. QED BY <3>1, <3>2
  <2>. QED BY <1>2, <2>7, <2>8, <2>9, <2>10 DEF PackedFrom, Unpacked
<1>. QED BY <1>8, <1>9

(* Packed as it is, and packed still.                                      *)
LEMMA RepackedSteps ==
  /\ Init => Repacked
  /\ Standing /\ TypeOK /\ Guarded /\ Vetted /\ Extracted /\ Repacked /\ [Next]_vars => Repacked'
<1>1. Init => Repacked
  BY DEF Init, Repacked
<1>2. ASSUME NEW prefix \in TarPrefix, Manifest \in DOMAIN dir,
             archive = [members |-> Packed(dir, prefix), bytes |-> "whole"],
             dir' = dir, archive' = archive, job'.pc # "extract" \/ Unpacked(prefix)'
      PROVE  Repacked'
  <2>1. PackedFrom(prefix)'
    BY <1>2 DEF PackedFrom
  <2>. QED BY <1>2, <2>1 DEF Repacked
<1>3. ASSUME TypeOK, Repacked, UNCHANGED <<intakeVars, packed>>, dir' = dir
      PROVE  Repacked'
  <2>. SUFFICES ASSUME packed PROVE Repacked'
    BY <1>3 DEF Repacked
  <2>1. PICK prefix \in TarPrefix : PackedFrom(prefix)
    BY <1>3 DEF Repacked
  <2>2. dir' = dir /\ archive' = archive /\ job' = job /\ Manifest \in DOMAIN dir
    BY <1>3 DEF Repacked, intakeVars
  <2>3. job'.pc # "extract" \/ Unpacked(prefix)'
    BY <2>1, <2>2 DEF PackedFrom, Unpacked
  <2>. QED BY <1>2, <2>1, <2>2, <2>3 DEF PackedFrom
<1>4. ASSUME packed' = FALSE PROVE Repacked'
  BY <1>4 DEF Repacked
<1>5. ASSUME TypeOK, Repacked, Guarded, VerifyInPlace PROVE Repacked'
  <2>. SUFFICES ASSUME packed PROVE Repacked'
    BY <1>5 DEF Repacked, VerifyInPlace
  <2>1. PICK prefix \in TarPrefix : PackedFrom(prefix)
    BY <1>5 DEF Repacked
  <2>2. dir' = dir /\ archive' = archive /\ job'.pc # "extract" /\ Manifest \in DOMAIN dir
    BY <1>5 DEF Repacked, VerifyInPlace, VerifyDirectory, draftVars
  <2>. QED BY <1>2, <2>1, <2>2 DEF PackedFrom
<1>6. ASSUME NEW prefix \in TarPrefix, Pack(prefix) PROVE Repacked'
  <2>1. /\ Manifest \in DOMAIN dir' /\ job'.pc = "idle"
        /\ archive' = [members |-> Packed(dir', prefix), bytes |-> "whole"]
    BY <1>6 DEF Pack, draftVars, NotJudging
  <2>. QED BY <2>1 DEF Repacked, PackedFrom
<1>7. ASSUME Standing, TypeOK, Guarded, Vetted, Extracted, Repacked, ArchiveStep,
             UNCHANGED <<draftVars, packed>>
      PROVE  Repacked'
  <2>. SUFFICES ASSUME packed PROVE Repacked'
    BY <1>7 DEF Repacked
  <2>. USE <1>7
  <2>1. PICK prefix \in TarPrefix : PackedFrom(prefix)
    BY DEF Repacked
  <2>2. /\ dir' = dir /\ Manifest \in DOMAIN dir /\ archive' = archive
        /\ archive = [members |-> Packed(dir, prefix), bytes |-> "whole"]
    BY <2>1 DEF Repacked, draftVars, PackedFrom,
              ArchiveStep, StartIntake, ReadShort, Vet, ExtractMember, Judge, RefuseArchive
  <2>3. DOMAIN job = {"pc", "at", "td", "dirs", "outside"}
    BY DEF TypeOK, IntakeTypeOK, NotJudging
  <2>4. job' = [job EXCEPT !.pc = "idle"] => job'.pc # "extract"
    BY <2>3
  <2>5. CASE ExtractMember
    <3>1. PackedFrom(prefix)'
      BY <2>1, <2>2, <2>5, UnpackStep
    <3>. QED BY <1>2, <2>2, <3>1 DEF PackedFrom
  <2>6. CASE StartIntake
    <3>1. job'.pc = "vet"
      BY <2>6 DEF StartIntake, NotJudging
    <3>. QED BY <1>2, <2>2, <3>1
  <2>7. CASE ReadShort \/ Judge \/ RefuseArchive
    <3>1. job'.pc # "extract"
      BY <2>4, <2>7 DEF ReadShort, Judge, RefuseArchive
    <3>. QED BY <1>2, <2>2, <3>1
  <2>8. CASE Vet /\ ~RefuseArchive
    <3>1. job' = [job EXCEPT !.pc = "extract", !.at = 1] /\ job.td = <<>> /\ job.dirs = {}
      BY <2>8 DEF Vet, Extracted
    <3>2. job'.td = <<>> /\ job'.dirs = {} /\ job'.at = 1
      BY <2>3, <3>1
    <3>3. DOMAIN job'.td = {}
      BY <3>2
    <3>4. Unpacked(prefix)'
      BY <2>2, <3>2, <3>3 DEF Unpacked
    <3>. QED BY <1>2, <2>2, <3>4
  <2>. QED BY <2>5, <2>6, <2>7, <2>8 DEF ArchiveStep
<1>8. ASSUME Standing, TypeOK, Guarded, Vetted, Extracted, Repacked, [Next]_vars PROVE Repacked'
  <2>1. CASE UNCHANGED vars
    BY <1>3, <1>8, <2>1 DEF vars, draftVars
  <2>2. CASE UNCHANGED intakeVars /\ packed' = IF dir' = dir THEN packed ELSE FALSE
    BY <1>3, <1>4, <1>8, <2>2
  <2>3. CASE \E prefix \in {<<>>, <<BundleName>>} : Pack(prefix)
    BY <1>6, <2>3 DEF TarPrefix
  <2>. QED BY <1>4, <1>5, <1>7, <1>8, <2>1, <2>2, <2>3 DEF Next
<1>. QED BY <1>1, <1>8

(* Everything of the directory is there again when the last member has     *)
(* been read, and it is where the verifier looks for it.                   *)
LEMMA UnpackedIsThere ==
  ASSUME Standing, TypeOK, Extracted, NEW prefix \in TarPrefix, PackedFrom(prefix),
         Manifest \in DOMAIN dir, job.pc = "extract", job.at > Len(archive.members)
  PROVE  ~Beside /\ Under(job.td, BundleRoot) = dir
<1>1. /\ IsDirectory(dir) /\ archive.members = Packed(dir, prefix) /\ Unpacked(prefix)
      /\ DOMAIN dir \subseteq Path /\ DOMAIN dir \subseteq Seq(STRING)
  BY FilesAssumption DEF TypeOK, DraftTypeOK, PackedFrom, IsDirectory
<1>2. /\ 1 \in DOMAIN archive.members /\ archive.members[1] = Root(prefix)
      /\ \A i \in DOMAIN archive.members \ {1} :
           \E q \in DOMAIN dir : archive.members[i] = Member(prefix \o q, dir[q])
      /\ \A q \in DOMAIN dir :
           \E i \in DOMAIN archive.members \ {1} : archive.members[i] = Member(prefix \o q, dir[q])
  BY <1>1, PackedMembers
<1>3. \A i \in DOMAIN archive.members : i \in Nat \ {0} /\ i < job.at
  BY MembersCounted DEF TypeOK, IntakeTypeOK
<1>4. DOMAIN job.td = {prefix \o q : q \in DOMAIN dir}
  <2>1. DOMAIN job.td = Written(job.at)
    BY DEF Extracted
  <2>2. ASSUME NEW i \in DOMAIN archive.members, archive.members[i].kind # "dir"
        PROVE  \E q \in DOMAIN dir : Part(archive.members[i].name, host.flavour) = prefix \o q
    <3>1. i # 1
      BY <1>2, <2>2 DEF Root
    <3>2. PICK q \in DOMAIN dir : archive.members[i] = Member(prefix \o q, dir[q])
      BY <1>2, <3>1
    <3>3. Part(archive.members[i].name, host.flavour) = prefix \o q
      BY <3>2 DEF Member, Part
    <3>. QED BY <3>3
  <2>3. ASSUME NEW q \in DOMAIN dir PROVE prefix \o q \in Written(job.at)
    <3>1. PICK i \in DOMAIN archive.members : archive.members[i] = Member(prefix \o q, dir[q])
      BY <1>2
    <3>2. Part(archive.members[i].name, host.flavour) = prefix \o q /\ archive.members[i].kind # "dir"
      BY <3>1 DEF Member, Part
    <3>. QED BY <1>3, <3>2 DEF Written
  <2>4. Written(job.at) \subseteq {prefix \o q : q \in DOMAIN dir}
    BY <2>2 DEF Written
  <2>. QED BY <2>1, <2>3, <2>4
<1>5. \A q \in DOMAIN dir : job.td[prefix \o q] = dir[q]
  BY <1>1, <1>4 DEF Unpacked
<1>6. prefix \in job.dirs /\ job.dirs \subseteq Above(dir, prefix)
  BY <1>1, <1>2, <1>3 DEF Unpacked
<1>7. BundleRoot = prefix /\ ~Beside
  <2>1. CASE prefix = <<>>
    <3>1. prefix \o Manifest = Manifest
      BY <2>1 DEF Manifest
    <3>2. Manifest \in DOMAIN job.td
      BY <1>4, <3>1
    <3>. QED BY <2>1, <3>2 DEF BundleRoot, Beside
  <2>2. CASE prefix # <<>>
    <3>1. prefix = <<BundleName>> /\ prefix \in Seq(STRING) /\ Len(prefix) = 1
      BY <2>2, PrefixTyped, NameAssumption
    <3>2. ASSUME NEW q \in DOMAIN dir
          PROVE  /\ prefix \o q \in Seq(STRING) /\ Len(prefix \o q) > 1 /\ (prefix \o q)[1] = BundleName
      <4>1. q \in Seq(STRING) /\ q # <<>>
        BY <1>1 DEF Standing
      <4>2. Len(q) \in Nat /\ Len(q) > 0
        BY <4>1
      <4>3. /\ prefix \o q \in Seq(STRING) /\ Len(prefix \o q) = Len(prefix) + Len(q)
            /\ \A k \in 1..(Len(prefix) + Len(q)) :
                 (prefix \o q)[k] = IF k <= Len(prefix) THEN prefix[k] ELSE q[k - Len(prefix)]
        BY <3>1, <4>1, ConcatProperties
      <4>4. prefix[1] = BundleName
        BY <3>1
      <4>. QED BY <3>1, <4>2, <4>3, <4>4
    <3>3. ASSUME NEW path \in Seq(STRING), Len(path) >= 1, path[1] = BundleName, NEW up \in Parents(path)
          PROVE  up = <<>> \/ (up[1] = BundleName /\ up # <<>> /\ (Len(up) = 1 => up = prefix))
      <4>1. PICK n \in 0..(Len(path) - 1) : up = SubSeq(path, 1, n)
        BY <3>3 DEF Parents
      <4>2. up \in Seq(STRING) /\ Len(up) = n /\ (n > 0 => up[1] = path[1])
        BY <3>3, <4>1
      <4>3. Len(up) = 1 => up = <<up[1]>>
        BY <4>2, OneLong
      <4>4. n = 0 => up = <<>>
        BY <4>2
      <4>5. n \in Nat /\ (n # 0 => n > 0)
        BY <3>3, <4>1
      <4>. QED BY <3>1, <3>3, <4>2, <4>3, <4>4, <4>5
    <3>4. \A up \in job.dirs : up = <<>> \/ (up[1] = BundleName /\ up # <<>> /\ (Len(up) = 1 => up = prefix))
      <4>1. prefix[1] = BundleName /\ prefix # <<>> /\ Len(prefix) >= 1
        BY <3>1
      <4>2. \A q \in DOMAIN dir : Len(prefix \o q) >= 1
        BY <3>2
      <4>. SUFFICES ASSUME NEW up \in job.dirs
           PROVE  up = <<>> \/ (up[1] = BundleName /\ up # <<>> /\ (Len(up) = 1 => up = prefix))
        OBVIOUS
      <4>3. CASE up \in Parents(prefix)
        BY <3>1, <3>3, <4>1, <4>3
      <4>4. ASSUME NEW q \in DOMAIN dir, up \in Parents(prefix \o q)
            PROVE  up = <<>> \/ (up[1] = BundleName /\ up # <<>> /\ (Len(up) = 1 => up = prefix))
        BY <3>2, <3>3, <4>2, <4>4
      <4>5. CASE up = prefix
        BY <4>1, <4>5
      <4>. QED BY <1>6, <4>3, <4>4, <4>5 DEF Above
    <3>5. Manifest \notin DOMAIN job.td
      <4>1. Len(Manifest) = 1
        BY DEF Manifest
      <4>2. ASSUME NEW q \in DOMAIN dir PROVE prefix \o q # Manifest
        <5>1. Len(prefix \o q) > 1
          BY <3>2
        <5>. QED BY <4>1, <5>1
      <4>. QED BY <1>4, <4>2, Zenon
    <3>6. Subdirectories = {prefix}
      BY <1>6, <3>1, <3>4 DEF Subdirectories
    <3>7. {path \in Subdirectories : Subdirectories = {path} /\ path \o Manifest \in DOMAIN job.td} = {prefix}
      BY <1>4, <3>6
    <3>8. BundleRoot = prefix
      BY <3>5, <3>7 DEF BundleRoot
    <3>9. Top = {BundleName}
      <4>1. \A path \in DOMAIN job.td : path[1] = BundleName
        BY <1>4, <3>2
      <4>2. prefix[1] = BundleName /\ prefix # <<>>
        BY <3>1
      <4>. QED BY <1>6, <3>4, <4>1, <4>2 DEF Top
    <3>10. ~Beside
      <4>1. Cardinality(Top) = 1
        BY <3>9, FS_Singleton
      <4>. QED BY <4>1 DEF Beside
    <3>. QED BY <3>8, <3>10
  <2>. QED BY <2>1, <2>2
<1>8. prefix \in Seq(STRING) /\ DOMAIN job.td \subseteq Seq(STRING)
  BY PrefixTyped DEF TypeOK, IntakeTypeOK
<1>. DEFINE files == Under(job.td, prefix)
<1>9. ASSUME NEW rest \in DOMAIN files PROVE rest \in DOMAIN dir /\ files[rest] = dir[rest]
  <2>1. rest \in Seq(STRING) /\ prefix \o rest \in DOMAIN job.td /\ files[rest] = job.td[prefix \o rest]
    BY <1>8, UnderRoot
  <2>2. PICK q \in DOMAIN dir : prefix \o rest = prefix \o q
    BY <1>4, <2>1
  <2>3. rest = q
    BY <1>1, <2>1, <2>2, Fronted
  <2>. QED BY <1>5, <2>1, <2>3
<1>10. ASSUME NEW q \in DOMAIN dir PROVE q \in DOMAIN files
  <2>. DEFINE path == prefix \o q
  <2>1. q \in Seq(STRING) /\ Len(q) > 0 /\ Len(q) \in Nat /\ Len(prefix) \in Nat
    BY <1>1, <1>8 DEF Standing
  <2>2. /\ path \in Seq(STRING) /\ Len(path) = Len(prefix) + Len(q)
        /\ \A k \in 1..(Len(prefix) + Len(q)) : path[k] = IF k <= Len(prefix) THEN prefix[k] ELSE q[k - Len(prefix)]
    BY <1>8, <2>1, ConcatProperties
  <2>3. path \in DOMAIN job.td
    BY <1>4
  <2>. HIDE DEF path
  <2>4. Len(path) > Len(prefix) /\ SubSeq(path, 1, Len(prefix)) = prefix
    <3>. DEFINE front == SubSeq(path, 1, Len(prefix))
    <3>1. front \in Seq(STRING) /\ Len(front) = Len(prefix) /\ \A k \in 1..Len(prefix) : front[k] = path[k]
      BY <2>1, <2>2
    <3>. HIDE DEF front
    <3>2. \A k \in 1..Len(prefix) : front[k] = prefix[k]
      BY <2>1, <2>2, <3>1
    <3>3. front = prefix
      BY <1>8, <3>1, <3>2, SeqEqual
    <3>. QED BY <2>1, <2>2, <3>3 DEF front
  <2>5. PICK rest \in DOMAIN files : path = prefix \o rest
    BY <1>8, <2>3, <2>4, UnderRoot
  <2>6. rest \in Seq(STRING)
    BY <1>8, UnderRoot
  <2>7. rest = q
    BY <2>1, <2>5, <2>6, Fronted DEF path
  <2>. QED BY <2>7
<1>11. files = [rest \in DOMAIN files |-> files[rest]] /\ dir = [q \in DOMAIN dir |-> dir[q]]
  <2>1. files = [rest \in DOMAIN files |-> files[rest]]
    BY DEF Under
  <2>. QED BY <1>1, <2>1 DEF IsDirectory
<1>. QED BY <1>7, <1>9, <1>10, <1>11

(* It holds at first, and every step keeps it.                             *)
LEMMA SameSteps ==
  /\ Init => SameAnswer
  /\ Standing /\ Inv /\ Extracted /\ Repacked /\ SameAnswer /\ [Next]_vars => SameAnswer'
<1>1. Init => SameAnswer
  BY DEF Init, SameAnswer
<1>2. ASSUME packed' = FALSE \/ outcome'.target # "archive" PROVE SameAnswer'
  BY <1>2 DEF SameAnswer
<1>3. ASSUME SameAnswer, dir' = dir, packed' = packed, outcome' = outcome, host' = host
      PROVE  SameAnswer'
  BY <1>3 DEF SameAnswer
<1>4. ASSUME SameAnswer, UNCHANGED intakeVars, packed' = IF dir' = dir THEN packed ELSE FALSE
      PROVE  SameAnswer'
  <2>1. outcome' = outcome /\ host' = host
    BY <1>4 DEF intakeVars
  <2>. QED BY <1>2, <1>3, <1>4, <2>1
<1>5. Pack(<<>>) \/ Pack(<<BundleName>>) => SameAnswer'
  <2>1. Pack(<<>>) \/ Pack(<<BundleName>>) => outcome' = NoOutcome
    BY DEF Pack
  <2>2. NoOutcome.target # "archive"
    BY DEF NoOutcome
  <2>. QED BY <1>2, <2>1, <2>2
<1>6. VerifyInPlace => SameAnswer'
  BY <1>2 DEF VerifyInPlace, VerifyDirectory, Report
<1>7. ASSUME Standing, Inv, Extracted, Repacked, SameAnswer, packed, ArchiveStep,
             UNCHANGED <<draftVars, packed>>
      PROVE  SameAnswer'
  <2>. USE <1>7
  <2>1. PICK prefix \in TarPrefix : PackedFrom(prefix)
    BY DEF Repacked
  <2>2. /\ dir' = dir /\ packed' = packed /\ IsDirectory(dir) /\ Manifest \in DOMAIN dir
        /\ archive.members = Packed(dir, prefix) /\ archive.bytes = "whole"
    BY <2>1 DEF Repacked, draftVars, PackedFrom, Inv, TypeOK, DraftTypeOK
  <2>3. host' = host
    BY DEF ArchiveStep, StartIntake, ReadShort, Vet, ExtractMember, Judge, RefuseArchive
  <2>4. job.pc # "idle" /\ outcome' = outcome => SameAnswer'
    BY <1>2 DEF Extracted
  <2>5. CASE StartIntake
    BY <1>2, <2>5 DEF StartIntake, NoOutcome
  <2>6. CASE ReadShort
    BY <2>2, <2>6 DEF ReadShort
  <2>7. CASE Vet
    <3>1. CASE \E i \in DOMAIN archive.members : Unsafe(archive.members[i])
      <4>1. RefuseArchive
        BY <2>7, <3>1 DEF Vet
      <4>2. Failures(dir, host.stack) # {}
        BY <2>1, <2>2, <3>1, PackedIsVetted
      <4>. QED BY <2>2, <2>3, <4>1, <4>2, RefusalReported DEF SameAnswer
    <3>2. CASE ~\E i \in DOMAIN archive.members : Unsafe(archive.members[i])
      BY <2>4, <2>7, <3>2 DEF Vet
    <3>. QED BY <3>1, <3>2
  <2>8. CASE ExtractMember
    <3>1. outcome' = outcome
      BY <2>1, <2>2, <2>8, UnpackStep DEF Inv
    <3>. QED BY <2>4, <2>8, <3>1 DEF ExtractMember
  <2>9. CASE Judge
    <3>1. ~Beside /\ Under(job.td, BundleRoot) = dir
      BY <2>1, <2>2, <2>9, UnpackedIsThere DEF Judge, Inv
    <3>2. Report("archive", dir, Failures(dir, host.stack))
      BY <2>9, <3>1 DEF Judge
    <3>3. outcome'.exit = IF Failures(dir, host.stack) = {} THEN 0 ELSE 1
      BY <3>2 DEF Report
    <3>. QED BY <2>2, <2>3, <3>3 DEF SameAnswer
  <2>. QED BY <2>5, <2>6, <2>7, <2>8, <2>9 DEF ArchiveStep
<1>8. ASSUME Standing, Inv, Extracted, Repacked, SameAnswer, [Next]_vars PROVE SameAnswer'
  <2>1. ~packed /\ packed' = packed => SameAnswer'
    BY <1>2 DEF SameAnswer
  <2>2. packed \in BOOLEAN
    BY <1>8 DEF Inv, TypeOK
  <2>3. CASE UNCHANGED vars
    BY <1>3, <1>8, <2>3 DEF vars, draftVars, intakeVars
  <2>4. CASE UNCHANGED intakeVars /\ packed' = IF dir' = dir THEN packed ELSE FALSE
    BY <1>4, <1>8, <2>4
  <2>5. CASE ArchiveStep /\ UNCHANGED <<draftVars, packed>>
    BY <1>7, <1>8, <2>1, <2>5
  <2>6. CASE PersonStep /\ packed' = FALSE /\ UNCHANGED intakeVars
    BY <1>2, <2>6
  <2>. QED BY <1>5, <1>6, <1>8, <2>3, <2>4, <2>5, <2>6 DEF Next
<1>. QED BY <1>1, <1>8

(* A directory and a tar of it get the same answer.                        *)
THEOREM TarIsTheDirectory == ASSUME Standing PROVE Spec => []SameAnswer
<1>1. Init => Extracted /\ Repacked /\ SameAnswer
  BY ExtractedSteps, RepackedSteps, SameSteps
<1>2. Inv /\ Extracted /\ Repacked /\ SameAnswer /\ [Next]_vars => (Extracted /\ Repacked /\ SameAnswer)'
  BY ExtractedSteps, RepackedSteps, SameSteps DEF Inv
<1>. QED BY <1>1, <1>2, Invariance, PTL DEF Spec

-----------------------------------------------------------------------------
(* What hosts make of the texts.                                           *)

(* What has been extracted and what has been judged has texts, and whatever*)
(* was looked at got the reasons of this host.                             *)
Readable ==
  /\ \A path \in DOMAIN job.td : job.td[path].text \in Seq(Char)
  /\ \A path \in DOMAIN outcome.files : outcome.files[path].text \in Seq(Char)
  /\ outcome.files # <<>> => outcome.reasons = Failures(outcome.files, host.stack)

(* The root of a bundle is a path.                                         *)
LEMMA RootTyped == IntakeTypeOK => BundleRoot \in Seq(STRING)
<1>. SUFFICES ASSUME IntakeTypeOK PROVE BundleRoot \in Seq(STRING)
  OBVIOUS
<1>. DEFINE lone == {path \in Subdirectories : Subdirectories = {path} /\ path \o Manifest \in DOMAIN job.td}
<1>1. <<>> \in Seq(STRING)
  OBVIOUS
<1>2. lone \subseteq Seq(STRING)
  BY DEF Subdirectories, IntakeTypeOK
<1>3. BundleRoot = <<>> \/ BundleRoot \in lone
  BY DEF BundleRoot
<1>. QED BY <1>1, <1>2, <1>3

(* It holds at first, and every step keeps it.                             *)
LEMMA ReadableSteps ==
  /\ Init => Readable
  /\ TypeOK /\ Readable /\ [Next]_vars => Readable'
<1>1. DOMAIN <<>> = {}
  OBVIOUS
<1>2. Init => Readable
  BY <1>1 DEF Init, IntakeInit, NotJudging, NoOutcome, Readable
<1>3. ASSUME Readable, UNCHANGED <<job, outcome, host>> PROVE Readable'
  BY <1>3 DEF Readable
<1>4. ASSUME job'.td = <<>> \/ (Readable /\ job'.td = job.td), outcome'.files = <<>> PROVE Readable'
  BY <1>1, <1>4 DEF Readable
<1>5. outcome' = NoOutcome => outcome'.files = <<>>
  BY DEF NoOutcome
<1>6. ASSUME TypeOK, VerifyInPlace, Readable PROVE Readable'
  <2>1. /\ job' = job /\ host' = host
        /\ outcome'.files = dir /\ outcome'.reasons = Failures(dir, host.stack)
    BY <1>6 DEF VerifyInPlace, VerifyDirectory, Report
  <2>2. \A path \in DOMAIN dir : dir[path].text \in Seq(Char)
    BY <1>6, TextsTyped DEF TypeOK, DraftTypeOK
  <2>. QED BY <1>6, <2>1, <2>2 DEF Readable
<1>7. ASSUME TypeOK, Readable, ArchiveStep PROVE Readable'
  <2>. USE <1>7
  <2>1. DOMAIN job = {"pc", "at", "td", "dirs", "outside"}
    BY DEF TypeOK, IntakeTypeOK, NotJudging
  <2>2. job' = [job EXCEPT !.pc = "idle"] => job'.td = job.td
    BY <2>1
  <2>3. RefuseArchive => Readable'
    BY <1>4, <2>2, RefusalReported DEF RefuseArchive
  <2>4. CASE StartIntake
    <3>1. job'.td = <<>>
      BY <2>4 DEF StartIntake, NotJudging
    <3>. QED BY <1>4, <1>5, <2>4, <3>1 DEF StartIntake
  <2>5. CASE ReadShort
    <3>1. \/ RefuseArchive
          \/ /\ outcome' = [target |-> "archive", files |-> <<>>, reasons |-> {}, exit |-> 1]
             /\ job' = [job EXCEPT !.pc = "idle"]
      BY <2>5 DEF ReadShort
    <3>2. outcome' = [target |-> "archive", files |-> <<>>, reasons |-> {}, exit |-> 1] => outcome'.files = <<>>
      OBVIOUS
    <3>. QED BY <1>4, <2>2, <2>3, <3>1, <3>2
  <2>6. CASE Vet
    <3>1. \/ RefuseArchive
          \/ job'.td = job.td /\ outcome' = outcome /\ host' = host
      BY <2>1, <2>6 DEF Vet
    <3>. QED BY <2>3, <3>1 DEF Readable
  <2>7. CASE ExtractMember /\ ~RefuseArchive
    <3>. DEFINE member == archive.members[job.at]
                path   == Part(member.name, host.flavour)
    <3>1. member.content.text \in Seq(Char)
      <4>1. job.at \in DOMAIN archive.members
        BY <2>7, MembersCounted DEF ExtractMember, TypeOK, IntakeTypeOK
      <4>. QED BY <4>1 DEF TypeOK, IntakeTypeOK, IsArchive, IsMember
    <3>2. /\ outcome' = outcome /\ host' = host
          /\ job'.td = job.td \/ job'.td = With(job.td, path, member.content)
      BY <2>1, <2>7 DEF ExtractMember
    <3>. HIDE DEF member, path
    <3>3. /\ DOMAIN With(job.td, path, member.content) = DOMAIN job.td \cup {path}
          /\ With(job.td, path, member.content)[path] = member.content
          /\ \A q \in DOMAIN job.td \ {path} : With(job.td, path, member.content)[q] = job.td[q]
      BY DEF With
    <3>4. \A q \in DOMAIN job'.td : job'.td[q].text \in Seq(Char)
      BY <3>1, <3>2, <3>3 DEF Readable
    <3>. QED BY <3>2, <3>4 DEF Readable
  <2>8. CASE Judge /\ ~RefuseArchive
    <3>. DEFINE files == Under(job.td, BundleRoot)
    <3>1. /\ outcome'.files = files /\ outcome'.reasons = Failures(files, host.stack)
          /\ host' = host /\ job'.td = job.td
      BY <2>2, <2>8 DEF Judge, Report
    <3>2. DOMAIN job.td \subseteq Seq(STRING) /\ BundleRoot \in Seq(STRING)
      BY RootTyped DEF TypeOK, IntakeTypeOK
    <3>3. \A rest \in DOMAIN files : files[rest].text \in Seq(Char)
      BY <3>2, UnderRoot DEF Readable
    <3>. HIDE DEF files
    <3>. QED BY <3>1, <3>3 DEF Readable
  <2>. QED BY <2>3, <2>4, <2>5, <2>6, <2>7, <2>8 DEF ArchiveStep
<1>8. ASSUME Readable, \E prefix \in {<<>>, <<BundleName>>} : Pack(prefix) PROVE Readable'
  <2>1. job'.td = <<>> /\ outcome' = NoOutcome
    BY <1>8 DEF Pack, NotJudging
  <2>. QED BY <1>4, <1>5, <2>1
<1>. QED BY <1>2, <1>3, <1>6, <1>7, <1>8 DEF Next, vars, intakeVars

(* Hosts that can read as deep as MAX_JSON_DEPTH find the same.            *)
LEMMA SameFailures ==
  ASSUME NEW files, \A path \in DOMAIN files : files[path].text \in Seq(Char),
         NEW one \in Nat, NEW other \in Nat, one >= MaxDepth, other >= MaxDepth
  PROVE  Failures(files, one) = Failures(files, other)
<1>. DEFINE man == files[Manifest]
<1>1. \A text \in Seq(Char), lines \in BOOLEAN : Reading(text, lines, one) = Reading(text, lines, other)
  BY HostsAgree
<1>2. CASE Manifest \notin DOMAIN files
  BY <1>2 DEF Failures
<1>3. CASE Manifest \in DOMAIN files
  <2>1. Reading(man.text, FALSE, one) = Reading(man.text, FALSE, other)
    BY <1>1, <1>3
  <2>2. ArtifactFailures(files, man, one) = ArtifactFailures(files, man, other)
    <3>. DEFINE listed  == DOMAIN man.pins \ Odd
                links   == NamedLinks(files)
                there   == (listed \cap DOMAIN files) \ links
                trusted == {p \in there : files[p].text = man.pins[p]}
    <3>1. \A p \in trusted : man.pins[p] \in Seq(Char)
      OBVIOUS
    <3>2. \A p \in trusted : Reading(man.pins[p], TRUE, one) = Reading(man.pins[p], TRUE, other)
      BY <1>1, <3>1
    <3>. HIDE DEF trusted
    <3>3. [p \in trusted |-> Reading(man.pins[p], TRUE, one)] = [p \in trusted |-> Reading(man.pins[p], TRUE, other)]
      BY <3>2
    <3>. QED BY <3>3, Zenon DEF ArtifactFailures, trusted
  <2>. QED BY <1>3, <2>1, <2>2 DEF Failures
<1>. QED BY <1>2, <1>3

(* The verdict and its reasons are those of every other host.              *)
THEOREM HostsGiveTheSameVerdict == Spec => []HostIndependent
<1>1. Init => Readable
  BY ReadableSteps
<1>2. Inv /\ Readable /\ [Next]_vars => Readable'
  BY ReadableSteps DEF Inv
<1>3. Inv /\ Readable => HostIndependent
  <2>. SUFFICES ASSUME Inv, Readable, outcome.files # <<>>, NEW stack \in Stacks
       PROVE  Failures(outcome.files, stack) = outcome.reasons
    BY DEF HostIndependent
  <2>1. host.stack \in Stacks
    BY DEF Inv, TypeOK, IntakeTypeOK, IsHost
  <2>2. Failures(outcome.files, stack) = Failures(outcome.files, host.stack)
    BY <2>1, SameFailures, IntakeAssumption DEF Readable
  <2>. QED BY <2>2 DEF Readable
<1>. QED BY <1>1, <1>2, <1>3, Invariance, PTL DEF Spec

(* Of every text that is judged, and that the parser accepts, the levels of*)
(* its rows decide.                                                        *)
THEOREM DepthDecidesTheVerdict == Spec => []DepthIsExact
<1>1. Init => Readable
  BY ReadableSteps
<1>2. Inv /\ Readable /\ [Next]_vars => Readable'
  BY ReadableSteps DEF Inv
<1>3. Readable => DepthIsExact
  BY DepthDecides DEF Readable, DepthIsExact
<1>. QED BY <1>1, <1>2, <1>3, Invariance, PTL DEF Spec
=============================================================================

----------------------------- MODULE Submission -----------------------------
(***************************************************************************)
(* From an issuer's directory to a verdict: the draft tool and a person at *)
(* work on the directory (Draft), tar, and the command line of the         *)
(* verifier on the directory or on the archive (Intake).                   *)
(***************************************************************************)
EXTENDS Draft, Intake

CONSTANT BundleName   \* what the directory is called

ASSUME NameAssumption == BundleName \in STRING

(* What json.dumps writes, every host reads.                               *)
ASSUME ObjectAssumption == \A stack \in Stacks : Reading(Object, FALSE, stack) = "value"

VARIABLE packed   \* whether the archive is the directory as it is

vars == <<draftVars, intakeVars, packed>>

Init == DraftInit /\ IntakeInit /\ packed = FALSE

-----------------------------------------------------------------------------
(* External: tar -czf of the directory from inside it, or from above it    *)
(* (ISSUING.md).  Only a name at the archive's own top can be anchored.    *)
Member(path, file) ==
  [name    |-> [posix |-> path, windows |-> path,
                anchored |-> IF path \in Odd THEN {"windows"} ELSE {}],
   kind    |-> IF file.kind = "link" THEN "link" ELSE "file",
   content |-> file]

Root(prefix) ==
  [name |-> [posix |-> prefix, windows |-> prefix, anchored |-> {}],
   kind |-> "dir", content |-> Data(<<>>)]

Packed(files, prefix) ==
  LET paths == SetToSeq(DOMAIN files)
  IN  <<Root(prefix)>>
        \o [i \in DOMAIN paths |-> Member(prefix \o paths[i], files[paths[i]])]

Pack(prefix) ==
  /\ Manifest \in DOMAIN dir /\ job.pc = "idle"
  /\ archive' = [members |-> Packed(dir, prefix), bytes |-> "whole"]
  /\ packed' = TRUE /\ job' = NotJudging /\ outcome' = NoOutcome
  /\ UNCHANGED <<draftVars, host>>

VerifyInPlace ==
  /\ job.pc = "idle" /\ VerifyDirectory(dir)
  /\ UNCHANGED <<draftVars, packed>>

Next ==
  \/ DraftStep  /\ UNCHANGED intakeVars /\ packed' = IF dir' = dir THEN packed ELSE FALSE
  \/ PersonStep /\ packed' = FALSE /\ UNCHANGED intakeVars
  \/ VerifyInPlace
  \/ \E prefix \in {<<>>, <<BundleName>>} : Pack(prefix)
  \/ ArchiveStep /\ UNCHANGED <<draftVars, packed>>

Spec == Init /\ [][Next]_vars

-----------------------------------------------------------------------------
(* Type invariant.                                                         *)
TypeOK == DraftTypeOK /\ IntakeTypeOK /\ packed \in BOOLEAN

(* A draft is not passed off as a claim (vac/draft.py's docstring): no     *)
(* directory passes before a person has filled in everything that was not  *)
(* derived, and until then the reasons are the fields that are missing.    *)
DraftIsRefused ==
  outcome.target = "directory" /\ outcome.files = dir /\ Manifest \in DOMAIN dir =>
    LET due == (Judgment \cup (IF dir[Manifest].commit = NoCommit THEN {"issuer_commit"} ELSE {}))
                 \ authored
    IN  due # {} => /\ outcome.exit = 1
                    /\ {<<"draft-incomplete", field>> : field \in due} \subseteq outcome.reasons
                    /\ {reason[1] : reason \in outcome.reasons} = {"draft-incomplete"}

(* Paths as a file system has them: none is a directory of another, those  *)
(* that climb are refused (_safe_relpath), the name of the directory is a  *)
(* plain one, and a path is not refused for having it in front.            *)
Standing ==
  /\ BundleName # ".."
  /\ \A p \in Path : /\ \A q \in Path : p \notin Parents(q)
                     /\ p # <<>>
                     /\ Climbs(p) \/ (<<BundleName>> \o p) \in Odd => p \in Odd

(* A directory and a tar of it get the same answer (_verify_artifacts, on  *)
(* the links that directory mode used to accept).                          *)
SameAnswer ==
  packed /\ outcome.target = "archive" =>
    (outcome.exit = 0 <=> Failures(dir, host.stack) = {})

(* Nothing rides along in an accepted archive: the files it holds are the  *)
(* manifest and the files that are pinned, with the bytes that are pinned. *)
ArchiveIsTheBundle ==
  outcome.target = "archive" /\ outcome.exit = 0 =>
    LET pins == outcome.files[Manifest].pins
        held == {i \in DOMAIN archive.members : archive.members[i].kind # "dir"}
    IN  \E root \in {<<>>} \cup {SubSeq(path, 1, 1) : path \in DOMAIN job.td} :
          /\ {Part(archive.members[i].name, host.flavour) : i \in held}
               = {root \o path : path \in DOMAIN pins \cup {Manifest}}
          /\ \A path \in DOMAIN pins : job.td[root \o path].text = pins[path]

(* An archive is vetted before the first byte of it is written             *)
(* (_extract_tar): one member that would leave the destination on some     *)
(* host, or that is neither file nor directory, and there is nothing in    *)
(* the destination, let alone outside it.                                  *)
VettedFirst ==
  /\ ~job.outside
  /\ (\E i \in DOMAIN archive.members :
        LET member == archive.members[i]
        IN  \/ member.name.anchored # {} \/ member.kind \notin {"file", "dir"}
            \/ \E flavour \in {"posix", "windows"} : Climbs(Part(member.name, flavour)))
     => job.td = <<>> /\ job.dirs = {}

(* The verdict, and each of its reasons, is that of every other host       *)
(* (MAX_JSON_DEPTH, vac/verify.py: one bundle failed on 3.12 and passed on *)
(* 3.14).                                                                  *)
HostIndependent ==
  outcome.files # <<>> =>
    \A stack \in Stacks : Failures(outcome.files, stack) = outcome.reasons

(* Of a text that the parser accepts, the levels of its rows decide, and   *)
(* not its strings or the way it is cut into lines (_nesting_exceeds).     *)
DepthIsExact ==
  \A path \in DOMAIN outcome.files, lines \in BOOLEAN :
    LET text == outcome.files[path].text
        rows == Rows(text, lines)
    IN  (\A row \in rows : WellFormed(row)) =>
          (TooDeep(text, lines) <=> \E row \in rows : Parsed(row).deepest > MaxDepth)
=============================================================================

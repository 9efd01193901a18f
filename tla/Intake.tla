------------------------------- MODULE Intake -------------------------------
(***************************************************************************)
(* The command line of vac/verify.py.  A directory is verified where it    *)
(* is; an archive is vetted, extracted member by member into a temporary   *)
(* directory, looked through for the bundle, and verified there.           *)
(*                                                                         *)
(* A member has the two readings of its name that _extract_tar takes: its  *)
(* parts under each path flavour, and the flavours under which it is       *)
(* anchored.  Where it lands is up to the flavour of the host.             *)
(***************************************************************************)
EXTENDS BundleFiles

CONSTANTS
  Stacks     \* levels that a host's stack may carry

ASSUME IntakeAssumption ==
  Stacks \subseteq Nat /\ \A stack \in Stacks : stack >= MaxDepth

VARIABLES
  archive,  \* a tar file: its members, and whether its bytes are all there
  job,      \* python -m vac.verify on it, under way
  outcome,  \* how the last verification ended, of what is there now
  host      \* where it runs: path flavour, tarfile's filter=, the stack

intakeVars == <<archive, job, outcome, host>>

NoArchive == [members |-> <<>>, bytes |-> "whole"]
NotJudging == [pc |-> "idle", at |-> 0, td |-> <<>>, dirs |-> {}, outside |-> FALSE]
NoOutcome == [target |-> "none", files |-> <<>>, reasons |-> {}, exit |-> 0]

(* A name is empty under both flavours or under none.                      *)
IsMember(member) ==
  /\ member.kind \in {"file", "dir", "link"}
  /\ member.name.posix \in Seq(STRING) /\ member.name.windows \in Seq(STRING)
  /\ member.name.posix = <<>> <=> member.name.windows = <<>>
  /\ member.content.text \in Seq(Char)

IsArchive(a) ==
  /\ a.bytes \in {"whole", "short tar", "short stream"}
  /\ a.members \in Seq(Range(a.members)) /\ \A i \in DOMAIN a.members : IsMember(a.members[i])

IsHost(h) ==
  h.flavour \in {"posix", "windows"} /\ h.filter \in BOOLEAN /\ h.stack \in Stacks

IntakeInit ==
  /\ IsArchive(archive) /\ IsHost(host)
  /\ job = NotJudging /\ outcome = NoOutcome

-----------------------------------------------------------------------------
(* Mutant: the number of reasons is the exit code.                         *)
ReportCount(target, files, reasons) ==
  outcome' = [target |-> target, files |-> files, reasons |-> reasons,
              exit |-> Cardinality(reasons)]

(* _report and the return value of main.                                   *)
Report(target, files, reasons) ==
  outcome' = [target |-> target, files |-> files, reasons |-> reasons,
              exit |-> IF reasons = {} THEN 0 ELSE 1]

VerifyDirectory(files) ==
  /\ Report("directory", files, Failures(files, host.stack))
  /\ UNCHANGED <<archive, job, host>>

-----------------------------------------------------------------------------
Part(name, flavour) == IF flavour = "posix" THEN name.posix ELSE name.windows

(* "." is the archive's own root.                                          *)
IsEmpty(name) == name.anchored = {} /\ (name.posix = <<>> \/ name.windows = <<>>)

Climbs(parts) == \E i \in DOMAIN parts : parts[i] = ".."

(* Mutant: names are read the way the host's own tar wrote them.           *)
UnsafePosix(member) ==
  IF IsEmpty(member.name) THEN member.kind # "dir"
  ELSE \/ "posix" \in member.name.anchored \/ Climbs(member.name.posix)
       \/ member.kind \notin {"file", "dir"}

Unsafe(member) ==
  IF IsEmpty(member.name) THEN member.kind # "dir"
  ELSE \/ member.name.anchored # {}
       \/ Climbs(member.name.posix) \/ Climbs(member.name.windows)
       \/ member.kind \notin {"file", "dir"}

StartIntake ==
  /\ job.pc = "idle" /\ archive # NoArchive
  /\ job' = [NotJudging EXCEPT !.pc = "vet"] /\ outcome' = NoOutcome
  /\ UNCHANGED <<archive, host>>

(* What main makes of a ValueError, an OSError or a TarError.              *)
RefuseArchive ==
  /\ Report("archive", <<>>, {<<"unsafe-archive", "archive">>})
  /\ job' = [job EXCEPT !.pc = "idle"]
  /\ UNCHANGED <<archive, host>>

(* An archive that was cut short.  A compressed stream raises EOFError,    *)
(* which main does not catch: the interpreter exits with 1 and no reason.  *)
ReadShort ==
  /\ job.pc = "vet" /\ archive.bytes # "whole"
  /\ \/ archive.bytes = "short tar" /\ RefuseArchive
     \/ /\ archive.bytes = "short stream"
        /\ outcome' = [target |-> "archive", files |-> <<>>, reasons |-> {}, exit |-> 1]
        /\ job' = [job EXCEPT !.pc = "idle"]
        /\ UNCHANGED <<archive, host>>

Vet ==             \* every member, before the first is written
  /\ job.pc = "vet" /\ archive.bytes = "whole"
  /\ IF \E i \in DOMAIN archive.members : Unsafe(archive.members[i])
     THEN RefuseArchive
     ELSE /\ job' = [job EXCEPT !.pc = "extract", !.at = 1]
          /\ UNCHANGED <<archive, outcome, host>>

-----------------------------------------------------------------------------
(* External: tarfile.  Parents are made as needed; a file replaces a file  *)
(* of its name; a file where a directory is due, or the other way round,   *)
(* is an OSError, except that older versions take an existing file for an  *)
(* existing directory.  filter="data" refuses what leaves the destination. *)
Parents(path) == {SubSeq(path, 1, n) : n \in 0..(Len(path) - 1)}

Blocked(path) == \E up \in Parents(path) : up \in DOMAIN job.td

Leaves(name) == host.flavour \in name.anchored \/ Climbs(Part(name, host.flavour))

ExtractMember ==
  /\ job.pc = "extract" /\ job.at <= Len(archive.members)
  /\ LET member == archive.members[job.at]
         path   == Part(member.name, host.flavour)
         on     == [job EXCEPT !.at = @ + 1]
         Go(next) == job' = next /\ UNCHANGED <<archive, outcome, host>>
     IN  \/ Leaves(member.name) /\ (IF host.filter THEN RefuseArchive ELSE Go([on EXCEPT !.outside = TRUE]))
         \/ ~Leaves(member.name) /\ Blocked(path) /\ RefuseArchive
         \/ /\ ~Leaves(member.name) /\ ~Blocked(path) /\ member.kind = "dir"
            /\ \/ path \notin DOMAIN job.td /\ Go([on EXCEPT !.dirs = @ \cup Parents(path) \cup {path}])
               \/ path \in DOMAIN job.td /\ (Go(on) \/ RefuseArchive)
         \/ /\ ~Leaves(member.name) /\ ~Blocked(path) /\ member.kind # "dir"
            /\ IF path \in job.dirs THEN RefuseArchive
               ELSE Go([on EXCEPT !.td = With(@, path, member.content), !.dirs = @ \cup Parents(path)])

-----------------------------------------------------------------------------
(* The rest of _extract_tar, and _bundle_root.                             *)
Top == {path[1] : path \in (DOMAIN job.td \cup job.dirs) \ {<<>>}}

(* Mutant: what else is in the archive is not looked at.                   *)
BesideIgnored == FALSE

Beside == Cardinality(Top) > 1 /\ Manifest \notin DOMAIN job.td

Subdirectories == {path \in job.dirs : Len(path) = 1}

BundleRoot ==
  IF Manifest \in DOMAIN job.td THEN <<>>
  ELSE LET lone == {path \in Subdirectories :
                      Subdirectories = {path} /\ path \o Manifest \in DOMAIN job.td}
       IN  IF lone = {} THEN <<>> ELSE CHOOSE path \in lone : TRUE

Under(files, root) ==
  LET inside == {path \in DOMAIN files : Len(path) > Len(root) /\ SubSeq(path, 1, Len(root)) = root}
      Rest(path) == SubSeq(path, Len(root) + 1, Len(path))
  IN  [rest \in {Rest(path) : path \in inside} |-> files[root \o rest]]

Judge ==
  /\ job.pc = "extract" /\ job.at > Len(archive.members)
  /\ IF Beside THEN RefuseArchive
     ELSE LET files == Under(job.td, BundleRoot)
          IN  /\ Report("archive", files, Failures(files, host.stack))
              /\ job' = [job EXCEPT !.pc = "idle"]
              /\ UNCHANGED <<archive, host>>

ArchiveStep == StartIntake \/ ReadShort \/ Vet \/ ExtractMember \/ Judge

-----------------------------------------------------------------------------
IntakeTypeOK ==
  /\ IsArchive(archive) /\ IsHost(host)
  /\ DOMAIN job = DOMAIN NotJudging
  /\ job.pc \in {"idle", "vet", "extract"} /\ job.at \in 0..(Len(archive.members) + 1)
  /\ job.pc = "extract" => job.at > 0
  /\ DOMAIN job.td \cup job.dirs \subseteq Seq(STRING) /\ DOMAIN job.td \cap job.dirs = {}
  /\ job.outside \in BOOLEAN
  /\ outcome.target \in {"none", "directory", "archive"} /\ outcome.exit \in {0, 1}
=============================================================================

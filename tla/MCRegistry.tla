----------------------------- MODULE MCRegistry -----------------------------
(* Instances of Registry.  The commits of the scan instance hold two       *)
(* bundle directories; those of the pages instances one.                   *)
EXTENDS Registry

CONSTANTS repoA, repoB, dirX, dirY

(* m1 pins one artifact d1; m1b differs from m1 in the artifact; mOld is a *)
(* sound 0.1 manifest; mB is issuer B's; mBad is refused by the verifier.  *)
MCBlob == {"m1", "m1b", "mOld", "mB", "mBad", "d1", "d2"}

MCFile == {Manifest, "run.json"}

Of(man, data) == [f \in MCFile |-> IF f = Manifest THEN man ELSE data]

Reading(data, issuer, version, sound, summary) ==
  [pins |-> Of(NoFile, data), issuer |-> issuer, version |-> version,
   sound |-> sound, summary |-> summary]

MCReads ==
  [m1   |-> Reading("d1", repoA, "0.2", TRUE, 1),
   m1b  |-> Reading("d2", repoA, "0.2", TRUE, 2),
   mOld |-> Reading("d1", repoA, "0.1", TRUE, 1),
   mB   |-> Reading("d1", repoB, "0.2", TRUE, 1),
   mBad |-> Reading("d1", repoA, "0.2", FALSE, 1)]

MCPagesReads == [blob \in {"m1", "m1b"} |-> MCReads[blob]]

Nowhere == Of(NoFile, NoFile)

(* One issuer, one directory: two good bundles, and one whose artifact is  *)
(* not the pinned one.                                                     *)
MCPagesTree ==
  [c1 |-> [d \in {dirX} |-> Of("m1", "d1")],
   c2 |-> [d \in {dirX} |-> Of("m1b", "d2")],
   c3 |-> [d \in {dirX} |-> Of("m1", "d2")]]

(* Two issuers, two directories: every way a directory ends up recorded.   *)
MCScanTree ==
  [c1 |-> [d \in {dirX, dirY} |-> IF d = dirX THEN Of("m1", "d1") ELSE Of("mB", "d1")],
   c2 |-> [d \in {dirX, dirY} |-> IF d = dirX THEN Of("mOld", "d1") ELSE Of(NoFile, "d1")],
   c3 |-> [d \in {dirX, dirY} |-> IF d = dirX THEN Of("mBad", "d1") ELSE Nowhere],
   c4 |-> [d \in {dirX, dirY} |-> Nowhere]]

(* A file that was committed by mistake is removed by the next commit: the *)
(* directory of c1 does not verify, that of c2 does.                       *)
MCStrayFile == {Manifest, "run.json", "stray.txt"}

Stray(man, data, stray) ==
  [f \in MCStrayFile |-> CASE f = Manifest -> man [] f = "run.json" -> data [] OTHER -> stray]

MCStrayReads ==
  [m1 |-> [pins |-> Stray(NoFile, "d1", NoFile), issuer |-> repoA, version |-> "0.2",
           sound |-> TRUE, summary |-> 1]]

MCStrayTree ==
  [c1 |-> [d \in {dirX} |-> Stray("m1", "d1", "d2")],
   c2 |-> [d \in {dirX} |-> Stray("m1", "d1", NoFile)]]

MCOneIssuer == <<repoA>>
MCIssuers == <<repoA, repoB>>
=============================================================================

SPECIFICATION Spec
CONSTANTS
  repoA = repoA
  repoB = repoB
  dirX = dirX
  dirY = dirY
  Repo = {repoA, repoB}
  Issuers <- MCIssuers
  Family = {repoA}
  Remote = {repoA}
  Dir = {dirX, dirY}
  File <- MCFile
  Blob <- MCBlob
  Tree <- MCScanTree
  Reads <- MCReads
  Job = {}
  Edit = {}
  QuietScan = TRUE
  Moves = 3
  Edits = 0
  Commits = 0
INVARIANT TypeOK
INVARIANT PinnedIsRead
INVARIANT PinnedIsPushed
PROPERTY ScanIsMechanical

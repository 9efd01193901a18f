SPECIFICATION Spec
CONSTANTS
  repoA = repoA
  repoB = repoB
  dirX = dirX
  dirY = dirY
  Repo = {repoA}
  Issuers <- MCOneIssuer
  Family = {}
  Remote = {repoA}
  Dir = {dirX}
  File <- MCStrayFile
  Blob <- MCBlob
  Tree <- MCStrayTree
  Reads <- MCStrayReads
  Job = {j1}
  Edit = {}
  QuietScan = FALSE
  Moves = 1
  Edits = 0
  Commits = 1
INVARIANT PinnedCommitVerifies

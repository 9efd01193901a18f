SPECIFICATION Spec
CONSTANTS
  repoA = repoA
  repoB = repoB
  dirX = dirX
  dirY = dirY
  Repo = {repoA}
  Issuers <- MCOneIssuer
  Family = {}
  Remote = {repoA}
  Dir = {dirX}
  File <- MCFile
  Blob <- MCBlob
  Tree <- MCPagesTree
  Reads <- MCPagesReads
  Job = {j1, j2}
  Edit = {"summary", "repin"}
  QuietScan = FALSE
  Moves = 1
  Edits = 1
  Commits = 2
INVARIANT PageIsEarned
PROPERTY PageConverges

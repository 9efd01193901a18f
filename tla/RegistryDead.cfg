SPECIFICATION Spec
CONSTANTS
  repoA = repoA
  repoB = repoB
  dirX = dirX
  dirY = dirY
  Repo = {repoA}
  Issuers <- MCOneIssuer
  Family = {}
  Remote = {repoA}
  Dir = {dirX}
  File <- MCFile
  Blob <- MCBlob
  Tree <- MCPagesTree
  Reads <- MCPagesReads
  Job = {j1}
  Edit = {"mark"}
  QuietScan = TRUE
  Moves = 0
  Edits = 1
  Commits = 2
PROPERTY DeadEntryStaysVisible

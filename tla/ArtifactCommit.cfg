CONSTANTS
  j1 = j1
  a1 = a1
  a2 = a2
  Jobs = {j1}
  Attempts = {a1, a2}
  JobOf <- MCJobOf
  MaxNames = 3
  ManifestName = 2
  ResultName = 3
  Data = {d1, d2}
  Bodies <- MCBodies
  Batches <- MCBatches
  Commits = {c1, c2}
  Requests = {r1}
  None = None
SYMMETRY Symmetry
SPECIFICATION Spec
INVARIANTS ManifestNamesStored ValidIsOneCommit LoneCommitIsValid RequestsStayInScope

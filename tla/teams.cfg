SPECIFICATION Spec
CONSTANTS
  Requests = {r1, r2, r3}
  SeedTeams = {t1}
  SeedEpics = {e1}
  SeedTickets = {k1}
  SeedComments = {}
  t1 = t1
  t2 = t2
  e1 = e1
  e2 = e2
  k1 = k1
  c1 = c1
  States = {"new"}
  DefaultState = "new"
  RawTexts <- MCRawTexts
  Texts <- MCTexts
  Trim <- MCTrim
  Fold <- MCFold
  NoRow = NoRow
  NoEpic = NoEpic
  Absent = Absent
  Calls <- TeamAndEpicCalls
  Snapshots <- TeamSnapshots
SYMMETRY Symmetry
INVARIANTS
  References
  TeamNamesUnique
  DeletedStaysDeleted
  RepliesAreDeclared
PROPERTIES
  ImplementsApi

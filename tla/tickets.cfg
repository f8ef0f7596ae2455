SPECIFICATION Spec
CONSTANTS
  Requests = {r1, r2}
  SeedTeams = {t1, t2}
  SeedEpics = {e1, e2}
  SeedTickets = {k1}
  SeedComments = {c1}
  t1 = t1
  t2 = t2
  e1 = e1
  e2 = e2
  k1 = k1
  c1 = c1
  States = {"new", "done"}
  DefaultState = "new"
  RawTexts <- MCRawTexts
  Texts <- MCTexts
  Trim <- MCTrim
  Fold <- MCFold
  NoRow = NoRow
  NoEpic = NoEpic
  Absent = Absent
  Calls <- TicketCalls
  Snapshots <- TwoTeams
SYMMETRY Symmetry
INVARIANTS
  IInv
  DeletedStaysDeleted
  RepliesAreDeclared
PROPERTIES
  PatchWritesOnlyItsColumns
  FreshWriteIsRealChange
  InsertedTicketInTeam
  FreshEditKeepsEpicInTeam
  ImplementsApi

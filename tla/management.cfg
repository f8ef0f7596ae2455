SPECIFICATION FairSpec
CONSTANTS
  a = a
  e = e
  Teams = {a}
  Epics = {e}
  Tickets = {k}
  EpicTeam <- MCEpicTeam
  Calls = {c1, c2}
  MaxEvents = 2
  All = All
  NoRow = NoRow
  NoData = NoData
INVARIANTS
  IInv
  SuccessIsVisible
  
PROPERTY
  Settles

SPECIFICATION Spec
CONSTANTS
  ta = ta
  tb = tb
  x1 = x1
  x2 = x2
  y1 = y1
  Teams <- MCTeams
  Tickets <- MCTickets
  TeamOf <- MCTeamOf
  States = {new, done}
  Moves = {m1, m2}
  MaxFetches = 0
  MaxEdits = 0
  NoData = NoData
  NoMove = NoMove
SYMMETRY Symmetry
INVARIANT
  EveryFailureIsShown

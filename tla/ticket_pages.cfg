SPECIFICATION SmallSpec
CONSTANTS
  Tickets = {x, y}
  Teams = {a, b}
  Epics = {e}
  Calls = {first, second}
  EpicTeam <- MCEpicTeam
  MaxEvents = 5
  a = a
  e = e
  y = y
  first = first
  second = second
  NoTicket = NoTicket
  NoTeam = NoTeam
  NoEpic = NoEpic
  NoForm = NoForm
  NotYet = NotYet
  Gone = Gone
  NoData = NoData
INVARIANTS
  UpToDate
  FormEpicInTeam
  TicketIsCurrent
  CommentsAreCurrent
PROPERTIES
  AnswersMoveTheirPageOnly
  Settles

------------------------------ MODULE Database ------------------------------
(***************************************************************************)
(* The four business tables of the tracker's PostgreSQL schema             *)
(* (backend/prisma/schema.prisma and its init migration) and the           *)
(* statements the handlers send to it.                                     *)
(*                                                                         *)
(* A table is a total function from every id it could ever hold to a row   *)
(* or NoRow.  An id is a fresh uuid: the row that request r inserts gets   *)
(* the id r, and every request inserts at most one row, so no id is used   *)
(* twice.  Columns that no property tells apart are left out: createdBy    *)
(* and authorId (users are never deleted), createdAt, and the modifiedAt   *)
(* of teams and epics.  A ticket's `type` behaves like its `state` and its *)
(* `body` like its `title`, so one column stands for each pair; so does an *)
(* epic's `description` for its `title`.                                   *)
(*                                                                         *)
(* A statement is one Prisma call, and PostgreSQL runs it atomically: a    *)
(* predicate says which constraint would reject it, an operator gives the  *)
(* tables after it.                                                        *)
(***************************************************************************)
EXTENDS Naturals

CONSTANTS
  Requests,     \* HTTP requests; a request's id is also the id of the row it inserts
  SeedTeams,    \* ids of teams that may exist before the first request
  SeedEpics,
  SeedTickets,
  SeedComments,
  States,       \* workflow states of a ticket
  DefaultState, \* the column default of Ticket.state (`new`)
  RawTexts,     \* texts as a client sends them
  Texts,        \* texts as they are stored: trimmed, not empty
  Trim,         \* String.prototype.trim, a function from RawTexts
  Fold,         \* the case folding of citext, a function from Texts
  NoRow,        \* "no such row"
  NoEpic,       \* the null of Ticket.epicId
  Absent        \* a field that is not in the request body

VARIABLES
  teams,        \* team id    -> its name, or NoRow
  epics,        \* epic id    -> row or NoRow
  tickets,      \* ticket id  -> row or NoRow
  comments      \* comment id -> the ticket it belongs to, or NoRow

tables == <<teams, epics, tickets, comments>>

TeamIds    == SeedTeams \cup Requests
EpicIds    == SeedEpics \cup Requests
TicketIds  == SeedTickets \cup Requests
CommentIds == SeedComments \cup Requests

\* modifiedAt counts how often @updatedAt has fired for the row.
TeamRow   == [name : Texts]
EpicRow   == [teamId : TeamIds, title : Texts]
TicketRow == [teamId : TeamIds, epicId : EpicIds \cup {NoEpic},
              state : States, title : Texts, modifiedAt : Nat]

ASSUME TextsAssumption ==
  /\ "" \notin Texts
  /\ Trim \in [RawTexts -> Texts \cup {""}]

ASSUME StatesAssumption == DefaultState \in States

ASSUME MarkersAssumption ==
  /\ NoRow \notin TeamRow \cup EpicRow \cup TicketRow \cup TicketIds
  /\ NoEpic \notin EpicIds
  /\ Absent \notin States \cup RawTexts \cup TeamIds \cup EpicIds \cup {NoEpic}

TablesOK ==
  /\ teams    \in [TeamIds -> TeamRow \cup {NoRow}]
  /\ epics    \in [EpicIds -> EpicRow \cup {NoRow}]
  /\ tickets  \in [TicketIds -> TicketRow \cup {NoRow}]
  /\ comments \in [CommentIds -> TicketIds \cup {NoRow}]

TeamExists(t)   == teams[t] # NoRow
EpicExists(e)   == epics[e] # NoRow
TicketExists(k) == tickets[k] # NoRow

(***************************************************************************)
(* Constraints                                                             *)
(***************************************************************************)

\* Faulty variant: names are compared without folding their case.
NameTakenExactly(id, name) ==
  \E t \in TeamIds \ {id} : TeamExists(t) /\ teams[t].name = name

\* The unique citext index on teams.name, for the row `id` (error P2002).
NameTaken(id, name) ==
  \E t \in TeamIds \ {id} : TeamExists(t) /\ Fold[teams[t].name] = Fold[name]

TicketsOfTeam(t) == {k \in TicketIds : TicketExists(k) /\ tickets[k].teamId = t}
EpicsOfTeam(t)   == {e \in EpicIds : EpicExists(e) /\ epics[e].teamId = t}
TicketsOfEpic(e) == {k \in TicketIds : TicketExists(k) /\ tickets[k].epicId = e}

\* Faulty variant: epics.team_id has no RESTRICT.
TeamReferencedByTickets(t) == TicketsOfTeam(t) # {}

\* ON DELETE RESTRICT of epics.team_id and tickets.team_id (P2003).
TeamReferenced(t) == TicketsOfTeam(t) # {} \/ EpicsOfTeam(t) # {}

\* ON DELETE RESTRICT of tickets.epic_id (P2003).
EpicReferenced(e) == TicketsOfEpic(e) # {}

\* Faulty variant: tickets.epic_id is not a foreign key.
TeamReferenceHolds(row, cols) == "teamId" \in cols => TeamExists(row.teamId)

\* The foreign keys a written ticket row is held to: the columns in `cols`.
TicketReferencesHold(row, cols) ==
  /\ "teamId" \in cols => TeamExists(row.teamId)
  /\ "epicId" \in cols /\ row.epicId # NoEpic => EpicExists(row.epicId)

(***************************************************************************)
(* Statements that change a table                                          *)
(***************************************************************************)

PutTeam(id, row) ==
  /\ teams' = [teams EXCEPT ![id] = row]
  /\ UNCHANGED <<epics, tickets, comments>>

PutEpic(id, row) ==
  /\ epics' = [epics EXCEPT ![id] = row]
  /\ UNCHANGED <<teams, tickets, comments>>

PutTicket(id, row) ==
  /\ tickets' = [tickets EXCEPT ![id] = row]
  /\ UNCHANGED <<teams, epics, comments>>

\* Faulty variant: the delete does not cascade.
RemoveTicketOnly(id) ==
  /\ tickets' = [tickets EXCEPT ![id] = NoRow]
  /\ UNCHANGED <<teams, epics, comments>>

\* comments.ticket_id is ON DELETE CASCADE.
RemoveTicket(id) ==
  /\ tickets' = [tickets EXCEPT ![id] = NoRow]
  /\ comments' = [c \in CommentIds |-> IF comments[c] = id THEN NoRow ELSE comments[c]]
  /\ UNCHANGED <<teams, epics>>

PutComment(id, ticket) ==
  /\ comments' = [comments EXCEPT ![id] = ticket]
  /\ UNCHANGED <<teams, epics, tickets>>

=============================================================================

----------------------------- MODULE TicketsApi -----------------------------
(***************************************************************************)
(* /api/tickets: create, update and delete (modules/tickets/service.ts).   *)
(* createTicket and updateTicket share validateReferences, two lookups     *)
(* that run before the write; updateTicket first reads the row, and later  *)
(* compares the request with that copy, which may be stale by then.        *)
(***************************************************************************)
EXTENDS Requests

\* The references to validate: those of the new ticket, or those the edited
\* ticket will have if the row is still as it was read.
WantedTeam(r) ==
  IF call[r].op = "updateTicket" /\ call[r].teamId = Absent
    THEN current[r].teamId
    ELSE call[r].teamId
\* Faulty variant: an epic the PATCH does not name is not validated.
NamedEpic(r) ==
  IF call[r].op = "updateTicket" /\ call[r].epicId = Absent THEN NoEpic ELSE call[r].epicId
WantedEpic(r) ==
  IF call[r].op = "updateTicket" /\ call[r].epicId = Absent
    THEN current[r].epicId
    ELSE call[r].epicId

TouchesReferences(c) == c.teamId # Absent \/ c.epicId # Absent

\* Faulty variant: every column the PATCH names is written.
Named(c, row) == {f \in Fields : c[f] # Absent}

\* The columns to write: those present in the PATCH `c` and unlike `row`.
Dirty(c, row) ==
  {f \in Fields : c[f] # Absent /\ Requested(c, f) # row[f]}

\* Faulty variant: the texts are not checked after trimming.
FinishUnchecked(r, row) ==
  LET c == call[r] IN
  \/ c.op = "createTicket" /\ Goto(r, "insertTicket")
  \/ c.op = "updateTicket" /\ Dirty(c, row) = {} /\ Answer(r, "200")
  \/ c.op = "updateTicket" /\ Dirty(c, row) # {} /\ Goto(r, "writeTicket")

\* What follows the last lookup: the texts are checked, updateTicket
\* compares with the copy `row`, and only then is there a write to await.
FinishChecks(r, row) ==
  LET c == call[r] IN
  \/ BlankTitle(c) /\ Answer(r, "VALIDATION_ERROR")
  \/ /\ ~BlankTitle(c)
     /\ \/ c.op = "createTicket" /\ Goto(r, "insertTicket")
        \/ c.op = "updateTicket" /\ Dirty(c, row) = {} /\ Answer(r, "200")
        \/ c.op = "updateTicket" /\ Dirty(c, row) # {} /\ Goto(r, "writeTicket")

\* PATCH: read the row to change.
FindTicket(r) ==
  LET row == tickets[call[r].id] IN
  /\ pc[r] = "findTicket"
  /\ \/ /\ row = NoRow
        /\ Answer(r, "TICKET_NOT_FOUND")
        /\ UNCHANGED current
     \/ /\ row # NoRow
        /\ current' = [current EXCEPT ![r] = row]
        /\ IF TouchesReferences(call[r]) THEN Goto(r, "checkTeam") ELSE FinishChecks(r, row)
  /\ UNCHANGED <<tables, call, counted, dependents>>

\* validateReferences: the team, then the epic and whose team it is in.
CheckTeam(r) ==
  /\ pc[r] = "checkTeam"
  /\ \/ /\ ~TeamExists(WantedTeam(r))
        /\ Answer(r, "TEAM_NOT_FOUND")
     \/ /\ TeamExists(WantedTeam(r))
        /\ IF WantedEpic(r) = NoEpic THEN FinishChecks(r, current[r]) ELSE Goto(r, "checkEpic")
  /\ UNCHANGED <<tables, call, locals>>

\* Faulty variant: the epic's team is not compared.
CheckEpicExists(r) ==
  /\ pc[r] = "checkEpic"
  /\ IF EpicExists(WantedEpic(r)) THEN FinishChecks(r, current[r]) ELSE Answer(r, "EPIC_NOT_FOUND")
  /\ UNCHANGED <<tables, call, locals>>

CheckEpic(r) ==
  LET epic == WantedEpic(r) IN
  /\ pc[r] = "checkEpic"
  /\ \/ /\ ~EpicExists(epic)
        /\ Answer(r, "EPIC_NOT_FOUND")
     \/ /\ EpicExists(epic)
        /\ epics[epic].teamId # WantedTeam(r)
        /\ Answer(r, "EPIC_TEAM_MISMATCH")
     \/ /\ EpicExists(epic)
        /\ epics[epic].teamId = WantedTeam(r)
        /\ FinishChecks(r, current[r])
  /\ UNCHANGED <<tables, call, locals>>

\* POST: the insert.  A reference that vanished after its check is an error
\* nobody catches.
InsertTicket(r) ==
  LET row == NewTicket(call[r]) IN
  /\ pc[r] = "insertTicket"
  /\ \/ /\ ~TicketReferencesHold(row, {"teamId", "epicId"})
        /\ Answer(r, "INTERNAL")
        /\ UNCHANGED tables
     \/ /\ TicketReferencesHold(row, {"teamId", "epicId"})
        /\ PutTicket(r, row)
        /\ Answer(r, "201")
  /\ UNCHANGED <<call, locals>>

\* Faulty variant: the whole copy is written back with the changes.
WriteTicketFromCopy(r) ==
  LET cols == Dirty(call[r], current[r])
      row == Patched(current[r], call[r], cols) IN
  /\ pc[r] = "writeTicket"
  /\ IF TicketExists(call[r].id) /\ TicketReferencesHold(row, Fields)
       THEN PutTicket(call[r].id, row) /\ Answer(r, "200")
       ELSE Answer(r, "INTERNAL") /\ UNCHANGED tables
  /\ UNCHANGED <<call, locals>>

\* PATCH: the update of the columns found dirty.  A ticket or a reference
\* that vanished meanwhile is an error nobody catches.
WriteTicket(r) ==
  LET id == call[r].id
      cols == Dirty(call[r], current[r])
      row == Patched(tickets[id], call[r], cols) IN
  /\ pc[r] = "writeTicket"
  /\ \/ /\ ~TicketExists(id)
        /\ Answer(r, "INTERNAL")
        /\ UNCHANGED tables
     \/ /\ TicketExists(id)
        /\ ~TicketReferencesHold(row, cols)
        /\ Answer(r, "INTERNAL")
        /\ UNCHANGED tables
     \/ /\ TicketExists(id)
        /\ TicketReferencesHold(row, cols)
        /\ PutTicket(id, row)
        /\ Answer(r, "200")
  /\ UNCHANGED <<call, locals>>

\* Faulty variant: the error of a delete without a row is not caught.
DeleteTicketUncaught(r) ==
  LET id == call[r].id IN
  /\ pc[r] = "deleteTicket"
  /\ IF TicketExists(id) THEN RemoveTicket(id) /\ Answer(r, "204")
     ELSE Answer(r, "INTERNAL") /\ UNCHANGED tables
  /\ UNCHANGED <<call, locals>>

\* DELETE: the comments go with the ticket.
DeleteTicket(r) ==
  LET id == call[r].id IN
  /\ pc[r] = "deleteTicket"
  /\ \/ /\ ~TicketExists(id)
        /\ Answer(r, "TICKET_NOT_FOUND")
        /\ UNCHANGED tables
     \/ /\ TicketExists(id)
        /\ RemoveTicket(id)
        /\ Answer(r, "204")
  /\ UNCHANGED <<call, locals>>

TicketStep(r) ==
  \/ FindTicket(r)
  \/ CheckTeam(r)
  \/ CheckEpic(r)
  \/ InsertTicket(r)
  \/ WriteTicket(r)
  \/ DeleteTicket(r)

=============================================================================

----------------------------- MODULE TrackerApi -----------------------------
(***************************************************************************)
(* What the business API promises its clients, without a word about        *)
(* lookups, counts or constraint errors: every request takes effect in one *)
(* indivisible step, or is refused for a reason that holds in that step.   *)
(* Backend implements it.                                                  *)
(*                                                                         *)
(* The promise is weaker for updateTicket, whose validation and comparison *)
(* use a copy of the row: it sets some of the columns it was asked to set, *)
(* to the values asked for, and no others.                                 *)
(***************************************************************************)
EXTENDS Contract

VARIABLES
  asked,   \* request -> its call, or NoCall
  answer   \* request -> the code it was answered with, or "none"

apiVars == <<teams, epics, tickets, comments, asked, answer>>

Init ==
  /\ TablesOK
  /\ asked = [r \in Requests |-> NoCall]
  /\ answer = [r \in Requests |-> "none"]

Reply(r, code) == answer' = [answer EXCEPT ![r] = code]

Refuse(r, code) == Reply(r, code) /\ UNCHANGED tables

\* A client asks; what is malformed is answered on the spot.
Ask(r) ==
  /\ asked[r] = NoCall
  /\ \E c \in Calls :
       /\ asked' = [asked EXCEPT ![r] = c]
       /\ IF BlankAtOnce(c) THEN Reply(r, BlankCode(c)) ELSE UNCHANGED answer
  /\ UNCHANGED tables

CreateTeam(r, c) ==
  LET name == Trim[c.name] IN
  \/ NameTaken(r, name) /\ Refuse(r, "TEAM_NAME_TAKEN")
  \/ ~NameTaken(r, name) /\ PutTeam(r, [name |-> name]) /\ Reply(r, "201")

RenameTeam(r, c) ==
  LET name == Trim[c.name] IN
  \/ ~TeamExists(c.id) /\ Refuse(r, "TEAM_NOT_FOUND")
  \/ NameTaken(c.id, name) /\ Refuse(r, "TEAM_NAME_TAKEN")
  \/ /\ TeamExists(c.id) /\ ~NameTaken(c.id, name)
     /\ PutTeam(c.id, [name |-> name]) /\ Reply(r, "200")

DeleteTeam(r, c) ==
  \/ ~TeamExists(c.id) /\ Refuse(r, "TEAM_NOT_FOUND")
  \/ TeamReferenced(c.id) /\ Refuse(r, "TEAM_HAS_DEPENDENTS")
  \/ /\ TeamExists(c.id) /\ ~TeamReferenced(c.id)
     /\ PutTeam(c.id, NoRow) /\ Reply(r, "204")

CreateEpic(r, c) ==
  \/ ~TeamExists(c.teamId) /\ Refuse(r, "TEAM_NOT_FOUND")
  \/ /\ TeamExists(c.teamId)
     /\ PutEpic(r, [teamId |-> c.teamId, title |-> Trim[c.title]]) /\ Reply(r, "201")

UpdateEpic(r, c) ==
  \/ ~EpicExists(c.id) /\ Refuse(r, "EPIC_NOT_FOUND")
  \/ /\ EpicExists(c.id)
     /\ PutEpic(c.id, EditedEpic(epics[c.id], c)) /\ Reply(r, "200")

DeleteEpic(r, c) ==
  \/ ~EpicExists(c.id) /\ Refuse(r, "EPIC_NOT_FOUND")
  \/ EpicReferenced(c.id) /\ Refuse(r, "EPIC_REFERENCED")
  \/ /\ EpicExists(c.id) /\ ~EpicReferenced(c.id)
     /\ PutEpic(c.id, NoRow) /\ Reply(r, "204")

\* The epic, if one is named, is of the ticket's team when the row appears.
EpicFits(row) ==
  row.epicId # NoEpic => EpicExists(row.epicId) /\ epics[row.epicId].teamId = row.teamId

CreateTicket(r, c) ==
  LET row == NewTicket(c)
      missing == ~TicketReferencesHold(row, {"teamId", "epicId"}) IN
  \/ ~TeamExists(c.teamId) /\ Refuse(r, "TEAM_NOT_FOUND")
  \/ c.epicId # NoEpic /\ ~EpicExists(c.epicId) /\ Refuse(r, "EPIC_NOT_FOUND")
  \/ c.epicId # NoEpic /\ EpicExists(c.epicId) /\ ~EpicFits(row) /\ Refuse(r, "EPIC_TEAM_MISMATCH")
  \/ BlankTitle(c) /\ Refuse(r, "VALIDATION_ERROR")
  \/ missing /\ Refuse(r, "INTERNAL")
  \/ ~BlankTitle(c) /\ ~missing /\ EpicFits(row) /\ PutTicket(r, row) /\ Reply(r, "201")

UpdateTicket(r, c) ==
  \/ Refuse(r, "200")
  \/ ~TicketExists(c.id) /\ Refuse(r, "TICKET_NOT_FOUND")
  \/ BlankTitle(c) /\ Refuse(r, "VALIDATION_ERROR")
  \/ \E code \in {"TEAM_NOT_FOUND", "EPIC_NOT_FOUND", "EPIC_TEAM_MISMATCH"} :
       (c.teamId # Absent \/ c.epicId # Absent) /\ Refuse(r, code)
  \/ \E cols \in SUBSET {f \in Fields : c[f] # Absent} :
       LET row == Patched(tickets[c.id], c, cols)
           missing == ~TicketReferencesHold(row, cols) IN
       \/ ~TicketExists(c.id) /\ Refuse(r, "INTERNAL")
       \/ TicketExists(c.id) /\ missing /\ Refuse(r, "INTERNAL")
       \/ /\ TicketExists(c.id) /\ ~BlankTitle(c) /\ ~missing /\ cols # {}
          /\ PutTicket(c.id, row) /\ Reply(r, "200")

DeleteTicket(r, c) ==
  \/ ~TicketExists(c.id) /\ Refuse(r, "TICKET_NOT_FOUND")
  \/ TicketExists(c.id) /\ RemoveTicket(c.id) /\ Reply(r, "204")

CreateComment(r, c) ==
  \/ /\ ~TicketExists(c.id)
     /\ \E code \in {"TICKET_NOT_FOUND", "INTERNAL"} : Refuse(r, code)
  \/ TicketExists(c.id) /\ PutComment(r, c.id) /\ Reply(r, "201")

Serve(r) ==
  LET c == asked[r] IN
  /\ answer[r] = "none"
  /\ \/ c.op = "createTeam" /\ CreateTeam(r, c)
     \/ c.op = "renameTeam" /\ RenameTeam(r, c)
     \/ c.op = "deleteTeam" /\ DeleteTeam(r, c)
     \/ c.op = "createEpic" /\ CreateEpic(r, c)
     \/ c.op = "updateEpic" /\ UpdateEpic(r, c)
     \/ c.op = "deleteEpic" /\ DeleteEpic(r, c)
     \/ c.op = "createTicket" /\ CreateTicket(r, c)
     \/ c.op = "updateTicket" /\ UpdateTicket(r, c)
     \/ c.op = "deleteTicket" /\ DeleteTicket(r, c)
     \/ c.op = "createComment" /\ CreateComment(r, c)
  /\ UNCHANGED asked

Next == \E r \in Requests : Ask(r) \/ Serve(r)

Spec == Init /\ [][Next]_apiVars

=============================================================================

------------------------------ MODULE Contract ------------------------------
(***************************************************************************)
(* The calls of the API that change something, as the OpenAPI contract     *)
(* lets them through, the codes they are answered with, and the rows they  *)
(* ask for.                                                                *)
(***************************************************************************)
EXTENDS Database

CONSTANT Calls  \* the calls clients may send

\* The columns of a ticket that a PATCH may name.
Fields == {"teamId", "epicId", "state", "title"}

\* Calls after schema validation.  It drops the fields that the contract does
\* not name once it has counted them (minProperties: 1), so a PATCH may be
\* left without any.
CreateTeamCalls == [op : {"createTeam"}, name : RawTexts]
RenameTeamCalls == [op : {"renameTeam"}, id : TeamIds, name : RawTexts]
DeleteTeamCalls == [op : {"deleteTeam"}, id : TeamIds]
CreateEpicCalls == [op : {"createEpic"}, teamId : TeamIds, title : RawTexts]
UpdateEpicCalls == [op : {"updateEpic"}, id : EpicIds, title : RawTexts \cup {Absent}]
DeleteEpicCalls == [op : {"deleteEpic"}, id : EpicIds]
CreateTicketCalls ==
  [op : {"createTicket"}, teamId : TeamIds, epicId : EpicIds \cup {NoEpic},
   state : States \cup {Absent}, title : RawTexts]
UpdateTicketCalls ==
  [op : {"updateTicket"}, id : TicketIds, teamId : TeamIds \cup {Absent},
   epicId : EpicIds \cup {NoEpic, Absent}, state : States \cup {Absent},
   title : RawTexts \cup {Absent}]
DeleteTicketCalls == [op : {"deleteTicket"}, id : TicketIds]
CreateCommentCalls == [op : {"createComment"}, id : TicketIds, body : RawTexts]

AllCalls ==
  UNION {CreateTeamCalls, RenameTeamCalls, DeleteTeamCalls,
         CreateEpicCalls, UpdateEpicCalls, DeleteEpicCalls,
         CreateTicketCalls, UpdateTicketCalls, DeleteTicketCalls, CreateCommentCalls}

ASSUME CallsAssumption == Calls \subseteq AllCalls

\* What call holds until the request is received.
NoCall == [op |-> "none"]

\* The codes of the replies: 2xx, or the ErrorBody code of core/errors.ts.
Codes ==
  {"200", "201", "204", "VALIDATION_ERROR", "COMMENT_BODY_REQUIRED",
   "EPIC_TEAM_MISMATCH", "TEAM_NOT_FOUND", "EPIC_NOT_FOUND", "TICKET_NOT_FOUND",
   "TEAM_NAME_TAKEN", "TEAM_HAS_DEPENDENTS", "EPIC_REFERENCED", "INTERNAL"}

\* The status that the error handler gives a code.
Status(code) ==
  CASE code \in {"VALIDATION_ERROR", "COMMENT_BODY_REQUIRED", "EPIC_TEAM_MISMATCH"} -> "400"
    [] code \in {"TEAM_NOT_FOUND", "EPIC_NOT_FOUND", "TICKET_NOT_FOUND"} -> "404"
    [] code \in {"TEAM_NAME_TAKEN", "TEAM_HAS_DEPENDENTS", "EPIC_REFERENCED"} -> "409"
    [] code = "INTERNAL" -> "500"
    [] OTHER -> code

\* The statuses for which the contract declares a response.
Unentered == {"401", "403"}   \* the handler is not entered
CreateTeamReplies == {"201", "400", "409"} \cup Unentered
RenameTeamReplies == {"200", "400", "404", "409"} \cup Unentered
DeleteTeamReplies == {"204", "404", "409"} \cup Unentered
CreateEpicReplies == {"201", "400", "404"} \cup Unentered
UpdateEpicReplies == {"200", "400", "404"} \cup Unentered
DeleteEpicReplies == {"204", "404", "409"} \cup Unentered
CreateTicketReplies == {"201", "400", "404"} \cup Unentered
UpdateTicketReplies == {"200", "400", "404"} \cup Unentered
DeleteTicketReplies == {"204", "404"} \cup Unentered
CreateCommentReplies == {"201", "400", "404"} \cup Unentered

Declared ==
  [createTeam |-> CreateTeamReplies, renameTeam |-> RenameTeamReplies, deleteTeam |-> DeleteTeamReplies,
   createEpic |-> CreateEpicReplies, updateEpic |-> UpdateEpicReplies, deleteEpic |-> DeleteEpicReplies,
   createTicket |-> CreateTicketReplies, updateTicket |-> UpdateTicketReplies,
   deleteTicket |-> DeleteTicketReplies, createComment |-> CreateCommentReplies]

BlankTitle(c) == c.title # Absent /\ Trim[c.title] = ""

\* The texts a handler trims and checks before its first database call.
BlankAtOnce(c) ==
  \/ c.op \in {"createTeam", "renameTeam"} /\ Trim[c.name] = ""
  \/ c.op \in {"createEpic", "updateEpic"} /\ BlankTitle(c)
  \/ c.op = "createComment" /\ Trim[c.body] = ""

BlankCode(c) ==
  IF c.op = "createComment" THEN "COMMENT_BODY_REQUIRED" ELSE "VALIDATION_ERROR"

\* A PATCH of an epic may name its description only.
EditedEpic(row, c) == [row EXCEPT !.title = IF c.title = Absent THEN @ ELSE Trim[c.title]]

\* The stored form of a field of a PATCH.
Requested(c, field) == IF field = "title" THEN Trim[c.title] ELSE c[field]

\* UPDATE sets the columns `cols` of the stored row and refreshes modifiedAt.
Patched(row, c, cols) ==
  [teamId     |-> IF "teamId" \in cols THEN c.teamId ELSE row.teamId,
   epicId     |-> IF "epicId" \in cols THEN c.epicId ELSE row.epicId,
   state      |-> IF "state" \in cols THEN c.state ELSE row.state,
   title      |-> IF "title" \in cols THEN Trim[c.title] ELSE row.title,
   modifiedAt |-> row.modifiedAt + 1]

NewTicket(c) ==
  [teamId |-> c.teamId, epicId |-> c.epicId,
   state |-> IF c.state = Absent THEN DefaultState ELSE c.state,
   title |-> Trim[c.title], modifiedAt |-> 0]

=============================================================================

----------------------------- MODULE MCBackend ------------------------------
(***************************************************************************)
(* Small instances of Backend for TLC.                                     *)
(***************************************************************************)
EXTENDS Backend, TLC

CONSTANTS t1, t2, e1, e2, k1, c1

Symmetry == Permutations(Requests)

\* Two spellings of one team name, another name, and a blank one.
MCRawTexts == {"Core", " core ", "Ops", " "}
MCTexts == {"Core", "core", "Ops"}
MCTrim == ("Core" :> "Core") @@ (" core " :> "core") @@ ("Ops" :> "Ops") @@ (" " :> "")
MCFold == ("Core" :> "core") @@ ("core" :> "core") @@ ("Ops" :> "ops")

Rows(ids, rows) == [id \in ids |-> IF id \in DOMAIN rows THEN rows[id] ELSE NoRow]
NoRows == <<>>

Snapshot(teamRows, epicRows, ticketRows, commentRows) ==
  [teams |-> Rows(TeamIds, teamRows), epics |-> Rows(EpicIds, epicRows),
   tickets |-> Rows(TicketIds, ticketRows), comments |-> Rows(CommentIds, commentRows)]

Ticket(team, epic) ==
  [teamId |-> team, epicId |-> epic, state |-> "new", title |-> "Core", modifiedAt |-> 0]

\* A fresh database; a team; a team with an epic; and with a ticket in it.
TeamSnapshots ==
  LET team == t1 :> [name |-> "Core"]
      epic == e1 :> [teamId |-> t1, title |-> "Core"] IN
  {Snapshot(NoRows, NoRows, NoRows, NoRows),
   Snapshot(team, NoRows, NoRows, NoRows),
   Snapshot(team, epic, NoRows, NoRows),
   Snapshot(team, epic, k1 :> Ticket(t1, e1), NoRows)}

\* Two teams with an epic each, and a ticket with a comment, in an epic or not.
Board(epicOfTicket) ==
  LET team == (t1 :> [name |-> "Core"]) @@ (t2 :> [name |-> "Ops"])
      epic == (e1 :> [teamId |-> t1, title |-> "Core"]) @@ (e2 :> [teamId |-> t2, title |-> "Core"]) IN
  Snapshot(team, epic, k1 :> Ticket(t1, epicOfTicket), c1 :> k1)
TwoTeams == {Board(e1), Board(NoEpic)}

\* Everything that can be asked of teams and epics, and the inserts of
\* tickets that race with their deletion.
TeamAndEpicCalls ==
  UNION {CreateTeamCalls, RenameTeamCalls, DeleteTeamCalls, DeleteEpicCalls}
  \cup {c \in CreateEpicCalls \cup UpdateEpicCalls : c.title \in {"Core", Absent}}
  \cup {c \in CreateTicketCalls : c.state = Absent /\ c.title = "Core" /\ c.epicId \in {e1, NoEpic}}

\* Everything that can be asked of tickets about rows that exist, and the
\* deletes that race with it.
TicketCalls ==
  {c \in CreateTicketCalls : c.teamId \in SeedTeams /\ c.epicId \notin Requests
                              /\ c.state # DefaultState /\ c.title # "Ops"}
  \cup {c \in UpdateTicketCalls : c.id \in SeedTickets /\ c.epicId \notin Requests
                                   /\ c.teamId \notin Requests /\ c.title # "Ops"}
  \cup {c \in DeleteTeamCalls \cup DeleteEpicCalls : c.id \notin Requests}
  \cup {c \in CreateCommentCalls : c.id = k1} \cup DeleteTicketCalls

\* Edits of the references of one ticket.
ReferenceEdits ==
  {c \in UpdateTicketCalls : c.id = k1 /\ c.title = Absent /\ c.state = Absent
                              /\ c.teamId \notin Requests /\ c.epicId \notin Requests}

=============================================================================

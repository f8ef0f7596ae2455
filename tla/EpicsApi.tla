------------------------------ MODULE EpicsApi ------------------------------
(***************************************************************************)
(* /api/epics: create, update and delete (modules/epics/index.ts).  The    *)
(* GET routes only read and are not modelled.                              *)
(***************************************************************************)
EXTENDS Requests

\* POST /: is the team there?
FindEpicTeam(r) ==
  /\ pc[r] = "findEpicTeam"
  /\ IF TeamExists(call[r].teamId)
       THEN Goto(r, "insertEpic")
       ELSE Answer(r, "TEAM_NOT_FOUND")
  /\ UNCHANGED <<tables, call, locals>>

\* Faulty variant: the lookup is trusted and the insert goes through.
InsertEpicUnchecked(r) ==
  /\ pc[r] = "insertEpic"
  /\ PutEpic(r, [teamId |-> call[r].teamId, title |-> Trim[call[r].title]])
  /\ Answer(r, "201")
  /\ UNCHANGED <<call, locals>>

\* Faulty variant: the foreign key error of the insert is not caught.
InsertEpicUncaught(r) ==
  /\ pc[r] = "insertEpic"
  /\ IF TeamExists(call[r].teamId)
       THEN /\ PutEpic(r, [teamId |-> call[r].teamId, title |-> Trim[call[r].title]])
            /\ Answer(r, "201")
       ELSE Answer(r, "INTERNAL") /\ UNCHANGED tables
  /\ UNCHANGED <<call, locals>>

\* The insert; the team may have gone since (P2003), which is a 404 again.
InsertEpic(r) ==
  LET team == call[r].teamId IN
  /\ pc[r] = "insertEpic"
  /\ \/ /\ ~TeamExists(team)
        /\ Answer(r, "TEAM_NOT_FOUND")
        /\ UNCHANGED tables
     \/ /\ TeamExists(team)
        /\ PutEpic(r, [teamId |-> team, title |-> Trim[call[r].title]])
        /\ Answer(r, "201")
  /\ UNCHANGED <<call, locals>>

\* PATCH /:epicId: title and description only; the team stays.
WriteEpic(r) ==
  LET id == call[r].id IN
  /\ pc[r] = "writeEpic"
  /\ \/ /\ ~EpicExists(id)
        /\ Answer(r, "EPIC_NOT_FOUND")
        /\ UNCHANGED tables
     \/ /\ EpicExists(id)
        /\ PutEpic(id, EditedEpic(epics[id], call[r]))
        /\ Answer(r, "200")
  /\ UNCHANGED <<call, locals>>

\* DELETE /:epicId: lookup, count, delete.
FindEpic(r) ==
  /\ pc[r] = "findEpic"
  /\ IF EpicExists(call[r].id)
       THEN Goto(r, "countTickets")
       ELSE Answer(r, "EPIC_NOT_FOUND")
  /\ UNCHANGED <<tables, call, locals>>

CountTickets(r) ==
  /\ pc[r] = "countTickets"
  /\ IF EpicReferenced(call[r].id)
       THEN Answer(r, "EPIC_REFERENCED")
       ELSE Goto(r, "deleteEpic")
  /\ UNCHANGED <<tables, call, locals>>

DeleteEpic(r) ==
  LET id == call[r].id IN
  /\ pc[r] = "deleteEpic"
  /\ \/ /\ ~EpicExists(id)
        /\ Answer(r, "EPIC_NOT_FOUND")
        /\ UNCHANGED tables
     \/ /\ EpicExists(id)
        /\ EpicReferenced(id)
        /\ Answer(r, "EPIC_REFERENCED")
        /\ UNCHANGED tables
     \/ /\ EpicExists(id)
        /\ ~EpicReferenced(id)
        /\ PutEpic(id, NoRow)
        /\ Answer(r, "204")
  /\ UNCHANGED <<call, locals>>

EpicStep(r) ==
  \/ FindEpicTeam(r)
  \/ InsertEpic(r)
  \/ WriteEpic(r)
  \/ FindEpic(r)
  \/ CountTickets(r)
  \/ DeleteEpic(r)

=============================================================================

------------------------------ MODULE TeamsApi ------------------------------
(***************************************************************************)
(* /api/teams: create, rename and delete (modules/teams/index.ts).  The    *)
(* three GET routes only read and are not modelled.                        *)
(***************************************************************************)
EXTENDS Requests

\* POST /: insert; the unique index turns a taken name into a 409.
InsertTeam(r) ==
  LET name == Trim[call[r].name] IN
  /\ pc[r] = "insertTeam"
  /\ \/ /\ NameTaken(r, name)
        /\ Answer(r, "TEAM_NAME_TAKEN")
        /\ UNCHANGED tables
     \/ /\ ~NameTaken(r, name)
        /\ PutTeam(r, [name |-> name])
        /\ Answer(r, "201")
  /\ UNCHANGED <<call, locals>>

\* PATCH /:teamId: one update statement decides all three outcomes.
RenameTeam(r) ==
  LET id == call[r].id
      name == Trim[call[r].name] IN
  /\ pc[r] = "renameTeam"
  /\ \/ /\ ~TeamExists(id)
        /\ Answer(r, "TEAM_NOT_FOUND")
        /\ UNCHANGED tables
     \/ /\ TeamExists(id)
        /\ NameTaken(id, name)
        /\ Answer(r, "TEAM_NAME_TAKEN")
        /\ UNCHANGED tables
     \/ /\ TeamExists(id)
        /\ ~NameTaken(id, name)
        /\ PutTeam(id, [name |-> name])
        /\ Answer(r, "200")
  /\ UNCHANGED <<call, locals>>

\* DELETE /:teamId starts with a lookup.
FindTeam(r) ==
  /\ pc[r] = "findTeam"
  /\ IF TeamExists(call[r].id)
       THEN Goto(r, "countDependents")
       ELSE Answer(r, "TEAM_NOT_FOUND")
  /\ UNCHANGED <<tables, call, locals>>

\* The two counts run side by side (Promise.all) and return in any order;
\* the one that returns last decides.
CountDependents(r, table) ==
  LET id == call[r].id
      some == \/ dependents[r]
              \/ table = "tickets" /\ TicketsOfTeam(id) # {}
              \/ table = "epics" /\ EpicsOfTeam(id) # {}
      done == counted[r] \cup {table} = {"tickets", "epics"} IN
  /\ pc[r] = "countDependents"
  /\ table \notin counted[r]
  /\ counted' = [counted EXCEPT ![r] = @ \cup {table}]
  /\ dependents' = [dependents EXCEPT ![r] = some]
  /\ \/ ~done /\ UNCHANGED <<pc, reply>>
     \/ done /\ some /\ Answer(r, "TEAM_HAS_DEPENDENTS")
     \/ done /\ ~some /\ Goto(r, "deleteTeam")
  /\ UNCHANGED <<tables, call, current>>

\* Faulty variant: every failed delete is reported as a missing team.
DeleteTeamNotFound(r) ==
  LET id == call[r].id
      refused == ~TeamExists(id) \/ TeamReferenced(id) IN
  /\ pc[r] = "deleteTeam"
  /\ \/ refused /\ Answer(r, "TEAM_NOT_FOUND") /\ UNCHANGED tables
     \/ ~refused /\ PutTeam(id, NoRow) /\ Answer(r, "204")
  /\ UNCHANGED <<call, locals>>

\* The delete itself: the foreign keys and a vanished row have the last word.
DeleteTeam(r) ==
  LET id == call[r].id IN
  /\ pc[r] = "deleteTeam"
  /\ \/ /\ ~TeamExists(id)
        /\ Answer(r, "TEAM_NOT_FOUND")
        /\ UNCHANGED tables
     \/ /\ TeamExists(id)
        /\ TeamReferenced(id)
        /\ Answer(r, "TEAM_HAS_DEPENDENTS")
        /\ UNCHANGED tables
     \/ /\ TeamExists(id)
        /\ ~TeamReferenced(id)
        /\ PutTeam(id, NoRow)
        /\ Answer(r, "204")
  /\ UNCHANGED <<call, locals>>

TeamStep(r) ==
  \/ InsertTeam(r)
  \/ RenameTeam(r)
  \/ FindTeam(r)
  \/ \E table \in {"tickets", "epics"} : CountDependents(r, table)
  \/ DeleteTeam(r)

=============================================================================

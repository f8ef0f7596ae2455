------------------------------ MODULE Backend -------------------------------
(***************************************************************************)
(* The business API of the backend: any number of requests to teams,       *)
(* epics, tickets and comments, interleaved at every database call, over   *)
(* one database, with crashes of the process in between.                   *)
(***************************************************************************)
EXTENDS TeamsApi, EpicsApi, TicketsApi, CommentsApi

CONSTANT Snapshots  \* table contents before the first request

(***************************************************************************)
(* What the schema and the services say of the tables                      *)
(***************************************************************************)

\* No row refers to a row that is not there: epics.team_id, tickets.team_id,
\* tickets.epic_id and comments.ticket_id, whatever deletes run in between.
References ==
  /\ \A e \in EpicIds : EpicExists(e) => TeamExists(epics[e].teamId)
  /\ \A k \in TicketIds : TicketExists(k) =>
       /\ TeamExists(tickets[k].teamId)
       /\ tickets[k].epicId # NoEpic => EpicExists(tickets[k].epicId)
  /\ \A c \in CommentIds : comments[c] # NoRow => TicketExists(comments[c])

\* No two teams have names that differ in case only (TEAM_NAME_TAKEN), even
\* when two creates or renames run at the same time.
TeamNamesUnique ==
  \A s, t \in TeamIds :
    TeamExists(s) /\ TeamExists(t) /\ Fold[teams[s].name] = Fold[teams[t].name] => s = t

\* The epic of ticket k, if it has one, belongs to the ticket's team.
EpicMatchesTeam(k) ==
  tickets[k].epicId # NoEpic => epics[tickets[k].epicId].teamId = tickets[k].teamId

\* tickets/service.ts:9: "epic (when present) must exist and belong to the
\* ticket's team".
EpicInTicketTeam == \A k \in TicketIds : TicketExists(k) => EpicMatchesTeam(k)

(***************************************************************************)
(* The specification                                                       *)
(***************************************************************************)

Init ==
  /\ \E s \in Snapshots :
       /\ teams = s.teams
       /\ epics = s.epics
       /\ tickets = s.tickets
       /\ comments = s.comments
  /\ TablesOK /\ References /\ TeamNamesUnique /\ EpicInTicketTeam
  /\ \A r \in Requests : ~TeamExists(r) /\ ~EpicExists(r) /\ ~TicketExists(r)
  /\ \A r \in Requests : comments[r] = NoRow
  /\ pc = [r \in Requests |-> "idle"]
  /\ call = [r \in Requests |-> NoCall]
  /\ current = [r \in Requests |-> NoRow]
  /\ counted = [r \in Requests |-> {}]
  /\ dependents = [r \in Requests |-> FALSE]
  /\ reply = [r \in Requests |-> "none"]

Step(r) == Receive(r) \/ TeamStep(r) \/ EpicStep(r) \/ TicketStep(r) \/ CommentStep(r)

\* Every request of the instance has been served or lost.
Finished ==
  /\ \A r \in Requests : pc[r] \in {"answered", "lost"}
  /\ UNCHANGED vars

Next == (\E r \in Requests : Step(r)) \/ Crash \/ Finished

Spec == Init /\ [][Next]_vars

(***************************************************************************)
(* Properties                                                              *)
(***************************************************************************)

\* Every variable has its type, and a call that is awaited is one the
\* handler of that call awaits.
TypeOK ==
  /\ TablesOK
  /\ pc \in [Requests -> Labels \cup {"idle", "answered", "lost"}]
  /\ call \in [Requests -> AllCalls \cup {NoCall}]
  /\ current \in [Requests -> TicketRow \cup {NoRow}]
  /\ counted \in [Requests -> SUBSET {"tickets", "epics"}]
  /\ dependents \in [Requests -> BOOLEAN]
  /\ reply \in [Requests -> Codes \cup {"none"}]

\* What a handler knows of its call, its copy and its checks while it awaits
\* each statement: the part of the inductive invariant that is not about the
\* tables.
StatusOK(r) ==
  /\ pc[r] = "idle" => call[r] = NoCall /\ dependents[r] = FALSE
  /\ pc[r] # "idle" => call[r] \in AllCalls
  /\ pc[r] = "answered" <=> reply[r] # "none"

TeamHandlerOK(r) ==
  /\ pc[r] = "insertTeam" => call[r] \in CreateTeamCalls /\ Trim[call[r].name] # ""
  /\ pc[r] = "renameTeam" => call[r] \in RenameTeamCalls /\ Trim[call[r].name] # ""
  /\ pc[r] \in {"findTeam", "countDependents", "deleteTeam"} => call[r] \in DeleteTeamCalls

EpicHandlerOK(r) ==
  /\ pc[r] \in {"findEpicTeam", "insertEpic"} =>
       call[r] \in CreateEpicCalls /\ Trim[call[r].title] # ""
  /\ pc[r] = "writeEpic" => call[r] \in UpdateEpicCalls /\ ~BlankTitle(call[r])
  /\ pc[r] \in {"findEpic", "countTickets", "deleteEpic"} => call[r] \in DeleteEpicCalls

TicketHandlerOK(r) ==
  /\ pc[r] = "findTicket" => call[r] \in UpdateTicketCalls
  /\ pc[r] \in {"checkTeam", "checkEpic"} =>
       \/ call[r] \in CreateTicketCalls
       \/ /\ call[r] \in UpdateTicketCalls
          /\ current[r] \in TicketRow
          /\ TouchesReferences(call[r])
  /\ pc[r] = "checkEpic" => WantedEpic(r) # NoEpic
  /\ pc[r] = "insertTicket" => call[r] \in CreateTicketCalls /\ ~BlankTitle(call[r])
  /\ pc[r] = "writeTicket" =>
       /\ call[r] \in UpdateTicketCalls
       /\ ~BlankTitle(call[r])
       /\ current[r] \in TicketRow
  /\ pc[r] = "deleteTicket" => call[r] \in DeleteTicketCalls

CommentHandlerOK(r) ==
  pc[r] \in {"findCommentTicket", "insertComment"} => call[r] \in CreateCommentCalls

HandlerOK(r) ==
  /\ StatusOK(r)
  /\ TeamHandlerOK(r)
  /\ EpicHandlerOK(r)
  /\ TicketHandlerOK(r)
  /\ CommentHandlerOK(r)

HandlersOK == \A r \in Requests : HandlerOK(r)

\* A request has inserted nothing before it is answered, so a row that was
\* deleted never comes back under its old id.
InsertedOnce ==
  \A r \in Requests : pc[r] # "answered" =>
    ~TeamExists(r) /\ ~EpicExists(r) /\ ~TicketExists(r) /\ comments[r] = NoRow

\* The epic that validateReferences has approved for request r is still of
\* the approved team, if it is still there.
Approved(r) ==
  LET e == WantedEpic(r) IN
  e # NoEpic =>
    /\ e \in Requests => pc[e] = "answered"
    /\ EpicExists(e) => epics[e].teamId = WantedTeam(r)

ApprovalsHold ==
  \A r \in Requests :
    \/ pc[r] = "insertTicket"
    \/ pc[r] = "writeTicket" /\ TouchesReferences(call[r])
    => Approved(r)

\* The inductive invariant.
IInv ==
  /\ TypeOK
  /\ HandlersOK
  /\ References
  /\ TeamNamesUnique
  /\ InsertedOnce
  /\ ApprovalsHold

\* A delete that was answered 204 is final: the row never comes back and
\* nothing refers to it, not even what a request that checked the row before
\* it went wrote afterwards (deleteTeam, deleteEpic, deleteTicket).
DeletedStaysDeleted ==
  \A r \in Requests : reply[r] = "204" =>
    LET id == call[r].id IN
    /\ call[r].op = "deleteTeam" => ~TeamExists(id) /\ ~TeamReferenced(id)
    /\ call[r].op = "deleteEpic" => ~EpicExists(id) /\ ~EpicReferenced(id)
    /\ call[r].op = "deleteTicket" =>
         ~TicketExists(id) /\ \A c \in CommentIds : comments[c] # id

\* A ticket is inserted with an epic of its own team, although team and epic
\* were looked up by earlier statements and may have been deleted, renamed
\* or replaced since (createTicket).
InsertedTicketInTeam ==
  [][\A k \in TicketIds : ~TicketExists(k) /\ TicketExists(k)' => EpicMatchesTeam(k)']_vars

\* Request r's UPDATE of its ticket goes through in this step.
Writes(r) ==
  /\ pc[r] = "writeTicket"
  /\ pc'[r] = "answered"
  /\ reply'[r] = "200"

\* An edit whose copy of the references is still that of the row keeps the
\* epic in the ticket's team: only a concurrent edit of the same ticket can
\* break the rule, not a concurrent create or delete of epics and teams.
FreshEditKeepsEpicInTeam ==
  [][\A r \in Requests :
       LET id == call[r].id IN
       /\ Writes(r)
       /\ current[r].teamId = tickets[id].teamId
       /\ current[r].epicId = tickets[id].epicId
       /\ EpicMatchesTeam(id)
       => EpicMatchesTeam(id)']_vars

\* A PATCH sets no column it does not name, and what it sets is what was
\* asked for: an edit never takes back a concurrent edit of other columns.
PatchWritesOnlyItsColumns ==
  [][\A k \in TicketIds : \A f \in Fields :
       TicketExists(k) /\ TicketExists(k)' /\ tickets'[k][f] # tickets[k][f] =>
         \E r \in Requests :
           /\ Writes(r)
           /\ call[r].id = k
           /\ call[r][f] # Absent
           /\ tickets'[k][f] = Requested(call[r], f)]_vars

\* An edit that finds the row as it read it advances modifiedAt only
\* together with a real change (updateTicket's dirty check).
FreshWriteIsRealChange ==
  [][\A r \in Requests :
       LET id == call[r].id IN
       Writes(r) /\ current[r] = tickets[id] =>
         \E f \in Fields : tickets'[id][f] # tickets[id][f]]_vars

\* Whatever has vanished or come between two statements of a handler, its
\* reply has a status that the contract declares for the operation.  Only a
\* create or an edit whose parent vanishes before its write may be a 500,
\* for tickets and comments (createTicket, updateTicket, createComment).
RepliesAreDeclared ==
  \A r \in Requests : reply[r] # "none" =>
    \/ Status(reply[r]) \in Declared[call[r].op]
    \/ reply[r] = "INTERNAL" /\ call[r].op \in {"createTicket", "updateTicket", "createComment"}

(***************************************************************************)
(* Refinement                                                              *)
(***************************************************************************)

\* When a request's outcome is settled: at its reply, or, for a team delete,
\* as soon as one of the two counts has found a dependent.
Settled ==
  [r \in Requests |->
     IF reply[r] = "none" /\ dependents[r] THEN "TEAM_HAS_DEPENDENTS" ELSE reply[r]]

Api == INSTANCE TrackerApi WITH asked <- call, answer <- Settled

\* Every request, however its statements interleave with others, behaves
\* like one indivisible operation or like a refusal that was true at one
\* instant; a request that a crash cuts off does nothing at all.
ImplementsApi == Api!Spec

=============================================================================

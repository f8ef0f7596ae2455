------------------------------ MODULE Requests ------------------------------
(***************************************************************************)
(* The life of an HTTP request inside the Fastify backend.                 *)
(*                                                                         *)
(* Node runs a handler without interruption until it awaits a Prisma call. *)
(* pc[r] names the call that request r awaits; the action of that name     *)
(* runs the statement and the code after it up to the next await, or to    *)
(* the reply.  Between two of its calls any other request may run.         *)
(*                                                                         *)
(* Authentication happens before a handler is entered (core/auth.ts) and   *)
(* reads no table; a call here is one that has passed it and the schema    *)
(* validation of the contract.                                             *)
(***************************************************************************)
EXTENDS Contract

VARIABLES
  pc,        \* request -> the database call it awaits, or its status
  call,      \* request -> what the client asked for
  current,   \* request -> updateTicket's copy of the row it read
  counted,   \* request -> deleteTeam: the counts that have returned
  dependents,\* request -> deleteTeam: whether a returned count was positive
  reply      \* request -> the code of its response, or "none"

locals == <<current, counted, dependents>>
vars == <<teams, epics, tickets, comments, pc, call, current, counted, dependents, reply>>

Labels ==
  {"insertTeam", "renameTeam", "findTeam", "countDependents", "deleteTeam",
   "findEpicTeam", "insertEpic", "writeEpic", "findEpic", "countTickets", "deleteEpic",
   "checkTeam", "checkEpic", "insertTicket", "findTicket", "writeTicket", "deleteTicket",
   "findCommentTicket", "insertComment"}

InFlight(r) == pc[r] \in Labels

Goto(r, label) ==
  /\ pc' = [pc EXCEPT ![r] = label]
  /\ UNCHANGED reply

Answer(r, code) ==
  /\ pc' = [pc EXCEPT ![r] = "answered"]
  /\ reply' = [reply EXCEPT ![r] = code]

\* The database call that each handler awaits first.
FirstCall ==
  [createTeam |-> "insertTeam", renameTeam |-> "renameTeam", deleteTeam |-> "findTeam",
   createEpic |-> "findEpicTeam", updateEpic |-> "writeEpic", deleteEpic |-> "findEpic",
   createTicket |-> "checkTeam", updateTicket |-> "findTicket",
   deleteTicket |-> "deleteTicket", createComment |-> "findCommentTicket"]

\* A request arrives, is routed, and runs to its first database call.
Receive(r) ==
  /\ pc[r] = "idle"
  /\ \E c \in Calls :
       /\ call' = [call EXCEPT ![r] = c]
       /\ IF BlankAtOnce(c) THEN Answer(r, BlankCode(c)) ELSE Goto(r, FirstCall[c.op])
  /\ UNCHANGED <<tables, locals>>

\* The process dies: its requests are gone without a reply; what their
\* statements wrote stays.  A new process serves the requests that follow.
Crash ==
  /\ \E r \in Requests : InFlight(r)
  /\ pc' = [r \in Requests |-> IF InFlight(r) THEN "lost" ELSE pc[r]]
  /\ UNCHANGED <<tables, call, locals, reply>>

=============================================================================

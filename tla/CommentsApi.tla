---------------------------- MODULE CommentsApi -----------------------------
(***************************************************************************)
(* POST /api/tickets/:ticketId/comments (modules/comments/index.ts).  The  *)
(* GET route only reads and is not modelled.                               *)
(***************************************************************************)
EXTENDS Requests

\* assertTicketExists.
FindCommentTicket(r) ==
  /\ pc[r] = "findCommentTicket"
  /\ IF TicketExists(call[r].id)
       THEN Goto(r, "insertComment")
       ELSE Answer(r, "TICKET_NOT_FOUND")
  /\ UNCHANGED <<tables, call, locals>>

\* The insert; a ticket deleted since the lookup is an error nobody catches.
InsertComment(r) ==
  LET ticket == call[r].id IN
  /\ pc[r] = "insertComment"
  /\ \/ /\ ~TicketExists(ticket)
        /\ Answer(r, "INTERNAL")
        /\ UNCHANGED tables
     \/ /\ TicketExists(ticket)
        /\ PutComment(r, ticket)
        /\ Answer(r, "201")
  /\ UNCHANGED <<call, locals>>

CommentStep(r) == FindCommentTicket(r) \/ InsertComment(r)

=============================================================================

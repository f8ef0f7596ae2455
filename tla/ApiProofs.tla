----------------------------- MODULE ApiProofs ------------------------------
(***************************************************************************)
(* Backend implements TrackerApi: every request takes effect in one step,  *)
(* or is refused for a reason that holds in that step.                     *)
(*                                                                         *)
(* The mapping leaves the tables and the calls alone and reads a request's *)
(* answer off its reply, or off the counts of a team delete (Settled).  A  *)
(* step that only moves a handler on is a stutter; one that settles a      *)
(* request is Serve, with the disjunct of its kind of call.                *)
(***************************************************************************)
EXTENDS BackendProofs

(***************************************************************************)
(* The two vocabularies                                                    *)
(***************************************************************************)

\* TrackerApi speaks of the same calls and the same tables.
LEMMA SameCalls ==
  /\ Api!NoCall = NoCall /\ Api!Fields = Fields
  /\ \A c : /\ Api!BlankAtOnce(c) <=> BlankAtOnce(c)
            /\ Api!BlankCode(c) = BlankCode(c)
            /\ Api!BlankTitle(c) <=> BlankTitle(c)
            /\ Api!NewTicket(c) = NewTicket(c)
  /\ \A row, c, cols : Api!Patched(row, c, cols) = Patched(row, c, cols)
BY DEF Api!NoCall, NoCall, Api!Fields, Fields, Api!BlankAtOnce, BlankAtOnce, Api!BlankCode,
       BlankCode, Api!BlankTitle, BlankTitle, Api!NewTicket, NewTicket, Api!Patched, Patched

LEMMA SameTables ==
  /\ Api!tables = tables /\ Api!tables' = tables' /\ Api!TablesOK = TablesOK
  /\ \A id : /\ Api!TeamExists(id) <=> TeamExists(id)
             /\ Api!EpicExists(id) <=> EpicExists(id)
             /\ Api!TicketExists(id) <=> TicketExists(id)
             /\ Api!TeamReferenced(id) <=> TeamReferenced(id)
             /\ Api!EpicReferenced(id) <=> EpicReferenced(id)
  /\ \A id, name : Api!NameTaken(id, name) <=> NameTaken(id, name)
  /\ \A row, cols : Api!TicketReferencesHold(row, cols) <=> TicketReferencesHold(row, cols)
BY DEF Api!tables, tables, Api!TablesOK, TablesOK, Api!TeamIds, TeamIds, Api!EpicIds, EpicIds,
       Api!TicketIds, TicketIds, Api!CommentIds, CommentIds, Api!TeamRow, TeamRow,
       Api!EpicRow, EpicRow, Api!TicketRow, TicketRow, Api!TeamExists, TeamExists,
       Api!EpicExists, EpicExists, Api!TicketExists, TicketExists, Api!TeamReferenced,
       TeamReferenced, Api!EpicReferenced, EpicReferenced, Api!TicketsOfTeam, TicketsOfTeam,
       Api!EpicsOfTeam, EpicsOfTeam, Api!TicketsOfEpic, TicketsOfEpic, Api!NameTaken, NameTaken,
       Api!TicketReferencesHold, TicketReferencesHold

LEMMA SameWrites ==
  ASSUME NEW id, NEW row
  PROVE  /\ PutTeam(id, row) => Api!PutTeam(id, row)
         /\ PutEpic(id, row) => Api!PutEpic(id, row)
         /\ PutTicket(id, row) => Api!PutTicket(id, row)
         /\ PutComment(id, row) => Api!PutComment(id, row)
         /\ RemoveTicket(id) => Api!RemoveTicket(id)
BY DEF PutTeam, Api!PutTeam, PutEpic, Api!PutEpic, PutTicket, Api!PutTicket, PutComment,
       Api!PutComment, RemoveTicket, Api!RemoveTicket, CommentIds, Api!CommentIds

(***************************************************************************)
(* When a request is settled                                               *)
(***************************************************************************)

SettledAt(r) == IF reply[r] = "none" /\ dependents[r] THEN "TEAM_HAS_DEPENDENTS" ELSE reply[r]

LEMMA Mapping == Settled = [r \in Requests |-> SettledAt(r)]
BY DEF Settled, SettledAt

LEMMA MappingNext == Settled' = [r \in Requests |-> SettledAt(r)']
BY DEF Settled, SettledAt

\* A count has found something only in a delete that is counting, or done.
CountsInOrder ==
  \A r \in Requests : dependents[r] => pc[r] \in {"countDependents", "answered", "lost"}

\* A request that a step does not settle.
LEMMA SettledKept ==
  ASSUME UNCHANGED <<reply, dependents>>
  PROVE  Settled' = Settled
<1>1. \A r \in Requests : SettledAt(r)' = SettledAt(r)
  BY DEF SettledAt
<1>. QED
  BY <1>1, Mapping, MappingNext

\* A handler that moves on to another statement is a stutter of TrackerApi.
LEMMA MovesOn ==
  ASSUME NEW r \in Requests, NEW label, Goto(r, label),
         UNCHANGED <<tables, call, counted, dependents>>
  PROVE  UNCHANGED Api!apiVars
BY SettledKept DEF Goto, tables, Api!apiVars

\* A reply settles the request, but for a delete that is counting.
LEMMA ReplySettles ==
  ASSUME TypeInv, CountsInOrder, NEW r \in Requests,
         pc[r] \in Labels \ {"countDependents"} \/ pc[r] = "idle",
         NEW code \in Codes, Answer(r, code), UNCHANGED dependents
  PROVE  Settled[r] = "none" /\ Api!Reply(r, code)
<1>1. /\ reply[r] = "none" /\ ~dependents[r]
      /\ reply \in [Requests -> Codes \cup {"none"}] /\ dependents \in [Requests -> BOOLEAN]
      /\ reply' = [reply EXCEPT ![r] = code] /\ code # "none"
  BY DEF TypeInv, TypeOK, HandlersOK, HandlerOK, StatusOK, CountsInOrder, Answer, Labels, Codes
<1>2. SettledAt(r) = "none" /\ SettledAt(r)' = code
  BY <1>1 DEF SettledAt
<1>3. \A q \in Requests \ {r} : SettledAt(q)' = SettledAt(q)
  BY <1>1 DEF SettledAt
<1>. QED
  BY <1>2, <1>3, Mapping, MappingNext DEF Api!Reply

(***************************************************************************)
(* One lemma per resource                                                  *)
(***************************************************************************)

\* A count of a team delete settles it when it is the first to find something.
LEMMA CountRefines ==
  ASSUME TypeInv, CountsInOrder, NEW r \in Requests, NEW table \in {"tickets", "epics"},
         CountDependents(r, table)
  PROVE  Api!Serve(r) \/ UNCHANGED Api!apiVars
<1>. DEFINE found == \/ table = "tickets" /\ TicketsOfTeam(call[r].id) # {}
                     \/ table = "epics" /\ EpicsOfTeam(call[r].id) # {}
<1>1. /\ pc[r] = "countDependents" /\ reply[r] = "none"
      /\ reply \in [Requests -> Codes \cup {"none"}] /\ dependents \in [Requests -> BOOLEAN]
      /\ dependents' = [dependents EXCEPT ![r] = dependents[r] \/ found]
      /\ UNCHANGED <<tables, call>>
  BY DEF CountDependents, TypeInv, TypeOK, HandlersOK, HandlerOK, StatusOK
<1>2. \/ reply' = reply
      \/ (dependents[r] \/ found) /\ reply' = [reply EXCEPT ![r] = "TEAM_HAS_DEPENDENTS"]
  BY DEF CountDependents, Answer, Goto
<1>. HIDE DEF found
<1>3. \A q \in Requests \ {r} : SettledAt(q)' = SettledAt(q)
  BY <1>1, <1>2 DEF SettledAt
<1>4. CASE ~dependents[r] /\ found
  <2>1. dependents'[r] /\ reply'[r] \in {"none", "TEAM_HAS_DEPENDENTS"}
    BY <1>1, <1>2, <1>4
  <2>2. SettledAt(r) = "none" /\ SettledAt(r)' = "TEAM_HAS_DEPENDENTS"
    BY <1>1, <1>4, <2>1 DEF SettledAt
  <2>3. Settled[r] = "none" /\ Api!Reply(r, "TEAM_HAS_DEPENDENTS")
    BY <1>3, <2>2, Mapping, MappingNext DEF Api!Reply
  <2>4. TeamReferenced(call[r].id)
    BY <1>4 DEF found, TeamReferenced
  <2>5. call[r].op = "deleteTeam"
    BY <1>1, OpOf DEF TypeInv
  <2>. QED
    BY <1>1, <2>3, <2>4, <2>5, SameTables DEF Api!Serve, Api!DeleteTeam, Api!Refuse
<1>5. CASE dependents[r] \/ ~found
  <2>1. SettledAt(r)' = SettledAt(r)
    BY <1>1, <1>2, <1>5 DEF SettledAt
  <2>2. Settled' = Settled
    BY <1>3, <2>1, Mapping, MappingNext
  <2>. QED
    BY <1>1, <2>2 DEF Api!apiVars, tables
<1>. QED
  BY <1>4, <1>5

\* Each statement of the handlers of teams serves its request or moves on.
LEMMA TeamStepRefines ==
  ASSUME TypeInv, CountsInOrder, NEW r \in Requests, TeamStep(r)
  PROVE  Api!Serve(r) \/ UNCHANGED Api!apiVars
<1>. USE DEF locals
<1>0. ASSUME NEW code \in Codes, Answer(r, code), UNCHANGED <<call, locals>>,
             pc[r] \in Labels \ {"countDependents"}
      PROVE  Settled[r] = "none" /\ Api!Reply(r, code) /\ UNCHANGED call
  BY <1>0, ReplySettles
<1>1. CASE InsertTeam(r)
  <2>1. call[r].op = "createTeam"
    BY <1>1, OpOf DEF InsertTeam, TypeInv
  <2>2. Settled[r] = "none" /\ UNCHANGED call
    BY <1>0, <1>1 DEF InsertTeam, Labels, Codes
  <2>3. Api!CreateTeam(r, call[r])
    BY <1>0, <1>1, SameTables, SameWrites DEF InsertTeam, Api!CreateTeam, Api!Refuse, Labels, Codes
  <2>. QED
    BY <2>1, <2>2, <2>3 DEF Api!Serve
<1>2. CASE RenameTeam(r)
  <2>1. call[r].op = "renameTeam"
    BY <1>2, OpOf DEF RenameTeam, TypeInv
  <2>2. Settled[r] = "none" /\ UNCHANGED call
    BY <1>0, <1>2 DEF RenameTeam, Labels, Codes
  <2>3. Api!RenameTeam(r, call[r])
    BY <1>0, <1>2, SameTables, SameWrites DEF RenameTeam, Api!RenameTeam, Api!Refuse, Labels, Codes
  <2>. QED
    BY <2>1, <2>2, <2>3 DEF Api!Serve
<1>3. CASE FindTeam(r)
  <2>1. CASE TeamExists(call[r].id)
    BY <1>3, <2>1, MovesOn DEF FindTeam
  <2>2. CASE ~TeamExists(call[r].id)
    <3>1. call[r].op = "deleteTeam"
      BY <1>3, OpOf DEF FindTeam, TypeInv
    <3>2. Settled[r] = "none" /\ Api!Reply(r, "TEAM_NOT_FOUND") /\ UNCHANGED <<tables, call>>
      BY <1>0, <1>3, <2>2 DEF FindTeam, Labels, Codes
    <3>. QED
      BY <2>2, <3>1, <3>2, SameTables DEF Api!Serve, Api!DeleteTeam, Api!Refuse
  <2>. QED
    BY <2>1, <2>2
<1>4. ASSUME NEW table \in {"tickets", "epics"}, CountDependents(r, table)
      PROVE  Api!Serve(r) \/ UNCHANGED Api!apiVars
  BY <1>4, CountRefines
<1>5. CASE DeleteTeam(r)
  <2>1. call[r].op = "deleteTeam"
    BY <1>5, OpOf DEF DeleteTeam, TypeInv
  <2>2. Settled[r] = "none" /\ UNCHANGED call
    BY <1>0, <1>5 DEF DeleteTeam, Labels, Codes
  <2>3. Api!DeleteTeam(r, call[r])
    BY <1>0, <1>5, SameTables, SameWrites DEF DeleteTeam, Api!DeleteTeam, Api!Refuse, Labels, Codes
  <2>. QED
    BY <2>1, <2>2, <2>3 DEF Api!Serve
<1>. QED
  BY <1>1, <1>2, <1>3, <1>4, <1>5 DEF TeamStep

\* Each statement of the handlers of epics serves its request or moves on.
LEMMA EpicStepRefines ==
  ASSUME TypeInv, CountsInOrder, NEW r \in Requests, EpicStep(r)
  PROVE  Api!Serve(r) \/ UNCHANGED Api!apiVars
<1>. USE DEF locals
<1>0. ASSUME NEW code \in Codes, Answer(r, code), UNCHANGED <<call, locals>>,
             pc[r] \in Labels \ {"countDependents"}
      PROVE  Settled[r] = "none" /\ Api!Reply(r, code) /\ UNCHANGED call
  BY <1>0, ReplySettles
<1>1. CASE FindEpicTeam(r)
  <2>1. CASE TeamExists(call[r].teamId)
    BY <1>1, <2>1, MovesOn DEF FindEpicTeam
  <2>2. CASE ~TeamExists(call[r].teamId)
    <3>1. call[r].op = "createEpic"
      BY <1>1, OpOf DEF FindEpicTeam, TypeInv
    <3>2. Settled[r] = "none" /\ Api!Reply(r, "TEAM_NOT_FOUND") /\ UNCHANGED <<tables, call>>
      BY <1>0, <1>1, <2>2 DEF FindEpicTeam, Labels, Codes
    <3>. QED
      BY <2>2, <3>1, <3>2, SameTables DEF Api!Serve, Api!CreateEpic, Api!Refuse
  <2>. QED
    BY <2>1, <2>2
<1>2. CASE InsertEpic(r)
  <2>1. call[r].op = "createEpic"
    BY <1>2, OpOf DEF InsertEpic, TypeInv
  <2>2. Settled[r] = "none" /\ UNCHANGED call
    BY <1>0, <1>2 DEF InsertEpic, Labels, Codes
  <2>3. Api!CreateEpic(r, call[r])
    BY <1>0, <1>2, SameTables, SameWrites
       DEF InsertEpic, Api!CreateEpic, Api!Refuse, Labels, Codes
  <2>. QED
    BY <2>1, <2>2, <2>3 DEF Api!Serve
<1>3. CASE WriteEpic(r)
  <2>1. call[r].op = "updateEpic"
    BY <1>3, OpOf DEF WriteEpic, TypeInv
  <2>2. Settled[r] = "none" /\ UNCHANGED call
    BY <1>0, <1>3 DEF WriteEpic, Labels, Codes
  <2>3. Api!UpdateEpic(r, call[r])
    BY <1>0, <1>3, SameTables, SameWrites
       DEF WriteEpic, Api!UpdateEpic, Api!Refuse, EditedEpic, Api!EditedEpic, Labels, Codes
  <2>. QED
    BY <2>1, <2>2, <2>3 DEF Api!Serve
<1>4. CASE FindEpic(r)
  <2>1. CASE EpicExists(call[r].id)
    BY <1>4, <2>1, MovesOn DEF FindEpic
  <2>2. CASE ~EpicExists(call[r].id)
    <3>1. call[r].op = "deleteEpic"
      BY <1>4, OpOf DEF FindEpic, TypeInv
    <3>2. Settled[r] = "none" /\ Api!Reply(r, "EPIC_NOT_FOUND") /\ UNCHANGED <<tables, call>>
      BY <1>0, <1>4, <2>2 DEF FindEpic, Labels, Codes
    <3>. QED
      BY <2>2, <3>1, <3>2, SameTables DEF Api!Serve, Api!DeleteEpic, Api!Refuse
  <2>. QED
    BY <2>1, <2>2
<1>5. CASE CountTickets(r)
  <2>1. CASE ~EpicReferenced(call[r].id)
    BY <1>5, <2>1, MovesOn DEF CountTickets
  <2>2. CASE EpicReferenced(call[r].id)
    <3>1. call[r].op = "deleteEpic"
      BY <1>5, OpOf DEF CountTickets, TypeInv
    <3>2. Settled[r] = "none" /\ Api!Reply(r, "EPIC_REFERENCED") /\ UNCHANGED <<tables, call>>
      BY <1>0, <1>5, <2>2 DEF CountTickets, Labels, Codes
    <3>. QED
      BY <2>2, <3>1, <3>2, SameTables DEF Api!Serve, Api!DeleteEpic, Api!Refuse
  <2>. QED
    BY <2>1, <2>2
<1>6. CASE DeleteEpic(r)
  <2>1. call[r].op = "deleteEpic"
    BY <1>6, OpOf DEF DeleteEpic, TypeInv
  <2>2. Settled[r] = "none" /\ UNCHANGED call
    BY <1>0, <1>6 DEF DeleteEpic, Labels, Codes
  <2>3. Api!DeleteEpic(r, call[r])
    BY <1>0, <1>6, SameTables, SameWrites
       DEF DeleteEpic, Api!DeleteEpic, Api!Refuse, Labels, Codes
  <2>. QED
    BY <2>1, <2>2, <2>3 DEF Api!Serve
<1>. QED
  BY <1>1, <1>2, <1>3, <1>4, <1>5, <1>6 DEF EpicStep

\* Each statement of the handler of comments serves its request or moves on.
LEMMA CommentStepRefines ==
  ASSUME TypeInv, CountsInOrder, NEW r \in Requests, CommentStep(r)
  PROVE  Api!Serve(r) \/ UNCHANGED Api!apiVars
<1>. USE DEF locals
<1>0. ASSUME NEW code \in Codes, Answer(r, code), UNCHANGED <<call, locals>>,
             pc[r] \in Labels \ {"countDependents"}
      PROVE  Settled[r] = "none" /\ Api!Reply(r, code) /\ UNCHANGED call
  BY <1>0, ReplySettles
<1>1. CASE FindCommentTicket(r)
  <2>1. CASE TicketExists(call[r].id)
    BY <1>1, <2>1, MovesOn DEF FindCommentTicket
  <2>2. CASE ~TicketExists(call[r].id)
    <3>1. call[r].op = "createComment"
      BY <1>1, OpOf DEF FindCommentTicket, TypeInv
    <3>2. Settled[r] = "none" /\ Api!Reply(r, "TICKET_NOT_FOUND") /\ UNCHANGED <<tables, call>>
      BY <1>0, <1>1, <2>2 DEF FindCommentTicket, Labels, Codes
    <3>. QED
      BY <2>2, <3>1, <3>2, SameTables DEF Api!Serve, Api!CreateComment, Api!Refuse
  <2>. QED
    BY <2>1, <2>2
<1>2. CASE InsertComment(r)
  <2>1. call[r].op = "createComment"
    BY <1>2, OpOf DEF InsertComment, TypeInv
  <2>2. Settled[r] = "none" /\ UNCHANGED call
    BY <1>0, <1>2 DEF InsertComment, Labels, Codes
  <2>3. Api!CreateComment(r, call[r])
    BY <1>0, <1>2, SameTables, SameWrites
       DEF InsertComment, Api!CreateComment, Api!Refuse, Labels, Codes
  <2>. QED
    BY <2>1, <2>2, <2>3 DEF Api!Serve
<1>. QED
  BY <1>1, <1>2 DEF CommentStep

\* The end of the checks of a ticket: a refusal, an edit without effect, or
\* the wait for a write.
LEMMA FinishRefines ==
  ASSUME TypeInv, CountsInOrder, NEW r \in Requests, NEW row, FinishChecks(r, row),
         pc[r] \in {"findTicket", "checkTeam", "checkEpic"},
         UNCHANGED <<tables, call, counted, dependents>>,
         call[r].op \in {"createTicket", "updateTicket"}
  PROVE  Api!Serve(r) \/ UNCHANGED Api!apiVars
<1>1. ASSUME NEW code \in Codes, Answer(r, code)
      PROVE  Settled[r] = "none" /\ Api!Reply(r, code)
  BY <1>1, ReplySettles DEF Labels
<1>2. CASE BlankTitle(call[r])
  <2>1. Settled[r] = "none" /\ Api!Reply(r, "VALIDATION_ERROR")
    BY <1>1, <1>2 DEF FinishChecks, Codes
  <2>. QED
    BY <1>2, <2>1, SameCalls, SameTables
       DEF Api!Serve, Api!CreateTicket, Api!UpdateTicket, Api!Refuse
<1>3. CASE ~BlankTitle(call[r]) /\ call[r].op = "updateTicket" /\ Answer(r, "200")
  <2>1. Settled[r] = "none" /\ Api!Reply(r, "200")
    BY <1>1, <1>3 DEF Codes
  <2>. QED
    BY <1>3, <2>1, SameTables DEF Api!Serve, Api!UpdateTicket, Api!Refuse
<1>4. ASSUME NEW label, Goto(r, label)
      PROVE  UNCHANGED Api!apiVars
  BY <1>4, MovesOn
<1>. QED
  BY <1>2, <1>3, <1>4 DEF FinishChecks

\* The references that a handler validates are those of its call, or it is
\* an edit that names one of them.
LEMMA WantedReferences ==
  ASSUME TypeInv, NEW r \in Requests, pc[r] \in {"checkTeam", "checkEpic"}
  PROVE  \/ /\ call[r].op = "createTicket"
            /\ WantedTeam(r) = call[r].teamId /\ WantedEpic(r) = call[r].epicId
         \/ call[r].op = "updateTicket" /\ TouchesReferences(call[r])
BY DEF TypeInv, HandlersOK, HandlerOK, TicketHandlerOK, CreateTicketCalls, UpdateTicketCalls,
       WantedTeam, WantedEpic

\* Each lookup of the handlers of tickets serves its request or moves on.
LEMMA LookupsRefine ==
  ASSUME TypeInv, CountsInOrder, NEW r \in Requests,
         FindTicket(r) \/ CheckTeam(r) \/ CheckEpic(r)
  PROVE  Api!Serve(r) \/ UNCHANGED Api!apiVars
<1>0. ASSUME NEW code \in Codes, Answer(r, code), UNCHANGED dependents,
             pc[r] \in {"findTicket", "checkTeam", "checkEpic"}
      PROVE  Settled[r] = "none" /\ Api!Reply(r, code)
  BY <1>0, ReplySettles DEF Labels
<1>1. CASE FindTicket(r)
  <2>1. call[r].op = "updateTicket"
    BY <1>1, OpOf DEF FindTicket, TypeInv
  <2>2. CASE ~TicketExists(call[r].id)
    <3>1. Settled[r] = "none" /\ Api!Reply(r, "TICKET_NOT_FOUND") /\ UNCHANGED <<tables, call>>
      BY <1>0, <1>1, <2>2 DEF FindTicket, TicketExists, Codes
    <3>. QED
      BY <2>1, <2>2, <3>1, SameTables DEF Api!Serve, Api!UpdateTicket, Api!Refuse
  <2>3. CASE TicketExists(call[r].id)
    BY <1>1, <2>1, <2>3, MovesOn, FinishRefines DEF FindTicket, TicketExists
  <2>. QED
    BY <2>2, <2>3
<1>2. CASE CheckTeam(r)
  <2>1. CASE ~TeamExists(WantedTeam(r))
    <3>1. Settled[r] = "none" /\ Api!Reply(r, "TEAM_NOT_FOUND") /\ UNCHANGED <<tables, call>>
      BY <1>0, <1>2, <2>1 DEF CheckTeam, Codes, locals
    <3>2. \/ call[r].op = "createTicket" /\ ~TeamExists(call[r].teamId)
          \/ call[r].op = "updateTicket" /\ TouchesReferences(call[r])
      BY <1>2, <2>1, WantedReferences DEF CheckTeam
    <3>. QED
      BY <3>1, <3>2, SameTables
         DEF Api!Serve, Api!CreateTicket, Api!UpdateTicket, Api!Refuse, TouchesReferences
  <2>2. CASE TeamExists(WantedTeam(r))
    BY <1>2, <2>2, OpOf, MovesOn, FinishRefines DEF CheckTeam, TypeInv, locals
  <2>. QED
    BY <2>1, <2>2
<1>3. CASE CheckEpic(r)
  <2>1. \/ /\ call[r].op = "createTicket" /\ call[r].epicId # NoEpic
           /\ WantedTeam(r) = call[r].teamId /\ WantedEpic(r) = call[r].epicId
        \/ call[r].op = "updateTicket" /\ TouchesReferences(call[r])
    BY <1>3, WantedReferences DEF CheckEpic, TypeInv, HandlersOK, HandlerOK, TicketHandlerOK
  <2>2. CASE ~EpicExists(WantedEpic(r))
    <3>1. Settled[r] = "none" /\ Api!Reply(r, "EPIC_NOT_FOUND") /\ UNCHANGED <<tables, call>>
      BY <1>0, <1>3, <2>2 DEF CheckEpic, Codes, locals
    <3>. QED
      BY <2>1, <2>2, <3>1, SameTables
         DEF Api!Serve, Api!CreateTicket, Api!UpdateTicket, Api!Refuse, TouchesReferences
  <2>3. CASE EpicExists(WantedEpic(r)) /\ epics[WantedEpic(r)].teamId # WantedTeam(r)
    <3>1. Settled[r] = "none" /\ Api!Reply(r, "EPIC_TEAM_MISMATCH") /\ UNCHANGED <<tables, call>>
      BY <1>0, <1>3, <2>3 DEF CheckEpic, Codes, locals
    <3>2. call[r].op = "createTicket" => ~Api!EpicFits(NewTicket(call[r]))
      BY <2>1, <2>3 DEF Api!EpicFits, NewTicket
    <3>. QED
      BY <2>1, <2>3, <3>1, <3>2, SameCalls, SameTables
         DEF Api!Serve, Api!CreateTicket, Api!UpdateTicket, Api!Refuse, TouchesReferences
  <2>4. CASE EpicExists(WantedEpic(r)) /\ epics[WantedEpic(r)].teamId = WantedTeam(r)
    BY <1>3, <2>4, OpOf, FinishRefines DEF CheckEpic, TypeInv, locals
  <2>. QED
    BY <2>2, <2>3, <2>4
<1>. QED
  BY <1>1, <1>2, <1>3

\* The write of a ticket serves its request: by then the texts are known not
\* to be blank, an approved epic is of the approved team, and an edit has
\* something to change.
LEMMA TicketWritesRefine ==
  ASSUME IInv, CountsInOrder, WritesAreDirty, NEW r \in Requests,
         InsertTicket(r) \/ WriteTicket(r) \/ DeleteTicket(r)
  PROVE  Api!Serve(r)
<1>0. TypeInv
  BY DEF IInv, TypeInv
<1>1. PICK code \in Codes : Answer(r, code)
  BY DEF InsertTicket, WriteTicket, DeleteTicket, Codes
<1>2. Settled[r] = "none" /\ Api!Reply(r, code) /\ UNCHANGED call
  BY <1>0, <1>1, ReplySettles DEF InsertTicket, WriteTicket, DeleteTicket, Labels, locals
<1>3. ASSUME NEW other \in Codes, Answer(r, other) PROVE Api!Reply(r, other)
  BY <1>0, <1>3, ReplySettles DEF InsertTicket, WriteTicket, DeleteTicket, Labels, locals
<1>4. CASE InsertTicket(r)
  <2>. DEFINE row == NewTicket(call[r])
  <2>1. call[r].op = "createTicket" /\ ~BlankTitle(call[r])
    BY <1>0, <1>4 DEF InsertTicket, TypeInv, HandlersOK, HandlerOK, TicketHandlerOK, CreateTicketCalls
  <2>2. TicketReferencesHold(row, {"teamId", "epicId"}) => Api!EpicFits(row)
    <3>1. WantedTeam(r) = row.teamId /\ WantedEpic(r) = row.epicId
      BY <2>1 DEF WantedTeam, WantedEpic, NewTicket
    <3>2. Approved(r)
      BY <1>4 DEF IInv, ApprovalsHold, InsertTicket
    <3>. QED
      BY <3>1, <3>2, SameTables DEF Approved, TicketReferencesHold, Api!EpicFits
  <2>3. Api!CreateTicket(r, call[r])
    BY <1>3, <1>4, <2>1, <2>2, SameCalls, SameTables, SameWrites
       DEF InsertTicket, Api!CreateTicket, Api!Refuse, Codes
  <2>. QED
    BY <1>2, <2>1, <2>3 DEF Api!Serve
<1>5. CASE WriteTicket(r)
  <2>. DEFINE cols == Dirty(call[r], current[r])
              row == Patched(tickets[call[r].id], call[r], cols)
  <2>1. call[r].op = "updateTicket" /\ ~BlankTitle(call[r])
    BY <1>0, <1>5 DEF WriteTicket, TypeInv, HandlersOK, HandlerOK, TicketHandlerOK, UpdateTicketCalls
  <2>2. cols \in SUBSET {f \in Fields : call[r][f] # Absent} /\ cols # {}
    BY <1>5 DEF Dirty, WritesAreDirty, WriteTicket
  <2>3. \/ ~TicketExists(call[r].id) /\ Answer(r, "INTERNAL") /\ UNCHANGED tables
        \/ /\ TicketExists(call[r].id) /\ ~TicketReferencesHold(row, cols)
           /\ Answer(r, "INTERNAL") /\ UNCHANGED tables
        \/ /\ TicketExists(call[r].id) /\ TicketReferencesHold(row, cols)
           /\ PutTicket(call[r].id, row) /\ Answer(r, "200")
    BY <1>5 DEF WriteTicket
  <2>. HIDE DEF cols
  <2>4. Api!UpdateTicket(r, call[r])
    BY <1>3, <2>1, <2>2, <2>3, SameCalls, SameTables, SameWrites
       DEF Api!UpdateTicket, Api!Refuse, Codes
  <2>. QED
    BY <1>2, <2>1, <2>4 DEF Api!Serve
<1>6. CASE DeleteTicket(r)
  <2>1. call[r].op = "deleteTicket"
    BY <1>0, <1>6, OpOf DEF DeleteTicket, TypeInv
  <2>2. Api!DeleteTicket(r, call[r])
    BY <1>3, <1>6, SameTables, SameWrites DEF DeleteTicket, Api!DeleteTicket, Api!Refuse, Codes
  <2>. QED
    BY <1>2, <2>1, <2>2 DEF Api!Serve
<1>. QED
  BY <1>4, <1>5, <1>6

\* A request that arrives is asked, and refused at once if its text is blank.
LEMMA ReceiveRefines ==
  ASSUME TypeInv, CountsInOrder, NEW r \in Requests, Receive(r)
  PROVE  Api!Ask(r)
<1>1. PICK c \in Calls :
        /\ call' = [call EXCEPT ![r] = c]
        /\ IF BlankAtOnce(c) THEN Answer(r, BlankCode(c)) ELSE Goto(r, FirstCall[c.op])
  BY DEF Receive
<1>2. call[r] = NoCall /\ UNCHANGED <<tables, dependents>> /\ pc[r] = "idle"
  BY DEF Receive, TypeInv, HandlersOK, HandlerOK, StatusOK, locals
<1>3. IF BlankAtOnce(c) THEN Api!Reply(r, BlankCode(c)) ELSE UNCHANGED Settled
  <2>1. CASE BlankAtOnce(c)
    <3>1. BlankCode(c) \in Codes
      BY DEF BlankCode, Codes
    <3>. QED
      BY <1>1, <1>2, <2>1, <3>1, ReplySettles
  <2>2. CASE ~BlankAtOnce(c)
    BY <1>1, <1>2, <2>2, SettledKept DEF Goto
  <2>. QED
    BY <2>1, <2>2
<1>. QED
  BY <1>1, <1>2, <1>3, SameCalls, SameTables DEF Api!Ask

(***************************************************************************)
(* The refinement                                                          *)
(***************************************************************************)

\* Only the counts of a team delete find dependents.
LEMMA DependentsKept ==
  ASSUME NEW r \in Requests, Step(r)
  PROVE  \/ \E table \in {"tickets", "epics"} : CountDependents(r, table)
         \/ dependents' = dependents /\ pc[r] \notin {"countDependents", "answered", "lost"}
BY DEF Step, Receive, TeamStep, InsertTeam, RenameTeam, FindTeam, DeleteTeam, EpicStep,
       FindEpicTeam, InsertEpic, WriteEpic, FindEpic, CountTickets, DeleteEpic, TicketStep,
       FindTicket, CheckTeam, CheckEpic, InsertTicket, WriteTicket, DeleteTicket,
       CommentStep, FindCommentTicket, InsertComment, locals

\* Every step keeps the counts in order.
LEMMA CountsStep ==
  ASSUME TypeInv, CountsInOrder, [Next]_vars
  PROVE  CountsInOrder'
<1>. SUFFICES ASSUME NEW q \in Requests, dependents'[q]
              PROVE  pc'[q] \in {"countDependents", "answered", "lost"}
  BY DEF CountsInOrder
<1>0. TypeOK
  BY DEF TypeInv
<1>1. ASSUME NEW r \in Requests, NEW table \in {"tickets", "epics"}, CountDependents(r, table)
      PROVE  IF r = q THEN pc'[q] \in {"countDependents", "answered"}
                      ELSE dependents'[q] = dependents[q] /\ pc'[q] = pc[q]
  <2>1. CASE r = q
    BY <1>0, <1>1, <2>1 DEF CountDependents, TypeOK, Answer, Goto
  <2>2. CASE r # q
    BY <1>0, <1>1, <2>2 DEF CountDependents, TypeOK, Answer, Goto
  <2>. QED
    BY <2>1, <2>2
<1>2. ASSUME dependents'[q] = dependents[q], pc'[q] = pc[q] \/ pc'[q] = "lost"
      PROVE  pc'[q] \in {"countDependents", "answered", "lost"}
  BY <1>2 DEF CountsInOrder
<1>3. ASSUME NEW r \in Requests, Step(r),
             ~\E table \in {"tickets", "epics"} : CountDependents(r, table)
      PROVE  dependents'[q] = dependents[q] /\ pc'[q] = pc[q]
  <2>1. dependents' = dependents /\ ~dependents[r]
    BY <1>0, <1>3, DependentsKept DEF CountsInOrder, TypeOK
  <2>2. r # q
    BY <2>1
  <2>. QED
    BY <1>3, <2>1, <2>2, StepMoves
<1>4. CASE Crash \/ UNCHANGED vars
  <2>1. dependents'[q] = dependents[q] /\ (pc'[q] = pc[q] \/ pc'[q] = "lost")
    BY <1>4 DEF Crash, vars, locals
  <2>. QED
    BY <1>2, <2>1
<1>. QED
  BY <1>1, <1>2, <1>3, <1>4 DEF Next, Finished

\* The initial states map to initial states.
LEMMA ApiInit ==
  ASSUME Init
  PROVE  Api!Init
<1>1. TablesOK /\ call = [r \in Requests |-> NoCall]
  BY DEF Init
<1>2. \A r \in Requests : SettledAt(r) = "none"
  BY DEF Init, SettledAt
<1>. QED
  BY <1>1, <1>2, Mapping, SameCalls, SameTables DEF Api!Init

\* Every step maps to a step of TrackerApi or to a stutter.
LEMMA ApiStep ==
  ASSUME IInv, CountsInOrder, WritesAreDirty, [Next]_vars
  PROVE  [Api!Next]_(Api!apiVars)
<1>0. TypeInv
  BY DEF IInv, TypeInv
<1>1. ASSUME NEW r \in Requests, Step(r)
      PROVE  Api!Ask(r) \/ Api!Serve(r) \/ UNCHANGED Api!apiVars
  <2>1. CASE TicketStep(r)
    BY <1>0, <2>1, LookupsRefine, TicketWritesRefine DEF TicketStep
  <2>. QED
    BY <1>0, <1>1, <2>1, ReceiveRefines, TeamStepRefines, EpicStepRefines, CommentStepRefines DEF Step
<1>2. CASE Crash \/ Finished \/ UNCHANGED vars
  <2>1. UNCHANGED <<tables, call, reply, dependents>>
    BY <1>2 DEF Crash, Finished, vars, tables, locals
  <2>. QED
    BY <2>1, SettledKept DEF Api!apiVars, tables
<1>. QED
  BY <1>1, <1>2 DEF Next, Api!Next

\* Every request to teams, epics, tickets and comments, however the
\* statements of the handlers interleave and whenever the process crashes,
\* behaves like one indivisible operation, like a refusal that was true at
\* one instant, or not at all (the services under backend/src/modules).
THEOREM BackendImplementsApi == Spec => ImplementsApi
<1>1. Init => CountsInOrder /\ WritesAreDirty
  BY DEF Init, CountsInOrder, WritesAreDirty
<1>2. IInv /\ CountsInOrder /\ WritesAreDirty /\ [Next]_vars => CountsInOrder' /\ WritesAreDirty'
  BY CountsStep, DirtyStep DEF IInv, TypeInv
<1>. QED
  BY <1>1, <1>2, InductiveInvariant, ApiInit, ApiStep, PTL DEF Spec, ImplementsApi, Api!Spec

=============================================================================

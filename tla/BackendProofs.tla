--------------------------- MODULE BackendProofs ----------------------------
(***************************************************************************)
(* Proofs about Backend, for any number of requests, rows and texts.       *)
(*                                                                         *)
(* IInv is inductive.  The proof goes in layers: first the types and what  *)
(* each handler knows while it awaits a statement (TypeInv), one lemma per *)
(* action; then the facts about the tables, which only the few statements  *)
(* that write can disturb.                                                 *)
(***************************************************************************)
EXTENDS Backend, TLAPS

TypeInv == TypeOK /\ HandlersOK

(***************************************************************************)
(* Calls and rows                                                          *)
(***************************************************************************)

\* The handler a call is routed to is the one for its kind of call.
LEMMA RouteType ==
  ASSUME NEW c \in AllCalls
  PROVE  FirstCall[c.op] \in Labels
BY DEF AllCalls, CreateTeamCalls, RenameTeamCalls, DeleteTeamCalls, CreateEpicCalls,
       UpdateEpicCalls, DeleteEpicCalls, CreateTicketCalls, UpdateTicketCalls,
       DeleteTicketCalls, CreateCommentCalls, FirstCall, Labels

\* What createTicket inserts is a ticket row.
LEMMA NewTicketType ==
  ASSUME NEW c \in CreateTicketCalls, ~BlankTitle(c)
  PROVE  NewTicket(c) \in TicketRow
BY TextsAssumption, StatesAssumption, MarkersAssumption
   DEF CreateTicketCalls, BlankTitle, NewTicket, TicketRow

\* A ticket row to which a PATCH is applied is a ticket row.
LEMMA PatchedType ==
  ASSUME NEW c \in UpdateTicketCalls, ~BlankTitle(c), NEW row \in TicketRow,
         NEW cols, \A f \in cols : c[f] # Absent
  PROVE  Patched(row, c, cols) \in TicketRow
<1>1. c.teamId \in TeamIds \cup {Absent} /\ c.epicId \in EpicIds \cup {NoEpic, Absent}
      /\ c.state \in States \cup {Absent} /\ c.title \in RawTexts \cup {Absent}
  BY DEF UpdateTicketCalls
<1>2. "title" \in cols => Trim[c.title] \in Texts
  BY <1>1, TextsAssumption DEF BlankTitle
<1>. QED
  BY <1>1, <1>2 DEF Patched, TicketRow

\* An epic row to which a PATCH is applied is an epic row of the same team.
LEMMA EditedEpicType ==
  ASSUME NEW c \in UpdateEpicCalls, ~BlankTitle(c), NEW row \in EpicRow
  PROVE  EditedEpic(row, c) \in EpicRow /\ EditedEpic(row, c).teamId = row.teamId
<1>1. c.title = Absent \/ Trim[c.title] \in Texts
  BY TextsAssumption DEF UpdateEpicCalls, BlankTitle
<1>. QED
  BY <1>1 DEF EditedEpic, EpicRow

\* The columns that updateTicket writes are named by the PATCH.
LEMMA DirtyPresent ==
  ASSUME NEW c, NEW row
  PROVE  \A f \in Dirty(c, row) : c[f] # Absent
BY DEF Dirty

(***************************************************************************)
(* Types and handlers                                                      *)
(***************************************************************************)

\* What a handler knows only depends on its own variables.
LEMMA HandlerFrame ==
  ASSUME NEW q \in Requests, HandlerOK(q),
         pc'[q] = pc[q], call'[q] = call[q], current'[q] = current[q],
         counted'[q] = counted[q], dependents'[q] = dependents[q], reply'[q] = reply[q]
  PROVE  HandlerOK(q)'
<1>1. StatusOK(q)'  BY DEF HandlerOK, StatusOK
<1>2. TeamHandlerOK(q)'  BY DEF HandlerOK, TeamHandlerOK
<1>3. EpicHandlerOK(q)'  BY DEF HandlerOK, EpicHandlerOK
<1>4. TicketHandlerOK(q)'
  BY DEF HandlerOK, TicketHandlerOK, WantedEpic, TouchesReferences, BlankTitle
<1>5. CommentHandlerOK(q)'  BY DEF HandlerOK, CommentHandlerOK
<1>. QED  BY <1>1, <1>2, <1>3, <1>4, <1>5 DEF HandlerOK

\* A request that is answered awaits nothing any more.
LEMMA AnsweredOK ==
  ASSUME NEW r \in Requests, pc'[r] = "answered", reply'[r] # "none", call'[r] \in AllCalls
  PROVE  HandlerOK(r)'
BY DEF HandlerOK, StatusOK, TeamHandlerOK, EpicHandlerOK, TicketHandlerOK, CommentHandlerOK

\* Only r moves.
OthersKept(r) ==
  \A q \in Requests \ {r} :
    /\ pc'[q] = pc[q] /\ call'[q] = call[q] /\ current'[q] = current[q]
    /\ counted'[q] = counted[q] /\ dependents'[q] = dependents[q] /\ reply'[q] = reply[q]

\* A step that leaves every other handler alone keeps all of them in order if
\* it keeps its own.
LEMMA OneHandlerMoves ==
  ASSUME HandlersOK, NEW r \in Requests, OthersKept(r), HandlerOK(r)'
  PROVE  HandlersOK'
BY HandlerFrame DEF HandlersOK, OthersKept

\* A step that ends in a reply.
LEMMA AnswerType ==
  ASSUME TypeInv, NEW r \in Requests, pc[r] # "idle", TablesOK',
         NEW code \in Codes, Answer(r, code), UNCHANGED <<call, locals>>
  PROVE  TypeInv'
<1>. USE DEF TypeInv, Answer, locals
<1>1. call[r] \in AllCalls
  BY DEF HandlersOK, HandlerOK, StatusOK
<1>2. TypeOK'
  BY DEF TypeOK
<1>3. HandlerOK(r)'
  BY <1>1, AnsweredOK DEF TypeOK, Codes
<1>4. OthersKept(r)
  BY DEF TypeOK, OthersKept
<1>. QED
  BY <1>2, <1>3, <1>4, OneHandlerMoves

\* A step that ends in the wait for another statement.
LEMMA GotoType ==
  ASSUME TypeInv, NEW r \in Requests, pc[r] # "idle", pc[r] # "answered", TablesOK',
         NEW label \in Labels, Goto(r, label), UNCHANGED <<call, locals>>,
         TeamHandlerOK(r)', EpicHandlerOK(r)', TicketHandlerOK(r)', CommentHandlerOK(r)'
  PROVE  TypeInv'
<1>. USE DEF TypeInv, Goto, locals
<1>1. TypeOK'
  BY DEF TypeOK
<1>2. StatusOK(r)'
  BY DEF TypeOK, HandlersOK, HandlerOK, StatusOK, Labels
<1>3. HandlerOK(r)'
  BY <1>2 DEF HandlerOK
<1>4. OthersKept(r)
  BY DEF TypeOK, OthersKept
<1>. QED
  BY <1>1, <1>3, <1>4, OneHandlerMoves

(***************************************************************************)
(* Types: one lemma per handler                                            *)
(***************************************************************************)

\* Each handler of teams keeps the types and what handlers know.
LEMMA TeamStepType ==
  ASSUME TypeInv, NEW r \in Requests, TeamStep(r)
  PROVE  TypeInv'
<1>. USE DEF TypeInv, locals, tables
<1>0. /\ TypeOK /\ TablesOK /\ HandlerOK(r) /\ TeamHandlerOK(r)
      /\ (UNCHANGED tables => TablesOK')
  BY DEF TypeOK, TablesOK, HandlersOK, HandlerOK
<1>1. CASE InsertTeam(r)
  <2>1. Trim[call[r].name] \in Texts
    BY <1>0, <1>1, TextsAssumption DEF TeamHandlerOK, CreateTeamCalls, InsertTeam
  <2>2. TablesOK'
    BY <1>0, <1>1, <2>1 DEF InsertTeam, TablesOK, PutTeam, TeamRow, TeamIds
  <2>. QED
    BY <1>1, <2>2, AnswerType DEF InsertTeam, Codes
<1>2. CASE RenameTeam(r)
  <2>1. Trim[call[r].name] \in Texts
    BY <1>0, <1>2, TextsAssumption DEF TeamHandlerOK, RenameTeamCalls, RenameTeam
  <2>2. TablesOK'
    BY <1>0, <1>2, <2>1 DEF RenameTeam, TablesOK, PutTeam, TeamRow
  <2>. QED
    BY <1>2, <2>2, AnswerType DEF RenameTeam, Codes
<1>3. CASE FindTeam(r)
  <2>1. CASE TeamExists(call[r].id)
    <3>1. Goto(r, "countDependents") /\ pc'[r] = "countDependents" /\ call' = call
      BY <1>0, <1>3, <2>1 DEF FindTeam, Goto, TypeOK
    <3>2. TeamHandlerOK(r)'
      BY <1>0, <1>3, <3>1 DEF FindTeam, TeamHandlerOK
    <3>3. EpicHandlerOK(r)' /\ TicketHandlerOK(r)' /\ CommentHandlerOK(r)'
      BY <3>1 DEF EpicHandlerOK, TicketHandlerOK, CommentHandlerOK
    <3>. QED
      BY <1>0, <1>3, <3>1, <3>2, <3>3, GotoType DEF FindTeam, Labels
  <2>2. CASE ~TeamExists(call[r].id)
    BY <1>0, <1>3, <2>2, AnswerType DEF FindTeam, Codes
  <2>. QED
    BY <2>1, <2>2
<1>4. ASSUME NEW table \in {"tickets", "epics"}, CountDependents(r, table)
      PROVE  TypeInv'
  <2>1. TypeOK'
    BY <1>0, <1>4 DEF CountDependents, TypeOK, Answer, Goto, Codes, Labels
  <2>2. pc[r] = "countDependents" /\ pc'[r] \in {"countDependents", "answered", "deleteTeam"}
        /\ call' = call /\ (pc'[r] = "answered" <=> reply'[r] # "none")
    BY <1>0, <1>4 DEF CountDependents, TypeOK, Answer, Goto, StatusOK, HandlerOK
  <2>3. HandlerOK(r)'
    BY <1>0, <2>2 DEF HandlerOK, StatusOK, TeamHandlerOK, EpicHandlerOK, TicketHandlerOK,
                      CommentHandlerOK
  <2>4. OthersKept(r)
    BY <1>0, <1>4 DEF CountDependents, TypeOK, Answer, Goto, OthersKept
  <2>. QED
    BY <2>1, <2>3, <2>4, OneHandlerMoves
<1>5. CASE DeleteTeam(r)
  <2>1. TablesOK'
    BY <1>0, <1>5 DEF DeleteTeam, TablesOK, PutTeam
  <2>. QED
    BY <1>5, <2>1, AnswerType DEF DeleteTeam, Codes
<1>. QED
  BY <1>1, <1>2, <1>3, <1>4, <1>5 DEF TeamStep

\* Each handler of epics keeps the types and what handlers know.
LEMMA EpicStepType ==
  ASSUME TypeInv, NEW r \in Requests, EpicStep(r)
  PROVE  TypeInv'
<1>. USE DEF TypeInv, locals, tables
<1>0. /\ TypeOK /\ TablesOK /\ EpicHandlerOK(r)
      /\ (UNCHANGED tables => TablesOK')
  BY DEF TypeOK, TablesOK, HandlersOK, HandlerOK
<1>1. CASE FindEpicTeam(r)
  <2>1. CASE TeamExists(call[r].teamId)
    <3>1. Goto(r, "insertEpic") /\ pc'[r] = "insertEpic" /\ call' = call
      BY <1>0, <1>1, <2>1 DEF FindEpicTeam, Goto, TypeOK
    <3>2. EpicHandlerOK(r)'
      BY <1>0, <1>1, <3>1 DEF FindEpicTeam, EpicHandlerOK
    <3>3. TeamHandlerOK(r)' /\ TicketHandlerOK(r)' /\ CommentHandlerOK(r)'
      BY <3>1 DEF TeamHandlerOK, TicketHandlerOK, CommentHandlerOK
    <3>. QED
      BY <1>0, <1>1, <3>1, <3>2, <3>3, GotoType DEF FindEpicTeam, Labels
  <2>2. CASE ~TeamExists(call[r].teamId)
    BY <1>0, <1>1, <2>2, AnswerType DEF FindEpicTeam, Codes
  <2>. QED
    BY <2>1, <2>2
<1>2. CASE InsertEpic(r)
  <2>1. Trim[call[r].title] \in Texts /\ call[r].teamId \in TeamIds
    BY <1>0, <1>2, TextsAssumption DEF EpicHandlerOK, CreateEpicCalls, InsertEpic
  <2>2. TablesOK'
    BY <1>0, <1>2, <2>1 DEF InsertEpic, TablesOK, PutEpic, EpicRow, EpicIds
  <2>. QED
    BY <1>2, <2>2, AnswerType DEF InsertEpic, Codes
<1>3. CASE WriteEpic(r)
  <2>1. call[r] \in UpdateEpicCalls /\ ~BlankTitle(call[r]) /\ call[r].id \in EpicIds
    BY <1>0, <1>3 DEF EpicHandlerOK, UpdateEpicCalls, WriteEpic
  <2>2. \A row \in EpicRow : EditedEpic(row, call[r]) \in EpicRow
    BY <2>1, EditedEpicType
  <2>3. TablesOK'
    BY <1>0, <1>3, <2>1, <2>2 DEF WriteEpic, TablesOK, PutEpic, EpicExists
  <2>. QED
    BY <1>3, <2>3, AnswerType DEF WriteEpic, Codes
<1>4. CASE FindEpic(r)
  <2>1. CASE EpicExists(call[r].id)
    <3>1. Goto(r, "countTickets") /\ pc'[r] = "countTickets" /\ call' = call
      BY <1>0, <1>4, <2>1 DEF FindEpic, Goto, TypeOK
    <3>2. EpicHandlerOK(r)'
      BY <1>0, <1>4, <3>1 DEF FindEpic, EpicHandlerOK
    <3>3. TeamHandlerOK(r)' /\ TicketHandlerOK(r)' /\ CommentHandlerOK(r)'
      BY <3>1 DEF TeamHandlerOK, TicketHandlerOK, CommentHandlerOK
    <3>. QED
      BY <1>0, <1>4, <3>1, <3>2, <3>3, GotoType DEF FindEpic, Labels
  <2>2. CASE ~EpicExists(call[r].id)
    BY <1>0, <1>4, <2>2, AnswerType DEF FindEpic, Codes
  <2>. QED
    BY <2>1, <2>2
<1>5. CASE CountTickets(r)
  <2>1. CASE ~EpicReferenced(call[r].id)
    <3>1. Goto(r, "deleteEpic") /\ pc'[r] = "deleteEpic" /\ call' = call
      BY <1>0, <1>5, <2>1 DEF CountTickets, Goto, TypeOK
    <3>2. EpicHandlerOK(r)'
      BY <1>0, <1>5, <3>1 DEF CountTickets, EpicHandlerOK
    <3>3. TeamHandlerOK(r)' /\ TicketHandlerOK(r)' /\ CommentHandlerOK(r)'
      BY <3>1 DEF TeamHandlerOK, TicketHandlerOK, CommentHandlerOK
    <3>. QED
      BY <1>0, <1>5, <3>1, <3>2, <3>3, GotoType DEF CountTickets, Labels
  <2>2. CASE EpicReferenced(call[r].id)
    BY <1>0, <1>5, <2>2, AnswerType DEF CountTickets, Codes
  <2>. QED
    BY <2>1, <2>2
<1>6. CASE DeleteEpic(r)
  <2>1. TablesOK'
    BY <1>0, <1>6 DEF DeleteEpic, TablesOK, PutEpic
  <2>. QED
    BY <1>6, <2>1, AnswerType DEF DeleteEpic, Codes
<1>. QED
  BY <1>1, <1>2, <1>3, <1>4, <1>5, <1>6 DEF EpicStep

\* The handler of comments keeps the types and what handlers know.
LEMMA CommentStepType ==
  ASSUME TypeInv, NEW r \in Requests, CommentStep(r)
  PROVE  TypeInv'
<1>. USE DEF TypeInv, locals, tables
<1>0. /\ TypeOK /\ TablesOK /\ CommentHandlerOK(r)
      /\ (UNCHANGED tables => TablesOK')
  BY DEF TypeOK, TablesOK, HandlersOK, HandlerOK
<1>1. CASE FindCommentTicket(r)
  <2>1. CASE TicketExists(call[r].id)
    <3>1. Goto(r, "insertComment") /\ pc'[r] = "insertComment" /\ call' = call
      BY <1>0, <1>1, <2>1 DEF FindCommentTicket, Goto, TypeOK
    <3>2. CommentHandlerOK(r)'
      BY <1>0, <1>1, <3>1 DEF FindCommentTicket, CommentHandlerOK
    <3>3. TeamHandlerOK(r)' /\ TicketHandlerOK(r)' /\ EpicHandlerOK(r)'
      BY <3>1 DEF TeamHandlerOK, TicketHandlerOK, EpicHandlerOK
    <3>. QED
      BY <1>0, <1>1, <3>1, <3>2, <3>3, GotoType DEF FindCommentTicket, Labels
  <2>2. CASE ~TicketExists(call[r].id)
    BY <1>0, <1>1, <2>2, AnswerType DEF FindCommentTicket, Codes
  <2>. QED
    BY <2>1, <2>2
<1>2. CASE InsertComment(r)
  <2>1. call[r].id \in TicketIds
    BY <1>0, <1>2 DEF CommentHandlerOK, CreateCommentCalls, InsertComment
  <2>2. TablesOK'
    BY <1>0, <1>2, <2>1 DEF InsertComment, TablesOK, PutComment, CommentIds
  <2>. QED
    BY <1>2, <2>2, AnswerType DEF InsertComment, Codes
<1>. QED
  BY <1>1, <1>2 DEF CommentStep

\* Where the checks of a ticket end: in a reply, or in the wait for a write
\* of texts that are not blank.
LEMMA FinishChecksType ==
  ASSUME TypeInv, NEW r \in Requests, NEW row, FinishChecks(r, row),
         pc[r] \in {"findTicket", "checkTeam", "checkEpic"},
         UNCHANGED <<tables, call, counted, dependents>>,
         current' \in [Requests -> TicketRow \cup {NoRow}],
         \A q \in Requests \ {r} : current'[q] = current[q],
         \/ call[r] \in CreateTicketCalls
         \/ call[r] \in UpdateTicketCalls /\ current'[r] \in TicketRow
  PROVE  TypeInv'
<1>. USE DEF TypeInv, tables
<1>1. /\ pc'[r] \in {"answered", "insertTicket", "writeTicket"}
      /\ pc'[r] = "answered" <=> reply'[r] # "none"
      /\ pc'[r] = "insertTicket" => call[r].op = "createTicket" /\ ~BlankTitle(call[r])
      /\ pc'[r] = "writeTicket" => call[r].op = "updateTicket" /\ ~BlankTitle(call[r])
  BY DEF FinishChecks, Answer, Goto, TypeOK, HandlersOK, HandlerOK, StatusOK
<1>2. TypeOK'
  BY DEF FinishChecks, Answer, Goto, TypeOK, TablesOK, Codes, Labels
<1>3. OthersKept(r)
  BY DEF FinishChecks, Answer, Goto, TypeOK, OthersKept
<1>4. call[r] \in AllCalls /\ call' = call
  BY DEF HandlersOK, HandlerOK, StatusOK
<1>5. StatusOK(r)'
  BY <1>1, <1>4 DEF StatusOK
<1>6. call[r].op = "createTicket" => call[r] \in CreateTicketCalls
  BY DEF UpdateTicketCalls
<1>7. call[r].op = "updateTicket" => call[r] \in UpdateTicketCalls /\ current'[r] \in TicketRow
  BY DEF CreateTicketCalls
<1>8. TicketHandlerOK(r)'
  BY <1>1, <1>4, <1>6, <1>7 DEF TicketHandlerOK, BlankTitle
<1>9. TeamHandlerOK(r)' /\ EpicHandlerOK(r)' /\ CommentHandlerOK(r)'
  BY <1>1 DEF TeamHandlerOK, EpicHandlerOK, CommentHandlerOK
<1>. QED
  BY <1>2, <1>3, <1>5, <1>8, <1>9, OneHandlerMoves DEF HandlerOK

\* Each handler of tickets keeps the types and what handlers know.
LEMMA TicketStepType ==
  ASSUME TypeInv, NEW r \in Requests, TicketStep(r)
  PROVE  TypeInv'
<1>. USE DEF TypeInv, locals, tables
<1>0. /\ TypeOK /\ TablesOK /\ TicketHandlerOK(r)
      /\ (UNCHANGED tables => TablesOK')
  BY DEF TypeOK, TablesOK, HandlersOK, HandlerOK
<1>1. CASE FindTicket(r)
  <2>. DEFINE row == tickets[call[r].id]
  <2>1. call[r] \in UpdateTicketCalls /\ row \in TicketRow \cup {NoRow} /\ call' = call
    BY <1>0, <1>1 DEF FindTicket, TicketHandlerOK, UpdateTicketCalls, TablesOK
  <2>2. CASE row = NoRow
    BY <1>1, <1>0, <2>2, AnswerType DEF FindTicket, Codes
  <2>3. CASE row # NoRow
    <3>1. /\ current' = [current EXCEPT ![r] = row]
          /\ UNCHANGED <<tables, call, counted, dependents>>
          /\ pc[r] = "findTicket"
      BY <1>1, <2>3 DEF FindTicket
    <3>2. /\ current' \in [Requests -> TicketRow \cup {NoRow}]
          /\ \A q \in Requests \ {r} : current'[q] = current[q]
          /\ current'[r] \in TicketRow
      BY <1>0, <2>1, <2>3, <3>1 DEF TypeOK
    <3>3. CASE TouchesReferences(call[r])
      <4>1. Goto(r, "checkTeam") /\ pc'[r] = "checkTeam"
        BY <1>0, <1>1, <2>3, <3>3 DEF FindTicket, Goto, TypeOK
      <4>2. TypeOK'
        BY <1>0, <3>1, <3>2, <4>1 DEF TypeOK, Goto, Labels
      <4>3. OthersKept(r)
        BY <1>0, <3>1, <3>2, <4>1 DEF TypeOK, Goto, OthersKept
      <4>4. StatusOK(r)'
        BY <1>0, <3>1, <4>1 DEF HandlersOK, HandlerOK, StatusOK, Goto
      <4>5. TicketHandlerOK(r)'
        BY <2>1, <3>2, <3>3, <4>1 DEF TicketHandlerOK, TouchesReferences
      <4>6. TeamHandlerOK(r)' /\ EpicHandlerOK(r)' /\ CommentHandlerOK(r)'
        BY <4>1 DEF TeamHandlerOK, EpicHandlerOK, CommentHandlerOK
      <4>. QED
        BY <4>2, <4>3, <4>4, <4>5, <4>6, OneHandlerMoves DEF HandlerOK
    <3>4. CASE ~TouchesReferences(call[r])
      <4>1. FinishChecks(r, row)
        BY <1>1, <2>3, <3>4 DEF FindTicket
      <4>. QED
        BY <2>1, <3>1, <3>2, <4>1, FinishChecksType
    <3>. QED
      BY <3>3, <3>4
  <2>. QED
    BY <2>2, <2>3
<1>2. CASE CheckTeam(r)
  <2>1. \/ call[r] \in CreateTicketCalls
        \/ call[r] \in UpdateTicketCalls /\ current[r] \in TicketRow /\ TouchesReferences(call[r])
    BY <1>0, <1>2 DEF CheckTeam, TicketHandlerOK
  <2>2. CASE Answer(r, "TEAM_NOT_FOUND")
    BY <1>0, <1>2, <2>2, AnswerType DEF CheckTeam, Codes
  <2>3. CASE WantedEpic(r) = NoEpic /\ FinishChecks(r, current[r])
    BY <1>0, <1>2, <2>1, <2>3, FinishChecksType DEF CheckTeam, TypeOK
  <2>4. CASE WantedEpic(r) # NoEpic /\ Goto(r, "checkEpic")
    <3>1. pc'[r] = "checkEpic" /\ call' = call /\ current' = current
      BY <1>0, <1>2, <2>4 DEF CheckTeam, Goto, TypeOK
    <3>2. TicketHandlerOK(r)'
      BY <2>1, <2>4, <3>1 DEF TicketHandlerOK, WantedEpic, TouchesReferences
    <3>3. TeamHandlerOK(r)' /\ EpicHandlerOK(r)' /\ CommentHandlerOK(r)'
      BY <3>1 DEF TeamHandlerOK, EpicHandlerOK, CommentHandlerOK
    <3>. QED
      BY <1>0, <1>2, <2>4, <3>2, <3>3, GotoType DEF CheckTeam, Labels
  <2>. QED
    BY <1>2, <2>2, <2>3, <2>4 DEF CheckTeam
<1>3. CASE CheckEpic(r)
  <2>1. \/ call[r] \in CreateTicketCalls
        \/ call[r] \in UpdateTicketCalls /\ current[r] \in TicketRow
    BY <1>0, <1>3 DEF CheckEpic, TicketHandlerOK
  <2>2. CASE FinishChecks(r, current[r])
    BY <1>0, <1>3, <2>1, <2>2, FinishChecksType DEF CheckEpic, TypeOK
  <2>3. CASE \E code \in {"EPIC_NOT_FOUND", "EPIC_TEAM_MISMATCH"} : Answer(r, code)
    BY <1>0, <1>3, <2>3, AnswerType DEF CheckEpic, Codes
  <2>. QED
    BY <1>3, <2>2, <2>3 DEF CheckEpic
<1>4. CASE InsertTicket(r)
  <2>1. NewTicket(call[r]) \in TicketRow
    BY <1>0, <1>4, NewTicketType DEF InsertTicket, TicketHandlerOK
  <2>2. TablesOK'
    BY <1>0, <1>4, <2>1 DEF InsertTicket, TablesOK, PutTicket, TicketIds
  <2>. QED
    BY <1>4, <2>2, AnswerType DEF InsertTicket, Codes
<1>5. CASE WriteTicket(r)
  <2>1. call[r] \in UpdateTicketCalls /\ call[r].id \in TicketIds /\ ~BlankTitle(call[r])
    BY <1>0, <1>5 DEF WriteTicket, TicketHandlerOK, UpdateTicketCalls
  <2>2. TicketExists(call[r].id) =>
          Patched(tickets[call[r].id], call[r], Dirty(call[r], current[r])) \in TicketRow
    BY <1>0, <2>1, PatchedType, DirtyPresent DEF TablesOK, TicketExists
  <2>3. TablesOK'
    BY <1>0, <1>5, <2>1, <2>2 DEF WriteTicket, TablesOK, PutTicket
  <2>. QED
    BY <1>5, <2>3, AnswerType DEF WriteTicket, Codes
<1>6. CASE DeleteTicket(r)
  <2>1. TablesOK'
    BY <1>0, <1>6 DEF DeleteTicket, TablesOK, RemoveTicket
  <2>. QED
    BY <1>6, <2>1, AnswerType DEF DeleteTicket, Codes
<1>. QED
  BY <1>1, <1>2, <1>3, <1>4, <1>5, <1>6 DEF TicketStep

\* An arriving request waits for the first statement of its own handler.
LEMMA ReceiveType ==
  ASSUME TypeInv, NEW r \in Requests, Receive(r)
  PROVE  TypeInv'
<1>. USE DEF TypeInv, tables, locals
<1>1. PICK c \in Calls :
        /\ call' = [call EXCEPT ![r] = c]
        /\ IF BlankAtOnce(c) THEN Answer(r, BlankCode(c)) ELSE Goto(r, FirstCall[c.op])
  BY DEF Receive
<1>2. c \in AllCalls /\ TypeOK /\ pc[r] = "idle" /\ UNCHANGED <<tables, locals>>
  BY CallsAssumption DEF Receive
<1>3. call' \in [Requests -> AllCalls \cup {NoCall}] /\ call'[r] = c
  BY <1>1, <1>2 DEF TypeOK
<1>4. reply[r] = "none" /\ dependents[r] = FALSE
  BY <1>2 DEF HandlersOK, HandlerOK, StatusOK
<1>5. CASE BlankAtOnce(c)
  <2>1. BlankCode(c) \in Codes
    BY DEF BlankCode, Codes
  <2>2. TypeOK' /\ pc'[r] = "answered" /\ reply'[r] # "none"
    BY <1>1, <1>2, <1>3, <1>5, <2>1 DEF TypeOK, TablesOK, Answer, Codes
  <2>3. OthersKept(r)
    BY <1>1, <1>2, <1>5 DEF OthersKept, Answer, TypeOK
  <2>. QED
    BY <1>2, <1>3, <2>2, <2>3, AnsweredOK, OneHandlerMoves
<1>6. CASE ~BlankAtOnce(c)
  <2>1. /\ FirstCall[c.op] \in Labels
        /\ pc' = [pc EXCEPT ![r] = FirstCall[c.op]]
        /\ reply' = reply
    BY <1>1, <1>2, <1>6, RouteType DEF Goto
  <2>2. TypeOK' /\ pc'[r] = FirstCall[c.op]
    BY <1>2, <1>3, <2>1 DEF TypeOK, TablesOK
  <2>3. OthersKept(r)
    BY <1>1, <1>2, <2>1 DEF OthersKept, TypeOK
  <2>4. StatusOK(r)'
    BY <1>2, <1>3, <1>4, <2>1, <2>2 DEF StatusOK, Labels
  <2>5. /\ c.op = "createTeam" => c \in CreateTeamCalls
        /\ c.op = "renameTeam" => c \in RenameTeamCalls
        /\ c.op = "deleteTeam" => c \in DeleteTeamCalls
        /\ c.op = "createEpic" => c \in CreateEpicCalls
        /\ c.op = "updateEpic" => c \in UpdateEpicCalls
        /\ c.op = "deleteEpic" => c \in DeleteEpicCalls
        /\ c.op = "createTicket" => c \in CreateTicketCalls
        /\ c.op = "updateTicket" => c \in UpdateTicketCalls
        /\ c.op = "deleteTicket" => c \in DeleteTicketCalls
        /\ c.op = "createComment" => c \in CreateCommentCalls
        /\ c.op \in {"createTeam", "renameTeam", "deleteTeam", "createEpic", "updateEpic",
                      "deleteEpic", "createTicket", "updateTicket", "deleteTicket", "createComment"}
    BY <1>2 DEF AllCalls, CreateTeamCalls, RenameTeamCalls, DeleteTeamCalls, CreateEpicCalls,
                UpdateEpicCalls, DeleteEpicCalls, CreateTicketCalls, UpdateTicketCalls,
                DeleteTicketCalls, CreateCommentCalls
  <2>6. TeamHandlerOK(r)'
    <3>1. pc'[r] = "insertTeam" => c.op = "createTeam"
      BY <2>2, <2>5 DEF FirstCall
    <3>2. pc'[r] = "renameTeam" => c.op = "renameTeam"
      BY <2>2, <2>5 DEF FirstCall
    <3>3. pc'[r] = "findTeam" => c.op = "deleteTeam"
      BY <2>2, <2>5 DEF FirstCall
    <3>4. pc'[r] \notin {"countDependents", "deleteTeam"}
      BY <2>2, <2>5 DEF FirstCall
    <3>. QED
      BY <1>3, <1>6, <2>5, <3>1, <3>2, <3>3, <3>4 DEF TeamHandlerOK, BlankAtOnce
  <2>7. EpicHandlerOK(r)'
    <3>1. pc'[r] = "findEpicTeam" => c.op = "createEpic"
      BY <2>2, <2>5 DEF FirstCall
    <3>2. pc'[r] = "writeEpic" => c.op = "updateEpic"
      BY <2>2, <2>5 DEF FirstCall
    <3>3. pc'[r] = "findEpic" => c.op = "deleteEpic"
      BY <2>2, <2>5 DEF FirstCall
    <3>4. pc'[r] \notin {"insertEpic", "countTickets", "deleteEpic"}
      BY <2>2, <2>5 DEF FirstCall
    <3>5. c.op = "createEpic" => Trim[c.title] # ""
      BY <1>6, <2>5, TextsAssumption, MarkersAssumption DEF CreateEpicCalls, BlankAtOnce, BlankTitle
    <3>6. c.op = "updateEpic" => ~BlankTitle(c)
      BY <1>6 DEF BlankAtOnce
    <3>. QED
      BY <1>3, <2>5, <3>1, <3>2, <3>3, <3>4, <3>5, <3>6 DEF EpicHandlerOK
  <2>8. TicketHandlerOK(r)'
    <3>1. pc'[r] = "findTicket" => c.op = "updateTicket"
      BY <2>2, <2>5 DEF FirstCall
    <3>2. pc'[r] = "checkTeam" => c.op = "createTicket"
      BY <2>2, <2>5 DEF FirstCall
    <3>3. pc'[r] = "deleteTicket" => c.op = "deleteTicket"
      BY <2>2, <2>5 DEF FirstCall
    <3>4. pc'[r] \notin {"checkEpic", "insertTicket", "writeTicket"}
      BY <2>2, <2>5 DEF FirstCall
    <3>. QED
      BY <1>3, <2>5, <3>1, <3>2, <3>3, <3>4 DEF TicketHandlerOK
  <2>9. CommentHandlerOK(r)'
    BY <1>3, <2>2, <2>5 DEF CommentHandlerOK, FirstCall
  <2>. QED
    BY <2>2, <2>3, <2>4, <2>6, <2>7, <2>8, <2>9, OneHandlerMoves DEF HandlerOK
<1>. QED
  BY <1>5, <1>6

\* A crash leaves each handler where it was or gone.
LEMMA CrashType ==
  ASSUME TypeInv, Crash
  PROVE  TypeInv'
<1>. USE DEF TypeInv, tables, locals
<1>1. TypeOK'
  BY DEF Crash, TypeOK, TablesOK
<1>2. ASSUME NEW q \in Requests PROVE HandlerOK(q)'
  <2>1. HandlerOK(q) /\ StatusOK(q)
    BY DEF HandlersOK, HandlerOK
  <2>2. CASE InFlight(q)
    <3>1. pc'[q] = "lost" /\ pc[q] # "idle" /\ pc[q] # "answered"
      BY <2>2 DEF Crash, InFlight, Labels
    <3>. QED
      BY <2>1, <3>1 DEF Crash, HandlerOK, StatusOK, TeamHandlerOK, EpicHandlerOK,
                        TicketHandlerOK, CommentHandlerOK
  <2>3. CASE ~InFlight(q)
    BY <2>1, <2>3, HandlerFrame DEF Crash
  <2>. QED
    BY <2>2, <2>3
<1>. QED
  BY <1>1, <1>2 DEF HandlersOK

\* A step that changes nothing keeps the types and what handlers know.
LEMMA StutterType ==
  ASSUME TypeInv, UNCHANGED vars
  PROVE  TypeInv'
<1>1. TypeOK'
  BY DEF TypeInv, vars, TypeOK, TablesOK
<1>2. ASSUME NEW q \in Requests PROVE HandlerOK(q)'
  BY HandlerFrame DEF TypeInv, HandlersOK, vars
<1>. QED
  BY <1>1, <1>2 DEF TypeInv, HandlersOK

\* The types hold at the start, when no handler knows anything.
LEMMA InitType ==
  ASSUME Init
  PROVE  TypeInv
<1>1. TypeOK
  BY DEF Init, TypeOK
<1>2. ASSUME NEW q \in Requests PROVE HandlerOK(q)
  BY DEF Init, HandlerOK, StatusOK, TeamHandlerOK, EpicHandlerOK, TicketHandlerOK,
         CommentHandlerOK
<1>. QED
  BY <1>1, <1>2 DEF TypeInv, HandlersOK

\* Every step keeps the types and what handlers know.
LEMMA NextType ==
  ASSUME TypeInv, [Next]_vars
  PROVE  TypeInv'
<1>1. ASSUME NEW r \in Requests, Step(r) PROVE TypeInv'
  BY <1>1, ReceiveType, TeamStepType, EpicStepType, TicketStepType, CommentStepType DEF Step
<1>. QED
  BY <1>1, CrashType, StutterType DEF Next, Finished

\* Every variable keeps its type: rows are well-formed, texts are stored
\* trimmed and not blank, and a handler only ever awaits the statements of
\* its own kind of call.
THEOREM TypeCorrect == Spec => []TypeOK
<1>1. Init => TypeInv
  BY InitType
<1>2. TypeInv /\ [Next]_vars => TypeInv'
  BY NextType
<1>3. TypeInv => TypeOK
  BY DEF TypeInv
<1>. QED
  BY <1>1, <1>2, <1>3, PTL DEF Spec

(***************************************************************************)
(* Referential integrity                                                   *)
(***************************************************************************)

\* The steps that write to a table; all others leave the tables alone.
TableWrite(r) ==
  \/ InsertTeam(r) \/ RenameTeam(r) \/ DeleteTeam(r)
  \/ InsertEpic(r) \/ WriteEpic(r) \/ DeleteEpic(r)
  \/ InsertTicket(r) \/ WriteTicket(r) \/ DeleteTicket(r)
  \/ InsertComment(r)

\* A step leaves the tables alone or is one of the writes.
LEMMA QuietOrWrite ==
  ASSUME [Next]_vars
  PROVE  UNCHANGED tables \/ \E r \in Requests : TableWrite(r)
<1>1. ASSUME NEW r \in Requests, Step(r) PROVE UNCHANGED tables \/ TableWrite(r)
  BY <1>1 DEF Step, Receive, TeamStep, EpicStep, TicketStep, CommentStep, TableWrite,
              FindTeam, CountDependents, FindEpicTeam, FindEpic, CountTickets,
              FindTicket, CheckTeam, CheckEpic, FindCommentTicket
<1>. QED
  BY <1>1 DEF Next, Crash, Finished, vars, tables

\* A row that is there is not NoRow.
LEMMA RowsExist ==
  /\ \A row \in TeamRow : row # NoRow
  /\ \A row \in EpicRow : row # NoRow
  /\ \A row \in TicketRow : row # NoRow
  /\ \A k \in TicketIds : k # NoRow
BY MarkersAssumption

\* What the handlers of the writes know, and the rows they write.
LEMMA WriteFacts ==
  ASSUME TypeInv, NEW r \in Requests
  PROVE  /\ TablesOK /\ r \in TeamIds \cap EpicIds \cap TicketIds \cap CommentIds
         /\ InsertTeam(r) => [name |-> Trim[call[r].name]] \in TeamRow
         /\ RenameTeam(r) => call[r].id \in TeamIds /\ [name |-> Trim[call[r].name]] \in TeamRow
         /\ DeleteTeam(r) => call[r].id \in TeamIds
         /\ InsertEpic(r) => call[r].teamId \in TeamIds /\ Trim[call[r].title] \in Texts
         /\ WriteEpic(r) => call[r].id \in EpicIds /\ call[r] \in UpdateEpicCalls /\ ~BlankTitle(call[r])
         /\ DeleteEpic(r) => call[r].id \in EpicIds
         /\ InsertTicket(r) => call[r] \in CreateTicketCalls /\ NewTicket(call[r]) \in TicketRow
         /\ WriteTicket(r) =>
              /\ call[r] \in UpdateTicketCalls
              /\ ~BlankTitle(call[r])
              /\ call[r].id \in TicketIds
              /\ current[r] \in TicketRow
         /\ DeleteTicket(r) => call[r].id \in TicketIds
         /\ InsertComment(r) => call[r].id \in TicketIds
<1>0. TablesOK /\ TeamHandlerOK(r) /\ EpicHandlerOK(r) /\ TicketHandlerOK(r) /\ CommentHandlerOK(r)
  BY DEF TypeInv, TypeOK, HandlersOK, HandlerOK
<1>1. r \in TeamIds \cap EpicIds \cap TicketIds \cap CommentIds
  BY DEF TeamIds, EpicIds, TicketIds, CommentIds
<1>2. InsertTeam(r) => [name |-> Trim[call[r].name]] \in TeamRow
  BY <1>0, TextsAssumption DEF InsertTeam, TeamHandlerOK, CreateTeamCalls, TeamRow
<1>3. RenameTeam(r) => call[r].id \in TeamIds /\ [name |-> Trim[call[r].name]] \in TeamRow
  BY <1>0, TextsAssumption DEF RenameTeam, TeamHandlerOK, RenameTeamCalls, TeamRow
<1>4. DeleteTeam(r) => call[r].id \in TeamIds
  BY <1>0 DEF DeleteTeam, TeamHandlerOK, DeleteTeamCalls
<1>5. InsertEpic(r) => call[r].teamId \in TeamIds /\ Trim[call[r].title] \in Texts
  BY <1>0, TextsAssumption DEF InsertEpic, EpicHandlerOK, CreateEpicCalls
<1>6. WriteEpic(r) => call[r].id \in EpicIds /\ call[r] \in UpdateEpicCalls /\ ~BlankTitle(call[r])
  BY <1>0 DEF WriteEpic, EpicHandlerOK, UpdateEpicCalls
<1>7. DeleteEpic(r) => call[r].id \in EpicIds
  BY <1>0 DEF DeleteEpic, EpicHandlerOK, DeleteEpicCalls
<1>8. InsertTicket(r) => call[r] \in CreateTicketCalls /\ NewTicket(call[r]) \in TicketRow
  BY <1>0, NewTicketType DEF InsertTicket, TicketHandlerOK
<1>9. WriteTicket(r) =>
        /\ call[r] \in UpdateTicketCalls
        /\ ~BlankTitle(call[r])
        /\ call[r].id \in TicketIds
        /\ current[r] \in TicketRow
  BY <1>0 DEF WriteTicket, TicketHandlerOK, UpdateTicketCalls
<1>10. DeleteTicket(r) => call[r].id \in TicketIds
  BY <1>0 DEF DeleteTicket, TicketHandlerOK, DeleteTicketCalls
<1>11. InsertComment(r) => call[r].id \in TicketIds
  BY <1>0 DEF InsertComment, CommentHandlerOK, CreateCommentCalls
<1>. QED
  BY <1>0, <1>1, <1>2, <1>3, <1>4, <1>5, <1>6, <1>7, <1>8, <1>9, <1>10, <1>11

\* What an UPDATE leaves in a ticket's references.
LEMMA PatchedReferences ==
  ASSUME NEW c, NEW row, NEW cols
  PROVE  /\ Patched(row, c, cols).teamId = IF "teamId" \in cols THEN c.teamId ELSE row.teamId
         /\ Patched(row, c, cols).epicId = IF "epicId" \in cols THEN c.epicId ELSE row.epicId
BY DEF Patched

\* Every step keeps the references: inserts and updates are held to the
\* foreign keys, deletes are restricted or cascade.
LEMMA ReferencesStep ==
  ASSUME TypeInv, References, [Next]_vars
  PROVE  References'
<1>. USE DEF TeamExists, EpicExists, TicketExists
<1>1. CASE UNCHANGED tables
  BY <1>1 DEF tables, References
<1>2. ASSUME NEW r \in Requests, TableWrite(r), ~UNCHANGED tables PROVE References'
  <2>. USE <1>2
  <2>0. /\ TablesOK /\ r \in TeamIds \cap EpicIds \cap TicketIds \cap CommentIds
    BY WriteFacts
  <2>1. CASE InsertTeam(r)
    <3>. DEFINE row == [name |-> Trim[call[r].name]]
    <3>1. teams' = [teams EXCEPT ![r] = row] /\ UNCHANGED <<epics, tickets, comments>>
      BY <2>1 DEF InsertTeam, PutTeam
    <3>2. row # NoRow
      BY <2>1, WriteFacts, RowsExist
    <3>. HIDE DEF row
    <3>. QED
      BY <2>0, <3>1, <3>2 DEF TablesOK, References
  <2>2. CASE RenameTeam(r)
    <3>. DEFINE id == call[r].id
                row == [name |-> Trim[call[r].name]]
    <3>1. teams' = [teams EXCEPT ![id] = row] /\ row # NoRow
      BY <2>2, WriteFacts, RowsExist DEF RenameTeam, PutTeam
    <3>. HIDE DEF row, id
    <3>. QED
      BY <2>0, <2>2, <3>1 DEF RenameTeam, PutTeam, TablesOK, References
  <2>3. CASE DeleteTeam(r)
    <3>. DEFINE id == call[r].id
    <3>1. /\ teams' = [teams EXCEPT ![id] = NoRow] /\ UNCHANGED <<epics, tickets, comments>>
          /\ ~TeamReferenced(id)
      BY <2>3 DEF DeleteTeam, PutTeam
    <3>2. /\ \A k \in TicketIds : TicketExists(k) => tickets[k].teamId # id
          /\ \A e \in EpicIds : EpicExists(e) => epics[e].teamId # id
      BY <3>1 DEF TeamReferenced, TicketsOfTeam, EpicsOfTeam
    <3>. HIDE DEF id
    <3>. QED
      BY <2>0, <3>1, <3>2 DEF TablesOK, References
  <2>4. CASE InsertEpic(r)
    <3>. DEFINE row == [teamId |-> call[r].teamId, title |-> Trim[call[r].title]]
    <3>1. epics' = [epics EXCEPT ![r] = row] /\ UNCHANGED <<teams, tickets, comments>>
          /\ TeamExists(call[r].teamId)
      BY <2>4 DEF InsertEpic, PutEpic
    <3>2. row # NoRow /\ row.teamId = call[r].teamId
      BY <2>4, WriteFacts, RowsExist DEF EpicRow
    <3>. HIDE DEF row
    <3>. QED
      BY <2>0, <3>1, <3>2 DEF TablesOK, References
  <2>5. CASE WriteEpic(r)
    <3>. DEFINE id == call[r].id
                row == EditedEpic(epics[id], call[r])
    <3>1. epics' = [epics EXCEPT ![id] = row] /\ UNCHANGED <<teams, tickets, comments>>
          /\ EpicExists(id) /\ id \in EpicIds
      BY <2>5, WriteFacts DEF WriteEpic, PutEpic
    <3>2. epics[id] \in EpicRow
      BY <2>0, <3>1 DEF TablesOK
    <3>3. row \in EpicRow /\ row.teamId = epics[id].teamId
      BY <2>5, <3>2, WriteFacts, EditedEpicType
    <3>4. row # NoRow
      BY <3>3, RowsExist
    <3>. HIDE DEF row, id
    <3>. QED
      BY <2>0, <3>1, <3>3, <3>4 DEF TablesOK, References
  <2>6. CASE DeleteEpic(r)
    <3>. DEFINE id == call[r].id
    <3>1. /\ epics' = [epics EXCEPT ![id] = NoRow] /\ UNCHANGED <<teams, tickets, comments>>
          /\ ~EpicReferenced(id)
      BY <2>6 DEF DeleteEpic, PutEpic
    <3>2. \A k \in TicketIds : TicketExists(k) => tickets[k].epicId # id
      BY <3>1 DEF EpicReferenced, TicketsOfEpic
    <3>. HIDE DEF id
    <3>. QED
      BY <2>0, <3>1, <3>2 DEF TablesOK, References
  <2>7. CASE InsertTicket(r)
    <3>. DEFINE row == NewTicket(call[r])
    <3>1. tickets' = [tickets EXCEPT ![r] = row] /\ UNCHANGED <<teams, epics, comments>>
          /\ TicketReferencesHold(row, {"teamId", "epicId"})
      BY <2>7 DEF InsertTicket, PutTicket
    <3>2. row # NoRow
      BY <2>7, WriteFacts, RowsExist
    <3>. HIDE DEF row
    <3>. QED
      BY <2>0, <3>1, <3>2 DEF TablesOK, References, TicketReferencesHold
  <2>8. CASE WriteTicket(r)
    <3>. DEFINE id == call[r].id
                cols == Dirty(call[r], current[r])
                row == Patched(tickets[id], call[r], cols)
    <3>1. tickets' = [tickets EXCEPT ![id] = row] /\ UNCHANGED <<teams, epics, comments>>
          /\ TicketExists(id) /\ TicketReferencesHold(row, cols) /\ id \in TicketIds
      BY <2>8, WriteFacts DEF WriteTicket, PutTicket
    <3>2. tickets[id] \in TicketRow
      BY <2>0, <3>1 DEF TablesOK
    <3>3. row # NoRow
      BY <2>8, <3>2, WriteFacts, PatchedType, DirtyPresent, RowsExist
    <3>4. /\ "teamId" \notin cols => row.teamId = tickets[id].teamId
          /\ "epicId" \notin cols => row.epicId = tickets[id].epicId
      BY PatchedReferences
    <3>5. TeamExists(row.teamId) /\ (row.epicId # NoEpic => EpicExists(row.epicId))
      BY <3>1, <3>4 DEF References, TicketReferencesHold
    <3>. HIDE DEF row, id, cols
    <3>. QED
      BY <2>0, <3>1, <3>3, <3>5 DEF TablesOK, References
  <2>9. CASE DeleteTicket(r)
    BY <2>0, <2>9, WriteFacts, RowsExist DEF DeleteTicket, RemoveTicket, TablesOK, References
  <2>10. CASE InsertComment(r)
    BY <2>0, <2>10, WriteFacts DEF InsertComment, PutComment, TablesOK, References
  <2>. QED
    BY <2>1, <2>2, <2>3, <2>4, <2>5, <2>6, <2>7, <2>8, <2>9, <2>10 DEF TableWrite
<1>. QED
  BY <1>1, <1>2, QuietOrWrite

\* No row ever refers to a row that is not there, whatever is deleted between
\* a handler's lookups and its write.
THEOREM ReferentialIntegrity == Spec => []References
<1>. DEFINE Inv == TypeInv /\ References
<1>1. Init => Inv
  BY InitType DEF Init
<1>2. Inv /\ [Next]_vars => Inv'
  BY NextType, ReferencesStep
<1>3. Inv => References
  OBVIOUS
<1>. QED
  BY <1>1, <1>2, <1>3, PTL DEF Spec

(***************************************************************************)
(* Team names                                                              *)
(***************************************************************************)

\* Every step keeps names apart: both writes of a name are checked by the index.
LEMMA TeamNamesStep ==
  ASSUME TypeInv, TeamNamesUnique, [Next]_vars
  PROVE  TeamNamesUnique'
<1>. USE DEF TeamExists
<1>1. CASE teams' = teams
  BY <1>1 DEF TeamNamesUnique
<1>2. ASSUME NEW r \in Requests, TableWrite(r), teams' # teams PROVE TeamNamesUnique'
  <2>. USE <1>2
  <2>0. /\ TablesOK /\ r \in TeamIds
    BY WriteFacts
  <2>1. CASE InsertTeam(r)
    <3>. DEFINE name == Trim[call[r].name]
    <3>1. teams' = [teams EXCEPT ![r] = [name |-> name]] /\ ~NameTaken(r, name)
      BY <2>1 DEF InsertTeam, PutTeam, tables
    <3>. HIDE DEF name
    <3>. QED
      BY <2>0, <3>1 DEF TablesOK, TeamNamesUnique, NameTaken
  <2>2. CASE RenameTeam(r)
    <3>. DEFINE name == Trim[call[r].name]
                id == call[r].id
    <3>1. teams' = [teams EXCEPT ![id] = [name |-> name]] /\ ~NameTaken(id, name)
      BY <2>2 DEF RenameTeam, PutTeam, tables
    <3>. HIDE DEF name, id
    <3>. QED
      BY <2>0, <3>1 DEF TablesOK, TeamNamesUnique, NameTaken
  <2>3. CASE DeleteTeam(r)
    <3>. DEFINE id == call[r].id
    <3>1. teams' = [teams EXCEPT ![id] = NoRow]
      BY <2>3 DEF DeleteTeam, PutTeam, tables
    <3>. HIDE DEF id
    <3>. QED
      BY <2>0, <3>1 DEF TablesOK, TeamNamesUnique
  <2>4. CASE ~(InsertTeam(r) \/ RenameTeam(r) \/ DeleteTeam(r))
    <3>1. teams' = teams
      BY <2>4 DEF TableWrite, InsertEpic, WriteEpic, DeleteEpic, InsertTicket, WriteTicket,
                  DeleteTicket, InsertComment, PutEpic, PutTicket, RemoveTicket, PutComment, tables
    <3>. QED
      BY <3>1
  <2>. QED
    BY <2>1, <2>2, <2>3, <2>4
<1>. QED
  BY <1>1, <1>2, QuietOrWrite DEF tables

\* Two teams never have names that differ in case only.
THEOREM TeamNames == Spec => []TeamNamesUnique
<1>. DEFINE Inv == TypeInv /\ TeamNamesUnique
<1>1. Init => Inv
  BY InitType DEF Init
<1>2. Inv /\ [Next]_vars => Inv'
  BY NextType, TeamNamesStep
<1>3. Inv => TeamNamesUnique
  OBVIOUS
<1>. QED
  BY <1>1, <1>2, <1>3, PTL DEF Spec

(***************************************************************************)
(* Ids are used once                                                       *)
(***************************************************************************)

\* A step moves one request that is not answered yet.
LEMMA StepMoves ==
  ASSUME TypeInv, NEW r \in Requests, Step(r)
  PROVE  /\ pc[r] # "answered"
         /\ \A q \in Requests \ {r} :
              pc'[q] = pc[q] /\ call'[q] = call[q] /\ current'[q] = current[q]
<1>0. TypeOK
  BY DEF TypeInv
<1>1. CASE Receive(r)
  BY <1>0, <1>1 DEF Receive, Answer, Goto, TypeOK, locals
<1>2. CASE TeamStep(r)
  BY <1>0, <1>2 DEF TeamStep, InsertTeam, RenameTeam, FindTeam, CountDependents, DeleteTeam,
                    Answer, Goto, TypeOK, locals
<1>3. CASE EpicStep(r)
  BY <1>0, <1>3 DEF EpicStep, FindEpicTeam, InsertEpic, WriteEpic, FindEpic, CountTickets,
                    DeleteEpic, Answer, Goto, TypeOK, locals
<1>4. CASE TicketStep(r)
  <2>1. ASSUME NEW row, FinishChecks(r, row)
        PROVE  \A q \in Requests \ {r} : pc'[q] = pc[q]
    BY <1>0, <2>1 DEF FinishChecks, Answer, Goto, TypeOK
  <2>2. CASE FindTicket(r)
    BY <1>0, <2>1, <2>2 DEF FindTicket, Answer, Goto, TypeOK, locals
  <2>3. CASE CheckTeam(r)
    BY <1>0, <2>1, <2>3 DEF CheckTeam, Answer, Goto, TypeOK, locals
  <2>4. CASE CheckEpic(r)
    BY <1>0, <2>1, <2>4 DEF CheckEpic, Answer, Goto, TypeOK, locals
  <2>5. CASE InsertTicket(r) \/ WriteTicket(r) \/ DeleteTicket(r)
    BY <1>0, <2>5 DEF InsertTicket, WriteTicket, DeleteTicket, Answer, TypeOK, locals
  <2>. QED
    BY <1>4, <2>2, <2>3, <2>4, <2>5 DEF TicketStep
<1>5. CASE CommentStep(r)
  BY <1>0, <1>5 DEF CommentStep, FindCommentTicket, InsertComment, Answer, Goto, TypeOK, locals
<1>. QED
  BY <1>1, <1>2, <1>3, <1>4, <1>5 DEF Step

\* A request that is answered stays so.
LEMMA AnsweredStays ==
  ASSUME TypeInv, [Next]_vars, NEW q \in Requests, pc[q] = "answered"
  PROVE  pc'[q] = "answered"
<1>1. ASSUME NEW r \in Requests, Step(r) PROVE pc'[q] = "answered"
  BY <1>1, StepMoves
<1>2. CASE Crash
  BY <1>2 DEF Crash, InFlight, Labels
<1>. QED
  BY <1>1, <1>2 DEF Next, Finished, vars

\* A write to the tables answers its request.
LEMMA WriteAnswers ==
  ASSUME TypeInv, NEW r \in Requests, TableWrite(r)
  PROVE  /\ pc[r] # "answered" /\ pc'[r] = "answered" /\ call' = call /\ current' = current
         /\ \A q \in Requests \ {r} : pc'[q] = pc[q]
BY DEF TypeInv, TypeOK, TableWrite, Answer, locals, InsertTeam, RenameTeam, DeleteTeam,
       InsertEpic, WriteEpic, DeleteEpic, InsertTicket, WriteTicket, DeleteTicket, InsertComment

\* Every step keeps requests that are not answered without rows of their own.
LEMMA InsertedOnceStep ==
  ASSUME TypeInv, InsertedOnce, [Next]_vars
  PROVE  InsertedOnce'
<1>. USE DEF TeamExists, EpicExists, TicketExists
<1>. SUFFICES ASSUME NEW q \in Requests, pc'[q] # "answered"
              PROVE  /\ teams'[q] = NoRow /\ epics'[q] = NoRow
                     /\ tickets'[q] = NoRow /\ comments'[q] = NoRow
  BY DEF InsertedOnce
<1>1. /\ teams[q] = NoRow /\ epics[q] = NoRow /\ tickets[q] = NoRow /\ comments[q] = NoRow
  BY AnsweredStays DEF InsertedOnce
<1>2. CASE UNCHANGED tables
  BY <1>1, <1>2 DEF tables
<1>3. ASSUME NEW r \in Requests, TableWrite(r)
      PROVE  /\ teams'[q] = NoRow /\ epics'[q] = NoRow
             /\ tickets'[q] = NoRow /\ comments'[q] = NoRow
  <2>0. TablesOK /\ q \in TeamIds \cap EpicIds \cap TicketIds \cap CommentIds /\ q # r
    BY <1>3, WriteFacts, WriteAnswers
  <2>1. teams'[q] = NoRow
    BY <1>1, <1>3, <2>0
       DEF TableWrite, tables, TablesOK, InsertTeam, RenameTeam, DeleteTeam, InsertEpic, WriteEpic,
           DeleteEpic, InsertTicket, WriteTicket, DeleteTicket, InsertComment,
           PutTeam, PutEpic, PutTicket, RemoveTicket, PutComment
  <2>2. epics'[q] = NoRow
    BY <1>1, <1>3, <2>0
       DEF TableWrite, tables, TablesOK, InsertTeam, RenameTeam, DeleteTeam, InsertEpic, WriteEpic,
           DeleteEpic, InsertTicket, WriteTicket, DeleteTicket, InsertComment,
           PutTeam, PutEpic, PutTicket, RemoveTicket, PutComment
  <2>3. tickets'[q] = NoRow
    BY <1>1, <1>3, <2>0
       DEF TableWrite, tables, TablesOK, InsertTeam, RenameTeam, DeleteTeam, InsertEpic, WriteEpic,
           DeleteEpic, InsertTicket, WriteTicket, DeleteTicket, InsertComment,
           PutTeam, PutEpic, PutTicket, RemoveTicket, PutComment
  <2>4. comments'[q] = NoRow
    BY <1>1, <1>3, <2>0
       DEF TableWrite, tables, TablesOK, InsertTeam, RenameTeam, DeleteTeam, InsertEpic, WriteEpic,
           DeleteEpic, InsertTicket, WriteTicket, DeleteTicket, InsertComment,
           PutTeam, PutEpic, PutTicket, RemoveTicket, PutComment
  <2>. QED
    BY <2>1, <2>2, <2>3, <2>4
<1>. QED
  BY <1>2, <1>3, QuietOrWrite

(***************************************************************************)
(* The epic a ticket is given is of its team                               *)
(***************************************************************************)

\* An epic never changes its team, and one that appears is that of the
\* request that is answered with it.
LEMMA EpicTeamFixed ==
  ASSUME TypeInv, [Next]_vars, NEW e \in EpicIds, e \in Requests => pc[e] = "answered",
         EpicExists(e)'
  PROVE  EpicExists(e) /\ epics'[e].teamId = epics[e].teamId
<1>1. CASE epics' = epics
  BY <1>1 DEF EpicExists
<1>2. ASSUME NEW r \in Requests, TableWrite(r), epics' # epics
      PROVE  EpicExists(e) /\ epics'[e].teamId = epics[e].teamId
  <2>. USE <1>2
  <2>0. TablesOK /\ r \in EpicIds /\ e # r
    BY WriteFacts, WriteAnswers
  <2>1. CASE InsertEpic(r)
    <3>. DEFINE row == [teamId |-> call[r].teamId, title |-> Trim[call[r].title]]
    <3>1. epics' = [epics EXCEPT ![r] = row]
      BY <2>1 DEF InsertEpic, PutEpic, tables
    <3>. HIDE DEF row
    <3>. QED
      BY <2>0, <3>1 DEF TablesOK, EpicExists
  <2>2. CASE WriteEpic(r)
    <3>. DEFINE id == call[r].id
                row == EditedEpic(epics[id], call[r])
    <3>1. epics' = [epics EXCEPT ![id] = row] /\ EpicExists(id) /\ id \in EpicIds
      BY <2>2, WriteFacts DEF WriteEpic, PutEpic, tables
    <3>2. row.teamId = epics[id].teamId
      BY <2>0, <2>2, <3>1, WriteFacts, EditedEpicType DEF TablesOK, EpicExists
    <3>. HIDE DEF row, id
    <3>. QED
      BY <2>0, <3>1, <3>2 DEF TablesOK, EpicExists
  <2>3. CASE DeleteEpic(r)
    <3>. DEFINE id == call[r].id
    <3>1. epics' = [epics EXCEPT ![id] = NoRow]
      BY <2>3 DEF DeleteEpic, PutEpic, tables
    <3>. HIDE DEF id
    <3>. QED
      BY <2>0, <3>1 DEF TablesOK, EpicExists
  <2>4. CASE ~(InsertEpic(r) \/ WriteEpic(r) \/ DeleteEpic(r))
    <3>1. epics' = epics
      BY <2>4 DEF TableWrite, InsertTeam, RenameTeam, DeleteTeam, InsertTicket, WriteTicket,
                  DeleteTicket, InsertComment, PutTeam, PutTicket, RemoveTicket, PutComment, tables
    <3>. QED
      BY <3>1
  <2>. QED
    BY <2>1, <2>2, <2>3, <2>4
<1>. QED
  BY <1>1, <1>2, QuietOrWrite DEF tables

AwaitsApprovedWrite(q) ==
  \/ pc[q] = "insertTicket"
  \/ pc[q] = "writeTicket" /\ TouchesReferences(call[q])

\* The epic a handler wants is an epic id.
LEMMA WantedEpicType ==
  ASSUME TypeInv, NEW q \in Requests, WantedEpic(q) # NoEpic,
         AwaitsApprovedWrite(q) \/ pc[q] \in {"checkTeam", "checkEpic"}
  PROVE  WantedEpic(q) \in EpicIds
<1>1. \/ call[q] \in CreateTicketCalls
      \/ call[q] \in UpdateTicketCalls /\ current[q] \in TicketRow
  BY DEF TypeInv, HandlersOK, HandlerOK, TicketHandlerOK, AwaitsApprovedWrite
<1>2. CASE call[q] \in CreateTicketCalls
  BY <1>2 DEF WantedEpic, CreateTicketCalls
<1>3. CASE call[q] \in UpdateTicketCalls /\ current[q] \in TicketRow
  BY <1>3 DEF WantedEpic, UpdateTicketCalls, TicketRow
<1>. QED
  BY <1>1, <1>2, <1>3

\* A handler comes to await such a write only when its own lookups approved.
LEMMA ApprovalGiven ==
  ASSUME TypeInv, InsertedOnce, NEW r \in Requests, Step(r), AwaitsApprovedWrite(r)'
  PROVE  /\ call' = call /\ current' = current
         /\ WantedEpic(r) # NoEpic =>
              /\ EpicExists(WantedEpic(r))
              /\ epics[WantedEpic(r)].teamId = WantedTeam(r)
         /\ UNCHANGED epics
<1>0. TypeOK /\ TicketHandlerOK(r)
  BY DEF TypeInv, HandlersOK, HandlerOK
<1>1. pc'[r] \in {"insertTicket", "writeTicket"}
  BY DEF AwaitsApprovedWrite
<1>2. CheckTeam(r) \/ CheckEpic(r) \/ FindTicket(r)
  <2>1. ~Receive(r)
    BY <1>0, <1>1, RouteType, CallsAssumption DEF Receive, Answer, Goto, TypeOK, FirstCall, AllCalls,
       CreateTeamCalls, RenameTeamCalls, DeleteTeamCalls, CreateEpicCalls, UpdateEpicCalls,
       DeleteEpicCalls, CreateTicketCalls, UpdateTicketCalls, DeleteTicketCalls, CreateCommentCalls
  <2>2. ~TeamStep(r)
    BY <1>0, <1>1 DEF TeamStep, InsertTeam, RenameTeam, FindTeam, CountDependents, DeleteTeam,
                      Answer, Goto, TypeOK
  <2>3. ~EpicStep(r)
    BY <1>0, <1>1 DEF EpicStep, FindEpicTeam, InsertEpic, WriteEpic, FindEpic, CountTickets,
                      DeleteEpic, Answer, Goto, TypeOK
  <2>4. ~CommentStep(r) /\ ~InsertTicket(r) /\ ~WriteTicket(r) /\ ~DeleteTicket(r)
    BY <1>0, <1>1 DEF CommentStep, FindCommentTicket, InsertComment, InsertTicket, WriteTicket,
                      DeleteTicket, Answer, Goto, TypeOK
  <2>. QED
    BY <2>1, <2>2, <2>3, <2>4 DEF Step, TicketStep
<1>3. ~FindTicket(r)
  <2>1. SUFFICES ASSUME FindTicket(r) PROVE FALSE
    OBVIOUS
  <2>2. call' = call /\ call[r] \in UpdateTicketCalls
    BY <1>0, <2>1 DEF FindTicket, TicketHandlerOK
  <2>3. CASE TouchesReferences(call[r])
    BY <1>0, <1>1, <2>1, <2>3 DEF FindTicket, Answer, Goto, TypeOK
  <2>4. CASE ~TouchesReferences(call[r])
    <3>1. pc'[r] # "insertTicket"
      BY <1>0, <2>1, <2>2, <2>4
         DEF FindTicket, FinishChecks, Answer, Goto, TypeOK, UpdateTicketCalls
    <3>. QED
      BY <2>2, <2>4, <3>1 DEF AwaitsApprovedWrite, TouchesReferences
  <2>. QED
    BY <2>3, <2>4
<1>4. CASE CheckTeam(r)
  <2>1. WantedEpic(r) = NoEpic
    BY <1>0, <1>1, <1>4 DEF CheckTeam, Answer, Goto, TypeOK
  <2>. QED
    BY <1>4, <2>1 DEF CheckTeam, locals, tables
<1>5. CASE CheckEpic(r)
  BY <1>0, <1>1, <1>5 DEF CheckEpic, Answer, TypeOK, locals, tables
<1>. QED
  BY <1>2, <1>3, <1>4, <1>5

\* Every step keeps what validateReferences has approved.
LEMMA ApprovalsStep ==
  ASSUME TypeInv, InsertedOnce, ApprovalsHold, [Next]_vars
  PROVE  ApprovalsHold'
<1>. SUFFICES ASSUME NEW q \in Requests, AwaitsApprovedWrite(q)', WantedEpic(q)' # NoEpic
              PROVE  /\ WantedEpic(q)' \in Requests => pc'[WantedEpic(q)'] = "answered"
                     /\ EpicExists(WantedEpic(q))' =>
                          epics'[WantedEpic(q)'].teamId = WantedTeam(q)'
  BY DEF ApprovalsHold, Approved, AwaitsApprovedWrite
<1>1. CASE /\ AwaitsApprovedWrite(q)
           /\ pc'[q] = pc[q] /\ call'[q] = call[q] /\ current'[q] = current[q]
  <2>1. WantedEpic(q)' = WantedEpic(q) /\ WantedTeam(q)' = WantedTeam(q)
    BY <1>1 DEF WantedEpic, WantedTeam
  <2>2. WantedEpic(q) \in EpicIds /\ Approved(q)
    BY <1>1, <2>1, WantedEpicType DEF ApprovalsHold, AwaitsApprovedWrite
  <2>3. WantedEpic(q) \in Requests => pc[WantedEpic(q)] = "answered"
    BY <2>1, <2>2 DEF Approved
  <2>4. WantedEpic(q) \in Requests => pc'[WantedEpic(q)] = "answered"
    BY <2>3, AnsweredStays
  <2>5. EpicExists(WantedEpic(q))' => EpicExists(WantedEpic(q)) /\
          epics'[WantedEpic(q)].teamId = epics[WantedEpic(q)].teamId
    BY <2>2, <2>3, EpicTeamFixed, <1>1, <2>1 DEF EpicExists
  <2>. QED
    BY <2>1, <2>2, <2>4, <2>5 DEF Approved, EpicExists
<1>2. CASE Step(q)
  <2>1. /\ call' = call /\ current' = current /\ UNCHANGED epics
        /\ WantedEpic(q) # NoEpic =>
              /\ EpicExists(WantedEpic(q))
              /\ epics[WantedEpic(q)].teamId = WantedTeam(q)
    BY <1>2, ApprovalGiven
  <2>2. WantedEpic(q)' = WantedEpic(q) /\ WantedTeam(q)' = WantedTeam(q)
    BY <2>1 DEF WantedEpic, WantedTeam
  <2>3. WantedEpic(q) \in Requests => pc[WantedEpic(q)] = "answered"
    BY <2>1, <2>2 DEF InsertedOnce
  <2>4. WantedEpic(q) \in Requests => pc'[WantedEpic(q)] = "answered"
    BY <2>3, AnsweredStays
  <2>. QED
    BY <2>1, <2>2, <2>4
<1>3. ASSUME NEW r \in Requests, Step(r), r # q
      PROVE  pc'[q] = pc[q] /\ call'[q] = call[q] /\ current'[q] = current[q]
  BY <1>3, StepMoves
<1>4. CASE Crash \/ UNCHANGED vars
  <2>1. pc'[q] # "lost"
    BY DEF AwaitsApprovedWrite
  <2>2. pc'[q] = pc[q] /\ call' = call /\ current' = current
    BY <1>4, <2>1 DEF Crash, vars, locals
  <2>3. AwaitsApprovedWrite(q)
    BY <2>2 DEF AwaitsApprovedWrite, TouchesReferences
  <2>. QED
    BY <1>1, <2>2, <2>3
<1>5. ASSUME NEW r \in Requests, Step(r), r # q
      PROVE  AwaitsApprovedWrite(q)
  BY <1>3, <1>5 DEF AwaitsApprovedWrite, TouchesReferences
<1>. QED
  BY <1>1, <1>2, <1>3, <1>4, <1>5 DEF Next, Finished

\* The inductive invariant holds at the start.
LEMMA IInvInit == Init => IInv
<1>1. Init => TypeInv
  BY InitType
<1>2. Init => InsertedOnce /\ ApprovalsHold
  BY DEF Init, InsertedOnce, ApprovalsHold
<1>. QED
  BY <1>1, <1>2 DEF Init, TypeInv, IInv

\* Every step keeps the inductive invariant.
LEMMA IInvNext == IInv /\ [Next]_vars => IInv'
BY NextType, ReferencesStep, TeamNamesStep, InsertedOnceStep, ApprovalsStep DEF IInv, TypeInv

\* The inductive invariant holds.
THEOREM InductiveInvariant == Spec => []IInv
BY IInvInit, IInvNext, PTL DEF Spec

\* A step that inserts a ticket inserts it with an epic of its team.
LEMMA InsertStep ==
  ASSUME IInv, [Next]_vars, NEW k \in TicketIds, ~TicketExists(k), TicketExists(k)'
  PROVE  EpicMatchesTeam(k)'
<1>0. TypeInv /\ TablesOK
  BY DEF IInv, TypeInv, TypeOK
<1>1. PICK r \in Requests : TableWrite(r) /\ tickets' # tickets
  BY <1>0, QuietOrWrite DEF tables, TicketExists
<1>2. ~WriteTicket(r)
  <2>1. SUFFICES ASSUME WriteTicket(r) PROVE FALSE
    OBVIOUS
  <2>2. PICK row : tickets' = [tickets EXCEPT ![call[r].id] = row] /\ TicketExists(call[r].id)
    BY <1>1, <2>1 DEF WriteTicket, PutTicket, tables
  <2>. QED
    BY <1>0, <2>2 DEF TicketExists, TablesOK
<1>3. ~DeleteTicket(r)
  BY <1>0 DEF DeleteTicket, RemoveTicket, TicketExists, TablesOK, tables
<1>4. InsertTicket(r)
  BY <1>1, <1>2, <1>3 DEF TableWrite, InsertTeam, RenameTeam, DeleteTeam, InsertEpic, WriteEpic,
     DeleteEpic, InsertComment, PutTeam, PutEpic, PutComment, tables
<1>. DEFINE row == NewTicket(call[r])
<1>5. /\ tickets' = [tickets EXCEPT ![r] = row] /\ epics' = epics
      /\ TicketReferencesHold(row, {"teamId", "epicId"})
  BY <1>1, <1>4 DEF InsertTicket, PutTicket, tables
<1>6. row.teamId = WantedTeam(r) /\ row.epicId = WantedEpic(r)
  <2>1. call[r] \in CreateTicketCalls
    BY <1>0, <1>4, WriteFacts
  <2>. QED
    BY <2>1 DEF NewTicket, WantedTeam, WantedEpic, CreateTicketCalls
<1>7. Approved(r)
  BY <1>4 DEF InsertTicket, IInv, ApprovalsHold
<1>8. row.epicId # NoEpic => EpicExists(row.epicId)
  BY <1>5 DEF TicketReferencesHold
<1>. HIDE DEF row
<1>9. k = r /\ tickets'[k] = row
  BY <1>0, <1>5 DEF TablesOK, TicketExists
<1>. QED
  BY <1>5, <1>6, <1>7, <1>8, <1>9 DEF EpicMatchesTeam, Approved

\* A ticket is never inserted with an epic of another team, whatever happens
\* to teams and epics between createTicket's lookups and its insert.
THEOREM InsertedTickets == Spec => InsertedTicketInTeam
<1>1. IInv /\ [Next]_vars =>
        [\A k \in TicketIds : ~TicketExists(k) /\ TicketExists(k)' => EpicMatchesTeam(k)']_vars
  BY InsertStep
<1>. QED
  BY <1>1, InductiveInvariant, PTL DEF Spec, InsertedTicketInTeam

\* A PATCH answered 200 at its write has taken the step WriteTicket.
LEMMA WritesIsWriteTicket ==
  ASSUME TypeInv, [Next]_vars, NEW r \in Requests, Writes(r)
  PROVE  WriteTicket(r)
<1>1. pc[r] = "writeTicket" /\ pc'[r] = "answered"
  BY DEF Writes
<1>2. ~Crash /\ ~UNCHANGED vars
  BY <1>1 DEF Crash, InFlight, Labels, vars
<1>3. PICK q \in Requests : Step(q)
  BY <1>2 DEF Next, Finished
<1>4. q = r
  BY <1>1, <1>3, StepMoves
<1>. QED
  BY <1>1, <1>3, <1>4
     DEF Step, Receive, TeamStep, InsertTeam, RenameTeam, FindTeam, CountDependents, DeleteTeam,
         EpicStep, FindEpicTeam, InsertEpic, WriteEpic, FindEpic, CountTickets, DeleteEpic,
         TicketStep, FindTicket, CheckTeam, CheckEpic, InsertTicket, DeleteTicket,
         CommentStep, FindCommentTicket, InsertComment

\* What a PATCH that is answered 200 by its write did to the tables.
LEMMA WriteEffect ==
  ASSUME TypeInv, [Next]_vars, NEW r \in Requests, Writes(r)
  PROVE  LET id == call[r].id
             cols == Dirty(call[r], current[r])
             row == Patched(tickets[id], call[r], cols) IN
         /\ id \in TicketIds /\ TicketExists(id) /\ TicketReferencesHold(row, cols)
         /\ tickets' = [tickets EXCEPT ![id] = row] /\ tickets'[id] = row /\ epics' = epics
         /\ call[r] \in UpdateTicketCalls /\ current[r] \in TicketRow
<1>1. WriteTicket(r) /\ reply'[r] = "200"
  BY WritesIsWriteTicket DEF Writes
<1>2. TypeOK /\ TablesOK
  BY DEF TypeInv, TypeOK
<1>3. /\ TicketExists(call[r].id)
      /\ TicketReferencesHold(Patched(tickets[call[r].id], call[r], Dirty(call[r], current[r])),
                              Dirty(call[r], current[r]))
      /\ PutTicket(call[r].id, Patched(tickets[call[r].id], call[r], Dirty(call[r], current[r])))
  BY <1>1, <1>2 DEF WriteTicket, Answer, TypeOK
<1>. QED
  BY <1>1, <1>2, <1>3, WriteFacts DEF PutTicket, TablesOK

\* A step that writes an edit whose copy is current keeps the epic in the team.
LEMMA FreshEditStep ==
  ASSUME IInv, [Next]_vars, NEW r \in Requests, Writes(r),
         current[r].teamId = tickets[call[r].id].teamId,
         current[r].epicId = tickets[call[r].id].epicId,
         EpicMatchesTeam(call[r].id)
  PROVE  EpicMatchesTeam(call[r].id)'
<1>. DEFINE c == call[r]
            id == call[r].id
            old == tickets[id]
            cols == Dirty(c, current[r])
            row == Patched(old, c, cols)
<1>0. TypeInv
  BY DEF IInv, TypeInv
<1>1. /\ id \in TicketIds /\ TicketExists(id) /\ TicketReferencesHold(row, cols)
      /\ tickets'[id] = row /\ epics' = epics /\ c \in UpdateTicketCalls
  BY <1>0, WriteEffect
<1>2. call'[r] = c
  BY <1>0, WritesIsWriteTicket DEF WriteTicket
<1>3. SUFFICES row.epicId # NoEpic => epics[row.epicId].teamId = row.teamId
  BY <1>1, <1>2 DEF EpicMatchesTeam
<1>4. /\ row.teamId = IF "teamId" \in cols THEN c.teamId ELSE old.teamId
      /\ row.epicId = IF "epicId" \in cols THEN c.epicId ELSE old.epicId
  BY PatchedReferences
<1>5. /\ "teamId" \in cols <=> c.teamId # Absent /\ c.teamId # old.teamId
      /\ "epicId" \in cols <=> c.epicId # Absent /\ c.epicId # old.epicId
  BY DEF Dirty, Requested, Fields
<1>6. CASE ~TouchesReferences(c)
  <2>1. row.teamId = old.teamId /\ row.epicId = old.epicId
    BY <1>4, <1>5, <1>6 DEF TouchesReferences
  <2>. QED
    BY <2>1 DEF EpicMatchesTeam
<1>7. CASE TouchesReferences(c)
  <2>1. row.teamId = WantedTeam(r) /\ row.epicId = WantedEpic(r)
    BY <1>1, <1>4, <1>5 DEF WantedTeam, WantedEpic, UpdateTicketCalls
  <2>2. Approved(r)
    BY <1>7 DEF Writes, IInv, ApprovalsHold
  <2>3. row.epicId # NoEpic => EpicExists(row.epicId)
    <3>1. CASE "epicId" \in cols
      BY <1>1, <3>1 DEF TicketReferencesHold
    <3>2. CASE "epicId" \notin cols
      BY <1>1, <1>4, <3>2 DEF IInv, References
    <3>. QED
      BY <3>1, <3>2
  <2>. QED
    BY <2>1, <2>2, <2>3 DEF Approved
<1>. QED
  BY <1>6, <1>7

\* An edit whose copy of the references is current keeps the ticket in an epic
\* of its team, whatever is created, renamed or deleted at the same time.
THEOREM FreshEdits == Spec => FreshEditKeepsEpicInTeam
<1>. DEFINE A ==
       \A r \in Requests :
         LET id == call[r].id IN
         /\ Writes(r)
         /\ current[r].teamId = tickets[id].teamId
         /\ current[r].epicId = tickets[id].epicId
         /\ EpicMatchesTeam(id)
         => EpicMatchesTeam(id)'
<1>1. IInv /\ [Next]_vars => [A]_vars
  BY FreshEditStep
<1>. QED
  BY <1>1, InductiveInvariant, PTL DEF Spec, FreshEditKeepsEpicInTeam

(***************************************************************************)
(* Replies                                                                 *)
(***************************************************************************)

\* A code that may answer a call of this kind.
MayReply(op, code) ==
  \/ Status(code) \in Declared[op]
  \/ code = "INTERNAL" /\ op \in {"createTicket", "updateTicket", "createComment"}

\* The statuses of the codes.
LEMMA Statuses ==
  /\ \A code \in {"200", "201", "204"} : Status(code) = code
  /\ \A code \in {"VALIDATION_ERROR", "COMMENT_BODY_REQUIRED", "EPIC_TEAM_MISMATCH"} : Status(code) = "400"
  /\ \A code \in {"TEAM_NOT_FOUND", "EPIC_NOT_FOUND", "TICKET_NOT_FOUND"} : Status(code) = "404"
  /\ \A code \in {"TEAM_NAME_TAKEN", "TEAM_HAS_DEPENDENTS", "EPIC_REFERENCED"} : Status(code) = "409"
BY DEF Status

\* What the handlers of teams may reply.
LEMMA TeamReplies ==
  /\ \A code \in {"201", "VALIDATION_ERROR", "TEAM_NAME_TAKEN"} : MayReply("createTeam", code)
  /\ \A code \in {"200", "VALIDATION_ERROR", "TEAM_NOT_FOUND", "TEAM_NAME_TAKEN"} : MayReply("renameTeam", code)
  /\ \A code \in {"204", "TEAM_NOT_FOUND", "TEAM_HAS_DEPENDENTS"} : MayReply("deleteTeam", code)
BY Statuses DEF MayReply, Declared, CreateTeamReplies, RenameTeamReplies, DeleteTeamReplies

\* What the handlers of epics may reply.
LEMMA EpicReplies ==
  /\ \A code \in {"201", "VALIDATION_ERROR", "TEAM_NOT_FOUND"} : MayReply("createEpic", code)
  /\ \A code \in {"200", "VALIDATION_ERROR", "EPIC_NOT_FOUND"} : MayReply("updateEpic", code)
  /\ \A code \in {"204", "EPIC_NOT_FOUND", "EPIC_REFERENCED"} : MayReply("deleteEpic", code)
BY Statuses DEF MayReply, Declared, CreateEpicReplies, UpdateEpicReplies, DeleteEpicReplies

\* What the handlers of tickets and comments may reply.
LEMMA TicketReplies ==
  /\ \A code \in {"201", "VALIDATION_ERROR", "TEAM_NOT_FOUND", "EPIC_NOT_FOUND", "EPIC_TEAM_MISMATCH", "INTERNAL"} :
       MayReply("createTicket", code)
  /\ \A code \in {"200", "VALIDATION_ERROR", "TEAM_NOT_FOUND", "EPIC_NOT_FOUND", "EPIC_TEAM_MISMATCH",
                   "TICKET_NOT_FOUND", "INTERNAL"} :
       MayReply("updateTicket", code)
  /\ \A code \in {"204", "TICKET_NOT_FOUND"} : MayReply("deleteTicket", code)
  /\ \A code \in {"201", "COMMENT_BODY_REQUIRED", "TICKET_NOT_FOUND", "INTERNAL"} : MayReply("createComment", code)
BY Statuses DEF MayReply, Declared, CreateTicketReplies, UpdateTicketReplies, DeleteTicketReplies,
                CreateCommentReplies

\* A step of request r that gives a reply it may give, or none.
Replies(r) ==
  /\ call' = call
  /\ UNCHANGED reply \/ \E code : Answer(r, code) /\ MayReply(call[r].op, code)

\* Such a step keeps every reply declared.
LEMMA RepliesKept ==
  ASSUME TypeOK, RepliesAreDeclared, NEW r \in Requests, Replies(r)
  PROVE  RepliesAreDeclared'
BY DEF TypeOK, RepliesAreDeclared, Replies, Answer, MayReply

\* The kind of call a handler has, while it awaits a statement.
LEMMA OpOf ==
  ASSUME HandlersOK, NEW r \in Requests
  PROVE  /\ pc[r] = "insertTeam" => call[r].op = "createTeam"
         /\ pc[r] = "renameTeam" => call[r].op = "renameTeam"
         /\ pc[r] \in {"findTeam", "countDependents", "deleteTeam"} => call[r].op = "deleteTeam"
         /\ pc[r] \in {"findEpicTeam", "insertEpic"} => call[r].op = "createEpic"
         /\ pc[r] = "writeEpic" => call[r].op = "updateEpic"
         /\ pc[r] \in {"findEpic", "countTickets", "deleteEpic"} => call[r].op = "deleteEpic"
         /\ pc[r] \in {"findTicket", "writeTicket"} => call[r].op = "updateTicket"
         /\ pc[r] \in {"checkTeam", "checkEpic"} => call[r].op \in {"createTicket", "updateTicket"}
         /\ pc[r] = "insertTicket" => call[r].op = "createTicket"
         /\ pc[r] = "deleteTicket" => call[r].op = "deleteTicket"
         /\ pc[r] \in {"findCommentTicket", "insertComment"} => call[r].op = "createComment"
<1>1. HandlerOK(r)
  BY DEF HandlersOK
<1>. QED
  BY <1>1 DEF HandlerOK, TeamHandlerOK, EpicHandlerOK, TicketHandlerOK, CommentHandlerOK,
     CreateTeamCalls, RenameTeamCalls, DeleteTeamCalls, CreateEpicCalls, UpdateEpicCalls,
     DeleteEpicCalls, CreateTicketCalls, UpdateTicketCalls, DeleteTicketCalls, CreateCommentCalls

\* Each handler gives only replies it may give.
LEMMA HandlersReply ==
  ASSUME HandlersOK, NEW r \in Requests,
         TeamStep(r) \/ EpicStep(r) \/ TicketStep(r) \/ CommentStep(r)
  PROVE  Replies(r)
<1>1. CASE TeamStep(r)
  <2>1. CASE InsertTeam(r) \/ RenameTeam(r)
    BY <2>1, OpOf, TeamReplies DEF InsertTeam, RenameTeam, Replies
  <2>2. CASE FindTeam(r) \/ DeleteTeam(r)
    BY <2>2, OpOf, TeamReplies DEF FindTeam, DeleteTeam, Replies, Goto
  <2>3. ASSUME NEW table \in {"tickets", "epics"}, CountDependents(r, table) PROVE Replies(r)
    BY <2>3, OpOf, TeamReplies DEF CountDependents, Replies, Goto
  <2>. QED
    BY <1>1, <2>1, <2>2, <2>3 DEF TeamStep
<1>2. CASE EpicStep(r)
  <2>1. CASE FindEpicTeam(r) \/ InsertEpic(r) \/ WriteEpic(r)
    BY <2>1, OpOf, EpicReplies DEF FindEpicTeam, InsertEpic, WriteEpic, Replies, Goto
  <2>2. CASE FindEpic(r) \/ CountTickets(r) \/ DeleteEpic(r)
    BY <2>2, OpOf, EpicReplies DEF FindEpic, CountTickets, DeleteEpic, Replies, Goto
  <2>. QED
    BY <1>2, <2>1, <2>2 DEF EpicStep
<1>3. CASE TicketStep(r)
  <2>1. CASE FindTicket(r)
    BY <1>3, <2>1, OpOf, TicketReplies DEF FindTicket, FinishChecks, Replies, Goto
  <2>2. CASE CheckTeam(r) \/ CheckEpic(r)
    BY <2>2, OpOf, TicketReplies DEF CheckTeam, CheckEpic, FinishChecks, Replies, Goto
  <2>3. CASE InsertTicket(r) \/ WriteTicket(r) \/ DeleteTicket(r)
    BY <2>3, OpOf, TicketReplies DEF InsertTicket, WriteTicket, DeleteTicket, Replies
  <2>. QED
    BY <1>3, <2>1, <2>2, <2>3 DEF TicketStep
<1>4. CASE CommentStep(r)
  BY <1>4, OpOf, TicketReplies DEF CommentStep, FindCommentTicket, InsertComment, Replies, Goto
<1>. QED
  BY <1>1, <1>2, <1>3, <1>4

\* A blank text is answered at once, with a code its operation declares.
LEMMA ReceiveReplies ==
  ASSUME TypeInv, RepliesAreDeclared, NEW r \in Requests, Receive(r)
  PROVE  RepliesAreDeclared'
<1>1. PICK c \in Calls :
        /\ call' = [call EXCEPT ![r] = c]
        /\ IF BlankAtOnce(c) THEN Answer(r, BlankCode(c)) ELSE Goto(r, FirstCall[c.op])
  BY DEF Receive
<1>2. TypeOK /\ reply[r] = "none"
  BY DEF Receive, TypeInv, HandlersOK, HandlerOK, StatusOK
<1>3. CASE BlankAtOnce(c)
  <2>1. MayReply(c.op, BlankCode(c))
    BY <1>3, TeamReplies, EpicReplies, TicketReplies DEF BlankAtOnce, BlankCode
  <2>. QED
    BY <1>1, <1>2, <1>3, <2>1 DEF TypeOK, RepliesAreDeclared, Answer, MayReply
<1>4. CASE ~BlankAtOnce(c)
  BY <1>1, <1>2, <1>4 DEF TypeOK, RepliesAreDeclared, Goto
<1>. QED
  BY <1>3, <1>4

\* No race makes a handler reply with a status that the contract does not
\* declare, but for the writes of tickets and comments whose parent vanishes
\* (the catch blocks of the handlers, core/errors.ts).
THEOREM DeclaredReplies == Spec => []RepliesAreDeclared
<1>1. Init => RepliesAreDeclared
  BY DEF Init, RepliesAreDeclared
<1>2. TypeInv /\ RepliesAreDeclared /\ [Next]_vars => RepliesAreDeclared'
  <2>1. SUFFICES ASSUME TypeInv, RepliesAreDeclared, [Next]_vars PROVE RepliesAreDeclared'
    OBVIOUS
  <2>2. ASSUME NEW r \in Requests, Step(r) PROVE RepliesAreDeclared'
    BY <2>1, <2>2, ReceiveReplies, HandlersReply, RepliesKept DEF Step, TypeInv
  <2>3. CASE Crash \/ Finished \/ UNCHANGED vars
    BY <2>1, <2>3 DEF Crash, Finished, vars, RepliesAreDeclared
  <2>. QED
    BY <2>1, <2>2, <2>3 DEF Next
<1>3. IInv => TypeInv
  BY DEF IInv, TypeInv
<1>. QED
  BY <1>1, <1>2, <1>3, InductiveInvariant, PTL DEF Spec

(***************************************************************************)
(* Deletes are final                                                       *)
(***************************************************************************)

\* No request can still insert a row under this id.
UsedUp(id) == id \in Requests => pc[id] = "answered"

\* What an answered delete has left behind.
DeletesFinal ==
  \A r \in Requests : reply[r] = "204" =>
    LET id == call[r].id IN
    /\ call[r].op = "deleteTeam" => id \in TeamIds /\ UsedUp(id) /\ ~TeamExists(id)
    /\ call[r].op = "deleteEpic" => id \in EpicIds /\ UsedUp(id) /\ ~EpicExists(id)
    /\ call[r].op = "deleteTicket" => id \in TicketIds /\ UsedUp(id) /\ ~TicketExists(id)

\* An id that is used up stays so.
LEMMA UsedUpStays ==
  ASSUME TypeInv, [Next]_vars, NEW id, UsedUp(id)
  PROVE  UsedUp(id)'
BY AnsweredStays DEF UsedUp

\* A team whose id is used up does not come back.
LEMMA NoTeamReturns ==
  ASSUME TypeInv, [Next]_vars, NEW t \in TeamIds, UsedUp(t), ~TeamExists(t)
  PROVE  ~TeamExists(t)'
<1>1. ASSUME NEW r \in Requests, TableWrite(r) PROVE teams'[t] = teams[t] \/ teams'[t] = NoRow
  <2>0. TablesOK /\ r # t
    BY <1>1, WriteFacts, WriteAnswers DEF UsedUp
  <2>. QED
    BY <1>1, <2>0
       DEF TableWrite, tables, TablesOK, TeamExists, InsertTeam, RenameTeam, DeleteTeam, InsertEpic,
           WriteEpic, DeleteEpic, InsertTicket, WriteTicket, DeleteTicket, InsertComment,
           PutTeam, PutEpic, PutTicket, RemoveTicket, PutComment
<1>. QED
  BY <1>1, QuietOrWrite DEF TeamExists, tables

\* Nor does a ticket.
LEMMA NoTicketReturns ==
  ASSUME TypeInv, [Next]_vars, NEW k \in TicketIds, UsedUp(k), ~TicketExists(k)
  PROVE  ~TicketExists(k)'
<1>1. ASSUME NEW r \in Requests, TableWrite(r) PROVE tickets'[k] = tickets[k] \/ tickets'[k] = NoRow
  <2>0. TablesOK /\ r # k
    BY <1>1, WriteFacts, WriteAnswers DEF UsedUp
  <2>. QED
    BY <1>1, <2>0
       DEF TableWrite, tables, TablesOK, TicketExists, InsertTeam, RenameTeam, DeleteTeam, InsertEpic,
           WriteEpic, DeleteEpic, InsertTicket, WriteTicket, DeleteTicket, InsertComment,
           PutTeam, PutEpic, PutTicket, RemoveTicket, PutComment
<1>. QED
  BY <1>1, QuietOrWrite DEF TicketExists, tables

\* A step that replies 204 deletes the row it was asked to.
Deletes(r) ==
  LET id == call[r].id IN
  /\ call' = call
  /\ \/ call[r].op = "deleteTeam" /\ id \in TeamIds /\ TeamExists(id) /\ ~TeamExists(id)'
     \/ call[r].op = "deleteEpic" /\ id \in EpicIds /\ EpicExists(id) /\ ~EpicExists(id)'
     \/ call[r].op = "deleteTicket" /\ id \in TicketIds /\ TicketExists(id) /\ ~TicketExists(id)'

\* The only replies of 204 are those of the deletes.
LEMMA NoContentIsDelete ==
  ASSUME TypeInv, NEW r \in Requests, Step(r), reply'[r] = "204"
  PROVE  Deletes(r)
<1>0. TypeOK /\ TablesOK /\ reply[r] = "none"
  BY StepMoves DEF TypeInv, TypeOK, HandlersOK, HandlerOK, StatusOK
<1>1. ~Receive(r)
  <2>1. SUFFICES ASSUME Receive(r) PROVE FALSE
    OBVIOUS
  <2>. QED
    BY <1>0, <2>1 DEF Receive, Answer, Goto, BlankCode, TypeOK
<1>2. CASE TeamStep(r)
  <2>1. DeleteTeam(r)
    BY <1>0, <1>2 DEF TeamStep, InsertTeam, RenameTeam, FindTeam, CountDependents, Answer, Goto, TypeOK
  <2>. QED
    BY <1>0, <2>1, OpOf, WriteFacts
       DEF DeleteTeam, Answer, PutTeam, Deletes, TypeInv, TypeOK, TablesOK, TeamExists
<1>3. CASE EpicStep(r)
  <2>1. DeleteEpic(r)
    BY <1>0, <1>3 DEF EpicStep, FindEpicTeam, InsertEpic, WriteEpic, FindEpic, CountTickets,
                      Answer, Goto, TypeOK
  <2>. QED
    BY <1>0, <2>1, OpOf, WriteFacts
       DEF DeleteEpic, Answer, PutEpic, Deletes, TypeInv, TypeOK, TablesOK, EpicExists
<1>4. CASE TicketStep(r)
  <2>1. DeleteTicket(r)
    BY <1>0, <1>4 DEF TicketStep, FindTicket, CheckTeam, CheckEpic, FinishChecks, InsertTicket,
                      WriteTicket, Answer, Goto, TypeOK
  <2>. QED
    BY <1>0, <2>1, OpOf, WriteFacts
       DEF DeleteTicket, Answer, RemoveTicket, Deletes, TypeInv, TypeOK, TablesOK, TicketExists
<1>5. ~CommentStep(r)
  BY <1>0 DEF CommentStep, FindCommentTicket, InsertComment, Answer, Goto, TypeOK
<1>. QED
  BY <1>1, <1>2, <1>3, <1>4, <1>5 DEF Step

\* A reply of 204 in the next state is one that was given, or is given now.
LEMMA OldOrNewDelete ==
  ASSUME TypeInv, [Next]_vars, NEW q \in Requests, reply'[q] = "204"
  PROVE  \/ reply[q] = "204" /\ call'[q] = call[q]
         \/ Deletes(q)
<1>1. ASSUME NEW r \in Requests, Step(r), q # r PROVE reply'[q] = reply[q] /\ call'[q] = call[q]
  <2>1. call'[q] = call[q]
    BY <1>1, StepMoves
  <2>2. CASE Receive(r)
    BY <1>1, <2>2 DEF Receive, Answer, Goto, TypeInv, TypeOK
  <2>3. CASE Replies(r)
    BY <1>1, <2>3 DEF Replies, Answer, TypeInv, TypeOK
  <2>. QED
    BY <1>1, <2>1, <2>2, <2>3, HandlersReply DEF Step, TypeInv
<1>2. CASE Crash \/ Finished \/ UNCHANGED vars
  BY <1>2 DEF Crash, Finished, vars
<1>. QED
  BY <1>1, <1>2, NoContentIsDelete DEF Next

\* Every step keeps deletes final.
LEMMA DeletesFinalStep ==
  ASSUME IInv, DeletesFinal, [Next]_vars
  PROVE  DeletesFinal'
<1>0. TypeInv /\ TypeInv'
  BY NextType DEF IInv, TypeInv
<1>1. SUFFICES ASSUME NEW q \in Requests, reply'[q] = "204", NEW id, id = call'[q].id
               PROVE  /\ call'[q].op = "deleteTeam" => id \in TeamIds /\ UsedUp(id)' /\ ~TeamExists(id)'
                      /\ call'[q].op = "deleteEpic" => id \in EpicIds /\ UsedUp(id)' /\ ~EpicExists(id)'
                      /\ call'[q].op = "deleteTicket" => id \in TicketIds /\ UsedUp(id)' /\ ~TicketExists(id)'
  BY DEF DeletesFinal, UsedUp, TeamExists, EpicExists, TicketExists
<1>2. CASE reply[q] = "204" /\ call'[q] = call[q]
  <2>1. /\ call[q].op = "deleteTeam" => id \in TeamIds /\ UsedUp(id) /\ ~TeamExists(id)
        /\ call[q].op = "deleteEpic" => id \in EpicIds /\ UsedUp(id) /\ ~EpicExists(id)
        /\ call[q].op = "deleteTicket" => id \in TicketIds /\ UsedUp(id) /\ ~TicketExists(id)
    BY <1>1, <1>2 DEF DeletesFinal
  <2>2. call[q].op = "deleteTeam" => UsedUp(id)' /\ ~TeamExists(id)'
    BY <1>0, <2>1, UsedUpStays, NoTeamReturns
  <2>3. call[q].op = "deleteEpic" => UsedUp(id)' /\ ~EpicExists(id)'
    BY <1>0, <2>1, UsedUpStays, EpicTeamFixed DEF UsedUp
  <2>4. call[q].op = "deleteTicket" => UsedUp(id)' /\ ~TicketExists(id)'
    BY <1>0, <2>1, UsedUpStays, NoTicketReturns
  <2>. QED
    BY <1>2, <2>1, <2>2, <2>3, <2>4
<1>3. CASE Deletes(q)
  <2>1. call' = call /\ id = call[q].id
    BY <1>1, <1>3 DEF Deletes
  <2>2. UsedUp(id)
    BY <1>3, <2>1 DEF Deletes, IInv, InsertedOnce, UsedUp
  <2>3. UsedUp(id)'
    BY <1>0, <2>2, UsedUpStays
  <2>. QED
    BY <1>3, <2>1, <2>3 DEF Deletes, TeamExists, EpicExists, TicketExists
<1>. QED
  BY <1>0, <1>1, <1>2, <1>3, OldOrNewDelete

\* Nothing refers to a row that is not there.
LEMMA FinalIsUnreferenced ==
  ASSUME TypeOK, References, DeletesFinal
  PROVE  DeletedStaysDeleted
<1>1. ASSUME NEW t \in TeamIds, ~TeamExists(t) PROVE ~TeamReferenced(t)
  BY <1>1 DEF References, TeamReferenced, TicketsOfTeam, EpicsOfTeam
<1>2. ASSUME NEW e \in EpicIds, ~EpicExists(e) PROVE ~EpicReferenced(e)
  BY <1>2, MarkersAssumption DEF References, EpicReferenced, TicketsOfEpic
<1>3. ASSUME NEW k \in TicketIds, ~TicketExists(k) PROVE \A c \in CommentIds : comments[c] # k
  BY <1>3, RowsExist DEF References
<1>. QED
  BY <1>1, <1>2, <1>3 DEF DeletesFinal, DeletedStaysDeleted

\* A delete answered 204 is final: its row never comes back and nothing
\* refers to it, for any number of requests that checked it before it went
\* (deleteTeam, deleteEpic, deleteTicket).
THEOREM FinalDeletes == Spec => []DeletedStaysDeleted
<1>1. Init => DeletesFinal
  BY DEF Init, DeletesFinal
<1>2. IInv /\ DeletesFinal /\ [Next]_vars => DeletesFinal'
  BY DeletesFinalStep
<1>3. IInv /\ DeletesFinal => DeletedStaysDeleted
  BY FinalIsUnreferenced DEF IInv
<1>. QED
  BY <1>1, <1>2, <1>3, InductiveInvariant, PTL DEF Spec

(***************************************************************************)
(* Edits                                                                   *)
(***************************************************************************)

\* What an UPDATE leaves in a column.
LEMMA PatchedColumn ==
  ASSUME NEW c, NEW row, NEW cols, NEW f \in Fields
  PROVE  Patched(row, c, cols)[f] = IF f \in cols THEN Requested(c, f) ELSE row[f]
<1>1. CASE f = "teamId"  BY <1>1 DEF Patched, Requested
<1>2. CASE f = "epicId"  BY <1>2 DEF Patched, Requested
<1>3. CASE f = "state"  BY <1>3 DEF Patched, Requested
<1>4. CASE f = "title"  BY <1>4 DEF Patched, Requested
<1>. QED  BY <1>1, <1>2, <1>3, <1>4 DEF Fields

\* A step that changes a column of a ticket that stays there is the write of
\* an edit that names the column.
LEMMA ColumnStep ==
  ASSUME IInv, [Next]_vars, NEW k \in TicketIds, NEW f \in Fields,
         TicketExists(k), TicketExists(k)', tickets'[k][f] # tickets[k][f]
  PROVE  \E r \in Requests :
           /\ Writes(r)
           /\ call[r].id = k
           /\ call[r][f] # Absent
           /\ tickets'[k][f] = Requested(call[r], f)
<1>0. TypeInv /\ TypeOK /\ TablesOK /\ InsertedOnce
  BY DEF IInv, TypeInv, TypeOK
<1>1. PICK r \in Requests : TableWrite(r) /\ tickets' # tickets
  BY QuietOrWrite DEF tables
<1>2. pc[r] # "answered" /\ pc'[r] = "answered"
  BY <1>0, <1>1, WriteAnswers
<1>3. ~InsertTicket(r)
  <2>1. SUFFICES ASSUME InsertTicket(r) PROVE FALSE
    OBVIOUS
  <2>2. PICK row : tickets' = [tickets EXCEPT ![r] = row]
    BY <1>1, <2>1 DEF InsertTicket, PutTicket, tables
  <2>3. k # r
    BY <1>0, <1>2 DEF InsertedOnce
  <2>. QED
    BY <1>0, <2>2, <2>3 DEF TablesOK
<1>4. ~DeleteTicket(r)
  BY <1>0, <1>1 DEF DeleteTicket, RemoveTicket, TicketExists, TablesOK, tables
<1>5. WriteTicket(r)
  BY <1>1, <1>3, <1>4 DEF TableWrite, InsertTeam, RenameTeam, DeleteTeam, InsertEpic, WriteEpic,
     DeleteEpic, InsertComment, PutTeam, PutEpic, PutComment, tables
<1>6. Writes(r)
  BY <1>0, <1>1, <1>2, <1>5 DEF WriteTicket, Writes, Answer, TypeOK, tables
<1>. DEFINE c == call[r]
            cols == Dirty(c, current[r])
            row == Patched(tickets[c.id], c, cols)
<1>7. tickets' = [tickets EXCEPT ![c.id] = row] /\ tickets'[c.id] = row
  BY <1>0, <1>6, WriteEffect
<1>. HIDE DEF cols, row
<1>8. k = c.id
  BY <1>0, <1>7 DEF TablesOK
<1>9. row[f] = IF f \in cols THEN Requested(c, f) ELSE tickets[c.id][f]
  BY PatchedColumn DEF row
<1>10. f \in cols => c[f] # Absent
  BY DirtyPresent DEF cols
<1>. QED
  BY <1>6, <1>7, <1>8, <1>9, <1>10

\* No edit takes back a concurrent edit of other columns: each column changes
\* only by an edit that names it, and to what that edit asked for.
THEOREM EditsAreOwn == Spec => PatchWritesOnlyItsColumns
<1>1. IInv /\ [Next]_vars =>
        [\A k \in TicketIds : \A f \in Fields :
           TicketExists(k) /\ TicketExists(k)' /\ tickets'[k][f] # tickets[k][f] =>
             \E r \in Requests :
               /\ Writes(r)
               /\ call[r].id = k
               /\ call[r][f] # Absent
               /\ tickets'[k][f] = Requested(call[r], f)]_vars
  BY ColumnStep
<1>. QED
  BY <1>1, InductiveInvariant, PTL DEF Spec, PatchWritesOnlyItsColumns

\* An edit comes to its write only with something to change in its copy.
WritesAreDirty ==
  \A r \in Requests : pc[r] = "writeTicket" => Dirty(call[r], current[r]) # {}

\* The checks of an edit end in the wait for a write only if it is dirty.
LEMMA DirtyGiven ==
  ASSUME TypeInv, NEW r \in Requests, Step(r), pc'[r] = "writeTicket"
  PROVE  Dirty(call'[r], current'[r]) # {}
<1>0. TypeOK
  BY DEF TypeInv
<1>1. CheckTeam(r) \/ CheckEpic(r) \/ FindTicket(r)
  <2>1. ~Receive(r)
    BY <1>0, RouteType, CallsAssumption DEF Receive, Answer, Goto, TypeOK, FirstCall, AllCalls,
       CreateTeamCalls, RenameTeamCalls, DeleteTeamCalls, CreateEpicCalls, UpdateEpicCalls,
       DeleteEpicCalls, CreateTicketCalls, UpdateTicketCalls, DeleteTicketCalls, CreateCommentCalls
  <2>2. ~TeamStep(r)
    BY <1>0 DEF TeamStep, InsertTeam, RenameTeam, FindTeam, CountDependents, DeleteTeam,
                Answer, Goto, TypeOK
  <2>3. ~EpicStep(r)
    BY <1>0 DEF EpicStep, FindEpicTeam, InsertEpic, WriteEpic, FindEpic, CountTickets,
                DeleteEpic, Answer, Goto, TypeOK
  <2>4. ~CommentStep(r) /\ ~InsertTicket(r) /\ ~WriteTicket(r) /\ ~DeleteTicket(r)
    BY <1>0 DEF CommentStep, FindCommentTicket, InsertComment, InsertTicket, WriteTicket,
                DeleteTicket, Answer, Goto, TypeOK
  <2>. QED
    BY <2>1, <2>2, <2>3, <2>4 DEF Step, TicketStep
<1>2. ASSUME NEW row, FinishChecks(r, row) PROVE Dirty(call[r], row) # {}
  BY <1>0, <1>2 DEF FinishChecks, Answer, Goto, TypeOK
<1>3. CASE FindTicket(r)
  <2>1. /\ FinishChecks(r, tickets[call[r].id])
        /\ current'[r] = tickets[call[r].id]
        /\ call' = call
    BY <1>0, <1>3 DEF FindTicket, Answer, Goto, TypeOK
  <2>. QED
    BY <1>2, <2>1
<1>4. CASE CheckTeam(r) \/ CheckEpic(r)
  <2>1. FinishChecks(r, current[r]) /\ current' = current /\ call' = call
    BY <1>0, <1>4 DEF CheckTeam, CheckEpic, Answer, Goto, TypeOK, locals
  <2>. QED
    BY <1>2, <2>1
<1>. QED
  BY <1>1, <1>3, <1>4

\* Every step keeps the edits that await their write dirty.
LEMMA DirtyStep ==
  ASSUME TypeInv, WritesAreDirty, [Next]_vars
  PROVE  WritesAreDirty'
<1>. SUFFICES ASSUME NEW q \in Requests, pc'[q] = "writeTicket"
              PROVE  Dirty(call'[q], current'[q]) # {}
  BY DEF WritesAreDirty, Dirty, Requested
<1>1. CASE pc[q] = "writeTicket" /\ call'[q] = call[q] /\ current'[q] = current[q]
  BY <1>1 DEF WritesAreDirty
<1>2. CASE Step(q)
  BY <1>2, DirtyGiven
<1>3. ASSUME NEW r \in Requests, Step(r), r # q
      PROVE  pc[q] = "writeTicket" /\ call'[q] = call[q] /\ current'[q] = current[q]
  BY <1>3, StepMoves
<1>4. CASE Crash \/ UNCHANGED vars
  BY <1>1, <1>4 DEF Crash, vars, locals
<1>. QED
  BY <1>1, <1>2, <1>3, <1>4 DEF Next, Finished

\* An edit whose copy is current changes a column when it is written.
LEMMA RealChangeStep ==
  ASSUME TypeInv, WritesAreDirty, [Next]_vars, NEW r \in Requests,
         Writes(r), current[r] = tickets[call[r].id]
  PROVE  \E f \in Fields : tickets'[call[r].id][f] # tickets[call[r].id][f]
<1>. DEFINE c == call[r]
            cols == Dirty(c, current[r])
            row == Patched(tickets[c.id], c, cols)
<1>1. tickets'[c.id] = row
  BY WriteEffect
<1>2. PICK f : f \in cols
  BY DEF WritesAreDirty, Writes
<1>3. f \in Fields /\ Requested(c, f) # tickets[c.id][f]
  BY <1>2 DEF Dirty
<1>4. row[f] = Requested(c, f)
  BY <1>2, <1>3, PatchedColumn
<1>. QED
  BY <1>1, <1>3, <1>4

\* modifiedAt advances only with a real change, as far as an edit's copy of
\* the row is current.
THEOREM RealChanges == Spec => FreshWriteIsRealChange
<1>. DEFINE A ==
       \A r \in Requests :
         LET id == call[r].id IN
         Writes(r) /\ current[r] = tickets[id] =>
           \E f \in Fields : tickets'[id][f] # tickets[id][f]
<1>1. Init => WritesAreDirty
  BY DEF Init, WritesAreDirty
<1>2. IInv /\ WritesAreDirty /\ [Next]_vars => WritesAreDirty'
  BY DirtyStep DEF IInv, TypeInv
<1>3. IInv /\ WritesAreDirty /\ [Next]_vars => [A]_vars
  BY RealChangeStep DEF IInv, TypeInv
<1>. QED
  BY <1>1, <1>2, <1>3, InductiveInvariant, PTL DEF Spec, FreshWriteIsRealChange

=============================================================================

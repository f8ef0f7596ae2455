---------------------------- MODULE TicketPages -----------------------------
(***************************************************************************)
(* The pages of tickets in one browser (frontend/src/features/tickets,     *)
(* features/comments): the details with their comments, the form, the      *)
(* tickets and their comments in the query cache, and the mutations.       *)
(*                                                                         *)
(* Team and epic stand for the columns of a ticket: type, state, title and *)
(* body are edited and sent as the team is, and the version tells their    *)
(* values apart.  Teams and epics are fixed; Management is about them.  A  *)
(* comment is one more in a count.                                         *)
(***************************************************************************)
EXTENDS Queries

CONSTANTS
  Tickets, Teams, Epics,
  EpicTeam,     \* epic -> its team
  Calls,        \* mutations; each is sent at most once
  MaxEvents,    \* bound on navigations, choices in the form, retries, mutations
                \* sent, fetches that fail, and changes made elsewhere
  NoTicket, NoTeam, NoEpic, NoForm,
  NotYet, Gone  \* a ticket is not there yet, or has been deleted

ASSUME EpicTeamType == EpicTeam \in [Epics -> Teams] /\ NoTeam \notin Teams /\ NoEpic \notin Epics
ASSUME TicketPagesBounds == MaxEvents \in Nat /\ NoTicket \notin Tickets

VARIABLES
  ticket, comments, \* ticket -> its row and the number of its comments
  cache,
  screen,           \* "view", "edit", "new", or "away": any other page
  at,               \* the ticket of the page's URL
  orphan,           \* an entry that the page still shows although it has been
                    \* removed from the cache
  form,
  call,             \* mutation -> its state
  live,             \* mutations under way whose sender is still mounted: their
                    \* mutate() callbacks will run
  events,
  moves,            \* history: how often the user has gone to another kind of page
  doubt             \* history: keys that may show what is out of date

db == <<ticket, comments>>
place == <<screen, at, orphan>>
page == <<cache, place, form, live>>
vars == <<db, page, call, events, moves, doubt>>

Detail(t) == <<"ticket", t>>
Comments(t) == <<"comments", t>>
Keys == {"ticket", "comments"} \X Tickets

\* What a form sends, and what a row holds: two updates that overlap may
\* leave the epic of one and the team of the other.
Values == [team : Teams \cup {NoTeam}, epic : Epics \cup {NoEpic}]
Fits(v) == v.epic # NoEpic => v.team = EpicTeam[v.epic]
Rows == [id : Tickets, team : Teams, epic : Epics \cup {NoEpic}, version : Nat]
Row(t, v, n) == [id |-> t, team |-> v.team, epic |-> v.epic, version |-> n]

\* What the form holds; chosen is history: the user has chosen team or epic.
FormType == [team : Teams \cup {NoTeam}, epic : Epics \cup {NoEpic}, chosen : BOOLEAN]

ASSUME TicketMarkers == NotYet # Gone /\ NotYet \notin Rows /\ Gone \notin Rows /\ NoForm \notin FormType

Exists(t) == ticket[t] \notin {NotYet, Gone}
Answer(k) == IF k[1] = "ticket" THEN ticket[k[2]] ELSE comments[k[2]]

(***************************************************************************)
(* What is mounted                                                         *)
(***************************************************************************)

Existing == {"view", "edit"}   \* ExistingTicket, one instance for both

\* The entry that the page of ticket t goes by, when c is the cache and o the
\* orphan.
Entry(c, o, t) == IF o = NoData THEN c[Detail(t)] ELSE o
ViewShown(c, o, s, t) == s = "view" /\ Present(Entry(c, o, t))
FormShown(c, o, s, t) == s = "new" \/ (s = "edit" /\ Present(Entry(c, o, t)))

\* ticket.id, which the hooks are given: that of the data, not of the URL.
ShownId(c, o, t) == Entry(c, o, t).data.id
Shown == ShownId(cache, orphan, at)

\* useState of TicketForm
NewForm(c, o, s, t) ==
  IF s = "new" THEN [team |-> NoTeam, epic |-> NoEpic, chosen |-> FALSE]
  ELSE LET row == Entry(c, o, t).data IN [team |-> row.team, epic |-> row.epic, chosen |-> FALSE]

UnderWay == {"sent", "read", "ok", "refused", "unheard"}

\* The page of ticket t is drawn on screen s with the cache c, the orphan o
\* and the mutations calls: what appears is mounted, what disappears is lost.
\* Nothing has a key, so what appears for another ticket is what was there
\* for the last one, and its mutations under way are given the new ticket.
Draw(calls, c, o, s, t) ==
  LET same == s = screen /\ t = at
      held == IF same THEN o ELSE NoData
      c1 == IF s \in Existing /\ (screen \notin Existing \/ t # at \/ held # o) THEN Mount(c, {Detail(t)}) ELSE c
      formStays == s = screen /\ FormShown(cache, orphan, screen, at) /\ FormShown(c1, held, s, t)
      viewStays == s = screen /\ ViewShown(cache, orphan, screen, at) /\ ViewShown(c1, held, s, t)
      id == ShownId(c1, held, t)
  IN /\ screen' = s /\ at' = t
     /\ orphan' = held
     /\ cache' = IF ViewShown(c1, held, s, t) /\ ~(viewStays /\ id = Shown) THEN Mount(c1, {Comments(id)}) ELSE c1
     /\ form' = IF formStays THEN form ELSE IF FormShown(c1, held, s, t) THEN NewForm(c1, held, s, t) ELSE NoForm
     /\ live' = {d \in live : /\ calls[d].phase \in UnderWay
                              /\ IF calls[d].kind \in {"create", "update"} THEN formStays ELSE viewStays}
     /\ call' = [d \in Calls |-> IF d \in live' /\ s \in Existing THEN [calls[d] EXCEPT !.key = id] ELSE calls[d]]

\* A fetch that starts now will bring what is there.
Asking == {k \in Keys : cache'[k].fetch = "asked" /\ cache[k].fetch = "none"}

(***************************************************************************)
(* Fetches                                                                 *)
(***************************************************************************)

Count == events < MaxEvents /\ events' = events + 1

ServeFetch(k) ==
  /\ cache[k].fetch = "asked" /\ Exists(k[2])
  /\ cache' = Serve(cache, k, Answer(k))
  /\ UNCHANGED <<db, place, form, live, call, events, moves, doubt>>

EndFetch(k) ==
  /\ cache[k].fetch = "answered"
  /\ Draw(call, Arrive(cache, k), orphan, screen, at)
  /\ doubt' = doubt \ Asking
  /\ UNCHANGED <<db, events, moves>>

\* 404
NotFound(k) ==
  /\ cache[k].fetch = "asked" /\ ~Exists(k[2])
  /\ Draw(call, GiveUp(cache, k), orphan, screen, at)
  /\ UNCHANGED <<db, events, moves, doubt>>

FetchFails(k) ==
  /\ Fetching(cache[k])
  /\ Count
  /\ Draw(call, GiveUp(cache, k), orphan, screen, at)
  /\ UNCHANGED <<db, moves, doubt>>

\* onRetry of an ErrorState: a removed entry is looked up again.
Retry(k) ==
  /\ \/ screen \in Existing /\ k = Detail(at) /\ Entry(cache, orphan, at).failed
     \/ ViewShown(cache, orphan, screen, at) /\ k = Comments(Shown) /\ cache[k].failed
  /\ Count
  /\ Draw(call, Refetch(cache, {k}), IF k = Detail(at) THEN NoData ELSE orphan, screen, at)
  /\ doubt' = doubt \ {k}
  /\ UNCHANGED <<db, moves>>

(***************************************************************************)
(* The user                                                                *)
(***************************************************************************)

\* A link, a button or a jump in the browser's history.
Go(s, t) ==
  /\ s # screen \/ t # at
  /\ IF s \in Existing THEN t \in Tickets /\ ticket[t] # NotYet ELSE t = NoTicket
  /\ Count
  /\ Draw(call, cache, orphan, s, t)
  /\ moves' = IF s = screen THEN moves ELSE moves + 1
  /\ doubt' = doubt \ Asking
  /\ UNCHANGED db

\* Faulty variant: the epic stays.
SetTeamOnly(t) ==
  /\ form # NoForm /\ t # form.team
  /\ Count
  /\ form' = [form EXCEPT !.team = t, !.chosen = TRUE]
  /\ UNCHANGED <<db, cache, place, live, call, moves, doubt>>

\* handleTeamChange
SetTeam(t) ==
  /\ form # NoForm /\ t # form.team
  /\ Count
  /\ form' = [form EXCEPT !.team = t, !.epic = NoEpic, !.chosen = TRUE]
  /\ UNCHANGED <<db, cache, place, live, call, moves, doubt>>

\* The options are the epics of the team.
SetEpic(e) ==
  /\ form # NoForm /\ e # form.epic
  /\ e \in {NoEpic} \cup {f \in Epics : EpicTeam[f] = form.team}
  /\ Count
  /\ form' = [form EXCEPT !.epic = e, !.chosen = TRUE]
  /\ UNCHANGED <<db, cache, place, live, call, moves, doubt>>

Pending(c) == call[c].phase \in UnderWay

\* on is the ticket the request names, key the one whose entries its answer
\* will change.
Send(c, kind, t, v) ==
  /\ Count
  /\ call[c].phase = "unused"
  /\ \A d \in live : call[d].kind # kind
  /\ call' = [call EXCEPT ![c] = [kind |-> kind, on |-> t, key |-> t, value |-> v, phase |-> "sent",
                                  copy |-> NoData, got |-> NoData, from |-> moves]]
  /\ live' = live \cup {c}
  /\ UNCHANGED <<db, cache, place, form, moves, doubt>>

SendForm(c) ==
  LET v == [team |-> form.team, epic |-> form.epic]
  IN IF screen = "new" THEN Send(c, "create", NoTicket, v) ELSE Send(c, "update", Shown, v)

\* Faulty variant: the team is not required.
SaveUnchecked(c) == form # NoForm /\ SendForm(c)

\* handleSubmit of the form: every field is sent.
Save(c) == form # NoForm /\ form.team # NoTeam /\ SendForm(c)

\* handleDelete; handleSubmit of the comments panel
Delete(c) == ViewShown(cache, orphan, screen, at) /\ Send(c, "delete", Shown, NoForm)
AddComment(c) == ViewShown(cache, orphan, screen, at) /\ Send(c, "comment", Shown, NoForm)

(***************************************************************************)
(* The backend                                                             *)
(***************************************************************************)

\* A response comes back, or is lost; after a change, what is shown of key k
\* may then be out of date.
Respond(c, got, k) ==
  \E p \in {"ok", "unheard"} :
    /\ call' = [call EXCEPT ![c].phase = p, ![c].got = got]
    /\ doubt' = IF p = "unheard" THEN doubt \cup {k} ELSE doubt

ServeCreate(c) ==
  /\ call[c].phase = "sent" /\ call[c].kind = "create" /\ Fits(call[c].value)
  /\ \E t \in Tickets :
       /\ ticket[t] = NotYet
       /\ ticket' = [ticket EXCEPT ![t] = Row(t, call[c].value, 0)]
       /\ call' \in {[call EXCEPT ![c].phase = p, ![c].got = ticket'[t]] : p \in {"ok", "unheard"}}
       /\ doubt' = doubt \cup {Detail(t)}
  /\ UNCHANGED <<comments, page, events, moves>>

\* updateTicket reads the row and validates what was sent.
ReadCopy(c) ==
  LET t == call[c].on IN
  /\ call[c].phase = "sent" /\ call[c].kind = "update"
  /\ Exists(t) /\ Fits(call[c].value)
  /\ call' = [call EXCEPT ![c].phase = "read", ![c].copy = ticket[t]]
  /\ UNCHANGED <<db, page, events, moves, doubt>>

\* The row with the columns that differ from the copy.
Merged(row, sent, copy) ==
  Row(row.id, [team |-> IF sent.team # copy.team THEN sent.team ELSE row.team,
               epic |-> IF sent.epic # copy.epic THEN sent.epic ELSE row.epic], row.version + 1)

\* It writes the columns that differ from its copy.
WriteDirty(c) ==
  LET t == call[c].on IN
  /\ call[c].phase = "read" /\ Exists(t)
  /\ ticket' = [ticket EXCEPT ![t] = Merged(@, call[c].value, call[c].copy)]
  /\ Respond(c, ticket'[t], Detail(t))
  /\ UNCHANGED <<comments, page, events, moves>>

\* Nothing differs: the copy is the answer.
SkipWrite(c) ==
  /\ call[c].phase = "read"
  /\ call[c].value = [team |-> call[c].copy.team, epic |-> call[c].copy.epic]
  /\ call' \in {[call EXCEPT ![c].phase = p, ![c].got = call[c].copy] : p \in {"ok", "unheard"}}
  /\ UNCHANGED <<db, page, events, moves, doubt>>

ServeDelete(c) ==
  LET t == call[c].on IN
  /\ call[c].phase = "sent" /\ call[c].kind = "delete" /\ Exists(t)
  /\ ticket' = [ticket EXCEPT ![t] = Gone]
  /\ Respond(c, NoData, Detail(t))
  /\ UNCHANGED <<comments, page, events, moves>>

ServeComment(c) ==
  LET t == call[c].on IN
  /\ call[c].phase = "sent" /\ call[c].kind = "comment" /\ Exists(t)
  /\ comments' = [comments EXCEPT ![t] = @ + 1]
  /\ Respond(c, NoData, Comments(t))
  /\ UNCHANGED <<ticket, page, events, moves>>

\* Validation, a row that is not there, or no backend.
Refuse(c) ==
  /\ call[c].phase \in {"sent", "read"}
  /\ call' = [call EXCEPT ![c].phase = "refused"]
  /\ UNCHANGED <<db, page, events, moves, doubt>>

ServeCall(c) ==
  \/ ServeCreate(c) \/ ReadCopy(c) \/ WriteDirty(c) \/ SkipWrite(c)
  \/ ServeDelete(c) \/ ServeComment(c) \/ Refuse(c)

\* Another user, another tab, or the board.
EditElsewhere(t) ==
  /\ Exists(t)
  /\ Count
  /\ \/ /\ \E row \in {Gone} \cup {Row(t, v, ticket[t].version + 1) : v \in {v \in Values : v.team # NoTeam}} :
             ticket' = [ticket EXCEPT ![t] = row]
        /\ doubt' = doubt \cup {Detail(t)}
        /\ UNCHANGED comments
     \/ /\ comments' = [comments EXCEPT ![t] = @ + 1]
        /\ doubt' = doubt \cup {Comments(t)}
        /\ UNCHANGED ticket
  /\ UNCHANGED <<page, call, moves>>

(***************************************************************************)
(* Answers to mutations                                                    *)
(***************************************************************************)

Done(c, phase) == [call EXCEPT ![c].phase = phase]
Answered(c, kind) == call[c].phase = "ok" /\ call[c].kind = kind

\* The keys in ks show, or will show, what is there, and those in others may not.
Settle(ks, others) == doubt' = ((doubt \ ks) \cup others) \ Asking

\* setQueryData
Updated(c) == [cache EXCEPT ![Detail(call[c].key)].data = call[c].got, ![Detail(call[c].key)].failed = FALSE]

\* What is in doubt when the answer to the update c has been written: a fetch
\* that asks after it will put it right, one that asked before it will not.
UpdateDoubt(c) ==
  LET k == Detail(call[c].on)
      right == \/ cache[k].fetch = "asked"
               \/ cache[k].fetch = "none" /\ call[c].got = ticket[call[c].on]
  IN IF call[c].key # call[c].on THEN Settle({}, {k, Detail(call[c].key)})
     ELSE IF right THEN Settle({k}, {}) ELSE Settle({}, {k})

\* Faulty variant: the hook navigates, not the form.
HearUpdatedNavigating(c) ==
  /\ Answered(c, "update")
  /\ Draw(Done(c, "done"), Updated(c), orphan, "view", call[c].got.id)
  /\ UpdateDoubt(c)
  /\ UNCHANGED <<db, events, moves>>

\* onSuccess of useUpdateTicket, then of mutate: the answer takes the place
\* of the data, a fetch under way goes on, and the form makes way for the view.
HearUpdated(c) ==
  /\ Answered(c, "update")
  /\ IF c \in live THEN Draw(Done(c, "done"), Updated(c), orphan, "view", call[c].got.id)
     ELSE Draw(Done(c, "done"), Updated(c), orphan, screen, at)
  /\ UpdateDoubt(c)
  /\ UNCHANGED <<db, events, moves>>

\* onSuccess of mutate: the form makes way for the new ticket.
HearCreated(c) ==
  /\ Answered(c, "create")
  /\ IF c \in live THEN Draw(Done(c, "done"), cache, orphan, "view", call[c].got.id)
     ELSE Draw(Done(c, "done"), cache, orphan, screen, at)
  /\ Settle({}, {})
  /\ UNCHANGED <<db, events, moves>>

\* Faulty variant: the entry stays in the cache.
HearDeletedKeeping(c) ==
  /\ Answered(c, "delete")
  /\ IF c \in live THEN Draw(Done(c, "done"), cache, orphan, "away", NoTicket)
     ELSE Draw(Done(c, "done"), cache, orphan, screen, at)
  /\ UNCHANGED <<db, events, moves, doubt>>

\* onSuccess of useDeleteTicket, then of mutate: the entry goes with its
\* fetch.  A page that stays still shows it.
HearDeleted(c) ==
  LET k == Detail(call[c].key)
      gone == [cache EXCEPT ![k] = Unused]
      left == IF screen \in Existing /\ orphan = NoData /\ k = Detail(at)
              THEN [cache[k] EXCEPT !.fetch = "none", !.got = NoData] ELSE orphan IN
  /\ Answered(c, "delete")
  /\ IF c \in live THEN Draw(Done(c, "done"), gone, orphan, "away", NoTicket)
     ELSE Draw(Done(c, "done"), gone, left, screen, at)
  /\ Settle({k}, {Detail(call[c].on)} \ {k})
  /\ UNCHANGED <<db, events, moves>>

\* The list that is invalidated is fetched anew, unless it is not shown, or
\* its first fetch has asked before.
CommentDoubt(c) ==
  LET k == Comments(call[c].on)
  IN IF call[c].key = call[c].on /\ cache'[k].fetch = "asked" THEN Settle({k}, {}) ELSE Settle({}, {k})

\* Faulty variant: the list is not invalidated.
HearCommentOnly(c) ==
  /\ Answered(c, "comment")
  /\ UNCHANGED <<db, cache, place, form, events, moves>>
  /\ call' = Done(c, "done") /\ live' = live \ {c}
  /\ LET k == Comments(call[c].key)
         shown == ViewShown(cache, orphan, screen, at) /\ call[c].key = Shown
     IN IF shown /\ ~Loading(cache[k]) THEN Settle({k}, {}) ELSE Settle({}, {k})

\* onSuccess of useAddComment: the list is fetched anew if it is observed.
HearComment(c) ==
  /\ Answered(c, "comment")
  /\ call' = Done(c, "done") /\ live' = live \ {c}
  /\ cache' = IF ViewShown(cache, orphan, screen, at) /\ call[c].key = Shown
              THEN Refetch(cache, {Comments(call[c].key)}) ELSE cache
  /\ CommentDoubt(c)
  /\ UNCHANGED <<db, place, form, events, moves>>

\* Faulty variant: a mutation that failed is sent again.
HearErrorRetried(c) ==
  /\ call[c].phase \in {"refused", "unheard"}
  /\ call' = Done(c, "sent")
  /\ UNCHANGED <<db, page, events, moves, doubt>>

\* An error shows where it was sent, if that is still there.
HearError(c) ==
  /\ call[c].phase \in {"refused", "unheard"}
  /\ call' = Done(c, "failed") /\ live' = live \ {c}
  /\ UNCHANGED <<db, cache, place, form, events, moves, doubt>>

(***************************************************************************)
(* The specification                                                       *)
(***************************************************************************)

Idle == [kind |-> "none", on |-> NoTicket, key |-> NoTicket, value |-> NoForm, phase |-> "unused",
         copy |-> NoData, got |-> NoData, from |-> 0]

\* The browser has just opened another page.
Init ==
  /\ \E there \in SUBSET Tickets, v \in [Tickets -> {v \in Values : v.team # NoTeam}] :
       ticket = [t \in Tickets |-> IF t \in there THEN Row(t, v[t], 0) ELSE NotYet]
  /\ comments = [t \in Tickets |-> 0]
  /\ cache = [k \in Keys |-> Unused]
  /\ screen = "away" /\ at = NoTicket /\ orphan = NoData /\ form = NoForm
  /\ call = [c \in Calls |-> Idle]
  /\ live = {} /\ events = 0 /\ moves = 0 /\ doubt = {}

Quiet == (\A c \in Calls : ~Pending(c)) /\ (\A k \in Keys : ~Fetching(cache[k]))
AtRest == Quiet /\ UNCHANGED vars

\* What goes on without the user.
Work ==
  \/ \E k \in Keys : ServeFetch(k) \/ EndFetch(k) \/ NotFound(k)
  \/ \E c \in Calls :
       ServeCall(c) \/ HearUpdated(c) \/ HearCreated(c) \/ HearDeleted(c) \/ HearComment(c) \/ HearError(c)

Screens == {"away", "new"} \cup Existing

Next ==
  \/ Work
  \/ \E k \in Keys : FetchFails(k) \/ Retry(k)
  \/ \E s \in Screens, t \in Tickets \cup {NoTicket} : Go(s, t)
  \/ (\E t \in Teams \cup {NoTeam} : SetTeam(t)) \/ (\E e \in Epics \cup {NoEpic} : SetEpic(e))
  \/ \E c \in Calls : Save(c) \/ Delete(c) \/ AddComment(c)
  \/ (\E t \in Tickets : EditElsewhere(t)) \/ AtRest

Spec == Init /\ [][Next]_vars

\* Backend and browser do not stand still as long as there is work.
FairSpec == Spec /\ WF_vars(Work)

(***************************************************************************)
(* Properties                                                              *)
(***************************************************************************)

CacheOK(c) ==
  /\ c = [k \in Keys |-> c[k]]
  /\ \A t \in Tickets : c[Detail(t)] \in Entries(Rows) /\ c[Comments(t)] \in Entries(Nat)

CallType ==
  [kind : {"none", "create", "update", "delete", "comment"},
   on : Tickets \cup {NoTicket}, key : Tickets \cup {NoTicket}, value : Values \cup {NoForm},
   phase : {"unused", "done", "failed"} \cup UnderWay,
   copy : Rows \cup {NoData}, got : Rows \cup {NoData}, from : Nat]

\* Every variable has its type.
TypeOK ==
  /\ ticket \in [Tickets -> Rows \cup {NotYet, Gone}] /\ comments \in [Tickets -> Nat]
  /\ CacheOK(cache)
  /\ screen \in Screens /\ at \in Tickets \cup {NoTicket}
  /\ orphan \in Entries(Rows) \cup {NoData}
  /\ form \in FormType \cup {NoForm}
  /\ call \in [Calls -> CallType]
  /\ live \subseteq Calls
  /\ events \in 0..MaxEvents /\ moves \in Nat /\ doubt \subseteq Keys

\* A row is the ticket's own.
RowsOK == \A t \in Tickets : Exists(t) => ticket[t].id = t

\* What is on the page is what its URL and its entry call for.
DrawnOK ==
  /\ screen \in Existing <=> at # NoTicket
  /\ orphan # NoData => screen \in Existing
  /\ form # NoForm <=> FormShown(cache, orphan, screen, at)

\* Once the user has chosen a team or an epic, the form does not offer to save
\* an epic of another team, even if it was filled from a row that has one
\* (handleTeamChange, useTeamEpics).
FormEpicInTeam == form # NoForm /\ form.chosen => Fits(form)

\* What a mutation is about is known until its answer has been heard: what a
\* form has sent has a team, and only mutations sent since the user came to
\* this kind of page have callbacks left.
CallsOK ==
  /\ \A c \in Calls :
       /\ call[c].kind \in {"create", "update"} => call[c].value \in Values /\ call[c].value.team # NoTeam
       /\ call[c].kind \in {"update", "delete", "comment"} => call[c].on \in Tickets /\ call[c].key \in Tickets
       /\ call[c].phase = "read" => call[c].kind = "update" /\ call[c].copy \in Rows /\ call[c].copy.id = call[c].on
       /\ Answered(c, "create") \/ Answered(c, "update") => call[c].got \in Rows
       /\ Answered(c, "update") => call[c].got.id = call[c].on
  /\ \A c \in live : Pending(c) /\ call[c].from = moves

\* When all has come back, a ticket in the cache is the one in the database,
\* and a deleted one is not in it, unless somebody else changed it, a response
\* was lost, an answer to a fetch or an update overtook a later change, or the
\* page went on to another ticket while the mutation was pending (setQueryData
\* of useUpdateTicket, removeQueries of useDeleteTicket).
TicketIsCurrent ==
  Quiet => \A t \in Tickets :
    Detail(t) \notin doubt /\ Present(cache[Detail(t)]) => cache[Detail(t)].data = ticket[t]

\* A comment that was added is in the list when all has come back, unless the
\* first fetch of the list had been answered before, the list was not shown,
\* the page went on to another ticket, or somebody else commented
\* (invalidateQueries of useAddComment).
CommentsAreCurrent ==
  Quiet => \A t \in Tickets :
    Comments(t) \notin doubt /\ Exists(t) /\ Present(cache[Comments(t)]) => cache[Comments(t)].data = comments[t]

\* The answer to a mutation moves the user only while he has stayed on pages
\* of the kind he sent it from, be they of another ticket; never from the
\* board, from a form to which he has come from a view, or the other way round
\* (the callbacks of mutate in TicketForm and TicketView).
AnswersMoveTheirPageOnly ==
  [][\A c \in Calls : call[c].phase = "ok" /\ call'[c].phase = "done" /\ (screen' # screen \/ at' # at)
       => call[c].from = moves]_vars

\* The entry e shows x, or will when what is on its way has arrived.
Shows(e, x) ==
  /\ e.fetch = "none" /\ Present(e) => e.data = x
  /\ e.fetch = "answered" => e.got = x

\* Mutations that were carried out and not heard of: the one that made the
\* last change of ticket t, and those that have added a comment to it.
TicketAwaited(t) ==
  \E c \in Calls :
    /\ call[c].on = t
    /\ \/ Answered(c, "update") /\ call[c].got = ticket[t]
       \/ Answered(c, "delete") /\ ticket[t] = Gone
CommentAwaited(t) == \E c \in Calls : Answered(c, "comment") /\ call[c].on = t

\* What is not in doubt is right as soon as it is there.
TicketTracked(t) == Detail(t) \in doubt \/ TicketAwaited(t) \/ Shows(cache[Detail(t)], ticket[t])
CommentsTracked(t) == Comments(t) \in doubt \/ CommentAwaited(t) \/ Shows(cache[Comments(t)], comments[t])

\* An entry without data shows no error while it is fetched, and an entry
\* that was removed is not fetched before its page asks for it again.
FetchesInOrder ==
  /\ \A k \in Keys : Loading(cache[k]) => ~cache[k].failed
  /\ orphan # NoData => ~Fetching(cache[Detail(at)])

\* The inductive invariant: what is well formed, and what is up to date.
IInv == TypeOK /\ RowsOK /\ DrawnOK /\ FormEpicInTeam /\ CallsOK
Currency == FetchesInOrder /\ \A t \in Tickets : TicketTracked(t) /\ CommentsTracked(t)
UpToDate == IInv /\ Currency

\* Everything comes back, so every button can be pressed again.
Settles == []<>Quiet

=============================================================================

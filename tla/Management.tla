----------------------------- MODULE Management -----------------------------
(***************************************************************************)
(* The teams page and the epics page of one browser                        *)
(* (frontend/src/features/teams, features/epics): their lists and the      *)
(* references behind their delete buttons in the query cache, the three    *)
(* dialogs, and the mutations these send.                                  *)
(*                                                                         *)
(* The backend carries out a call in one step; TeamsApi and EpicsApi have  *)
(* its details.  A row is its id; what a rename or an edit writes shows in *)
(* version, which counts the changes of the database.  An epic keeps its   *)
(* team for life, so the team goes with its id.  Callbacks run one at a    *)
(* time, requests and responses may overtake one another.                  *)
(***************************************************************************)
EXTENDS Queries

CONSTANTS
  Teams, Epics, Tickets,
  EpicTeam,     \* epic -> the team it is created in
  Calls,        \* mutations; each is sent at most once
  MaxEvents,    \* bound on pages opened, filtered or retried, mutations sent,
                \* fetches that fail, and changes made elsewhere
  All,          \* the epics page's filter is off
  NoRow

ASSUME RowIds ==
  /\ EpicTeam \in [Epics -> Teams]
  /\ Teams \cap Epics = {} /\ NoRow \notin Teams \cup Epics /\ All \notin Teams \cup Epics

ASSUME ManagementBounds == MaxEvents \in Nat

VARIABLES
  teams, epics, \* the ids in the database
  ticketOf,     \* ticket -> [team, epic] with NoRow for neither
  born,         \* ids that have ever been there
  version,      \* number of changes of the database so far
  cache,        \* query key -> entry
  page,         \* the page that is open: "teams" or "epics"
  filter,       \* the epics page's teamFilter
  dialog,       \* the dialog that is open and the row it is about
  call,         \* mutation -> its state
  live,         \* mutations whose mutate() callbacks will run: sent by this page
  events

db == <<teams, epics, ticketOf, born, version>>
view == <<page, filter>>
vars == <<db, cache, view, dialog, call, live, events>>

(***************************************************************************)
(* Query keys and what the backend answers                                 *)
(***************************************************************************)

Key(of, row) == [of |-> of, row |-> row]
TeamsKey == Key("teams", All)
EpicsKey(f) == Key("epics", f)
EpicsKeys == {EpicsKey(f) : f \in Teams \cup {All}}
TicketsKey(r) == Key("tickets", r)   \* of a team or of an epic
Keys == {TeamsKey} \cup EpicsKeys \cup {TicketsKey(r) : r \in Teams \cup Epics}

EpicsOf(f) == {e \in epics : f \in {All, EpicTeam[e]}}
TicketsOf(r) == {k \in Tickets : r \in {ticketOf[k].team, ticketOf[k].epic}}
Referenced(r) == TicketsOf(r) # {} \/ EpicsOf(r) # {}

RowsOf(k) ==
  CASE k.of = "teams" -> teams
    [] k.of = "epics" -> EpicsOf(k.row)
    [] k.of = "tickets" -> TicketsOf(k.row)
Answer(k) == [rows |-> RowsOf(k), version |-> version]
Data == [rows : SUBSET (Teams \cup Epics \cup Tickets), version : Nat]

ASSUME DataMarker == NoData \notin Data

(***************************************************************************)
(* What the open page shows                                                *)
(***************************************************************************)

\* data ?? []
CachedRows(c, k) == IF c[k].data = NoData THEN {} ELSE c[k].data.rows

ListKey(p, f) == IF p = "teams" THEN TeamsKey ELSE EpicsKey(f)

\* The keys the page observes: the teams, the epics (all of them on the
\* teams page), and the tickets of every row of its list.
Observed(c, p, f) ==
  {TeamsKey, EpicsKey(f)} \cup {TicketsKey(r) : r \in CachedRows(c, ListKey(p, f))}
Active == Observed(cache, page, filter)

\* The rows of the table, if it is drawn.
noTeams == page = "epics" /\ ~Loading(cache[TeamsKey]) /\ CachedRows(cache, TeamsKey) = {}
Listed == IF Present(cache[ListKey(page, filter)]) /\ ~noTeams
          THEN CachedRows(cache, ListKey(page, filter)) ELSE {}

\* Faulty variant: the epics are left out.
CitedByTickets(r) == CachedRows(cache, TicketsKey(r)) # {}

\* useTeamReferences, useEpicReferences
Cited(r) ==
  \/ CachedRows(cache, TicketsKey(r)) # {}
  \/ page = "teams" /\ \E e \in CachedRows(cache, EpicsKey(All)) : EpicTeam[e] = r
RefLoading(r) ==
  \/ Loading(cache[TicketsKey(r)])
  \/ page = "teams" /\ Loading(cache[EpicsKey(All)])

Closed == [kind |-> "none", row |-> NoRow]   \* no dialog

DeleteEnabled(r) == ~Cited(r) /\ ~RefLoading(r)

(***************************************************************************)
(* Fetches                                                                 *)
(***************************************************************************)

Count == events < MaxEvents /\ events' = events + 1

\* The page observes other keys than before: the new ones are mounted.
Redrawn(c, p, f) == Mount(c, Observed(c, p, f) \ Active)

ServeFetch(k) ==
  /\ cache[k].fetch = "asked"
  /\ cache' = Serve(cache, k, Answer(k))
  /\ UNCHANGED <<db, view, dialog, call, live, events>>

\* A mutation that has asked for key k no longer waits for it.
Settled(k) == [c \in Calls |-> [call[c] EXCEPT !.wait = @ \ {k}]]

EndFetch(k) ==
  /\ cache[k].fetch = "answered"
  /\ cache' = Redrawn(Arrive(cache, k), page, filter)
  /\ call' = Settled(k)
  /\ UNCHANGED <<db, view, dialog, live, events>>

FetchFails(k) ==
  /\ Fetching(cache[k])
  /\ Count
  /\ cache' = GiveUp(cache, k)
  /\ call' = Settled(k)
  /\ UNCHANGED <<db, view, dialog, live>>

\* onRetry of the list's ErrorState.
Retry ==
  /\ dialog = Closed
  /\ cache[ListKey(page, filter)].failed /\ ~noTeams
  /\ Count
  /\ cache' = Refetch(cache, {ListKey(page, filter)})
  /\ UNCHANGED <<db, view, dialog, call, live>>

(***************************************************************************)
(* Pages and dialogs                                                       *)
(***************************************************************************)

\* A page is opened, possibly the same again: what was mounted goes, with
\* its dialog and its callbacks; cache and mutations live on.
Visit(p) ==
  /\ Count
  /\ page' = p
  /\ filter' = All
  /\ cache' = Mount(cache, Observed(cache, p, All))
  /\ dialog' = Closed
  /\ live' = {}
  /\ UNCHANGED <<db, call>>

\* setTeamFilter: the options are the cached teams.
SetFilter(f) ==
  /\ page = "epics" /\ dialog = Closed
  /\ f \in CachedRows(cache, TeamsKey) \cup {All} /\ f # filter
  /\ Count
  /\ filter' = f
  /\ cache' = Redrawn(cache, page, f)
  /\ UNCHANGED <<db, page, dialog, call, live>>

\* Faulty variant: the first cached team is no default, the value of the filter is.
OpenCreateAtFilter ==
  /\ dialog = Closed /\ ~noTeams
  /\ dialog' = [kind |-> "create", row |-> IF page = "teams" THEN NoRow ELSE filter]
  /\ UNCHANGED <<db, cache, view, call, live, events>>

\* openCreate: an epic's team is the filter, or a cached team, or none if there
\* is neither; it may be chosen again until it is sent.
OpenCreate ==
  LET choices == CachedRows(cache, TeamsKey) \cup ({filter} \ {All}) IN
  /\ dialog.kind \in {"none", "create"} /\ ~noTeams
  /\ dialog' \in [kind : {"create"}, row : IF page = "teams" \/ choices = {} THEN {NoRow} ELSE choices]
  /\ dialog' # dialog
  /\ UNCHANGED <<db, cache, view, call, live, events>>

\* openRename, openEdit, setDeleting
OpenRow(kind, r) ==
  /\ dialog = Closed
  /\ r \in Listed
  /\ kind = "delete" => DeleteEnabled(r)
  /\ dialog' = [kind |-> kind, row |-> r]
  /\ UNCHANGED <<db, cache, view, call, live, events>>

\* Cancel and close are there while a mutation is pending, too.
CloseDialog ==
  /\ dialog # Closed
  /\ dialog' = Closed
  /\ UNCHANGED <<db, cache, view, call, live, events>>

(***************************************************************************)
(* Mutations                                                               *)
(***************************************************************************)

Pending(c) == call[c].phase \in {"sent", "ok", "refused", "unheard", "refetching"}

\* submitCreate, submitRename, submitEdit, confirmDelete: the button is
\* enabled (~isPending), and an epic has a team.
Submit(c) ==
  /\ Count
  /\ call[c].phase = "unused"
  /\ dialog # Closed /\ (page = "epics" => dialog.row # NoRow)
  /\ \A d \in live : call[d].kind = dialog.kind => ~Pending(d)
  /\ call' = [call EXCEPT ![c] = [kind |-> dialog.kind, on |-> page, row |-> dialog.row,
                                  phase |-> "sent", at |-> 0, asked |-> {}, wait |-> {}]]
  /\ live' = live \cup {c}
  /\ UNCHANGED <<db, cache, view, dialog>>

\* What a call does to the database, with the row it is about afterwards.
Insert(r) ==
  /\ r \notin born
  /\ born' = born \cup {r}
  /\ \/ r \in Teams /\ teams' = teams \cup {r} /\ UNCHANGED epics
     \/ r \in Epics /\ EpicTeam[r] \in teams /\ epics' = epics \cup {r} /\ UNCHANGED teams
  /\ UNCHANGED ticketOf

Remove(r) ==
  /\ r \in teams \cup epics /\ ~Referenced(r)
  /\ teams' = teams \ {r}
  /\ epics' = epics \ {r}
  /\ UNCHANGED <<ticketOf, born>>

Carry(c) ==
  \/ /\ call[c].kind = "create" /\ call[c].on = "teams"
     /\ \E r \in Teams : Insert(r)
  \/ /\ call[c].kind = "create" /\ call[c].on = "epics"
     /\ \E r \in Epics : EpicTeam[r] = call[c].row /\ Insert(r)
  \/ /\ call[c].kind = "edit" /\ call[c].row \in teams \cup epics
     /\ UNCHANGED <<teams, epics, ticketOf, born>>
  \/ call[c].kind = "delete" /\ Remove(call[c].row)

\* The call is carried out or refused, and its response may get lost.
ServeCall(c) ==
  /\ call[c].phase = "sent"
  /\ \/ /\ Carry(c)
        /\ version' = version + 1
        /\ \E p \in {"ok", "unheard"} : call' = [call EXCEPT ![c].phase = p, ![c].at = version']
     \/ /\ call' = [call EXCEPT ![c].phase = "refused"]
        /\ UNCHANGED db
  /\ UNCHANGED <<cache, view, dialog, live, events>>

\* The keys a mutation on page p invalidates, by prefix.
Touched(p) == IF p = "teams" THEN {TeamsKey} ELSE EpicsKeys

\* The first fetch of a list is joined, even if it has been answered before.
TooEarly(entry) == entry.data = NoData /\ entry.fetch = "answered"

\* Faulty variant: onSuccess does not return the promise of invalidateQueries.
HearOkUnawaited(c) ==
  /\ call[c].phase = "ok"
  /\ LET ks == Touched(call[c].on) \cap Active IN
     /\ cache' = Refetch(cache, ks)
     /\ call' = [call EXCEPT ![c].phase = "refetching",
                             ![c].asked = {k \in ks : ~TooEarly(cache[k])}]
  /\ UNCHANGED <<db, view, dialog, live, events>>

\* onSuccess of useMutation: the invalidated keys that are observed are
\* fetched anew, and the mutation stays pending until they have come back.
HearOk(c) ==
  /\ call[c].phase = "ok"
  /\ LET ks == Touched(call[c].on) \cap Active IN
     /\ cache' = Refetch(cache, ks)
     /\ call' = [call EXCEPT ![c].phase = "refetching", ![c].wait = ks,
                             ![c].asked = {k \in ks : ~TooEarly(cache[k])}]
  /\ UNCHANGED <<db, view, dialog, live, events>>

\* A callback of mutate() closes a dialog of its kind, whatever it is about.
CloseKind(c) == IF c \in live /\ dialog.kind = call[c].kind THEN Closed ELSE dialog

\* onSuccess of mutate
Finish(c) ==
  /\ call[c].phase = "refetching" /\ call[c].wait = {}
  /\ call' = [call EXCEPT ![c].phase = "done"]
  /\ dialog' = CloseKind(c)
  /\ UNCHANGED <<db, cache, view, live, events>>

\* Faulty variant: a mutation that failed is sent again.
HearErrorRetried(c) ==
  /\ call[c].phase \in {"refused", "unheard"}
  /\ call' = [call EXCEPT ![c].phase = "sent"]
  /\ UNCHANGED <<db, cache, view, dialog, live, events>>

\* onError of mutate: a toast for a delete, an error in the dialog otherwise.
HearError(c) ==
  /\ call[c].phase \in {"refused", "unheard"}
  /\ call' = [call EXCEPT ![c].phase = "failed"]
  /\ dialog' = IF call[c].kind = "delete" THEN CloseKind(c) ELSE dialog
  /\ UNCHANGED <<db, cache, view, live, events>>

(***************************************************************************)
(* Changes made elsewhere, and the specification                           *)
(***************************************************************************)

Places ==
  {[team |-> NoRow, epic |-> NoRow]}
  \cup {[team |-> t, epic |-> NoRow] : t \in teams}
  \cup {[team |-> EpicTeam[e], epic |-> e] : e \in epics}

\* Another user, or the ticket pages, which invalidate none of these keys.
EditElsewhere ==
  /\ Count
  /\ version' = version + 1
  /\ \/ \E r \in Teams \cup Epics : Insert(r) \/ Remove(r)
     \/ /\ \E k \in Tickets, at \in Places : ticketOf' = [ticketOf EXCEPT ![k] = at]
        /\ ticketOf' # ticketOf
        /\ UNCHANGED <<teams, epics, born>>
  /\ UNCHANGED <<cache, view, dialog, call, live>>

Idle == [kind |-> "none", on |-> "teams", row |-> NoRow,
         phase |-> "unused", at |-> 0, asked |-> {}, wait |-> {}]

\* A page has just been opened.
Init ==
  /\ teams \in SUBSET Teams
  /\ epics \in SUBSET {e \in Epics : EpicTeam[e] \in teams}
  /\ ticketOf \in [Tickets -> Places]
  /\ born = teams \cup epics
  /\ version = 0
  /\ page \in {"teams", "epics"}
  /\ filter = All
  /\ cache = LET none == [k \in Keys |-> Unused] IN Mount(none, Observed(none, page, filter))
  /\ dialog = Closed
  /\ call = [c \in Calls |-> Idle]
  /\ live = {}
  /\ events = 0

Quiet == (\A c \in Calls : ~Pending(c)) /\ (\A k \in Keys : ~Fetching(cache[k]))
AtRest == Quiet /\ UNCHANGED vars

\* What goes on without the user: the backend answers, callbacks run.
Work ==
  \/ \E k \in Keys : ServeFetch(k) \/ EndFetch(k)
  \/ \E c \in Calls : ServeCall(c) \/ HearOk(c) \/ Finish(c) \/ HearError(c)

Next ==
  \/ Work \/ (\E k \in Keys : FetchFails(k))
  \/ Retry \/ (\E p \in {"teams", "epics"} : Visit(p)) \/ (\E f \in Teams \cup {All} : SetFilter(f))
  \/ OpenCreate \/ CloseDialog
  \/ (\E kind \in {"edit", "delete"}, r \in Teams \cup Epics : OpenRow(kind, r))
  \/ (\E c \in Calls : Submit(c))
  \/ EditElsewhere \/ AtRest

Spec == Init /\ [][Next]_vars

\* Backend and browser do not stand still as long as there is work.
FairSpec == Spec /\ WF_vars(Work)

(***************************************************************************)
(* Properties                                                              *)
(***************************************************************************)

\* Every variable has its type.
TypeOK ==
  /\ teams \subseteq Teams /\ epics \subseteq Epics
  /\ ticketOf \in [Tickets -> [team : Teams \cup {NoRow}, epic : Epics \cup {NoRow}]]
  /\ born \subseteq Teams \cup Epics
  /\ version \in Nat
  /\ cache \in [Keys -> Entries(Data)]
  /\ page \in {"teams", "epics"} /\ filter \in Teams \cup {All}
  /\ dialog \in [kind : {"none", "create", "edit", "delete"}, row : Teams \cup Epics \cup {NoRow}]
  /\ call \in [Calls -> [kind : {"none", "create", "edit", "delete"}, on : {"teams", "epics"},
                         row : Teams \cup Epics \cup {NoRow},
                         phase : {"unused", "sent", "ok", "refused", "unheard", "refetching", "done", "failed"},
                         at : Nat, asked : SUBSET Keys, wait : SUBSET Keys]]
  /\ live \subseteq Calls
  /\ events \in 0..MaxEvents

\* After a success has been reported, the lists that the page showed or was
\* loading show it, unless they show an error: the mutation reports only when
\* the lists it has invalidated have come back, and drops what was fetched
\* before (invalidateQueries in teams/api.ts and epics/api.ts).  Exempt are
\* lists the page did not observe, and a list whose first fetch had been
\* answered but had not arrived: that fetch is joined.
SuccessIsVisible ==
  \A c \in Calls : call[c].phase = "done" =>
    \A k \in call[c].asked : Present(cache[k]) => cache[k].data.version >= call[c].at

\* What the delete button of row r goes by.
GuardKeys(r) == {TicketsKey(r)} \cup (IF page = "teams" THEN {EpicsKey(All)} ELSE {})

\* With the data of the present moment a delete is offered exactly for the
\* rows that the backend would delete (useTeamReferences, useEpicReferences).
GuardIsRight ==
  \A r \in Listed \cap (teams \cup epics) :
    (\A k \in GuardKeys(r) : Present(cache[k]) /\ cache[k].data.version = version)
      => (DeleteEnabled(r) <=> ~Referenced(r))

\* What each query's rows are.
RowsIn(k) ==
  CASE k.of = "teams" -> Teams
    [] k.of = "epics" -> Epics
    [] k.of = "tickets" -> Tickets

\* The answer d to key k is of the past, and says what is true unless
\* something has changed since.
OfThePast(d, k) ==
  d # NoData =>
    /\ d.rows \subseteq RowsIn(k)
    /\ d.version <= version
    /\ d.version = version => d.rows = RowsOf(k)

\* An answer on its way is newer than the data it will take the place of.
InOrder(e) ==
  e.fetch = "answered" => e.got # NoData /\ (e.data # NoData => e.data.version <= e.got.version)

PastCache(c) ==
  \A k \in Keys : OfThePast(c[k].data, k) /\ OfThePast(c[k].got, k) /\ InOrder(c[k])

\* Entry e shows version n or later, or will by its fetch, which is awaited or
\* until which it shows an error or nothing.
SeenFrom(n, e, awaited) ==
  \/ e.data # NoData /\ e.data.version >= n
  \/ (awaited \/ e.failed \/ e.data = NoData) /\ (e.fetch = "answered" => e.got.version >= n)

\* No mutation waits for a list that nobody fetches, and it will see what it
\* has asked for (the promise that onSuccess returns).
CallInOrder(c) ==
  /\ call[c].at <= version
  /\ call[c].phase \notin {"refetching", "done"} => call[c].asked = {}
  /\ call[c].phase # "refetching" => call[c].wait = {}
  /\ \A k \in call[c].wait : Fetching(cache[k])
  /\ \A k \in call[c].asked : SeenFrom(call[c].at, cache[k], k \in call[c].wait)

WaitsAreServed == \A c \in Calls : CallInOrder(c)

\* The inductive invariant.
IInv == TypeOK /\ PastCache(cache) /\ WaitsAreServed

\* However pages, dialogs and mutations are interleaved, everything comes
\* back: no mutation waits for a list that is never fetched again, and every
\* button can be pressed again (isPending).
Settles == []<>Quiet

=============================================================================

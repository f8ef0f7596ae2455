----------------------------- MODULE BoardCache -----------------------------
(***************************************************************************)
(* The Kanban board in one browser (frontend/src/features/board): the list *)
(* of each team's tickets in the query cache, their refetches, the team    *)
(* that is selected, and cards that are dragged to another column with an  *)
(* optimistic update (useMoveTicket).                                      *)
(*                                                                         *)
(* A ticket is the state, that is the column, it is in.  The backend's     *)
(* PATCH is one step here; TicketsApi has its details.  Callbacks run one  *)
(* at a time; requests and responses may overtake one another.             *)
(*                                                                         *)
(* What TanStack Query does is modelled as the code relies on it: one      *)
(* fetch of a key at a time; cancelQueries drops its result; callbacks     *)
(* given to mutate() run for the latest call of a page that is still       *)
(* there, those given to useMutation always do, but a page that is drawn   *)
(* again gives its latest call, while it is pending, the new ones.         *)
(***************************************************************************)
EXTENDS Naturals

CONSTANTS
  Teams,
  Tickets,
  TeamOf,       \* the team of each ticket
  States,
  Moves,        \* drags of a card; each happens at most once
  MaxFetches,   \* bound on the number of refetches, visits and team switches
  MaxEdits,     \* bound on the number of edits made elsewhere
  NoData,       \* a list before the first response
  NoMove

ASSUME TeamOfAssumption == TeamOf \in [Tickets -> Teams]

TicketsOf(t) == {x \in Tickets : TeamOf[x] = t}
Lists(t) == [TicketsOf(t) -> States]
AnyList == UNION {Lists(t) : t \in Teams}

ASSUME BoardMarkers ==
  /\ NoData \notin AnyList
  /\ NoMove \notin Moves

ASSUME BoardBounds == MaxFetches \in Nat /\ MaxEdits \in Nat

VARIABLES
  server,       \* ticket -> its state in the database
  team,         \* the selected team
  cache,        \* team -> ['board', 'tickets', team]: ticket -> state, or NoData
  fetch,        \* team -> the fetch of that key: "none", "asked" or "answered"
  fetched,      \* team -> what the fetch has been answered with
  loadError,    \* team -> ticketsQuery.isError: the error state hides the board
  status,       \* move -> where it is
  ticket,       \* move -> the card
  target,       \* move -> the column it was dropped on
  previous,     \* move -> MoveContext.previous, the list before the move
  key,          \* move -> the team whose list its callbacks write
  latest,       \* the latest move of the mounted page, or NoMove
  toasts,       \* moves whose failure was shown
  fetches,      \* number of refetches, visits and team switches so far
  edits,        \* number of edits elsewhere so far
  clean,        \* history: team -> its fetch has overlapped no move and no edit
  doubt         \* history: team -> something overlapped since the last clean fetch

dragVars == <<ticket, target, previous>>
moveVars == <<status, dragVars, key, latest, toasts>>
fetchVars == <<fetch, fetched, fetches, clean>>
vars == <<server, team, cache, loadError, moveVars, fetchVars, edits, doubt>>

\* What GET /tickets returns for a team.
ListOf(t) == [x \in TicketsOf(t) |-> server[x]]

Pending == {"sent", "ok", "rejected", "unheard"}
InFlight(m) == status[m] \in Pending

\* A move in flight that will write the list of team t, or has a card of it.
Touches(m, t) == InFlight(m) /\ t \in {key[m], TeamOf[ticket[m]]}
Busy(t) == \E m \in Moves : Touches(m, t)

\* The columns are drawn, so there are cards to drag.
Shown == cache[team] # NoData /\ ~loadError[team]

(***************************************************************************)
(* useBoardTickets                                                         *)
(***************************************************************************)

\* A fetch of team t, or the one under way.  It is clean if no move touches t.
Ask(t) ==
  /\ fetches < MaxFetches
  /\ UNCHANGED <<server, cache, fetched, loadError, status, dragVars, toasts, edits>>
  /\ fetches' = fetches + 1
  /\ fetch' = IF fetch[t] = "none" THEN [fetch EXCEPT ![t] = "asked"] ELSE fetch
  /\ clean' = [u \in Teams |-> (clean[u] \/ (u = t /\ fetch[t] = "none")) /\ ~Busy(u)']
  /\ doubt' = [u \in Teams |->
                doubt[u] \/ \E m \in Moves : Touches(m, u)' /\ (u = t \/ key'[m] # key[m])]

\* The network is back (refetchOnReconnect) or Retry is pressed.
Refetch ==
  /\ fetch[team] = "none"
  /\ UNCHANGED <<team, key, latest>>
  /\ Ask(team)

\* The page is drawn for another team.  Its latest move, if it is pending, is
\* given the callbacks of that drawing (observer.setOptions).
SelectTeam ==
  \E t \in Teams \ {team} :
    /\ team' = t
    /\ key' = IF latest # NoMove /\ InFlight(latest) THEN [key EXCEPT ![latest] = t] ELSE key
    /\ UNCHANGED latest
    /\ Ask(t)

\* The user leaves the board and comes back: its caches and its moves live on,
\* the callbacks of the page that is gone do not, and the list is stale at
\* once (staleTime 0).
Revisit ==
  /\ latest' = NoMove
  /\ team' \in Teams
  /\ UNCHANGED key
  /\ Ask(team')

ServeFetch(t) ==
  /\ fetch[t] = "asked"
  /\ fetch' = [fetch EXCEPT ![t] = "answered"]
  /\ fetched' = [fetched EXCEPT ![t] = ListOf(t)]
  /\ UNCHANGED <<server, team, cache, loadError, moveVars, fetches, clean, edits, doubt>>

EndFetch(t) ==
  /\ fetch[t] = "answered"
  /\ fetch' = [fetch EXCEPT ![t] = "none"]
  /\ cache' = [cache EXCEPT ![t] = fetched[t]]
  /\ loadError' = [loadError EXCEPT ![t] = FALSE]
  /\ doubt' = [doubt EXCEPT ![t] = @ /\ ~clean[t]]
  /\ UNCHANGED <<server, team, moveVars, fetched, fetches, clean, edits>>

\* Both attempts (retry: 1) have failed.
FetchFails(t) ==
  /\ fetch[t] # "none"
  /\ fetch' = [fetch EXCEPT ![t] = "none"]
  /\ loadError' = [loadError EXCEPT ![t] = TRUE]
  /\ UNCHANGED <<server, team, cache, moveVars, fetched, fetches, clean, edits, doubt>>

(***************************************************************************)
(* useMoveTicket                                                           *)
(***************************************************************************)

\* A list in which ticket x, if it is there, is in column s.
Shift(list, x, s) == [y \in DOMAIN list |-> IF y = x THEN s ELSE list[y]]

\* onDragEnd: card x of the board is dropped on another column s.
Dragged(m, x, s) ==
  /\ Shown
  /\ x \in DOMAIN cache[team]
  /\ cache[team][x] # s
  /\ ticket' = [ticket EXCEPT ![m] = x]
  /\ target' = [target EXCEPT ![m] = s]
  /\ cache' = [cache EXCEPT ![team] = Shift(@, x, s)]

\* The move is the latest of its page and writes the list of its team.
Sent(m) ==
  /\ status[m] = "unused"
  /\ status' = [status EXCEPT ![m] = "sent"]
  /\ key' = [key EXCEPT ![m] = team]
  /\ latest' = m
  /\ clean' = [u \in Teams |-> clean[u] /\ ~Busy(u)']
  /\ doubt' = [u \in Teams |->
                doubt[u] \/ (Touches(m, u)' /\ (Busy(u) \/ TeamOf[ticket'[m]] # team))]
  /\ UNCHANGED <<server, team, loadError, toasts, fetched, fetches, edits>>

\* The toast of mutate's onError.
Toasted(m) == IF latest = m THEN toasts \cup {m} ELSE toasts

\* Faulty variant: a fetch in flight is not cancelled.
DropUncancelled(m) ==
  /\ \E x \in Tickets, s \in States : Dragged(m, x, s)
  /\ previous' = [previous EXCEPT ![m] = cache[team]]
  /\ UNCHANGED fetch
  /\ Sent(m)

\* Faulty variant: the list is kept after the card has been moved in it.
DropKeptLate(m) ==
  /\ \E x \in Tickets, s \in States : Dragged(m, x, s)
  /\ previous' = [previous EXCEPT ![m] = cache'[team]]
  /\ fetch' = [fetch EXCEPT ![team] = "none"]
  /\ Sent(m)

\* onDragEnd and onMutate: cancel the fetch, keep the list, move the card;
\* then the PATCH is sent.
Drop(m) ==
  /\ \E x \in Tickets, s \in States : Dragged(m, x, s)
  /\ previous' = [previous EXCEPT ![m] = cache[team]]
  /\ fetch' = [fetch EXCEPT ![team] = "none"]
  /\ Sent(m)

\* The PATCH is carried out or refused, and its response may get lost.
Serve(m) ==
  /\ status[m] = "sent"
  /\ \/ /\ server' = Shift(server, ticket[m], target[m])
        /\ \E s \in {"ok", "unheard"} : status' = [status EXCEPT ![m] = s]
     \/ /\ status' = [status EXCEPT ![m] = "rejected"]
        /\ UNCHANGED server
  /\ UNCHANGED <<team, cache, loadError, dragVars, key, latest, toasts, fetchVars, edits, doubt>>

\* onSuccess: the card takes the state of the response, if the list is there.
Succeed(m) ==
  /\ status[m] = "ok"
  /\ status' = [status EXCEPT ![m] = "confirmed"]
  /\ IF cache[key[m]] # NoData
     THEN /\ cache' = [cache EXCEPT ![key[m]] = Shift(@, ticket[m], target[m])]
          /\ loadError' = [loadError EXCEPT ![key[m]] = FALSE]
     ELSE UNCHANGED <<cache, loadError>>
  /\ UNCHANGED <<server, team, dragVars, key, latest, toasts, fetchVars, edits, doubt>>

\* What onError of mutate does, and the history of a response that is lost.
Failed(m) ==
  /\ status[m] \in {"rejected", "unheard"}
  /\ status' = [status EXCEPT ![m] = "failed"]
  /\ toasts' = Toasted(m)
  /\ doubt' = IF status[m] = "unheard" THEN [doubt EXCEPT ![TeamOf[ticket[m]]] = TRUE] ELSE doubt
  /\ UNCHANGED <<server, team, dragVars, key, latest, fetchVars, edits>>

\* Faulty variant: the list is not restored.
FailUnrestored(m) == Failed(m) /\ UNCHANGED <<cache, loadError>>

\* onError of useMutation, which restores the list of the move's start, and
\* onError of mutate, which shows the toast.
Fail(m) ==
  /\ Failed(m)
  /\ cache' = [cache EXCEPT ![key[m]] = previous[m]]
  /\ loadError' = [loadError EXCEPT ![key[m]] = FALSE]

\* Another user, or another page of this one, changes a ticket's state.
EditElsewhere ==
  /\ edits < MaxEdits
  /\ edits' = edits + 1
  /\ \E x \in Tickets, s \in States :
       /\ server[x] # s
       /\ server' = Shift(server, x, s)
       /\ clean' = [clean EXCEPT ![TeamOf[x]] = @ /\ fetch[TeamOf[x]] # "answered"]
       /\ doubt' = [doubt EXCEPT ![TeamOf[x]] = TRUE]
  /\ UNCHANGED <<team, cache, loadError, moveVars, fetch, fetched, fetches>>

(***************************************************************************)
(* The specification                                                       *)
(***************************************************************************)

\* The page has been opened and asks for the list of its team.
Init ==
  /\ server \in [Tickets -> States]
  /\ team \in Teams
  /\ cache = [t \in Teams |-> NoData]
  /\ fetch = [t \in Teams |-> IF t = team THEN "asked" ELSE "none"]
  /\ fetched = [t \in Teams |-> NoData]
  /\ loadError = [t \in Teams |-> FALSE]
  /\ status = [m \in Moves |-> "unused"]
  /\ \E x \in Tickets : ticket = [m \in Moves |-> x]
  /\ \E s \in States : target = [m \in Moves |-> s]
  /\ previous = [m \in Moves |-> NoData]
  /\ key = [m \in Moves |-> team]
  /\ latest = NoMove
  /\ toasts = {}
  /\ fetches = 0
  /\ edits = 0
  /\ clean = [t \in Teams |-> TRUE]
  /\ doubt = [t \in Teams |-> FALSE]

Quiet(t) == ~Busy(t) /\ fetch[t] = "none"

\* Nothing is under way; the user need not do anything more.
AtRest == (\A t \in Teams : Quiet(t)) /\ UNCHANGED vars

Next ==
  \/ Refetch \/ SelectTeam \/ Revisit \/ EditElsewhere \/ AtRest
  \/ \E t \in Teams : ServeFetch(t) \/ EndFetch(t) \/ FetchFails(t)
  \/ \E m \in Moves : Drop(m) \/ Serve(m) \/ Succeed(m) \/ Fail(m)

Spec == Init /\ [][Next]_vars

(***************************************************************************)
(* Properties                                                              *)
(***************************************************************************)

\* Every variable has its type.
TypeOK ==
  /\ server \in [Tickets -> States]
  /\ team \in Teams
  /\ cache \in [Teams -> AnyList \cup {NoData}]
  /\ fetch \in [Teams -> {"none", "asked", "answered"}]
  /\ fetched \in [Teams -> AnyList \cup {NoData}]
  /\ loadError \in [Teams -> BOOLEAN]
  /\ status \in [Moves -> Pending \cup {"unused", "confirmed", "failed"}]
  /\ ticket \in [Moves -> Tickets]
  /\ target \in [Moves -> States]
  /\ previous \in [Moves -> AnyList \cup {NoData}]
  /\ key \in [Moves -> Teams]
  /\ latest \in Moves \cup {NoMove}
  /\ toasts \subseteq Moves
  /\ fetches \in 0..MaxFetches
  /\ edits \in 0..MaxEdits
  /\ clean \in [Teams -> BOOLEAN]
  /\ doubt \in [Teams -> BOOLEAN]

\* What an answer brings is there when it is used.
DataPresent ==
  /\ \A t \in Teams : fetch[t] = "answered" => fetched[t] \in Lists(t)
  /\ \A m \in Moves : InFlight(m) => previous[m] \in AnyList

\* A clean fetch overlaps no move and brings what the database holds.
CleanFetchIsCurrent ==
  \A t \in Teams : fetch[t] # "none" =>
    /\ clean[t] => ~Busy(t)
    /\ ~doubt[t] => clean[t]
    /\ clean[t] /\ fetch[t] = "answered" => fetched[t] = ListOf(t)

\* Without overlap there is one move of a team at a time, and it writes its
\* own team's list; the list it would restore and the list it shows are the
\* database before and after it.
OneMoveAtATime ==
  \A t \in Teams, m \in Moves : ~doubt[t] /\ Touches(m, t) =>
    /\ key[m] = t /\ TeamOf[ticket[m]] = t
    /\ \A n \in Moves : Touches(n, t) => n = m
    /\ previous[m] \in Lists(t)
    /\ cache[t] = Shift(previous[m], ticket[m], target[m])
    /\ status[m] \in {"sent", "rejected"} => ListOf(t) = previous[m]
    /\ status[m] \in {"ok", "unheard"} => ListOf(t) = cache[t]

\* With no move under way the list is the database.
RestingCacheIsCurrent ==
  \A t \in Teams : ~doubt[t] /\ ~Busy(t) /\ cache[t] # NoData => cache[t] = ListOf(t)

\* The inductive invariant.
IInv ==
  /\ TypeOK
  /\ DataPresent
  /\ CleanFetchIsCurrent
  /\ OneMoveAtATime
  /\ RestingCacheIsCurrent

\* A team's board shows the database again as soon as everything has come
\* back: moves one after the other, confirmed or refused, and refetches between
\* them leave no trace, and one refetch that overlaps nothing repairs what
\* overlapping moves, lost responses, or a switch of the team during a move
\* have left behind (useMoveTicket).
QuietBoardIsCurrent ==
  \A t \in Teams : Quiet(t) /\ cache[t] # NoData /\ ~doubt[t] => cache[t] = ListOf(t)

\* A dropped card stays where it was dropped until its PATCH is answered: the
\* response to a fetch that was sent before the drop never takes it back
\* (onMutate's cancelQueries).
CardStaysDropped ==
  \A m \in Moves : InFlight(m) /\ ~doubt[key[m]] => cache[key[m]][ticket[m]] = target[m]

\* BoardPage.tsx:2 "the Kanban board for one selected team" and api.ts:5
\* "`useBoardTickets` fetches ALL tickets for the selected team": the list of a
\* team has the tickets of that team.
BoardsApart ==
  \A t \in Teams : cache[t] # NoData => DOMAIN cache[t] = TicketsOf(t)

\* REQUIREMENTS.md:78: "On failed drag update: card returns to previous
\* column + UI error."
EveryFailureIsShown == \A m \in Moves : status[m] = "failed" => m \in toasts

=============================================================================

# TLA+ models of the ticket tracker

Specifications, model-checking runs and machine-checked proofs for the ticket
tracker in `src/`: a Fastify backend over PostgreSQL (Prisma), and a React
front end that keeps its copy of the data in TanStack Query. File names below
are relative to `src/`.

## 1. Inventory

| Component | State | Operations | Talks to | What is hard |
|---|---|---|---|---|
| Schema (`backend/prisma`) | six tables; unique e-mail and team name, RESTRICT and CASCADE keys | the statements of the handlers | all modules | the only thing that holds under every interleaving |
| Dispatch (`backend/src/app.ts`, `core/modules.ts`, `core/errors.ts`, `server.ts`) | requests in progress | route, reply, map errors, die | modules | handlers interleave at every `await`; a crash keeps half of a handler's statements |
| Teams, epics (`modules/teams`, `modules/epics`) | none of their own | create, rename or update, delete with a dependency check | schema | the check and the delete are separate statements |
| Tickets (`modules/tickets`) | a copy of the row during `updateTicket` | create, PATCH, delete | schema | validation and the dirty check use reads that are stale by the time of the write |
| Comments (`modules/comments`) | none | create | schema | the ticket may go between the check and the insert |
| Accounts (`modules/auth`, `mail`) | users, verification tokens, mails | sign up, verify, resend, log in | schema, mail server | a transaction with row locks, tokens that expire and supersede each other, mail that fails |
| Session (`core/auth.ts`, `frontend/src/lib`) | signed token, its copy in the browser's storage, the user in memory | requireAuth, log in, log out, resume | everything | expiry while requests are in flight, tabs that share the storage |
| Board (`frontend/src/features/board`) | one cached list per team, pending moves, toast | fetch, switch the team, drag, rollback | backend, query cache | optimistic updates that overlap each other, refetches, and a switch of the team |
| Ticket pages (`features/tickets`, `features/comments`) | cached ticket and comments, a form over a copy, pending mutations | view, create, save every field, delete, comment | backend, query cache, router | answers that arrive after a newer fetch or on another page; components without a key, which one ticket's page leaves to the next; a slow editor takes back what others changed |
| Management pages (`features/teams`, `features/epics`) | cached lists and references, a dialog, pending mutations | create, rename or edit, delete, filter | backend, query cache | delete buttons guarded by cached answers; mutations that wait for refetches |
| Auth pages (`features/auth`) | fields, what a page waits for, what it reports | sign up, log in, resend, verify, redirect | backend, session, router | calls that outlive their page or are cut; an effect that runs twice in StrictMode and spends a single-use link |
| Filters, contract package, configuration | none, or fixed at start | pure functions; reading the environment | | boundaries only |

What makes them correct, in a sentence each: rows refer only to rows that are
there, whatever is deleted at the same time; team names and addresses are
unique in every spelling; a request either does all of what it says, at one
instant, or is refused for a reason that was true; a PATCH changes only what it
names; a link verifies its account once; a session needs a verified account;
a request acts as the user the page shows; a page that waits is answered;
the board and the pages show the database as soon as everything has come back,
and a success is reported when the lists it concerns have been fetched again.
The last two hold with exceptions that the runs name (section 3).

## 2. Modules

| Module | Models | Notes |
|---|---|---|
| `Database` | schema and migration: rows, keys, what a statement does | an id is the request that inserts the row |
| `Contract` | the calls the OpenAPI contract lets through, the statuses it declares, reply codes, rows asked for | |
| `Requests` | arrival, awaiting, reply, crash | `pc[r]` names the Prisma call that request `r` awaits |
| `TeamsApi`, `EpicsApi`, `TicketsApi`, `CommentsApi` | the handlers, one action per Prisma call | each extends `Requests` |
| `Backend` | composes the four over one database | properties, inductive invariant, refinement |
| `TrackerApi` | abstract: every call in one indivisible step | `Backend` implements it (`ImplementsApi`) |
| `Accounts` | sign-up, verification, resend, login, mail, expiry | its own tables; transaction with row locks |
| `AccountLifecycle` | abstract: free, unverified, verified; links issued, revoked, spent | `Accounts` implements it (`ImplementsLifecycle`) |
| `BoardCache` | the board's lists in one browser, one per team; moves, refetches, switches, edits elsewhere | one PATCH is one step |
| `Queries` | TanStack Query's cache as the pages use it | operators from cache to cache; external |
| `Management` | teams page and epics page: lists, references, dialogs, mutations | extends `Queries` |
| `TicketPages` | the details, comments and forms of several tickets in one browser, their mutations | extends `Queries`; an update reads the row and writes what differs from its copy |
| `Session` | tokens: issued, stored, held by tabs, sent, expired, checked by `requireAuth` | a token is named after its login |
| `AuthPages` | the four pages before the session, in one tab | the backend reduced to accounts and the link that works |
| `BackendProofs`, `ApiProofs`, `AccountsProofs`, `BoardProofs`, `ManagementProofs`, `TicketPagesProofs`, `SessionProofs`, `AuthPagesProofs` | proofs | `ApiProofs` extends `BackendProofs` |
| `MCBackend`, `MCAccounts`, `MCBoard`, `MCManagement`, `MCTicketPages`, `MCSession`, `MCAuthPages` | small instances | call sets, snapshots, symmetry, the order of arrivals |

### How a handler becomes actions

Node runs a handler without interruption from one `await` to the next. The
action named like a label runs the statement that the request awaits *and* the
code after it up to the next `await` or the reply: every early return and error
branch is a disjunct. Prisma's single calls are atomic in PostgreSQL; a
constraint that rejects one is a predicate of `Database`, and the branch it
leads to is the handler's `catch`, or `INTERNAL` where there is none.
`countDependents` runs twice, because `Promise.all` sends two counts that may
return in either order. `reply[r]` is the outcome the handler reached; `Crash`
loses every request in progress and keeps what was written.

`verifyEmail` is the one transaction. Between `claim` and `commit` its writes
are invisible to others; `Claimed` and `UserLocked` say who holds the row locks,
a statement that needs one waits (its guard), and looks at the row again. The
`deleteMany` of a resend is two actions for that reason: it selects the rows it
can see, waits for their locks, and deletes those that are still unused.

Each request of an instance is served once, so the number of requests is the
only bound the backend and account models need. A request that a client repeats
is another request. `Finished` and `AtRest` are the stutter of an instance that
has nothing left to do: TLC's deadlock check stays on in every run and reports
a handler that is stuck on a lock.

### How a page becomes actions

A browser runs one callback at a time, so each callback is an action, with the
redraw it causes: what a redraw mounts starts its fetches, what it unmounts
loses its state and the callbacks given to `mutate()` (`live` holds the
mutations whose callbacks will still run), while those given to `useMutation`
always run. A fetch is asked, answered by the server, and ended by its arrival;
any number of other steps fit in between. A mutation is sent, carried out or
refused, and heard of, or never (`unheard`: the response is lost).

`Queries` says what the cache does: a mounted query joins a fetch that is under
way; an invalidation or a refetch replaces it, unless the query has no data
yet, when it joins as well; `setQueryData` leaves it alone; `removeQueries`
drops it. A query that fails keeps its data and is drawn as an error.

In `Management` the promise of `invalidateQueries`, which `onSuccess` returns,
keeps a mutation pending: `wait` is the set of keys that have not come back.
`asked` is the set of lists that were then observed and are fetched anew.
`TooEarly` says which observed list is not: one without data whose fetch the
backend has already answered, which the invalidation joins.

In `TicketPages` view and edit share one `ExistingTicket`, because both routes
render the same component in the same place, so going from one to the other of
the same ticket asks for nothing; `orphan` is the entry such a page still shows
after `removeQueries` until it is drawn again. None of its components has a
key, so a page of another ticket, if that is cached, keeps the form or the view
that is there: `Draw` compares what is shown before and after, keeps the form
and the mutations of what stays, and gives a mutation that is pending the new
ticket (`call[c].key`), whose entries its answer will change, while the request
still names the one it was sent for (`call[c].on`). `Go` lets the user open any
page of any ticket at any time. The code has no link from one ticket to
another: such a step is a jump in the browser's history, to a page visited
before, so `Go` allows more than the browser does, never less.

An update is two steps there, as it is in the backend: `ReadCopy` reads the row
and validates what the form sent, `WriteDirty` writes the columns that differ
from that copy (`Merged`), and `SkipWrite` answers with the copy if none does.
Two saves that overlap may therefore leave a ticket in an epic of another team;
rows, forms and other users' edits are not restricted to rows that fit.

In `BoardCache` a drawing for another team gives the mutation that is pending
the options of that drawing: `key[m]` is the team whose list the callbacks of
move `m` will write, and `SelectTeam` changes it for the latest move. Older
moves keep theirs.

In `Session` a tab is an `AuthProvider`: `token[t]` is its React state, read
from `storage` when the tab was loaded, and a request carries what the storage
holds when it is sent. `foreign[t]` remembers that another tab has written the
storage since. A login whose form has gone is still heard, as long as its
document lives (`alive`), because `onSubmit` goes on after its `await`. The
clocks of browser and backend let a token expire each at its own time.

In `AuthPages` a call has an `ear`: its page while that is mounted, then the
abandoned function of the same document, of which only `login` still does
something, then nobody. A link opened in StrictMode belongs to the abandoned
function at once, because the effect's clean-up has cancelled it for the page
and `startedRef` keeps the second run from sending it again. `good` remembers
that only this page can have spent its link.

### What is abstracted

* Columns no property tells apart: `createdBy`, `authorId`, `createdAt`, the
  `modifiedAt` of teams and epics. A ticket's `type` behaves like its `state`,
  its `body` like its `title`; one column stands for both. An epic's
  `description` is left out, so that a PATCH of an epic may name no column. `modifiedAt` counts its refreshes.
* Texts are members of small sets; `Trim`, `Fold` (citext) and `Normalize`
  (`normalizeEmail`) are functions on them, never the identity in a run.
* A token's id stands for its random value, a password for its Argon2id hash.
* GET routes change nothing and are left out, as are wording and logging.
  Business requests are entered after `requireAuth` and schema validation.
* On the board a ticket is the column it is in, the filters are off, no ticket
  changes its team, the list of teams does not change, and the backend's PATCH
  is one step that may fail. A list that has been unused for five minutes,
  which the cache drops, is left out. TanStack Query
  and dnd-kit are modelled as this code relies on them: one fetch per key,
  `cancelQueries` drops its result, callbacks of `useMutation` always run,
  those of `mutate()` only for the latest call of a page that is still mounted.
* On the management pages a row is its id, and the texts in the dialogs are left
  out; on the ticket pages team and epic stand for all columns. A version
  number tells apart what edits write. The option lists of the ticket form are
  fixed. Teams, epics, comments, new tickets and deletes are written in one step
  there, which `ImplementsApi` justifies; an update of a ticket is not (above).
  The board and other users are `EditElsewhere`, which writes any columns of a
  row or deletes it.
* In `Session` a signature is taken to hold, so a bearer is a token that was
  issued or none. In `AuthPages` a password is right or wrong by choice of the
  step that checks it, an expired link is a spent one, and field errors other
  than the address's are the choice between sending a form and not.
* A browser that goes offline, which suspends fetches and mutations, is left out.
* `clean` and `doubt` in `BoardCache`, `doubt`, `moves`, `call[c].from` and
  `form.chosen` in `TicketPages`,
  `shownAs`, `foreign`, `astray` and `dropped` in `Session`, `edited` and `good`
  in `AuthPages` are history variables: no guard reads them. They say what
  "without overlap" means, or whom a request was sent for.

## 3. Runs

Passing runs:

| Run | Instance | Shows |
|---|---|---|
| `teams` | 3 requests; from an empty database up to a team with an epic and a ticket; two spellings of a name, another, a blank | no dangling reference, no second spelling of a name, deletes are final, every reply has a declared status, every answer is one of the atomic API |
| `tickets` | 2 requests; two teams with an epic each, a ticket with and without epic; every PATCH, creates, comments, and the deletes of all of them | a PATCH never takes back another column, `modifiedAt` moves only with a real change when the copy is fresh, an inserted ticket is in its epic's team and a fresh edit keeps it there, deletes are final, every reply has a declared status or is a 500 for a parent that vanished, atomic API |
| `accounts` | 3 requests and a fourth that follows a link; one address in two spellings; right and wrong passwords; expiry, rollback, crashes; fairness | one account per address, sessions only for verified accounts, single use, a token used exactly when it verified, superseded tokens stay dead, the life cycle, no deadlock, every request ends |
| `board` | 2 teams with 2 and 1 cards, 2 columns, 2 moves, 2 refetches or switches, 1 edit elsewhere | without overlap a quiet board is the database, a clean refetch repairs the rest, a dropped card stays |
| `management` | a team, an epic, a ticket; 2 mutations, 2 events; fairness | a reported success is in the lists that were shown or loading, but for a first fetch that was answered before; a delete guard with current data is right, no mutation and no button stays pending |
| `ticket_pages` | 2 teams, an epic, one ticket or none in a row that may hold an epic of another team, 5 events; or two tickets of one team, there or not, 4 events; 2 mutations; fairness | ticket and comments are current unless something named overlapped, once team or epic has been chosen a form's epic is of its team, a late answer moves nobody who has gone to another kind of page, everything comes back |
| `session` | 2 tabs, 2 users, 2 logins, 2 requests; localStorage there or not | a request acts as the user its tab shows, unless another tab wrote the storage; it is refused only after expiry; a dropped token is never sent |
| `auth_pages` | 1 address in any state, 3 calls; with and without StrictMode; fairness | a page waits exactly while it has a call, its reports are true, a fresh link is not refused, nothing waits for ever unless it was cut |

Why the bounds are enough: every race in these handlers is between two
requests over one row, or between two and the delete or insert of a row they
refer to, which is what three requests are for. The row locks need a fourth:
two links of one account (a sign-up and a resend) and two requests that follow
links; `Arrivals` lets a fourth request come only in that case, and lets
requests arrive in the order of their numbers, since they are interchangeable.
On the board two overlapping moves, of one team or of two, with a switch in
between, give every order of confirm and roll back; two refetches give one that
is overtaken and one that is clean. On the management pages an event is a visit, a
filter, a retry, a mutation, a failure or a change elsewhere; two of them meet
in every order with the fetches that the first page starts, and each of the
properties is lost within two events if the code is changed. On the ticket pages
five events are: open, edit, save, leave and open again; four are: open one
ticket, open the other, go back and delete or save, and go to the other while
the answer is on its way. Mixed rows and the choices in the form need one ticket
and two teams; what a page leaves to the next one needs two tickets and no
second team. `MCTicketPages` has both as one run, told apart by whether the
second ticket is ever there, because all at once are too many states. Two
tickets are enough for a key that is the wrong one.
A session needs two tabs with a login each, of the same
user or of two, and two requests so that one is sent before and one after.
On the auth pages three calls are a sign-up, its link and a login, or a link, a
resend that replaces it and another page's answer that comes late; two
addresses with two calls were checked as well and show nothing more. What the
user does there is not bounded, only the calls. Requests are interchangeable,
as are cards of a team, columns, moves, tabs, users and logins, so the runs use
symmetry, but for those that check liveness, where symmetry is not sound.

In `teams` and `tickets` the call sets leave out calls about rows
that no request of the instance can have created in time to matter; they are
written out in `MCBackend`.

Runs that find a disagreement between the code and its documents:

| Run | The document | The code |
|---|---|---|
| `epic_in_team` | `tickets/service.ts:9`: the epic belongs to the ticket's team | one PATCH changes the team, another sets an epic; both were validated against the old row |
| `one_live_link` | `auth/tokens.ts:28`: a new token supersedes prior unused ones | delete and insert of two resends interleave; two links work |
| `boards_apart` | `BoardPage.tsx:2`: the board for one selected team; `board/api.ts:5`: all tickets for the selected team | a drag that fails after the team was switched puts the first team's list into the second team's cache, and leaves its own as it is |
| `failure_shown` | `REQUIREMENTS.md:78`: a failed drag shows an error | the toast belongs to the latest drag of a mounted page |

The strongest property that does hold is checked beside each one
(`FreshEditKeepsEpicInTeam`, `SupersededTokensDead`, `QuietBoardIsCurrent`,
which one clean refetch restores after either failure on the board). A
clobbered board does not always heal on the other move's `onSuccess`, as
`R5-code-review.md:29` has it: that may have come first. `QuietBoardIsCurrent`
therefore speaks of a board on which nothing overlapped since the last clean
refetch.

More of this kind shows in the conditions of properties that hold:

* `FreshWriteIsRealChange` speaks of fresh copies only, because two equal
  PATCHes are both dirty against the copy they read and the second advances
  `modifiedAt` for nothing (`tickets/service.ts:14` says it advances only on a
  real change).
* `RepliesAreDeclared` exempts tickets and comments, whose parent may vanish
  before the insert and leave a 500.
* `GuardIsRight` speaks of delete buttons whose reference queries have both been
  answered: a query that failed counts as one without rows, and the button is
  enabled (`TeamsPage.tsx:4` says it is disabled for teams with epics or
  tickets). The backend refuses the delete all the same.
* `SuccessIsVisible` exempts lists that the page does not observe, which are
  fetched when they are next shown, and a list whose first fetch had been
  answered when the success was heard (`TooEarly`). In that case a team created
  while the list is loading is reported over a list without it, although
  `docs/quality/qa/manual-checklist.md:23` says that the list reflects changes.
* `CommentsAreCurrent` exempts the same of a comment that was added while the
  first fetch of the list was on its way (`CommentDoubt`): the page goes on to
  say that there are none, although `manual-checklist.md:39` says that the
  comment appears.
* `TicketIsCurrent` exempts a ticket from the moment that somebody else changes
  it, a response is lost, or an answer is overtaken by a later change, until it
  is fetched again (`doubt`). It also exempts both tickets when a page goes on
  from one to the other under a pending mutation: the answer to a save is then
  written to the other ticket's entry, whose page shows the wrong ticket, and a
  delete removes that entry (`tickets/api.ts:145`, `:160`), against
  `TicketDetailPage.tsx:4`. A form that stays under the other ticket's URL keeps
  its values, and a save writes them to the other ticket, against
  `TicketDetailPage.tsx:5` ("pre-filled form"). A `key` on `ExistingTicket`
  would end both.
* `FormEpicInTeam` speaks of forms in which the user has chosen team or epic.
  One that was filled from a row with an epic of another team (`epic_in_team`)
  offers to save that row as it is, and the backend refuses it.
* `AnswersMoveTheirPageOnly` allows that an answer moves the user from another
  ticket's page of the same kind: the callbacks of `mutate()` stay with the
  component.
* `RequestsActAsShown` exempts a tab after another tab has logged in or out:
  its requests carry the other user's token under the old user's name, although
  `lib/auth.tsx:65` calls the storage the single source of the token. It also
  exempts browsers without localStorage, where `lib/auth.tsx:78` says the
  session stays in memory, but requests carry no token at all.
* `ComesBack` exempts calls that the network cuts: `fetch` rejects, nobody
  catches it, and the form waits until the page is left. It exempts
  `VerifyEmailPage` in StrictMode, where the answer was cancelled and the page
  shows its spinner for ever; the address is verified all the same.
* `SuccessIsTrue` exempts a form whose address was edited while it waited: the
  panel of `SignupPage` then names the address of the field, not the one that
  was signed up. And an answer to an abandoned login still signs in.

### Fairness

`RequestsEnd` needs `WF_vars(Progress(r))` for every request. Node runs every
callback whose I/O has completed, and PostgreSQL grants a lock that is free to
whoever waits for it; Argon2 and the mail transport return or fail. `Settles`,
on both kinds of pages, needs `WF_vars(Work)`: as long as a fetch or a mutation
is under way, the backend or the browser does something about it. That is weak:
no fetch and no mutation has fairness of its own, since with a bounded number of
events there is only so much work.
`ComesBack` needs `WF_vars(Serve(c))` and `WF_vars(Hear(c))` for every call,
because the user may go on for ever (type, leave, come back) while a call is
under way, and `WF_vars(Redirect)` for the timer of `VerifyEmailPage`: the
backend answers what it was asked, the browser runs the continuation of a
settled promise, and a timer fires while its page stays.
Nothing is assumed of clients, of the clock, of crashes or of rollbacks: a
request is answered even if no transaction is ever timed out.

## 4. Proofs

Every theorem holds for any number of requests, rows, texts, teams, cards, moves,
tabs, users and calls.
The assumptions are the named `ASSUME`s: markers such as `NoRow`, `NoData`, `All`
and `Gone` are no rows and no answers, the ids of teams, epics and tickets
differ, `Trim`, `Normalize` have their types, calls come from the contract, the
bounds of the front end's modules are natural numbers. In the code a marker is
`null`, `undefined` or a value of another type, and an id is a fresh uuid.

**`BackendProofs`** `TypeCorrect`, `ReferentialIntegrity`, `TeamNames`,
`InductiveInvariant`, `InsertedTickets`, `FreshEdits`, `DeclaredReplies`,
`FinalDeletes`, `EditsAreOwn`, `RealChanges`. References alone are
inductive only with the types, and the types of a written row only with what
its handler knows of its call (`HandlersOK`). The two action properties need
`ApprovalsHold`: the epic that `validateReferences` approved for a request
still belongs to the approved team if it exists, because no statement changes
an epic's team; and it cannot be deleted and come back as another one, because
a request inserts at most once (`InsertedOnce`). The write then re-checks
existence through its foreign key. `InsertedOnce` also makes deletes final: a row
that was deleted had been there, so the request with its id is answered and
inserts nothing more (`DeletesFinal`), and what is not there is referred to by
nothing. The replies need that a handler knows what kind of call it serves. That a
current edit makes a real change needs one fact more: an edit that awaits its
write has found its copy dirty (`WritesAreDirty`).

**`ApiProofs`** `BackendImplementsApi`: `Backend` implements `TrackerApi`. The
mapping leaves tables and calls alone and reads a request's answer off its reply
(`Settled`), but for the delete of a team, which is settled when the first of
its two counts finds something: at that instant the team is referenced, and
what the other count sees later no longer matters. `Receive` is `Ask`; a
statement after which the handler awaits another one is a stutter (`MovesOn`),
as are crashes; a statement after which it replies is `Serve`, with the
disjunct of its kind of call. What a handler remembers from earlier statements
is what makes the guards of `TrackerApi` true: the text was not blank
(`HandlersOK`), the epic is of the ticket's team (`ApprovalsHold`), an edit has
something to write (`WritesAreDirty`), and a delete that still counts, or is
past counting, has replied nothing (`CountsInOrder`).

**`AccountsProofs`** `AccountsInvariant`, `OneAccount`, `VerifiedByToken`,
`LinksWorkOnce`, `SupersededStayDead`, `SessionsVerified`, `NoDeadlock`,
`AccountsImplementLifecycle`. The argument stands
on two lemmas about the tables: accounts only grow (`UsersGrow`), and a token
becomes usable only when it is issued (`TokensEvolve`). Single use needs that a
transaction between claim and commit has its token unused and to itself
(`ClaimsExclude`), and that whoever was redirected has used its token
(`RedirectsUse`): a second commit would need a token that is both. Sessions
need that login's copy stays true in every column but `emailVerified`, which
only becomes true (`CopiesHold`). Superseded tokens stay dead because every
token a resend selected was inserted by a request that is past inserting
(`RowsInOrder`).
`NoDeadlock` is the safety core of `RequestsEnd`: at most one transaction holds
a row that another needs (`ClaimsExclude`, `UserLocksExclude`), and it can go on
or waits for one that can, since a token is locked before its user.
In the refinement `CreateUser` is the registration of an address, `IssueToken`
and `DeleteUnused` issue and revoke links, `Commit` verifies the address and
spends the link in one step, `CheckPassword` grants a session; everything else,
expiry and crashes included, is a stutter. Each step is mapped address by
address, link by link and request by request (`StatusStays`, `LinkStays`,
`GrantedStays` say what leaves one of them as it is); `OneAccountPerEmail` makes
the status of an address that of its one account, and that a session is granted
only when the status is `verified` is `CopiesHold` again.

**`BoardProofs`** `BoardInvariant`, `QuietBoard`, `DroppedCards`. The invariant
says what the history is worth, for each team: while nothing has overlapped
there is one move of that team at a time, it writes that team's list, its kept
list is the database before the move and the cache the database after it, and a
fetch brings back the database as it still is. A step is looked at team by
team: `Untouched` says that nothing changes for a team whose list, fetch, cards
and moves a step leaves alone, and the rest is about the one team it touches.

**`ManagementProofs`** `ManagementInvariant`, `SuccessIsShown`, `GuardsAreRight`,
`NobodyWaitsInVain`. Every list that is cached or on its way is the answer of
an earlier moment, marked with its version, and of the present one if nothing
has changed since (`PastCache`): that is what makes a guard right whose answers
are of now. A mutation that was carried out has, for each list it has asked
for, either a fetch under way that cannot bring anything older than the
mutation, or data that are new enough (`SeenFrom`), and a list it still waits
for is being fetched (`WaitsAreServed`). Leaving a page, a filter, a failed
fetch and a second invalidation keep this. `asked` leaves out what the
page did not observe and a first fetch that had been answered, as the code does.
A success is then shown when the mutation stops waiting, and no mutation waits for a list that nobody
fetches, which is what `Settles` needs besides fairness.

**`TicketPagesProofs`** `Invariance`, `FormIsRight`, `NobodyIsMovedLater`,
`StaysUpToDate`, `TicketShownIsCurrent`, `CommentsShownAreCurrent`, for any number
of tickets. Nothing is assumed of rows but that each keeps its id (`RowsOK`):
the invariant says what is on the page for its URL and its entry (`DrawnOK`),
that a form in which a choice has been made fits, and what is known of a mutation
until it has been heard (`CallsOK`): an update's copy and answer are rows of the
ticket it names, and a mutation that still has callbacks was sent since the user
came to this kind of page. One lemma (`DrawSafe`) says what drawing the page
does, and every action that draws it refers to that lemma. Nobody is moved later
because going to another kind of page loses all callbacks.
What is shown is current because of `Currency`, which is stated key by key:
unless something has put it in doubt, an entry shows the database, or will when
the answer that is on its way has arrived (`Shows`), or a mutation that made the
last change has still to be heard of (`TicketAwaited`, `CommentAwaited`). An
answer that is written to another ticket's key puts both in doubt
(`UpdateDoubt`), a fetch that asks afterwards takes its key out of doubt. It
needs that an entry without data shows no error while it is fetched
(`FetchesInOrder`). `DrawFetches` and `DrawCurrency` say once what drawing the
page does to every key.

**`SessionProofs`** `SessionInvariant`, `ActingUser`, `LogoutIsFelt`. Whom a
request acts as follows from two facts about the tab that sends it: the user it
shows is that of its token (`UserOfToken`), and its token is what the storage
holds unless another tab has written it since (`CopiesAgree`). That a login
keeps its user needs that a token in use was heard (`TokensHeard`), so that it
is not one that is still to be sent. A dropped token does not come back because
the storage only takes tokens it has not held before.

**`AuthPagesProofs`** `AuthPagesInvariant`, `FreshLinks`. Calls are only added,
answered, given up and forgotten; one lemma (`FadedCalls`) says what leaving a
page does to all of them. A page waits exactly for the one call of its kind
that it still hears (`WaitsForItsCall`), which makes every answer it hears its
own; an owner's link stays the one that works because no other call that could
spend it is under way (`LinkIsOurs`).

Only model-checked: `RequestsEnd`, `Settles` (on both kinds of pages) and
`ComesBack`, since liveness under fairness is outside of what the proof system
supports. Their safety cores are proved where they are more than a reading of
the guards: `NoDeadlock`, `NobodyWaitsInVain`, and `WaitsForItsCall` in the
invariant of the auth pages. Every other property of a passing run is a theorem.

## 5. Plan

In this order; all are done.

1. Backend: database, four handlers, `TrackerApi`; runs `teams`, `tickets`;
   proof of the invariant.
2. Accounts: `Accounts`, `AccountLifecycle`; run `accounts`; proof.
3. Board: `BoardCache`; run `board`; proof.
4. Management pages: `Queries`, `Management`; run `management`.
5. Ticket pages: `TicketPages`, with several tickets and updates in two steps;
   run `ticket_pages`; proof of the form and of late answers.
6. `Session`: tokens, expiry, `requireAuth`, the copies of several tabs; run
   `session`; proof.
7. `BoardCache` with several teams: the key of a pending move when the team is
   switched; run `boards_apart`; proof.
8. `AuthPages`: forms, late answers, the effect that runs twice; run
   `auth_pages`; proof.
9. Proofs about the pages: `Management`'s `SuccessIsVisible` and `GuardIsRight`,
   `TicketPages`' `TicketIsCurrent` and `CommentsAreCurrent`, and the inductive
   invariants they need.
10. `ImplementsLifecycle` and `ImplementsApi` as theorems: simulations step by
   step; deadlock freedom of the row locks.

## 6. Not modelled

* GET routes, envelopes, OpenAPI documents, logging: nothing they do changes
  state or depends on an order.
* Drawing, routing, styling and accessibility code of the front end; toasts, but for the board's
  and what the auth pages report.
* The board's filters: pure functions over one list, without state or order. A
  model would say what the code says.
* Configuration, start-up and container files: sequential, without shared state.
* The generated types of the contract package and its build script.
* Tests and e2e tests: read as evidence of what is intended.

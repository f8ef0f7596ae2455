------------------------------ MODULE Session -------------------------------
(***************************************************************************)
(* The session of a browser with several tabs (frontend/src/lib/auth.tsx,  *)
(* lib/api.ts, app/router.tsx, app/shell.tsx, the submit of LoginPage) and *)
(* the check of bearer tokens in the backend (core/auth.ts).               *)
(*                                                                         *)
(* The tabs share localStorage; each has read its token from there when it *)
(* was loaded, and keeps it in React's state.  A request carries what the  *)
(* storage holds when it is sent.  A bearer token is named after the call  *)
(* to POST /auth/login that returned it.                                   *)
(***************************************************************************)
EXTENDS Naturals

CONSTANTS
  Tabs,
  Users,
  Logins,      \* calls to POST /auth/login; each is made at most once
  Requests,    \* calls to the business routes; each is made at most once
  NoToken,
  NoUser

ASSUME SessionMarkers == NoToken \notin Logins /\ NoUser \notin Users

VARIABLES
  available,   \* localStorage can be used in this browser
  storage,     \* localStorage['tickets.auth.token'], or NoToken
  token,       \* tab -> AuthProvider's state, or NoToken
  user,        \* tab -> the user derived from it, or NoUser
  page,        \* tab -> "closed", "login", "public" (another page for all) or "app"
  waiting,     \* tab -> the call that the login form it shows waits for, or NoToken
  login,       \* login call -> where it is
  from,        \* login call -> its tab
  sub,         \* login call -> the user it is for, the `sub` of its token
  alive,       \* login calls whose tab has not been loaded again
  request,     \* request -> where it is
  bearer,      \* request -> the token it carries, or NoToken
  lapsed,      \* tokens that have expired by the browser's clock
  expired,     \* tokens that have expired by the backend's clock
  shownAs,     \* history: request -> the user its tab showed when it was sent
  foreign,     \* history: tab -> another tab has written the storage since this one used it
  astray,      \* history: requests sent by a foreign tab, or without storage
  dropped      \* history: tokens that were replaced or removed in the storage

tabVars == <<token, user, page, waiting>>
loginVars == <<login, from, sub, alive>>
requestVars == <<request, bearer, shownAs, astray>>
clockVars == <<lapsed, expired>>
vars == <<available, storage, tabVars, loginVars, requestVars, clockVars, foreign, dropped>>

Open(t) == page[t] # "closed"

\* readStoredToken, getStoredToken.
Stored == IF available THEN storage ELSE NoToken

\* decodeUser.
Decoded(l) == IF l = NoToken \/ l \in lapsed THEN NoUser ELSE sub[l]

\* The page that opens at an address: RequireAuth sends those who are not
\* signed in to the login page, LoginPage those who are to the app.
Routed(p, u) ==
  CASE p = "app" /\ u = NoUser -> "login"
    [] p = "login" /\ u # NoUser -> "app"
    [] OTHER -> p

\* Tab t takes a token and is at page p then; its form is gone.
Redraw(t, tok, p) ==
  /\ token' = [token EXCEPT ![t] = tok]
  /\ user' = [user EXCEPT ![t] = Decoded(tok)]
  /\ page' = [page EXCEPT ![t] = Routed(p, Decoded(tok))]
  /\ waiting' = [waiting EXCEPT ![t] = NoToken]

\* Tab t writes the storage.
Write(t, tok) ==
  /\ storage' = tok
  /\ dropped' = dropped \cup ({storage} \ {NoToken, tok})
  /\ foreign' = [s \in Tabs |-> s # t]

\* localStorage.setItem or removeItem, whose exception is swallowed.
WriteStorage(t, tok) ==
  IF available THEN Write(t, tok) ELSE UNCHANGED <<storage, dropped, foreign>>

(***************************************************************************)
(* The tab                                                                 *)
(***************************************************************************)

\* A page is opened or loaded again: AuthProvider reads the storage.
Load(t) ==
  /\ \E p \in {"login", "public", "app"} : Redraw(t, Stored, p)
  /\ alive' = {l \in alive : from[l] # t}
  /\ foreign' = [foreign EXCEPT ![t] = FALSE]
  /\ UNCHANGED <<available, storage, login, from, sub, requestVars, clockVars, dropped>>

\* A link within the app.
Go(t) ==
  /\ Open(t)
  /\ \E p \in {"login", "public", "app"} : page' = [page EXCEPT ![t] = Routed(p, user[t])]
  /\ waiting' = [waiting EXCEPT ![t] = NoToken]
  /\ UNCHANGED <<available, storage, token, user, loginVars, requestVars, clockVars, foreign, dropped>>

\* LoginPage's onSubmit; the button is disabled while it waits.
Submit(t, l) ==
  /\ page[t] = "login"
  /\ waiting[t] = NoToken
  /\ login[l] = "unused"
  /\ login' = [login EXCEPT ![l] = "sent"]
  /\ from' = [from EXCEPT ![l] = t]
  /\ \E u \in Users : sub' = [sub EXCEPT ![l] = u]
  /\ alive' = alive \cup {l}
  /\ waiting' = [waiting EXCEPT ![t] = l]
  /\ UNCHANGED <<available, storage, token, user, page, requestVars, clockVars, foreign, dropped>>

\* The backend issues a token or refuses; or the network fails.
ServeLogin(l) ==
  /\ login[l] = "sent"
  /\ \E s \in {"granted", "refused", "cut"} : login' = [login EXCEPT ![l] = s]
  /\ UNCHANGED <<available, storage, tabVars, from, sub, alive, requestVars, clockVars, foreign, dropped>>

\* Faulty variant: the token stays in memory only.
HearGrantUnstored(l) ==
  /\ login[l] = "granted"
  /\ l \in alive
  /\ login' = [login EXCEPT ![l] = "done"]
  /\ Redraw(from[l], l, "app")
  /\ UNCHANGED <<available, storage, from, sub, alive, requestVars, clockVars, foreign, dropped>>

\* onSubmit goes on, even if the user has left the login page: useAuth's login
\* and the navigation to where the user wanted to go.
HearGrant(l) ==
  /\ login[l] = "granted"
  /\ l \in alive
  /\ login' = [login EXCEPT ![l] = "done"]
  /\ Redraw(from[l], l, "app")
  /\ WriteStorage(from[l], l)
  /\ UNCHANGED <<available, from, sub, alive, requestVars, clockVars>>

\* A refusal is shown by the form that waits for it.  A rejected promise is
\* caught by nobody, and its form goes on waiting.
HearRefusal(l) ==
  /\ login[l] \in {"refused", "cut"}
  /\ l \in alive
  /\ waiting' = IF login[l] = "refused" /\ waiting[from[l]] = l
                THEN [waiting EXCEPT ![from[l]] = NoToken] ELSE waiting
  /\ login' = [login EXCEPT ![l] = "failed"]
  /\ UNCHANGED <<available, storage, token, user, page, from, sub, alive, requestVars, clockVars, foreign, dropped>>

\* Faulty variant: the storage keeps the token.
LogoutKeeping(t) ==
  /\ user[t] # NoUser
  /\ Redraw(t, NoToken, "login")
  /\ UNCHANGED <<available, storage, loginVars, requestVars, clockVars, foreign, dropped>>

\* UserMenu's onLogout.
Logout(t) ==
  /\ user[t] # NoUser
  /\ Redraw(t, NoToken, "login")
  /\ WriteStorage(t, NoToken)
  /\ UNCHANGED <<available, loginVars, requestVars, clockVars>>

(***************************************************************************)
(* Requests                                                                *)
(***************************************************************************)

\* A request of tab t, with the token that is given.
SendWith(t, q, tok) ==
  /\ page[t] = "app"
  /\ request[q] = "unused"
  /\ request' = [request EXCEPT ![q] = "sent"]
  /\ bearer' = [bearer EXCEPT ![q] = tok]
  /\ shownAs' = [shownAs EXCEPT ![q] = user[t]]
  /\ astray' = IF foreign[t] \/ ~available THEN astray \cup {q} ELSE astray
  /\ UNCHANGED <<available, storage, tabVars, loginVars, clockVars, foreign, dropped>>

\* Faulty variant: a request carries the token of its tab.
SendHeld(t, q) == SendWith(t, q, token[t])

\* The middleware of @/lib/api.
Send(t, q) == SendWith(t, q, Stored)

\* requireAuth lets the request act as the token's user, or refuses it; no
\* page does anything about a refusal but show it.
Serve(q) ==
  /\ request[q] = "sent"
  /\ request' = [request EXCEPT ![q] =
       IF bearer[q] = NoToken THEN "UNAUTHORIZED"
       ELSE IF bearer[q] \in expired THEN "TOKEN_EXPIRED" ELSE "acted"]
  /\ UNCHANGED <<available, storage, tabVars, loginVars, bearer, shownAs, astray, clockVars, foreign, dropped>>

\* Time passes: `exp` goes by on one of the two clocks.
Expire(l) ==
  /\ login[l] \in {"granted", "done"}
  /\ \/ lapsed' = lapsed \cup {l} /\ UNCHANGED expired
     \/ expired' = expired \cup {l} /\ UNCHANGED lapsed
  /\ UNCHANGED <<available, storage, tabVars, loginVars, requestVars, foreign, dropped>>

(***************************************************************************)
(* The specification                                                       *)
(***************************************************************************)

Init ==
  /\ available \in BOOLEAN
  /\ storage = NoToken
  /\ token = [t \in Tabs |-> NoToken]
  /\ user = [t \in Tabs |-> NoUser]
  /\ page = [t \in Tabs |-> "closed"]
  /\ waiting = [t \in Tabs |-> NoToken]
  /\ login = [l \in Logins |-> "unused"]
  /\ \E t \in Tabs : from = [l \in Logins |-> t]
  /\ \E u \in Users : sub = [l \in Logins |-> u]
  /\ alive = {}
  /\ request = [q \in Requests |-> "unused"]
  /\ bearer = [q \in Requests |-> NoToken]
  /\ shownAs = [q \in Requests |-> NoUser]
  /\ astray = {}
  /\ lapsed = {}
  /\ expired = {}
  /\ foreign = [t \in Tabs |-> FALSE]
  /\ dropped = {}

Next ==
  \/ \E t \in Tabs : Load(t) \/ Go(t) \/ Logout(t)
  \/ \E t \in Tabs, l \in Logins : Submit(t, l)
  \/ \E l \in Logins : ServeLogin(l) \/ HearGrant(l) \/ HearRefusal(l) \/ Expire(l)
  \/ \E t \in Tabs, q \in Requests : Send(t, q)
  \/ \E q \in Requests : Serve(q)

Spec == Init /\ [][Next]_vars

(***************************************************************************)
(* Properties                                                              *)
(***************************************************************************)

\* Every variable has its type.
TypeOK ==
  /\ available \in BOOLEAN
  /\ storage \in Logins \cup {NoToken}
  /\ token \in [Tabs -> Logins \cup {NoToken}]
  /\ user \in [Tabs -> Users \cup {NoUser}]
  /\ page \in [Tabs -> {"closed", "login", "public", "app"}]
  /\ waiting \in [Tabs -> Logins \cup {NoToken}]
  /\ login \in [Logins -> {"unused", "sent", "granted", "refused", "cut", "done", "failed"}]
  /\ from \in [Logins -> Tabs]
  /\ sub \in [Logins -> Users]
  /\ alive \subseteq Logins
  /\ request \in [Requests -> {"unused", "sent", "acted", "UNAUTHORIZED", "TOKEN_EXPIRED"}]
  /\ bearer \in [Requests -> Logins \cup {NoToken}]
  /\ shownAs \in [Requests -> Users \cup {NoUser}]
  /\ astray \subseteq Requests
  /\ lapsed \subseteq Logins
  /\ expired \subseteq Logins
  /\ foreign \in [Tabs -> BOOLEAN]
  /\ dropped \subseteq Logins

\* The user of a tab is that of its token, and nobody sees the app without one.
UserOfToken ==
  \A t \in Tabs :
    /\ user[t] # NoUser => token[t] # NoToken /\ user[t] = sub[token[t]]
    /\ page[t] = "app" => user[t] # NoUser

\* A tab's token is what the storage holds, unless another tab wrote it since.
CopiesAgree ==
  available => \A t \in Tabs : Open(t) /\ ~foreign[t] => token[t] = storage

\* Tokens that are in use come from answers that were heard, and what the
\* storage holds it has not held before.
TokensHeard ==
  /\ \A l \in Logins : l \in dropped \/ l = storage \/ (\E t \in Tabs : token[t] = l)
                         \/ (\E q \in Requests : bearer[q] = l) => login[l] = "done"
  /\ storage \notin dropped

\* Nothing is stored where nothing can be.
NothingStored == ~available => storage = NoToken

\* A request acts as the user that its tab shows, and is refused only because
\* its token has expired; this needs that localStorage works and that no other
\* tab has signed in or out since the tab was loaded or did so itself
\* (AuthProvider's login and logout, @/lib/api's middleware, requireAuth).
RequestsActAsShown ==
  \A q \in Requests : request[q] # "unused" /\ q \notin astray =>
    /\ bearer[q] # NoToken
    /\ shownAs[q] = sub[bearer[q]]
    /\ request[q] \in {"sent", "acted"} \/ bearer[q] \in expired

\* The inductive invariant.
IInv ==
  /\ TypeOK
  /\ UserOfToken
  /\ CopiesAgree
  /\ TokensHeard
  /\ NothingStored
  /\ RequestsActAsShown

\* A logout is felt in every tab: once the token has been removed from the
\* storage, or replaced there, no tab sends it again, not even one that still
\* shows its user (the middleware reads the storage each time).
DroppedIsNotSent ==
  [][\A q \in Requests : request[q] = "unused" /\ request'[q] # "unused" =>
       bearer'[q] \notin dropped]_vars

=============================================================================

--------------------------- MODULE SessionProofs ----------------------------
(***************************************************************************)
(* Proofs about Session, for any number of tabs, users, sign-ins and       *)
(* requests.                                                               *)
(***************************************************************************)
EXTENDS Session, TLAPS

(***************************************************************************)
(* The helpers                                                             *)
(***************************************************************************)

\* What is decoded from a token is a user or nobody, and from a token only.
LEMMA DecodedType ==
  ASSUME TypeOK, NEW tok \in Logins \cup {NoToken}
  PROVE  /\ Decoded(tok) \in Users \cup {NoUser}
         /\ Decoded(tok) # NoUser => tok # NoToken /\ Decoded(tok) = sub[tok]
BY DEF TypeOK, Decoded

\* Redrawing a tab keeps the types, and what it shows is what its token says;
\* the other tabs stay as they are.
LEMMA RedrawSafe ==
  ASSUME TypeOK, UserOfToken, NEW t \in Tabs, NEW tok \in Logins \cup {NoToken},
         NEW p \in {"login", "public", "app"}, Redraw(t, tok, p), sub' = sub
  PROVE  /\ token' \in [Tabs -> Logins \cup {NoToken}]
         /\ user' \in [Tabs -> Users \cup {NoUser}]
         /\ page' \in [Tabs -> {"closed", "login", "public", "app"}]
         /\ waiting' \in [Tabs -> Logins \cup {NoToken}]
         /\ UserOfToken'
         /\ token'[t] = tok
         /\ \A s \in Tabs \ {t} : token'[s] = token[s] /\ page'[s] = page[s]
<1>1. Routed(p, Decoded(tok)) \in {"login", "public", "app"}
      /\ (Routed(p, Decoded(tok)) = "app" => Decoded(tok) # NoUser)
  BY DEF Routed
<1>. QED
  BY <1>1, DecodedType DEF Redraw, TypeOK, UserOfToken

\* What a tab writes becomes the content of the storage; the old token is
\* dropped, and the copies of the other tabs may differ from now on.
LEMMA WriteSafe ==
  ASSUME TypeOK, TokensHeard, NothingStored, NEW t \in Tabs,
         NEW tok \in Logins \cup {NoToken}, tok \notin dropped,
         WriteStorage(t, tok), available' = available
  PROVE  /\ storage' \in Logins \cup {NoToken}
         /\ dropped' \subseteq dropped \cup ({storage} \cap Logins)
         /\ storage' \notin dropped'
         /\ NothingStored'
         /\ foreign' \in [Tabs -> BOOLEAN]
         /\ available => storage' = tok /\ \A s \in Tabs \ {t} : foreign'[s]
         /\ storage' \in {storage, tok}
<1>1. CASE available
  <2>1. /\ storage' = tok
        /\ dropped' = dropped \cup ({storage} \ {NoToken, tok})
        /\ foreign' = [s \in Tabs |-> s # t]
    BY <1>1 DEF WriteStorage, Write
  <2>. QED
    BY <1>1, <2>1 DEF TypeOK, NothingStored
<1>2. CASE ~available
  BY <1>2 DEF WriteStorage, TypeOK, TokensHeard, NothingStored
<1>. QED
  BY <1>1, <1>2 DEF TypeOK

(***************************************************************************)
(* The steps                                                               *)
(***************************************************************************)

LEMMA InitIInv == Init => IInv
BY SessionMarkers
   DEF Init, IInv, TypeOK, UserOfToken, CopiesAgree, TokensHeard, NothingStored, RequestsActAsShown, Open

\* Opening a page takes the storage's token into the tab.
LEMMA LoadStep ==
  ASSUME IInv, NEW t \in Tabs, Load(t)
  PROVE  IInv'
<1>1. TypeOK /\ UserOfToken /\ CopiesAgree /\ TokensHeard /\ NothingStored /\ RequestsActAsShown
  BY DEF IInv
<1>2. Stored \in Logins \cup {NoToken}
  BY <1>1 DEF Stored, TypeOK
<1>3. PICK p \in {"login", "public", "app"} : Redraw(t, Stored, p)
  BY DEF Load
<1>4. /\ alive' = {l \in alive : from[l] # t}
      /\ foreign' = [foreign EXCEPT ![t] = FALSE]
      /\ UNCHANGED <<available, storage, login, from, sub, request, bearer, shownAs, astray, lapsed, expired, dropped>>
  BY DEF Load, requestVars, clockVars
<1>5. /\ token' \in [Tabs -> Logins \cup {NoToken}]
      /\ user' \in [Tabs -> Users \cup {NoUser}]
      /\ page' \in [Tabs -> {"closed", "login", "public", "app"}]
      /\ waiting' \in [Tabs -> Logins \cup {NoToken}]
      /\ UserOfToken'
      /\ token'[t] = Stored
      /\ \A s \in Tabs \ {t} : token'[s] = token[s] /\ page'[s] = page[s]
  BY <1>1, <1>2, <1>3, <1>4, RedrawSafe
<1>6. TypeOK'
  BY <1>1, <1>4, <1>5 DEF TypeOK
<1>7. CopiesAgree'
  BY <1>1, <1>4, <1>5 DEF CopiesAgree, Open, Stored, TypeOK
<1>8. TokensHeard'
  <2>1. ASSUME NEW l \in Logins, NEW s \in Tabs, token'[s] = l
        PROVE  login[l] = "done"
    BY <1>1, <1>5, <2>1, SessionMarkers DEF Stored, TokensHeard
  <2>. QED
    BY <1>1, <1>4, <2>1 DEF TokensHeard
<1>9. NothingStored' /\ RequestsActAsShown'
  BY <1>1, <1>4 DEF NothingStored, RequestsActAsShown
<1>. QED
  BY <1>5, <1>6, <1>7, <1>8, <1>9 DEF IInv

\* A token that is stored, replaced or removed: the answer to a sign-in, or a
\* logout.
LEMMA TakeStep ==
  ASSUME IInv, NEW t \in Tabs, NEW tok \in Logins \cup {NoToken},
         NEW p \in {"login", "app"}, Redraw(t, tok, p), WriteStorage(t, tok),
         tok # NoToken => login[tok] # "done" /\ login'[tok] = "done",
         login' \in [Logins -> {"unused", "sent", "granted", "refused", "cut", "done", "failed"}],
         \A l \in Logins : login[l] = "done" => login'[l] = "done",
         UNCHANGED <<available, from, sub, alive, requestVars, clockVars>>
  PROVE  IInv'
<1>1. TypeOK /\ UserOfToken /\ CopiesAgree /\ TokensHeard /\ NothingStored /\ RequestsActAsShown
  BY DEF IInv
<1>2. UNCHANGED <<available, from, sub, alive, request, bearer, shownAs, astray, lapsed, expired>>
  BY DEF requestVars, clockVars
<1>3. tok \notin dropped
  BY <1>1, SessionMarkers DEF TokensHeard, TypeOK
<1>4. /\ token' \in [Tabs -> Logins \cup {NoToken}]
      /\ user' \in [Tabs -> Users \cup {NoUser}]
      /\ page' \in [Tabs -> {"closed", "login", "public", "app"}]
      /\ waiting' \in [Tabs -> Logins \cup {NoToken}]
      /\ UserOfToken'
      /\ token'[t] = tok
      /\ \A s \in Tabs \ {t} : token'[s] = token[s] /\ page'[s] = page[s]
  BY <1>1, <1>2, RedrawSafe
<1>5. /\ storage' \in Logins \cup {NoToken}
      /\ dropped' \subseteq dropped \cup ({storage} \cap Logins)
      /\ storage' \notin dropped'
      /\ NothingStored'
      /\ foreign' \in [Tabs -> BOOLEAN]
      /\ available => storage' = tok /\ \A s \in Tabs \ {t} : foreign'[s]
      /\ storage' \in {storage, tok}
  BY <1>1, <1>2, <1>3, WriteSafe
<1>6. TypeOK'
  BY <1>1, <1>2, <1>4, <1>5 DEF TypeOK
<1>7. CopiesAgree'
  BY <1>2, <1>4, <1>5 DEF CopiesAgree
<1>8. TokensHeard'
  <2>1. ASSUME NEW l \in Logins,
               l \in dropped' \/ l = storage' \/ (\E s \in Tabs : token'[s] = l) \/ (\E q \in Requests : bearer[q] = l)
        PROVE  login'[l] = "done"
    <3>1. l = tok \/ l \in dropped \/ l = storage \/ (\E s \in Tabs : token[s] = l) \/ (\E q \in Requests : bearer[q] = l)
      BY <1>4, <1>5, <2>1
    <3>. QED
      BY <1>1, <3>1, SessionMarkers DEF TokensHeard
  <2>. QED
    BY <1>2, <1>5, <2>1 DEF TokensHeard
<1>9. RequestsActAsShown'
  BY <1>1, <1>2 DEF RequestsActAsShown
<1>. QED
  BY <1>4, <1>5, <1>6, <1>7, <1>8, <1>9 DEF IInv

LEMMA HearGrantStep ==
  ASSUME IInv, NEW l \in Logins, HearGrant(l)
  PROVE  IInv'
<1>1. TypeOK
  BY DEF IInv
<1>2. from[l] \in Tabs /\ login[l] = "granted" /\ login' = [login EXCEPT ![l] = "done"]
  BY <1>1 DEF HearGrant, TypeOK
<1>3. /\ Redraw(from[l], l, "app") /\ WriteStorage(from[l], l)
      /\ UNCHANGED <<available, from, sub, alive, requestVars, clockVars>>
  BY DEF HearGrant
<1>4. /\ login' \in [Logins -> {"unused", "sent", "granted", "refused", "cut", "done", "failed"}]
      /\ login'[l] = "done" /\ \A k \in Logins : login[k] = "done" => login'[k] = "done"
  BY <1>1, <1>2 DEF TypeOK
<1>. QED
  BY <1>2, <1>3, <1>4, TakeStep

LEMMA LogoutStep ==
  ASSUME IInv, NEW t \in Tabs, Logout(t)
  PROVE  IInv'
<1>1. TypeOK
  BY DEF IInv
<1>2. /\ Redraw(t, NoToken, "login") /\ WriteStorage(t, NoToken)
      /\ UNCHANGED <<available, from, sub, alive, requestVars, clockVars>> /\ login' = login
  BY DEF Logout, loginVars
<1>. QED
  BY <1>1, <1>2, TakeStep DEF TypeOK

\* The steps of pages and of sign-ins that leave the tokens alone.
LEMMA QuietStep ==
  ASSUME IInv,
         \/ \E t \in Tabs : Go(t) \/ \E l \in Logins : Submit(t, l)
         \/ \E l \in Logins : ServeLogin(l) \/ HearRefusal(l) \/ Expire(l)
         \/ UNCHANGED vars
  PROVE  IInv'
<1>1. TypeOK /\ UserOfToken /\ CopiesAgree /\ TokensHeard /\ NothingStored /\ RequestsActAsShown
  BY DEF IInv
<1>2. UNCHANGED <<available, storage, token, user, request, bearer, shownAs, astray, foreign, dropped>>
  BY DEF Go, Submit, ServeLogin, HearRefusal, Expire, vars, tabVars, requestVars
<1>3. \A l \in Logins : login[l] = "done" => login'[l] = "done" /\ sub'[l] = sub[l]
  BY <1>1 DEF Go, Submit, ServeLogin, HearRefusal, Expire, vars, loginVars, TypeOK
<1>4. expired \subseteq expired'
  BY DEF Go, Submit, ServeLogin, HearRefusal, Expire, vars, clockVars
<1>5. /\ page' \in [Tabs -> {"closed", "login", "public", "app"}]
      /\ \A t \in Tabs : page'[t] # page[t] => Open(t) /\ (page'[t] = "app" => user[t] # NoUser)
  <2>1. ASSUME NEW t \in Tabs, Go(t)
        PROVE  /\ page' \in [Tabs -> {"closed", "login", "public", "app"}]
               /\ \A s \in Tabs : page'[s] # page[s] => Open(s) /\ (page'[s] = "app" => user[s] # NoUser)
    <3>1. PICK p \in {"login", "public", "app"} : page' = [page EXCEPT ![t] = Routed(p, user[t])]
      BY <2>1 DEF Go
    <3>2. Routed(p, user[t]) \in {"login", "public", "app"} /\ (Routed(p, user[t]) = "app" => user[t] # NoUser)
      BY DEF Routed
    <3>. QED
      BY <1>1, <2>1, <3>1, <3>2 DEF Go, TypeOK
  <2>2. CASE UNCHANGED page
    BY <1>1, <2>2 DEF TypeOK
  <2>. QED
    BY <2>1, <2>2 DEF Submit, ServeLogin, HearRefusal, Expire, vars, tabVars
<1>6. TypeOK'
  <2>1. ASSUME NEW t \in Tabs, Go(t) PROVE TypeOK'
    BY <1>1, <1>2, <1>5, <2>1 DEF Go, TypeOK, loginVars, clockVars
  <2>2. ASSUME NEW t \in Tabs, NEW l \in Logins, Submit(t, l) PROVE TypeOK'
    BY <1>1, <1>2, <2>2 DEF Submit, TypeOK, clockVars
  <2>3. ASSUME NEW l \in Logins, ServeLogin(l) PROVE TypeOK'
    BY <1>1, <1>2, <2>3 DEF ServeLogin, TypeOK, tabVars, clockVars
  <2>4. ASSUME NEW l \in Logins, HearRefusal(l) PROVE TypeOK'
    BY <1>1, <1>2, <2>4 DEF HearRefusal, TypeOK, clockVars
  <2>5. ASSUME NEW l \in Logins, Expire(l) PROVE TypeOK'
    BY <1>1, <1>2, <2>5 DEF Expire, TypeOK, tabVars, loginVars
  <2>6. CASE UNCHANGED vars
    BY <1>1, <2>6 DEF vars, TypeOK, tabVars, loginVars, requestVars, clockVars
  <2>. QED
    BY <2>1, <2>2, <2>3, <2>4, <2>5, <2>6
<1>7. UserOfToken'
  <2>1. \A t \in Tabs : token[t] # NoToken => login[token[t]] = "done" /\ token[t] \in Logins
    BY <1>1 DEF TokensHeard, TypeOK
  <2>. QED
    BY <1>1, <1>2, <1>3, <1>5, <2>1 DEF UserOfToken
<1>8. CopiesAgree'
  BY <1>1, <1>2, <1>5 DEF CopiesAgree, Open
<1>9. TokensHeard' /\ NothingStored'
  BY <1>1, <1>2, <1>3 DEF TokensHeard, NothingStored
<1>10. RequestsActAsShown'
  <2>1. \A q \in Requests : bearer[q] # NoToken => login[bearer[q]] = "done" /\ bearer[q] \in Logins
    BY <1>1 DEF TokensHeard, TypeOK
  <2>. QED
    BY <1>1, <1>2, <1>3, <1>4, <2>1 DEF RequestsActAsShown
<1>. QED
  BY <1>6, <1>7, <1>8, <1>9, <1>10 DEF IInv

\* A request of a tab whose copy is current carries its user's token.
LEMMA SendStep ==
  ASSUME IInv, NEW t \in Tabs, NEW q \in Requests, Send(t, q)
  PROVE  IInv' /\ bearer'[q] \notin dropped
<1>1. TypeOK /\ UserOfToken /\ CopiesAgree /\ TokensHeard /\ NothingStored /\ RequestsActAsShown
  BY DEF IInv
<1>2. /\ page[t] = "app"
      /\ request' = [request EXCEPT ![q] = "sent"]
      /\ bearer' = [bearer EXCEPT ![q] = Stored]
      /\ shownAs' = [shownAs EXCEPT ![q] = user[t]]
      /\ astray' = IF foreign[t] \/ ~available THEN astray \cup {q} ELSE astray
      /\ UNCHANGED <<available, storage, token, user, page, waiting, login, from, sub, alive, lapsed, expired, foreign, dropped>>
  BY DEF Send, SendWith, tabVars, loginVars, clockVars
<1>3. Stored \in Logins \cup {NoToken} /\ (Stored # NoToken => Stored = storage)
  BY <1>1 DEF Stored, TypeOK
<1>4. TypeOK'
  BY <1>1, <1>2, <1>3 DEF TypeOK
<1>5. UserOfToken' /\ CopiesAgree' /\ NothingStored'
  BY <1>1, <1>2 DEF UserOfToken, CopiesAgree, NothingStored, Open
<1>6. TokensHeard'
  <2>1. ASSUME NEW l \in Logins, NEW r \in Requests, bearer'[r] = l
        PROVE  login[l] = "done"
    BY <1>1, <1>2, <1>3, <2>1, SessionMarkers DEF TokensHeard, TypeOK
  <2>. QED
    BY <1>1, <1>2, <2>1 DEF TokensHeard
<1>7. q \notin astray' => Stored # NoToken /\ user[t] = sub[Stored]
  <2>1. SUFFICES ASSUME q \notin astray' PROVE Stored # NoToken /\ user[t] = sub[Stored]
    OBVIOUS
  <2>2. ~foreign[t] /\ available
    BY <1>2, <2>1
  <2>3. token[t] = Stored
    BY <1>1, <1>2, <2>2 DEF CopiesAgree, Open, Stored
  <2>. QED
    BY <1>1, <1>2, <2>3 DEF UserOfToken
<1>8. RequestsActAsShown'
  <2>1. SUFFICES ASSUME NEW r \in Requests, request'[r] # "unused", r \notin astray'
                 PROVE  /\ bearer'[r] # NoToken
                        /\ shownAs'[r] = sub[bearer'[r]]
                        /\ request'[r] \in {"sent", "acted"} \/ bearer'[r] \in expired
    BY <1>2 DEF RequestsActAsShown
  <2>2. CASE r = q
    BY <1>1, <1>2, <1>7, <2>1, <2>2 DEF TypeOK
  <2>3. CASE r # q
    BY <1>1, <1>2, <2>1, <2>3 DEF TypeOK, RequestsActAsShown
  <2>. QED
    BY <2>2, <2>3
<1>9. bearer'[q] \notin dropped
  BY <1>1, <1>2, <1>3, SessionMarkers DEF TokensHeard, TypeOK
<1>. QED
  BY <1>4, <1>5, <1>6, <1>8, <1>9 DEF IInv

\* The backend refuses a request that has a token only when it has expired.
LEMMA ServeStep ==
  ASSUME IInv, NEW q \in Requests, Serve(q)
  PROVE  IInv'
<1>1. TypeOK /\ UserOfToken /\ CopiesAgree /\ TokensHeard /\ NothingStored /\ RequestsActAsShown
  BY DEF IInv
<1>2. /\ request[q] = "sent"
      /\ request' = [request EXCEPT ![q] =
           IF bearer[q] = NoToken THEN "UNAUTHORIZED"
           ELSE IF bearer[q] \in expired THEN "TOKEN_EXPIRED" ELSE "acted"]
      /\ UNCHANGED <<available, storage, token, user, page, waiting, login, from, sub, alive, bearer, shownAs, astray, lapsed, expired, foreign, dropped>>
  BY DEF Serve, tabVars, loginVars, clockVars
<1>3. TypeOK'
  BY <1>1, <1>2 DEF TypeOK
<1>4. UserOfToken' /\ CopiesAgree' /\ TokensHeard' /\ NothingStored'
  BY <1>1, <1>2 DEF UserOfToken, CopiesAgree, TokensHeard, NothingStored, Open
<1>5. RequestsActAsShown'
  BY <1>1, <1>2 DEF RequestsActAsShown, TypeOK
<1>. QED
  BY <1>3, <1>4, <1>5 DEF IInv

(***************************************************************************)
(* The theorems                                                            *)
(***************************************************************************)

\* The inductive invariant of the sessions, for any number of tabs, users,
\* sign-ins and requests: what tabs and storage hold, and what follows for
\* the requests.
THEOREM SessionInvariant == Spec => []IInv
<1>1. Init => IInv
  BY InitIInv
<1>2. IInv /\ [Next]_vars => IInv'
  BY LoadStep, HearGrantStep, LogoutStep, QuietStep, SendStep, ServeStep DEF Next
<1>. QED
  BY <1>1, <1>2, PTL DEF Spec

\* A request acts as the user its tab shows, and is refused only when its
\* token has expired, unless another tab has changed the storage or nothing
\* can be stored, for any number of tabs.
THEOREM ActingUser == Spec => []RequestsActAsShown
<1>1. IInv => RequestsActAsShown
  BY DEF IInv
<1>. QED
  BY <1>1, SessionInvariant, PTL

\* No tab sends a token after it was removed or replaced in the storage by
\* any tab, for any number of tabs and sign-ins (the middleware of lib/api.ts).
THEOREM LogoutIsFelt == Spec => DroppedIsNotSent
<1>1. ASSUME IInv, [Next]_vars, NEW q \in Requests, request[q] = "unused", request'[q] # "unused"
      PROVE  bearer'[q] \notin dropped
  <2>1. PICK t \in Tabs : Send(t, q)
    <3>1. ASSUME NEW t \in Tabs, NEW r \in Requests, Send(t, r) PROVE r = q
      BY <1>1, <3>1 DEF Send, SendWith, IInv, TypeOK
    <3>2. ASSUME NEW r \in Requests, Serve(r) PROVE FALSE
      BY <1>1, <3>2 DEF Serve, IInv, TypeOK
    <3>3. ASSUME request' = request PROVE FALSE
      BY <1>1, <3>3
    <3>. QED
      BY <1>1, <3>1, <3>2, <3>3
      DEF Next, Load, Go, Logout, Submit, ServeLogin, HearGrant, HearRefusal, Expire, requestVars, vars
  <2>. QED
    BY <1>1, <2>1, SendStep
<1>2. IInv /\ [Next]_vars =>
        [\A q \in Requests : request[q] = "unused" /\ request'[q] # "unused" => bearer'[q] \notin dropped]_vars
  BY <1>1
<1>. QED
  BY <1>2, SessionInvariant, PTL DEF Spec, DroppedIsNotSent

=============================================================================

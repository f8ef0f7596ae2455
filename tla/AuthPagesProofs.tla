-------------------------- MODULE AuthPagesProofs ---------------------------
(***************************************************************************)
(* Proofs about AuthPages, for any number of addresses and calls.          *)
(***************************************************************************)
EXTENDS AuthPages, TLAPS

(***************************************************************************)
(* The calls                                                               *)
(***************************************************************************)

\* What is done to calls keeps their type.
LEMMA CallTypes ==
  ASSUME NEW call \in CallType
  PROVE  /\ Over \in CallType
         /\ \A r \in {"page", "document", "nobody"} : [call EXCEPT !.ear = r] \in CallType
         /\ \A a \in {"ok", "unverified", "refused", "cut"} : [call EXCEPT !.phase = a] \in CallType
BY DEF CallType, Over

\* A call of the page on the screen is never forgotten, the others may be.
LEMMA KeptSafe ==
  ASSUME NEW cs \in [Indices -> CallType]
  PROVE  /\ Kept(cs) \in [Indices -> CallType]
         /\ \A c \in Indices : /\ Kept(cs)[c] \in {cs[c], Over}
                               /\ cs[c].ear = "page" => Kept(cs)[c] = cs[c]
BY CallTypes DEF Kept

\* The calls of a page that is gone: nobody draws their answers, and what is
\* left of each is what it was.
Faded(new, old) ==
  /\ new \in [Indices -> CallType]
  /\ \A c \in Indices :
       /\ new[c].ear # "page"
       /\ \/ new[c] = Over
          \/ /\ new[c].kind = old[c].kind /\ new[c].email = old[c].email
             /\ new[c].link = old[c].link /\ new[c].phase = old[c].phase
             /\ old[c] # Over

LEMMA FadedCalls ==
  ASSUME NEW cs \in [Indices -> CallType],
         \A c \in Indices : cs[c].kind = "over" <=> cs[c] = Over
  PROVE  Faded(Leaving(cs), cs) /\ Faded(Unloading(cs), cs)
<1>. DEFINE left == [c \in Indices |-> [cs[c] EXCEPT !.ear = IF @ = "page" THEN "document" ELSE @]]
            gone == [c \in Indices |-> [cs[c] EXCEPT !.ear = "nobody"]]
<1>1. /\ left \in [Indices -> CallType]
      /\ \A c \in Indices : left[c].kind = cs[c].kind /\ left[c].email = cs[c].email
                              /\ left[c].link = cs[c].link /\ left[c].phase = cs[c].phase /\ left[c].ear # "page"
  BY DEF CallType
<1>2. /\ gone \in [Indices -> CallType]
      /\ \A c \in Indices : gone[c].kind = cs[c].kind /\ gone[c].email = cs[c].email
                              /\ gone[c].link = cs[c].link /\ gone[c].phase = cs[c].phase /\ gone[c].ear # "page"
  BY DEF CallType
<1>3. Leaving(cs) = Kept(left) /\ Unloading(cs) = Kept(gone)
  BY DEF Leaving, Unloading
<1>4. \A c \in Indices : cs[c] = Over => left[c] = Over /\ gone[c] = Over
  BY DEF Over, CallType
<1>5. Over.ear # "page"
  BY DEF Over
<1>. HIDE DEF left, gone
<1>6. Faded(Kept(left), cs)
  BY <1>1, <1>4, <1>5, KeptSafe DEF Faded
<1>7. Faded(Kept(gone), cs)
  BY <1>2, <1>4, <1>5, KeptSafe DEF Faded
<1>. QED
  BY <1>3, <1>6, <1>7

(***************************************************************************)
(* Opening a page                                                          *)
(***************************************************************************)

LEMMA InitIInv == Init => IInv
<1>1. SUFFICES ASSUME Init PROVE IInv
  OBVIOUS
<1>2. TypeOK
  <2>1. Over \in CallType /\ 0 \in 0..MaxCalls
    BY AuthPagesConstants DEF CallType, Over
  <2>2. sent \in [Emails -> Nat] /\ live \in [Emails -> Nat]
    BY <1>1 DEF Init
  <2>. QED
    BY <1>1, <2>1, <2>2 DEF Init, TypeOK
<1>3. LinksOfAccounts
  BY <1>1 DEF Init, LinksOfAccounts
<1>4. CallsOfPage /\ WaitsForItsCall /\ AnswersAreTrue /\ SuccessIsTrue /\ LinkIsOurs
  BY <1>1 DEF Init, CallsOfPage, WaitsForItsCall, AnswersAreTrue, SuccessIsTrue, LinkIsOurs, Over, Ours, Pending
<1>. QED
  BY <1>2, <1>3, <1>4 DEF IInv

\* A page that is opened without sending anything.
LEMMA OpenStep ==
  ASSUME IInv, NEW p \in {"login", "signup", "resend", "verify", "app"}, NEW e \in Emails \cup {NoEmail},
         NEW ph \in {"form", "missing"}, Open(p, e, ph), p = "verify" => ph = "missing",
         Faded(calls', calls), good' = FALSE,
         signedIn' \in BOOLEAN, signedIn' => Verified,
         UNCHANGED <<strict, accountVars, made>>
  PROVE  IInv'
<1>1. TypeOK /\ LinksOfAccounts /\ CallsOfPage /\ AnswersAreTrue
  BY DEF IInv
<1>2. /\ page' = p /\ email' = e /\ phase' = ph /\ needs' = FALSE /\ resend' = "idle" /\ edited' = FALSE
      /\ strict' = strict /\ acct' = acct /\ sent' = sent /\ live' = live /\ made' = made
  BY DEF Open, accountVars
<1>3. TypeOK'
  BY <1>1, <1>2 DEF TypeOK, Faded
<1>4. LinksOfAccounts'
  BY <1>1, <1>2 DEF LinksOfAccounts
<1>5. CallsOfPage'
  BY <1>1, <1>2 DEF CallsOfPage, Faded, Ours, Over
<1>6. WaitsForItsCall'
  BY <1>2 DEF WaitsForItsCall, Pending, Faded, Ours
<1>7. AnswersAreTrue'
  <2>1. \A c \in Indices : calls'[c].phase = "ok" => calls'[c].kind = calls[c].kind
          /\ calls'[c].email = calls[c].email /\ calls'[c].phase = calls[c].phase
    BY DEF Faded, Over
  <2>. QED
    BY <1>1, <1>2, <2>1 DEF AnswersAreTrue, Verified, Pending, Ours, Faded
<1>8. SuccessIsTrue' /\ LinkIsOurs'
  BY <1>2 DEF SuccessIsTrue, LinkIsOurs, Verified
<1>. QED
  BY <1>3, <1>4, <1>5, <1>6, <1>7, <1>8 DEF IInv

\* The ways of going from page to page, and the sign-in that does it.
LEMMA NavigationStep ==
  ASSUME IInv,
         \/ \E p \in {"login", "signup", "resend"} : Go(p)
         \/ \E p \in {"login", "signup", "resend", "verify", "app"} : Load(p)
         \/ SignOut \/ Redirect
         \/ \E c \in Indices : HearSignedIn(c)
  PROVE  IInv'
<1>1. TypeOK /\ CallsOfPage /\ AnswersAreTrue /\ SuccessIsTrue
  BY DEF IInv
<1>2. Faded(Leaving(calls), calls) /\ Faded(Unloading(calls), calls)
  BY <1>1, FadedCalls DEF TypeOK, CallsOfPage
<1>3. \A p \in {"login", "signup", "resend", "verify", "app"}, s \in BOOLEAN :
        /\ Routed(p, s) \in {"login", "signup", "resend", "verify", "app"}
        /\ Routed(p, s) = "verify" => p = "verify"
  BY Zenon DEF Routed
<1>4. ASSUME NEW p \in {"login", "signup", "resend"}, Go(p)
      PROVE  IInv'
  <2>1. PICK e \in Prefill(p) : Open(Routed(p, signedIn), e, "form")
    BY <1>4 DEF Go
  <2>2. e \in Emails \cup {NoEmail}
    BY DEF Prefill
  <2>3. /\ Faded(calls', calls) /\ good' = FALSE /\ signedIn' = signedIn
        /\ UNCHANGED <<strict, accountVars, made>>
    BY <1>2, <1>4 DEF Go
  <2>4. Routed(p, signedIn) \in {"login", "signup", "resend", "verify", "app"} /\ Routed(p, signedIn) # "verify"
    BY <1>1, <1>3 DEF TypeOK
  <2>. QED
    BY <1>1, <2>1, <2>2, <2>3, <2>4, OpenStep DEF TypeOK, SuccessIsTrue
<1>5. ASSUME NEW p \in {"login", "signup", "resend", "verify", "app"}, Load(p)
      PROVE  IInv'
  <2>. DEFINE ph == IF p = "verify" THEN "missing" ELSE "form"
  <2>1. PICK e \in Prefill(p) : Open(Routed(p, signedIn), e, ph)
    BY <1>5 DEF Load
  <2>2. e \in Emails \cup {NoEmail}
    BY DEF Prefill
  <2>3. /\ Faded(calls', calls) /\ good' = FALSE /\ signedIn' = signedIn
        /\ UNCHANGED <<strict, accountVars, made>>
    BY <1>2, <1>5 DEF Load
  <2>4. /\ Routed(p, signedIn) \in {"login", "signup", "resend", "verify", "app"}
        /\ Routed(p, signedIn) = "verify" => ph = "missing"
        /\ ph \in {"form", "missing"}
    BY <1>1, <1>3 DEF TypeOK
  <2>. HIDE DEF ph
  <2>. QED
    BY <1>1, <2>1, <2>2, <2>3, <2>4, OpenStep DEF TypeOK, SuccessIsTrue
<1>6. CASE SignOut
  BY <1>1, <1>2, <1>6, OpenStep DEF SignOut
<1>7. CASE Redirect
  <2>1. /\ Open(Routed("login", signedIn), NoEmail, "form")
        /\ Faded(calls', calls) /\ good' = FALSE /\ signedIn' = signedIn
        /\ UNCHANGED <<strict, accountVars, made>>
    BY <1>2, <1>7 DEF Redirect
  <2>2. Routed("login", signedIn) \in {"login", "signup", "resend", "verify", "app"}
        /\ Routed("login", signedIn) # "verify"
    BY <1>1, <1>3 DEF TypeOK
  <2>. QED
    BY <1>1, <2>1, <2>2, OpenStep DEF TypeOK, SuccessIsTrue
<1>8. ASSUME NEW c \in Indices, HearSignedIn(c)
      PROVE  IInv'
  <2>. DEFINE cs == [calls EXCEPT ![c] = Over]
  <2>1. cs \in [Indices -> CallType] /\ \A d \in Indices : cs[d] = IF d = c THEN Over ELSE calls[d]
    BY <1>1, CallTypes DEF TypeOK
  <2>2. \A d \in Indices : cs[d].kind = "over" <=> cs[d] = Over
    BY <1>1, <2>1 DEF CallsOfPage, Over
  <2>3. calls' = Leaving(cs)
    BY <1>8 DEF HearSignedIn
  <2>. HIDE DEF cs
  <2>4. Faded(calls', cs)
    BY <2>1, <2>2, <2>3, FadedCalls
  <2>5. Faded(calls', calls)
    BY <2>1, <2>4 DEF Faded
  <2>6. Verified
    BY <1>1, <1>8 DEF HearSignedIn, AnswersAreTrue
  <2>7. /\ Open("app", NoEmail, "form") /\ good' = FALSE /\ signedIn' = TRUE
        /\ UNCHANGED <<strict, accountVars, made>>
    BY <1>8 DEF HearSignedIn
  <2>. QED
    BY <2>5, <2>6, <2>7, OpenStep
<1>. QED
  BY <1>4, <1>5, <1>6, <1>7, <1>8

\* A page that is opened with a link sends its token, and has nothing else
\* under way.
LEMMA OpenLinkStep ==
  ASSUME IInv, NEW e \in Emails, NEW n \in 1..sent[e], OpenLink(e, n)
  PROVE  IInv'
<1>1. TypeOK /\ LinksOfAccounts /\ CallsOfPage /\ AnswersAreTrue /\ SuccessIsTrue
  BY DEF IInv
<1>. DEFINE new == Call("verify", e, n, IF strict THEN "document" ELSE "page")
<1>2. PICK cs \in {Leaving(calls), Unloading(calls)} : Send(cs, new)
  BY DEF OpenLink
<1>3. Faded(cs, calls)
  BY <1>1, FadedCalls DEF TypeOK, CallsOfPage
<1>4. made < MaxCalls /\ made' = made + 1 /\ calls' = [cs EXCEPT ![made + 1] = new]
  BY <1>2 DEF Send
<1>5. made + 1 \in Indices /\ made' \in 0..MaxCalls
  BY <1>1, <1>4, AuthPagesConstants DEF TypeOK, Indices
<1>6. n \in Nat /\ n # 0
  BY <1>1 DEF TypeOK
<1>7. /\ new \in CallType /\ new.kind = "verify" /\ new.email = e /\ new.link = n /\ new.phase = "sent"
      /\ new.ear = "page" <=> ~strict
  BY <1>1, <1>6 DEF Call, CallType, TypeOK
<1>8. \A c \in Indices : calls'[c] = IF c = made + 1 THEN new ELSE cs[c]
  BY <1>3, <1>4, <1>5 DEF Faded
<1>9. calls' \in [Indices -> CallType]
  BY <1>3, <1>4, <1>7 DEF Faded
<1>10. /\ page' = "verify" /\ email' = NoEmail /\ phase' = "waiting" /\ needs' = FALSE /\ resend' = "idle"
       /\ edited' = FALSE /\ good' = Unspent(e, n)
       /\ strict' = strict /\ acct' = acct /\ sent' = sent /\ live' = live /\ signedIn' = signedIn
  BY DEF OpenLink, Open, accountVars
<1>. HIDE DEF new
<1>11. TypeOK'
  <2>1. good' \in BOOLEAN
    BY <1>10 DEF Unspent
  <2>. QED
    BY <1>1, <1>5, <1>9, <1>10, <2>1 DEF TypeOK
<1>12. LinksOfAccounts'
  BY <1>1, <1>10 DEF LinksOfAccounts
<1>13. CallsOfPage'
  <2>1. ASSUME NEW c \in Indices
        PROVE  /\ c > made' => calls'[c] = Over
               /\ calls'[c].kind = "over" <=> calls'[c] = Over
               /\ calls'[c].ear = "page" => calls'[c].kind = "verify" /\ ~strict
               /\ calls'[c].kind \in {"signup", "login"} => calls'[c].email # NoEmail
               /\ calls'[c].kind = "verify" => calls'[c].email # NoEmail /\ calls'[c].link # 0
    <3>1. CASE c = made + 1
      BY <1>1, <1>4, <1>6, <1>7, <1>8, <3>1, AuthPagesConstants DEF Over, Indices, TypeOK
    <3>2. CASE c # made + 1
      <4>1. calls'[c] = cs[c] /\ cs[c].ear # "page"
        BY <1>3, <1>8, <3>2 DEF Faded
      <4>2. c > made' => c > made
        BY <1>1, <1>4 DEF Indices, TypeOK
      <4>3. \/ cs[c] = Over
            \/ /\ cs[c].kind = calls[c].kind /\ cs[c].email = calls[c].email /\ cs[c].link = calls[c].link
               /\ calls[c] # Over
        BY <1>3 DEF Faded
      <4>4. Over.kind = "over"
        BY DEF Over
      <4>5. /\ c > made => calls[c] = Over
            /\ calls[c].kind = "over" <=> calls[c] = Over
            /\ calls[c].kind \in {"signup", "login"} => calls[c].email # NoEmail
            /\ calls[c].kind = "verify" => calls[c].email # NoEmail /\ calls[c].link # 0
        BY <1>1 DEF CallsOfPage
      <4>. QED
        BY <4>1, <4>2, <4>3, <4>4, <4>5
    <3>. QED
      BY <3>1, <3>2
  <2>. QED
    BY <1>10, <2>1 DEF CallsOfPage, Ours
<1>14. WaitsForItsCall'
  <2>1. \A c \in Indices : calls'[c].ear = "page" <=> c = made + 1 /\ ~strict
    BY <1>3, <1>7, <1>8 DEF Faded
  <2>. QED
    BY <1>5, <1>7, <1>8, <1>10, <2>1 DEF WaitsForItsCall, Pending, Ours
<1>15. AnswersAreTrue'
  <2>1. \A c \in Indices : calls'[c].phase = "ok" =>
          calls'[c].kind = calls[c].kind /\ calls'[c].email = calls[c].email /\ calls[c].phase = "ok"
    BY <1>3, <1>7, <1>8 DEF Faded, Over
  <2>2. \A c \in Indices : calls'[c].ear = "page" => calls'[c].kind = "verify"
    BY <1>3, <1>7, <1>8 DEF Faded
  <2>. QED
    BY <1>1, <1>10, <2>1, <2>2 DEF AnswersAreTrue, Verified, Pending, Ours
<1>16. SuccessIsTrue'
  BY <1>1, <1>10 DEF SuccessIsTrue, Verified
<1>17. LinkIsOurs'
  <2>1. SUFFICES ASSUME Unspent(e, n), NEW c \in Indices, calls'[c].ear = "page"
                 PROVE  /\ calls'[c].phase = "sent"
                        /\ calls'[c].link = live[calls'[c].email]
                        /\ \A d \in Indices :
                             calls'[d].kind = "verify" /\ calls'[d].phase = "sent" /\ calls'[d].email = calls'[c].email
                               /\ calls'[d].link = calls'[c].link => d = c
    BY <1>10 DEF LinkIsOurs, Ours
  <2>2. c = made + 1
    BY <1>3, <1>8, <2>1 DEF Faded
  <2>3. \A d \in Indices : d # made + 1 /\ cs[d].kind = "verify" /\ cs[d].phase = "sent" =>
          ~(cs[d].email = e /\ cs[d].link = n)
    BY <1>3, <2>1 DEF Faded, Unspent, UnderWay, Over
  <2>. QED
    BY <1>7, <1>8, <2>1, <2>2, <2>3 DEF Unspent
<1>. QED
  BY <1>11, <1>12, <1>13, <1>14, <1>15, <1>16, <1>17 DEF IInv

(***************************************************************************)
(* The forms                                                               *)
(***************************************************************************)

LEMMA TypeStep ==
  ASSUME IInv, NEW e \in Emails \cup {NoEmail}, Type(e)
  PROVE  IInv'
<1>1. TypeOK /\ LinksOfAccounts /\ CallsOfPage /\ WaitsForItsCall /\ AnswersAreTrue /\ SuccessIsTrue /\ LinkIsOurs
  BY DEF IInv
<1>2. /\ page \in {"login", "signup", "resend"} /\ phase \in {"form", "failed", "waiting"}
      /\ email' = e /\ edited' = (edited \/ phase = "waiting")
      /\ UNCHANGED <<strict, acct, sent, live, signedIn, page, phase, needs, resend, made, calls, good>>
  BY DEF Type, FormShown, accountVars, callVars
<1>3. TypeOK'
  BY <1>1, <1>2 DEF TypeOK
<1>4. LinksOfAccounts' /\ CallsOfPage' /\ WaitsForItsCall' /\ SuccessIsTrue' /\ LinkIsOurs'
  BY <1>1, <1>2 DEF LinksOfAccounts, CallsOfPage, WaitsForItsCall, SuccessIsTrue, LinkIsOurs, Ours, Pending, Verified
<1>5. AnswersAreTrue'
  <2>1. ASSUME NEW c \in Indices, Pending(c, "signup"), ~edited'
        PROVE  FALSE
    <3>1. page = "signup"
      BY <1>1, <2>1 DEF CallsOfPage, Pending
    <3>. QED
      BY <1>1, <1>2, <2>1, <3>1 DEF WaitsForItsCall
  <2>. QED
    BY <1>1, <1>2, <2>1 DEF AnswersAreTrue, Pending, Ours, Verified
<1>. QED
  BY <1>3, <1>4, <1>5 DEF IInv

\* A call of this page is added to the others.
LEMMA SendSafe ==
  ASSUME IInv, NEW k \in {"login", "signup", "resend"}, NEW e \in Emails \cup {NoEmail},
         Send(calls, Call(k, e, 0, "page"))
  PROVE  /\ calls' \in [Indices -> CallType]
         /\ made' \in 0..MaxCalls
         /\ \E new \in Indices :
              /\ calls[new] = Over
              /\ calls'[new] = Call(k, e, 0, "page")
              /\ \A c \in Indices \ {new} : calls'[c] = calls[c]
              /\ \A c \in Indices : c > made' => c > made /\ c # new
<1>1. TypeOK /\ CallsOfPage
  BY DEF IInv
<1>2. made < MaxCalls /\ made' = made + 1 /\ calls' = [calls EXCEPT ![made + 1] = Call(k, e, 0, "page")]
  BY DEF Send
<1>3. made + 1 \in Indices /\ made' \in 0..MaxCalls /\ calls[made + 1] = Over
  BY <1>1, <1>2, AuthPagesConstants DEF TypeOK, Indices, CallsOfPage
<1>4. Call(k, e, 0, "page") \in CallType
  BY DEF Call, CallType
<1>5. \A c \in Indices : c > made' => c > made /\ c # made + 1
  BY <1>1, <1>2 DEF TypeOK, Indices
<1>. QED
  BY <1>1, <1>2, <1>3, <1>4, <1>5 DEF TypeOK

LEMMA SubmitStep ==
  ASSUME IInv, Submit
  PROVE  IInv'
<1>1. TypeOK /\ LinksOfAccounts /\ CallsOfPage /\ WaitsForItsCall /\ AnswersAreTrue /\ SuccessIsTrue /\ LinkIsOurs
  BY DEF IInv
<1>2. /\ page \in {"login", "signup", "resend"} /\ phase \in {"form", "failed"}
      /\ needs' = FALSE /\ resend' = "idle" /\ edited' = FALSE
      /\ UNCHANGED <<strict, acct, sent, live, signedIn, page, email, good>>
  BY DEF Submit, Submission, FormShown, accountVars
<1>3. \A c \in Indices : ~Pending(c, page)
  BY <1>1, <1>2 DEF WaitsForItsCall
<1>4. CASE phase' = "failed" /\ UNCHANGED callVars
  <2>1. UNCHANGED <<made, calls>>
    BY <1>4 DEF callVars
  <2>2. TypeOK'
    BY <1>1, <1>2, <1>4, <2>1 DEF TypeOK
  <2>3. LinksOfAccounts' /\ CallsOfPage' /\ WaitsForItsCall' /\ SuccessIsTrue' /\ LinkIsOurs'
    BY <1>1, <1>2, <1>3, <1>4, <2>1
    DEF LinksOfAccounts, CallsOfPage, WaitsForItsCall, SuccessIsTrue, LinkIsOurs, Ours, Pending, Verified
  <2>4. \A c \in Indices : ~Pending(c, "signup")
    BY <1>1, <1>3 DEF CallsOfPage, Pending
  <2>5. AnswersAreTrue'
    BY <1>1, <1>2, <2>1, <2>4 DEF AnswersAreTrue, Pending, Ours, Verified
  <2>. QED
    BY <2>2, <2>3, <2>5 DEF IInv
<1>5. CASE email # NoEmail /\ phase' = "waiting" /\ Send(calls, Call(page, email, 0, "page"))
  <2>1. calls' \in [Indices -> CallType] /\ made' \in 0..MaxCalls
    BY <1>1, <1>2, <1>5, SendSafe DEF TypeOK
  <2>2. PICK new \in Indices :
              /\ calls[new] = Over
              /\ calls'[new] = Call(page, email, 0, "page")
              /\ \A c \in Indices \ {new} : calls'[c] = calls[c]
              /\ \A c \in Indices : c > made' => c > made /\ c # new
    BY <1>1, <1>2, <1>5, SendSafe DEF TypeOK
  <2>3. /\ calls'[new].kind = page /\ calls'[new].email = email /\ calls'[new].phase = "sent"
        /\ calls'[new].ear = "page"
    BY <2>2 DEF Call
  <2>4. TypeOK'
    BY <1>1, <1>2, <1>5, <2>1 DEF TypeOK
  <2>5. LinksOfAccounts' /\ SuccessIsTrue' /\ LinkIsOurs'
    BY <1>1, <1>2, <1>5 DEF LinksOfAccounts, SuccessIsTrue, LinkIsOurs, Verified
  <2>6. CallsOfPage'
    <3>1. calls'[new] # Over
      BY <1>2, <2>3 DEF Over
    <3>. QED
      BY <1>1, <1>2, <1>5, <2>2, <2>3, <3>1 DEF CallsOfPage, Ours
  <2>7. WaitsForItsCall'
    BY <1>2, <1>3, <1>5, <2>2, <2>3 DEF WaitsForItsCall, Pending, Ours
  <2>8. AnswersAreTrue'
    <3>1. \A c \in Indices : ~Pending(c, "signup")
      BY <1>1, <1>3 DEF CallsOfPage, Pending
    <3>. QED
      BY <1>1, <1>2, <2>2, <2>3, <3>1 DEF AnswersAreTrue, Pending, Ours, Verified
  <2>. QED
    BY <2>4, <2>5, <2>6, <2>7, <2>8 DEF IInv
<1>. QED
  BY <1>4, <1>5 DEF Submit, Submission

LEMMA AskAgainStep ==
  ASSUME IInv, AskAgain
  PROVE  IInv'
<1>1. TypeOK /\ LinksOfAccounts /\ CallsOfPage /\ WaitsForItsCall /\ AnswersAreTrue /\ SuccessIsTrue /\ LinkIsOurs
  BY DEF IInv
<1>2. /\ page = "login" /\ resend' = "sending" /\ Send(calls, Call("resend", email, 0, "page"))
      /\ UNCHANGED <<strict, acct, sent, live, signedIn, page, email, phase, needs, edited, good>>
  BY DEF AskAgain, accountVars
<1>3. calls' \in [Indices -> CallType] /\ made' \in 0..MaxCalls
  BY <1>1, <1>2, SendSafe DEF TypeOK
<1>4. PICK new \in Indices :
            /\ calls[new] = Over
            /\ calls'[new] = Call("resend", email, 0, "page")
            /\ \A c \in Indices \ {new} : calls'[c] = calls[c]
            /\ \A c \in Indices : c > made' => c > made /\ c # new
  BY <1>1, <1>2, SendSafe DEF TypeOK
<1>5. calls'[new].kind = "resend" /\ calls'[new].phase = "sent" /\ calls'[new].ear = "page"
  BY <1>4 DEF Call
<1>6. TypeOK'
  BY <1>1, <1>2, <1>3 DEF TypeOK
<1>7. LinksOfAccounts' /\ SuccessIsTrue' /\ LinkIsOurs'
  BY <1>1, <1>2 DEF LinksOfAccounts, SuccessIsTrue, LinkIsOurs, Verified
<1>8. CallsOfPage'
  <2>1. calls'[new] # Over
    BY <1>5 DEF Over
  <2>. QED
    BY <1>1, <1>2, <1>4, <1>5, <2>1 DEF CallsOfPage, Ours
<1>9. WaitsForItsCall'
  <2>1. \A c \in Indices : Pending(c, "login")' <=> Pending(c, "login")
    BY <1>4, <1>5 DEF Pending, Ours, Over
  <2>2. Pending(new, "resend")'
    BY <1>5 DEF Pending, Ours
  <2>. QED
    BY <1>1, <1>2, <2>1, <2>2 DEF WaitsForItsCall
<1>10. AnswersAreTrue'
  BY <1>1, <1>2, <1>4, <1>5 DEF AnswersAreTrue, Pending, Ours, Verified
<1>. QED
  BY <1>6, <1>7, <1>8, <1>9, <1>10 DEF IInv

(***************************************************************************)
(* The backend                                                             *)
(***************************************************************************)

\* A call that is answered, or cut, stays the same call; others stay as they
\* are or are forgotten, and none of the page's is.
Resolved(c, a) ==
  /\ calls' \in [Indices -> CallType]
  /\ made' = made
  /\ \A d \in Indices \ {c} : calls'[d] \in {calls[d], Over} /\ (Ours(d) => calls'[d] = calls[d])
  /\ calls'[c] = Over \/ (/\ calls'[c].kind = calls[c].kind /\ calls'[c].email = calls[c].email
                          /\ calls'[c].link = calls[c].link /\ calls'[c].ear = calls[c].ear
                          /\ calls'[c].phase = a)
  /\ Ours(c) => calls'[c] # Over

LEMMA AnsweredSafe ==
  ASSUME TypeOK, CallsOfPage, NEW c \in Indices, calls[c].kind # "over",
         NEW a \in {"ok", "unverified", "refused", "cut"}, Answered(c, a)
  PROVE  Resolved(c, a)
<1>. DEFINE cs == [calls EXCEPT ![c].phase = a]
<1>1. calls[c] \in CallType /\ [calls[c] EXCEPT !.phase = a] \in CallType
  BY CallTypes DEF TypeOK
<1>2. cs \in [Indices -> CallType] /\ \A d \in Indices : cs[d] = IF d = c THEN [calls[c] EXCEPT !.phase = a] ELSE calls[d]
  BY <1>1 DEF TypeOK
<1>3. /\ cs[c].kind = calls[c].kind /\ cs[c].email = calls[c].email /\ cs[c].link = calls[c].link
      /\ cs[c].ear = calls[c].ear /\ cs[c].phase = a
  BY <1>1, <1>2 DEF CallType
<1>4. calls' = Kept(cs) /\ made' = made
  BY DEF Answered
<1>. HIDE DEF cs
<1>5. /\ Kept(cs) \in [Indices -> CallType]
      /\ \A d \in Indices : Kept(cs)[d] \in {cs[d], Over} /\ (cs[d].ear = "page" => Kept(cs)[d] = cs[d])
  BY <1>2, KeptSafe
<1>6. cs[c] # Over
  BY <1>3 DEF Over
<1>. QED
  BY <1>2, <1>3, <1>4, <1>5, <1>6 DEF Resolved, Ours

\* An answer that is true keeps everything but, perhaps, what is said of the
\* link of the page.
LEMMA ResolvedStep ==
  ASSUME IInv, NEW c \in Indices, calls[c].kind # "over",
         NEW a \in {"ok", "unverified", "refused", "cut"}, Resolved(c, a),
         acct' \in [Emails -> {"free", "unverified", "verified"}],
         sent' \in [Emails -> Nat], live' \in [Emails -> Nat], good' \in BOOLEAN,
         LinksOfAccounts',
         \A e \in Emails : acct[e] # "free" => acct'[e] # "free",
         Verified => Verified',
         a = "ok" /\ calls[c].kind = "signup" => acct'[calls[c].email] # "free",
         a = "ok" /\ calls[c].kind \in {"login", "verify"} => Verified',
         LinkIsOurs',
         UNCHANGED <<strict, signedIn, pageVars>>
  PROVE  IInv'
<1>1. TypeOK /\ CallsOfPage /\ WaitsForItsCall /\ AnswersAreTrue /\ SuccessIsTrue
  BY DEF IInv
<1>2. UNCHANGED <<strict, signedIn, page, email, phase, needs, resend, edited>>
  BY DEF pageVars
<1>3. /\ calls' \in [Indices -> CallType] /\ made' = made
      /\ \A d \in Indices \ {c} : calls'[d] \in {calls[d], Over} /\ (Ours(d) => calls'[d] = calls[d])
      /\ calls'[c] = Over \/ (/\ calls'[c].kind = calls[c].kind /\ calls'[c].email = calls[c].email
                              /\ calls'[c].link = calls[c].link /\ calls'[c].ear = calls[c].ear
                              /\ calls'[c].phase = a)
      /\ Ours(c) => calls'[c] # Over
  BY DEF Resolved
<1>4. /\ Over.kind = "over" /\ Over.phase = "over" /\ Over.ear = "nobody"
  BY DEF Over
<1>5. \A d \in Indices : (Ours(d)' <=> Ours(d)) /\ (Ours(d) => calls'[d].kind = calls[d].kind /\ calls'[d].email = calls[d].email)
  BY <1>3, <1>4 DEF Ours
<1>6. \A d \in Indices, k \in {"signup", "login", "resend", "verify", "app"} : Pending(d, k)' <=> Pending(d, k)
  BY <1>5 DEF Pending
<1>7. TypeOK'
  BY <1>1, <1>2, <1>3 DEF TypeOK
<1>8. CallsOfPage'
  <2>1. ASSUME NEW d \in Indices
        PROVE  /\ d > made => calls'[d] = Over
               /\ calls'[d].kind = "over" <=> calls'[d] = Over
               /\ calls'[d].kind \in {"signup", "login"} => calls'[d].email # NoEmail
               /\ calls'[d].kind = "verify" => calls'[d].email # NoEmail /\ calls'[d].link # 0
    <3>1. calls[c] # Over /\ ~(c > made)
      BY <1>1, <1>4 DEF CallsOfPage
    <3>2. CASE d = c
      BY <1>1, <1>3, <1>4, <3>1, <3>2 DEF CallsOfPage
    <3>3. CASE d # c
      BY <1>1, <1>3, <1>4, <3>3 DEF CallsOfPage
    <3>. QED
      BY <3>2, <3>3
  <2>. QED
    BY <1>1, <1>2, <1>3, <1>5, <2>1 DEF CallsOfPage
<1>9. WaitsForItsCall'
  <2>1. page \in {"signup", "login", "resend", "verify", "app"}
    BY <1>1 DEF TypeOK
  <2>. QED
    BY <1>1, <1>2, <1>6, <2>1 DEF WaitsForItsCall
<1>10. AnswersAreTrue'
  <2>1. ASSUME NEW d \in Indices, calls'[d].phase = "ok"
        PROVE  /\ calls'[d].kind = "signup" => acct'[calls'[d].email] # "free"
               /\ calls'[d].kind \in {"login", "verify"} => Verified'
    <3>1. CASE d = c
      BY <1>3, <1>4, <2>1, <3>1
    <3>2. CASE d # c
      <4>1. calls'[d] = calls[d]
        BY <1>3, <1>4, <2>1, <3>2
      <4>2. calls[d].kind = "signup" => calls[d].email \in Emails
        BY <1>1 DEF CallsOfPage, TypeOK, CallType
      <4>. QED
        BY <1>1, <2>1, <4>1, <4>2 DEF AnswersAreTrue
    <3>. QED
      BY <3>1, <3>2
  <2>. QED
    BY <1>1, <1>2, <1>5, <1>6, <2>1 DEF AnswersAreTrue, Pending
<1>11. SuccessIsTrue'
  BY <1>1, <1>2 DEF SuccessIsTrue, TypeOK
<1>. QED
  BY <1>7, <1>8, <1>9, <1>10, <1>11 DEF IInv

\* The page's own calls, when it was opened with a link that is its to spend.
LEMMA OursVerify ==
  ASSUME IInv, page = "verify", NEW c \in Indices, Ours(c)
  PROVE  calls[c].kind = "verify" /\ calls[c].email \in Emails /\ calls[c].link # 0
BY DEF IInv, CallsOfPage, TypeOK, CallType

\* The page's link stays its own while the links that calls of the page hold
\* stay the ones that work, and the call that is answered is not refused.
LEMMA LinkKept ==
  ASSUME IInv, NEW c \in Indices, NEW a \in {"ok", "unverified", "refused", "cut"}, Resolved(c, a),
         good' => good, UNCHANGED <<page, phase>>,
         \A d \in Indices \ {c} : page = "verify" /\ good /\ Ours(d) /\ calls[d].phase = "sent"
           => live'[calls[d].email] = live[calls[d].email],
         page = "verify" /\ good /\ Ours(c) => a = "ok"
  PROVE  LinkIsOurs'
<1>1. SUFFICES ASSUME page = "verify", good, NEW d \in Indices, Ours(d)'
               PROVE  \/ calls'[d].phase = "ok"
                      \/ /\ calls'[d].phase = "sent"
                         /\ calls'[d].link = live'[calls'[d].email]
                         /\ \A f \in Indices :
                              calls'[f].kind = "verify" /\ calls'[f].phase = "sent"
                                /\ calls'[f].email = calls'[d].email /\ calls'[f].link = calls'[d].link => f = d
  BY DEF IInv, LinkIsOurs
<1>2. Over.phase = "over" /\ Over.ear = "nobody"
  BY DEF Over
<1>3. CASE d = c
  BY <1>1, <1>2, <1>3 DEF Resolved, Ours
<1>4. CASE d # c
  <2>1. calls'[d] = calls[d] /\ Ours(d)
    BY <1>1, <1>2, <1>4 DEF Resolved, Ours
  <2>2. CASE calls[d].phase = "ok"
    BY <2>1, <2>2
  <2>3. CASE calls[d].phase # "ok"
    <3>1. /\ calls[d].phase = "sent" /\ calls[d].link = live[calls[d].email]
          /\ \A f \in Indices :
               calls[f].kind = "verify" /\ calls[f].phase = "sent" /\ calls[f].email = calls[d].email
                 /\ calls[f].link = calls[d].link => f = d
      BY <1>1, <2>1, <2>3 DEF IInv, LinkIsOurs
    <3>2. \A f \in Indices : calls'[f].phase = "sent" => calls'[f] = calls[f]
      BY <1>2 DEF Resolved
    <3>. QED
      BY <1>1, <1>4, <2>1, <3>1, <3>2
  <2>. QED
    BY <2>2, <2>3
<1>. QED
  BY <1>3, <1>4

LEMMA ServeStep ==
  ASSUME IInv, NEW c \in Indices, Serve(c)
  PROVE  IInv'
<1>1. TypeOK /\ LinksOfAccounts /\ CallsOfPage /\ AnswersAreTrue /\ SuccessIsTrue /\ LinkIsOurs
  BY DEF IInv
<1>2. /\ calls[c].phase = "sent" /\ UNCHANGED <<strict, signedIn, pageVars>>
      /\ UNCHANGED <<page, phase>>
  BY DEF Serve, pageVars
<1>. DEFINE e == calls[c].email
<1>3. CASE ServeSignup(c) /\ acct[e] = "free"
  <2>1. /\ calls[c].kind = "signup" /\ acct' = [acct EXCEPT ![e] = "unverified"] /\ Answered(c, "ok")
        /\ sent' = [sent EXCEPT ![e] = @ + 1] /\ live' = [live EXCEPT ![e] = sent[e] + 1] /\ good' = good
    BY <1>3 DEF ServeSignup, Mail
  <2>2. e \in Emails
    BY <1>1, <2>1 DEF CallsOfPage, TypeOK, CallType
  <2>3. Resolved(c, "ok")
    BY <1>1, <2>1, AnsweredSafe
  <2>4. /\ acct' \in [Emails -> {"free", "unverified", "verified"}]
        /\ sent' \in [Emails -> Nat] /\ live' \in [Emails -> Nat]
    BY <1>1, <2>1, <2>2 DEF TypeOK
  <2>5. LinksOfAccounts'
    BY <1>1, <2>1, <2>2 DEF LinksOfAccounts, TypeOK
  <2>6. \A d \in Indices : page = "verify" /\ Ours(d) /\ good /\ calls[d].phase = "sent" => calls[d].email # e
    BY <1>1, <1>3, <2>2, OursVerify DEF LinkIsOurs, LinksOfAccounts
  <2>7. page = "verify" => ~Ours(c)
    BY <2>1, OursVerify
  <2>8. \A d \in Indices \ {c} : page = "verify" /\ good /\ Ours(d) /\ calls[d].phase = "sent"
          => live'[calls[d].email] = live[calls[d].email]
    BY <1>1, <2>1, <2>6, OursVerify DEF TypeOK
  <2>9. LinkIsOurs'
    BY <1>2, <2>1, <2>3, <2>7, <2>8, LinkKept
  <2>10. /\ \A f \in Emails : acct[f] # "free" => acct'[f] # "free"
         /\ acct'[e] # "free"
         /\ Verified => Verified'
    BY <1>1, <1>3, <2>1, <2>2 DEF TypeOK, Verified
  <2>. QED
    BY <1>1, <1>2, <2>1, <2>3, <2>4, <2>5, <2>9, <2>10, ResolvedStep DEF TypeOK
<1>4. CASE ServeSignup(c) /\ acct[e] # "free"
  <2>1. calls[c].kind = "signup" /\ Answered(c, "refused") /\ UNCHANGED <<acct, sent, live, good>>
    BY <1>4 DEF ServeSignup, accountVars
  <2>2. Resolved(c, "refused")
    BY <1>1, <2>1, AnsweredSafe
  <2>3. page = "verify" => ~Ours(c)
    BY <2>1, OursVerify
  <2>4. LinkIsOurs'
    BY <1>2, <2>1, <2>2, <2>3, LinkKept
  <2>. QED
    BY <1>1, <1>2, <2>1, <2>2, <2>4, ResolvedStep DEF TypeOK, LinksOfAccounts, Verified
<1>5. CASE ServeLogin(c)
  <2>1. PICK a \in {"ok", "unverified", "refused"} : Answered(c, a) /\ (a = "ok" => acct[e] = "verified")
    BY <1>5 DEF ServeLogin
  <2>2. calls[c].kind = "login" /\ UNCHANGED <<acct, sent, live, good>>
    BY <1>5 DEF ServeLogin, accountVars
  <2>3. e \in Emails
    BY <1>1, <2>2 DEF CallsOfPage, TypeOK, CallType
  <2>4. Resolved(c, a)
    BY <1>1, <2>1, <2>2, AnsweredSafe
  <2>5. page = "verify" => ~Ours(c)
    BY <2>2, OursVerify
  <2>6. LinkIsOurs'
    BY <1>2, <2>2, <2>4, <2>5, LinkKept
  <2>7. a = "ok" => Verified'
    BY <2>1, <2>2, <2>3 DEF Verified
  <2>. QED
    BY <1>1, <1>2, <2>2, <2>4, <2>6, <2>7, ResolvedStep DEF TypeOK, LinksOfAccounts, Verified
<1>6. CASE ServeResend(c) /\ UNCHANGED <<accountVars, good>>
  <2>1. PICK a \in {"ok", "refused"} : Answered(c, a)
    BY <1>6 DEF ServeResend
  <2>2. calls[c].kind = "resend" /\ UNCHANGED <<acct, sent, live, good>>
    BY <1>6 DEF ServeResend, accountVars
  <2>3. Resolved(c, a)
    BY <1>1, <2>1, <2>2, AnsweredSafe
  <2>4. page = "verify" => ~Ours(c)
    BY <2>2, OursVerify
  <2>5. LinkIsOurs'
    BY <1>2, <2>2, <2>3, <2>4, LinkKept
  <2>. QED
    BY <1>1, <1>2, <2>2, <2>3, <2>5, ResolvedStep DEF TypeOK, LinksOfAccounts, Verified
<1>7. CASE ServeResend(c) /\ e # NoEmail /\ acct[e] = "unverified" /\ Answered(c, "ok")
             /\ Mail(e) /\ good' = FALSE /\ UNCHANGED acct
  <2>1. /\ calls[c].kind = "resend" /\ e \in Emails
        /\ sent' = [sent EXCEPT ![e] = @ + 1] /\ live' = [live EXCEPT ![e] = sent[e] + 1]
    BY <1>1, <1>7 DEF ServeResend, Mail, TypeOK, CallType
  <2>2. Resolved(c, "ok")
    BY <1>1, <1>7, <2>1, AnsweredSafe
  <2>3. sent' \in [Emails -> Nat] /\ live' \in [Emails -> Nat]
    BY <1>1, <2>1 DEF TypeOK
  <2>4. LinksOfAccounts'
    BY <1>1, <1>7, <2>1 DEF LinksOfAccounts, TypeOK
  <2>5. LinkIsOurs'
    BY <1>7 DEF LinkIsOurs
  <2>. QED
    BY <1>1, <1>2, <1>7, <2>1, <2>2, <2>3, <2>4, <2>5, ResolvedStep DEF TypeOK, Verified
<1>8. CASE ServeVerify(c) /\ calls[c].link = live[e]
  <2>1. /\ calls[c].kind = "verify" /\ Answered(c, "ok")
        /\ acct' = [acct EXCEPT ![e] = "verified"] /\ live' = [live EXCEPT ![e] = 0] /\ sent' = sent /\ good' = good
    BY <1>8 DEF ServeVerify
  <2>2. e \in Emails
    BY <1>1, <2>1 DEF CallsOfPage, TypeOK, CallType
  <2>3. Resolved(c, "ok")
    BY <1>1, <2>1, AnsweredSafe
  <2>4. /\ acct' \in [Emails -> {"free", "unverified", "verified"}] /\ live' \in [Emails -> Nat]
    BY <1>1, <2>1, <2>2 DEF TypeOK
  <2>5. LinksOfAccounts'
    BY <1>1, <2>1, <2>2 DEF LinksOfAccounts, TypeOK
  <2>6. ASSUME NEW d \in Indices \ {c}, page = "verify", good, Ours(d), calls[d].phase = "sent"
        PROVE  calls[d].email # e
    BY <1>1, <1>2, <1>8, <2>1, <2>6 DEF LinkIsOurs
  <2>7. \A d \in Indices \ {c} : page = "verify" /\ good /\ Ours(d) /\ calls[d].phase = "sent"
          => live'[calls[d].email] = live[calls[d].email]
    BY <1>1, <2>1, <2>6, OursVerify DEF TypeOK
  <2>8. LinkIsOurs'
    BY <1>2, <2>1, <2>3, <2>7, LinkKept
  <2>9. (\A f \in Emails : acct[f] # "free" => acct'[f] # "free") /\ Verified'
    BY <1>1, <2>1, <2>2 DEF TypeOK, Verified
  <2>. QED
    BY <1>1, <1>2, <2>1, <2>3, <2>4, <2>5, <2>8, <2>9, ResolvedStep DEF TypeOK
<1>9. CASE ServeVerify(c) /\ calls[c].link # live[e]
  <2>1. calls[c].kind = "verify" /\ Answered(c, "refused") /\ UNCHANGED <<acct, sent, live, good>>
    BY <1>9 DEF ServeVerify, accountVars
  <2>2. Resolved(c, "refused")
    BY <1>1, <2>1, AnsweredSafe
  <2>3. ~(page = "verify" /\ good /\ Ours(c))
    BY <1>1, <1>2, <1>9 DEF LinkIsOurs
  <2>4. LinkIsOurs'
    BY <1>2, <2>1, <2>2, <2>3, LinkKept
  <2>. QED
    BY <1>1, <1>2, <2>1, <2>2, <2>4, ResolvedStep DEF TypeOK, LinksOfAccounts, Verified
<1>. QED
  BY <1>3, <1>4, <1>5, <1>6, <1>7, <1>8, <1>9 DEF Serve, ServeResend

LEMMA BreakStep ==
  ASSUME IInv, NEW c \in Indices, Break(c)
  PROVE  IInv'
<1>1. TypeOK /\ LinksOfAccounts /\ CallsOfPage
  BY DEF IInv
<1>2. PICK a \in {"refused", "cut"} : Answered(c, a)
  BY DEF Break
<1>3. /\ calls[c].phase # "over" /\ good' = FALSE
      /\ UNCHANGED <<strict, acct, sent, live, signedIn, pageVars>>
  BY DEF Break, UnderWay, accountVars
<1>4. calls[c].kind # "over"
  BY <1>1, <1>3 DEF CallsOfPage, Over
<1>5. Resolved(c, a)
  BY <1>1, <1>2, <1>4, AnsweredSafe
<1>6. LinkIsOurs'
  BY <1>3 DEF LinkIsOurs
<1>. QED
  BY <1>1, <1>3, <1>4, <1>5, <1>6, ResolvedStep DEF TypeOK, LinksOfAccounts, Verified

LEMMA ElsewhereStep ==
  ASSUME IInv, NEW e \in Emails, Elsewhere(e)
  PROVE  IInv'
<1>1. TypeOK /\ LinksOfAccounts /\ CallsOfPage /\ WaitsForItsCall /\ AnswersAreTrue /\ SuccessIsTrue
  BY DEF IInv
<1>2. PICK s \in {"unverified", "verified"} : acct' = [acct EXCEPT ![e] = s]
  BY DEF Elsewhere
<1>3. /\ live[e] # 0 /\ live' = [live EXCEPT ![e] = 0] /\ good' = FALSE
      /\ UNCHANGED <<strict, sent, signedIn, page, email, phase, needs, resend, edited, made, calls>>
  BY DEF Elsewhere, pageVars, callVars
<1>4. TypeOK'
  BY <1>1, <1>2, <1>3 DEF TypeOK
<1>5. LinksOfAccounts'
  BY <1>1, <1>2, <1>3 DEF LinksOfAccounts, TypeOK
<1>6. /\ \A f \in Emails : acct[f] # "free" => acct'[f] # "free"
      /\ Verified => Verified'
  BY <1>1, <1>2, <1>3 DEF TypeOK, Verified, LinksOfAccounts
<1>7. CallsOfPage' /\ WaitsForItsCall' /\ LinkIsOurs'
  BY <1>1, <1>3 DEF CallsOfPage, WaitsForItsCall, LinkIsOurs, Ours, Pending
<1>8. AnswersAreTrue'
  <2>1. \A c \in Indices : calls[c].kind = "signup" => calls[c].email \in Emails
    BY <1>1 DEF CallsOfPage, TypeOK, CallType
  <2>. QED
    BY <1>1, <1>3, <1>6, <2>1 DEF AnswersAreTrue, Pending, Ours
<1>9. SuccessIsTrue'
  BY <1>1, <1>3, <1>6 DEF SuccessIsTrue, TypeOK
<1>. QED
  BY <1>4, <1>5, <1>7, <1>8, <1>9 DEF IInv

(***************************************************************************)
(* Answers                                                                 *)
(***************************************************************************)

\* A call of the page that is heard is over, and the others stay.
LEMMA HeardSafe ==
  ASSUME IInv, NEW c \in Indices, calls[c].phase # "over", Heard(c)
  PROVE  /\ calls' \in [Indices -> CallType]
         /\ made' = made
         /\ calls'[c] = Over
         /\ \A d \in Indices \ {c} : calls'[d] = calls[d]
         /\ \A d \in Indices : calls'[d] = calls[d] \/ calls'[d] = Over
BY CallTypes DEF Heard, IInv, TypeOK

\* The rest of what a heard answer leaves as it was.
LEMMA HeardStep ==
  ASSUME IInv, NEW c \in Indices, calls[c].phase # "over", Heard(c), Ours(c),
         phase' \in {"failed", "done", phase}, needs' \in BOOLEAN, resend' \in {resend, "sent", "error"},
         WaitsForItsCall', SuccessIsTrue', page = "verify" /\ good => phase' # "failed",
         UNCHANGED <<strict, accountVars, signedIn, page, email, edited, good>>
  PROVE  IInv'
<1>1. TypeOK /\ LinksOfAccounts /\ CallsOfPage /\ AnswersAreTrue /\ LinkIsOurs
  BY DEF IInv
<1>2. UNCHANGED <<strict, acct, sent, live, signedIn, page, email, edited, good>>
  BY DEF accountVars
<1>3. /\ calls' \in [Indices -> CallType] /\ made' = made /\ calls'[c] = Over
      /\ \A d \in Indices \ {c} : calls'[d] = calls[d]
      /\ \A d \in Indices : calls'[d] = calls[d] \/ calls'[d] = Over
  BY HeardSafe
<1>4. Over.kind = "over" /\ Over.phase = "over" /\ Over.ear = "nobody"
  BY DEF Over
<1>5. TypeOK'
  BY <1>1, <1>2, <1>3 DEF TypeOK
<1>6. LinksOfAccounts'
  BY <1>1, <1>2 DEF LinksOfAccounts
<1>7. CallsOfPage'
  BY <1>1, <1>2, <1>3, <1>4 DEF CallsOfPage, Ours
<1>8. AnswersAreTrue'
  BY <1>1, <1>2, <1>3, <1>4 DEF AnswersAreTrue, Pending, Ours, Verified
<1>9. LinkIsOurs'
  BY <1>1, <1>2, <1>3, <1>4 DEF LinkIsOurs, Ours
<1>. QED
  BY <1>5, <1>6, <1>7, <1>8, <1>9 DEF IInv

\* When the submission has been heard, the form has nothing under way.
LEMMA NothingPending ==
  ASSUME IInv, NEW c \in Indices, calls[c].phase # "over", Heard(c), Pending(c, page), page' = page
  PROVE  \A d \in Indices : ~Pending(d, page)'
<1>1. calls'[c] = Over /\ \A d \in Indices \ {c} : calls'[d] = calls[d]
  BY HeardSafe
<1>2. \A d \in Indices : Pending(d, page) => d = c
  BY DEF IInv, WaitsForItsCall
<1>3. Over.ear = "nobody"
  BY DEF Over
<1>. QED
  BY <1>1, <1>2, <1>3 DEF Pending, Ours

LEMMA HearDoneStep ==
  ASSUME IInv, NEW c \in Indices, HearDone(c)
  PROVE  IInv'
<1>1. /\ Ours(c) /\ calls[c].kind = page /\ page # "login" /\ calls[c].phase = "ok" /\ Heard(c) /\ phase' = "done"
      /\ UNCHANGED <<strict, accountVars, signedIn, page, email, needs, resend, edited, good>>
  BY DEF HearDone
<1>2. TypeOK /\ AnswersAreTrue /\ SuccessIsTrue /\ CallsOfPage
  BY DEF IInv
<1>3. UNCHANGED <<strict, acct, page, email, edited, signedIn, resend>>
  BY <1>1 DEF accountVars
<1>4. \A d \in Indices : ~Pending(d, page)'
  BY <1>1, NothingPending DEF Pending
<1>5. page = "verify" => ~strict
  BY <1>1, <1>2 DEF CallsOfPage
<1>6. WaitsForItsCall'
  BY <1>1, <1>3, <1>4, <1>5 DEF WaitsForItsCall
<1>7. SuccessIsTrue'
  BY <1>1, <1>2, <1>3 DEF SuccessIsTrue, AnswersAreTrue, CallsOfPage, Pending, Verified
<1>. QED
  BY <1>1, <1>2, <1>6, <1>7, HeardStep DEF TypeOK

LEMMA HearRefusalStep ==
  ASSUME IInv, NEW c \in Indices, HearRefusal(c)
  PROVE  IInv'
<1>1. /\ Ours(c) /\ calls[c].kind = page /\ calls[c].phase \in {"refused", "unverified"} /\ Heard(c)
      /\ phase' = "failed" /\ needs' \in BOOLEAN
      /\ UNCHANGED <<strict, accountVars, signedIn, page, email, resend, edited, good>>
  BY DEF HearRefusal
<1>2. TypeOK /\ WaitsForItsCall /\ SuccessIsTrue /\ CallsOfPage /\ LinkIsOurs
  BY DEF IInv
<1>3. UNCHANGED <<strict, acct, page, email, edited, signedIn, resend>>
  BY <1>1 DEF accountVars
<1>4. \A d \in Indices : ~Pending(d, page)'
  BY <1>1, NothingPending DEF Pending
<1>5. page = "verify" => ~strict
  BY <1>1, <1>2 DEF CallsOfPage
<1>6. calls'[c] = Over /\ \A d \in Indices \ {c} : calls'[d] = calls[d]
  BY <1>1, HeardSafe
<1>7. WaitsForItsCall'
  <2>1. page = "login" => calls[c].kind # "resend"
    BY <1>1
  <2>2. page = "login" /\ resend = "sending" => \E d \in Indices : Pending(d, "resend")'
    BY <1>2, <1>6, <2>1 DEF WaitsForItsCall, Pending, Ours
  <2>. QED
    BY <1>1, <1>3, <1>4, <1>5, <2>2 DEF WaitsForItsCall
<1>8. SuccessIsTrue'
  BY <1>1, <1>2, <1>3 DEF SuccessIsTrue, Verified
<1>9. ~(page = "verify" /\ good)
  BY <1>1, <1>2 DEF LinkIsOurs
<1>. QED
  BY <1>1, <1>7, <1>8, <1>9, HeardStep

LEMMA HearResentStep ==
  ASSUME IInv, NEW c \in Indices, HearResent(c)
  PROVE  IInv'
<1>1. /\ Ours(c) /\ page = "login" /\ calls[c].kind = "resend" /\ calls[c].phase \in {"ok", "refused"} /\ Heard(c)
      /\ resend' \in {"sent", "error"}
      /\ UNCHANGED <<strict, accountVars, signedIn, page, email, phase, needs, edited, good>>
  BY DEF HearResent
<1>2. TypeOK /\ WaitsForItsCall /\ SuccessIsTrue
  BY DEF IInv
<1>3. UNCHANGED <<strict, acct, page, email, phase, edited, signedIn>>
  BY <1>1 DEF accountVars
<1>4. calls'[c] = Over /\ \A d \in Indices \ {c} : calls'[d] = calls[d]
  BY <1>1, HeardSafe
<1>5. \A d \in Indices : Pending(d, page)' <=> Pending(d, page)
  BY <1>1, <1>3, <1>4 DEF Pending, Ours, Over
<1>6. WaitsForItsCall'
  BY <1>1, <1>2, <1>3, <1>5 DEF WaitsForItsCall
<1>7. SuccessIsTrue'
  BY <1>1, <1>2, <1>3 DEF SuccessIsTrue, Verified
<1>. QED
  BY <1>1, <1>2, <1>6, <1>7, HeardStep DEF TypeOK

(***************************************************************************)
(* The theorems                                                            *)
(***************************************************************************)

\* The inductive invariant of the auth pages, for any number of addresses and
\* calls: a form waits exactly while its one submission is under way, and what
\* the panels say is true.
THEOREM AuthPagesInvariant == Spec => []IInv
<1>1. IInv /\ UNCHANGED vars => IInv'
  BY DEF vars, accountVars, pageVars, callVars, IInv, TypeOK, LinksOfAccounts, CallsOfPage, WaitsForItsCall,
         AnswersAreTrue, SuccessIsTrue, LinkIsOurs, Ours, Pending, Verified
<1>2. IInv /\ Next => IInv'
  <2>1. SUFFICES ASSUME IInv, Next PROVE IInv'
    OBVIOUS
  <2>2. ASSUME NEW c \in Indices, Serve(c) \/ Break(c) \/ Hear(c)
        PROVE  IInv'
    BY <2>1, <2>2, ServeStep, BreakStep, NavigationStep, HearDoneStep, HearRefusalStep, HearResentStep DEF Hear
  <2>3. ASSUME NEW e \in Emails, Elsewhere(e) \/ \E n \in 1..sent[e] : OpenLink(e, n)
        PROVE  IInv'
    BY <2>1, <2>3, ElsewhereStep, OpenLinkStep
  <2>. QED
    BY <2>1, <2>2, <2>3, NavigationStep, TypeStep, SubmitStep, AskAgainStep DEF Next
<1>. QED
  BY <1>1, <1>2, InitIInv, PTL DEF Spec

\* A link that works and is followed on one page only is not refused there,
\* even when the effect that spends it runs twice, for any number of addresses
\* and calls (VerifyEmailPage's startedRef).
THEOREM FreshLinks == Spec => []FreshLinkNotRefused
<1>1. IInv => FreshLinkNotRefused
  BY DEF IInv, LinkIsOurs, FreshLinkNotRefused
<1>. QED
  BY <1>1, AuthPagesInvariant, PTL

=============================================================================

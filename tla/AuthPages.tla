----------------------------- MODULE AuthPages ------------------------------
(***************************************************************************)
(* The pages for signing up, asking for a new link, verifying and signing  *)
(* in (frontend/src/features/auth), in one tab: what is typed, what is     *)
(* under way when the user goes on, and what the answers do then.          *)
(*                                                                         *)
(* The backend is reduced to the accounts and the link that works for      *)
(* each; Accounts models how it gets there.                                *)
(***************************************************************************)
EXTENDS Naturals

CONSTANTS
  Emails,
  NoEmail,     \* a field that validateEmail refuses
  MaxCalls     \* bound on the number of calls to the backend

ASSUME AuthPagesConstants == NoEmail \notin Emails /\ MaxCalls \in Nat

VARIABLES
  strict,      \* React's StrictMode runs effects twice (the development build)
  acct,        \* address -> "free", "unverified" or "verified"
  sent,        \* address -> how many links have been mailed to it
  live,        \* address -> the link that works, or 0
  signedIn,    \* useAuth has a user
  page,        \* "login", "signup", "resend", "verify" or "app"
  email,       \* the email field
  phase,       \* "form", "failed" (the form with an error), "waiting", "done" or "missing"
  needs,       \* LoginPage's needsVerification
  resend,      \* LoginPage's resendState
  made,        \* number of calls to the backend so far
  calls,       \* the calls to the backend, in the order they were sent
  edited,      \* history: the field was edited while its form was waiting
  good         \* history: only this page can have spent the link it was opened with

accountVars == <<acct, sent, live>>
pageVars == <<page, email, phase, needs, resend, edited>>
callVars == <<made, calls>>
vars == <<strict, accountVars, signedIn, pageVars, callVars, good>>

Indices == 1..MaxCalls

\* A call is heard by its page while that is mounted, then by an abandoned
\* function of the same document, and by nobody once the document is gone.
Call(k, e, n, ear) == [kind |-> k, email |-> e, link |-> n, phase |-> "sent", ear |-> ear]
Over == [kind |-> "over", email |-> NoEmail, link |-> 0, phase |-> "over", ear |-> "nobody"]

\* A call that nobody will hear of any more is forgotten.
Kept(cs) ==
  [c \in Indices |->
     IF \/ cs[c].ear = "nobody" /\ cs[c].phase # "sent"
        \/ cs[c].ear = "document" /\ cs[c].phase # "sent" /\ ~(cs[c].kind = "login" /\ cs[c].phase = "ok")
     THEN Over ELSE cs[c]]

\* A call is sent while the page leaves the other calls as cs.
Send(cs, call) ==
  /\ made < MaxCalls
  /\ made' = made + 1
  /\ calls' = [cs EXCEPT ![made + 1] = call]

Leaving(cs) == Kept([c \in Indices |-> [cs[c] EXCEPT !.ear = IF @ = "page" THEN "document" ELSE @]])
Unloading(cs) == Kept([c \in Indices |-> [cs[c] EXCEPT !.ear = "nobody"]])

UnderWay(c) == calls[c].phase \in {"sent", "ok", "unverified", "refused"}
Ours(c) == calls[c].ear = "page"

\* LoginPage sends those who are signed in to the app; RequireAuth the others
\* to LoginPage.
Routed(p, signed) ==
  CASE p = "login" /\ signed -> "app"
    [] p = "app" /\ ~signed -> "login"
    [] OTHER -> p

\* A page as it is first drawn.
Open(p, e, ph) ==
  /\ page' = p
  /\ email' = e
  /\ phase' = ph
  /\ needs' = FALSE
  /\ resend' = "idle"
  /\ edited' = FALSE

\* ResendVerificationPage takes an address from the URL.
Prefill(p) == IF p = "resend" THEN Emails \cup {NoEmail} ELSE {NoEmail}

(***************************************************************************)
(* Going from page to page                                                 *)
(***************************************************************************)

\* A link of a page, or the history of the browser.
Go(p) ==
  /\ page # p
  /\ \E e \in Prefill(p) : Open(Routed(p, signedIn), e, "form")
  /\ calls' = Leaving(calls)
  /\ good' = FALSE
  /\ UNCHANGED <<strict, accountVars, signedIn, made>>

\* A page is opened or loaded again by its address; that of VerifyEmailPage
\* lacks the token here.
Load(p) ==
  /\ \E e \in Prefill(p) :
       Open(Routed(p, signedIn), e, IF p = "verify" THEN "missing" ELSE "form")
  /\ calls' = Unloading(calls)
  /\ good' = FALSE
  /\ UNCHANGED <<strict, accountVars, signedIn, made>>

\* Link n of an address has not been spent and nothing else is spending it.
Unspent(e, n) ==
  /\ n = live[e]
  /\ ~\E c \in Indices :
        UnderWay(c) /\ calls[c].kind = "verify" /\ calls[c].email = e /\ calls[c].link = n

\* Faulty variant: without startedRef the second run of the effect sends the
\* token again.
OpenLinkUnguarded(e, n) ==
  /\ made + 1 < MaxCalls
  /\ Open("verify", NoEmail, "waiting")
  /\ good' = Unspent(e, n)
  /\ made' = made + 2
  /\ calls' = [Unloading(calls) EXCEPT ![made + 1] = Call("verify", e, n, IF strict THEN "document" ELSE "page"),
                                      ![made + 2] = IF strict THEN Call("verify", e, n, "page") ELSE Over]
  /\ UNCHANGED <<strict, accountVars, signedIn>>

\* VerifyEmailPage is loaded with a link, or gone back to from another page,
\* and sends its token.  In StrictMode the effect is undone, which cancels the
\* call for this page, and run again, when startedRef stops it.
OpenLink(e, n) ==
  LET call == Call("verify", e, n, IF strict THEN "document" ELSE "page") IN
  /\ Open("verify", NoEmail, "waiting")
  /\ good' = Unspent(e, n)
  /\ \/ Send(Unloading(calls), call)
     \/ page # "verify" /\ Send(Leaving(calls), call)
  /\ UNCHANGED <<strict, accountVars, signedIn>>

\* UserMenu's onLogout.
SignOut ==
  /\ signedIn
  /\ signedIn' = FALSE
  /\ Open("login", NoEmail, "form")
  /\ calls' = Leaving(calls)
  /\ good' = FALSE
  /\ UNCHANGED <<strict, accountVars, made>>

\* VerifyEmailPage's timer after a success.
Redirect ==
  /\ page = "verify"
  /\ phase = "done"
  /\ Open(Routed("login", signedIn), NoEmail, "form")
  /\ calls' = Leaving(calls)
  /\ good' = FALSE
  /\ UNCHANGED <<strict, accountVars, signedIn, made>>

(***************************************************************************)
(* The forms                                                               *)
(***************************************************************************)

FormShown == page \in {"login", "signup", "resend"} /\ phase \in {"form", "failed", "waiting"}

\* The field is not disabled while the form waits.
Type(e) ==
  /\ FormShown
  /\ email' = e
  /\ edited' = (edited \/ phase = "waiting")
  /\ UNCHANGED <<strict, accountVars, signedIn, page, phase, needs, resend, callVars, good>>

\* onSubmit clears what an earlier submission has left, and sends the form or
\* finds a field in error.
Submission ==
  /\ needs' = FALSE
  /\ resend' = "idle"
  /\ edited' = FALSE
  /\ \/ email # NoEmail /\ phase' = "waiting" /\ Send(calls, Call(page, email, 0, "page"))
     \/ phase' = "failed" /\ UNCHANGED callVars
  /\ UNCHANGED <<strict, accountVars, signedIn, page, email, good>>

\* Faulty variant: the button is not disabled while the form waits.
SubmitAgain == FormShown /\ Submission

Submit == FormShown /\ phase # "waiting" /\ Submission

\* LoginPage's onResend, which takes the field as it is and checks nothing.
AskAgain ==
  /\ page = "login"
  /\ needs
  /\ resend # "sending"
  /\ resend' = "sending"
  /\ Send(calls, Call("resend", email, 0, "page"))
  /\ UNCHANGED <<strict, accountVars, signedIn, page, email, phase, needs, edited, good>>

(***************************************************************************)
(* The backend                                                             *)
(***************************************************************************)

Answered(c, a) == calls' = Kept([calls EXCEPT ![c].phase = a]) /\ UNCHANGED made

\* A new link to an address replaces the one that works.
Mail(e) ==
  /\ sent' = [sent EXCEPT ![e] = @ + 1]
  /\ live' = [live EXCEPT ![e] = sent[e] + 1]

ServeSignup(c) ==
  LET e == calls[c].email IN
  /\ calls[c].kind = "signup"
  /\ \/ acct[e] = "free" /\ acct' = [acct EXCEPT ![e] = "unverified"] /\ Mail(e) /\ Answered(c, "ok")
     \/ acct[e] # "free" /\ Answered(c, "refused") /\ UNCHANGED accountVars
  /\ UNCHANGED good

\* The password may be wrong.
ServeLogin(c) ==
  /\ calls[c].kind = "login"
  /\ \/ Answered(c, "refused")
     \/ acct[calls[c].email] = "verified" /\ Answered(c, "ok")
     \/ acct[calls[c].email] = "unverified" /\ Answered(c, "unverified")
  /\ UNCHANGED <<accountVars, good>>

\* The answer does not tell whether there is such an account.
ServeResend(c) ==
  LET e == calls[c].email IN
  /\ calls[c].kind = "resend"
  /\ \/ e = NoEmail /\ Answered(c, "refused") /\ UNCHANGED <<accountVars, good>>
     \/ e # NoEmail /\ acct[e] # "unverified" /\ Answered(c, "ok") /\ UNCHANGED <<accountVars, good>>
     \/ e # NoEmail /\ acct[e] = "unverified" /\ Answered(c, "ok")
        /\ Mail(e) /\ good' = FALSE /\ UNCHANGED acct

ServeVerify(c) ==
  LET e == calls[c].email IN
  /\ calls[c].kind = "verify"
  /\ \/ calls[c].link = live[e] /\ Answered(c, "ok")
        /\ acct' = [acct EXCEPT ![e] = "verified"] /\ live' = [live EXCEPT ![e] = 0] /\ UNCHANGED sent
     \/ calls[c].link # live[e] /\ Answered(c, "refused") /\ UNCHANGED accountVars
  /\ UNCHANGED good

Serve(c) ==
  /\ calls[c].phase = "sent"
  /\ ServeSignup(c) \/ ServeLogin(c) \/ ServeResend(c) \/ ServeVerify(c)
  /\ UNCHANGED <<strict, signedIn, pageVars>>

\* The backend fails; or the network does, before or after the backend has
\* done its part.
Break(c) ==
  /\ \/ calls[c].phase = "sent" /\ Answered(c, "refused")
     \/ UnderWay(c) /\ Answered(c, "cut")
  /\ good' = FALSE
  /\ UNCHANGED <<strict, accountVars, signedIn, pageVars>>

\* The link is followed elsewhere, or expires.
Elsewhere(e) ==
  /\ live[e] # 0
  /\ \E s \in {"unverified", "verified"} : acct' = [acct EXCEPT ![e] = s]
  /\ live' = [live EXCEPT ![e] = 0]
  /\ good' = FALSE
  /\ UNCHANGED <<strict, sent, signedIn, pageVars, callVars>>

(***************************************************************************)
(* Answers.  A cut call rejects its promise, which nobody catches.         *)
(***************************************************************************)

Heard(c) == calls' = [calls EXCEPT ![c] = Over] /\ UNCHANGED made

\* LoginPage goes on even when it has been left: login and navigate.
HearSignedIn(c) ==
  /\ calls[c].kind = "login"
  /\ calls[c].phase = "ok"
  /\ signedIn' = TRUE
  /\ Open("app", NoEmail, "form")
  /\ calls' = Leaving([calls EXCEPT ![c] = Over])
  /\ good' = FALSE
  /\ UNCHANGED <<strict, accountVars, made>>

\* The panel that follows a success.
HearDone(c) ==
  /\ Ours(c)
  /\ calls[c].kind = page
  /\ page # "login"
  /\ calls[c].phase = "ok"
  /\ Heard(c)
  /\ phase' = "done"
  /\ UNCHANGED <<strict, accountVars, signedIn, page, email, needs, resend, edited, good>>

\* Faulty variant: a refusal returns before setSubmitting(false).
HearRefusalWaiting(c) ==
  /\ Ours(c)
  /\ calls[c].kind = page
  /\ calls[c].phase \in {"refused", "unverified"}
  /\ Heard(c)
  /\ needs' = (calls[c].phase = "unverified")
  /\ UNCHANGED <<strict, accountVars, signedIn, page, email, phase, resend, edited, good>>

\* The form again, with an error; LoginPage may offer to send another link.
HearRefusal(c) ==
  /\ Ours(c)
  /\ calls[c].kind = page
  /\ calls[c].phase \in {"refused", "unverified"}
  /\ Heard(c)
  /\ phase' = "failed"
  /\ needs' = (calls[c].phase = "unverified")
  /\ UNCHANGED <<strict, accountVars, signedIn, page, email, resend, edited, good>>

\* The end of LoginPage's onResend.
HearResent(c) ==
  /\ Ours(c)
  /\ page = "login"
  /\ calls[c].kind = "resend"
  /\ calls[c].phase \in {"ok", "refused"}
  /\ Heard(c)
  /\ resend' = IF calls[c].phase = "ok" THEN "sent" ELSE "error"
  /\ UNCHANGED <<strict, accountVars, signedIn, page, email, phase, needs, edited, good>>

Hear(c) ==
  /\ calls[c].ear # "nobody"
  /\ HearSignedIn(c) \/ HearDone(c) \/ HearRefusal(c) \/ HearResent(c)

(***************************************************************************)
(* The specification                                                       *)
(***************************************************************************)

Init ==
  /\ strict \in BOOLEAN
  /\ acct \in [Emails -> {"free", "unverified", "verified"}]
  /\ sent = [e \in Emails |-> IF acct[e] = "free" THEN 0 ELSE 1]
  /\ live = [e \in Emails |-> IF acct[e] = "unverified" THEN 1 ELSE 0]
  /\ signedIn = FALSE
  /\ page = "login"
  /\ email = NoEmail
  /\ phase = "form"
  /\ needs = FALSE
  /\ resend = "idle"
  /\ made = 0
  /\ calls = [c \in Indices |-> Over]
  /\ edited = FALSE
  /\ good = FALSE

Next ==
  \/ \E p \in {"login", "signup", "resend"} : Go(p)
  \/ \E p \in {"login", "signup", "resend", "verify", "app"} : Load(p)
  \/ \E e \in Emails : Elsewhere(e) \/ \E n \in 1..sent[e] : OpenLink(e, n)
  \/ \E e \in Emails \cup {NoEmail} : Type(e)
  \/ SignOut \/ Redirect \/ Submit \/ AskAgain
  \/ \E c \in Indices : Serve(c) \/ Break(c) \/ Hear(c)

Spec == Init /\ [][Next]_vars

\* The backend answers, the answers are heard, and the timer fires.
Fairness ==
  /\ \A c \in Indices : WF_vars(Serve(c)) /\ WF_vars(Hear(c))
  /\ WF_vars(Redirect)

FairSpec == Spec /\ Fairness

(***************************************************************************)
(* Properties                                                              *)
(***************************************************************************)

CallType ==
  [kind : {"signup", "login", "resend", "verify", "over"}, email : Emails \cup {NoEmail}, link : Nat,
   phase : {"sent", "ok", "unverified", "refused", "cut", "over"}, ear : {"page", "document", "nobody"}]

\* Every variable has its type.
TypeOK ==
  /\ strict \in BOOLEAN
  /\ acct \in [Emails -> {"free", "unverified", "verified"}]
  /\ sent \in [Emails -> Nat]
  /\ live \in [Emails -> Nat]
  /\ signedIn \in BOOLEAN
  /\ page \in {"login", "signup", "resend", "verify", "app"}
  /\ email \in Emails \cup {NoEmail}
  /\ phase \in {"form", "failed", "waiting", "done", "missing"}
  /\ needs \in BOOLEAN
  /\ resend \in {"idle", "sending", "sent", "error"}
  /\ made \in 0..MaxCalls
  /\ calls \in [Indices -> CallType]
  /\ edited \in BOOLEAN
  /\ good \in BOOLEAN

\* A link that works is the latest of an account that waits for it.
LinksOfAccounts ==
  \A e \in Emails : live[e] # 0 => live[e] = sent[e] /\ acct[e] = "unverified"

\* What the page has sent is of its kind, and only LoginPage sends two kinds;
\* in StrictMode VerifyEmailPage hears of nothing.
CallsOfPage ==
  \A c \in Indices :
    /\ c > made => calls[c] = Over
    /\ calls[c].kind = "over" <=> calls[c] = Over
    /\ Ours(c) => calls[c].kind = page \/ (page = "login" /\ calls[c].kind = "resend")
    /\ strict /\ page = "verify" => ~Ours(c)
    /\ calls[c].kind \in {"signup", "login"} => calls[c].email # NoEmail
    /\ calls[c].kind = "verify" => calls[c].email # NoEmail /\ calls[c].link # 0

\* A call of the page on the screen that it has not heard of.
Pending(c, k) == Ours(c) /\ calls[c].kind = k

\* A page has at most one submission under way, and waits exactly while it
\* has one, but for StrictMode's cancelled call.
WaitsForItsCall ==
  /\ \A c, d \in Indices : Pending(c, page) /\ Pending(d, page) => c = d
  /\ phase = "waiting" <=>
       (\E c \in Indices : Pending(c, page)) \/ (strict /\ page = "verify" /\ phase # "missing")
  /\ page = "login" /\ resend = "sending" => \E c \in Indices : Pending(c, "resend")

Verified == \E e \in Emails : acct[e] = "verified"

\* A success that is on its way is true, and is about the address of the form.
AnswersAreTrue ==
  \A c \in Indices :
    /\ calls[c].kind = "signup" /\ calls[c].phase = "ok" => acct[calls[c].email] # "free"
    /\ calls[c].kind \in {"login", "verify"} /\ calls[c].phase = "ok" => Verified
    /\ Pending(c, "signup") /\ ~edited => calls[c].email = email

\* The panels tell the truth: the address they name has an account, unless it
\* was edited while the form waited; and nobody is signed in before an address
\* has been verified.
SuccessIsTrue ==
  /\ page = "signup" /\ phase = "done" /\ ~edited => email # NoEmail /\ acct[email] # "free"
  /\ (page = "verify" /\ phase = "done") \/ signedIn => Verified

\* The link that a page was opened with is its own to spend.
LinkIsOurs ==
  page = "verify" /\ good =>
    /\ phase # "failed"
    /\ \A c \in Indices : Ours(c) =>
         \/ calls[c].phase = "ok"
         \/ /\ calls[c].phase = "sent"
            /\ calls[c].link = live[calls[c].email]
            /\ \A d \in Indices :
                 calls[d].kind = "verify" /\ calls[d].phase = "sent" /\ calls[d].email = calls[c].email
                   /\ calls[d].link = calls[c].link => d = c

\* The inductive invariant.
IInv ==
  /\ TypeOK
  /\ LinksOfAccounts
  /\ CallsOfPage
  /\ WaitsForItsCall
  /\ AnswersAreTrue
  /\ SuccessIsTrue
  /\ LinkIsOurs

\* The owner of a link that works is not told that it does not, as long as
\* nobody else follows it, nothing replaces it and the network holds, even when
\* the effect that spends it runs twice (VerifyEmailPage's startedRef).
FreshLinkNotRefused == page = "verify" /\ good => phase # "failed"

\* A call of this page was cut, or StrictMode has cancelled it.
Stranded ==
  \/ \E c \in Indices : Ours(c) /\ calls[c].phase = "cut"
  \/ strict /\ page = "verify"

\* A form that waits, or a link being sent, comes to an end unless it is
\* stranded, whatever the user does meanwhile; and a verified user is taken to
\* the login page (onSubmit, onResend, VerifyEmailPage's effects).
ComesBack ==
  /\ phase = "waiting" ~> phase # "waiting" \/ Stranded
  /\ resend = "sending" ~> resend # "sending" \/ Stranded
  /\ (page = "verify" /\ phase = "done") ~> ~(page = "verify" /\ phase = "done")

=============================================================================

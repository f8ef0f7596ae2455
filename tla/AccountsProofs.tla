--------------------------- MODULE AccountsProofs ---------------------------
(***************************************************************************)
(* Proofs about Accounts, for any number of requests, addresses and        *)
(* passwords.                                                              *)
(*                                                                         *)
(* What a step can do to the rows of users and tokens is said once, in     *)
(* UsersGrow and TokensEvolve: accounts stay, verified accounts and used   *)
(* tokens stay as they are, and a token comes to life only when it is      *)
(* issued.  Most parts of the inductive invariant follow from that and     *)
(* from what the one handler that moves knows.                             *)
(***************************************************************************)
EXTENDS Accounts, TLAPS

\* A request's handler runs or is rolled back.
Moves(r) == Receive(r) \/ Progress(r) \/ RollBack(r)

Handlers == \A r \in Requests : HandlerOK(r)
TypeInv == TypeOK /\ Handlers

(***************************************************************************)
(* Types and handlers                                                      *)
(***************************************************************************)

\* What a user signs up with is a row of users.
LEMMA NewUserType == \A c \in SignupCalls : NewUser(c) \in UserRow
BY NormalizeAssumption DEF SignupCalls, NewUser, UserRow

\* Calls are told apart by their op, and a row is never NoRow.
LEMMA CallKinds ==
  ASSUME NEW c \in AllCalls
  PROVE  /\ FirstCall[c.op] \in {"createUser", "findLogin", "findUnverified", "findToken"}
         /\ FirstCall[c.op] = "createUser" => c \in SignupCalls
         /\ FirstCall[c.op] = "findLogin" => c \in LoginCalls
         /\ FirstCall[c.op] = "findUnverified" => c \in ResendCalls
         /\ FirstCall[c.op] = "findToken" => c \in VerifyCalls
BY DEF AllCalls, SignupCalls, LoginCalls, ResendCalls, VerifyCalls, FirstCall

\* What handlers other than r's know is untouched.
OthersKept(r) ==
  \A q \in Requests \ {r} :
    /\ pc'[q] = pc[q] /\ call'[q] = call[q] /\ user'[q] = user[q]
    /\ doomed'[q] = doomed[q] /\ reply'[q] = reply[q]

\* A step of one request moves only that request, which is not done yet.
LEMMA OneMoves ==
  ASSUME TypeOK, NEW r \in Requests, Moves(r)
  PROVE  OthersKept(r) /\ pc[r] \notin {"answered", "lost"}
BY DEF TypeOK, OthersKept, Moves, Receive, Progress, RollBack, Goto, Answer, CreateUser, IssueToken,
       SendMail, FindUnverified, SelectUnused, DeleteUnused, FindToken, Claim, VerifyUser, Commit,
       FindLogin, CheckPassword

\* A request that is answered with other than 302 knows nothing more.
LEMMA AnswerOK ==
  ASSUME TypeOK, NEW r \in Requests, NEW code \in Codes, Answer(r, code),
         code = "302" => call'[r] \in VerifyCalls /\ call'[r].token \in Requests
  PROVE  HandlerOK(r)'
BY DEF TypeOK, Answer, Codes, HandlerOK

\* A request that goes on to another statement has no reply.
LEMMA GotoReply ==
  ASSUME TypeInv, NEW r \in Requests, NEW label \in Labels, Goto(r, label),
         pc[r] \notin {"answered"}
  PROVE  /\ pc'[r] = label /\ reply'[r] = "none" /\ label # "answered"
         /\ pc' \in [Requests -> Labels \cup {"idle", "answered", "lost"}]
BY DEF TypeInv, TypeOK, Handlers, HandlerOK, Goto, Labels

\* An arriving request keeps the types.
LEMMA ReceiveType ==
  ASSUME TypeInv, NEW r \in Requests, Receive(r)
  PROVE  TypeOK' /\ HandlerOK(r)'
<1>1. PICK c \in Calls : call' = [call EXCEPT ![r] = c] /\ Goto(r, FirstCall[c.op])
  BY DEF Receive
<1>2. c \in AllCalls
  BY CallsAssumption
<1>3. pc[r] = "idle" /\ FirstCall[c.op] \in Labels
  BY <1>2, CallKinds DEF Receive, Labels
<1>4. /\ pc'[r] = FirstCall[c.op] /\ reply'[r] = "none"
      /\ pc' \in [Requests -> Labels \cup {"idle", "answered", "lost"}]
  BY <1>1, <1>3, GotoReply
<1>5. call'[r] = c
  BY <1>1 DEF TypeInv, TypeOK
<1>6. doomed'[r] = {}
  BY <1>3 DEF Receive, TypeInv, Handlers, HandlerOK
<1>7. TypeOK'
  BY <1>1, <1>2, <1>4 DEF TypeInv, TypeOK, Receive, Goto
<1>8. HandlerOK(r)'
  BY <1>2, <1>4, <1>5, <1>6, CallKinds DEF HandlerOK
<1>. QED
  BY <1>7, <1>8

\* signup, with the dispatch of its mail, keeps the types.
LEMMA SignupType ==
  ASSUME TypeInv, NEW r \in Requests, CreateUser(r) \/ IssueToken(r) \/ SendMail(r)
  PROVE  TypeOK' /\ HandlerOK(r)'
<1>1. CASE CreateUser(r)
  <2>1. pc[r] = "createUser" /\ call[r] \in SignupCalls /\ doomed[r] = {}
    BY <1>1 DEF CreateUser, TypeInv, Handlers, HandlerOK
  <2>2. NewUser(call[r]) \in UserRow
    BY <2>1, NewUserType
  <2>3. CASE Answer(r, "EMAIL_TAKEN") /\ UNCHANGED <<users, user>>
    <3>1. TypeOK'
      BY <1>1, <2>3 DEF CreateUser, TypeInv, TypeOK, Answer, Codes
    <3>. QED
      BY <2>3, <3>1, AnswerOK DEF TypeInv, Codes
  <2>4. CASE /\ users' = [users EXCEPT ![r] = NewUser(call[r])]
             /\ user' = [user EXCEPT ![r] = [id |-> r, row |-> NewUser(call[r])]]
             /\ Goto(r, "issueToken")
    <3>1. [id |-> r, row |-> NewUser(call[r])] \in UserCopy
      BY <2>2 DEF UserCopy
    <3>2. TypeOK'
      BY <1>1, <2>2, <2>4, <3>1 DEF CreateUser, TypeInv, TypeOK, Goto, Labels
    <3>3. pc'[r] = "issueToken" /\ reply'[r] = "none"
      BY <2>1, <2>4, GotoReply DEF Labels
    <3>4. user'[r] \in UserCopy /\ call'[r] = call[r] /\ doomed'[r] = {}
      BY <1>1, <2>1, <2>4, <3>1 DEF CreateUser, TypeInv, TypeOK
    <3>5. HandlerOK(r)'
      BY <2>1, <3>3, <3>4 DEF HandlerOK
    <3>. QED
      BY <3>2, <3>5
  <2>. QED
    BY <1>1, <2>3, <2>4 DEF CreateUser
<1>2. CASE IssueToken(r)
  <2>1. pc[r] = "issueToken" /\ user[r] \in UserCopy /\ call[r] \in SignupCalls \cup ResendCalls
    BY <1>2 DEF IssueToken, TypeInv, Handlers, HandlerOK
  <2>2. [userId |-> user[r].id, used |-> FALSE, expired |-> FALSE] \in TokenRow
    BY <2>1 DEF UserCopy, TokenRow
  <2>3. TypeOK'
    BY <1>2, <2>2 DEF IssueToken, TypeInv, TypeOK, Goto, Labels
  <2>4. pc'[r] = "sendMail" /\ reply'[r] = "none"
    BY <1>2, <2>1, GotoReply DEF IssueToken, Labels
  <2>5. HandlerOK(r)'
    BY <1>2, <2>1, <2>4 DEF IssueToken, HandlerOK
  <2>. QED
    BY <2>3, <2>5
<1>3. CASE SendMail(r)
  <2>1. Dispatched(call[r]) \in {"201", "202"}
    BY DEF Dispatched
  <2>2. TypeOK'
    BY <1>3, <2>1 DEF SendMail, TypeInv, TypeOK, Answer, Codes
  <2>. QED
    BY <1>3, <2>1, <2>2, AnswerOK DEF SendMail, TypeInv, Codes
<1>. QED
  BY <1>1, <1>2, <1>3

\* A copy of an account that is there is a copy.
LEMMA CopyType ==
  ASSUME TypeOK, NEW u \in Requests, UserExists(u)
  PROVE  [id |-> u, row |-> users[u]] \in UserCopy
BY DEF TypeOK, UserExists, UserCopy

\* resendVerification keeps the types.
LEMMA ResendType ==
  ASSUME TypeInv, NEW r \in Requests, FindUnverified(r) \/ SelectUnused(r) \/ DeleteUnused(r)
  PROVE  TypeOK' /\ HandlerOK(r)'
<1>1. CASE FindUnverified(r)
  <2>1. pc[r] = "findUnverified" /\ call[r] \in ResendCalls /\ doomed[r] = {}
    BY <1>1 DEF FindUnverified, TypeInv, Handlers, HandlerOK
  <2>2. CASE Answer(r, "202") /\ UNCHANGED user
    <3>1. TypeOK'
      BY <1>1, <2>2 DEF FindUnverified, TypeInv, TypeOK, Answer, Codes
    <3>. QED
      BY <2>2, <3>1, AnswerOK DEF TypeInv, Codes
  <2>3. ASSUME NEW u \in Requests, UserExists(u), Goto(r, "selectUnused"),
               user' = [user EXCEPT ![r] = [id |-> u, row |-> users[u]]]
        PROVE  TypeOK' /\ HandlerOK(r)'
    <3>1. user' \in [Requests -> UserCopy \cup {NoRow}] /\ user'[r] \in UserCopy
      BY <2>3, CopyType DEF TypeInv, TypeOK
    <3>2. pc'[r] = "selectUnused" /\ reply'[r] = "none"
          /\ pc' \in [Requests -> Labels \cup {"idle", "answered", "lost"}]
      BY <2>1, <2>3, GotoReply DEF Labels
    <3>3. TypeOK'
      BY <1>1, <2>3, <3>1, <3>2 DEF FindUnverified, TypeInv, TypeOK, Goto
    <3>4. HandlerOK(r)'
      BY <1>1, <2>1, <3>1, <3>2 DEF FindUnverified, HandlerOK
    <3>. QED
      BY <3>3, <3>4
  <2>. QED
    BY <1>1, <2>2, <2>3 DEF FindUnverified, UsersWith
<1>2. CASE SelectUnused(r)
  <2>1. pc[r] = "selectUnused" /\ call[r] \in ResendCalls /\ user[r] \in UserCopy
    BY <1>2 DEF SelectUnused, TypeInv, Handlers, HandlerOK
  <2>2. pc'[r] = "deleteUnused" /\ reply'[r] = "none"
    BY <1>2, <2>1, GotoReply DEF SelectUnused, Labels
  <2>3. TypeOK'
    BY <1>2 DEF SelectUnused, TypeInv, TypeOK, Goto, Labels
  <2>4. HandlerOK(r)'
    BY <1>2, <2>1, <2>2 DEF SelectUnused, HandlerOK
  <2>. QED
    BY <2>3, <2>4
<1>3. CASE DeleteUnused(r)
  <2>1. pc[r] = "deleteUnused" /\ call[r] \in ResendCalls /\ user[r] \in UserCopy
    BY <1>3 DEF DeleteUnused, TypeInv, Handlers, HandlerOK
  <2>2. pc'[r] = "issueToken" /\ reply'[r] = "none"
    BY <1>3, <2>1, GotoReply DEF DeleteUnused, Labels
  <2>3. TypeOK'
    BY <1>3 DEF DeleteUnused, TypeInv, TypeOK, Goto, Labels
  <2>4. HandlerOK(r)'
    BY <1>3, <2>1, <2>2 DEF DeleteUnused, HandlerOK
  <2>. QED
    BY <2>3, <2>4
<1>. QED
  BY <1>1, <1>2, <1>3

\* The two rows that a commit writes are rows.
LEMMA CommitType ==
  ASSUME TypeOK, NEW t \in Requests,
         users' = [users EXCEPT ![tokens[t].userId].emailVerified = TRUE],
         tokens' = [tokens EXCEPT ![t].used = TRUE],
         TokenExists(t), UserExists(tokens[t].userId)
  PROVE  /\ users' \in [Requests -> UserRow \cup {NoRow}]
         /\ tokens' \in [Requests -> TokenRow \cup {NoRow}]
<1>. DEFINE u == tokens[t].userId
<1>1. tokens[t] \in TokenRow /\ u \in Requests
  BY DEF TypeOK, TokenExists, TokenRow
<1>2. users[u] \in UserRow
  BY <1>1 DEF TypeOK, UserExists
<1>3. [tokens[t] EXCEPT !.used = TRUE] \in TokenRow /\ [users[u] EXCEPT !.emailVerified = TRUE] \in UserRow
  BY <1>1, <1>2 DEF TokenRow, UserRow
<1>. QED
  BY <1>1, <1>3 DEF TypeOK

\* verifyEmail keeps the types.
LEMMA VerifyType ==
  ASSUME TypeInv, ClaimsExclude, RowsInOrder, NEW r \in Requests,
         FindToken(r) \/ Claim(r) \/ VerifyUser(r) \/ Commit(r) \/ RollBack(r)
  PROVE  TypeOK' /\ HandlerOK(r)'
<1>1. call[r] \in VerifyCalls /\ pc[r] \notin {"idle", "answered"}
      /\ UNCHANGED <<inbox, call, user, doomed>>
  BY DEF FindToken, Claim, VerifyUser, Commit, RollBack, TypeInv, Handlers, HandlerOK
<1>2. ASSUME NEW code \in Codes, Answer(r, code), TypeOK',
             code = "302" => call[r].token \in Requests
      PROVE  HandlerOK(r)'
  BY <1>1, <1>2, AnswerOK DEF TypeInv
<1>3. ASSUME NEW label \in {"claim", "verifyUser", "commit"}, Goto(r, label), call[r].token \in Requests
      PROVE  /\ HandlerOK(r)'
             /\ pc' \in [Requests -> Labels \cup {"idle", "answered", "lost"}]
             /\ reply' = reply
  <2>1. pc'[r] = label /\ reply'[r] = "none"
        /\ pc' \in [Requests -> Labels \cup {"idle", "answered", "lost"}]
    BY <1>1, <1>3, GotoReply DEF Labels
  <2>. QED
    BY <1>1, <1>3, <2>1 DEF HandlerOK, Goto
<1>4. CASE FindToken(r)
  <2>1. call[r].token \in Requests \cup {Forged}
    BY <1>1 DEF VerifyCalls
  <2>2. CASE \E code \in {"TOKEN_INVALID", "TOKEN_USED", "TOKEN_EXPIRED"} : Answer(r, code)
    <3>1. PICK code \in {"TOKEN_INVALID", "TOKEN_USED", "TOKEN_EXPIRED"} : Answer(r, code)
      BY <2>2
    <3>2. TypeOK'
      BY <1>4, <3>1 DEF FindToken, TypeInv, TypeOK, Answer, Codes
    <3>. QED
      BY <1>2, <3>1, <3>2 DEF Codes
  <2>3. CASE Goto(r, "claim") /\ call[r].token # Forged
    <3>1. TypeOK'
      BY <1>3, <1>4, <2>1, <2>3 DEF FindToken, TypeInv, TypeOK
    <3>. QED
      BY <1>3, <2>1, <2>3, <3>1
  <2>. QED
    BY <1>4, <2>2, <2>3 DEF FindToken
<1>5. CASE Claim(r)
  <2>1. call[r].token \in Requests
    BY <1>5 DEF Claim, TypeInv, Handlers, HandlerOK
  <2>2. CASE Answer(r, "TOKEN_USED")
    <3>1. TypeOK'
      BY <1>5, <2>2 DEF Claim, TypeInv, TypeOK, Answer, Codes
    <3>. QED
      BY <1>2, <2>2, <3>1 DEF Codes
  <2>3. CASE Goto(r, "verifyUser")
    <3>1. TypeOK'
      BY <1>3, <1>5, <2>1, <2>3 DEF Claim, TypeInv, TypeOK
    <3>. QED
      BY <1>3, <2>1, <2>3, <3>1
  <2>. QED
    BY <1>5, <2>2, <2>3 DEF Claim
<1>6. CASE VerifyUser(r)
  <2>1. call[r].token \in Requests /\ Goto(r, "commit")
    BY <1>6 DEF VerifyUser, TypeInv, Handlers, HandlerOK
  <2>2. TypeOK'
    BY <1>3, <1>6, <2>1 DEF VerifyUser, TypeInv, TypeOK
  <2>. QED
    BY <1>3, <2>1, <2>2
<1>7. CASE Commit(r)
  <2>1. call[r].token \in Requests /\ Answer(r, "302")
    BY <1>7 DEF Commit, TypeInv, Handlers, HandlerOK
  <2>2. TokenExists(call[r].token) /\ UserExists(tokens[call[r].token].userId)
    BY <1>7, <2>1 DEF Commit, ClaimsExclude, RowsInOrder, Unused
  <2>3. /\ users' \in [Requests -> UserRow \cup {NoRow}]
        /\ tokens' \in [Requests -> TokenRow \cup {NoRow}]
    BY <1>7, <2>1, <2>2, CommitType DEF Commit, TypeInv
  <2>4. TypeOK'
    BY <1>7, <2>1, <2>3 DEF Commit, TypeInv, TypeOK, Answer, Codes
  <2>. QED
    BY <1>2, <2>1, <2>4 DEF Codes
<1>8. CASE RollBack(r)
  <2>1. TypeOK'
    BY <1>8 DEF RollBack, TypeInv, TypeOK, Answer, Codes
  <2>. QED
    BY <1>2, <1>8, <2>1 DEF RollBack, Codes
<1>. QED
  BY <1>4, <1>5, <1>6, <1>7, <1>8

\* login keeps the types.
LEMMA LoginType ==
  ASSUME TypeInv, NEW r \in Requests, FindLogin(r) \/ CheckPassword(r)
  PROVE  TypeOK' /\ HandlerOK(r)'
<1>1. ASSUME NEW code \in Codes \ {"302"}, Answer(r, code), UNCHANGED <<users, tokens, inbox, call, user, doomed>>
      PROVE  TypeOK' /\ HandlerOK(r)'
  <2>1. TypeOK'
    BY <1>1 DEF TypeInv, TypeOK, Answer
  <2>. QED
    BY <1>1, <2>1, AnswerOK DEF TypeInv
<1>2. CASE FindLogin(r)
  <2>1. pc[r] = "findLogin" /\ call[r] \in LoginCalls
    BY <1>2 DEF FindLogin, TypeInv, Handlers, HandlerOK
  <2>2. CASE Answer(r, "INVALID_CREDENTIALS") /\ UNCHANGED user
    BY <1>1, <1>2, <2>2 DEF FindLogin, Codes
  <2>3. ASSUME NEW u \in UsersWith(Normalize[call[r].email]), Goto(r, "verifyPassword"),
               user' = [user EXCEPT ![r] = [id |-> u, row |-> users[u]]]
        PROVE  TypeOK' /\ HandlerOK(r)'
    <3>1. u \in Requests /\ UserExists(u) /\ users[u].email = Normalize[call[r].email]
      BY <2>3 DEF UsersWith
    <3>2. user' \in [Requests -> UserCopy \cup {NoRow}] /\ user'[r] = [id |-> u, row |-> users[u]]
          /\ user'[r] \in UserCopy
      BY <2>3, <3>1, CopyType DEF TypeInv, TypeOK
    <3>3. pc'[r] = "verifyPassword" /\ reply'[r] = "none"
          /\ pc' \in [Requests -> Labels \cup {"idle", "answered", "lost"}]
      BY <2>1, <2>3, GotoReply DEF Labels
    <3>4. TypeOK'
      BY <1>2, <2>3, <3>2, <3>3 DEF FindLogin, TypeInv, TypeOK, Goto
    <3>5. HandlerOK(r)'
      BY <1>2, <2>1, <3>1, <3>2, <3>3 DEF FindLogin, HandlerOK
    <3>. QED
      BY <3>4, <3>5
  <2>. QED
    BY <1>2, <2>2, <2>3 DEF FindLogin
<1>3. CASE CheckPassword(r)
  <2>1. \E code \in {"INVALID_CREDENTIALS", "EMAIL_NOT_VERIFIED", "200"} : Answer(r, code)
    BY <1>3 DEF CheckPassword
  <2>. QED
    BY <1>1, <1>3, <2>1 DEF CheckPassword, Codes
<1>. QED
  BY <1>2, <1>3

\* Every step of a request keeps the types, and its handler in order.
LEMMA MovesType ==
  ASSUME TypeInv, ClaimsExclude, RowsInOrder, NEW r \in Requests, Moves(r)
  PROVE  TypeInv'
<1>1. TypeOK' /\ HandlerOK(r)'
  BY ReceiveType, SignupType, ResendType, VerifyType, LoginType DEF Moves, Progress
<1>2. ASSUME NEW q \in Requests \ {r} PROVE HandlerOK(q)'
  <2>1. HandlerOK(q)
    BY DEF TypeInv, Handlers
  <2>2. pc'[q] = pc[q] /\ call'[q] = call[q] /\ user'[q] = user[q]
        /\ doomed'[q] = doomed[q] /\ reply'[q] = reply[q]
    BY OneMoves DEF TypeInv, OthersKept
  <2>. QED
    BY <2>1, <2>2 DEF HandlerOK
<1>. QED
  BY <1>1, <1>2 DEF TypeInv, Handlers

\* The passing of time and a crash keep the types.
LEMMA EnvironmentType ==
  ASSUME TypeInv, (\E t \in Requests : Expire(t)) \/ Crash
  PROVE  TypeInv'
<1>1. CASE \E t \in Requests : Expire(t)
  <2>1. PICK t \in Requests : Expire(t)
    BY <1>1
  <2>2. tokens[t] \in TokenRow
    BY <2>1 DEF Expire, Unused, TokenExists, TypeInv, TypeOK
  <2>3. [tokens[t] EXCEPT !.expired = TRUE] \in TokenRow
    BY <2>2 DEF TokenRow
  <2>4. TypeOK'
    BY <2>1, <2>3 DEF Expire, TypeInv, TypeOK
  <2>5. Handlers'
    BY <2>1 DEF Expire, TypeInv, Handlers, HandlerOK
  <2>. QED
    BY <2>4, <2>5 DEF TypeInv
<1>2. CASE Crash
  <2>1. TypeOK'
    BY <1>2 DEF Crash, TypeInv, TypeOK
  <2>2. ASSUME NEW r \in Requests PROVE HandlerOK(r)'
    <3>1. HandlerOK(r) /\ UNCHANGED <<call, user, doomed, reply>>
      BY <1>2 DEF Crash, TypeInv, Handlers
    <3>2. CASE pc'[r] = pc[r]
      BY <3>1, <3>2 DEF HandlerOK
    <3>3. CASE pc'[r] = "lost" /\ InFlight(r)
      BY <3>1, <3>3 DEF HandlerOK, InFlight, Labels
    <3>. QED
      BY <1>2, <3>2, <3>3 DEF Crash
  <2>. QED
    BY <2>1, <2>2 DEF TypeInv, Handlers
<1>. QED
  BY <1>1, <1>2

(***************************************************************************)
(* What a step does to the rows                                            *)
(***************************************************************************)

\* A step is a step of a request, or it leaves all but the tokens, the mails
\* and the requests' status alone.
LEMMA NextKinds ==
  ASSUME [Next]_vars
  PROVE  \/ \E r \in Requests : Moves(r)
         \/ \E t \in Requests : Expire(t)
         \/ Crash
         \/ UNCHANGED vars
BY DEF Next, Finished, Moves

\* The rows change in one of five ways.
LEMMA TableSteps ==
  ASSUME [Next]_vars
  PROVE  \/ UNCHANGED <<users, tokens>>
         \/ \E r \in Requests :
              CreateUser(r) \/ IssueToken(r) \/ DeleteUnused(r) \/ Commit(r) \/ Expire(r)
BY DEF Next, Finished, Receive, Progress, RollBack, SendMail, FindUnverified, SelectUnused, FindToken,
       Claim, VerifyUser, FindLogin, CheckPassword, Crash, vars

\* An account stays, with its address and password; once verified it stays so.
UsersGrow ==
  \A u \in Requests : UserExists(u) =>
    /\ UserExists(u)'
    /\ users'[u].email = users[u].email
    /\ users'[u].password = users[u].password
    /\ users[u].emailVerified => users'[u].emailVerified

\* A used token stays as it is, a token keeps its owner, and comes to life
\* only when it is issued.
TokensEvolve ==
  \A t \in Requests :
    /\ TokenExists(t) /\ tokens[t].used => TokenExists(t)' /\ tokens'[t].used
    /\ TokenExists(t) /\ TokenExists(t)' => tokens'[t].userId = tokens[t].userId
    /\ TokenExists(t)' /\ ~TokenExists(t) => IssueToken(t)
    /\ Unused(t)' /\ ~Unused(t) => IssueToken(t)

\* What a commit writes.
LEMMA CommitEffect ==
  ASSUME IInv, NEW r \in Requests, Commit(r)
  PROVE  /\ call[r].token \in Requests /\ Unused(call[r].token)
         /\ tokens[call[r].token] \in TokenRow /\ UserExists(tokens[call[r].token].userId)
         /\ tokens[call[r].token].userId \in Requests
         /\ tokens' = [tokens EXCEPT ![call[r].token].used = TRUE]
         /\ users' = [users EXCEPT ![tokens[call[r].token].userId].emailVerified = TRUE]
         /\ call' = call /\ pc' = [pc EXCEPT ![r] = "answered"] /\ reply' = [reply EXCEPT ![r] = "302"]
<1>1. call[r].token \in Requests /\ Unused(call[r].token)
  BY DEF Commit, IInv, HandlerOK, ClaimsExclude
<1>2. tokens[call[r].token] \in TokenRow /\ UserExists(tokens[call[r].token].userId)
  BY <1>1 DEF IInv, TypeOK, RowsInOrder, Unused, TokenExists
<1>. QED
  BY <1>1, <1>2 DEF Commit, Answer, TokenRow

\* Every step lets the accounts grow.
LEMMA UsersGrowStep ==
  ASSUME IInv, [Next]_vars
  PROVE  UsersGrow
<1>1. CASE users' = users
  BY <1>1 DEF UsersGrow, UserExists
<1>2. ASSUME NEW r \in Requests, CreateUser(r) PROVE UsersGrow
  <2>1. ~UserExists(r)
    BY <1>2 DEF CreateUser, IInv, RowsInOrder
  <2>2. \A u \in Requests \ {r} : users'[u] = users[u]
    BY <1>2 DEF CreateUser, IInv, TypeOK
  <2>. QED
    BY <2>1, <2>2 DEF UsersGrow, UserExists
<1>3. ASSUME NEW r \in Requests, Commit(r) PROVE UsersGrow
  <2>. DEFINE u == tokens[call[r].token].userId
  <2>0. u \in Requests /\ UserExists(u) /\ users' = [users EXCEPT ![u].emailVerified = TRUE]
    BY <1>3, CommitEffect
  <2>1. u \in Requests /\ users[u] \in UserRow /\ users' = [users EXCEPT ![u].emailVerified = TRUE]
    BY <2>0 DEF IInv, TypeOK, UserExists
  <2>2. users'[u] = [users[u] EXCEPT !.emailVerified = TRUE] /\ users'[u] \in UserRow
    BY <2>1 DEF IInv, TypeOK, UserRow
  <2>3. users'[u].email = users[u].email /\ users'[u].password = users[u].password
        /\ users'[u].emailVerified /\ users'[u] # NoRow
    BY <2>1, <2>2, AccountMarkers DEF UserRow
  <2>4. \A v \in Requests \ {u} : users'[v] = users[v]
    BY <2>1 DEF IInv, TypeOK
  <2>. QED
    BY <2>3, <2>4 DEF UsersGrow, UserExists
<1>. QED
  BY <1>1, <1>2, <1>3, TableSteps DEF IssueToken, DeleteUnused, Expire

\* Every step lets the tokens evolve.
LEMMA TokensEvolveStep ==
  ASSUME IInv, [Next]_vars
  PROVE  TokensEvolve
<1>1. CASE tokens' = tokens
  BY <1>1 DEF TokensEvolve, TokenExists, Unused
<1>2. ASSUME NEW r \in Requests, IssueToken(r) PROVE TokensEvolve
  <2>1. ~TokenExists(r)
    BY <1>2 DEF IssueToken, IInv, RowsInOrder, PastIssue
  <2>2. \A t \in Requests \ {r} : tokens'[t] = tokens[t]
    BY <1>2 DEF IssueToken, IInv, TypeOK
  <2>. QED
    <3>1. ASSUME NEW t \in Requests \ {r} PROVE TokenExists(t)' = TokenExists(t) /\ Unused(t)' = Unused(t)
      BY <2>2 DEF TokenExists, Unused
    <3>. QED
      BY <1>2, <2>1, <2>2, <3>1 DEF TokensEvolve, Unused
<1>3. ASSUME NEW r \in Requests, DeleteUnused(r) PROVE TokensEvolve
  BY <1>3 DEF DeleteUnused, TokensEvolve, TokenExists, Unused
<1>4. ASSUME NEW r \in Requests, Commit(r) PROVE TokensEvolve
  <2>. DEFINE t == call[r].token
  <2>0. t \in Requests /\ tokens[t] \in TokenRow /\ tokens' = [tokens EXCEPT ![t].used = TRUE]
    BY <1>4, CommitEffect
  <2>1. t \in Requests /\ tokens[t] \in TokenRow /\ tokens'[t] = [tokens[t] EXCEPT !.used = TRUE]
        /\ \A s \in Requests \ {t} : tokens'[s] = tokens[s]
    BY <2>0 DEF IInv, TypeOK
  <2>2. tokens'[t].used /\ tokens'[t].userId = tokens[t].userId /\ tokens[t] # NoRow
    BY <2>1, AccountMarkers DEF TokenRow
  <2>3. tokens'[t] # NoRow
    BY <2>1, AccountMarkers DEF TokenRow
  <2>. QED
    BY <2>1, <2>2, <2>3 DEF TokensEvolve, TokenExists, Unused
<1>5. ASSUME NEW t \in Requests, Expire(t) PROVE TokensEvolve
  <2>1. tokens[t] \in TokenRow /\ ~tokens[t].used /\ tokens'[t] = [tokens[t] EXCEPT !.expired = TRUE]
        /\ \A s \in Requests \ {t} : tokens'[s] = tokens[s]
    BY <1>5 DEF Expire, Unused, TokenExists, IInv, TypeOK
  <2>2. ~tokens'[t].used /\ tokens'[t].userId = tokens[t].userId /\ tokens[t] # NoRow
    BY <2>1, AccountMarkers DEF TokenRow
  <2>. QED
    BY <2>1, <2>2 DEF TokensEvolve, TokenExists, Unused
<1>. QED
  BY <1>1, <1>2, <1>3, <1>4, <1>5, TableSteps DEF CreateUser

(***************************************************************************)
(* What a step does to a request                                           *)
(***************************************************************************)

\* Request r does not move, but it may be lost in a crash.
Kept(r) ==
  /\ call'[r] = call[r] /\ user'[r] = user[r] /\ doomed'[r] = doomed[r] /\ reply'[r] = reply[r]
  /\ \/ pc'[r] = pc[r]
     \/ pc'[r] = "lost" /\ pc[r] \in Labels

\* A step moves request r or keeps it.
LEMMA RequestSteps ==
  ASSUME TypeInv, [Next]_vars, NEW r \in Requests
  PROVE  Moves(r) \/ Kept(r)
<1>1. ASSUME NEW q \in Requests \ {r}, Moves(q) PROVE Kept(r)
  BY <1>1, OneMoves DEF TypeInv, OthersKept, Kept
<1>2. CASE Crash
  BY <1>2 DEF Crash, Kept, InFlight, TypeInv, TypeOK
<1>3. ASSUME NEW t \in Requests, Expire(t) PROVE Kept(r)
  BY <1>3 DEF Expire, Kept
<1>4. CASE UNCHANGED vars
  BY <1>4 DEF vars, Kept
<1>. QED
  BY <1>1, <1>2, <1>3, <1>4, NextKinds

\* Two requests do not move at once.
LEMMA OneMover ==
  ASSUME TypeInv, NEW q \in Requests, NEW r \in Requests, Moves(q), pc'[r] # pc[r]
  PROVE  q = r
BY OneMoves DEF TypeInv, OthersKept

\* The status of a request that moves.
LEMMA StatusMoves ==
  ASSUME TypeInv, NEW r \in Requests, Moves(r)
  PROVE  /\ pc[r] # "answered" /\ pc[r] # "lost"
         /\ pc'[r] # "idle"
         /\ pc[r] # "idle" => pc'[r] # "createUser"
         /\ pc[r] = "sendMail" => pc'[r] = "answered"
         /\ pc'[r] \in {"verifyUser", "commit"} /\ pc[r] \notin {"verifyUser", "commit"} =>
              Claim(r) /\ Unused(call[r].token)
         /\ pc'[r] = "sendMail" => pc[r] = "issueToken"
         /\ pc'[r] = "issueToken" => CreateUser(r) \/ DeleteUnused(r)
BY CallsAssumption, CallKinds DEF TypeInv, TypeOK, Moves, Receive, Progress, RollBack, Goto, Answer, CreateUser, IssueToken,
       SendMail, FindUnverified, SelectUnused, DeleteUnused, FindToken, Claim, VerifyUser, Commit,
       FindLogin, CheckPassword

\* What a request that moves writes besides its status.
LEMMA HandlerMoves ==
  ASSUME TypeInv, NEW r \in Requests, Moves(r)
  PROVE  /\ pc[r] # "idle" => call'[r] = call[r]
         /\ reply[r] = "none"
         /\ doomed'[r] # doomed[r] => SelectUnused(r)
         /\ reply'[r] = "302" => Commit(r)
         /\ reply'[r] = "200" => CheckPassword(r)
         /\ reply'[r] = "202" => pc[r] = "sendMail" \/ pc[r] = "findUnverified"
         /\ reply'[r] # "none" => pc'[r] = "answered"
<1>1. pc[r] \notin {"answered", "lost"} /\ reply[r] = "none"
  BY OneMoves DEF TypeInv, TypeOK, Handlers, HandlerOK
<1>. QED
  BY <1>1 DEF TypeInv, TypeOK, Moves, Receive, Progress, RollBack, Goto, Answer, CreateUser, IssueToken,
       SendMail, FindUnverified, SelectUnused, DeleteUnused, FindToken, Claim, VerifyUser, Commit,
       FindLogin, CheckPassword, Dispatched

\* A request reads only accounts that are there, as they are.
LEMMA UserReads ==
  ASSUME TypeInv, NEW r \in Requests, Moves(r), user'[r] # user[r]
  PROVE  \E u \in Requests : UserExists(u)' /\ user'[r] = [id |-> u, row |-> users'[u]]
<1>1. CASE CreateUser(r)
  <2>1. users' = [users EXCEPT ![r] = NewUser(call[r])]
        /\ user' = [user EXCEPT ![r] = [id |-> r, row |-> NewUser(call[r])]]
    BY <1>1 DEF CreateUser
  <2>2. NewUser(call[r]) \in UserRow
    BY <1>1, NewUserType DEF CreateUser, TypeInv, Handlers, HandlerOK
  <2>. QED
    BY <2>1, <2>2, AccountMarkers DEF TypeInv, TypeOK, UserExists
<1>2. CASE FindUnverified(r) \/ FindLogin(r)
  BY <1>2 DEF FindUnverified, FindLogin, UsersWith, UserExists, TypeInv, TypeOK
<1>. QED
  BY <1>1, <1>2 DEF Moves, Receive, Progress, RollBack, IssueToken, SendMail, SelectUnused, DeleteUnused,
       FindToken, Claim, VerifyUser, Commit, CheckPassword

\* The invariant gives what the lemmas above assume.
LEMMA IInvTypes == IInv => TypeInv
BY DEF IInv, TypeInv, Handlers

(***************************************************************************)
(* The parts of the inductive invariant                                    *)
(***************************************************************************)

\* A copy stays true: accounts only grow.
LEMMA CopiesStep ==
  ASSUME IInv, [Next]_vars
  PROVE  CopiesHold'
<1>. SUFFICES ASSUME NEW r \in Requests, user'[r] # NoRow
              PROVE  /\ UserExists(user[r].id)'
                     /\ users'[user'[r].id].email = user'[r].row.email
                     /\ users'[user'[r].id].password = user'[r].row.password
                     /\ user'[r].row.emailVerified => users'[user'[r].id].emailVerified
  BY DEF CopiesHold
<1>1. CASE user'[r] = user[r]
  <2>1. user[r].id \in Requests
    BY <1>1 DEF IInv, TypeOK, UserCopy
  <2>. QED
    BY <1>1, <2>1, UsersGrowStep DEF UsersGrow, IInv, CopiesHold
<1>2. CASE user'[r] # user[r]
  <2>1. \E u \in Requests : UserExists(u)' /\ user'[r] = [id |-> u, row |-> users'[u]]
    BY <1>2, IInvTypes, RequestSteps, UserReads DEF Kept
  <2>. QED
    BY <2>1
<1>. QED
  BY <1>1, <1>2

\* What a request has behind it stays behind it.
LEMMA StatusGrows ==
  ASSUME IInv, [Next]_vars, NEW r \in Requests
  PROVE  /\ PastIssue(r) => PastIssue(r)'
         /\ pc[r] \notin {"idle", "createUser"} => pc'[r] \notin {"idle", "createUser"}
<1>1. CASE Moves(r)
  BY <1>1, IInvTypes, StatusMoves DEF PastIssue
<1>2. CASE Kept(r)
  BY <1>2 DEF Kept, PastIssue, Labels
<1>. QED
  BY <1>1, <1>2, IInvTypes, RequestSteps

\* The rows come in the order in which the handlers insert them.
LEMMA RowsStep ==
  ASSUME IInv, [Next]_vars
  PROVE  RowsInOrder'
<1>1. ASSUME NEW r \in Requests, UserExists(r)' PROVE pc'[r] \notin {"idle", "createUser"}
  <2>1. CASE UserExists(r)
    BY <2>1, StatusGrows DEF IInv, RowsInOrder
  <2>2. CASE users'[r] # users[r]
    <3>1. CASE CreateUser(r)
      BY <2>2, <3>1 DEF CreateUser, Goto, IInv, TypeOK
    <3>2. ASSUME NEW q \in Requests \ {r}, CreateUser(q) PROVE FALSE
      BY <2>2, <3>2 DEF CreateUser, IInv, TypeOK
    <3>3. ASSUME NEW q \in Requests, Commit(q) PROVE UserExists(r)
      <4>1. UserExists(tokens[call[q].token].userId)
            /\ users' = [users EXCEPT ![tokens[call[q].token].userId].emailVerified = TRUE]
        BY <3>3, CommitEffect
      <4>. QED
        BY <2>2, <4>1 DEF IInv, TypeOK
    <3>. QED
      BY <2>1, <2>2, <3>1, <3>2, <3>3, TableSteps DEF IssueToken, DeleteUnused, Expire
  <2>. QED
    BY <1>1, <2>1, <2>2 DEF UserExists
<1>2. ASSUME NEW r \in Requests, TokenExists(r)' PROVE PastIssue(r)' /\ UserExists(tokens[r].userId)'
  <2>1. CASE TokenExists(r)
    <3>1. PastIssue(r) /\ UserExists(tokens[r].userId) /\ tokens[r].userId \in Requests
      BY <2>1 DEF IInv, RowsInOrder, TypeOK, TokenRow, TokenExists
    <3>2. tokens'[r].userId = tokens[r].userId
      BY <1>2, <2>1, TokensEvolveStep DEF TokensEvolve
    <3>. QED
      BY <3>1, <3>2, StatusGrows, UsersGrowStep DEF UsersGrow, UserExists
  <2>2. CASE IssueToken(r)
    <3>1. user[r] \in UserCopy
      BY <2>2 DEF IssueToken, IInv, HandlerOK
    <3>2. UserExists(user[r].id)
      BY <3>1, AccountMarkers DEF IInv, CopiesHold
    <3>3. tokens'[r].userId = user[r].id /\ pc'[r] = "sendMail" /\ users' = users
      BY <2>2 DEF IssueToken, Goto, IInv, TypeOK
    <3>. QED
      BY <3>2, <3>3 DEF UserExists, PastIssue
  <2>. QED
    BY <1>2, <2>1, <2>2, TokensEvolveStep DEF TokensEvolve
<1>3. ASSUME NEW r \in Requests, NEW t \in doomed'[r] PROVE PastIssue(t)'
  <2>1. t \in Requests /\ PastIssue(t)
    <3>1. CASE doomed'[r] = doomed[r]
      BY <3>1 DEF IInv, RowsInOrder, TypeOK
    <3>2. CASE SelectUnused(r)
      BY <3>2 DEF SelectUnused, IInv, RowsInOrder, TypeOK, Unused
    <3>. QED
      BY <3>1, <3>2, IInvTypes, RequestSteps, HandlerMoves DEF Kept
  <2>. QED
    BY <2>1, StatusGrows
<1>. QED
  BY <1>1, <1>2, <1>3 DEF RowsInOrder

\* The unique index: an account is inserted only for an address that is free.
LEMMA AccountsStep ==
  ASSUME IInv, [Next]_vars
  PROVE  OneAccountPerEmail'
<1>. SUFFICES ASSUME NEW u \in Requests, NEW v \in Requests, UserExists(u)', UserExists(v)',
                     users'[u].email = users'[v].email
              PROVE  u = v
  BY DEF OneAccountPerEmail
<1>1. CASE UserExists(u) /\ UserExists(v)
  BY <1>1, UsersGrowStep DEF UsersGrow, IInv, OneAccountPerEmail
<1>2. ASSUME NEW r \in Requests, CreateUser(r) PROVE u = v
  <2>1. \A w \in Requests \ {r} : users'[w] = users[w]
    BY <1>2 DEF CreateUser, IInv, TypeOK
  <2>2. CASE UNCHANGED users
    BY <2>2, <1>1 DEF UserExists
  <2>3. CASE UsersWith(NewUser(call[r]).email) = {} /\ users'[r] = NewUser(call[r])
    <3>1. \A w \in Requests \ {r} : ~(UserExists(w)' /\ users'[w].email = users'[r].email)
      BY <2>1, <2>3 DEF UsersWith, UserExists
    <3>2. \A w \in Requests \ {r} : UserExists(w)' => UserExists(w)
      BY <2>1 DEF UserExists
    <3>. QED
      BY <1>1, <3>1, <3>2
  <2>. QED
    BY <1>2, <2>2, <2>3 DEF CreateUser, IInv, TypeOK
<1>3. ASSUME NEW r \in Requests, Commit(r) PROVE u = v
  <2>1. UserExists(tokens[call[r].token].userId)
        /\ users' = [users EXCEPT ![tokens[call[r].token].userId].emailVerified = TRUE]
    BY <1>3, CommitEffect
  <2>2. \A w \in Requests : UserExists(w)' => UserExists(w)
    BY <2>1 DEF UserExists, IInv, TypeOK
  <2>. QED
    BY <1>1, <2>2
<1>. QED
  BY <1>1, <1>2, <1>3, TableSteps DEF IssueToken, DeleteUnused, Expire, UserExists

Holding == {"verifyUser", "commit"}

\* A request that has its token's row lock keeps it, and the token stays
\* unused: a delete waits for the lock, and no other request commits.
LEMMA HeldTokensStay ==
  ASSUME IInv, [Next]_vars, NEW q \in Requests, pc[q] \in Holding, pc'[q] \in Holding
  PROVE  Unused(call[q].token)' /\ call'[q] = call[q]
<1>1. call[q].token \in Requests /\ Unused(call[q].token)
  BY DEF Holding, IInv, HandlerOK, ClaimsExclude
<1>2. call'[q] = call[q]
  BY IInvTypes, RequestSteps, HandlerMoves DEF Kept, Holding
<1>3. tokens[call[q].token] \in TokenRow
  BY <1>1 DEF IInv, TypeOK, Unused, TokenExists
<1>. DEFINE t == call[q].token
<1>4. Unused(t)' <=> tokens'[t] # NoRow /\ ~tokens'[t].used
  BY <1>2 DEF Unused, TokenExists
<1>5. CASE tokens' = tokens
  BY <1>1, <1>2, <1>4, <1>5 DEF Unused, TokenExists
<1>6. ASSUME NEW r \in Requests, IssueToken(r) PROVE Unused(t)'
  <2>1. r # t
    BY <1>1, <1>6 DEF IssueToken, IInv, RowsInOrder, PastIssue, Unused
  <2>. QED
    BY <1>1, <1>4, <1>6, <2>1 DEF IssueToken, IInv, TypeOK, Unused, TokenExists
<1>7. ASSUME NEW r \in Requests, DeleteUnused(r) PROVE Unused(t)'
  <2>1. t \notin doomed[r]
    BY <1>7 DEF DeleteUnused, Claimed, Holding
  <2>. QED
    BY <1>1, <1>4, <1>7, <2>1 DEF DeleteUnused, Unused, TokenExists
<1>8. ASSUME NEW r \in Requests, Commit(r) PROVE Unused(t)'
  <2>1. pc[r] = "commit" /\ pc'[r] = "answered" /\ tokens' = [tokens EXCEPT ![call[r].token].used = TRUE]
    BY <1>8 DEF Commit, Answer, IInv, TypeOK
  <2>2. r # q
    BY <2>1 DEF Holding
  <2>3. call[r].token # t
    BY <2>1, <2>2 DEF Holding, IInv, ClaimsExclude
  <2>. QED
    BY <1>1, <1>4, <2>1, <2>3 DEF IInv, TypeOK, Unused, TokenExists
<1>9. ASSUME NEW s \in Requests, Expire(s) PROVE Unused(t)'
  <2>1. [tokens[t] EXCEPT !.expired = TRUE] \in TokenRow /\ ~[tokens[t] EXCEPT !.expired = TRUE].used
    BY <1>1, <1>3 DEF TokenRow, Unused
  <2>2. tokens'[t] \in {tokens[t], [tokens[t] EXCEPT !.expired = TRUE]}
    BY <1>1, <1>9 DEF Expire, IInv, TypeOK
  <2>. QED
    BY <1>1, <1>4, <2>1, <2>2, AccountMarkers DEF Unused, TokenExists
<1>. QED
  BY <1>2, <1>5, <1>6, <1>7, <1>8, <1>9, TableSteps DEF CreateUser

\* A request takes a row lock only by claiming an unused token.
LEMMA NewClaims ==
  ASSUME IInv, [Next]_vars, NEW q \in Requests, pc[q] \notin Holding, pc'[q] \in Holding
  PROVE  Claim(q) /\ Unused(call[q].token)
<1>1. CASE Moves(q)
  BY <1>1, IInvTypes, StatusMoves DEF Holding
<1>2. CASE Kept(q)
  BY <1>2 DEF Kept, Holding
<1>. QED
  BY <1>1, <1>2, IInvTypes, RequestSteps

\* Row locks exclude each other.
LEMMA ClaimsStep ==
  ASSUME IInv, [Next]_vars
  PROVE  ClaimsExclude'
<1>1. ASSUME NEW q \in Requests, pc'[q] \in Holding PROVE Unused(call[q].token)' /\ call'[q] = call[q]
  <2>1. CASE pc[q] \in Holding
    BY <1>1, <2>1, HeldTokensStay
  <2>2. CASE pc[q] \notin Holding
    <3>1. Claim(q) /\ Unused(call[q].token)
      BY <1>1, <2>2, NewClaims
    <3>. QED
      BY <3>1 DEF Claim, Unused, TokenExists
  <2>. QED
    BY <2>1, <2>2
<1>2. ASSUME NEW q \in Requests, NEW r \in Requests, pc'[q] \in Holding, pc'[r] \in Holding,
             call'[q].token = call'[r].token, pc[q] \notin Holding
      PROVE  q = r
  <2>1. Claim(q) /\ call[q].token = call[r].token
    BY <1>1, <1>2, NewClaims
  <2>2. pc[r] \notin Holding
    BY <2>1 DEF Claim, Claimed, Holding
  <2>. QED
    BY <1>2, <2>1, <2>2, IInvTypes, OneMover DEF Moves, Progress
<1>3. ASSUME NEW q \in Requests, NEW r \in Requests, pc'[q] \in Holding, pc'[r] \in Holding,
             call'[q].token = call'[r].token
      PROVE  q = r
  <2>1. CASE pc[q] \in Holding /\ pc[r] \in Holding
    BY <1>1, <1>3, <2>1 DEF IInv, ClaimsExclude, Holding
  <2>. QED
    BY <1>2, <1>3, <2>1
<1>. QED
  BY <1>1, <1>3 DEF ClaimsExclude, Holding

\* A transaction that has locked its user keeps it until it ends, and a lock is
\* taken only when it is free.
LEMMA UserLocksStep ==
  ASSUME IInv, [Next]_vars
  PROVE  UserLocksExclude'
<1>. DEFINE Owner(q) == tokens[call[q].token].userId
<1>1. ASSUME NEW q \in Requests, pc'[q] = "commit"
      PROVE  /\ pc[q] \in Holding /\ call'[q] = call[q]
             /\ tokens'[call'[q].token].userId = Owner(q)
             /\ pc[q] # "commit" => VerifyUser(q)
  <2>1. pc[q] \in Holding
    <3>1. ~Claim(q)
      BY <1>1 DEF Claim, Goto, Answer, IInv, TypeOK
    <3>. QED
      BY <1>1, <3>1, NewClaims DEF Holding
  <2>2. Unused(call[q].token)' /\ call'[q] = call[q]
    BY <1>1, <2>1, HeldTokensStay DEF Holding
  <2>3. call[q].token \in Requests /\ TokenExists(call[q].token)
    BY <2>1 DEF Holding, IInv, HandlerOK, ClaimsExclude, Unused
  <2>4. tokens'[call[q].token].userId = Owner(q)
    BY <2>2, <2>3, TokensEvolveStep DEF TokensEvolve, Unused, TokenExists
  <2>5. pc[q] # "commit" => VerifyUser(q)
    <3>1. CASE Moves(q)
      BY <1>1, <2>1, <3>1 DEF Holding, Moves, Receive, Progress, RollBack, Goto, Answer, IInv, TypeOK,
         CreateUser, IssueToken, SendMail, FindUnverified, SelectUnused, DeleteUnused, FindToken,
         Claim, Commit, FindLogin, CheckPassword
    <3>2. CASE Kept(q)
      BY <1>1, <3>2 DEF Kept
    <3>. QED
      BY <3>1, <3>2, IInvTypes, RequestSteps
  <2>. QED
    BY <2>1, <2>2, <2>4, <2>5
<1>2. ASSUME NEW q \in Requests, NEW r \in Requests, pc'[q] = "commit", pc'[r] = "commit",
             Owner(q) = Owner(r), pc[q] # "commit"
      PROVE  q = r
  <2>1. VerifyUser(q) /\ ~UserLocked(Owner(q))
    BY <1>1, <1>2 DEF VerifyUser
  <2>2. pc[r] # "commit"
    BY <1>2, <2>1 DEF UserLocked
  <2>. QED
    BY <1>2, <2>1, <2>2, IInvTypes, OneMover DEF Moves, Progress
<1>3. ASSUME NEW q \in Requests, NEW r \in Requests, pc'[q] = "commit", pc'[r] = "commit",
             Owner(q) = Owner(r)
      PROVE  q = r
  <2>1. CASE pc[q] = "commit" /\ pc[r] = "commit"
    BY <1>3, <2>1 DEF IInv, UserLocksExclude
  <2>. QED
    BY <1>2, <1>3, <2>1
<1>. QED
  BY <1>1, <1>3 DEF UserLocksExclude

\* A request that has been answered stays as it is, and which handler gave
\* each answer.
LEMMA Answers ==
  ASSUME IInv, [Next]_vars, NEW r \in Requests
  PROVE  /\ reply[r] # "none" => Kept(r) /\ pc'[r] = "answered" /\ pc[r] = "answered"
         /\ reply'[r] = "302" => (Kept(r) /\ reply[r] = "302") \/ Commit(r)
         /\ reply'[r] = "200" => (Kept(r) /\ reply[r] = "200") \/ CheckPassword(r)
         /\ reply'[r] = "202" =>
              \/ Kept(r) /\ reply[r] = "202"
              \/ Moves(r) /\ pc[r] \in {"sendMail", "findUnverified"}
<1>1. CASE Moves(r)
  BY <1>1, IInvTypes, HandlerMoves
<1>2. CASE Kept(r)
  BY <1>2 DEF Kept, Labels, IInv, HandlerOK
<1>. QED
  BY <1>1, <1>2, IInvTypes, RequestSteps

\* Whoever is redirected has used its token.
LEMMA RedirectsStep ==
  ASSUME IInv, [Next]_vars
  PROVE  RedirectsUse'
<1>. SUFFICES ASSUME NEW r \in Requests, reply'[r] = "302"
              PROVE  tokens'[call'[r].token] # NoRow /\ tokens'[call'[r].token].used
  BY DEF RedirectsUse, TokenExists
<1>1. CASE Kept(r) /\ reply[r] = "302"
  <2>1. call'[r] = call[r] /\ call[r].token \in Requests /\ TokenExists(call[r].token) /\ tokens[call[r].token].used
    BY <1>1 DEF Kept, IInv, HandlerOK, RedirectsUse
  <2>. QED
    BY <2>1, TokensEvolveStep DEF TokensEvolve, TokenExists
<1>2. CASE Commit(r)
  <2>1. call[r].token \in Requests /\ tokens[call[r].token] \in TokenRow /\ call' = call
        /\ tokens' = [tokens EXCEPT ![call[r].token].used = TRUE]
    BY <1>2, CommitEffect
  <2>2. [tokens[call[r].token] EXCEPT !.used = TRUE] \in TokenRow
    BY <2>1 DEF TokenRow
  <2>3. tokens'[call[r].token] = [tokens[call[r].token] EXCEPT !.used = TRUE]
    BY <2>1 DEF IInv, TypeOK
  <2>4. tokens'[call[r].token].used
    BY <2>1, <2>3 DEF TokenRow
  <2>. QED
    BY <2>1, <2>2, <2>3, <2>4, AccountMarkers
<1>. QED
  BY <1>1, <1>2, Answers

\* A token's row once it is used.
LEMMA SpentRow ==
  ASSUME NEW row \in TokenRow
  PROVE  LET spent == [row EXCEPT !.used = TRUE] IN
         spent \in TokenRow /\ spent.used /\ spent.userId = row.userId
BY DEF TokenRow

\* The transaction writes the token and its account together.
LEMMA UsedTokensStep ==
  ASSUME IInv, [Next]_vars
  PROVE  UsedTokensVerify'
<1>1. ASSUME NEW r \in Requests, Commit(r) PROVE UsedTokensVerify'
  <2>. DEFINE t == call[r].token
              u == tokens[t].userId
  <2>0. /\ t \in Requests /\ u \in Requests /\ TokenExists(t) /\ UserExists(u) /\ tokens[t] \in TokenRow
        /\ tokens' = [tokens EXCEPT ![t].used = TRUE]
        /\ users' = [users EXCEPT ![u].emailVerified = TRUE]
    BY <1>1, CommitEffect DEF Unused
  <2>1. users[u] \in UserRow
    BY <2>0 DEF IInv, TypeOK, UserExists
  <2>2. /\ tokens'[t] = [tokens[t] EXCEPT !.used = TRUE]
        /\ users'[u] = [users[u] EXCEPT !.emailVerified = TRUE]
        /\ \A s \in Requests \ {t} : tokens'[s] = tokens[s]
        /\ \A v \in Requests \ {u} : users'[v] = users[v]
    BY <2>0 DEF IInv, TypeOK
  <2>3. tokens'[t] # NoRow /\ tokens'[t].used /\ tokens'[t].userId = u
    <3>1. tokens'[t] \in TokenRow /\ tokens'[t].used /\ tokens'[t].userId = tokens[t].userId
      BY <2>0, <2>2, SpentRow
    <3>. QED
      BY <3>1, AccountMarkers
  <2>4. users'[u] # NoRow /\ users'[u].emailVerified
    BY <2>1, <2>2, AccountMarkers DEF UserRow
  <2>5. ASSUME NEW s \in Requests, TokenExists(s)', tokens'[s].used
        PROVE  UserExists(tokens[s].userId)' /\ users'[tokens'[s].userId].emailVerified
    <3>1. CASE s = t
      BY <2>3, <2>4, <3>1 DEF UserExists
    <3>2. CASE s # t
      <4>1. TokenExists(s) /\ tokens[s].used /\ tokens'[s].userId = tokens[s].userId
        BY <2>2, <2>5, <3>2 DEF TokenExists
      <4>2. /\ tokens[s].userId \in Requests
            /\ UserExists(tokens[s].userId) /\ users[tokens[s].userId].emailVerified
        BY <4>1 DEF IInv, UsedTokensVerify, TypeOK, TokenRow, TokenExists
      <4>. QED
        BY <4>1, <4>2, UsersGrowStep DEF UsersGrow, UserExists
    <3>. QED
      BY <3>1, <3>2
  <2>6. ASSUME NEW v \in Requests, UserExists(v)', users'[v].emailVerified
        PROVE  \E s \in Requests : TokenExists(s)' /\ tokens'[s].used /\ tokens'[s].userId = v
    <3>1. CASE v = u
      BY <2>0, <2>3, <3>1 DEF TokenExists
    <3>2. CASE v # u
      <4>1. UserExists(v) /\ users[v].emailVerified
        BY <2>2, <2>6, <3>2 DEF UserExists
      <4>2. PICK s \in Requests : TokenExists(s) /\ tokens[s].used /\ tokens[s].userId = v
        BY <4>1 DEF IInv, UsedTokensVerify
      <4>. QED
        BY <4>2, TokensEvolveStep DEF TokensEvolve
    <3>. QED
      BY <3>1, <3>2
  <2>. QED
    BY <2>5, <2>6 DEF UsedTokensVerify
<1>2. ASSUME ~\E r \in Requests : Commit(r) PROVE UsedTokensVerify'
  <2>1. ASSUME NEW s \in Requests, TokenExists(s)', tokens'[s].used
        PROVE  TokenExists(s) /\ tokens[s].used /\ tokens'[s].userId = tokens[s].userId
    <3>1. CASE tokens' = tokens
      BY <2>1, <3>1 DEF TokenExists
    <3>2. ASSUME NEW r \in Requests, IssueToken(r) \/ Expire(r)
          PROVE  TokenExists(s) /\ tokens[s].used
      <4>1. CASE s # r
        BY <2>1, <3>2, <4>1 DEF IssueToken, Expire, TokenExists, IInv, TypeOK
      <4>2. CASE s = r /\ IssueToken(r)
        BY <2>1, <4>2 DEF IssueToken, IInv, TypeOK
      <4>3. CASE s = r /\ Expire(r)
        <5>1. tokens[s] \in TokenRow /\ ~tokens[s].used /\ tokens'[s] = [tokens[s] EXCEPT !.expired = TRUE]
          BY <4>3 DEF Expire, Unused, TokenExists, IInv, TypeOK
        <5>. QED
          BY <2>1, <5>1 DEF TokenRow
      <4>. QED
        BY <3>2, <4>1, <4>2, <4>3
    <3>3. ASSUME NEW r \in Requests, DeleteUnused(r)
          PROVE  TokenExists(s) /\ tokens[s].used
      BY <2>1, <3>3 DEF DeleteUnused, TokenExists
    <3>4. TokenExists(s) /\ tokens[s].used
      BY <1>2, <2>1, <3>1, <3>2, <3>3, TableSteps DEF CreateUser
    <3>. QED
      BY <2>1, <3>4, TokensEvolveStep DEF TokensEvolve
  <2>2. ASSUME NEW v \in Requests, UserExists(v)', users'[v].emailVerified
        PROVE  UserExists(v) /\ users[v].emailVerified
    <3>1. CASE users' = users
      BY <2>2, <3>1 DEF UserExists
    <3>2. ASSUME NEW r \in Requests, CreateUser(r) PROVE UserExists(v) /\ users[v].emailVerified
      BY <2>2, <3>2 DEF CreateUser, NewUser, UserExists, IInv, TypeOK
    <3>. QED
      BY <1>2, <3>1, <3>2, TableSteps DEF IssueToken, DeleteUnused, Expire
  <2>3. ASSUME NEW s \in Requests, TokenExists(s)', tokens'[s].used
        PROVE  UserExists(tokens[s].userId)' /\ users'[tokens'[s].userId].emailVerified
    <3>1. tokens'[s].userId = tokens[s].userId /\ tokens[s].userId \in Requests
          /\ UserExists(tokens[s].userId) /\ users[tokens[s].userId].emailVerified
      BY <2>1, <2>3 DEF IInv, UsedTokensVerify, TypeOK, TokenRow, TokenExists
    <3>. QED
      BY <3>1, UsersGrowStep DEF UsersGrow, UserExists
  <2>4. ASSUME NEW v \in Requests, UserExists(v)', users'[v].emailVerified
        PROVE  \E s \in Requests : TokenExists(s)' /\ tokens'[s].used /\ tokens'[s].userId = v
    <3>1. PICK s \in Requests : TokenExists(s) /\ tokens[s].used /\ tokens[s].userId = v
      BY <2>2, <2>4 DEF IInv, UsedTokensVerify
    <3>. QED
      BY <3>1, TokensEvolveStep DEF TokensEvolve
  <2>. QED
    BY <2>3, <2>4 DEF UsedTokensVerify
<1>. QED
  BY <1>1, <1>2

\* A link is not used twice: a commit uses a token that is unused, and the
\* earlier redirect has used its own.
LEMMA SingleUseStep ==
  ASSUME IInv, [Next]_vars
  PROVE  SingleUse'
<1>. SUFFICES ASSUME NEW q \in Requests, NEW r \in Requests, reply'[q] = "302", reply'[r] = "302",
                     call'[q].token = call'[r].token
              PROVE  q = r
  BY DEF SingleUse
<1>1. ASSUME NEW a \in Requests, NEW b \in Requests, Commit(a), reply[b] = "302", Kept(b),
             call'[a].token = call'[b].token
      PROVE  FALSE
  <2>1. call' = call /\ Unused(call[a].token)
    BY <1>1, CommitEffect
  <2>2. tokens[call[b].token].used
    BY <1>1 DEF IInv, RedirectsUse
  <2>. QED
    BY <1>1, <2>1, <2>2 DEF Unused
<1>2. ASSUME Commit(q), Commit(r) PROVE q = r
  <2>1. pc[r] = "commit" /\ pc'[r] = "answered" /\ Moves(q)
    BY <1>2 DEF Commit, Answer, IInv, TypeOK, Moves, Progress
  <2>. QED
    BY <2>1, IInvTypes, OneMover
<1>3. ASSUME Kept(q), Kept(r), reply[q] = "302", reply[r] = "302" PROVE q = r
  BY <1>3 DEF Kept, IInv, SingleUse
<1>. QED
  BY <1>1, <1>2, <1>3, Answers

\* Deleted tokens do not come back: their own requests are past issuing.
LEMMA SupersededStep ==
  ASSUME IInv, [Next]_vars
  PROVE  SupersededTokensDead'
<1>. DEFINE After(r) == pc[r] \in {"issueToken", "sendMail"} \/ reply[r] = "202"
<1>. SUFFICES ASSUME NEW r \in Requests, After(r)', NEW t \in doomed'[r], Unused(t)'
              PROVE  FALSE
  BY DEF SupersededTokensDead
<1>1. ASSUME doomed'[r] = doomed[r], After(r) PROVE FALSE
  <2>1. t \in Requests /\ ~Unused(t) /\ PastIssue(t)
    BY <1>1 DEF IInv, SupersededTokensDead, RowsInOrder, TypeOK
  <2>2. IssueToken(t)
    BY <2>1, TokensEvolveStep DEF TokensEvolve
  <2>. QED
    BY <2>1, <2>2 DEF IssueToken, PastIssue
<1>2. CASE Kept(r)
  BY <1>1, <1>2 DEF Kept
<1>3. ASSUME Moves(r) PROVE FALSE
  <2>1. pc'[r] = "sendMail" => pc[r] = "issueToken"
    BY <1>3, IInvTypes, StatusMoves
  <2>2. CASE pc[r] \in {"issueToken", "sendMail"}
    BY <1>1, <1>3, <2>2, IInvTypes, HandlerMoves DEF SelectUnused
  <2>3. CASE DeleteUnused(r)
    BY <2>3 DEF DeleteUnused, Unused, TokenExists, IInv, TypeOK
  <2>4. CASE CreateUser(r) \/ pc[r] = "findUnverified"
    BY <1>3, <2>4, IInvTypes, HandlerMoves DEF CreateUser, SelectUnused, IInv, HandlerOK
  <2>. QED
    BY <1>3, <2>1, <2>2, <2>3, <2>4, IInvTypes, StatusMoves, HandlerMoves
<1>. QED
  BY <1>2, <1>3, IInvTypes, RequestSteps

\* A session stands on a copy of a verified account, and both facts last.
LEMMA SessionsStep ==
  ASSUME IInv, [Next]_vars
  PROVE  SessionsAreVerified'
<1>. SUFFICES ASSUME NEW r \in Requests, reply'[r] = "200"
              PROVE  \E u \in Requests :
                       /\ UserExists(u)' /\ users'[u].email = Normalize[call'[r].email]
                       /\ users'[u].emailVerified /\ users'[u].password = call'[r].password
  BY DEF SessionsAreVerified, UsersWith
<1>1. CASE Kept(r) /\ reply[r] = "200"
  <2>1. PICK u \in Requests :
          /\ UserExists(u) /\ users[u].email = Normalize[call[r].email]
          /\ users[u].emailVerified /\ users[u].password = call[r].password
    BY <1>1 DEF IInv, SessionsAreVerified, UsersWith
  <2>. QED
    BY <1>1, <2>1, UsersGrowStep DEF UsersGrow, Kept
<1>2. CASE CheckPassword(r)
  <2>1. user[r] \in UserCopy /\ user[r].row.email = Normalize[call[r].email]
    BY <1>2 DEF CheckPassword, IInv, HandlerOK
  <2>2. user[r].row.password = call[r].password /\ user[r].row.emailVerified
    BY <1>2 DEF CheckPassword, Answer, IInv, TypeOK
  <2>3. /\ user[r].id \in Requests /\ UserExists(user[r].id)
        /\ users[user[r].id].email = user[r].row.email
        /\ users[user[r].id].password = user[r].row.password
        /\ users[user[r].id].emailVerified
    BY <2>1, <2>2, AccountMarkers DEF IInv, CopiesHold, UserCopy
  <2>. QED
    BY <1>2, <2>1, <2>2, <2>3 DEF CheckPassword, UserExists
<1>. QED
  BY <1>1, <1>2, Answers

(***************************************************************************)
(* The refinement of AccountLifecycle                                      *)
(***************************************************************************)

\* What the mapping makes of one address, one token and one request.
StatusAt(e) ==
  IF UsersWith(e) = {} THEN "free"
  ELSE IF \E u \in UsersWith(e) : users[u].emailVerified THEN "verified"
  ELSE "unverified"
LinkAt(t) ==
  IF TokenExists(t) THEN [email |-> users[tokens[t].userId].email, spent |-> tokens[t].used] ELSE NoRow
GrantedAt(r) == IF reply[r] = "200" THEN user[r].row.email ELSE NoRow

LEMMA Mapping ==
  /\ StatusOf = [e \in Emails |-> StatusAt(e)] /\ LinkOf = [t \in Requests |-> LinkAt(t)]
  /\ GrantedTo = [r \in Requests |-> GrantedAt(r)]
BY DEF StatusOf, StatusAt, LinkOf, LinkAt, GrantedTo, GrantedAt

LEMMA MappingNext ==
  /\ StatusOf' = [e \in Emails |-> StatusAt(e)'] /\ LinkOf' = [t \in Requests |-> LinkAt(t)']
  /\ GrantedTo' = [r \in Requests |-> GrantedAt(r)']
BY DEF StatusOf, StatusAt, LinkOf, LinkAt, GrantedTo, GrantedAt

\* An address keeps its status as long as its accounts do.
LEMMA StatusStays ==
  ASSUME NEW e,
         \A u \in Requests :
           \/ users'[u] = users[u]
           \/ ~(UserExists(u) /\ users[u].email = e) /\ ~(UserExists(u)' /\ users'[u].email = e)
  PROVE  StatusAt(e)' = StatusAt(e)
<1>1. UsersWith(e)' = UsersWith(e) /\ \A u \in UsersWith(e) : users'[u] = users[u]
  BY DEF UsersWith, UserExists
<1>. QED
  BY <1>1 DEF StatusAt

\* A link stays as it is as long as its token is there, used or not: its
\* account keeps its address.
LEMMA LinkStays ==
  ASSUME IInv, [Next]_vars, NEW t \in Requests,
         TokenExists(t)' <=> TokenExists(t),
         TokenExists(t) => tokens'[t].used = tokens[t].used
  PROVE  LinkAt(t)' = LinkAt(t)
<1>1. CASE ~TokenExists(t)
  BY <1>1 DEF LinkAt
<1>2. CASE TokenExists(t)
  <2>1. tokens[t].userId \in Requests /\ UserExists(tokens[t].userId)
    BY <1>2 DEF IInv, TypeOK, TokenRow, TokenExists, RowsInOrder
  <2>2. tokens'[t].userId = tokens[t].userId
    BY <1>2, TokensEvolveStep DEF TokensEvolve
  <2>3. users'[tokens[t].userId].email = users[tokens[t].userId].email
    BY <2>1, UsersGrowStep DEF UsersGrow
  <2>. QED
    BY <1>2, <2>2, <2>3 DEF LinkAt
<1>. QED
  BY <1>1, <1>2

\* A session is granted by CheckPassword, and never again to the same request.
LEMMA GrantedStays ==
  ASSUME IInv, [Next]_vars, NEW r \in Requests, ~CheckPassword(r) \/ reply'[r] # "200"
  PROVE  GrantedAt(r)' = GrantedAt(r)
<1>1. CASE Kept(r)
  BY <1>1 DEF Kept, GrantedAt
<1>2. CASE Moves(r)
  <2>1. reply[r] = "none" /\ reply'[r] # "200"
    BY <1>2, IInvTypes, HandlerMoves
  <2>. QED
    BY <2>1 DEF GrantedAt
<1>. QED
  BY <1>1, <1>2, IInvTypes, RequestSteps

\* A link is not Nothing.
LEMMA LinkType ==
  ASSUME IInv, NEW t \in Requests, TokenExists(t)
  PROVE  LinkAt(t) # NoRow /\ LinkAt(t).spent = tokens[t].used
         /\ LinkAt(t).email = users[tokens[t].userId].email
         /\ tokens[t].userId \in Requests /\ UserExists(tokens[t].userId)
         /\ users[tokens[t].userId].email \in Emails
<1>1. tokens[t] \in TokenRow /\ tokens[t].userId \in Requests /\ UserExists(tokens[t].userId)
  BY DEF IInv, TypeOK, TokenRow, TokenExists, RowsInOrder
<1>2. users[tokens[t].userId] \in UserRow
  BY <1>1 DEF IInv, TypeOK, UserExists
<1>3. [email |-> users[tokens[t].userId].email, spent |-> tokens[t].used] \in [email : Emails, spent : BOOLEAN]
  BY <1>1, <1>2 DEF TokenRow, UserRow
<1>4. LinkAt(t) = [email |-> users[tokens[t].userId].email, spent |-> tokens[t].used]
  BY DEF LinkAt
<1>5. users[tokens[t].userId].email \in Emails
  BY <1>2 DEF UserRow
<1>. QED
  BY <1>1, <1>3, <1>4, <1>5, AccountMarkers

\* A link once it is spent.
LEMMA SpentLink ==
  ASSUME NEW e \in Emails, NEW x \in BOOLEAN
  PROVE  [[email |-> e, spent |-> x] EXCEPT !.spent = TRUE] = [email |-> e, spent |-> TRUE]
<1>. DEFINE L == [email : Emails, spent : BOOLEAN]
<1>1. [email |-> e, spent |-> x] \in L
  OBVIOUS
<1>2. \A l \in L : /\ [l EXCEPT !.spent = TRUE] \in L
                   /\ [l EXCEPT !.spent = TRUE].email = l.email /\ [l EXCEPT !.spent = TRUE].spent = TRUE
  OBVIOUS
<1>3. \A l \in L : l = [email |-> l.email, spent |-> l.spent]
  OBVIOUS
<1>. QED
  BY <1>1, <1>2, <1>3

\* The tables that a step leaves alone.
LEMMA UsersSame ==
  ASSUME UNCHANGED users
  PROVE  StatusOf' = StatusOf
<1>1. \A e \in Emails : StatusAt(e)' = StatusAt(e)
  BY StatusStays
<1>. QED
  BY <1>1, Mapping, MappingNext

LEMMA LinksSame ==
  ASSUME IInv, [Next]_vars,
         \A t \in Requests : (TokenExists(t)' <=> TokenExists(t)) /\ (TokenExists(t) => tokens'[t].used = tokens[t].used)
  PROVE  LinkOf' = LinkOf
BY LinkStays, Mapping, MappingNext

LEMMA GrantsSame ==
  ASSUME IInv, [Next]_vars, \A r \in Requests : ~CheckPassword(r) \/ reply'[r] # "200"
  PROVE  GrantedTo' = GrantedTo
BY GrantedStays, Mapping, MappingNext

\* Only one handler moves.
LEMMA NotChecking ==
  ASSUME IInv, NEW r \in Requests, Moves(r), ~CheckPassword(r)
  PROVE  \A q \in Requests : ~CheckPassword(q)
<1>. SUFFICES ASSUME NEW q \in Requests, CheckPassword(q) PROVE FALSE
  OBVIOUS
<1>1. pc[q] = "verifyPassword" /\ pc'[q] = "answered" /\ Moves(q)
  BY DEF CheckPassword, Answer, IInv, TypeOK, Moves, Progress
<1>2. q = r
  BY <1>1, IInvTypes, OneMover
<1>. QED
  BY <1>2

\* signup registers an address that is free.
LEMMA CreateUserRefines ==
  ASSUME IInv, [Next]_vars, NEW r \in Requests, CreateUser(r)
  PROVE  [Lifecycle!Next]_(Lifecycle!lifecycleVars)
<1>1. GrantedTo' = GrantedTo
  <2>1. Moves(r) /\ ~CheckPassword(r)
    BY DEF Moves, Progress, CreateUser, CheckPassword
  <2>. QED
    BY <2>1, NotChecking, GrantsSame
<1>2. LinkOf' = LinkOf
  BY LinksSame DEF CreateUser, TokenExists
<1>3. CASE UNCHANGED users
  BY <1>1, <1>2, <1>3, UsersSame DEF Lifecycle!lifecycleVars
<1>4. CASE ~UNCHANGED users
  <2>. DEFINE row == NewUser(call[r])
  <2>1. row \in UserRow /\ row.emailVerified = FALSE
    BY NewUserType DEF CreateUser, IInv, HandlerOK, NewUser
  <2>2. UsersWith(row.email) = {} /\ users' = [users EXCEPT ![r] = row]
    BY <1>4 DEF CreateUser
  <2>3. ~UserExists(r)
    BY DEF CreateUser, IInv, RowsInOrder
  <2>4. PICK e \in Emails : e = row.email
    BY <2>1 DEF UserRow
  <2>. HIDE DEF row
  <2>5. /\ users'[r] = row /\ row # NoRow
        /\ \A u \in Requests \ {r} : users'[u] = users[u]
    BY <2>1, <2>2, AccountMarkers DEF IInv, TypeOK
  <2>6. StatusAt(e) = "free"
    BY <2>2, <2>4 DEF StatusAt
  <2>7. StatusAt(e)' = "unverified"
    <3>1. \A u \in Requests : UserExists(u)' /\ users'[u].email = e <=> u = r
      BY <2>2, <2>4, <2>5 DEF UsersWith, UserExists
    <3>2. UsersWith(e)' = {r}
      BY <3>1 DEF UsersWith
    <3>. QED
      BY <2>1, <2>5, <3>2 DEF StatusAt
  <2>8. ASSUME NEW f \in Emails \ {e} PROVE StatusAt(f)' = StatusAt(f)
    BY <2>3, <2>4, <2>5, <2>8, StatusStays DEF UserExists
  <2>9. StatusOf' = [StatusOf EXCEPT ![e] = "unverified"] /\ StatusOf[e] = "free"
    BY <2>4, <2>6, <2>7, <2>8, Mapping, MappingNext
  <2>10. Lifecycle!Register(e)
    BY <1>1, <1>2, <2>9 DEF Lifecycle!Register
  <2>. QED
    BY <2>4, <2>10 DEF Lifecycle!Next
<1>. QED
  BY <1>3, <1>4

\* issueVerificationToken issues a link to an address that is registered.
LEMMA IssueTokenRefines ==
  ASSUME IInv, [Next]_vars, NEW r \in Requests, IssueToken(r)
  PROVE  [Lifecycle!Next]_(Lifecycle!lifecycleVars)
<1>1. GrantedTo' = GrantedTo
  <2>1. Moves(r) /\ ~CheckPassword(r)
    BY DEF Moves, Progress, IssueToken, CheckPassword
  <2>. QED
    BY <2>1, NotChecking, GrantsSame
<1>2. users' = users /\ StatusOf' = StatusOf
  BY UsersSame DEF IssueToken
<1>. DEFINE u == user[r].id
            row == [userId |-> u, used |-> FALSE, expired |-> FALSE]
<1>3. user[r] \in UserCopy /\ u \in Requests /\ UserExists(u)
  <2>1. user[r] \in UserCopy
    BY DEF IssueToken, IInv, HandlerOK
  <2>. QED
    BY <2>1, AccountMarkers DEF IInv, CopiesHold, UserCopy
<1>4. PICK e \in Emails : e = users[u].email
  BY <1>3 DEF IInv, TypeOK, UserRow, UserExists
<1>5. ~TokenExists(r)
  BY DEF IssueToken, IInv, RowsInOrder, PastIssue
<1>6. row \in TokenRow /\ row.userId = u /\ row.used = FALSE
  BY <1>3 DEF TokenRow
<1>7. tokens'[r] = row /\ \A t \in Requests \ {r} : tokens'[t] = tokens[t]
  BY DEF IssueToken, IInv, TypeOK
<1>. HIDE DEF row
<1>8. LinkAt(r)' = [email |-> e, spent |-> FALSE]
  <2>1. TokenExists(r)' /\ tokens'[r].userId = u /\ tokens'[r].used = FALSE
    BY <1>6, <1>7, AccountMarkers DEF TokenExists
  <2>2. LinkAt(r)' = [email |-> e, spent |-> tokens'[r].used]
    BY <1>2, <1>4, <2>1 DEF LinkAt
  <2>. QED
    BY <2>1, <2>2, Zenon
<1>9. ASSUME NEW t \in Requests \ {r} PROVE LinkAt(t)' = LinkAt(t)
  BY <1>7, LinkStays DEF TokenExists
<1>10. LinkOf' = [LinkOf EXCEPT ![r] = [email |-> e, spent |-> FALSE]]
  BY <1>8, <1>9, Mapping, MappingNext
<1>11. LinkOf[r] = NoRow
  BY <1>5, Mapping DEF LinkAt
<1>12. StatusOf[e] # "free"
  <2>1. u \in UsersWith(e)
    BY <1>3, <1>4 DEF UsersWith
  <2>2. StatusAt(e) # "free"
    BY <2>1 DEF StatusAt
  <2>. QED
    BY <1>4, <2>2, Mapping
<1>13. Lifecycle!Issue(r, e)
  BY <1>1, <1>2, <1>10, <1>11, <1>12 DEF Lifecycle!Issue
<1>. QED
  BY <1>4, <1>13 DEF Lifecycle!Next

\* invalidateUnusedTokens revokes links that nobody has followed.
LEMMA DeleteUnusedRefines ==
  ASSUME IInv, [Next]_vars, NEW r \in Requests, DeleteUnused(r)
  PROVE  [Lifecycle!Next]_(Lifecycle!lifecycleVars)
<1>1. GrantedTo' = GrantedTo
  <2>1. Moves(r) /\ ~CheckPassword(r)
    BY DEF Moves, Progress, DeleteUnused, CheckPassword
  <2>. QED
    BY <2>1, NotChecking, GrantsSame
<1>2. StatusOf' = StatusOf
  BY UsersSame DEF DeleteUnused
<1>. DEFINE revoked == {t \in Requests : t \in doomed[r] /\ Unused(t)}
<1>3. \A t \in Requests : tokens'[t] = IF t \in revoked THEN NoRow ELSE tokens[t]
  BY DEF DeleteUnused
<1>4. \A t \in revoked : LinkOf[t] # NoRow /\ ~LinkOf[t].spent
  BY LinkType, Mapping DEF Unused
<1>. HIDE DEF revoked
<1>5. ASSUME NEW t \in Requests PROVE LinkAt(t)' = IF t \in revoked THEN NoRow ELSE LinkAt(t)
  <2>1. CASE t \in revoked
    BY <1>3, <2>1 DEF LinkAt, TokenExists
  <2>2. CASE t \notin revoked
    BY <1>3, <2>2, LinkStays DEF TokenExists
  <2>. QED
    BY <2>1, <2>2
<1>6. LinkOf' = [t \in Requests |-> IF t \in revoked THEN NoRow ELSE LinkOf[t]]
  BY <1>5, Mapping, MappingNext
<1>7. Lifecycle!Revoke(revoked)
  BY <1>1, <1>2, <1>4, <1>6 DEF Lifecycle!Revoke
<1>8. revoked \in SUBSET Requests
  BY DEF revoked
<1>. QED
  BY <1>7, <1>8 DEF Lifecycle!Next

\* The commit of a verification spends its link and verifies its address.
LEMMA CommitRefines ==
  ASSUME IInv, [Next]_vars, NEW r \in Requests, Commit(r)
  PROVE  [Lifecycle!Next]_(Lifecycle!lifecycleVars)
<1>1. GrantedTo' = GrantedTo
  <2>1. Moves(r) /\ ~CheckPassword(r)
    BY DEF Moves, Progress, Commit, CheckPassword
  <2>. QED
    BY <2>1, NotChecking, GrantsSame
<1>2. PICK t \in Requests : t = call[r].token
  BY CommitEffect
<1>3. /\ Unused(t) /\ TokenExists(t) /\ tokens[t] \in TokenRow
      /\ tokens' = [tokens EXCEPT ![t].used = TRUE]
      /\ users' = [users EXCEPT ![tokens[t].userId].emailVerified = TRUE]
  BY <1>2, CommitEffect DEF Unused
<1>4. PICK u \in Requests, e \in Emails :
        /\ u = tokens[t].userId /\ e = users[u].email /\ UserExists(u)
        /\ LinkAt(t) # NoRow /\ LinkAt(t).spent = tokens[t].used /\ LinkAt(t).email = e
        /\ LinkAt(t) = [email |-> e, spent |-> tokens[t].used]
  BY <1>3, LinkType DEF LinkAt
<1>5. tokens'[t] = [tokens[t] EXCEPT !.used = TRUE] /\ \A s \in Requests \ {t} : tokens'[s] = tokens[s]
  BY <1>3 DEF IInv, TypeOK
<1>6. tokens'[t] \in TokenRow /\ tokens'[t].used = TRUE /\ tokens'[t].userId = u
  BY <1>3, <1>4, <1>5, SpentRow DEF TokenRow
<1>7. users[u] \in UserRow
  BY <1>4 DEF IInv, TypeOK, UserExists
<1>8. users'[u] = [users[u] EXCEPT !.emailVerified = TRUE] /\ \A v \in Requests \ {u} : users'[v] = users[v]
  BY <1>3, <1>4 DEF IInv, TypeOK
<1>9. users'[u] \in UserRow /\ users'[u].email = e /\ users'[u].emailVerified = TRUE
  BY <1>4, <1>7, <1>8 DEF UserRow
<1>10. LinkAt(t)' = [email |-> e, spent |-> TRUE]
  BY <1>6, <1>9, AccountMarkers DEF LinkAt, TokenExists
<1>11. ASSUME NEW s \in Requests \ {t} PROVE LinkAt(s)' = LinkAt(s)
  BY <1>5, LinkStays DEF TokenExists
<1>12. LinkOf' = [LinkOf EXCEPT ![t].spent = TRUE]
  <2>1. LinkOf[t] = [email |-> e, spent |-> tokens[t].used] /\ tokens[t].used \in BOOLEAN
    BY <1>3, <1>4, Mapping DEF TokenRow
  <2>2. [LinkOf[t] EXCEPT !.spent = TRUE] = [email |-> e, spent |-> TRUE]
    BY <2>1, SpentLink
  <2>3. LinkOf' = [LinkOf EXCEPT ![t] = [email |-> e, spent |-> TRUE]]
    BY <1>10, <1>11, Mapping, MappingNext
  <2>. QED
    BY <2>2, <2>3
<1>13. StatusAt(e)' = "verified"
  <2>1. UserExists(u)'
    BY <1>9, AccountMarkers DEF UserExists
  <2>2. u \in UsersWith(e)'
    BY <1>9, <2>1 DEF UsersWith
  <2>. QED
    BY <1>9, <2>2 DEF StatusAt
<1>14. ASSUME NEW f \in Emails \ {e} PROVE StatusAt(f)' = StatusAt(f)
  BY <1>4, <1>8, <1>9, <1>14, StatusStays
<1>15. StatusOf' = [StatusOf EXCEPT ![e] = "verified"]
  BY <1>13, <1>14, Mapping, MappingNext
<1>16. LinkOf[t] # NoRow /\ ~LinkOf[t].spent /\ LinkOf[t].email = e
  BY <1>3, <1>4, Mapping DEF Unused
<1>17. Lifecycle!Follow(t)
  BY <1>1, <1>12, <1>15, <1>16 DEF Lifecycle!Follow
<1>. QED
  BY <1>17 DEF Lifecycle!Next

\* A login grants a session to a verified address.
LEMMA CheckPasswordRefines ==
  ASSUME IInv, [Next]_vars, NEW r \in Requests, CheckPassword(r)
  PROVE  [Lifecycle!Next]_(Lifecycle!lifecycleVars)
<1>1. UNCHANGED <<users, tokens, user>> /\ pc[r] = "verifyPassword" /\ reply[r] = "none" /\ Moves(r)
  BY DEF CheckPassword, IInv, HandlerOK, Moves, Progress
<1>2. StatusOf' = StatusOf /\ LinkOf' = LinkOf
  BY <1>1, UsersSame, LinksSame DEF TokenExists
<1>3. ASSUME NEW q \in Requests \ {r} PROVE GrantedAt(q)' = GrantedAt(q)
  <2>1. reply'[q] = reply[q]
    BY <1>1, OneMoves DEF IInv, OthersKept
  <2>. QED
    BY <1>1, <2>1 DEF GrantedAt
<1>4. GrantedAt(r) = NoRow
  BY <1>1 DEF GrantedAt
<1>5. CASE reply'[r] # "200"
  <2>1. GrantedAt(r)' = NoRow
    BY <1>5 DEF GrantedAt
  <2>2. GrantedTo' = GrantedTo
    BY <1>3, <1>4, <2>1, Mapping, MappingNext
  <2>. QED
    BY <1>2, <2>2 DEF Lifecycle!lifecycleVars
<1>6. CASE reply'[r] = "200"
  <2>. DEFINE u == user[r].id
  <2>1. user[r] \in UserCopy /\ user[r].row.emailVerified
    BY <1>6 DEF CheckPassword, Answer, IInv, TypeOK, HandlerOK
  <2>2. PICK e \in Emails :
          /\ e = user[r].row.email
          /\ u \in Requests /\ UserExists(u) /\ users[u].email = e /\ users[u].emailVerified
    BY <2>1, AccountMarkers DEF IInv, CopiesHold, UserCopy, UserRow
  <2>3. GrantedAt(r)' = e
    BY <1>1, <1>6, <2>2 DEF GrantedAt
  <2>4. GrantedTo' = [GrantedTo EXCEPT ![r] = e] /\ GrantedTo[r] = NoRow
    BY <1>3, <1>4, <2>3, Mapping, MappingNext
  <2>5. StatusOf[e] = "verified"
    <3>1. u \in UsersWith(e)
      BY <2>2 DEF UsersWith
    <3>2. StatusAt(e) = "verified"
      BY <2>2, <3>1 DEF StatusAt
    <3>. QED
      BY <2>2, <3>2, Mapping
  <2>6. Lifecycle!SignIn(r, e)
    BY <1>2, <2>4, <2>5 DEF Lifecycle!SignIn
  <2>. QED
    BY <2>6 DEF Lifecycle!Next
<1>. QED
  BY <1>5, <1>6

\* All else is not seen: the passing of time, crashes, reads and mails.
LEMMA OthersRefine ==
  ASSUME IInv, [Next]_vars,
         \A r \in Requests : ~CreateUser(r) /\ ~IssueToken(r) /\ ~DeleteUnused(r) /\ ~Commit(r) /\ ~CheckPassword(r)
  PROVE  [Lifecycle!Next]_(Lifecycle!lifecycleVars)
<1>1. GrantedTo' = GrantedTo
  BY GrantsSame
<1>2. CASE UNCHANGED <<users, tokens>>
  BY <1>1, <1>2, UsersSame, LinksSame DEF TokenExists, Lifecycle!lifecycleVars
<1>3. ASSUME NEW t \in Requests, Expire(t) PROVE UNCHANGED Lifecycle!lifecycleVars
  <2>1. tokens[t] \in TokenRow /\ tokens'[t] = [tokens[t] EXCEPT !.expired = TRUE]
        /\ \A s \in Requests \ {t} : tokens'[s] = tokens[s]
    BY <1>3 DEF Expire, Unused, TokenExists, IInv, TypeOK
  <2>2. tokens'[t] \in TokenRow /\ tokens'[t].used = tokens[t].used
    BY <2>1 DEF TokenRow
  <2>3. LinkOf' = LinkOf
    BY <2>1, <2>2, AccountMarkers, LinksSame DEF TokenExists
  <2>. QED
    BY <1>1, <1>3, <2>3, UsersSame DEF Expire, Lifecycle!lifecycleVars
<1>. QED
  BY <1>2, <1>3, TableSteps

\* Every step is a step of the abstract specification, or none.
LEMMA LifecycleStep == IInv /\ [Next]_vars => [Lifecycle!Next]_(Lifecycle!lifecycleVars)
<1>. SUFFICES ASSUME IInv, [Next]_vars PROVE [Lifecycle!Next]_(Lifecycle!lifecycleVars)
  OBVIOUS
<1>. QED
  BY CreateUserRefines, IssueTokenRefines, DeleteUnusedRefines, CommitRefines, CheckPasswordRefines, OthersRefine

LEMMA LifecycleInit == Init => Lifecycle!Init
<1>. SUFFICES ASSUME Init PROVE Lifecycle!Init
  OBVIOUS
<1>1. \A u \in Requests : ~UserExists(u) /\ ~TokenExists(u) /\ reply[u] = "none"
  BY DEF Init, UserExists, TokenExists
<1>2. \A e \in Emails : StatusAt(e) = "free"
  BY <1>1 DEF StatusAt, UsersWith
<1>3. \A r \in Requests : LinkAt(r) = NoRow /\ GrantedAt(r) = NoRow
  BY <1>1 DEF LinkAt, GrantedAt
<1>. QED
  BY <1>2, <1>3, Mapping DEF Lifecycle!Init

(***************************************************************************)
(* The theorems                                                            *)
(***************************************************************************)

\* An empty database and no request is in order.
LEMMA AccountsInit == Init => IInv
<1>. SUFFICES ASSUME Init PROVE IInv
  OBVIOUS
<1>1. \A u \in Requests : ~UserExists(u) /\ ~TokenExists(u)
  BY DEF Init, UserExists, TokenExists
<1>2. TypeOK
  BY DEF Init, TypeOK
<1>3. \A r \in Requests : HandlerOK(r)
  BY DEF Init, HandlerOK
<1>. QED
  BY <1>1, <1>2, <1>3 DEF Init, IInv, CopiesHold, RowsInOrder, OneAccountPerEmail, ClaimsExclude, UserLocksExclude,
     RedirectsUse, UsedTokensVerify, SingleUse, SupersededTokensDead, SessionsAreVerified

\* Every step keeps the parts that concern types and handlers.
LEMMA TypesStep ==
  ASSUME IInv, [Next]_vars
  PROVE  TypeInv'
<1>0. TypeInv /\ ClaimsExclude /\ RowsInOrder
  BY IInvTypes DEF IInv
<1>1. CASE UNCHANGED vars
  BY <1>0, <1>1 DEF vars, TypeInv, TypeOK, Handlers, HandlerOK
<1>. QED
  BY <1>0, <1>1, NextKinds, MovesType, EnvironmentType

\* Every step keeps the inductive invariant.
LEMMA AccountsNext == IInv /\ [Next]_vars => IInv'
<1>. SUFFICES ASSUME IInv, [Next]_vars PROVE IInv'
  OBVIOUS
<1>. QED
  BY TypesStep, CopiesStep, RowsStep, AccountsStep, ClaimsStep, UserLocksStep, RedirectsStep, UsedTokensStep,
     SingleUseStep, SupersededStep, SessionsStep DEF IInv, TypeInv, Handlers

\* The inductive invariant, types included, holds in every reachable state,
\* whatever requests interleave, fail or crash (auth/service.ts).
THEOREM AccountsInvariant == Spec => []IInv
BY AccountsInit, AccountsNext, PTL DEF Spec

\* No two accounts ever have the same address (signup).
THEOREM OneAccount == Spec => []OneAccountPerEmail
<1>1. IInv => OneAccountPerEmail
  BY DEF IInv
<1>. QED
  BY <1>1, AccountsInvariant, PTL

\* A token is used exactly when it has verified its account (verifyEmail).
THEOREM VerifiedByToken == Spec => []UsedTokensVerify
<1>1. IInv => UsedTokensVerify
  BY DEF IInv
<1>. QED
  BY <1>1, AccountsInvariant, PTL

\* A link redirects one request at most (verifyEmail).
THEOREM LinksWorkOnce == Spec => []SingleUse
<1>1. IInv => SingleUse
  BY DEF IInv
<1>. QED
  BY <1>1, AccountsInvariant, PTL

\* What a resend has superseded stays dead (invalidateUnusedTokens).
THEOREM SupersededStayDead == Spec => []SupersededTokensDead
<1>1. IInv => SupersededTokensDead
  BY DEF IInv
<1>. QED
  BY <1>1, AccountsInvariant, PTL

\* A session is opened only for a verified account and its password (login).
THEOREM SessionsVerified == Spec => []SessionsAreVerified
<1>1. IInv => SessionsAreVerified
  BY DEF IInv
<1>. QED
  BY <1>1, AccountsInvariant, PTL

\* Whatever requests interleave, fail or crash, the accounts live as
\* AccountLifecycle says: an address is registered once, a link is spent in
\* the step that verifies its address, and sessions are granted from then on
\* (auth/service.ts, auth/tokens.ts).
THEOREM AccountsImplementLifecycle == Spec => ImplementsLifecycle
BY AccountsInvariant, LifecycleInit, LifecycleStep, PTL DEF Spec, ImplementsLifecycle, Lifecycle!Spec

(***************************************************************************)
(* Waits                                                                   *)
(***************************************************************************)

\* Request q holds the row lock that request r's statement needs.
WaitsFor(r, q) ==
  \/ pc[r] = "deleteUnused" /\ pc[q] \in Holding /\ call[q].token \in doomed[r]
  \/ pc[r] = "claim" /\ pc[q] \in Holding /\ call[q].token = call[r].token
  \/ /\ pc[r] = "verifyUser" /\ pc[q] = "commit"
     /\ tokens[call[q].token].userId = tokens[call[r].token].userId

FreeToGo(r) == InFlight(r) /\ \A q \in Requests : ~WaitsFor(r, q)

\* The guards of the three statements that wait.
LEMMA WaitsAreGuards ==
  ASSUME NEW r \in Requests, FreeToGo(r)
  PROVE  /\ pc[r] = "deleteUnused" => \A t \in doomed[r] : ~Claimed(t)
         /\ pc[r] = "claim" => ~Claimed(call[r].token)
         /\ pc[r] = "verifyUser" => ~UserLocked(tokens[call[r].token].userId)
BY DEF FreeToGo, WaitsFor, Claimed, UserLocked, Holding

\* A statement of a transaction waits for one other at most.
OneHolder ==
  \A r, p, q \in Requests :
    pc[r] \in {"claim", "verifyUser"} /\ WaitsFor(r, p) /\ WaitsFor(r, q) => p = q

\* Who waits, waits for a transaction that can go on, or that waits for one
\* that can.
NoCircle ==
  \A r \in Requests : InFlight(r) /\ ~FreeToGo(r) =>
    \E q \in Requests :
      /\ WaitsFor(r, q)
      /\ FreeToGo(q) \/ \E p \in Requests : WaitsFor(q, p) /\ FreeToGo(p)

\* No deadlock: requests that need the same rows queue up behind a single
\* transaction, and at the head of every queue is one that waits for nobody
\* (the row locks of verifyEmail and invalidateUnusedTokens).
THEOREM NoDeadlock == Spec => [](OneHolder /\ NoCircle)
<1>1. IInv => OneHolder
  BY DEF IInv, ClaimsExclude, UserLocksExclude, OneHolder, WaitsFor, Holding
<1>2. IInv => NoCircle
  <2>1. ASSUME NEW q \in Requests, pc[q] = "commit" PROVE FreeToGo(q)
    BY <2>1 DEF FreeToGo, InFlight, Labels, WaitsFor
  <2>2. ASSUME NEW q \in Requests, pc[q] \in Holding
        PROVE  FreeToGo(q) \/ \E p \in Requests : WaitsFor(q, p) /\ FreeToGo(p)
    <3>1. \A p \in Requests : WaitsFor(q, p) => pc[p] = "commit"
      BY <2>2 DEF WaitsFor, Holding
    <3>. QED
      BY <2>1, <2>2, <3>1 DEF FreeToGo, InFlight, Labels, Holding
  <2>3. \A r, q \in Requests : WaitsFor(r, q) => pc[q] \in Holding
    BY DEF WaitsFor, Holding
  <2>. QED
    BY <2>2, <2>3 DEF NoCircle, FreeToGo
<1>. QED
  BY <1>1, <1>2, AccountsInvariant, PTL

=============================================================================

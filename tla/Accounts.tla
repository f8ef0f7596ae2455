------------------------------ MODULE Accounts ------------------------------
(***************************************************************************)
(* Sign-up, e-mail verification, resend and login                          *)
(* (backend/src/modules/auth): the tables users and verification_tokens,   *)
(* and any number of requests interleaved at every await.                  *)
(*                                                                         *)
(* As in Requests, pc[r] names what request r awaits, and the rows that r  *)
(* inserts have the id r.  A token's id stands for its random value too.   *)
(* The column password stands for the Argon2id hash, which verify accepts  *)
(* for exactly that password.                                              *)
(*                                                                         *)
(* verifyEmail runs a transaction at READ COMMITTED.  What it has written  *)
(* is not visible before its commit, and a statement that meets a row it   *)
(* has written waits for its end and then looks at the row again.          *)
(***************************************************************************)
EXTENDS Naturals

CONSTANTS
  Requests,
  RawEmails,   \* addresses as they are typed
  Emails,      \* addresses as they are stored
  Normalize,   \* normalizeEmail, a function from RawEmails
  Passwords,
  NoRow,
  Forged,      \* a token value that no row has
  Calls        \* the calls of an instance

VARIABLES
  users,       \* user id  -> row or NoRow
  tokens,      \* token id -> row or NoRow
  inbox,       \* tokens whose link has been mailed
  pc,          \* request -> what it awaits, or its status
  call,        \* request -> what the client asked for
  user,        \* request -> the user it has read or created: id and row
  doomed,      \* request -> tokens that its deleteMany has selected
  reply        \* request -> the code of its response, or "none"

vars == <<users, tokens, inbox, pc, call, user, doomed, reply>>

UserRow  == [email : Emails, password : Passwords, emailVerified : BOOLEAN]
TokenRow == [userId : Requests, used : BOOLEAN, expired : BOOLEAN]
UserCopy == [id : Requests, row : UserRow]

SignupCalls == [op : {"signup"}, email : RawEmails, password : Passwords]
LoginCalls  == [op : {"login"}, email : RawEmails, password : Passwords]
ResendCalls == [op : {"resend"}, email : RawEmails]
VerifyCalls == [op : {"verify"}, token : Requests \cup {Forged}]
AllCalls == SignupCalls \cup LoginCalls \cup ResendCalls \cup VerifyCalls

Labels ==
  {"createUser", "issueToken", "sendMail", "findUnverified", "selectUnused", "deleteUnused",
   "findToken", "claim", "verifyUser", "commit", "findLogin", "verifyPassword"}

Codes ==
  {"201", "EMAIL_TAKEN", "202", "302", "TOKEN_INVALID", "TOKEN_USED", "TOKEN_EXPIRED",
   "200", "INVALID_CREDENTIALS", "EMAIL_NOT_VERIFIED", "INTERNAL"}

ASSUME NormalizeAssumption == Normalize \in [RawEmails -> Emails]

ASSUME AccountMarkers ==
  /\ NoRow \notin UserRow \cup TokenRow \cup UserCopy \cup [email : Emails, spent : BOOLEAN]
  /\ Forged \notin Requests

ASSUME CallsAssumption == Calls \subseteq AllCalls

InFlight(r) == pc[r] \in Labels

Goto(r, label) ==
  /\ pc' = [pc EXCEPT ![r] = label]
  /\ UNCHANGED reply

Answer(r, code) ==
  /\ pc' = [pc EXCEPT ![r] = "answered"]
  /\ reply' = [reply EXCEPT ![r] = code]

UserExists(u)  == users[u] # NoRow
TokenExists(t) == tokens[t] # NoRow
Unused(t) == TokenExists(t) /\ ~tokens[t].used

\* The unique index on users.email finds at most one row.
UsersWith(email) == {u \in Requests : UserExists(u) /\ users[u].email = email}

\* The transaction of a verifyEmail holds the lock of token t.
Claimed(t) == \E r \in Requests : pc[r] \in {"verifyUser", "commit"} /\ call[r].token = t

\* Such a transaction holds the lock of user u.
UserLocked(u) == \E r \in Requests : pc[r] = "commit" /\ tokens[call[r].token].userId = u

\* What each handler awaits first; the client has only links it was sent.
FirstCall == [signup |-> "createUser", login |-> "findLogin",
              resend |-> "findUnverified", verify |-> "findToken"]

Receive(r) ==
  /\ pc[r] = "idle"
  /\ \E c \in Calls :
       /\ c.op = "verify" => c.token \in inbox \cup {Forged}
       /\ call' = [call EXCEPT ![r] = c]
       /\ Goto(r, FirstCall[c.op])
  /\ UNCHANGED <<users, tokens, inbox, user, doomed>>

(***************************************************************************)
(* signup and dispatchVerification                                         *)
(***************************************************************************)

NewUser(c) ==
  [email |-> Normalize[c.email], password |-> c.password, emailVerified |-> FALSE]

\* Faulty variant: no unique index stops the second of two sign-ups.
CreateUserUnchecked(r) ==
  /\ pc[r] = "createUser"
  /\ users' = [users EXCEPT ![r] = NewUser(call[r])]
  /\ user' = [user EXCEPT ![r] = [id |-> r, row |-> NewUser(call[r])]]
  /\ Goto(r, "issueToken")
  /\ UNCHANGED <<tokens, inbox, call, doomed>>

CreateUser(r) ==
  LET row == NewUser(call[r]) IN
  /\ pc[r] = "createUser"
  /\ \/ /\ UsersWith(row.email) # {}
        /\ Answer(r, "EMAIL_TAKEN")
        /\ UNCHANGED <<users, user>>
     \/ /\ UsersWith(row.email) = {}
        /\ users' = [users EXCEPT ![r] = row]
        /\ user' = [user EXCEPT ![r] = [id |-> r, row |-> row]]
        /\ Goto(r, "issueToken")
  /\ UNCHANGED <<tokens, inbox, call, doomed>>

\* issueVerificationToken
IssueToken(r) ==
  /\ pc[r] = "issueToken"
  /\ tokens' = [tokens EXCEPT ![r] = [userId |-> user[r].id, used |-> FALSE, expired |-> FALSE]]
  /\ Goto(r, "sendMail")
  /\ UNCHANGED <<users, inbox, call, user, doomed>>

Dispatched(c) == IF c.op = "signup" THEN "201" ELSE "202"

\* Faulty variant: a mail that is not sent is tried again with a new token.
SendMailReissuing(r) ==
  /\ pc[r] = "sendMail"
  /\ \/ inbox' = inbox \cup {r} /\ Answer(r, Dispatched(call[r]))
     \/ inbox' = inbox /\ Goto(r, "issueToken")
  /\ UNCHANGED <<users, tokens, call, user, doomed>>

\* A failure of the mail server is logged and the request succeeds.
SendMail(r) ==
  /\ pc[r] = "sendMail"
  /\ inbox' \in {inbox, inbox \cup {r}}
  /\ Answer(r, Dispatched(call[r]))
  /\ UNCHANGED <<users, tokens, call, user, doomed>>

(***************************************************************************)
(* resendVerification                                                      *)
(***************************************************************************)

FindUnverified(r) ==
  LET found == UsersWith(Normalize[call[r].email]) IN
  /\ pc[r] = "findUnverified"
  /\ \/ /\ \A u \in found : users[u].emailVerified
        /\ Answer(r, "202")
        /\ UNCHANGED user
     \/ /\ \E u \in found :
             /\ ~users[u].emailVerified
             /\ user' = [user EXCEPT ![r] = [id |-> u, row |-> users[u]]]
        /\ Goto(r, "selectUnused")
  /\ UNCHANGED <<users, tokens, inbox, call, doomed>>

\* invalidateUnusedTokens is one deleteMany.  It sees the rows that are
\* there when it starts ...
SelectUnused(r) ==
  /\ pc[r] = "selectUnused"
  /\ doomed' = [doomed EXCEPT ![r] = {t \in Requests : Unused(t) /\ tokens[t].userId = user[r].id}]
  /\ Goto(r, "deleteUnused")
  /\ UNCHANGED <<users, tokens, inbox, call, user>>

\* Faulty variant: only tokens that have expired are deleted.
DeleteExpired(r) ==
  /\ pc[r] = "deleteUnused"
  /\ \A t \in doomed[r] : ~Claimed(t)
  /\ tokens' = [t \in Requests |->
                  IF t \in doomed[r] /\ Unused(t) /\ tokens[t].expired THEN NoRow ELSE tokens[t]]
  /\ Goto(r, "issueToken")
  /\ UNCHANGED <<users, inbox, call, user, doomed>>

\* Faulty variant: the rows that were selected are deleted one by one by id.
DeleteSelected(r) ==
  /\ pc[r] = "deleteUnused"
  /\ tokens' = [t \in Requests |-> IF t \in doomed[r] THEN NoRow ELSE tokens[t]]
  /\ Goto(r, "issueToken")
  /\ UNCHANGED <<users, inbox, call, user, doomed>>

\* ... waits for the verifications that hold one of them, and deletes those
\* that are still unused.
DeleteUnused(r) ==
  /\ pc[r] = "deleteUnused"
  /\ \A t \in doomed[r] : ~Claimed(t)
  /\ tokens' = [t \in Requests |-> IF t \in doomed[r] /\ Unused(t) THEN NoRow ELSE tokens[t]]
  /\ Goto(r, "issueToken")
  /\ UNCHANGED <<users, inbox, call, user, doomed>>

(***************************************************************************)
(* verifyEmail                                                             *)
(***************************************************************************)

FindToken(r) ==
  LET t == call[r].token IN
  /\ pc[r] = "findToken"
  /\ IF t = Forged THEN Answer(r, "TOKEN_INVALID")
     ELSE IF ~TokenExists(t) THEN Answer(r, "TOKEN_INVALID")
     ELSE IF tokens[t].used THEN Answer(r, "TOKEN_USED")
     ELSE IF tokens[t].expired THEN Answer(r, "TOKEN_EXPIRED")
     ELSE Goto(r, "claim")
  /\ UNCHANGED <<users, tokens, inbox, call, user, doomed>>

\* Faulty variant: the claim has no `usedAt: null` guard.
ClaimAny(r) ==
  LET t == call[r].token IN
  /\ pc[r] = "claim"
  /\ ~Claimed(t)
  /\ IF TokenExists(t) THEN Goto(r, "verifyUser") ELSE Answer(r, "TOKEN_USED")
  /\ UNCHANGED <<users, tokens, inbox, call, user, doomed>>

\* Faulty variant: the token is marked used outside the transaction.
ClaimAtOnce(r) ==
  LET t == call[r].token IN
  /\ pc[r] = "claim"
  /\ ~Claimed(t)
  /\ IF Unused(t)
       THEN tokens' = [tokens EXCEPT ![t].used = TRUE] /\ Goto(r, "verifyUser")
       ELSE UNCHANGED tokens /\ Answer(r, "TOKEN_USED")
  /\ UNCHANGED <<users, inbox, call, user, doomed>>

\* tx.verificationToken.updateMany: the row is taken if it is still unused.
Claim(r) ==
  LET t == call[r].token IN
  /\ pc[r] = "claim"
  /\ ~Claimed(t)
  /\ IF Unused(t) THEN Goto(r, "verifyUser") ELSE Answer(r, "TOKEN_USED")
  /\ UNCHANGED <<users, tokens, inbox, call, user, doomed>>

\* tx.user.update
VerifyUser(r) ==
  /\ pc[r] = "verifyUser"
  /\ ~UserLocked(tokens[call[r].token].userId)
  /\ Goto(r, "commit")
  /\ UNCHANGED <<users, tokens, inbox, call, user, doomed>>

Commit(r) ==
  LET t == call[r].token IN
  /\ pc[r] = "commit"
  /\ tokens' = [tokens EXCEPT ![t].used = TRUE]
  /\ users' = [users EXCEPT ![tokens[t].userId].emailVerified = TRUE]
  /\ Answer(r, "302")
  /\ UNCHANGED <<inbox, call, user, doomed>>

\* The transaction fails or runs into Prisma's time limit, and is rolled back.
RollBack(r) ==
  /\ pc[r] \in {"claim", "verifyUser", "commit"}
  /\ Answer(r, "INTERNAL")
  /\ UNCHANGED <<users, tokens, inbox, call, user, doomed>>

(***************************************************************************)
(* login                                                                   *)
(***************************************************************************)

FindLogin(r) ==
  LET found == UsersWith(Normalize[call[r].email]) IN
  /\ pc[r] = "findLogin"
  /\ \/ found = {} /\ Answer(r, "INVALID_CREDENTIALS") /\ UNCHANGED user
     \/ /\ \E u \in found : user' = [user EXCEPT ![r] = [id |-> u, row |-> users[u]]]
        /\ Goto(r, "verifyPassword")
  /\ UNCHANGED <<users, tokens, inbox, call, doomed>>

\* Faulty variant: the account need not be verified.
CheckPasswordOnly(r) ==
  /\ pc[r] = "verifyPassword"
  /\ Answer(r, IF user[r].row.password # call[r].password THEN "INVALID_CREDENTIALS" ELSE "200")
  /\ UNCHANGED <<users, tokens, inbox, call, user, doomed>>

\* The hash is compared off the event loop; what follows uses the copy.
CheckPassword(r) ==
  /\ pc[r] = "verifyPassword"
  /\ IF user[r].row.password # call[r].password THEN Answer(r, "INVALID_CREDENTIALS")
     ELSE IF ~user[r].row.emailVerified THEN Answer(r, "EMAIL_NOT_VERIFIED")
     ELSE Answer(r, "200")
  /\ UNCHANGED <<users, tokens, inbox, call, user, doomed>>

(***************************************************************************)
(* The environment                                                         *)
(***************************************************************************)

\* 24 hours pass for token t; what a used token does no longer matters.
Expire(t) ==
  /\ Unused(t)
  /\ ~tokens[t].expired
  /\ tokens' = [tokens EXCEPT ![t].expired = TRUE]
  /\ UNCHANGED <<users, inbox, pc, call, user, doomed, reply>>

\* The process dies.  Open transactions roll back; a mail it was sending may
\* have left.
Crash ==
  /\ \E r \in Requests : InFlight(r)
  /\ pc' = [r \in Requests |-> IF InFlight(r) THEN "lost" ELSE pc[r]]
  /\ \E sent \in SUBSET {r \in Requests : pc[r] = "sendMail"} : inbox' = inbox \cup sent
  /\ UNCHANGED <<users, tokens, call, user, doomed, reply>>

\* Every request of the instance has been served or lost.
Finished ==
  /\ \A r \in Requests : pc[r] \in {"answered", "lost"}
  /\ UNCHANGED vars

(***************************************************************************)
(* The specification                                                       *)
(***************************************************************************)

Init ==
  /\ users = [u \in Requests |-> NoRow]
  /\ tokens = [t \in Requests |-> NoRow]
  /\ inbox = {}
  /\ pc = [r \in Requests |-> "idle"]
  /\ call = [r \in Requests |-> NoRow]
  /\ user = [r \in Requests |-> NoRow]
  /\ doomed = [r \in Requests |-> {}]
  /\ reply = [r \in Requests |-> "none"]

\* What the process and the database do for request r when nothing fails.
Progress(r) ==
  \/ CreateUser(r) \/ IssueToken(r) \/ SendMail(r)
  \/ FindUnverified(r) \/ SelectUnused(r) \/ DeleteUnused(r)
  \/ FindToken(r) \/ Claim(r) \/ VerifyUser(r) \/ Commit(r)
  \/ FindLogin(r) \/ CheckPassword(r)

Next ==
  \/ \E r \in Requests : Receive(r) \/ Progress(r) \/ RollBack(r) \/ Expire(r)
  \/ Crash
  \/ Finished

Spec == Init /\ [][Next]_vars

\* Node runs every callback and PostgreSQL grants a lock that is free.
FairSpec == Spec /\ \A r \in Requests : WF_vars(Progress(r))

(***************************************************************************)
(* Properties                                                              *)
(***************************************************************************)

\* Every variable has its type.
TypeOK ==
  /\ users \in [Requests -> UserRow \cup {NoRow}]
  /\ tokens \in [Requests -> TokenRow \cup {NoRow}]
  /\ inbox \subseteq Requests
  /\ pc \in [Requests -> Labels \cup {"idle", "answered", "lost"}]
  /\ call \in [Requests -> AllCalls \cup {NoRow}]
  /\ user \in [Requests -> UserCopy \cup {NoRow}]
  /\ doomed \in [Requests -> SUBSET Requests]
  /\ reply \in [Requests -> Codes \cup {"none"}]

\* One account per address, however it is spelled and however many sign-ups
\* run at once (signup, EMAIL_TAKEN).
OneAccountPerEmail ==
  \A u, v \in Requests : UserExists(u) /\ UserExists(v) /\ users[u].email = users[v].email => u = v

\* A token is used if and only if it has verified its account: no crash,
\* timeout or race separates the two writes of verifyEmail's transaction, and
\* no account is verified in another way.
UsedTokensVerify ==
  /\ \A t \in Requests : TokenExists(t) /\ tokens[t].used =>
       UserExists(tokens[t].userId) /\ users[tokens[t].userId].emailVerified
  /\ \A u \in Requests : UserExists(u) /\ users[u].emailVerified =>
       \E t \in Requests : TokenExists(t) /\ tokens[t].used /\ tokens[t].userId = u

\* A link works once: of all the requests that follow it, at most one is
\* redirected to the login page (verifyEmail's `usedAt: null` guard).
SingleUse ==
  \A q, r \in Requests :
    /\ reply[q] = "302" /\ reply[r] = "302"
    /\ call[q].token = call[r].token
    => q = r

\* The tokens a resend found are dead once it issues its own: the row is gone
\* for good, also for a verification that had read it before, unless that
\* verification had claimed it first (invalidateUnusedTokens).
SupersededTokensDead ==
  \A r \in Requests : pc[r] \in {"issueToken", "sendMail"} \/ reply[r] = "202" =>
    \A t \in doomed[r] : ~Unused(t)

\* A session is opened only for the account of the given address and
\* password, and only after it was verified, although login decides on a copy
\* of the row (login).
SessionsAreVerified ==
  \A r \in Requests : reply[r] = "200" =>
    \E u \in UsersWith(Normalize[call[r].email]) :
      users[u].emailVerified /\ users[u].password = call[r].password

\* What each handler knows of its call while it awaits a statement.
HandlerOK(r) ==
  /\ pc[r] = "answered" <=> reply[r] # "none"
  /\ pc[r] = "createUser" => call[r] \in SignupCalls
  /\ pc[r] \in {"issueToken", "sendMail"} => call[r] \in SignupCalls \cup ResendCalls
  /\ pc[r] \in {"findUnverified", "selectUnused", "deleteUnused"} => call[r] \in ResendCalls
  /\ pc[r] = "findToken" => call[r] \in VerifyCalls
  /\ pc[r] \in {"claim", "verifyUser", "commit"} \/ reply[r] = "302" =>
       call[r] \in VerifyCalls /\ call[r].token \in Requests
  /\ pc[r] \in {"findLogin", "verifyPassword"} => call[r] \in LoginCalls
  /\ pc[r] \in {"issueToken", "sendMail", "selectUnused", "deleteUnused", "verifyPassword"} =>
       user[r] \in UserCopy
  /\ pc[r] = "verifyPassword" => user[r].row.email = Normalize[call[r].email]
  /\ pc[r] \in {"idle", "createUser", "findUnverified", "selectUnused"} => doomed[r] = {}

\* A copy of a user stays true but for emailVerified, which may have become
\* TRUE since.
CopiesHold ==
  \A r \in Requests : user[r] # NoRow =>
    LET row == user[r].row IN
    /\ UserExists(user[r].id)
    /\ users[user[r].id].email = row.email
    /\ users[user[r].id].password = row.password
    /\ row.emailVerified => users[user[r].id].emailVerified

\* Request r's token has been inserted, if it ever will be.
PastIssue(r) == pc[r] \in {"sendMail", "answered", "lost"}

\* A request that has inserted nothing yet has no rows; a token belongs to an
\* account.
RowsInOrder ==
  /\ \A r \in Requests : UserExists(r) => pc[r] \notin {"idle", "createUser"}
  /\ \A r \in Requests : TokenExists(r) => PastIssue(r) /\ UserExists(tokens[r].userId)
  /\ \A r \in Requests : \A t \in doomed[r] : PastIssue(t)

\* The row lock of a token: one transaction has it, and the token is unused
\* until that transaction commits.
ClaimsExclude ==
  \A q, r \in Requests :
    pc[q] \in {"verifyUser", "commit"} =>
      /\ Unused(call[q].token)
      /\ pc[r] \in {"verifyUser", "commit"} /\ call[r].token = call[q].token => q = r

\* The row lock of a user: of the transactions that verify it, one has come to
\* its commit.
UserLocksExclude ==
  \A q, r \in Requests :
    /\ pc[q] = "commit" /\ pc[r] = "commit"
    /\ tokens[call[q].token].userId = tokens[call[r].token].userId
    => q = r

\* A request that was redirected has used its token.
RedirectsUse ==
  \A r \in Requests : reply[r] = "302" =>
    TokenExists(call[r].token) /\ tokens[call[r].token].used

\* The inductive invariant.
IInv ==
  /\ TypeOK
  /\ \A r \in Requests : HandlerOK(r)
  /\ CopiesHold
  /\ RowsInOrder
  /\ OneAccountPerEmail
  /\ ClaimsExclude
  /\ UserLocksExclude
  /\ RedirectsUse
  /\ UsedTokensVerify
  /\ SingleUse
  /\ SupersededTokensDead
  /\ SessionsAreVerified

\* Every request is answered, or lost in a crash: no handler waits for ever,
\* and no two wait for each other's row locks.
RequestsEnd == \A r \in Requests : InFlight(r) ~> ~InFlight(r)

\* auth/tokens.ts:28: "a new token supersedes prior unused ones": an account
\* has at most one link that works.
OneLiveLink ==
  \A s, t \in Requests :
    /\ Unused(s) /\ ~tokens[s].expired
    /\ Unused(t) /\ ~tokens[t].expired
    /\ tokens[s].userId = tokens[t].userId
    => s = t

(***************************************************************************)
(* Refinement                                                              *)
(***************************************************************************)

StatusOf ==
  [e \in Emails |->
     IF UsersWith(e) = {} THEN "free"
     ELSE IF \E u \in UsersWith(e) : users[u].emailVerified THEN "verified"
     ELSE "unverified"]

LinkOf ==
  [t \in Requests |->
     IF TokenExists(t)
       THEN [email |-> users[tokens[t].userId].email, spent |-> tokens[t].used]
       ELSE NoRow]

GrantedTo ==
  [r \in Requests |-> IF reply[r] = "200" THEN user[r].row.email ELSE NoRow]

Lifecycle == INSTANCE AccountLifecycle
  WITH Links <- Requests, Logins <- Requests, Nothing <- NoRow,
       status <- StatusOf, link <- LinkOf, granted <- GrantedTo

\* Accounts live as AccountLifecycle says, whatever interleaves or crashes.
ImplementsLifecycle == Lifecycle!Spec

=============================================================================

-------------------------- MODULE AccountLifecycle --------------------------
(***************************************************************************)
(* What the accounts of the tracker promise, without requests, copies or   *)
(* row locks: an address is registered once, verified by following one     *)
(* unspent link that was issued to it, and can sign in only from then on.  *)
(* Accounts implements it.                                                 *)
(***************************************************************************)
CONSTANTS
  Emails,    \* normalized addresses
  Links,     \* verification links
  Logins,    \* login requests
  Nothing    \* no link, or no session

VARIABLES
  status,    \* address -> "free", "unverified" or "verified"
  link,      \* link    -> the address it was issued to and whether it is spent
  granted    \* login   -> the address whose session it opened

lifecycleVars == <<status, link, granted>>

Init ==
  /\ status = [e \in Emails |-> "free"]
  /\ link = [l \in Links |-> Nothing]
  /\ granted = [r \in Logins |-> Nothing]

Register(e) ==
  /\ status[e] = "free"
  /\ status' = [status EXCEPT ![e] = "unverified"]
  /\ UNCHANGED <<link, granted>>

Issue(l, e) ==
  /\ link[l] = Nothing
  /\ status[e] # "free"
  /\ link' = [link EXCEPT ![l] = [email |-> e, spent |-> FALSE]]
  /\ UNCHANGED <<status, granted>>

\* A resend takes back links that nobody has followed.
Revoke(revoked) ==
  /\ \A l \in revoked : link[l] # Nothing /\ ~link[l].spent
  /\ link' = [l \in Links |-> IF l \in revoked THEN Nothing ELSE link[l]]
  /\ UNCHANGED <<status, granted>>

\* The link is spent and its address verified in one step.
Follow(l) ==
  /\ link[l] # Nothing /\ ~link[l].spent
  /\ link' = [link EXCEPT ![l].spent = TRUE]
  /\ status' = [status EXCEPT ![link[l].email] = "verified"]
  /\ UNCHANGED granted

SignIn(r, e) ==
  /\ granted[r] = Nothing
  /\ status[e] = "verified"
  /\ granted' = [granted EXCEPT ![r] = e]
  /\ UNCHANGED <<status, link>>

Next ==
  \/ \E e \in Emails : Register(e)
  \/ \E l \in Links, e \in Emails : Issue(l, e)
  \/ \E revoked \in SUBSET Links : Revoke(revoked)
  \/ \E l \in Links : Follow(l)
  \/ \E r \in Logins, e \in Emails : SignIn(r, e)

Spec == Init /\ [][Next]_lifecycleVars

=============================================================================

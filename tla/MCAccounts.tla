----------------------------- MODULE MCAccounts -----------------------------
(***************************************************************************)
(* A small instance of Accounts for TLC.                                   *)
(***************************************************************************)
EXTENDS Accounts, TLC

MCRequests == 1..4

\* Two spellings of one address.
MCRawEmails == {"ann", "ANN"}
MCEmails == {"ann"}
MCNormalize == ("ann" :> "ann") @@ ("ANN" :> "ann")

\* Sign-ups in both spellings, good and bad logins, resends and links.
MCCalls ==
  {c \in SignupCalls : c.password = "p1"}
  \cup {c \in LoginCalls : c.email = "ann"}
  \cup {c \in ResendCalls : c.email = "ANN"} \cup VerifyCalls

\* Requests are interchangeable, so they may as well arrive in the order of
\* their numbers; unlike SYMMETRY this is sound for liveness too.  A fourth
\* comes only to follow a link of an account that others verify or resend: the
\* requests that take row locks.
Arrivals ==
  \A r \in MCRequests : pc[r] = "idle" /\ pc'[r] # "idle" =>
    /\ r > 1 => pc[r - 1] # "idle"
    /\ r = 4 =>
         /\ call[1].op = "signup" /\ call[1].email = "ANN"
         /\ {call[2].op, call[3].op} \subseteq {"resend", "verify"}
         /\ call'[4].op = "verify"

\* The end of an instance without a fourth request.
NoFourth == pc[4] = "idle" /\ (\A r \in 1..3 : ~InFlight(r)) /\ UNCHANGED vars

OrderedSpec ==
  /\ Init
  /\ [][(Next /\ Arrivals) \/ NoFourth]_vars
  /\ \A r \in Requests : WF_vars(Progress(r))

=============================================================================

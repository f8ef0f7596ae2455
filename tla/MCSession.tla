----------------------------- MODULE MCSession ------------------------------
(***************************************************************************)
(* Small instances of Session for TLC.                                     *)
(***************************************************************************)
EXTENDS Session, TLC

Symmetry ==
  Permutations(Tabs) \cup Permutations(Users) \cup Permutations(Logins) \cup Permutations(Requests)

=============================================================================

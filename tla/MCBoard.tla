------------------------------ MODULE MCBoard -------------------------------
(***************************************************************************)
(* Small instances of BoardCache for TLC: one team has two cards, the      *)
(* other has one.                                                          *)
(***************************************************************************)
EXTENDS BoardCache, TLC

CONSTANTS ta, tb, x1, x2, y1

MCTeams == {ta, tb}
MCTickets == {x1, x2, y1}
MCTeamOf == (x1 :> ta) @@ (x2 :> ta) @@ (y1 :> tb)

Symmetry == Permutations({x1, x2}) \cup Permutations(States) \cup Permutations(Moves)

=============================================================================

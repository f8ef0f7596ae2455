---------------------------- MODULE MCManagement ----------------------------
(***************************************************************************)
(* A small instance of Management for TLC.                                 *)
(***************************************************************************)
EXTENDS Management, TLC

CONSTANTS a, e

MCEpicTeam == e :> a

Symmetry == Permutations(Calls)

=============================================================================

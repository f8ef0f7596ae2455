---------------------------- MODULE MCAuthPages -----------------------------
(***************************************************************************)
(* Small instances of AuthPages for TLC.                                   *)
(***************************************************************************)
EXTENDS AuthPages

=============================================================================

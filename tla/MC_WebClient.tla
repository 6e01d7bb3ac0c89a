----------------------------- MODULE MC_WebClient -----------------------------
(***************************************************************************)
(* Small instances of WebClient for TLC.                                   *)
(***************************************************************************)
EXTENDS WebClient

CONSTANTS d1

OneDialog == [e \in Events |-> d1]

=============================================================================

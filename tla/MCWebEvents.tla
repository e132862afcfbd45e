---------------------------- MODULE MCWebEvents ----------------------------
(***************************************************************************)
(* Small instances of WebEvents.                                           *)
(***************************************************************************)
EXTENDS WebEvents

=============================================================================

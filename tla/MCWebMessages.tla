--------------------------- MODULE MCWebMessages ---------------------------
(***************************************************************************)
(* Small instances of WebMessages.                                         *)
(***************************************************************************)
EXTENDS WebMessages

=============================================================================

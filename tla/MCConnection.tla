---------------------------- MODULE MCConnection ----------------------------
(***************************************************************************)
(* Bounded instance of Connection.                                         *)
(***************************************************************************)
EXTENDS Connection

=============================================================================

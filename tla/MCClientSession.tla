-------------------------- MODULE MCClientSession --------------------------
(* Two threads on a session with two candidates.                         *)
EXTENDS ClientSession, TLC

=============================================================================

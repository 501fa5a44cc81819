-------------------------- MODULE MCMultiplexClient --------------------------
(***************************************************************************)
(* Bounded instance of MultiplexClient.                                    *)
(***************************************************************************)
EXTENDS MultiplexClient

=============================================================================

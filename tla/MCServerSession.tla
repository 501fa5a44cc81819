--------------------------- MODULE MCServerSession ---------------------------
(***************************************************************************)
(* Bounded instance of ServerSession.                                      *)
(***************************************************************************)
EXTENDS ServerSession, TLC

\* Tags and fids are interchangeable: no definition tells one from another.
Symmetry == Permutations(Fid) \cup Permutations(Tag)

=============================================================================

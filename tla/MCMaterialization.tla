------------------------- MODULE MCMaterialization -------------------------
(***************************************************************************)
(* Bounded instances of Materialization.                                   *)
(***************************************************************************)
EXTENDS Materialization

CONSTANTS f1, f2

\* Files are interchangeable.
Symmetry == Permutations(Path)

\* The invariants say nothing once a catch-up may have missed changes or a file
\* was created again, and neither is ever undone: such states are not expanded.
\* Nor is the drop of a process after which none is started.
Explored ==
    /\ gap = {} /\ ~Recreated
    /\ starts = MaxStarts => dpc = "no"

=============================================================================

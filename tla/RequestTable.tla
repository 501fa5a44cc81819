---------------------------- MODULE RequestTable ----------------------------
(***************************************************************************)
(* The tag table of one server session (crates/core/src/flush.rs).  A      *)
(* request is identified by its tag together with the generation the table *)
(* stamped on it, so that a completion of an old request can be told from  *)
(* the request that uses the same tag now.                                 *)
(*                                                                         *)
(* The table is the set of live keys (the BTreeMap's values: each key      *)
(* carries its own tag).  NOTAG is not a member of Tag: begin and flush    *)
(* refuse it with EBADTAG and change nothing.                              *)
(***************************************************************************)
EXTENDS Naturals

CONSTANTS Tag,            \* the tags a peer may use, NOTAG excluded
          MaxGeneration   \* bound on next_generation (u64 in the code)

ASSUME MaxGenerationAssumption == MaxGeneration \in Nat

RequestKey == [tag : Tag, generation : 0..MaxGeneration]

Key(tag, generation) == [tag |-> tag, generation |-> generation]

\* is_live
IsLive(live, tag) == \E key \in live : key.tag = tag

\* Mutant of Finishes: any live request of the tag will do.
FinishesTag(live, key) == IsLive(live, key.tag)

\* finish: true only for the very key that is live, not for one of its tag.
Finishes(live, key) == key \in live

\* flush: the keys (at most one) that a Tflush of oldtag cancels.
FlushCancels(live, oldtag) == {key \in live : key.tag = oldtag}

=============================================================================

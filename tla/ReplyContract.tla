---------------------------- MODULE ReplyContract ----------------------------
(***************************************************************************)
(* What a 9P peer relies on when it reuses tags: a request is answered at  *)
(* most once, and not any more after the Rflush of a Tflush that named its *)
(* tag, or the Rversion of a Tversion, has been sent.                      *)
(*                                                                         *)
(* horizon[t] is the generation below which requests of tag t are settled: *)
(* no reply for them may follow.                                           *)
(***************************************************************************)
EXTENDS RequestTable

VARIABLES answered,   \* keys of the requests whose reply was sent
          horizon     \* tag -> generation

vars == <<answered, horizon>>

Init ==
    /\ answered = {}
    /\ horizon = [t \in Tag |-> 0]

\* The reply to one request.
Answer(key) ==
    /\ key \notin answered
    /\ key.generation >= horizon[key.tag]
    /\ answered' = answered \cup {key}
    /\ UNCHANGED horizon

\* Rflush: the requests of tag t sent before the Tflush are settled.
SettleTag(t, generation) ==
    /\ generation >= horizon[t]
    /\ horizon' = [horizon EXCEPT ![t] = generation]
    /\ UNCHANGED answered

\* Rversion: every earlier request is settled.
SettleAll(generation) ==
    /\ \A t \in Tag : generation >= horizon[t]
    /\ horizon' = [t \in Tag |-> generation]
    /\ UNCHANGED answered

Next ==
    \/ \E key \in RequestKey : Answer(key)
    \/ \E generation \in 0..MaxGeneration :
         SettleAll(generation) \/ \E t \in Tag : SettleTag(t, generation)

Spec == Init /\ [][Next]_vars

=============================================================================

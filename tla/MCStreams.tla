------------------------------ MODULE MCStreams ------------------------------
(***************************************************************************)
(* The stream engine for TLC.  Two streams are enough for the chunks of    *)
(* one to wait among those of another, and five chunks are needed for a    *)
(* message that outlives a FORWARD TSN across the wrap of the TSNs.  Both  *)
(* at once are out of TLC's reach: the plan of a behaviour says how many   *)
(* chunks the peer sends, on which streams, and in which messages.         *)
(***************************************************************************)
EXTENDS StreamEngine

VARIABLE plan

Plans ==
  {[chunks |-> 4, streams |-> {0, 1}, lengths |-> {2, 3}, unordered |-> BOOLEAN],
   [chunks |-> 5, streams |-> {0},    lengths |-> {2, 5}, unordered |-> {FALSE}]}

MCInit == Init /\ plan \in Plans

MCNext ==
  /\ \/ \E s \in plan.streams, length \in plan.lengths, unordered \in plan.unordered :
          UlpSend(s, length, unordered) /\ Len(peer'.sent) <= plan.chunks
     \/ Receiving
     \/ NewAssociation
  /\ plan' = plan

MCSpec == MCInit /\ [][MCNext]_<<vars, plan>>
=============================================================================

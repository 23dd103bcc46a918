---------------------------- MODULE MCEventLoop ----------------------------
(***************************************************************************)
(* Bounds of the event loop.  A behaviour follows one plan: who starts     *)
(* timers in it and which descriptors there are.  Timers and descriptors   *)
(* only meet in the phases of the loop, for which one of each is enough.   *)
(***************************************************************************)
EXTENDS EventLoop

CONSTANTS d1, d2, k1, k2

VARIABLE plan

MCDescriptors == {d1, d2}
MCSockets == {d1}
MCOwners == {k1, k2}

Plans ==
  {[owners |-> {}, descriptors |-> {d1, d2}],
   [owners |-> {k1}, descriptors |-> {d2}],
   [owners |-> {k1, k2}, descriptors |-> {}]}

MCInit == Init /\ plan \in Plans

MCNext ==
  /\ Next /\ plan' = plan
  /\ \A k \in Owners \ plan.owners : armed'[k] = 0
  /\ Registered' \cup ready' \cup failed' \subseteq plan.descriptors

MCSpec == MCInit /\ [][MCNext]_<<vars, plan>> /\ Fairness
=============================================================================

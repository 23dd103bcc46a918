---------------------------- MODULE MCHandshake ----------------------------
(***************************************************************************)
(* The handshake for TLC.  What makes it hard does not need all faults of  *)
(* AssocControl at once, which is out of TLC's reach; the plan of a        *)
(* behaviour says which of them happen in it.                              *)
(*                                                                         *)
(*   collision: both ULPs call sctp_associate, and every order of the      *)
(*              packets of the two handshakes;                             *)
(*   exchange:  one handshake, data and shutdown on a network that loses   *)
(*              and duplicates, with repetitions and stale cookies;        *)
(*   crash:     one handshake, an abort or a crash with packets of the     *)
(*              former life under way, and a new association;              *)
(*   stale:     two handshakes that begin one after the other, the first   *)
(*              of them thrown back to COOKIE_WAIT by a stale cookie.      *)
(***************************************************************************)
EXTENDS MCAssocControl

VARIABLE plan

Plans ==
  {[name |-> "collision", initiators |-> {A, Z}, tags |-> 4],
   [name |-> "exchange",  initiators |-> {A},    tags |-> 2],
   [name |-> "crash",     initiators |-> {A},    tags |-> 4],
   [name |-> "stale",     initiators |-> {A, Z}, tags |-> 3]}

Exchange == plan.name = "exchange"
CrashPlan == plan.name = "crash"
Stale == plan.name = "stale"

MCInit == Init /\ plan \in Plans

MCNext ==
  /\ \/ \E e \in Endpoint :
          \/ Associate(e) /\ e \in plan.initiators
          \/ Shutdown(e) /\ (Exchange \/ CrashPlan)
          \/ Abort(e) /\ CrashPlan
          \/ Crash(e) /\ CrashPlan
          \/ Timer(e) /\ (Exchange \/ (CrashPlan /\ tcb[e].state \notin InitStates))
          \/ (Send(e) \/ ReceiveSack(e)) /\ Exchange
     \* Only the exchange has packets delivered twice.
     \/ \E m \in net : Receive(m.to, m) /\ (Exchange \/ m \notin net')
  /\ nextTag' <= plan.tags + 1
  /\ Exchange \/ Stale \/ expired' = {}
  /\ Exchange => \A m \in net' : m.chunk # "ABORT"
  /\ plan' = plan

MCSpec == MCInit /\ [][MCNext]_<<vars, plan>>
=============================================================================

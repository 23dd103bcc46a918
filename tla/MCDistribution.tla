--------------------------- MODULE MCDistribution ---------------------------
(* A host with an IPv4 and an IPv6 address, a peer with two addresses and  *)
(* one with one.  A run has one of three plans:                             *)
(*   calls      callbacks call the library, on one instance, until every ID *)
(*              has been given once                                         *)
(*   IDs        callbacks call nothing, there is one instance, associations *)
(*              come and go and IDs wrap                                    *)
(*   instances  callbacks call nothing, instances come and go, and next to  *)
(*              an association that lives there may be a deleted one, and   *)
(*              some addresses of the peer may be unknown                   *)
EXTENDS Distribution, TLC

CONSTANTS c1, c2, l4, l6, r1, r2, r3

VARIABLE plan

TwoHosts == {{r1, r2}, {r3}}

On(port, any, addresses) == [port |-> port, any |-> any, addresses |-> addresses]

MCOffers ==
  {On(1, "INADDR_ANY", {}), On(2, "IN6ADDR_ANY", {}), On(2, "none", {l6})}

CellsAndRemotes == Permutations({c1, c2}) \cup Permutations({r1, r2})

OneInstance ==
  /\ \A c \in Cells : assocs'[c] # NoAssoc => assocs'[c].addresses \in Hosts
  /\ instances' # instances =>
       stack = <<>> /\ Registered = {} /\ instances'[1].any = "IN6ADDR_ANY"

NoCalls ==
  IF stack = <<>> THEN Len(stack') = 1 => stack'[1].kind = "event"
                  ELSE Len(stack') < Len(stack)

Allowed ==
  \/ plan = "calls" /\ OneInstance /\ (nextId = 0 => nextId' = 0)
  \/ plan = "IDs" /\ OneInstance /\ NoCalls
  \/ /\ plan = "instances" /\ NoCalls
     /\ Cardinality(Live') <= 1 /\ Cardinality(Listed') <= Cardinality(Live') + 1
     /\ \A c \in Cells : assocs'[c] # NoAssoc => r3 \notin assocs'[c].addresses

MCInit == Init /\ plan \in {"calls", "IDs", "instances"}
MCNext == Next /\ Allowed /\ plan' = plan
MCSpec == MCInit /\ [][MCNext]_<<vars, plan>>
=============================================================================

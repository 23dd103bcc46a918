--------------------------- MODULE MCAssocControl ---------------------------
(***************************************************************************)
(* AssocControl for TLC: two processes A and Z, and the claims of comments *)
(* in the source that the code does not keep.                              *)
(***************************************************************************)
EXTENDS AssocControl, TLC

CONSTANTS A, Z

Swap == Permutations(Endpoint)

-----------------------------------------------------------------------------
(* Refuted claims *)

\* SCTP-control.c:2223, of sci_allChunksAcked: "or to move from  SHUTDOWNRECEIVED to
\* SHUTDOWNACKSENT (after having sent a shutdown-ack chunk)".
ShutdownAckMoves ==
  \A e \in Endpoint :
    tcb[e].state = "SHUTDOWNRECEIVED" => Chunk(e, tcb[e], "SHUTDOWN_ACK") \notin net

\* reltransfer.c:1011, of a restart: "called, when a Cookie, that indicates the peer's
\* restart, is received in the ESTABLISHED state".  Then there are modules to restart.
UpIsInitialised ==
  \A e \in Endpoint : tcb[e].state \in DataStates => tcb[e].modules
=============================================================================

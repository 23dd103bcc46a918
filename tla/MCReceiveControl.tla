-------------------------- MODULE MCReceiveControl --------------------------
(* Bounds of the instances of ReceiveControl. *)
EXTENDS ReceiveControl
=============================================================================

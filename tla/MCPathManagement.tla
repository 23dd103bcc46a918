-------------------------- MODULE MCPathManagement --------------------------
(***************************************************************************)
(* PathManagement for TLC, and a claim of its source that it does not keep.*)
(***************************************************************************)
EXTENDS PathManagement

-----------------------------------------------------------------------------
(* Refuted claim *)

\* pathmanagement.c:382, of the removal of an association: "Doing so, all timers are
\* stop. The HB-timers are stopped by calling pm_disableHB in
\* mdi_deleteCurrentAssociation."  At the latest when its memory is freed.
TimersAreStopped ==
  assoc = "freed" => \A p \in Path : ~pathData[p].hearbeatTimer /\ pathData[p].orphans = 0
=============================================================================

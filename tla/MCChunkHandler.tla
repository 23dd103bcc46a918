--------------------------- MODULE MCChunkHandler ---------------------------
(***************************************************************************)
(* Hosts for the chunk handler: with one address or several, of one family *)
(* or both, of every scope, and with more addresses than there is room for *)
(* in a cookie; and both sides on one host.                                *)
(***************************************************************************)
EXTENDS ChunkHandler

MCFamily ==
  [a4 |-> "IPV4", b4 |-> "IPV4", z4 |-> "IPV4", lo |-> "IPV4",
   a6 |-> "IPV6", aLink |-> "IPV6", aSite |-> "IPV6",
   z6 |-> "IPV6", zLink |-> "IPV6", zSite |-> "IPV6"]

MCScope ==
  [a \in DOMAIN MCFamily |->
     CASE a = "lo" -> "loop"
       [] a \in {"aLink", "zLink"} -> "link"
       [] a \in {"aSite", "zSite"} -> "site"
       [] OTHER -> "global"]

MCHostsA == {<<"a4">>, <<"a4", "b4">>, <<"aLink", "a4", "a6">>, <<"a6", "aSite", "b4">>, <<"lo", "z4">>}
MCHostsZ == {<<"z4">>, <<"zLink", "z4">>, <<"z6", "z4", "zSite">>, <<"lo", "z4">>, <<"lo", "z4", "z6", "zLink">>}

MCExtras ==
  {<<>>, <<"stop">>, <<"skip", "stop and report", "skip and report">>,
   <<"ADDIP", "SET_PRIMARY">>, <<"skip and report", "HOST_NAME">>}
=============================================================================

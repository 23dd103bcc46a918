---------------------------- MODULE ChunkHandler ----------------------------
(***************************************************************************)
(* What the chunks of a handshake carry (sctp/chunkHandler.c, called by    *)
(* sctlr_init, sctlr_initAck and sctlr_cookie_echo): the addresses, the    *)
(* support of PR-SCTP, parameters unknown to the receiver, and the state   *)
(* cookie, in which the listening side Z leaves everything it has to       *)
(* remember with the opening side A.                                       *)
(*                                                                         *)
(* Packets are never taken from the network, so that they may be lost,     *)
(* reordered and duplicated.  Other implementations add parameters to the  *)
(* INIT and the INIT ACK.  A kernel sends from an address of the family    *)
(* and the scope of the destination.                                       *)
(***************************************************************************)
EXTENDS Naturals, SequencesExt

CONSTANTS
  Family,        \* of an address: "IPV4" or "IPV6"
  Scope,         \* of an address: "global", "site", "link" or "loop"
  HostsA,        \* what the instance of A may be bound to: sequences of addresses
  HostsZ,        \* what that of Z may be bound to
  Extras,        \* what the other implementation adds: sequences of parameters
  Reconfigures,  \* may the ULP change supportPRSCTP after it has registered?
  MaxAddresses   \* MAX_NUM_ADDRESSES

Address == DOMAIN Family

\* Unknown parameters are told apart by the two high bits of their type.
Unknown == {"stop", "stop and report", "skip", "skip and report"}
Foreign == Unknown \cup {"HOST_NAME", "ADDIP", "SET_PRIMARY"}

ASSUME AddressAssumption ==
  /\ Family \in [Address -> {"IPV4", "IPV6"}]
  /\ Scope \in [Address -> {"global", "site", "link", "loop"}]
  /\ \A host \in HostsA \cup HostsZ : Range(host) \subseteq Address
  /\ \A extra \in Extras : Range(extra) \subseteq Foreign
  /\ Reconfigures \in BOOLEAN /\ MaxAddresses \in Nat \ {0}

VARIABLES
  bound,     \* per side: localAddressList of its instance
  supports,  \* per side: sctpInstance->supportsPRSCTP
  library,   \* librarySupportsPRSCTP of A, which decides what its INIT says
  adds,      \* per side: the parameters its implementation adds to an INIT or INIT ACK
  wire,      \* the packets sent
  assoc,     \* per side: NoAssoc, or what the association has been built from
  aborted    \* has Z ended in an error_log(ERROR_FATAL, ..)?

vars == <<bound, supports, adds, library, wire, assoc, aborted>>

Side == {"A", "Z"}

NoAssoc == [state |-> "CLOSED"]

-----------------------------------------------------------------------------
(* Addresses *)

OfFamily(f, addresses) == SelectSeq(addresses, LAMBDA a : Family[a] = f)

\* mdi_addressListContainsLocalhost: a loopback address, or one of the own addresses.
ContainsLocalhost(e, peers) == \E p \in peers : Scope[p] = "loop" \/ p \in Range(bound[e])

\* The scopes that are kept from a peer with these addresses.
HiddenFrom(e, peers) ==
  CASE ContainsLocalhost(e, peers) -> {}
    [] \E p \in peers : Family[p] = "IPV6" /\ Scope[p] = "link" -> {"loop"}
    [] OTHER ->
         IF \E p \in peers : Family[p] = "IPV6" /\ Scope[p] = "site"
         THEN {"loop", "link"} ELSE {"loop", "link", "site"}

\* supportedAddressTypes
Types(addresses) == {Family[a] : a \in Range(addresses)}

\* mdi_readLocalAddresses
LocalAddresses(e, types, hidden) ==
  SelectSeq(bound[e], LAMBDA a : Family[a] \in types /\ Scope[a] \notin hidden)

\* setIPAddresses: first the IPv4 addresses, whatever their scope, then the IPv6 addresses
\* a peer at this source may use, and all in all no more than MaxAddresses.
SetIPAddresses(e, params, source, ignoreDups) ==
  LET usable(a) ==
        /\ a \in Address /\ Family[a] \in Types(bound[e])
        /\ Family[a] = "IPV4" \/ Scope[a] \notin HiddenFrom(e, {source})
      found == SelectSeq(params, usable)
      enter(list, a) ==
        IF Len(list) >= MaxAddresses \/ (ignoreDups /\ a \in Range(list))
        THEN list ELSE Append(list, a)
  IN  FoldLeft(enter, <<>>, OfFamily("IPV4", found) \o OfFamily("IPV6", found))

\* ch_IPaddresses: the source of the packet is an address of the peer in any case.
IPAddresses(e, m) ==
  LET found == SetIPAddresses(e, m.params, m.from, TRUE)
  IN  IF m.from \in Range(found) THEN found ELSE Append(found, m.from)

\* The addresses a kernel may send from.
Sources(e, to) ==
  {a \in Range(bound[e]) : Family[a] = Family[to] /\ Scope[a] = Scope[to]}

-----------------------------------------------------------------------------
(* Unknown parameters *)

Within(params, kinds) == SelectSeq(params, LAMBDA p : p \in kinds)

\* The parameters up to the first that ends the examination.
Examined(params, Ends(_)) ==
  LET end == SelectInSeq(params, Ends)
  IN  IF end = 0 THEN params ELSE SubSeq(params, 1, end)

\* ch_enterUnrecognizedParameters.  An INIT with a host name is not answered at all, and
\* one with any other parameter is.
EnterUnrecognizedParameters(params) ==
  LET examined == Examined(params, LAMBDA p : p \in {"stop", "stop and report", "HOST_NAME"})
  IN  [answered |-> "HOST_NAME" \notin Range(examined),
       reports  |-> Within(examined, {"stop and report", "skip and report",
                                      "ADDIP", "SET_PRIMARY"})]

\* ch_enterUnrecognizedErrors.  An INIT ACK with a parameter that ends the examination
\* silently ends the association; an address of a family A does not use is reported.  The
\* address in SET_PRIMARY is never found: the search for it begins at the outer header.
EnterUnrecognizedErrors(params, types) ==
  LET examined == Examined(params, LAMBDA p : p \in {"stop", "stop and report", "HOST_NAME"})
      foreign(p) == p \in Address /\ Family[p] \notin types
      reported(p) == foreign(p) \/ p \in {"stop and report", "skip and report",
                                          "ADDIP", "SET_PRIMARY"}
  IN  [lost |-> {"stop", "HOST_NAME"} \cap Range(examined) # {},
       reports |-> SelectSeq(examined, reported)]

-----------------------------------------------------------------------------
(* Building blocks *)

Packet(chunk, from, to, params) == [chunk |-> chunk, from |-> from, to |-> to, params |-> params]

\* What the ERROR chunk may hold.  Its identifier depends on all chunks made before, and 0
\* stands for "no error chunk": what is in the chunk 0 stays there, and the next error
\* makes another.
ErrorChunks(reports) == {reports} \cup (IF reports = <<>> THEN {} ELSE {Tail(reports)})

\* ch_enterCookieVLP: the cookie holds the addresses of both sides, how many there are of
\* each family, and the parameter of the INIT.  What it is to recall is a history variable.
MakeCookie(local, peers, params) ==
  [params |-> local \o peers \o Within(params, {"PRSCTP"}),
   local |-> [f \in {"IPV4", "IPV6"} |-> Len(OfFamily(f, local))],
   remote |-> [f \in {"IPV4", "IPV6"} |-> Len(OfFamily(f, peers))],
   recalls |-> peers]

AddressesInCookieFault(cookie, source) ==   \* mutant: duplicates are dropped as in an INIT
  SetIPAddresses("Z", cookie.params, source, TRUE)

\* ch_cookieIPDestAddresses: all addresses are read as those of an INIT are, and split.
AddressesInCookie(cookie, source) == SetIPAddresses("Z", cookie.params, source, FALSE)

CookieComplete(cookie, source) ==
  Len(AddressesInCookie(cookie, source)) =
    cookie.local["IPV4"] + cookie.remote["IPV4"] + cookie.local["IPV6"] + cookie.remote["IPV6"]

CookieIPDestAddressesFault(cookie, source) ==   \* mutant: the own IPv6 addresses are forgotten
  LET all == AddressesInCookie(cookie, source)
      first == cookie.local["IPV4"]
      second == first + cookie.remote["IPV4"]
  IN  SubSeq(all, first + 1, first + cookie.remote["IPV4"])
        \o SubSeq(all, second + 1, second + cookie.remote["IPV6"])

CookieIPDestAddresses(cookie, source) ==
  LET all == AddressesInCookie(cookie, source)
      first == cookie.local["IPV4"]
      second == first + cookie.remote["IPV4"] + cookie.local["IPV6"]
  IN  SubSeq(all, first + 1, first + cookie.remote["IPV4"])
        \o SubSeq(all, second + 1, second + cookie.remote["IPV6"])

BuildFault(state, e, paths, offered, cookie) ==   \* mutant: the own support is not looked at
  [state |-> state, paths |-> paths, prsctp |-> offered, cookie |-> cookie]

\* mdi_initAssociation: both must support PR-SCTP.
Build(state, e, paths, offered, cookie) ==
  [state |-> state, paths |-> paths, prsctp |-> offered /\ supports[e], cookie |-> cookie]

-----------------------------------------------------------------------------
(* The handshake *)

\* sctp_setLibraryParameters, before A calls sctp_associate.
SetLibraryParameters ==
  /\ Reconfigures /\ wire = {}
  /\ library' = ~library
  /\ UNCHANGED <<bound, supports, adds, wire, assoc, aborted>>

\* sctp_associatex and scu_associate, to one address of Z or to all.
Associate(destinations) ==
  LET hidden == IF ContainsLocalhost("A", Range(destinations)) THEN {} ELSE {"loop"}
      local == LocalAddresses("A", Types(bound["A"]), hidden)
      params == (IF library THEN <<"PRSCTP">> ELSE <<>>) \o <<"SUPPORTED_ADDR_TYPES">>
                  \o (IF Len(local) > 1 THEN local ELSE <<>>) \o adds["A"]
  IN  /\ assoc["A"] = NoAssoc /\ wire = {}
      /\ \E from \in [Range(destinations) -> Range(bound["A"])] :
           /\ \A d \in Range(destinations) : from[d] \in Sources("A", d)
           /\ wire' = {Packet("INIT", from[d], d, params) : d \in Range(destinations)}
      /\ assoc' = [assoc EXCEPT !["A"] = [state |-> "COOKIE_WAIT", paths |-> destinations]]
      /\ UNCHANGED <<bound, supports, adds, library, aborted>>

\* sctlr_init without an association.  The answer goes to where the INIT came from.
ReceiveInit(m) ==
  LET peers == IPAddresses("Z", m)
      local == LocalAddresses("Z", Types(peers), HiddenFrom("Z", {m.from}))
      unknown == EnterUnrecognizedParameters(m.params)
      agreed == IF supports["Z"] THEN Within(m.params, {"PRSCTP"}) ELSE <<>>
      params == (IF Len(local) > 1 THEN local ELSE <<>>) \o <<"COOKIE">> \o agreed
                  \o [i \in DOMAIN unknown.reports |-> "UNRECOGNIZED_PARAM"] \o adds["Z"]
  IN  /\ m.chunk = "INIT" /\ assoc["Z"] = NoAssoc /\ ~aborted
      /\ unknown.answered
      /\ \E from \in Sources("Z", m.from) :
           wire' = wire \cup {Packet("INIT_ACK", from, m.from, params)
                                @@ ("cookie" :> MakeCookie(local, peers, m.params))}
      /\ UNCHANGED <<bound, supports, adds, library, assoc, aborted>>

\* sctlr_initAck.  The cookie goes to where the INIT ACK came from.
ReceiveInitAck(m) ==
  LET unknown == EnterUnrecognizedErrors(m.params, Types(bound["A"]))
  IN  /\ m.chunk = "INIT_ACK" /\ assoc["A"].state = "COOKIE_WAIT"
      /\ IF unknown.lost
         THEN /\ assoc' = [assoc EXCEPT !["A"] = NoAssoc]
              /\ UNCHANGED wire
         ELSE /\ assoc' = [assoc EXCEPT !["A"] =
                   Build("COOKIE_ECHOED", "A", IPAddresses("A", m),
                         "PRSCTP" \in Range(m.params), m.cookie)]
              /\ \E from \in Sources("A", m.from), error \in ErrorChunks(unknown.reports) :
                   wire' = wire \cup {Packet("COOKIE_ECHO", from, m.from, error)
                                        @@ ("cookie" :> m.cookie)}
      /\ UNCHANGED <<bound, supports, adds, library, aborted>>

\* sci_timer_expired in COOKIE_WAIT: the INIT again, over the first path.
RepeatInit ==
  /\ assoc["A"].state = "COOKIE_WAIT"
  /\ \E m \in wire :
       /\ m.chunk = "INIT" /\ m.to = assoc["A"].paths[1]
       /\ \E from \in Sources("A", m.to) : wire' = wire \cup {[m EXCEPT !.from = from]}
  /\ UNCHANGED <<bound, supports, adds, library, assoc, aborted>>

\* sci_timer_expired in COOKIE_ECHOED: the cookie again, now over the first path.
RepeatCookieEcho ==
  LET a == assoc["A"]
  IN  /\ a.state = "COOKIE_ECHOED"
      /\ \E from \in Sources("A", a.paths[1]) :
           wire' = wire \cup {Packet("COOKIE_ECHO", from, a.paths[1], <<>>)
                                @@ ("cookie" :> a.cookie)}
      /\ UNCHANGED <<bound, supports, adds, library, assoc, aborted>>

\* sctlr_cookie_echo without an association.  A cookie without addresses leaves the one
\* that the new association has: the source of the packet.
ReceiveCookieEcho(m) ==
  LET paths == CookieIPDestAddresses(m.cookie, m.from)
  IN  /\ m.chunk = "COOKIE_ECHO" /\ assoc["Z"] = NoAssoc /\ ~aborted
      /\ IF CookieComplete(m.cookie, m.from)
         THEN /\ assoc' = [assoc EXCEPT !["Z"] =
                   Build("ESTABLISHED", "Z", IF paths = <<>> THEN <<m.from>> ELSE paths,
                         "PRSCTP" \in Range(m.cookie.params), m.cookie)]
              /\ UNCHANGED aborted
         ELSE aborted' = TRUE /\ UNCHANGED assoc
      /\ UNCHANGED <<bound, supports, adds, library, wire>>

-----------------------------------------------------------------------------
Init ==
  /\ bound \in {b \in [Side -> HostsA \cup HostsZ] : b["A"] \in HostsA /\ b["Z"] \in HostsZ}
  /\ supports \in [Side -> BOOLEAN]
  /\ adds \in [Side -> Extras]
  /\ library = supports["A"]
  /\ wire = {} /\ assoc = [e \in Side |-> NoAssoc]
  /\ aborted = FALSE

Next ==
  \/ SetLibraryParameters
  \/ \E ds \in {bound["Z"]} \cup {<<d>> : d \in Range(bound["Z"])} : Associate(ds)
  \/ \E m \in wire : ReceiveInit(m) \/ ReceiveInitAck(m) \/ ReceiveCookieEcho(m)
  \/ RepeatInit \/ RepeatCookieEcho

Spec == Init /\ [][Next]_vars

-----------------------------------------------------------------------------
(* Properties *)

Up == assoc["A"].state = "COOKIE_ECHOED" /\ assoc["Z"].state = "ESTABLISHED"

\* What Z has forgotten since it answered the INIT it reads back from the cookie, from
\* wherever the cookie comes: the addresses of the peer, in the order of its paths.
CookieRecalls ==
  assoc["Z"] # NoAssoc => assoc["Z"].paths = assoc["Z"].cookie.recalls

\* Z never ends over a cookie, unless that came from an address to which not all of the
\* addresses are visible that the source of the INIT could see, or holds more addresses
\* than there is room for.
CookieReadable ==
  aborted =>
    \E m \in wire :
      /\ m.chunk = "COOKIE_ECHO"
      /\ \/ Len(SelectSeq(m.cookie.params, LAMBDA p : p \in Address)) > MaxAddresses
         \/ \A i \in wire : i.chunk = "INIT" /\ i.from \in Range(m.cookie.recalls)
                              => Scope[i.from] # Scope[m.from]

\* Either both ends may give up data, or none does: FORWARD TSN is never sent to a peer
\* that does not know it.
PRSCTPAgreed == Up /\ library = supports["A"] => assoc["A"].prsctp = assoc["Z"].prsctp
=============================================================================

---------------------------- MODULE Distribution ----------------------------
(***************************************************************************)
(* Message distribution (sctp/distribution.c): the lists of instances and  *)
(* associations, the ports, the sockets that are polled, the way from a    *)
(* datagram to the association it belongs to, and the global pointers      *)
(* currentAssociation and sctpInstance that every other module works on.   *)
(*                                                                         *)
(* The library is entered for a datagram, for a timer or by the ULP.  It   *)
(* calls the ULP back, and the ULP may call the library again, and so on:  *)
(* the stack holds what has been entered and not left.  The modules that   *)
(* handle a datagram are reduced to what they do to an association's       *)
(* addresses and state and to the callbacks they make; a callback that     *)
(* tells the end of the association is the last thing a handler does       *)
(* (SCTP-control.c:255), and a frame is done from then on.                 *)
(*                                                                         *)
(* An association is identified with the memory cell it lies in, which is  *)
(* used again after it is freed; its tag, a random number, with the cell   *)
(* too.  Memory is never short.                                            *)
(***************************************************************************)
EXTENDS Integers, SequencesExt, FiniteSetsExt

CONSTANTS
  NULL,
  Cells,          \* where associations are allocated
  MaxId,          \* 2^32 - 1
  MaxName,        \* 2^16 - 1, of instances
  Locals,         \* the host's addresses (myAddressList)
  IPv4,           \* those of this family; the others are IPv6
  Ports,          \* local ports
  Hosts,          \* the peers, each a set of addresses
  RemotePorts,
  Offers,         \* bound: what instances are registered with
  MaxDepth,       \* bound: the length of the stack
  Habits          \* things a ULP or a peer may do that the code is not up to

ASSUME DistributionAssumption ==
  /\ MaxId \in Nat /\ MaxName \in Nat \ {0} /\ MaxDepth \in Nat
  /\ IsFiniteSet(Cells) /\ Cardinality(Cells) < MaxId /\ NULL \notin Cells \cup 1..MaxName
  /\ IsFiniteSet(Ports) /\ Cardinality(Ports) <= MaxName
  /\ IPv4 \subseteq Locals
  /\ \A g, h \in Hosts : g # h => g \cap h = {}
  /\ Habits \subseteq {"delete in use", "primary early", "unregister in use",
                       "second address"}

VARIABLES
  instances,        \* InstanceList: what is registered under a name
  lastName,         \* lastSCTP_instanceName
  portsSeized,
  users,            \* ipv4_users and ipv6_users
  polled,           \* the families whose socket is registered with the event loop
  assocs,           \* the associations in memory
  AssociationList,  \* sorted by ID
  nextId,           \* nextAssocId
  current,          \* currentAssociation
  instance,         \* sctpInstance
  lastFrom,         \* lastFromAddress
  stack,            \* what the library and the ULP are in the middle of
  strayed           \* an ABORT or SHUTDOWN was sent to another peer

instanceVars == <<instances, lastName, portsSeized, users, polled>>
assocVars == <<assocs, AssociationList, nextId>>
globals == <<current, instance, lastFrom>>
vars == <<instanceVars, assocVars, globals, stack, strayed>>

Remotes == UNION Hosts
Names == 1..MaxName
Ids == 1..MaxId
Families == {4, 6}
NoInstance == [port |-> 0]
NoAssoc == [id |-> 0]

Instance == [port : Ports, any : {"none", "INADDR_ANY", "IN6ADDR_ANY"}, addresses : SUBSET Locals]
ASSUME OffersAssumption == Offers \subseteq Instance

States == {"cookie_wait", "cookie_echoed", "established", "closing"}
Opening == {"cookie_wait", "cookie_echoed"}
Assoc ==
  [id : Ids, name : Names, remotePort : RemotePorts, addresses : SUBSET Remotes,
   state : States, deleted : BOOLEAN]

(* event: a datagram or a timer; call: a call of the ULP; up, note, end:    *)
(* callbacks (end tells that the association is gone); upped: the rest of   *)
(* mdi_communicationUpNotif after its callback.                             *)
LibraryKinds == {"event", "call", "upped"}
CallbackKinds == {"up", "note", "end"}
Frame ==
  [kind : LibraryKinds \cup CallbackKinds,
   assoc : Cells, oldAssoc : Cells \cup {NULL}, oldInstance : Names \cup {NULL},
   may : SUBSET CallbackKinds,    \* the callbacks its handler can make
   done : BOOLEAN]

TypeOK ==
  /\ instances \in [Names -> Instance \cup {NoInstance}] /\ lastName \in 0..MaxName
  /\ portsSeized \subseteq Ports
  /\ users \in [Families -> Int] /\ polled \subseteq Families
  /\ assocs \in [Cells -> Assoc \cup {NoAssoc}]
  /\ AssociationList \in Seq(Cells) /\ nextId \in 0..MaxId
  /\ current \in Cells \cup {NULL} /\ instance \in Names \cup {NULL}
  /\ lastFrom \in Remotes \cup {NULL}
  /\ stack \in Seq(Frame) /\ strayed \in BOOLEAN

(* sctp_initLibrary *)
Init ==
  /\ instances = [n \in Names |-> NoInstance] /\ lastName = 1
  /\ portsSeized = {} /\ users = [f \in Families |-> 0] /\ polled = {}
  /\ assocs = [c \in Cells |-> NoAssoc] /\ AssociationList = <<>> /\ nextId = 1
  /\ current = NULL /\ instance = NULL /\ lastFrom = NULL
  /\ stack = <<>> /\ strayed = FALSE

-----------------------------------------------------------------------------
(* Looking things up *)

Registered == {n \in Names : instances[n] # NoInstance}
Listed == ToSet(AssociationList)
Live == {c \in Listed : ~assocs[c].deleted}

OwnAddresses(i) ==
  IF i.any = "IN6ADDR_ANY" THEN Locals
  ELSE IF i.any = "INADDR_ANY" THEN IPv4
  ELSE i.addresses

UsedFamilies(i) ==
  IF i.any = "IN6ADDR_ANY" THEN {4, 6}
  ELSE {IF a \in IPv4 THEN 4 ELSE 6 : a \in OwnAddresses(i)}

(* g_list_find_custom: the first in the list that is one of these *)
Find(matching) ==
  LET places == {k \in DOMAIN AssociationList : AssociationList[k] \in matching}
  IN  IF places = {} THEN NULL ELSE AssociationList[Min(places)]

(* retrieveAssociationForced *)
RetrieveForced(id) == Find({c \in Listed : assocs[c].id = id})

(* retrieveAssociation *)
Retrieve(id) ==
  LET c == RetrieveForced(id)
  IN  IF c = NULL THEN NULL ELSE IF assocs[c].deleted THEN NULL ELSE c

LocalPort(c) == instances[assocs[c].name].port

(* equalAssociations, of an association in the list and another one that *)
(* has these ports and one of these addresses and is not deleted          *)
EqualAssociations(c, addresses, remotePort, port) ==
  /\ assocs[c].remotePort = remotePort /\ LocalPort(c) = port
  /\ assocs[c].addresses \cap addresses # {}
  /\ ~assocs[c].deleted

(* Mutant: the first association with that address is looked at, though it *)
(* may be deleted.                                                          *)
RetrieveByTransportAddressFault(from, fromPort, toPort) ==
  LET c == Find({d \in Listed : /\ assocs[d].remotePort = fromPort /\ LocalPort(d) = toPort
                                /\ from \in assocs[d].addresses})
  IN  IF c = NULL THEN NULL ELSE IF assocs[c].deleted THEN NULL ELSE c

RetrieveByTransportAddress(from, fromPort, toPort) ==
  Find({c \in Listed : EqualAssociations(c, {from}, fromPort, toPort)})

(* CheckForAddressInInstance *)
HasAddress(i, port, to) ==
  i.port = port /\ (i.any # "none" \/ to \in i.addresses)

InstanceFor(port, to) ==
  IF \A n \in Registered : ~HasAddress(instances[n], port, to) THEN NULL
  ELSE CHOOSE n \in Registered : HasAddress(instances[n], port, to)

-----------------------------------------------------------------------------
(* From a datagram to its association: mdi_receiveMessage *)

(* The tag of a datagram is the one this end or the peer chose for an *)
(* association, or 0.                                                  *)
Tags == [side : {"local", "remote"}, of : Cells]
NoTag == [side |-> "local", of |-> NULL]

BySource(p) == RetrieveByTransportAddress(p.from, p.fromPort, p.toPort)

Found(p) ==
  LET c == BySource(p)
  IN  IF c # NULL THEN c
      ELSE IF p.chunks \cap {"INIT", "INIT_ACK"} # {} /\ p.listed # NULL
           THEN RetrieveByTransportAddress(p.listed, p.fromPort, p.toPort)
      ELSE NULL

FoundInstance(p) ==
  LET c == BySource(p)
  IN  IF c # NULL THEN assocs[c].name ELSE InstanceFor(p.toPort, p.to)

(* mdi_destination_address_okay.  With INADDR_ANY an instance is found for  *)
(* a datagram over IPv6 too, and turns it away.                              *)
DestinationOkay(p) ==
  LET n == FoundInstance(p) IN n # NULL => p.to \in OwnAddresses(instances[n])

Bundled(p) ==
  p.chunks \cap {"INIT", "INIT_ACK", "SHUTDOWN_COMPLETE"} # {} /\ Cardinality(p.chunks) > 1

(* What becomes of a datagram that belongs to no association *)
OutOfTheBlue(p) ==
  IF p.chunks \cap {"ABORT", "SHUTDOWN_COMPLETE", "COOKIE_ACK"} # {} THEN "drop"
  ELSE IF "SHUTDOWN_ACK" \in p.chunks THEN "complete"
  ELSE IF "INIT" \in p.chunks
       THEN IF FoundInstance(p) # NULL THEN "deliver" ELSE "abort"
  ELSE IF "COOKIE_ECHO" \in p.chunks
       THEN IF FoundInstance(p) # NULL THEN "deliver" ELSE "drop"
  ELSE "abort"

(* tagRemote is 0 as long as the peer has not told its tag. *)
LocalTag(c) == [side |-> "local", of |-> c]
RemoteTag(c) ==
  IF assocs[c].state = "cookie_wait" THEN NoTag ELSE [side |-> "remote", of |-> c]

(* And of one that belongs to association c *)
InTheBlue(p, c) ==
  IF "INIT" \in p.chunks /\ p.tag # NoTag THEN "drop"
  ELSE IF /\ p.chunks \cap {"ABORT", "SHUTDOWN_COMPLETE"} # {}
          /\ p.tag \notin {LocalTag(c), RemoteTag(c)}
       THEN "drop"
  ELSE IF "SHUTDOWN_ACK" \in p.chunks /\ assocs[c].state \in Opening THEN "complete"
  ELSE IF /\ p.chunks \cap {"INIT", "COOKIE_ECHO", "ABORT"} = {}
          /\ p.tag # LocalTag(c)
       THEN "drop"
  ELSE "deliver"

Verdict(p) ==
  LET c == Found(p)
  IN  IF ~DestinationOkay(p) \/ Bundled(p) THEN "drop"
      ELSE IF c = NULL THEN OutOfTheBlue(p) ELSE InTheBlue(p, c)

-----------------------------------------------------------------------------
(* Frames *)

Top == Last(stack)
UlpRuns == stack # <<>> => Top.kind \in CallbackKinds
LibraryRuns == stack # <<>> /\ Top.kind \in LibraryKinds
Working == LibraryRuns /\ ~Top.done

NewFrame(kind, c, may) ==
  [kind |-> kind, assoc |-> c, oldAssoc |-> current, oldInstance |-> instance,
   may |-> may, done |-> FALSE]

Done(frames) == [frames EXCEPT ![Len(frames)].done = TRUE]

(* An event for association c is handled: mdi_receiveMessage or, for a   *)
(* timer, mdi_setAssociationData has found it.                           *)
StartEvent(c, may) ==
  /\ stack' = <<NewFrame("event", c, may)>>
  /\ current' = c /\ instance' = assocs'[c].name

(* mdi_receiveMessage ends, or mdi_clearAssociationData is called. *)
EndEvent ==
  /\ LibraryRuns /\ Top.kind = "event"
  /\ stack' = <<>>
  /\ current' = NULL /\ instance' = NULL /\ lastFrom' = NULL
  /\ UNCHANGED <<instanceVars, assocVars, strayed>>

(* mdi_deleteCurrentAssociation *)
DeleteCurrent == assocs' = [assocs EXCEPT ![current].deleted = TRUE]

(* mdi_dataArriveNotif, mdi_networkStatusChangeNotif, mdi_sendFailureNotif, *)
(* mdi_peerShutdownReceivedNotif, mdi_restartNotif,                         *)
(* mdi_queueStatusChangeNotif; mdi_communicationUpNotif up to its callback; *)
(* mdi_shutdownCompleteNotif and mdi_communicationLostNotif                 *)
Notif(kind) ==
  /\ Working /\ Len(stack) < MaxDepth
  /\ kind \in Top.may
  /\ current # NULL
  /\ IF kind = "end" THEN DeleteCurrent /\ stack' = Append(Done(stack), NewFrame(kind, current, {}))
     ELSE /\ stack' = Append(stack, NewFrame(kind, current, {}))
          /\ UNCHANGED assocs
  /\ UNCHANGED <<instanceVars, AssociationList, nextId, globals, strayed>>

(* Mutant: a callback returns without putting the pointers back. *)
NotifReturnsFault ==
  /\ stack # <<>> /\ Top.kind \in CallbackKinds
  /\ stack' = IF Top.kind = "up"
              THEN [stack EXCEPT ![Len(stack)] = [@ EXCEPT !.kind = "upped", !.may = {"note"}]]
              ELSE Front(stack)
  /\ UNCHANGED <<instanceVars, assocVars, globals, strayed>>

(* The callback returns, and the pointers are put back; after COMM_UP only *)
(* when the ULP has been told of the paths.                                *)
NotifReturns ==
  /\ stack # <<>> /\ Top.kind \in CallbackKinds
  /\ IF Top.kind = "up"
     THEN /\ stack' = [stack EXCEPT ![Len(stack)] = [@ EXCEPT !.kind = "upped", !.may = {"note"}]]
          /\ UNCHANGED <<current, instance>>
     ELSE /\ stack' = Front(stack)
          /\ current' = Top.oldAssoc /\ instance' = Top.oldInstance
  /\ UNCHANGED <<instanceVars, assocVars, lastFrom, strayed>>

(* A function the ULP called, or mdi_communicationUpNotif, puts the pointers *)
(* back and returns.                                                         *)
Leave ==
  /\ LibraryRuns /\ Top.kind \in {"call", "upped"}
  /\ stack' = Front(stack)
  /\ current' = Top.oldAssoc /\ instance' = Top.oldInstance
  /\ UNCHANGED <<instanceVars, assocVars, lastFrom, strayed>>

-----------------------------------------------------------------------------
(* Instances *)

(* mdi_getUnusedInstanceName: names are counted up, past those in use. *)
UnusedName ==
  LET ahead(k) == ((Max({lastName, 1}) - 1 + k) % MaxName) + 1
  IN  ahead(Min({k \in 0..(MaxName - 1) : ahead(k) \notin Registered}))

CountUsers(i, by) ==
  [f \in Families |-> IF f \in UsedFamilies(i) THEN users[f] + by ELSE users[f]]

(* sctp_registerInstance.  A port belongs to one instance (allocatePort), so *)
(* no instance with that port and one of the addresses can exist already.    *)
RegisterInstance(i) ==
  /\ UlpRuns
  /\ i.port \notin portsSeized
  /\ portsSeized' = portsSeized \cup {i.port}
  /\ polled' = polled \cup UsedFamilies(i)
  /\ users' = CountUsers(i, 1)
  /\ instances' = [instances EXCEPT ![UnusedName] = i]
  /\ lastName' = (UnusedName + 1) % (MaxName + 1)
  /\ UNCHANGED <<assocVars, globals, stack, strayed>>

InUse(n) == \E c \in Listed : assocs[c].name = n

(* Mutant: both sockets go when the instance used either alone. *)
StillPolledFault(count) == {f \in polled : \A g \in Families : count[g] # 0}

StillPolled(count) == {f \in polled : count[f] # 0}

(* sctp_unregisterInstance.  It counts the users down before it looks       *)
(* whether the instance is in use.                                          *)
UnregisterInstance(n) ==
  /\ UlpRuns /\ n \in Registered
  /\ users' = CountUsers(instances[n], -1)
  /\ IF InUse(n)
     THEN "unregister in use" \in Habits /\ UNCHANGED <<instances, portsSeized, polled>>
     ELSE /\ polled' = StillPolled(users')
          /\ portsSeized' = portsSeized \ {instances[n].port}
          /\ instances' = [instances EXCEPT ![n] = NoInstance]
  /\ UNCHANGED <<lastName, assocVars, globals, stack, strayed>>

-----------------------------------------------------------------------------
(* Associations *)

Ahead(k) == ((Max({nextId, 1}) - 1 + k) % MaxId) + 1

(* Mutant: the next ID is taken as it is. *)
UnusedIdFault == Ahead(0)

(* mdi_getUnusedAssocId: IDs are counted up, past those of associations that *)
(* are not deleted.                                                          *)
UnusedId == Ahead(Min({k \in 0..(MaxId - 1) : Retrieve(Ahead(k)) = NULL}))

(* g_list_insert_sorted with compareAssociationIDs: in front of those with *)
(* the same ID                                                             *)
InsertSorted(c, id) ==
  LET behind == {k \in DOMAIN AssociationList : assocs[AssociationList[k]].id >= id}
  IN  InsertAt(AssociationList, Min(behind \cup {Len(AssociationList) + 1}), c)

(* No association with the same ports and one of the addresses exists: *)
(* checkForExistingAssociations                                        *)
IsNew(n, addresses, remotePort) ==
  \A c \in Listed : ~EqualAssociations(c, addresses, remotePort, instances[n].port)

(* mdi_newAssociation, and the addresses that are written thereafter *)
NewAssociation(c, n, addresses, remotePort, state) ==
  /\ assocs[c] = NoAssoc
  /\ assocs' = [assocs EXCEPT ![c] =
       [id |-> UnusedId, name |-> n, remotePort |-> remotePort, addresses |-> addresses,
        state |-> state, deleted |-> FALSE]]
  /\ AssociationList' = InsertSorted(c, UnusedId)
  /\ nextId' = (UnusedId + 1) % (MaxId + 1)

(* No association with the host exists whose addresses it has not told yet, *)
(* unless associations are begun over several of its addresses.             *)
Stranger(n, host, remotePort) ==
  \/ "second address" \in Habits
  \/ IsNew(n, host, remotePort)

(* sctp_associate, sctp_associatex; scu_associate sends the INIT *)
Associate(c, n, addresses, remotePort) ==
  /\ UlpRuns /\ n \in Registered
  /\ \E host \in Hosts : addresses \subseteq host /\ Stranger(n, host, remotePort)
  /\ IsNew(n, addresses, remotePort)
  /\ NewAssociation(c, n, addresses, remotePort, "cookie_wait")
  /\ UNCHANGED <<instanceVars, globals, stack, strayed>>

(* mdi_removeAssociationData *)
RemoveData(c) ==
  /\ AssociationList' = RemoveFirst(AssociationList, c)
  /\ assocs' = [assocs EXCEPT ![c] = NoAssoc]

(* The library is still at work on c, or mdi_communicationUpNotif relies on *)
(* currentAssociation after its callback.                                   *)
AtWork(c) ==
  \/ \E k \in DOMAIN stack :
       stack[k].kind \in LibraryKinds /\ stack[k].assoc = c /\ ~stack[k].done
  \/ stack # <<>> /\ Top.kind = "up"

(* sctp_deleteAssociation: currentAssociation is NULL afterwards. *)
DeleteAssociation(id) ==
  /\ UlpRuns
  /\ LET c == RetrieveForced(id)
     IN  /\ c # NULL
         /\ AtWork(c) => "delete in use" \in Habits
         /\ IF assocs[c].deleted THEN RemoveData(c) ELSE UNCHANGED <<assocs, AssociationList>>
  /\ current' = NULL
  /\ UNCHANGED <<instanceVars, nextId, instance, lastFrom, stack, strayed>>

-----------------------------------------------------------------------------
(* Calls of the ULP *)

(* The pointers are saved and set to the association. *)
Enter(c, may) ==
  /\ UlpRuns /\ Len(stack) < MaxDepth
  /\ c # NULL
  /\ stack' = Append(stack, NewFrame("call", c, may))
  /\ current' = c /\ instance' = assocs[c].name
  /\ UNCHANGED <<instanceVars, AssociationList, nextId, lastFrom>>

(* sctp_send_private *)
Send(id) == Enter(Retrieve(id), {"note"}) /\ UNCHANGED <<assocs, strayed>>

(* sctp_changeHeartBeat, sctp_requestHeartbeat, sctp_getSrttReport, *)
(* sctp_setFailureThreshold: path management does the rest.         *)
ChangePath(id) == Enter(Retrieve(id), {}) /\ UNCHANGED <<assocs, strayed>>

(* sctp_getPathStatus: before the association is established there is none. *)
GetPathStatus(id) ==
  LET c == Retrieve(id)
  IN  c # NULL /\ assocs[c].state \notin Opening
      /\ Enter(c, {}) /\ UNCHANGED <<assocs, strayed>>

(* sctp_setAssocStatus, sctp_getAssocStatus *)
AssocStatus(id) == Enter(Retrieve(id), {}) /\ UNCHANGED <<assocs, strayed>>

(* sctp_receiveUnsent, sctp_receiveUnacked: only when the association is *)
(* deleted; sctpInstance is not set.                                     *)
ReceiveUnsent(id) ==
  LET c == RetrieveForced(id)
  IN  /\ UlpRuns /\ Len(stack) < MaxDepth
      /\ c # NULL /\ assocs[c].deleted
      /\ stack' = Append(stack, NewFrame("call", c, {}))
      /\ current' = c
      /\ UNCHANGED <<instanceVars, assocVars, instance, lastFrom, strayed>>

(* sctp_getInstanceID *)
GetInstanceID(id) == Enter(RetrieveForced(id), {}) /\ UNCHANGED <<assocs, strayed>>

(* sctp_receivefrom: a deleted association may still hold data. *)
ReceiveFrom(id) == Enter(RetrieveForced(id), {}) /\ UNCHANGED <<assocs, strayed>>

(* mdi_send_message without a path: to where the datagram that is handled *)
(* came from, and to the primary path if there is none                    *)
Strays(c) == strayed \/ lastFrom \notin assocs[c].addresses \cup {NULL}

(* sctp_abort, with scu_abort up to the callback *)
Abort(id) ==
  LET c == Retrieve(id)
      call == [NewFrame("call", c, {}) EXCEPT !.done = TRUE]
  IN  /\ UlpRuns /\ Len(stack) + 1 < MaxDepth
      /\ c # NULL
      /\ assocs' = [assocs EXCEPT ![c].deleted = TRUE]
      /\ stack' = stack \o <<call, [NewFrame("end", c, {}) EXCEPT !.oldAssoc = c,
                                                      !.oldInstance = assocs[c].name]>>
      /\ current' = c /\ instance' = assocs[c].name
      /\ strayed' = Strays(c)
      /\ UNCHANGED <<instanceVars, AssociationList, nextId, lastFrom>>

(* sctp_shutdown of an association that is established; otherwise it is *)
(* aborted.                                                             *)
Shutdown(id) ==
  LET c == Retrieve(id)
  IN  /\ Enter(c, {})
      /\ assocs[c].state = "established"
      /\ assocs' = [assocs EXCEPT ![c].state = "closing"]
      /\ strayed' = Strays(c)

(* sctp_setPrimary *)
SetPrimary(id) ==
  LET c == Retrieve(id)
  IN  /\ UNCHANGED <<assocs, strayed>>
      /\ \/ c # NULL /\ assocs[c].state = "established" /\ Enter(c, {})
         \/ /\ "primary early" \in Habits
            /\ UlpRuns /\ c # NULL /\ assocs[c].state # "established"
            /\ current' = c
            /\ UNCHANGED <<instanceVars, AssociationList, nextId, instance, lastFrom, stack>>

-----------------------------------------------------------------------------
(* Events *)

(* A timer of an association that is not deleted goes off. *)
Timer(c) ==
  /\ stack = <<>> /\ c \in Live /\ Retrieve(assocs[c].id) = c
  /\ UNCHANGED <<instanceVars, assocVars, lastFrom, strayed>>
  /\ StartEvent(c, {"note", "end"})

(* The callbacks that a datagram may lead to, for an association in a state *)
MayCall(chunks, state) ==
  IF "COOKIE_ACK" \in chunks THEN IF state = "cookie_echoed" THEN {"up"} ELSE {}
  ELSE IF "COOKIE_ECHO" \in chunks THEN {"up", "note"}
  ELSE IF chunks \cap {"ABORT", "SHUTDOWN_COMPLETE", "SHUTDOWN_ACK", "INIT_ACK"} # {} THEN {"end"}
  ELSE {"note", "end"}

(* The addresses that the peer tells in its INIT or INIT ACK *)
Told(from) == {told \in SUBSET (CHOOSE h \in Hosts : from \in h) : from \in told}

(* A datagram for association c is handled: sctlr_initAck and               *)
(* sctlr_cookie_echo write the addresses, mdi_restartAssociation those of a *)
(* peer that has no more of them than before.                               *)
Handle(p, c) ==
  /\ UNCHANGED <<AssociationList, nextId>>
  /\ IF "INIT_ACK" \in p.chunks /\ assocs[c].state = "cookie_wait"
     THEN \E told \in Told(p.from) :
            assocs' = [assocs EXCEPT ![c].addresses = told, ![c].state = "cookie_echoed"]
     ELSE IF "COOKIE_ECHO" \in p.chunks /\ assocs[c].state # "closing"
     THEN \E told \in Told(p.from) :
            /\ assocs[c].state = "established" =>
                 Cardinality(told) <= Cardinality(assocs[c].addresses)
            /\ assocs' = [assocs EXCEPT ![c].addresses = told, ![c].state = "established"]
     ELSE IF "COOKIE_ACK" \in p.chunks /\ assocs[c].state = "cookie_echoed"
     THEN assocs' = [assocs EXCEPT ![c].state = "established"]
     ELSE UNCHANGED assocs
  /\ StartEvent(c, MayCall(p.chunks, assocs[c].state))

(* A COOKIE ECHO of a new peer: sctlr_cookie_echo *)
Accept(p, c) ==
  /\ "COOKIE_ECHO" \in p.chunks
  /\ Stranger(FoundInstance(p), CHOOSE h \in Hosts : p.from \in h, p.fromPort)
  /\ \E told \in Told(p.from) :
       NewAssociation(c, FoundInstance(p), told, p.fromPort, "established")
  /\ StartEvent(c, MayCall(p.chunks, "established"))

(* mdi_receiveMessage, of a datagram that is passed on to bundling; of one  *)
(* that is not, nothing is left but an ABORT or SHUTDOWN COMPLETE sent.     *)
ReceiveMessage(p) ==
  /\ (IF p.to \in IPv4 THEN 4 ELSE 6) \in polled
  /\ p.listed # NULL => \E host \in Hosts : {p.from, p.listed} \subseteq host
  /\ Verdict(p) = "deliver"
  /\ \/ Found(p) # NULL /\ Handle(p, Found(p))
     \/ Found(p) = NULL /\ \E c \in Cells : Accept(p, c)
  /\ lastFrom' = p.from
  /\ UNCHANGED <<instanceVars, strayed>>

(* The datagrams that a peer may send and that make a difference here: an  *)
(* INIT is only answered, SHUTDOWN ACK and COMPLETE can do what ABORT does. *)
Datagrams(tags, kinds, alsoListed) ==
  [from : Remotes, fromPort : RemotePorts, to : Locals, toPort : portsSeized,
   tag : tags, chunks : kinds, listed : alsoListed]

Sent ==
  LET local == {LocalTag(c) : c \in Listed}
  IN  Datagrams(local, {{"DATA"}, {"COOKIE_ACK"}, {"ABORT"}}, {NULL})
      \cup Datagrams(local, {{"INIT_ACK"}}, Remotes \cup {NULL})
      \cup Datagrams({NoTag}, {{"COOKIE_ECHO"}, {"COOKIE_ECHO", "DATA"}}, {NULL})

Next ==
  \/ \E i \in Offers : RegisterInstance(i)
  \/ \E n \in Names :
       \/ UnregisterInstance(n)
       \/ \E c \in Cells, addresses \in SUBSET Remotes \ {{}}, port \in RemotePorts :
            Associate(c, n, addresses, port)
  \/ \E id \in Ids :
       \/ DeleteAssociation(id) \/ Send(id) \/ ReceiveFrom(id) \/ ReceiveUnsent(id)
       \/ Abort(id) \/ Shutdown(id) \/ SetPrimary(id) \/ GetInstanceID(id)
       \/ ChangePath(id) \/ GetPathStatus(id) \/ AssocStatus(id)
  \/ \E c \in Cells : Timer(c)
  \/ stack = <<>> /\ \E p \in Sent : ReceiveMessage(p)
  \/ \E kind \in CallbackKinds : Notif(kind)
  \/ NotifReturns \/ Leave \/ EndEvent

Spec == Init /\ [][Next]_vars

-----------------------------------------------------------------------------
(* Whatever callbacks call whatever functions, the library is at work on   *)
(* the association it was entered for, in its instance (unless that is     *)
(* deleted), and on none when it is idle: the pointers saved and put back  *)
(* by every function of distribution.c.                                    *)
CurrentIsRight ==
  /\ stack = <<>> => current = NULL /\ instance = NULL
  /\ Working => /\ assocs[Top.assoc] # NoAssoc
                /\ current = Top.assoc
                /\ assocs[current].deleted \/ instance = assocs[current].name

(* An ID the ULP holds means the association it was given for, until that  *)
(* is deleted: IDs that wrap around, and associations that are deleted but *)
(* still in the list, never hide it (mdi_getUnusedAssocId).                *)
LiveIsFound == \A c \in Live : Retrieve(assocs[c].id) = c

(* Whenever a datagram can come, what the peer sends from any of its        *)
(* addresses and to any address of the instance reaches its association,    *)
(* whatever else is in the list.                                            *)
OwnIsDelivered ==
  stack = <<>> =>
    \A c \in Live :
      \A from \in assocs[c].addresses, to \in OwnAddresses(instances[assocs[c].name]) :
        LET p == [from |-> from, fromPort |-> assocs[c].remotePort, to |-> to,
                  toPort |-> LocalPort(c), tag |-> LocalTag(c), chunks |-> {"DATA"},
                  listed |-> NULL]
        IN  Verdict(p) = "deliver" /\ Found(p) = c

(* As long as an instance is registered its port is its own, the sockets it *)
(* needs are polled, and every INIT to it is passed on, whatever instances  *)
(* came and went before.                                                    *)
ListenersServed ==
  /\ portsSeized = {instances[n].port : n \in Registered}
  /\ \A n \in Registered :
       /\ UsedFamilies(instances[n]) \subseteq polled
       /\ \A m \in Registered \ {n} : instances[m].port # instances[n].port
       /\ stack = <<>> =>
            \A from \in Remotes, port \in RemotePorts, to \in OwnAddresses(instances[n]) :
              Verdict([from |-> from, fromPort |-> port, to |-> to,
                       toPort |-> instances[n].port, tag |-> NoTag, chunks |-> {"INIT"},
                       listed |-> NULL]) = "deliver"

(* "accept my-tag or peers tag, else drop packet" (distribution.c:1305), of *)
(* a SHUTDOWN COMPLETE                                                       *)
PeersTagAccepted ==
  \A c \in Live, to \in Locals :
    \A from \in assocs[c].addresses :
      LET p == [from |-> from, fromPort |-> assocs[c].remotePort, to |-> to,
                toPort |-> LocalPort(c), tag |-> RemoteTag(c),
                chunks |-> {"SHUTDOWN_COMPLETE"}, listed |-> NULL]
      IN  DestinationOkay(p) => Verdict(p) = "deliver"

(* An ABORT or SHUTDOWN goes to the peer of the association that is aborted *)
(* or shut down.                                                            *)
NothingStrays == ~strayed
=============================================================================

------------------------- MODULE AssocControlProofs -------------------------
(***************************************************************************)
(* Proofs about AssocControl for every value of its constants: ControlInv  *)
(* is inductive, and the invariants of single control blocks follow.       *)
(***************************************************************************)
EXTENDS AssocControl, TLAPS

GoodTCB(t) == t \in TCB /\ SoundTCB(t)

-----------------------------------------------------------------------------
(* Packets *)

\* The other endpoint is an endpoint: the peer that every packet is sent to.
LEMMA PeerIsEndpoint == \A e \in Endpoint : Peer(e) \in Endpoint
  BY EndpointAssumption DEF Peer

\* A chunk without contents, sent by mdi_send_message for an association.
LEMMA ChunkIsPacket ==
  ASSUME NEW e \in Endpoint, NEW t \in TCB, NEW name \in SimpleChunk
  PROVE  Chunk(e, t, name) \in Packet
  BY PeerIsEndpoint DEF Chunk, Packet, TCB

\* The stored INIT of an association that has a local tag.
LEMMA InitChunkIsPacket ==
  ASSUME NEW e \in Endpoint, NEW t \in TCB, t.tagLocal # 0
  PROVE  InitChunk(e, t) \in Packet
<1>1. t.tagLocal \in Tag /\ t.tagRemote \in TagOrZero
  BY BoundAssumption DEF TCB, TagOrZero, Tag
<1> QED
  BY <1>1, PeerIsEndpoint DEF InitChunk, Packet

\* The stored COOKIE ECHO, once there is one.
LEMMA CookieEchoIsPacket ==
  ASSUME NEW e \in Endpoint, NEW t \in TCB, t.cookieChunk \in Cookie
  PROVE  CookieEcho(e, t) \in Packet
  BY PeerIsEndpoint DEF CookieEcho, Packet, TCB

\* An INIT ACK that answers an INIT.
LEMMA InitAckIsPacket ==
  ASSUME TypeOK, NEW e \in Endpoint, NEW m \in Packet, m.chunk = "INIT",
         NEW local \in Tag, NEW localTie \in TagOrZero, NEW peerTie \in TagOrZero
  PROVE  InitAck(e, m, local, localTie, peerTie) \in Packet
<1>1. m.initTag \in Tag
  BY DEF Packet, SimpleChunk
<1>2. epoch[e] \in 0..MaxCrashes
  BY DEF TypeOK
<1>3. Tag \subseteq TagOrZero
  BY BoundAssumption DEF Tag, TagOrZero
<1> QED
  BY <1>1, <1>2, <1>3, PeerIsEndpoint DEF InitAck, Packet, Cookie

\* Receiving a packet leaves only packets in the network.
LEMMA ConsumeIsTyped ==
  ASSUME net \subseteq Packet, NEW m, NEW out, out \subseteq Packet, Consume(m, out)
  PROVE  net' \subseteq Packet
  BY DEF Consume

-----------------------------------------------------------------------------
(* Control blocks *)

\* The absent association is sound.
LEMMA NoTCBIsGood == GoodTCB(NoTCB)
  BY BoundAssumption
     DEF GoodTCB, NoTCB, TCB, SoundTCB, States, InitStates, DataStates, DrainedStates, TagOrZero

\* Writing a sound control block keeps all of them sound.
LEMMA BecomeIsGood ==
  ASSUME ControlInv, NEW e \in Endpoint, NEW t, GoodTCB(t), Become(e, t)
  PROVE  /\ tcb' \in [Endpoint -> TCB]
         /\ \A f \in Endpoint : SoundTCB(tcb'[f])
  BY DEF ControlInv, TypeOK, GoodTCB, Become

\* mdi_deleteCurrentAssociation keeps the invariant's conjuncts on tcb and past.
LEMMA DeleteIsGood ==
  ASSUME ControlInv, NEW e \in Endpoint, NEW how \in Endings, Delete(e, how)
  PROVE  /\ tcb' \in [Endpoint -> TCB]
         /\ \A f \in Endpoint : SoundTCB(tcb'[f])
         /\ past' \in [Endpoint -> [how : Endings, tagLocal : TagOrZero, tagRemote : TagOrZero]]
<1>1. tcb[e] \in TCB
  BY DEF ControlInv, TypeOK
<1>2. tcb[e].tagLocal \in TagOrZero /\ tcb[e].tagRemote \in TagOrZero
  BY <1>1 DEF TCB
<1>3. past' \in [Endpoint -> [how : Endings, tagLocal : TagOrZero, tagRemote : TagOrZero]]
  BY <1>2 DEF Delete, ControlInv, TypeOK
<1>4. Become(e, NoTCB)
  BY DEF Delete
<1> QED
  BY <1>3, <1>4, NoTCBIsGood, BecomeIsGood

\* What sci_allChunksAcked leaves is sound whenever a chunk count of zero is.
LEMMA AllChunksAckedIsGood ==
  ASSUME NEW e \in Endpoint, NEW t \in TCB, t.unacked = 0, t.state \notin InitStates,
         t.state = "SHUTDOWNPENDING" \/ SoundTCB(t),
         t.ups <= 1, t.tagLocal # 0
  PROVE  /\ AllChunksAcked(e, t).tcb \in TCB
         /\ SoundTCB(AllChunksAcked(e, t).tcb)
         /\ AllChunksAcked(e, t).out \subseteq Packet
<1>1. Chunk(e, t, "SHUTDOWN") \in Packet /\ Chunk(e, t, "SHUTDOWN_ACK") \in Packet
  BY ChunkIsPacket DEF SimpleChunk
<1>2. CASE t.state = "SHUTDOWNPENDING"
  <2> DEFINE u == [t EXCEPT !.state = "SHUTDOWNSENT", !.initTimer = TRUE,
                            !.initRetransCounter = 0]
  <2>1. AllChunksAcked(e, t) = [tcb |-> u, out |-> {Chunk(e, t, "SHUTDOWN")}]
    BY <1>2 DEF AllChunksAcked
  <2>2. u \in TCB
    BY DEF TCB, States, DrainedStates
  <2>3. /\ u.state = "SHUTDOWNSENT" /\ u.initTimer /\ u.unacked = 0 /\ u.ups <= 1
        /\ u.tagLocal # 0
    BY DEF TCB
  <2>4. SoundTCB(u)
    BY <2>3 DEF SoundTCB, InitStates
  <2> QED
    BY <1>1, <2>1, <2>2, <2>4
<1>3. CASE t.state = "SHUTDOWNRECEIVED"
  <2> DEFINE u == [t EXCEPT !.state = "SHUTDOWNACKSENT", !.initTimer = TRUE]
  <2>1. AllChunksAcked(e, t) = [tcb |-> u, out |-> {Chunk(e, t, "SHUTDOWN_ACK")}]
    BY <1>3 DEF AllChunksAcked
  <2>2. u \in TCB
    BY DEF TCB, States, DrainedStates
  <2>3. /\ u.state = "SHUTDOWNACKSENT" /\ u.initTimer /\ u.unacked = 0 /\ u.ups <= 1
        /\ u.tagLocal # 0
    BY DEF TCB
  <2>4. SoundTCB(u)
    BY <2>3 DEF SoundTCB, InitStates
  <2> QED
    BY <1>1, <2>1, <2>2, <2>4
<1>4. CASE t.state \notin {"SHUTDOWNPENDING", "SHUTDOWNRECEIVED"}
  BY <1>4 DEF AllChunksAcked
<1> QED
  BY <1>2, <1>3, <1>4

\* The same for an acknowledgement that leaves some chunks.
LEMMA AcknowledgedIsGood ==
  ASSUME NEW e \in Endpoint, NEW t, GoodTCB(t), t.state \in DataStates \cup {"SHUTDOWNACKSENT"},
         NEW left \in 0..t.unacked
  PROVE  /\ GoodTCB(Acknowledged(e, t, left).tcb)
         /\ Acknowledged(e, t, left).out \subseteq Packet
<1> DEFINE a == [t EXCEPT !.unacked = left]
<1>1. /\ a \in TCB /\ a.unacked = left /\ a.state = t.state /\ a.state \notin InitStates
      /\ a.ups <= 1 /\ a.tagLocal # 0
  BY BoundAssumption
     DEF GoodTCB, TCB, SoundTCB, States, InitStates, DataStates, DrainedStates
<1>2. left > 0 \/ t.state # "SHUTDOWNPENDING" => SoundTCB(a)
  BY BoundAssumption
     DEF GoodTCB, TCB, SoundTCB, States, InitStates, DataStates, DrainedStates
<1>3. CASE left = 0 /\ t.shutdownReceived
  <2>1. AllChunksAcked(e, a).tcb \in TCB /\ SoundTCB(AllChunksAcked(e, a).tcb)
        /\ AllChunksAcked(e, a).out \subseteq Packet
    BY <1>1, <1>2, <1>3, AllChunksAckedIsGood
  <2> QED
    BY <2>1, <1>3 DEF Acknowledged, GoodTCB
<1>4. CASE ~(left = 0 /\ t.shutdownReceived)
  <2>1. left > 0 \/ t.state # "SHUTDOWNPENDING"
    BY <1>4 DEF GoodTCB, SoundTCB
  <2> QED
    BY <2>1, <1>1, <1>2, <1>4 DEF Acknowledged, GoodTCB
<1> QED
  BY <1>3, <1>4

\* A repeated SHUTDOWN changes no more than the chunks, the state and the timer, and the
\* latter two only in SHUTDOWNRECEIVED.
LEMMA ShutdownCtsnaIsTyped ==
  ASSUME NEW e \in Endpoint, NEW t, GoodTCB(t),
         t.state \in {"SHUTDOWNRECEIVED", "SHUTDOWNACKSENT"},
         NEW left \in 0..t.unacked, NEW waited \in BOOLEAN,
         NEW r, r = ShutdownCtsna(e, t, left, waited)
  PROVE  /\ r.tcb \in TCB /\ r.out \subseteq Packet
         /\ r.tcb.unacked = left /\ r.tcb.ups = t.ups
         /\ r.tcb.tagLocal = t.tagLocal /\ r.tcb.modules = t.modules
         /\ t.state = "SHUTDOWNACKSENT" => r.tcb.initTimer = t.initTimer
<1> DEFINE a == [t EXCEPT !.unacked = left]
           b == [a EXCEPT !.state = "SHUTDOWNACKSENT", !.initTimer = TRUE]
<1>1. /\ a \in TCB /\ a.state = t.state /\ a.unacked = left /\ a.ups = t.ups
      /\ a.tagLocal = t.tagLocal /\ a.modules = t.modules /\ a.initTimer = t.initTimer
      /\ a.tagLocal # 0
  BY BoundAssumption DEF GoodTCB, SoundTCB, TCB
<1>2. /\ b \in TCB /\ b.unacked = left /\ b.ups = t.ups
      /\ b.tagLocal = t.tagLocal /\ b.modules = t.modules
  BY <1>1 DEF TCB, States, DrainedStates
<1>3. Chunk(e, a, "SHUTDOWN_ACK") \in Packet
  BY <1>1, ChunkIsPacket DEF SimpleChunk
<1>4. \/ r = [tcb |-> a, out |-> {}]
      \/ /\ r = [tcb |-> b, out |-> {Chunk(e, a, "SHUTDOWN_ACK")}]
         /\ t.state = "SHUTDOWNRECEIVED"
  BY <1>1 DEF ShutdownCtsna, Acknowledged, AllChunksAcked
<1> HIDE DEF a, b
<1>5. CASE r = [tcb |-> a, out |-> {}]
  BY <1>1, <1>5
<1>6. CASE /\ r = [tcb |-> b, out |-> {Chunk(e, a, "SHUTDOWN_ACK")}]
           /\ t.state = "SHUTDOWNRECEIVED"
  BY <1>2, <1>3, <1>6
<1> QED
  BY <1>4, <1>5, <1>6

\* mdi_initAssociation keeps a control block that still waits sound.
LEMMA InitAssociationIsGood ==
  ASSUME NEW t, GoodTCB(t), t.state \in InitStates, NEW remote \in Tag
  PROVE  /\ GoodTCB(InitAssociation(t, remote))
         /\ InitAssociation(t, remote).state = t.state
         /\ InitAssociation(t, remote).tagLocal = t.tagLocal
<1> DEFINE u == [t EXCEPT !.tagRemote = remote, !.modules = TRUE, !.unacked = 0,
                          !.shutdownReceived = FALSE]
<1>1. InitAssociation(t, remote) = u
  BY DEF InitAssociation
<1>2. u \in TCB
  <2>1. remote \in TagOrZero /\ 0 \in 0..MaxUnacked /\ TRUE \in BOOLEAN /\ FALSE \in BOOLEAN
    BY BoundAssumption DEF Tag, TagOrZero
  <2>2. t \in TCB
    BY DEF GoodTCB
  <2> QED
    BY <2>1, <2>2 DEF TCB
<1>3. /\ u.state = t.state /\ u.tagLocal = t.tagLocal /\ u.initTimer = t.initTimer
      /\ u.localTieTag = t.localTieTag /\ u.peerTieTag = t.peerTieTag
      /\ u.cookieChunk = t.cookieChunk /\ u.ups = t.ups /\ u.modules /\ u.unacked = 0
  BY DEF GoodTCB, TCB
<1>4. SoundTCB(u)
  BY <1>3 DEF GoodTCB, SoundTCB, InitStates, DrainedStates
<1> QED
  BY <1>1, <1>2, <1>3, <1>4 DEF GoodTCB

\* sctlr_initAck stores a cookie and two tie tags, neither of them zero.
LEMMA CookieEchoedIsGood ==
  ASSUME NEW t, GoodTCB(t), t.state = "COOKIE_WAIT",
         NEW m \in Packet, m.chunk = "INIT_ACK"
  PROVE  GoodTCB(CookieEchoed(t, m)) /\ CookieEchoed(t, m).cookieChunk \in Cookie
<1> DEFINE i == InitAssociation(t, m.initTag)
           u == [i EXCEPT !.state = "COOKIE_ECHOED", !.initTimer = TRUE,
                          !.cookieChunk = m.cookie, !.localTieTag = t.tagLocal,
                          !.peerTieTag = m.initTag]
<1>1. m.initTag \in Tag /\ m.cookie \in Cookie
  BY DEF Packet, SimpleChunk
<1>2. t \in TCB /\ t.tagLocal \in TagOrZero /\ t.tagLocal # 0
  BY DEF GoodTCB, TCB, SoundTCB
<1>3. m.initTag \in TagOrZero /\ m.initTag # 0
  BY <1>1, BoundAssumption DEF Tag, TagOrZero
<1>4. i \in TCB /\ i.unacked = 0 /\ i.ups = 0 /\ i.tagLocal # 0
  <2>1. GoodTCB(i) /\ i.state = t.state /\ i.tagLocal = t.tagLocal
    BY <1>1, InitAssociationIsGood DEF InitStates
  <2>2. i.unacked = 0
    BY <1>2 DEF InitAssociation, TCB
  <2> QED
    BY <1>2, <2>1, <2>2 DEF GoodTCB, SoundTCB, InitStates
<1>5. CookieEchoed(t, m) = u
  BY DEF CookieEchoed
<1> HIDE DEF i
<1>6. u \in TCB
  <2>1. "COOKIE_ECHOED" \in States /\ TRUE \in BOOLEAN
    BY DEF States, InitStates
  <2> QED
    BY <1>1, <1>2, <1>3, <1>4, <2>1 DEF TCB
<1>7. /\ u.state = "COOKIE_ECHOED" /\ u.initTimer /\ u.unacked = 0 /\ u.ups = 0
      /\ u.tagLocal # 0 /\ u.localTieTag # 0 /\ u.peerTieTag # 0 /\ u.cookieChunk = m.cookie
  BY <1>2, <1>3, <1>4 DEF TCB
<1>8. SoundTCB(u)
  BY <1>1, <1>7 DEF SoundTCB, InitStates, DrainedStates
<1> QED
  BY <1>1, <1>5, <1>6, <1>7, <1>8 DEF GoodTCB

\* Entering ESTABLISHED with the timer stopped needs little: no second COMM_UP, a tag,
\* and chunks only where the modules exist.
LEMMA EstablishedIsGood ==
  ASSUME NEW t \in TCB, t.ups <= 1, t.tagLocal # 0, t.unacked > 0 => t.modules,
         t.state = "ESTABLISHED"
  PROVE  GoodTCB(t)
  BY DEF GoodTCB, SoundTCB, InitStates, DrainedStates

\* Cases B and D of section 5.2.4: COMM_UP only out of the two initial states.
LEMMA CookieOfPeerIsGood ==
  ASSUME NEW t, GoodTCB(t), t.state # "CLOSED", NEW peerTag \in Tag
  PROVE  GoodTCB(CookieOfPeer(t, peerTag))
<1> DEFINE base == IF t.state \in InitStates THEN CommUp(InitAssociation(t, peerTag)) ELSE t
           u == [base EXCEPT !.state = "ESTABLISHED", !.initTimer = FALSE,
                             !.tagRemote = peerTag]
<1>1. peerTag \in TagOrZero /\ "ESTABLISHED" \in States /\ FALSE \in BOOLEAN
  BY BoundAssumption DEF Tag, TagOrZero, States, DataStates
<1>2. base \in TCB /\ base.ups <= 1 /\ base.tagLocal # 0 /\ (base.unacked > 0 => base.modules)
  <2>1. CASE t.state \in InitStates
    <3> DEFINE i == InitAssociation(t, peerTag)
    <3>1. GoodTCB(i) /\ i.state = t.state /\ i.tagLocal = t.tagLocal
      BY <2>1, InitAssociationIsGood
    <3>2. i \in TCB /\ i.ups = 0 /\ i.tagLocal # 0 /\ (i.unacked > 0 => i.modules)
      BY <2>1, <3>1 DEF GoodTCB, SoundTCB
    <3>3. base = CommUp(i)
      BY <2>1
    <3> HIDE DEF i
    <3>4. base = [i EXCEPT !.ups = 1]
      BY <3>2, <3>3 DEF CommUp
    <3> HIDE DEF base
    <3> QED
      BY <3>2, <3>4 DEF TCB
  <2>2. CASE t.state \notin InitStates
    BY <2>2 DEF GoodTCB, SoundTCB
  <2> QED
    BY <2>1, <2>2
<1>3. CookieOfPeer(t, peerTag) = u
  BY DEF CookieOfPeer
<1> HIDE DEF base
<1>4. u \in TCB
  BY <1>1, <1>2 DEF TCB
<1>5. /\ u.ups = base.ups /\ u.tagLocal = base.tagLocal /\ u.unacked = base.unacked
      /\ u.modules = base.modules /\ u.state = "ESTABLISHED"
  BY <1>2 DEF TCB
<1> QED
  BY <1>2, <1>3, <1>4, <1>5, EstablishedIsGood

\* Case A: the restarted association has nothing outstanding.
LEMMA PeerRestartedIsGood ==
  ASSUME NEW t, GoodTCB(t), NEW cookie \in Cookie
  PROVE  GoodTCB(PeerRestarted(t, cookie))
<1> DEFINE r == RestartAssociation(t)
           u == [r EXCEPT !.state = "ESTABLISHED", !.tagLocal = cookie.localTag,
                          !.tagRemote = cookie.peerTag]
<1>1. /\ cookie.localTag \in TagOrZero /\ cookie.localTag # 0 /\ cookie.peerTag \in TagOrZero
      /\ "ESTABLISHED" \in States /\ FALSE \in BOOLEAN /\ 0 \in 0..MaxUnacked
  BY BoundAssumption DEF Cookie, Tag, TagOrZero, States, DataStates
<1>2. t \in TCB /\ t.ups <= 1
  BY DEF GoodTCB, SoundTCB
<1>3. r \in TCB /\ r.unacked = 0 /\ r.ups = t.ups
  BY <1>1, <1>2 DEF RestartAssociation, TCB
<1>4. PeerRestarted(t, cookie) = u
  BY DEF PeerRestarted
<1> HIDE DEF r
<1>5. u \in TCB
  BY <1>1, <1>3 DEF TCB
<1>6. /\ u.ups = r.ups /\ u.tagLocal = cookie.localTag /\ u.unacked = 0
      /\ u.state = "ESTABLISHED"
  BY <1>3 DEF TCB
<1> HIDE DEF u
<1>7. u.unacked > 0 => u.modules
  BY <1>6
<1> QED
  BY <1>1, <1>2, <1>3, <1>4, <1>5, <1>6, <1>7, EstablishedIsGood

-----------------------------------------------------------------------------
(* The shapes of a step *)

\* What the invariant says of the control block of a handler's endpoint.
LEMMA CurrentIsGood ==
  ASSUME ControlInv, NEW e \in Endpoint
  PROVE  GoodTCB(tcb[e]) /\ tcb[e] \in TCB
  BY DEF ControlInv, TypeOK, GoodTCB

\* A handler that writes a sound control block, and may draw tags.
LEMMA UpdateIsGood ==
  ASSUME ControlInv, NEW e \in Endpoint, NEW t, GoodTCB(t), Become(e, t),
         net' \subseteq Packet, nextTag' \in 1..(MaxTag + 1),
         UNCHANGED <<epoch, expired, past>>
  PROVE  ControlInv'
<1>1. tcb' \in [Endpoint -> TCB] /\ \A f \in Endpoint : SoundTCB(tcb'[f])
  BY BecomeIsGood
<1> QED
  BY <1>1 DEF ControlInv, TypeOK

\* A handler that ends the association.
LEMMA DeletionIsGood ==
  ASSUME ControlInv, NEW e \in Endpoint, NEW how \in Endings, Delete(e, how),
         net' \subseteq Packet, UNCHANGED <<nextTag, epoch, expired>>
  PROVE  ControlInv'
<1>1. /\ tcb' \in [Endpoint -> TCB] /\ \A f \in Endpoint : SoundTCB(tcb'[f])
      /\ past' \in [Endpoint -> [how : Endings, tagLocal : TagOrZero, tagRemote : TagOrZero]]
  BY DeleteIsGood
<1> QED
  BY <1>1 DEF ControlInv, TypeOK

\* A handler that only answers.
LEMMA AnswerIsGood ==
  ASSUME ControlInv, net' \subseteq Packet, nextTag' \in 1..(MaxTag + 1),
         expired' \subseteq Cookie, UNCHANGED <<tcb, epoch, past>>
  PROVE  ControlInv'
  BY DEF ControlInv, TypeOK

-----------------------------------------------------------------------------
(* Calls of the ULP *)

\* sctp_associate creates a control block that waits with its timer running.
LEMMA AssociateKeepsInv ==
  ASSUME ControlInv, NEW e \in Endpoint, Associate(e)
  PROVE  ControlInv'
<1> DEFINE t == [NewAssociation(nextTag) EXCEPT !.state = "COOKIE_WAIT", !.initTimer = TRUE]
<1>1. nextTag \in TagOrZero /\ nextTag # 0 /\ nextTag + 1 \in 1..(MaxTag + 1)
  BY BoundAssumption DEF Associate, ControlInv, TypeOK, TagOrZero
<1>2. NoTCB \in TCB
  BY NoTCBIsGood DEF GoodTCB
<1>3. t \in TCB
  <2>1. "COOKIE_WAIT" \in States /\ TRUE \in BOOLEAN
    BY DEF States, InitStates
  <2> QED
    BY <1>1, <1>2, <2>1 DEF NewAssociation, TCB
<1>4. /\ t.state = "COOKIE_WAIT" /\ t.initTimer /\ t.unacked = 0 /\ t.ups = 0
      /\ t.tagLocal = nextTag
  BY DEF NewAssociation, NoTCB
<1>5. GoodTCB(t)
  BY <1>1, <1>3, <1>4 DEF GoodTCB, SoundTCB, DrainedStates
<1>6. InitChunk(e, t) \in Packet
  BY <1>1, <1>3, <1>4, InitChunkIsPacket
<1>7. net' \subseteq Packet
  BY <1>6 DEF Associate, ControlInv, TypeOK
<1> QED
  BY <1>1, <1>5, <1>7, UpdateIsGood DEF Associate

\* sctp_shutdown either sends SHUTDOWN, with nothing outstanding, or waits for data.
LEMMA ShutdownKeepsInv ==
  ASSUME ControlInv, NEW e \in Endpoint, Shutdown(e)
  PROVE  ControlInv'
<1> DEFINE t == tcb[e]
<1>1. GoodTCB(t) /\ t \in TCB /\ t.state = "ESTABLISHED"
  BY CurrentIsGood DEF Shutdown
<1>2. t.tagLocal # 0 /\ t.ups <= 1 /\ (t.unacked > 0 => t.modules) /\ t.unacked \in Nat
  BY <1>1, BoundAssumption DEF GoodTCB, SoundTCB, TCB
<1>3. CASE ReadyForShutdown(t)
  <2> DEFINE u == [t EXCEPT !.state = "SHUTDOWNSENT", !.initTimer = TRUE,
                            !.initRetransCounter = 0]
  <2>1. Become(e, u) /\ net' = net \cup {Chunk(e, t, "SHUTDOWN")}
    BY <1>3 DEF Shutdown
  <2>2. u \in TCB
    BY <1>1 DEF TCB, States, DrainedStates
  <2>3. /\ u.state = "SHUTDOWNSENT" /\ u.initTimer /\ u.unacked = 0 /\ u.ups <= 1
        /\ u.tagLocal # 0
    BY <1>1, <1>2, <1>3 DEF TCB, ReadyForShutdown
  <2>4. GoodTCB(u)
    BY <2>2, <2>3 DEF GoodTCB, SoundTCB, InitStates
  <2>5. net' \subseteq Packet
    BY <1>1, <2>1, ChunkIsPacket DEF SimpleChunk, ControlInv, TypeOK
  <2> QED
    BY <2>1, <2>4, <2>5, UpdateIsGood DEF Shutdown, ControlInv, TypeOK
<1>4. CASE ~ReadyForShutdown(t)
  <2> DEFINE u == [RtxShutdown(t) EXCEPT !.state = "SHUTDOWNPENDING"]
  <2>1. Become(e, u) /\ net' = net
    BY <1>4 DEF Shutdown
  <2>2. u \in TCB
    BY <1>1 DEF RtxShutdown, TCB, States, DataStates
  <2>3. /\ u.state = "SHUTDOWNPENDING" /\ u.unacked > 0 /\ u.shutdownReceived /\ u.modules
        /\ u.ups <= 1 /\ u.tagLocal # 0
    BY <1>1, <1>2, <1>4 DEF RtxShutdown, TCB, ReadyForShutdown
  <2>4. GoodTCB(u)
    BY <2>2, <2>3 DEF GoodTCB, SoundTCB, InitStates, DrainedStates
  <2> QED
    BY <2>1, <2>4, UpdateIsGood DEF Shutdown, ControlInv, TypeOK
<1> QED
  BY <1>3, <1>4

\* sctp_abort.
LEMMA AbortKeepsInv ==
  ASSUME ControlInv, NEW e \in Endpoint, Abort(e)
  PROVE  ControlInv'
<1>1. net' \subseteq Packet
  BY CurrentIsGood, ChunkIsPacket DEF Abort, SimpleChunk, ControlInv, TypeOK
<1> QED
  BY <1>1, DeletionIsGood DEF Abort, Endings

\* sctp_send: never while a shutdown is in progress, and only with modules.
LEMMA SendKeepsInv ==
  ASSUME ControlInv, NEW e \in Endpoint, Send(e)
  PROVE  ControlInv'
<1> DEFINE t == tcb[e]
           u == [t EXCEPT !.unacked = t.unacked + 1]
<1>1. GoodTCB(t) /\ t \in TCB /\ t.state = "ESTABLISHED" /\ t.modules
  BY CurrentIsGood DEF Send
<1>2. t.unacked + 1 \in 0..MaxUnacked
  BY <1>1, BoundAssumption DEF Send, TCB
<1>3. u \in TCB
  BY <1>1, <1>2 DEF TCB
<1>4. /\ u.state = "ESTABLISHED" /\ u.ups = t.ups /\ u.tagLocal = t.tagLocal
      /\ u.modules = t.modules
  BY <1>1 DEF TCB
<1>5. t.ups <= 1 /\ t.tagLocal # 0
  BY <1>1 DEF GoodTCB, SoundTCB
<1>6. GoodTCB(u)
  BY <1>1, <1>3, <1>4, <1>5, EstablishedIsGood
<1>7. Become(e, u)
  BY DEF Send
<1> QED
  BY <1>6, <1>7, UpdateIsGood DEF Send, ControlInv, TypeOK

-----------------------------------------------------------------------------
(* Timers, failures and acknowledgements *)

\* Every chunk the timer repeats exists: the INIT has a tag, the cookie is stored.
LEMMA RepeatedIsPacket ==
  ASSUME NEW e \in Endpoint, NEW t, GoodTCB(t), t.state \in InitStates \cup DrainedStates
  PROVE  Repeated(e, t) \in Packet
<1>1. t \in TCB /\ t.tagLocal # 0
  BY DEF GoodTCB, SoundTCB, InitStates, DrainedStates
<1>2. CASE t.state = "COOKIE_WAIT"
  BY <1>1, <1>2, InitChunkIsPacket DEF Repeated
<1>3. CASE t.state = "COOKIE_ECHOED"
  BY <1>1, <1>3, CookieEchoIsPacket DEF Repeated, GoodTCB, SoundTCB
<1>4. CASE t.state \in DrainedStates
  BY <1>1, <1>4, ChunkIsPacket DEF Repeated, SimpleChunk, DrainedStates
<1> QED
  BY <1>2, <1>3, <1>4 DEF InitStates

\* sci_timer_expired.
LEMMA TimerKeepsInv ==
  ASSUME ControlInv, NEW e \in Endpoint, Timer(e)
  PROVE  ControlInv'
<1> DEFINE t == tcb[e]
<1>1. GoodTCB(t) /\ t \in TCB
  BY CurrentIsGood
<1>2. CASE TimerRetransmit(e)
  <2> DEFINE u == [t EXCEPT !.initRetransCounter = t.initRetransCounter + 1]
  <2>1. Become(e, u) /\ net' = net \cup {Repeated(e, t)}
    BY <1>2 DEF TimerRetransmit, CountRetransmit
  <2>2. u \in TCB
    BY <1>1 DEF TCB
  <2>3. /\ u.state = t.state /\ u.tagLocal = t.tagLocal /\ u.initTimer = t.initTimer
        /\ u.localTieTag = t.localTieTag /\ u.peerTieTag = t.peerTieTag
        /\ u.cookieChunk = t.cookieChunk /\ u.ups = t.ups /\ u.modules = t.modules
        /\ u.unacked = t.unacked /\ u.shutdownReceived = t.shutdownReceived
    BY <1>1 DEF TCB
  <2> HIDE DEF u
  <2>4. GoodTCB(u)
    BY <1>1, <2>2, <2>3 DEF GoodTCB, SoundTCB
  <2>5. net' \subseteq Packet
    BY <1>1, <1>2, <2>1, RepeatedIsPacket DEF TimerRetransmit, ControlInv, TypeOK
  <2> QED
    BY <1>2, <2>1, <2>4, <2>5, UpdateIsGood DEF TimerRetransmit, ControlInv, TypeOK
<1>3. CASE TimerGiveUp(e)
  BY <1>3, DeletionIsGood DEF TimerGiveUp, Endings, ControlInv, TypeOK
<1>4. CASE TimerUnexpected(e)
  <2> DEFINE u == [t EXCEPT !.initTimer = FALSE]
  <2>1. Become(e, u) /\ t.state \notin InitStates \cup DrainedStates
    BY <1>4 DEF TimerUnexpected
  <2>2. u \in TCB
    BY <1>1 DEF TCB
  <2>3. /\ u.state = t.state /\ u.tagLocal = t.tagLocal
        /\ u.ups = t.ups /\ u.modules = t.modules
        /\ u.unacked = t.unacked /\ u.shutdownReceived = t.shutdownReceived
    BY <1>1 DEF TCB
  <2> HIDE DEF u
  <2>4. GoodTCB(u)
    BY <1>1, <2>1, <2>2, <2>3 DEF GoodTCB, SoundTCB, InitStates, DrainedStates
  <2> QED
    BY <1>4, <2>1, <2>4, UpdateIsGood DEF TimerUnexpected, ControlInv, TypeOK
<1> QED
  BY <1>2, <1>3, <1>4 DEF Timer

\* The peer becomes unreachable.
LEMMA PathFailureKeepsInv ==
  ASSUME ControlInv, NEW e \in Endpoint, PathFailure(e)
  PROVE  ControlInv'
  BY DeletionIsGood DEF PathFailure, DataFailure, HeartbeatFailure, Endings, ControlInv, TypeOK

\* rtx_process_sack.
LEMMA ReceiveSackKeepsInv ==
  ASSUME ControlInv, NEW e \in Endpoint, ReceiveSack(e)
  PROVE  ControlInv'
<1> DEFINE t == tcb[e]
<1>1. GoodTCB(t) /\ t \in TCB /\ t.state \in DataStates
  BY CurrentIsGood DEF ReceiveSack
<1>2. PICK left \in 0..(t.unacked - 1) :
        /\ Become(e, Acknowledged(e, t, left).tcb)
        /\ net' = net \cup Acknowledged(e, t, left).out
  BY DEF ReceiveSack
<1>3. left \in 0..t.unacked
  BY <1>1, <1>2, BoundAssumption DEF TCB
<1>4. GoodTCB(Acknowledged(e, t, left).tcb) /\ Acknowledged(e, t, left).out \subseteq Packet
  BY <1>1, <1>3, AcknowledgedIsGood
<1>5. net' \subseteq Packet
  BY <1>2, <1>4 DEF ControlInv, TypeOK
<1> QED
  BY <1>2, <1>4, <1>5, UpdateIsGood DEF ReceiveSack, ControlInv, TypeOK

\* The end of a process.
LEMMA ProcessEndKeepsInv ==
  ASSUME ControlInv, NEW e \in Endpoint, ProcessEnds(e),
         net' \subseteq net, UNCHANGED <<nextTag, expired>>
  PROVE  ControlInv'
<1>1. tcb' \in [Endpoint -> TCB] /\ \A f \in Endpoint : SoundTCB(tcb'[f])
  BY NoTCBIsGood, BecomeIsGood DEF ProcessEnds
<1>2. epoch' \in [Endpoint -> 0..MaxCrashes]
  <2>1. epoch[e] + 1 \in 0..MaxCrashes
    BY BoundAssumption DEF ProcessEnds, ControlInv, TypeOK
  <2> QED
    BY <2>1 DEF ProcessEnds, ControlInv, TypeOK
<1>3. past' \in [Endpoint -> [how : Endings, tagLocal : TagOrZero, tagRemote : TagOrZero]]
  BY BoundAssumption DEF ProcessEnds, ControlInv, TypeOK, Endings, TagOrZero
<1> QED
  BY <1>1, <1>2, <1>3 DEF ControlInv, TypeOK

\* A crash.
LEMMA CrashKeepsInv ==
  ASSUME ControlInv, NEW e \in Endpoint, Crash(e)
  PROVE  ControlInv'
<1> QED
  BY ProcessEndKeepsInv DEF Crash

-----------------------------------------------------------------------------
(* Packets of the handshake *)

\* sctlr_init, in every state.
LEMMA ReceiveInitKeepsInv ==
  ASSUME ControlInv, NEW m \in net, NEW e \in Endpoint, ReceiveInit(e, m)
  PROVE  ControlInv'
<1> DEFINE t == tcb[e]
<1>1. /\ TypeOK /\ m \in Packet /\ net \subseteq Packet /\ GoodTCB(t) /\ t \in TCB
      /\ nextTag \in 1..(MaxTag + 1) /\ expired \subseteq Cookie
  BY CurrentIsGood DEF ControlInv, TypeOK
<1>2. /\ t.tagLocal \in TagOrZero /\ t.localTieTag \in TagOrZero /\ t.peerTieTag \in TagOrZero
      /\ 0 \in TagOrZero
  BY <1>1, BoundAssumption DEF TCB, TagOrZero
<1>3. CASE ReceiveInitNoTCB(e, m)
  <2>1. m.chunk = "INIT" /\ nextTag \in Tag /\ nextTag' \in 1..(MaxTag + 1)
    BY <1>1, <1>3, BoundAssumption DEF ReceiveInitNoTCB, Tag
  <2>2. InitAck(e, m, nextTag, 0, 0) \in Packet
    BY <1>1, <1>2, <2>1, InitAckIsPacket
  <2>3. net' \subseteq Packet
    BY <1>1, <1>3, <2>2, ConsumeIsTyped DEF ReceiveInitNoTCB
  <2> QED
    BY <1>1, <1>3, <2>1, <2>3, AnswerIsGood DEF ReceiveInitNoTCB
<1>4. CASE ReceiveInitCookieWait(e, m)
  <2>1. m.chunk = "INIT" /\ t.state = "COOKIE_WAIT"
    BY <1>4 DEF ReceiveInitCookieWait, InitAccepted
  <2>2. t.tagLocal \in Tag
    BY <1>1, <1>2, <2>1, BoundAssumption DEF GoodTCB, SoundTCB, Tag, TagOrZero
  <2>3. InitAck(e, m, t.tagLocal, 0, 0) \in Packet
    BY <1>1, <1>2, <2>1, <2>2, InitAckIsPacket
  <2>4. net' \subseteq Packet
    BY <1>1, <1>4, <2>3, ConsumeIsTyped DEF ReceiveInitCookieWait
  <2> QED
    BY <1>1, <1>4, <2>4, AnswerIsGood DEF ReceiveInitCookieWait
<1>5. CASE ReceiveInitCookieEchoed(e, m)
  <2> DEFINE u == [t EXCEPT !.localTieTag = nextTag, !.peerTieTag = nextTag + 1]
  <2>1. Become(e, u) /\ m.chunk = "INIT" /\ t.state = "COOKIE_ECHOED" /\ nextTag < MaxTag
    BY <1>5 DEF ReceiveInitCookieEchoed, InitAccepted
  <2>2. /\ nextTag \in TagOrZero /\ nextTag + 1 \in TagOrZero
        /\ nextTag # 0 /\ nextTag + 1 # 0 /\ nextTag + 2 \in 1..(MaxTag + 1)
    BY <1>1, <2>1, BoundAssumption DEF TagOrZero
  <2>3. u \in TCB
    BY <1>1, <2>2 DEF TCB
  <2>4. /\ u.state = t.state /\ u.tagLocal = t.tagLocal /\ u.initTimer = t.initTimer
        /\ u.ups = t.ups /\ u.modules = t.modules /\ u.unacked = t.unacked
        /\ u.shutdownReceived = t.shutdownReceived /\ u.cookieChunk = t.cookieChunk
        /\ u.localTieTag = nextTag /\ u.peerTieTag = nextTag + 1
    BY <1>1 DEF TCB
  <2> HIDE DEF u
  <2>5. GoodTCB(u)
    BY <1>1, <2>1, <2>2, <2>3, <2>4 DEF GoodTCB, SoundTCB, DrainedStates
  <2>6. t.tagLocal \in Tag
    BY <1>1, <1>2, <2>1, BoundAssumption DEF GoodTCB, SoundTCB, Tag, TagOrZero
  <2>7. InitAck(e, m, t.tagLocal, nextTag, nextTag + 1) \in Packet
    BY <1>1, <1>2, <2>1, <2>2, <2>6, InitAckIsPacket
  <2>8. net' \subseteq Packet
    BY <1>1, <1>5, <2>7, ConsumeIsTyped DEF ReceiveInitCookieEchoed
  <2> QED
    BY <1>5, <2>1, <2>2, <2>5, <2>8, UpdateIsGood DEF ReceiveInitCookieEchoed
<1>6. CASE ReceiveInitEstablished(e, m)
  <2>1. m.chunk = "INIT" /\ nextTag \in Tag /\ nextTag' \in 1..(MaxTag + 1)
    BY <1>1, <1>6, BoundAssumption DEF ReceiveInitEstablished, InitAccepted, Tag
  <2>2. InitAck(e, m, nextTag, t.localTieTag, t.peerTieTag) \in Packet
    BY <1>1, <1>2, <2>1, InitAckIsPacket
  <2>3. net' \subseteq Packet
    BY <1>1, <1>6, <2>2, ConsumeIsTyped DEF ReceiveInitEstablished
  <2> QED
    BY <1>1, <1>6, <2>1, <2>3, AnswerIsGood DEF ReceiveInitEstablished
<1>7. CASE ReceiveInitShutdownAckSent(e, m)
  <2>1. net' \subseteq Packet
    BY <1>1, <1>7, ChunkIsPacket, ConsumeIsTyped DEF ReceiveInitShutdownAckSent, SimpleChunk
  <2> QED
    BY <1>1, <1>7, <2>1, AnswerIsGood DEF ReceiveInitShutdownAckSent
<1>8. CASE ReceiveInitFatal(e, m)
  <2>1. net' \subseteq net
    BY <1>8 DEF ReceiveInitFatal, Consume
  <2> QED
    BY <1>8, <2>1, ProcessEndKeepsInv DEF ReceiveInitFatal
<1> QED
  BY <1>3, <1>4, <1>5, <1>6, <1>7, <1>8 DEF ReceiveInit

\* sctlr_initAck.
LEMMA ReceiveInitAckKeepsInv ==
  ASSUME ControlInv, NEW m \in net, NEW e \in Endpoint, ReceiveInitAck(e, m)
  PROVE  ControlInv'
<1> DEFINE t == CookieEchoed(tcb[e], m)
<1>1. /\ m \in Packet /\ net \subseteq Packet /\ GoodTCB(tcb[e])
      /\ nextTag \in 1..(MaxTag + 1)
  BY CurrentIsGood DEF ControlInv, TypeOK
<1>2. GoodTCB(t) /\ t.cookieChunk \in Cookie
  BY <1>1, CookieEchoedIsGood DEF ReceiveInitAck
<1>3. Become(e, t) /\ Consume(m, {CookieEcho(e, t)})
  BY DEF ReceiveInitAck
<1> HIDE DEF t
<1>4. net' \subseteq Packet
  BY <1>1, <1>2, <1>3, CookieEchoIsPacket, ConsumeIsTyped DEF GoodTCB
<1> QED
  BY <1>1, <1>2, <1>3, <1>4, UpdateIsGood DEF ReceiveInitAck

\* sctlr_cookieAck: COMM_UP for the first time.
LEMMA ReceiveCookieAckKeepsInv ==
  ASSUME ControlInv, NEW m \in net, NEW e \in Endpoint, ReceiveCookieAck(e, m)
  PROVE  ControlInv'
<1> DEFINE t == tcb[e]
           u == [t EXCEPT !.ups = 1, !.state = "ESTABLISHED", !.initTimer = FALSE,
                          !.cookieChunk = NoCookie]
<1>1. /\ m \in Packet /\ net \subseteq Packet /\ GoodTCB(t) /\ t \in TCB
      /\ nextTag \in 1..(MaxTag + 1)
  BY CurrentIsGood DEF ControlInv, TypeOK
<1>2. t.ups = 0 /\ t.tagLocal # 0 /\ (t.unacked > 0 => t.modules)
  BY <1>1 DEF ReceiveCookieAck, GoodTCB, SoundTCB, InitStates
<1>3. Become(e, u)
  BY <1>1, <1>2 DEF ReceiveCookieAck, CommUp, TCB
<1>4. u \in TCB
  <2>1. "ESTABLISHED" \in States /\ FALSE \in BOOLEAN /\ 1 \in 0..2
    BY DEF States, DataStates
  <2> QED
    BY <1>1, <2>1 DEF TCB
<1>5. /\ u.ups <= 1 /\ u.tagLocal = t.tagLocal /\ u.unacked = t.unacked
      /\ u.modules = t.modules /\ u.state = "ESTABLISHED"
  BY <1>1 DEF TCB
<1> HIDE DEF u
<1>6. GoodTCB(u)
  BY <1>2, <1>4, <1>5, EstablishedIsGood
<1>7. net' \subseteq Packet
  BY <1>1, ConsumeIsTyped DEF ReceiveCookieAck
<1> QED
  BY <1>1, <1>3, <1>6, <1>7, UpdateIsGood DEF ReceiveCookieAck

\* sctlr_staleCookie: the timer that guards COOKIE_ECHOED goes on in COOKIE_WAIT.
LEMMA ReceiveStaleCookieErrorKeepsInv ==
  ASSUME ControlInv, NEW m \in net, NEW e \in Endpoint, ReceiveStaleCookieError(e, m)
  PROVE  ControlInv'
<1> DEFINE t == tcb[e]
           u == [t EXCEPT !.state = "COOKIE_WAIT"]
<1>1. /\ m \in Packet /\ net \subseteq Packet /\ GoodTCB(t) /\ t \in TCB
      /\ nextTag \in 1..(MaxTag + 1) /\ t.state = "COOKIE_ECHOED"
  BY CurrentIsGood DEF ReceiveStaleCookieError, ControlInv, TypeOK
<1>2. u \in TCB
  BY <1>1 DEF TCB, States, InitStates
<1>3. /\ u.state = "COOKIE_WAIT" /\ u.tagLocal = t.tagLocal /\ u.initTimer = t.initTimer
      /\ u.ups = t.ups /\ u.unacked = t.unacked /\ u.modules = t.modules
  BY <1>1 DEF TCB
<1>4. Become(e, u) /\ Consume(m, {InitChunk(e, u)})
  BY DEF ReceiveStaleCookieError
<1> HIDE DEF u
<1>5. GoodTCB(u) /\ u.tagLocal # 0
  BY <1>1, <1>2, <1>3 DEF GoodTCB, SoundTCB, InitStates, DrainedStates
<1>6. net' \subseteq Packet
  BY <1>1, <1>2, <1>4, <1>5, InitChunkIsPacket, ConsumeIsTyped
<1> QED
  BY <1>1, <1>4, <1>5, <1>6, UpdateIsGood DEF ReceiveStaleCookieError

\* sctlr_cookie_echo, in every case of section 5.2.4.
LEMMA ReceiveCookieEchoKeepsInv ==
  ASSUME ControlInv, NEW m \in net, NEW e \in Endpoint, ReceiveCookieEcho(e, m)
  PROVE  ControlInv'
<1>1. /\ m \in Packet /\ net \subseteq Packet /\ GoodTCB(tcb[e]) /\ tcb[e] \in TCB
      /\ nextTag \in 1..(MaxTag + 1) /\ expired \subseteq Cookie
  BY CurrentIsGood DEF ControlInv, TypeOK
<1>2. m.chunk = "COOKIE_ECHO" /\ m.cookie \in Cookie
  BY <1>1
     DEF ReceiveCookieEcho, ReceiveCookieStale, ReceiveCookieNoTCB, ReceiveCookieKnown,
         ReceiveCookieRestart, ReceiveCookieShutdownAckSent, LooksLikeRestart,
         CookieAccepted, Packet, SimpleChunk
<1>3. /\ m.cookie.localTag \in Tag /\ m.cookie.peerTag \in Tag
      /\ m.cookie.localTag \in TagOrZero /\ m.cookie.localTag # 0
      /\ m.cookie.peerTag \in TagOrZero
  BY <1>2, BoundAssumption DEF Cookie, Tag, TagOrZero
<1>4. CASE ReceiveCookieStale(e, m)
  <2> DEFINE answer == [to |-> Peer(e), chunk |-> "STALE_COOKIE_ERROR",
                        vtag |-> IF tcb[e].state = "CLOSED" THEN m.cookie.peerTag
                                 ELSE tcb[e].tagRemote]
  <2>1. tcb[e].tagRemote \in TagOrZero
    BY <1>1 DEF TCB
  <2>2. answer \in Packet
    BY <1>3, <2>1, PeerIsEndpoint DEF Packet, SimpleChunk
  <2>3. Consume(m, {answer})
    BY <1>4 DEF ReceiveCookieStale
  <2> HIDE DEF answer
  <2>4. net' \subseteq Packet
    BY <1>1, <2>2, <2>3, ConsumeIsTyped
  <2>5. expired' \subseteq Cookie
    BY <1>1, <1>2, <1>4 DEF ReceiveCookieStale
  <2> QED
    BY <1>1, <1>4, <2>4, <2>5, AnswerIsGood DEF ReceiveCookieStale
<1>5. CASE ReceiveCookieNoTCB(e, m)
  <2> DEFINE t == [CommUp(InitAssociation(NewAssociation(m.cookie.localTag),
                                          m.cookie.peerTag))
                     EXCEPT !.state = "ESTABLISHED"]
             u == [NoTCB EXCEPT !.tagLocal = m.cookie.localTag, !.tagRemote = m.cookie.peerTag,
                                !.modules = TRUE, !.unacked = 0, !.shutdownReceived = FALSE,
                                !.ups = 1, !.state = "ESTABLISHED"]
  <2>1. t = u
    BY DEF CommUp, InitAssociation, NewAssociation, NoTCB
  <2>2. NoTCB \in TCB /\ "ESTABLISHED" \in States
        /\ 1 \in 0..2 /\ 0 \in 0..MaxUnacked /\ TRUE \in BOOLEAN /\ FALSE \in BOOLEAN
    BY NoTCBIsGood, BoundAssumption DEF GoodTCB, States, DataStates
  <2>3. u \in TCB
    BY <1>3, <2>2 DEF TCB
  <2>4. /\ u.ups <= 1 /\ u.tagLocal # 0 /\ u.unacked = 0 /\ u.modules
        /\ u.state = "ESTABLISHED"
    BY <1>3 DEF NoTCB
  <2>5. Become(e, t) /\ Consume(m, {Chunk(e, t, "COOKIE_ACK")})
    BY <1>5 DEF ReceiveCookieNoTCB
  <2> HIDE DEF t, u
  <2>6. GoodTCB(u)
    BY <2>3, <2>4, EstablishedIsGood
  <2>7. net' \subseteq Packet
    BY <1>1, <2>1, <2>3, <2>5, ChunkIsPacket, ConsumeIsTyped DEF SimpleChunk
  <2> QED
    BY <1>1, <1>5, <2>1, <2>5, <2>6, <2>7, UpdateIsGood DEF ReceiveCookieNoTCB
<1>6. CASE ReceiveCookieKnown(e, m)
  <2> DEFINE t == CookieOfPeer(tcb[e], m.cookie.peerTag)
  <2>1. Become(e, t) /\ Consume(m, {Chunk(e, t, "COOKIE_ACK")}) /\ tcb[e].state # "CLOSED"
    BY <1>6 DEF ReceiveCookieKnown
  <2>2. GoodTCB(t)
    BY <1>1, <1>3, <2>1, CookieOfPeerIsGood
  <2> HIDE DEF t
  <2>3. net' \subseteq Packet
    BY <1>1, <2>1, <2>2, ChunkIsPacket, ConsumeIsTyped DEF SimpleChunk, GoodTCB
  <2> QED
    BY <1>1, <1>6, <2>1, <2>2, <2>3, UpdateIsGood DEF ReceiveCookieKnown
<1>7. CASE ReceiveCookieRestart(e, m)
  <2> DEFINE t == PeerRestarted(tcb[e], m.cookie)
  <2>1. Become(e, t) /\ Consume(m, {Chunk(e, t, "COOKIE_ACK")})
    BY <1>7 DEF ReceiveCookieRestart
  <2>2. GoodTCB(t)
    BY <1>1, <1>2, PeerRestartedIsGood
  <2> HIDE DEF t
  <2>3. net' \subseteq Packet
    BY <1>1, <2>1, <2>2, ChunkIsPacket, ConsumeIsTyped DEF SimpleChunk, GoodTCB
  <2> QED
    BY <1>1, <1>7, <2>1, <2>2, <2>3, UpdateIsGood DEF ReceiveCookieRestart
<1>8. CASE ReceiveCookieShutdownAckSent(e, m)
  <2>1. net' \subseteq Packet
    BY <1>1, <1>8, ChunkIsPacket, ConsumeIsTyped DEF ReceiveCookieShutdownAckSent, SimpleChunk
  <2> QED
    BY <1>1, <1>8, <2>1, AnswerIsGood DEF ReceiveCookieShutdownAckSent
<1> QED
  BY <1>4, <1>5, <1>6, <1>7, <1>8 DEF ReceiveCookieEcho

-----------------------------------------------------------------------------
(* Packets of the shutdown, and all others *)

\* sctlr_shutdown in the states it handles, with the acknowledgement it carries.
LEMMA ReceiveShutdownKeepsInv ==
  ASSUME ControlInv, NEW m \in net, NEW e \in Endpoint, ReceiveShutdown(e, m)
  PROVE  ControlInv'
<1>1. /\ m \in Packet /\ net \subseteq Packet /\ GoodTCB(tcb[e]) /\ tcb[e] \in TCB
      /\ nextTag \in 1..(MaxTag + 1)
  BY CurrentIsGood DEF ControlInv, TypeOK
<1>2. CASE ReceiveShutdownEstablished(e, m)
  <2>1. PICK left \in 0..tcb[e].unacked :
          LET t == [tcb[e] EXCEPT !.unacked = left]
          IN  IF ReadyForShutdown(t)
              THEN /\ Become(e, [t EXCEPT !.state = "SHUTDOWNACKSENT", !.initTimer = TRUE])
                   /\ Consume(m, {Chunk(e, t, "SHUTDOWN_ACK")})
              ELSE /\ Become(e, [RtxShutdown(t) EXCEPT !.state = "SHUTDOWNRECEIVED"])
                   /\ Consume(m, {})
    BY <1>2 DEF ReceiveShutdownEstablished
  <2> DEFINE t == [tcb[e] EXCEPT !.unacked = left]
  <2>2. /\ t \in TCB /\ t.unacked = left /\ t.ups = tcb[e].ups /\ t.tagLocal = tcb[e].tagLocal
        /\ t.modules = tcb[e].modules
    BY <1>1, BoundAssumption DEF TCB
  <2>3. /\ t.ups <= 1 /\ t.tagLocal # 0 /\ (t.unacked > 0 => t.modules) /\ t.unacked \in Nat
    BY <1>1, <1>2, <2>2, BoundAssumption
       DEF GoodTCB, SoundTCB, ReceiveShutdownEstablished, TCB
  <2>4. /\ ReadyForShutdown(t) =>
              /\ Become(e, [t EXCEPT !.state = "SHUTDOWNACKSENT", !.initTimer = TRUE])
              /\ Consume(m, {Chunk(e, t, "SHUTDOWN_ACK")})
        /\ ~ReadyForShutdown(t) =>
              /\ Become(e, [RtxShutdown(t) EXCEPT !.state = "SHUTDOWNRECEIVED"])
              /\ Consume(m, {})
    BY <2>1
  <2> HIDE DEF t
  <2>5. CASE ReadyForShutdown(t)
    <3> DEFINE u == [t EXCEPT !.state = "SHUTDOWNACKSENT", !.initTimer = TRUE]
    <3>1. u \in TCB
      BY <2>2 DEF TCB, States, DrainedStates
    <3>2. /\ u.state = "SHUTDOWNACKSENT" /\ u.initTimer /\ u.unacked = 0 /\ u.ups <= 1
          /\ u.tagLocal # 0
      BY <2>2, <2>3, <2>5 DEF TCB, ReadyForShutdown
    <3>3. GoodTCB(u)
      BY <3>1, <3>2 DEF GoodTCB, SoundTCB, InitStates
    <3>4. net' \subseteq Packet
      BY <1>1, <2>2, <2>4, <2>5, ChunkIsPacket, ConsumeIsTyped DEF SimpleChunk
    <3> QED
      BY <1>1, <1>2, <2>4, <2>5, <3>3, <3>4, UpdateIsGood DEF ReceiveShutdownEstablished
  <2>6. CASE ~ReadyForShutdown(t)
    <3> DEFINE u == [RtxShutdown(t) EXCEPT !.state = "SHUTDOWNRECEIVED"]
    <3>1. u \in TCB
      BY <2>2 DEF RtxShutdown, TCB, States, DataStates
    <3>2. /\ u.state = "SHUTDOWNRECEIVED" /\ u.ups <= 1 /\ u.tagLocal # 0
          /\ (u.unacked > 0 => u.modules)
      BY <2>2, <2>3 DEF RtxShutdown, TCB
    <3>3. GoodTCB(u)
      BY <3>1, <3>2 DEF GoodTCB, SoundTCB, InitStates, DrainedStates
    <3>4. net' \subseteq Packet
      BY <1>1, <2>4, <2>6, ConsumeIsTyped
    <3> QED
      BY <1>1, <1>2, <2>4, <2>6, <3>3, <3>4, UpdateIsGood DEF ReceiveShutdownEstablished
  <2> QED
    BY <2>5, <2>6
<1>3. CASE ReceiveShutdownSent(e, m)
  <2> DEFINE t == tcb[e]
             u == [t EXCEPT !.state = "SHUTDOWNACKSENT", !.initTimer = TRUE]
  <2>1. t.state = "SHUTDOWNSENT" /\ t.unacked = 0 /\ t.ups <= 1 /\ t.tagLocal # 0
    BY <1>1, <1>3 DEF ReceiveShutdownSent, GoodTCB, SoundTCB, DrainedStates
  <2>2. Become(e, u) /\ Consume(m, {Chunk(e, t, "SHUTDOWN_ACK")})
    BY <1>3, <2>1 DEF ReceiveShutdownSent, ReadyForShutdown
  <2>3. u \in TCB
    BY <1>1 DEF TCB, States, DrainedStates
  <2>4. /\ u.state = "SHUTDOWNACKSENT" /\ u.initTimer /\ u.unacked = 0 /\ u.ups <= 1
        /\ u.tagLocal # 0
    BY <1>1, <2>1 DEF TCB
  <2>5. GoodTCB(u)
    BY <2>3, <2>4 DEF GoodTCB, SoundTCB, InitStates
  <2>6. net' \subseteq Packet
    BY <1>1, <2>2, ChunkIsPacket, ConsumeIsTyped DEF SimpleChunk
  <2> QED
    BY <1>1, <1>3, <2>2, <2>5, <2>6, UpdateIsGood DEF ReceiveShutdownSent
<1>4. CASE ReceiveShutdownAgain(e, m)
  <2> DEFINE t == tcb[e]
  <2>1. PICK left \in 0..t.unacked, waited \in BOOLEAN :
          /\ Become(e, [ShutdownCtsna(e, t, left, waited).tcb EXCEPT !.state = t.state])
          /\ Consume(m, ShutdownCtsna(e, t, left, waited).out)
    BY <1>4 DEF ReceiveShutdownAgain
  <2> DEFINE r == ShutdownCtsna(e, t, left, waited)
             u == [r.tcb EXCEPT !.state = t.state]
  <2>2. t.state \in {"SHUTDOWNRECEIVED", "SHUTDOWNACKSENT"} /\ GoodTCB(t)
    BY <1>1, <1>4 DEF ReceiveShutdownAgain
  <2>3. /\ r.tcb \in TCB /\ r.out \subseteq Packet
        /\ r.tcb.unacked = left /\ r.tcb.ups = t.ups
        /\ r.tcb.tagLocal = t.tagLocal /\ r.tcb.modules = t.modules
        /\ t.state = "SHUTDOWNACKSENT" => r.tcb.initTimer = t.initTimer
    BY <1>1, <2>2, ShutdownCtsnaIsTyped
  <2>4. Become(e, u) /\ Consume(m, r.out)
    BY <2>1
  <2> HIDE DEF r
  <2>5. /\ u \in TCB /\ u.state = t.state /\ u.initTimer = r.tcb.initTimer
        /\ u.unacked = left /\ u.ups = t.ups /\ u.tagLocal = t.tagLocal
        /\ u.modules = t.modules
    BY <2>2, <2>3 DEF TCB, GoodTCB
  <2> HIDE DEF u
  <2>6. left > 0 => t.unacked > 0 /\ t.state # "SHUTDOWNACKSENT"
    BY <2>2 DEF GoodTCB, SoundTCB, DrainedStates, TCB
  <2>7. GoodTCB(u)
    BY <2>2, <2>3, <2>5, <2>6 DEF GoodTCB, SoundTCB, InitStates, DrainedStates, TCB
  <2>8. net' \subseteq Packet
    BY <1>1, <2>3, <2>4, ConsumeIsTyped
  <2> QED
    BY <1>1, <1>4, <2>4, <2>7, <2>8, UpdateIsGood DEF ReceiveShutdownAgain
<1> QED
  BY <1>2, <1>3, <1>4 DEF ReceiveShutdown

\* The packets that end an association.
LEMMA ReceiveEndKeepsInv ==
  ASSUME ControlInv, NEW m \in net, NEW e \in Endpoint,
         ReceiveShutdownAck(e, m) \/ ReceiveShutdownComplete(e, m) \/ ReceiveAbort(e, m)
  PROVE  ControlInv'
<1>1. m \in Packet /\ net \subseteq Packet /\ tcb[e] \in TCB
  BY CurrentIsGood DEF ControlInv, TypeOK
<1>2. CASE ReceiveShutdownAck(e, m)
  <2>1. net' \subseteq Packet
    BY <1>1, <1>2, ChunkIsPacket, ConsumeIsTyped DEF ReceiveShutdownAck, SimpleChunk
  <2> QED
    BY <1>2, <2>1, DeletionIsGood DEF ReceiveShutdownAck, Endings
<1>3. CASE ReceiveShutdownComplete(e, m)
  <2>1. net' \subseteq Packet
    BY <1>1, <1>3, ConsumeIsTyped DEF ReceiveShutdownComplete
  <2> QED
    BY <1>3, <2>1, DeletionIsGood DEF ReceiveShutdownComplete, Endings
<1>4. CASE ReceiveAbort(e, m)
  <2>1. net' \subseteq Packet
    BY <1>1, <1>4, ConsumeIsTyped DEF ReceiveAbort
  <2> QED
    BY <1>4, <2>1, DeletionIsGood DEF ReceiveAbort, Endings
<1> QED
  BY <1>2, <1>3, <1>4

\* The packets that are answered or dropped without touching an association.
LEMMA ReceiveOtherKeepsInv ==
  ASSUME ControlInv, NEW m \in net, NEW e \in Endpoint,
         ReceiveShutdownAckInit(e, m) \/ ReceiveOOTB(e, m) \/ Discard(e, m)
  PROVE  ControlInv'
<1>1. /\ m \in Packet /\ net \subseteq Packet /\ tcb[e] \in TCB
      /\ nextTag \in 1..(MaxTag + 1) /\ expired \subseteq Cookie
  BY CurrentIsGood DEF ControlInv, TypeOK
<1>2. /\ Reflected(e, m, "SHUTDOWN_COMPLETE") \in Packet
      /\ Reflected(e, m, "ABORT") \in Packet
  <2>1. m.vtag \in TagOrZero
    BY <1>1 DEF Packet
  <2> QED
    BY <2>1, PeerIsEndpoint DEF Reflected, Packet, SimpleChunk
<1>3. Chunk(e, tcb[e], "SHUTDOWN_COMPLETE") \in Packet
  BY <1>1, ChunkIsPacket DEF SimpleChunk
<1>4. net' \subseteq Packet
  BY <1>1, <1>2, <1>3, ConsumeIsTyped DEF ReceiveShutdownAckInit, ReceiveOOTB, Discard
<1>5. UNCHANGED <<tcb, nextTag, epoch, expired, past>>
  BY DEF ReceiveShutdownAckInit, ReceiveOOTB, Discard
<1> QED
  BY <1>1, <1>4, <1>5, AnswerIsGood

-----------------------------------------------------------------------------
(* The theorems *)

\* No association at the start, hence nothing to break.
LEMMA InitEstablishesInv == Init => ControlInv
<1> SUFFICES ASSUME Init PROVE ControlInv
  OBVIOUS
<1>1. NoTCB \in TCB /\ SoundTCB(NoTCB)
  BY NoTCBIsGood DEF GoodTCB
<1>2. TypeOK
  BY <1>1, BoundAssumption DEF Init, TypeOK, Endings, TagOrZero
<1> QED
  BY <1>1, <1>2 DEF Init, ControlInv

\* Every step of the library, of its ULPs and of the environment keeps the invariant.
LEMMA NextKeepsInv == ControlInv /\ [Next]_vars => ControlInv'
<1> SUFFICES ASSUME ControlInv, [Next]_vars PROVE ControlInv'
  OBVIOUS
<1>1. CASE UNCHANGED vars
  BY <1>1 DEF vars, ControlInv, TypeOK
<1>2. ASSUME NEW e \in Endpoint, Call(e)
      PROVE  ControlInv'
  BY <1>2, AssociateKeepsInv, ShutdownKeepsInv, AbortKeepsInv, SendKeepsInv DEF Call
<1>3. ASSUME NEW e \in Endpoint,
             Timer(e) \/ PathFailure(e) \/ ReceiveSack(e) \/ Crash(e)
      PROVE  ControlInv'
  BY <1>3, TimerKeepsInv, PathFailureKeepsInv, ReceiveSackKeepsInv, CrashKeepsInv
<1>4. ASSUME NEW m \in net, Receive(m.to, m)
      PROVE  ControlInv'
  <2>1. m.to \in Endpoint
    BY DEF ControlInv, TypeOK, Packet
  <2> QED
    BY <1>4, <2>1, ReceiveInitKeepsInv, ReceiveInitAckKeepsInv, ReceiveCookieEchoKeepsInv,
       ReceiveCookieAckKeepsInv, ReceiveStaleCookieErrorKeepsInv, ReceiveShutdownKeepsInv,
       ReceiveEndKeepsInv, ReceiveOtherKeepsInv DEF Receive
<1> QED
  BY <1>1, <1>2, <1>3, <1>4 DEF Next

\* For any number of tags, retransmissions, chunks and crashes, every reachable control
\* block is well-typed and sound.
THEOREM ControlInvariant == Spec => []ControlInv
<1> QED
  BY InitEstablishesInv, NextKeepsInv, PTL DEF Spec

\* Type correctness: above all, no count of chunks leaves its range and no packet is
\* built from a tag or a cookie that is not there.
THEOREM TypeCorrect == Spec => []TypeOK
<1>1. ControlInv => TypeOK
  BY DEF ControlInv
<1> QED
  BY <1>1, ControlInvariant, PTL

\* The T1 and T2 timers are never stopped while their answer is awaited, whatever packets
\* cross, and whatever a restart leaves behind.
THEOREM WaitsAreGuarded == Spec => []TimerGuardsWait
<1>1. ControlInv => TimerGuardsWait
  BY DEF ControlInv, SoundTCB, TimerGuardsWait
<1> QED
  BY <1>1, ControlInvariant, PTL

\* SHUTDOWN and SHUTDOWN ACK mean that nothing is outstanding, however many chunks there
\* were.
THEOREM ShutdownDrains == Spec => []DrainedBeforeShutdown
<1>1. ControlInv => DrainedBeforeShutdown
  BY DEF ControlInv, SoundTCB, DrainedBeforeShutdown
<1> QED
  BY <1>1, ControlInvariant, PTL

\* SHUTDOWNPENDING always has the event it waits for ahead of it.
THEOREM PendingIsWokenUp == Spec => []PendingHasData
<1>1. ControlInv => PendingHasData
  BY DEF ControlInv, SoundTCB, PendingHasData
<1> QED
  BY <1>1, ControlInvariant, PTL

\* COOKIE_ECHOED never exists without its tie tags.
THEOREM CollisionsAreSeen == Spec => []TieTagsEchoed
<1>1. ControlInv => TieTagsEchoed
  BY DEF ControlInv, SoundTCB, TieTagsEchoed
<1> QED
  BY <1>1, ControlInvariant, PTL

\* The ULP gets one COMM_UP per association.
THEOREM UpOnce == Spec => []OneCommUp
<1>1. ControlInv => OneCommUp
  BY DEF ControlInv, SoundTCB, OneCommUp
<1> QED
  BY <1>1, ControlInvariant, PTL
-----------------------------------------------------------------------------
(* What a step means for the handshake: the tags, who is up, and the packets *)
(* that set an association up.                                               *)

Up(t) == t.state \notin InitStates \cup {"CLOSED"}

Handshake == {"INIT", "INIT_ACK", "COOKIE_ECHO", "COOKIE_ACK", "STALE_COOKIE_ERROR"}

\* No packet of a handshake is new but those in out.
Sends(out) == \A m \in net' : m \in net \/ m \in out \/ m.chunk \notin Handshake

\* Nothing that a handshake depends on is different in u.
Keeps(t, u) ==
  /\ u.tagLocal = t.tagLocal /\ u.tagRemote = t.tagRemote
  /\ \/ Up(t) /\ Up(u)
     \/ u.state = t.state /\ u.cookieChunk = t.cookieChunk

\* The chunk a handshake repeats.
Repeats(e) ==
  {m \in {InitChunk(e, tcb[e])} : tcb[e].state = "COOKIE_WAIT"}
  \cup {m \in {CookieEcho(e, tcb[e])} : tcb[e].state = "COOKIE_ECHOED"}

Stays(e) ==
  /\ \A f \in Endpoint : Keeps(tcb[f], tcb'[f])
  /\ nextTag' = nextTag /\ Sends(Repeats(e))

\* An INIT is answered: with the own tag during a handshake, with a new one otherwise.
Answers(e) ==
  \E m \in net, local \in Tag, localTie \in TagOrZero, peerTie \in TagOrZero :
    /\ m.to = e /\ m.chunk = "INIT"
    /\ \A f \in Endpoint : Keeps(tcb[f], tcb'[f])
    /\ Sends({InitAck(e, m, local, localTie, peerTie)})
    /\ \/ tcb[e].state \in InitStates /\ local = tcb[e].tagLocal /\ nextTag' >= nextTag
       \/ tcb[e].state \notin InitStates /\ local = nextTag /\ nextTag' = nextTag + 1
    /\ tcb[e].state = "CLOSED" => localTie = 0

Opens(e) ==
  \E t \in TCB :
    /\ e \in Initiator /\ tcb[e].state = "CLOSED"
    /\ t.state = "COOKIE_WAIT" /\ t.tagLocal = nextTag /\ nextTag' = nextTag + 1
    /\ Become(e, t) /\ Sends({InitChunk(e, t)})

Echoes(e) ==
  \E m \in net, t \in TCB :
    /\ m.to = e /\ m.chunk = "INIT_ACK" /\ m.vtag = tcb[e].tagLocal
    /\ tcb[e].state = "COOKIE_WAIT" /\ t.state = "COOKIE_ECHOED"
    /\ t.tagLocal = tcb[e].tagLocal /\ t.tagRemote = m.initTag /\ t.cookieChunk = m.cookie
    /\ Become(e, t) /\ nextTag' = nextTag /\ Sends({CookieEcho(e, t)})

Confirmed(e) ==
  \E m \in net, t \in TCB :
    /\ m.to = e /\ m.chunk = "COOKIE_ACK" /\ tcb[e].state = "COOKIE_ECHOED"
    /\ Up(t) /\ t.tagLocal = tcb[e].tagLocal /\ t.tagRemote = tcb[e].tagRemote
    /\ Become(e, t) /\ nextTag' = nextTag /\ Sends({})

\* A cookie is accepted: without an association, as the own one, or as a restart.
Accepts(e) ==
  \E m \in net, t \in TCB :
    /\ m.to = e /\ m.chunk = "COOKIE_ECHO"
    /\ Up(t) /\ t.tagLocal = m.cookie.localTag /\ t.tagRemote = m.cookie.peerTag
    /\ \/ tcb[e].state = "CLOSED"
       \/ m.cookie.localTag = tcb[e].tagLocal
       \/ /\ m.cookie.localTag # tcb[e].tagLocal /\ m.cookie.peerTag # tcb[e].tagRemote
          /\ m.cookie.localTieTag = tcb[e].localTieTag
    /\ Become(e, t) /\ nextTag' = nextTag /\ Sends({Chunk(e, t, "COOKIE_ACK")})

\* The association is over, or its process is.
Ends(e) ==
  /\ Become(e, NoTCB) /\ nextTag' = nextTag /\ Sends({})
  /\ past'[e].how # "NONE" \/ epoch'[e] # 0

TagStep(e) ==
  /\ expired' = expired
  /\ \/ /\ UNCHANGED <<epoch, past>>
        /\ \/ Stays(e) \/ Answers(e) \/ Opens(e) \/ Echoes(e) \/ Confirmed(e) \/ Accepts(e)
     \/ Ends(e)

\* There are two ends, each the peer of the other.
LEMMA TwoEnds ==
  \A e \in Endpoint :
    /\ Peer(e) \in Endpoint /\ Peer(e) # e /\ Peer(Peer(e)) = e
    /\ \A f \in Endpoint : f = e \/ f = Peer(e)
<1>1. PICK a \in Endpoint, b \in Endpoint : a # b /\ Endpoint = {a, b}
  BY EndpointAssumption
<1>2. Peer(a) = b /\ Peer(b) = a
  BY <1>1 DEF Peer
<1> QED
  BY <1>1, <1>2

\* What a handler sends when it has consumed its packet.
LEMMA ConsumeSends ==
  ASSUME NEW m, NEW out, NEW new, Consume(m, out),
         \A p \in out : p \in new \/ p.chunk \notin Handshake
  PROVE  Sends(new)
  BY DEF Consume, Sends

\* Packets are only added.
LEMMA AddSends ==
  ASSUME NEW out, NEW new, net' = net \cup out,
         \A p \in out : p \in new \/ p.chunk \notin Handshake
  PROVE  Sends(new)
  BY DEF Sends

\* Whoever may send nothing may also repeat.
LEMMA QuietSends ==
  ASSUME NEW new, Sends({})
  PROVE  Sends(new)
  BY DEF Sends

\* One control block is written, and nothing of it that a handshake depends on.
LEMMA WriteIsStep ==
  ASSUME ControlInv, NEW e \in Endpoint, NEW t, Become(e, t), Keeps(tcb[e], t),
         nextTag' = nextTag, Sends(Repeats(e)), UNCHANGED <<epoch, expired, past>>
  PROVE  TagStep(e)
<1>1. \A f \in Endpoint : Keeps(tcb[f], tcb'[f])
  BY DEF ControlInv, TypeOK, Become, Keeps
<1> QED
  BY <1>1 DEF TagStep, Stays

\* None is written.
LEMMA AnswerIsStep ==
  ASSUME ControlInv, NEW e \in Endpoint, nextTag' = nextTag, Sends({}),
         UNCHANGED <<tcb, epoch, expired, past>>
  PROVE  TagStep(e)
<1>1. \A f \in Endpoint : Keeps(tcb[f], tcb'[f])
  BY DEF Keeps
<1> QED
  BY <1>1, QuietSends DEF TagStep, Stays

\* The association is deleted.
LEMMA DeleteIsStep ==
  ASSUME ControlInv, NEW e \in Endpoint, NEW how, how # "NONE", Delete(e, how),
         nextTag' = nextTag, Sends({}), UNCHANGED <<epoch, expired>>
  PROVE  TagStep(e)
<1>1. past'[e].how = how
  BY DEF Delete, ControlInv, TypeOK
<1> QED
  BY <1>1 DEF TagStep, Ends, Delete

-----------------------------------------------------------------------------
(* Every step of the library is one of these *)

\* sctp_associate, sctp_shutdown, sctp_abort and sctp_send.
LEMMA CallIsStep ==
  ASSUME ControlInv, NEW e \in Endpoint, Call(e)
  PROVE  TagStep(e)
<1> DEFINE t == tcb[e]
<1>1. t \in TCB /\ nextTag \in 1..(MaxTag + 1)
  BY CurrentIsGood DEF ControlInv, TypeOK
<1>2. CASE Associate(e)
  <2> DEFINE u == [NewAssociation(nextTag) EXCEPT !.state = "COOKIE_WAIT", !.initTimer = TRUE]
  <2>1. /\ e \in Initiator /\ t.state = "CLOSED" /\ nextTag \in Tag /\ nextTag' = nextTag + 1
        /\ Become(e, u) /\ net' = net \cup {InitChunk(e, u)} /\ UNCHANGED <<epoch, expired, past>>
    BY <1>1, <1>2, BoundAssumption DEF Associate, Tag
  <2>2. u \in TCB /\ u.state = "COOKIE_WAIT" /\ u.tagLocal = nextTag
    <3>1. nextTag \in TagOrZero /\ "COOKIE_WAIT" \in States /\ TRUE \in BOOLEAN
      BY <2>1, BoundAssumption DEF Tag, TagOrZero, States, InitStates
    <3>2. NoTCB \in TCB
      BY NoTCBIsGood DEF GoodTCB
    <3> QED
      BY <3>1, <3>2 DEF NewAssociation, TCB
  <2>3. Sends({InitChunk(e, u)})
    BY <2>1 DEF Sends
  <2> HIDE DEF u
  <2> QED
    BY <2>1, <2>2, <2>3 DEF TagStep, Opens
<1>3. CASE Shutdown(e)
  <2> DEFINE a == [t EXCEPT !.state = "SHUTDOWNSENT", !.initTimer = TRUE,
                            !.initRetransCounter = 0]
             b == [RtxShutdown(t) EXCEPT !.state = "SHUTDOWNPENDING"]
  <2>1. /\ t.state = "ESTABLISHED" /\ nextTag' = nextTag /\ UNCHANGED <<epoch, expired, past>>
        /\ \/ Become(e, a) /\ net' = net \cup {Chunk(e, t, "SHUTDOWN")}
           \/ Become(e, b) /\ net' = net
    BY <1>3 DEF Shutdown
  <2>2. Keeps(t, a) /\ Keeps(t, b)
    BY <1>1, <2>1 DEF Keeps, Up, InitStates, RtxShutdown, TCB
  <2>3. Chunk(e, t, "SHUTDOWN").chunk \notin Handshake
    BY DEF Chunk, Handshake
  <2>4. Sends(Repeats(e))
    BY <2>1, <2>3 DEF Sends
  <2> HIDE DEF a, b
  <2> QED
    BY <2>1, <2>2, <2>4, WriteIsStep
<1>4. CASE Abort(e)
  <2>1. /\ Delete(e, "COMM_LOST") /\ UNCHANGED <<epoch, expired>> /\ nextTag' = nextTag
        /\ net' = net \cup {Chunk(e, t, "ABORT")}
    BY <1>4 DEF Abort
  <2>2. Sends({})
    BY <2>1 DEF Sends, Chunk, Handshake
  <2> QED
    BY <2>1, <2>2, DeleteIsStep
<1>5. CASE Send(e)
  <2> DEFINE a == [t EXCEPT !.unacked = t.unacked + 1]
  <2>1. /\ Become(e, a) /\ net' = net /\ nextTag' = nextTag /\ UNCHANGED <<epoch, expired, past>>
    BY <1>5 DEF Send
  <2>2. Keeps(t, a)
    BY <1>1 DEF Keeps, TCB
  <2>3. Sends(Repeats(e))
    BY <2>1 DEF Sends
  <2> HIDE DEF a
  <2> QED
    BY <2>1, <2>2, <2>3, WriteIsStep
<1> QED
  BY <1>2, <1>3, <1>4, <1>5 DEF Call

\* The timers.
LEMMA TimerIsStep ==
  ASSUME ControlInv, NEW e \in Endpoint, Timer(e)
  PROVE  TagStep(e)
<1> DEFINE t == tcb[e]
<1>1. t \in TCB
  BY CurrentIsGood
<1>2. CASE TimerRetransmit(e)
  <2> DEFINE a == [t EXCEPT !.initRetransCounter = t.initRetransCounter + 1]
  <2>1. /\ t.state \in InitStates \cup DrainedStates
        /\ Become(e, a) /\ net' = net \cup {Repeated(e, t)}
        /\ nextTag' = nextTag /\ UNCHANGED <<epoch, expired, past>>
    BY <1>2 DEF TimerRetransmit, CountRetransmit
  <2>2. Keeps(t, a)
    BY <1>1 DEF Keeps, TCB
  <2>3. Repeated(e, t) \in Repeats(e) \/ Repeated(e, t).chunk \notin Handshake
    <3>1. CASE t.state \in InitStates
      BY <3>1 DEF Repeated, Repeats, InitStates
    <3>2. CASE t.state \in DrainedStates
      BY <3>2 DEF Repeated, DrainedStates, Chunk, Handshake
    <3> QED
      BY <2>1, <3>1, <3>2
  <2>4. Sends(Repeats(e))
    BY <2>1, <2>3, AddSends
  <2> HIDE DEF a
  <2> QED
    BY <2>1, <2>2, <2>4, WriteIsStep
<1>3. CASE TimerGiveUp(e)
  <2>1. Delete(e, "COMM_LOST") /\ UNCHANGED <<net, nextTag, epoch, expired>>
    BY <1>3 DEF TimerGiveUp
  <2>2. Sends({})
    BY <2>1 DEF Sends
  <2> QED
    BY <2>1, <2>2, DeleteIsStep
<1>4. CASE TimerUnexpected(e)
  <2> DEFINE a == [t EXCEPT !.initTimer = FALSE]
  <2>1. Become(e, a) /\ UNCHANGED <<net, nextTag, epoch, expired, past>>
    BY <1>4 DEF TimerUnexpected
  <2>2. Keeps(t, a)
    BY <1>1 DEF Keeps, TCB
  <2>3. Sends(Repeats(e))
    BY <2>1 DEF Sends
  <2> HIDE DEF a
  <2> QED
    BY <2>1, <2>2, <2>3, WriteIsStep
<1> QED
  BY <1>2, <1>3, <1>4 DEF Timer

\* The end of a process.
LEMMA ProcessEndIsStep ==
  ASSUME ControlInv, NEW e \in Endpoint, ProcessEnds(e), Sends({}),
         UNCHANGED <<nextTag, expired>>
  PROVE  TagStep(e)
<1>1. Become(e, NoTCB) /\ epoch' = [epoch EXCEPT ![e] = epoch[e] + 1]
  BY DEF ProcessEnds
<1>2. epoch \in [Endpoint -> 0..MaxCrashes]
  BY DEF ControlInv, TypeOK
<1>3. epoch[e] \in Nat /\ epoch'[e] = epoch[e] + 1
  BY <1>1, <1>2, BoundAssumption
<1>4. epoch'[e] # 0
  BY <1>3
<1> QED
  BY <1>1, <1>4 DEF TagStep, Ends

\* An unreachable peer, and a crash.
LEMMA FailureIsStep ==
  ASSUME ControlInv, NEW e \in Endpoint, PathFailure(e) \/ Crash(e)
  PROVE  TagStep(e)
<1>1. CASE PathFailure(e)
  <2>1. Delete(e, "COMM_LOST") /\ UNCHANGED <<net, nextTag, epoch, expired>>
    BY <1>1 DEF PathFailure, DataFailure, HeartbeatFailure
  <2>2. Sends({})
    BY <2>1 DEF Sends
  <2> QED
    BY <2>1, <2>2, DeleteIsStep
<1>2. CASE Crash(e)
  <2>1. ProcessEnds(e) /\ UNCHANGED <<net, nextTag, expired>>
    BY <1>2 DEF Crash
  <2>2. Sends({})
    BY <2>1 DEF Sends
  <2> QED
    BY <2>1, <2>2, ProcessEndIsStep
<1> QED
  BY <1>1, <1>2

\* sci_allChunksAcked leaves an association up and sends chunks of a shutdown.
LEMMA AllChunksAckedKeeps ==
  ASSUME NEW e, NEW t \in TCB, Up(t)
  PROVE  /\ Keeps(t, AllChunksAcked(e, t).tcb)
         /\ \A p \in AllChunksAcked(e, t).out : p.chunk \notin Handshake
<1>1. CASE t.state = "SHUTDOWNPENDING"
  <2> DEFINE u == [t EXCEPT !.state = "SHUTDOWNSENT", !.initTimer = TRUE,
                            !.initRetransCounter = 0]
  <2>1. AllChunksAcked(e, t) = [tcb |-> u, out |-> {Chunk(e, t, "SHUTDOWN")}]
    BY <1>1 DEF AllChunksAcked
  <2>2. Keeps(t, u)
    BY DEF Keeps, Up, TCB, InitStates
  <2> HIDE DEF u
  <2> QED
    BY <2>1, <2>2 DEF Chunk, Handshake
<1>2. CASE t.state = "SHUTDOWNRECEIVED"
  <2> DEFINE u == [t EXCEPT !.state = "SHUTDOWNACKSENT", !.initTimer = TRUE]
  <2>1. AllChunksAcked(e, t) = [tcb |-> u, out |-> {Chunk(e, t, "SHUTDOWN_ACK")}]
    BY <1>2 DEF AllChunksAcked
  <2>2. Keeps(t, u)
    BY DEF Keeps, Up, TCB, InitStates
  <2> HIDE DEF u
  <2> QED
    BY <2>1, <2>2 DEF Chunk, Handshake
<1>3. CASE t.state \notin {"SHUTDOWNPENDING", "SHUTDOWNRECEIVED"}
  <2>1. AllChunksAcked(e, t) = [tcb |-> t, out |-> {}]
    BY <1>3 DEF AllChunksAcked
  <2> QED
    BY <2>1 DEF Keeps
<1> QED
  BY <1>1, <1>2, <1>3

\* So do the acknowledgements that lead to it.
LEMMA AcknowledgedKeeps ==
  ASSUME NEW e, NEW t \in TCB, Up(t), NEW left \in 0..MaxUnacked, NEW waited \in BOOLEAN,
         NEW r, r = Acknowledged(e, t, left) \/ r = ShutdownCtsna(e, t, left, waited)
  PROVE  Keeps(t, r.tcb) /\ Up(r.tcb) /\ \A p \in r.out : p.chunk \notin Handshake
<1> DEFINE a == [t EXCEPT !.unacked = left]
<1>1. /\ a \in TCB /\ Up(a) /\ a.tagLocal = t.tagLocal /\ a.tagRemote = t.tagRemote
  BY DEF TCB, Up
<1>2. r = AllChunksAcked(e, a) \/ r = [tcb |-> a, out |-> {}]
  BY DEF Acknowledged, ShutdownCtsna
<1>3. CASE r = [tcb |-> a, out |-> {}]
  <2> HIDE DEF a
  <2> QED
    BY <1>1, <1>3 DEF Keeps
<1>4. CASE r = AllChunksAcked(e, a)
  <2> HIDE DEF a
  <2>1. Keeps(a, r.tcb) /\ \A p \in r.out : p.chunk \notin Handshake
    BY <1>1, <1>4, AllChunksAckedKeeps
  <2> QED
    BY <1>1, <2>1 DEF Keeps, Up
<1> QED
  BY <1>2, <1>3, <1>4

\* rtx_process_sack.
LEMMA ReceiveSackIsStep ==
  ASSUME ControlInv, NEW e \in Endpoint, ReceiveSack(e)
  PROVE  TagStep(e)
<1> DEFINE t == tcb[e]
<1>1. t \in TCB /\ Up(t)
  BY CurrentIsGood DEF ReceiveSack, Up, DataStates, InitStates
<1>2. PICK left \in 0..(t.unacked - 1) :
        /\ Become(e, Acknowledged(e, t, left).tcb)
        /\ net' = net \cup Acknowledged(e, t, left).out
  BY DEF ReceiveSack
<1> DEFINE r == Acknowledged(e, t, left)
<1>3. left \in 0..MaxUnacked
  BY <1>1, <1>2, BoundAssumption DEF TCB
<1>4. Keeps(t, r.tcb) /\ \A p \in r.out : p.chunk \notin Handshake
  BY <1>1, <1>3, AcknowledgedKeeps
<1>5. Become(e, r.tcb) /\ net' = net \cup r.out
  BY <1>2
<1> HIDE DEF r
<1>6. Sends(Repeats(e))
  BY <1>4, <1>5, AddSends
<1>7. nextTag' = nextTag /\ UNCHANGED <<epoch, expired, past>>
  BY DEF ReceiveSack
<1> QED
  BY <1>4, <1>5, <1>6, <1>7, WriteIsStep

\* sctlr_shutdown.
LEMMA ReceiveShutdownIsStep ==
  ASSUME ControlInv, NEW m \in net, NEW e \in Endpoint, ReceiveShutdown(e, m)
  PROVE  TagStep(e)
<1>1. tcb[e] \in TCB
  BY CurrentIsGood
<1>2. nextTag' = nextTag /\ UNCHANGED <<epoch, expired, past>>
  BY DEF ReceiveShutdown, ReceiveShutdownEstablished, ReceiveShutdownSent, ReceiveShutdownAgain
<1>3. CASE ReceiveShutdownEstablished(e, m)
  <2>1. PICK left \in 0..tcb[e].unacked :
          LET t == [tcb[e] EXCEPT !.unacked = left]
          IN  IF ReadyForShutdown(t)
              THEN /\ Become(e, [t EXCEPT !.state = "SHUTDOWNACKSENT", !.initTimer = TRUE])
                   /\ Consume(m, {Chunk(e, t, "SHUTDOWN_ACK")})
              ELSE /\ Become(e, [RtxShutdown(t) EXCEPT !.state = "SHUTDOWNRECEIVED"])
                   /\ Consume(m, {})
    BY <1>3 DEF ReceiveShutdownEstablished
  <2> DEFINE t == [tcb[e] EXCEPT !.unacked = left]
             a == [t EXCEPT !.state = "SHUTDOWNACKSENT", !.initTimer = TRUE]
             b == [RtxShutdown(t) EXCEPT !.state = "SHUTDOWNRECEIVED"]
  <2>2. \/ Become(e, a) /\ Consume(m, {Chunk(e, t, "SHUTDOWN_ACK")})
        \/ Become(e, b) /\ Consume(m, {})
    BY <2>1
  <2>3. t \in TCB /\ t.tagLocal = tcb[e].tagLocal /\ t.tagRemote = tcb[e].tagRemote
    BY <1>1, BoundAssumption DEF TCB
  <2>4. Up(tcb[e])
    BY <1>3 DEF ReceiveShutdownEstablished, Up, InitStates
  <2> HIDE DEF t
  <2>5. Keeps(tcb[e], a) /\ Keeps(tcb[e], b)
    BY <2>3, <2>4 DEF Keeps, Up, InitStates, RtxShutdown, TCB
  <2>6. Chunk(e, t, "SHUTDOWN_ACK").chunk \notin Handshake
    BY DEF Chunk, Handshake
  <2>7. Sends(Repeats(e))
    BY <2>2, <2>6, ConsumeSends
  <2> HIDE DEF a, b
  <2> QED
    BY <1>2, <2>2, <2>5, <2>7, WriteIsStep
<1>4. CASE ReceiveShutdownSent(e, m)
  <2> DEFINE t == tcb[e]
             a == [t EXCEPT !.state = "SHUTDOWNACKSENT", !.initTimer = TRUE]
  <2>1. \/ Become(e, a) /\ Consume(m, {Chunk(e, t, "SHUTDOWN_ACK")})
        \/ UNCHANGED tcb /\ Consume(m, {})
    BY <1>4 DEF ReceiveShutdownSent
  <2>2. Keeps(t, a)
    BY <1>1, <1>4 DEF ReceiveShutdownSent, Keeps, Up, InitStates, TCB
  <2>3. Chunk(e, t, "SHUTDOWN_ACK").chunk \notin Handshake
    BY DEF Chunk, Handshake
  <2>4. Sends(Repeats(e))
    BY <2>1, <2>3, ConsumeSends
  <2>5. UNCHANGED tcb /\ Consume(m, {}) => Sends({})
    BY ConsumeSends
  <2> HIDE DEF a
  <2> QED
    BY <1>2, <2>1, <2>2, <2>4, <2>5, WriteIsStep, AnswerIsStep
<1>5. CASE ReceiveShutdownAgain(e, m)
  <2> DEFINE t == tcb[e]
  <2>1. PICK left \in 0..t.unacked, waited \in BOOLEAN :
          /\ Become(e, [ShutdownCtsna(e, t, left, waited).tcb EXCEPT !.state = t.state])
          /\ Consume(m, ShutdownCtsna(e, t, left, waited).out)
    BY <1>5 DEF ReceiveShutdownAgain
  <2> DEFINE r == ShutdownCtsna(e, t, left, waited)
             u == [r.tcb EXCEPT !.state = t.state]
  <2>2. t.state \in {"SHUTDOWNRECEIVED", "SHUTDOWNACKSENT"} /\ GoodTCB(t) /\ Up(t)
    BY <1>5, CurrentIsGood DEF ReceiveShutdownAgain, Up, InitStates
  <2>3. left \in 0..MaxUnacked
    BY <1>1, BoundAssumption DEF TCB
  <2>4. r.tcb \in TCB
    BY <2>2, ShutdownCtsnaIsTyped
  <2>5. Keeps(t, r.tcb) /\ \A p \in r.out : p.chunk \notin Handshake
    BY <1>1, <2>2, <2>3, AcknowledgedKeeps
  <2>6. Become(e, u) /\ Consume(m, r.out)
    BY <2>1
  <2> HIDE DEF r
  <2>7. Keeps(t, u)
    BY <2>2, <2>4, <2>5 DEF Keeps, Up, TCB, InitStates
  <2>8. Sends(Repeats(e))
    BY <2>5, <2>6, ConsumeSends
  <2> HIDE DEF u
  <2> QED
    BY <1>2, <2>6, <2>7, <2>8, WriteIsStep
<1> QED
  BY <1>3, <1>4, <1>5 DEF ReceiveShutdown

\* The packets that end an association.
LEMMA ReceiveEndIsStep ==
  ASSUME ControlInv, NEW m \in net, NEW e \in Endpoint,
         ReceiveShutdownAck(e, m) \/ ReceiveShutdownComplete(e, m) \/ ReceiveAbort(e, m)
  PROVE  TagStep(e)
<1>1. Chunk(e, tcb[e], "SHUTDOWN_COMPLETE").chunk \notin Handshake
  BY DEF Chunk, Handshake
<1>2. Sends({})
  BY <1>1, ConsumeSends DEF ReceiveShutdownAck, ReceiveShutdownComplete, ReceiveAbort
<1>3. /\ Delete(e, "SHUTDOWN_COMPLETE") \/ Delete(e, "COMM_LOST")
      /\ UNCHANGED <<nextTag, epoch, expired>>
  BY DEF ReceiveShutdownAck, ReceiveShutdownComplete, ReceiveAbort
<1> QED
  BY <1>2, <1>3, DeleteIsStep

\* The packets that are answered or dropped without touching an association.
LEMMA ReceiveOtherIsStep ==
  ASSUME ControlInv, NEW m \in net, NEW e \in Endpoint,
         ReceiveShutdownAckInit(e, m) \/ ReceiveOOTB(e, m) \/ Discard(e, m)
  PROVE  TagStep(e)
<1>1. /\ Chunk(e, tcb[e], "SHUTDOWN_COMPLETE").chunk \notin Handshake
      /\ Reflected(e, m, "SHUTDOWN_COMPLETE").chunk \notin Handshake
      /\ Reflected(e, m, "ABORT").chunk \notin Handshake
  BY DEF Chunk, Reflected, Handshake
<1>2. Sends({})
  BY <1>1, ConsumeSends DEF ReceiveShutdownAckInit, ReceiveOOTB, Discard
<1>3. UNCHANGED <<tcb, nextTag, epoch, expired, past>>
  BY DEF ReceiveShutdownAckInit, ReceiveOOTB, Discard
<1> QED
  BY <1>2, <1>3, AnswerIsStep

\* sctlr_init.
LEMMA ReceiveInitIsStep ==
  ASSUME ControlInv, NEW m \in net, NEW e \in Endpoint, m.to = e, ReceiveInit(e, m)
  PROVE  TagStep(e)
<1> DEFINE t == tcb[e]
<1>0. CASE ReceiveInitFatal(e, m)
  <2>1. Sends({})
    BY <1>0, ConsumeSends DEF ReceiveInitFatal
  <2> QED
    BY <1>0, <2>1, ProcessEndIsStep DEF ReceiveInitFatal
<1> SUFFICES ASSUME ~ReceiveInitFatal(e, m) PROVE TagStep(e)
  BY <1>0
<1>1. /\ t \in TCB /\ GoodTCB(t) /\ nextTag \in 1..(MaxTag + 1)
      /\ UNCHANGED <<epoch, expired, past>>
  BY CurrentIsGood
     DEF ControlInv, TypeOK, ReceiveInit, ReceiveInitNoTCB, ReceiveInitCookieWait,
         ReceiveInitCookieEchoed, ReceiveInitEstablished, ReceiveInitShutdownAckSent
<1>2. \A f \in Endpoint : UNCHANGED tcb => Keeps(tcb[f], tcb'[f])
  BY DEF Keeps
<1>3. 0 \in TagOrZero /\ t.localTieTag \in TagOrZero /\ t.peerTieTag \in TagOrZero
  BY <1>1, BoundAssumption DEF TCB, TagOrZero
<1>4. CASE ReceiveInitNoTCB(e, m)
  <2>1. /\ t.state = "CLOSED" /\ nextTag \in Tag /\ nextTag' = nextTag + 1 /\ UNCHANGED tcb
        /\ m.chunk = "INIT" /\ Consume(m, {InitAck(e, m, nextTag, 0, 0)})
    BY <1>1, <1>4, BoundAssumption DEF ReceiveInitNoTCB, Tag
  <2>2. Sends({InitAck(e, m, nextTag, 0, 0)})
    BY <2>1, ConsumeSends
  <2> QED
    BY <1>1, <1>2, <1>3, <2>1, <2>2 DEF TagStep, Answers, InitStates
<1>5. CASE ReceiveInitCookieWait(e, m)
  <2>1. /\ t.state = "COOKIE_WAIT" /\ nextTag' = nextTag /\ UNCHANGED tcb /\ m.chunk = "INIT"
        /\ Consume(m, {InitAck(e, m, t.tagLocal, 0, 0)})
    BY <1>5 DEF ReceiveInitCookieWait, InitAccepted
  <2>2. Sends({InitAck(e, m, t.tagLocal, 0, 0)})
    BY <2>1, ConsumeSends
  <2>3. t.tagLocal \in Tag
    BY <1>1, <2>1, BoundAssumption DEF GoodTCB, SoundTCB, TCB, Tag, TagOrZero
  <2>4. nextTag' >= nextTag /\ t.state \in InitStates
    BY <1>1, <2>1, BoundAssumption DEF InitStates
  <2> QED
    BY <1>1, <1>2, <1>3, <2>1, <2>2, <2>3, <2>4 DEF TagStep, Answers
<1>6. CASE ReceiveInitCookieEchoed(e, m)
  <2> DEFINE u == [t EXCEPT !.localTieTag = nextTag, !.peerTieTag = nextTag + 1]
  <2>1. /\ t.state = "COOKIE_ECHOED" /\ nextTag' = nextTag + 2 /\ Become(e, u)
        /\ m.chunk = "INIT" /\ nextTag < MaxTag
        /\ Consume(m, {InitAck(e, m, t.tagLocal, nextTag, nextTag + 1)})
    BY <1>6 DEF ReceiveInitCookieEchoed, InitAccepted
  <2>2. Sends({InitAck(e, m, t.tagLocal, nextTag, nextTag + 1)})
    BY <2>1, ConsumeSends
  <2>3. Keeps(t, u)
    BY <1>1 DEF Keeps, TCB
  <2> HIDE DEF u
  <2>4. \A f \in Endpoint : Keeps(tcb[f], tcb'[f])
    BY <2>1, <2>3 DEF ControlInv, TypeOK, Become, Keeps
  <2>5. t.tagLocal \in Tag
    BY <1>1, <2>1, BoundAssumption DEF GoodTCB, SoundTCB, TCB, Tag, TagOrZero
  <2>6. /\ nextTag' >= nextTag /\ t.state \in InitStates
        /\ nextTag \in TagOrZero /\ nextTag + 1 \in TagOrZero
    BY <1>1, <2>1, BoundAssumption DEF InitStates, TagOrZero
  <2> QED
    BY <1>1, <2>1, <2>2, <2>4, <2>5, <2>6 DEF TagStep, Answers
<1>7. CASE ReceiveInitEstablished(e, m)
  <2>1. /\ t.state \notin InitStates \cup {"CLOSED"} /\ nextTag' = nextTag + 1 /\ UNCHANGED tcb
        /\ nextTag \in Tag /\ m.chunk = "INIT"
        /\ Consume(m, {InitAck(e, m, nextTag, t.localTieTag, t.peerTieTag)})
    BY <1>1, <1>7, BoundAssumption
       DEF ReceiveInitEstablished, InitAccepted, Tag, DataStates, InitStates
  <2>2. Sends({InitAck(e, m, nextTag, t.localTieTag, t.peerTieTag)})
    BY <2>1, ConsumeSends
  <2> QED
    BY <1>1, <1>2, <1>3, <2>1, <2>2 DEF TagStep, Answers
<1>8. CASE ReceiveInitShutdownAckSent(e, m)
  <2>1. UNCHANGED <<tcb, nextTag>> /\ Consume(m, {Chunk(e, t, "SHUTDOWN_ACK")})
    BY <1>8 DEF ReceiveInitShutdownAckSent
  <2>2. Sends({})
    BY <2>1, ConsumeSends DEF Chunk, Handshake
  <2> QED
    BY <1>1, <2>1, <2>2, AnswerIsStep
<1> QED
  BY <1>4, <1>5, <1>6, <1>7, <1>8 DEF ReceiveInit

\* sctlr_initAck.
LEMMA ReceiveInitAckIsStep ==
  ASSUME ControlInv, NEW m \in net, NEW e \in Endpoint, m.to = e, ReceiveInitAck(e, m)
  PROVE  TagStep(e)
<1> DEFINE t == CookieEchoed(tcb[e], m)
<1>1. m \in Packet /\ GoodTCB(tcb[e]) /\ tcb[e] \in TCB
  BY CurrentIsGood DEF ControlInv, TypeOK
<1>2. /\ m.chunk = "INIT_ACK" /\ tcb[e].state = "COOKIE_WAIT" /\ m.vtag = tcb[e].tagLocal
      /\ Become(e, t) /\ Consume(m, {CookieEcho(e, t)})
      /\ UNCHANGED <<nextTag, epoch, expired, past>>
  BY DEF ReceiveInitAck
<1>3. t \in TCB
  BY <1>1, <1>2, CookieEchoedIsGood DEF GoodTCB
<1>4. /\ t.state = "COOKIE_ECHOED" /\ t.tagLocal = tcb[e].tagLocal /\ t.tagRemote = m.initTag
      /\ t.cookieChunk = m.cookie
  BY <1>1 DEF CookieEchoed, InitAssociation, TCB
<1> HIDE DEF t
<1>5. Sends({CookieEcho(e, t)})
  BY <1>2, ConsumeSends
<1> QED
  BY <1>2, <1>3, <1>4, <1>5 DEF TagStep, Echoes

\* sctlr_cookieAck.
LEMMA ReceiveCookieAckIsStep ==
  ASSUME ControlInv, NEW m \in net, NEW e \in Endpoint, m.to = e, ReceiveCookieAck(e, m)
  PROVE  TagStep(e)
<1> DEFINE u == [CommUp(tcb[e]) EXCEPT !.state = "ESTABLISHED", !.initTimer = FALSE,
                                       !.cookieChunk = NoCookie]
<1>1. tcb[e] \in TCB
  BY CurrentIsGood
<1>2. /\ m.chunk = "COOKIE_ACK" /\ tcb[e].state = "COOKIE_ECHOED" /\ Become(e, u)
      /\ Consume(m, {}) /\ UNCHANGED <<nextTag, epoch, expired, past>>
  BY DEF ReceiveCookieAck
<1>3. CommUp(tcb[e]) \in TCB /\ CommUp(tcb[e]).tagLocal = tcb[e].tagLocal
      /\ CommUp(tcb[e]).tagRemote = tcb[e].tagRemote
  BY <1>1 DEF CommUp, TCB
<1>4. /\ u \in TCB /\ Up(u) /\ u.tagLocal = tcb[e].tagLocal /\ u.tagRemote = tcb[e].tagRemote
  BY <1>3 DEF TCB, Up, States, DataStates, InitStates
<1> HIDE DEF u
<1>5. Sends({})
  BY <1>2, ConsumeSends
<1> QED
  BY <1>2, <1>4, <1>5 DEF TagStep, Confirmed

\* mdi_initAssociation stores the peer's tag.
LEMMA InitAssociationTags ==
  ASSUME NEW t \in TCB, NEW remote \in TagOrZero
  PROVE  /\ InitAssociation(t, remote) \in TCB
         /\ InitAssociation(t, remote).tagLocal = t.tagLocal
         /\ InitAssociation(t, remote).tagRemote = remote
<1>1. 0 \in 0..MaxUnacked
  BY BoundAssumption
<1> QED
  BY <1>1 DEF InitAssociation, TCB

\* sctlr_cookie_echo with a cookie that is accepted.
LEMMA ReceiveCookieEchoIsStep ==
  ASSUME ControlInv, NEW m \in net, NEW e \in Endpoint, m.to = e, ReceiveCookieEcho(e, m),
         expired' = {}
  PROVE  TagStep(e)
<1> DEFINE t == tcb[e]
           c == m.cookie
<1>1. m \in Packet /\ GoodTCB(t) /\ t \in TCB
  BY CurrentIsGood DEF ControlInv, TypeOK
<1>2. ~ReceiveCookieStale(e, m)
  BY DEF ReceiveCookieStale
<1>3. m.chunk = "COOKIE_ECHO" /\ UNCHANGED <<nextTag, epoch, expired, past>>
  BY <1>2 DEF ReceiveCookieEcho, ReceiveCookieNoTCB, ReceiveCookieKnown, ReceiveCookieRestart,
              ReceiveCookieShutdownAckSent, LooksLikeRestart, CookieAccepted
<1>4. c \in Cookie /\ c.localTag \in TagOrZero /\ c.peerTag \in Tag /\ c.peerTag \in TagOrZero
  BY <1>1, <1>3, BoundAssumption DEF Packet, SimpleChunk, Cookie, Tag, TagOrZero
<1>5. ASSUME NEW u \in TCB, Up(u), u.tagLocal = c.localTag, u.tagRemote = c.peerTag,
             Become(e, u), Consume(m, {Chunk(e, u, "COOKIE_ACK")}),
             \/ t.state = "CLOSED" \/ c.localTag = t.tagLocal \/ LooksLikeRestart(e, m)
      PROVE  TagStep(e)
  <2>1. Sends({Chunk(e, u, "COOKIE_ACK")})
    BY <1>5, ConsumeSends
  <2> QED
    BY <1>3, <1>5, <2>1 DEF TagStep, Accepts, LooksLikeRestart
<1>6. CASE ReceiveCookieNoTCB(e, m)
  <2> DEFINE a == [NoTCB EXCEPT !.tagLocal = c.localTag]
             b == InitAssociation(a, c.peerTag)
             u == [CommUp(b) EXCEPT !.state = "ESTABLISHED"]
  <2>1. /\ t.state = "CLOSED" /\ Become(e, u) /\ Consume(m, {Chunk(e, u, "COOKIE_ACK")})
    BY <1>6 DEF ReceiveCookieNoTCB, NewAssociation
  <2>2. a \in TCB /\ a.tagLocal = c.localTag
    BY <1>4, NoTCBIsGood DEF GoodTCB, TCB
  <2> HIDE DEF a
  <2>3. b \in TCB /\ b.tagLocal = c.localTag /\ b.tagRemote = c.peerTag
    BY <1>4, <2>2, InitAssociationTags
  <2> HIDE DEF b
  <2>4. CommUp(b) \in TCB /\ CommUp(b).tagLocal = c.localTag /\ CommUp(b).tagRemote = c.peerTag
    BY <2>3 DEF CommUp, TCB
  <2>5. u \in TCB /\ Up(u) /\ u.tagLocal = c.localTag /\ u.tagRemote = c.peerTag
    BY <2>4 DEF TCB, Up, States, DataStates, InitStates
  <2> HIDE DEF u
  <2> QED
    BY <1>5, <2>1, <2>5
<1>7. CASE ReceiveCookieKnown(e, m)
  <2> DEFINE u == CookieOfPeer(t, c.peerTag)
  <2>1. /\ t.state # "CLOSED" /\ c.localTag = t.tagLocal
        /\ Become(e, u) /\ Consume(m, {Chunk(e, u, "COOKIE_ACK")})
    BY <1>7 DEF ReceiveCookieKnown, OwnCookie
  <2>2. GoodTCB(u)
    BY <1>1, <1>4, <2>1, CookieOfPeerIsGood
  <2>3. u.state = "ESTABLISHED" /\ u.tagLocal = t.tagLocal /\ u.tagRemote = c.peerTag
    <3> DEFINE i == InitAssociation(t, c.peerTag)
    <3>1. i \in TCB /\ i.tagLocal = t.tagLocal
      BY <1>1, <1>4, InitAssociationTags
    <3> DEFINE base == IF t.state \in InitStates THEN CommUp(i) ELSE t
    <3>2. u = [base EXCEPT !.state = "ESTABLISHED", !.initTimer = FALSE,
                           !.tagRemote = c.peerTag]
      BY DEF CookieOfPeer
    <3>3. CommUp(i) \in TCB /\ CommUp(i).tagLocal = t.tagLocal
      <4> HIDE DEF i
      <4> QED
        BY <3>1 DEF CommUp, TCB
    <3>4. base \in TCB /\ base.tagLocal = t.tagLocal
      BY <1>1, <3>3
    <3> HIDE DEF base, u
    <3> QED
      BY <3>2, <3>4 DEF TCB
  <2> HIDE DEF u
  <2>4. u \in TCB /\ Up(u)
    BY <2>2, <2>3 DEF GoodTCB, Up, InitStates
  <2> QED
    BY <1>5, <2>1, <2>3, <2>4
<1>8. CASE ReceiveCookieRestart(e, m)
  <2> DEFINE u == PeerRestarted(t, c)
  <2>1. /\ LooksLikeRestart(e, m)
        /\ Become(e, u) /\ Consume(m, {Chunk(e, u, "COOKIE_ACK")})
    BY <1>8 DEF ReceiveCookieRestart
  <2>2. GoodTCB(u)
    BY <1>1, <1>4, PeerRestartedIsGood
  <2>3. u.state = "ESTABLISHED" /\ u.tagLocal = c.localTag /\ u.tagRemote = c.peerTag
    BY <1>1 DEF PeerRestarted, RestartAssociation, TCB
  <2> HIDE DEF u
  <2>4. u \in TCB /\ Up(u)
    BY <2>2, <2>3 DEF GoodTCB, Up, InitStates
  <2> QED
    BY <1>5, <2>1, <2>3, <2>4
<1>9. CASE ReceiveCookieShutdownAckSent(e, m)
  <2>1. UNCHANGED tcb /\ Consume(m, {Chunk(e, t, "SHUTDOWN_ACK")})
    BY <1>9 DEF ReceiveCookieShutdownAckSent
  <2>2. Sends({})
    BY <2>1, ConsumeSends DEF Chunk, Handshake
  <2> QED
    BY <1>3, <2>1, <2>2, AnswerIsStep
<1> QED
  BY <1>2, <1>6, <1>7, <1>8, <1>9 DEF ReceiveCookieEcho

\* As long as no cookie is too old there is nothing else but an error of old.
LEMMA NextIsStep ==
  ASSUME ControlInv, Next, expired' = {}
  PROVE  \/ \E e \in Endpoint : TagStep(e)
         \/ /\ \E m \in net : m.chunk = "STALE_COOKIE_ERROR"
            /\ UNCHANGED <<epoch, expired, past>>
<1>1. ASSUME NEW e \in Endpoint, Call(e)
      PROVE  TagStep(e)
  BY <1>1, CallIsStep
<1>2. ASSUME NEW e \in Endpoint,
             Timer(e) \/ PathFailure(e) \/ ReceiveSack(e) \/ Crash(e)
      PROVE  TagStep(e)
  BY <1>2, TimerIsStep, FailureIsStep, ReceiveSackIsStep
<1>3. ASSUME NEW m \in net, Receive(m.to, m), ~ReceiveStaleCookieError(m.to, m)
      PROVE  m.to \in Endpoint /\ TagStep(m.to)
  <2>1. m.to \in Endpoint
    BY DEF ControlInv, TypeOK, Packet
  <2> QED
    BY <1>3, <2>1, ReceiveInitIsStep, ReceiveInitAckIsStep, ReceiveCookieEchoIsStep,
       ReceiveCookieAckIsStep, ReceiveShutdownIsStep, ReceiveEndIsStep, ReceiveOtherIsStep
       DEF Receive
<1>4. ASSUME NEW m \in net, ReceiveStaleCookieError(m.to, m)
      PROVE  m.chunk = "STALE_COOKIE_ERROR" /\ UNCHANGED <<epoch, expired, past>>
  BY <1>4 DEF ReceiveStaleCookieError
<1> QED
  BY <1>1, <1>2, <1>3, <1>4 DEF Next

-----------------------------------------------------------------------------
(* Two handshakes that collide *)

Joined(t) == Up(t) \/ t.state = "COOKIE_ECHOED"

\* A cookie that e has signed under another tag than the one its handshake runs with was
\* made without an association, so it cannot have the tie tags of COOKIE_ECHOED.
NoTies(e, c) ==
  \/ tcb[e].state = "CLOSED"
  \/ tcb[e].state \in InitStates /\ c.localTag # tcb[e].tagLocal
  => c.localTieTag = 0

\* Whoever is up faces an end with the same tags that is up or will be when it learns
\* that its cookie was accepted; whoever has echoed a cookie uses the tags in it.
FacingEnd(e) ==
  /\ Up(tcb[e]) =>
       /\ Joined(tcb[Peer(e)])
       /\ tcb[Peer(e)].tagLocal = tcb[e].tagRemote /\ tcb[Peer(e)].tagRemote = tcb[e].tagLocal
  /\ tcb[e].state = "COOKIE_ECHOED" =>
       /\ tcb[e].cookieChunk.localTag = tcb[e].tagRemote
       /\ tcb[e].cookieChunk.peerTag = tcb[e].tagLocal
       /\ NoTies(Peer(e), tcb[e].cookieChunk)

\* The packets under way, however old, speak of the tags of the one life of their sender.
FacingPacket(m) ==
  LET f == Peer(m.to)
  IN  /\ m.chunk = "INIT_ACK" =>
           m.cookie.localTag = m.initTag /\ m.cookie.peerTag = m.vtag /\ NoTies(f, m.cookie)
      /\ m.chunk = "COOKIE_ECHO" =>
           /\ Joined(tcb[f]) /\ m.cookie.peerTag = tcb[f].tagLocal
           /\ tcb[f].state = "COOKIE_ECHOED" => m.cookie.localTag = tcb[f].tagRemote
           /\ NoTies(m.to, m.cookie)
      /\ m.chunk = "COOKIE_ACK" => Up(tcb[f])
      /\ m.chunk # "STALE_COOKIE_ERROR"

Facing == (\A e \in Endpoint : FacingEnd(e)) /\ (\A m \in net : FacingPacket(m))

\* The inductive invariant behind TagsMirrored.
MirrorInv == FirstLife => Facing

\* A life that is not the first never becomes it.
LEMMA FirstLifeIsFirst ==
  ASSUME ControlInv, NEW e \in Endpoint, TagStep(e), FirstLife'
  PROVE  FirstLife /\ ~Ends(e) /\ UNCHANGED <<epoch, expired, past>>
<1>1. ~Ends(e)
  BY DEF FirstLife, Ends
<1>2. UNCHANGED <<epoch, expired, past>>
  BY <1>1 DEF TagStep
<1> QED
  BY <1>1, <1>2 DEF FirstLife

\* What a packet says stays true as long as both ends keep what it speaks of.
LEMMA KeepsFacingPacket ==
  ASSUME ControlInv, \A f \in Endpoint : Keeps(tcb[f], tcb'[f]),
         NEW m \in Packet, FacingPacket(m)
  PROVE  FacingPacket(m)'
<1>1. m.to \in Endpoint /\ Peer(m.to) \in Endpoint
  BY TwoEnds DEF Packet
<1>2. Keeps(tcb[m.to], tcb'[m.to]) /\ Keeps(tcb[Peer(m.to)], tcb'[Peer(m.to)])
  BY <1>1
<1> QED
  BY <1>2 DEF FacingPacket, NoTies, Keeps, Joined, Up, InitStates

\* So does what an end says of itself and of the other.
LEMMA KeepsFacingEnd ==
  ASSUME ControlInv, \A f \in Endpoint : Keeps(tcb[f], tcb'[f]),
         NEW e \in Endpoint, FacingEnd(e)
  PROVE  FacingEnd(e)'
<1>1. Peer(e) \in Endpoint
  BY TwoEnds
<1>2. Keeps(tcb[e], tcb'[e]) /\ Keeps(tcb[Peer(e)], tcb'[Peer(e)])
  BY <1>1
<1> QED
  BY <1>2 DEF FacingEnd, NoTies, Keeps, Joined, Up, InitStates

\* Packets that are no part of a handshake say nothing.
LEMMA OtherPacketIsFacing ==
  ASSUME NEW m, m.chunk \notin Handshake
  PROVE  FacingPacket(m)
  BY DEF FacingPacket, Handshake

\* Repeated chunks say what the end that repeats them knows.
LEMMA RepeatedIsFacing ==
  ASSUME ControlInv, NEW e \in Endpoint, FacingEnd(e), NEW m \in Repeats(e)
  PROVE  m \in Packet /\ FacingPacket(m)
<1>1. tcb[e] \in TCB /\ GoodTCB(tcb[e]) /\ Peer(e) \in Endpoint /\ Peer(Peer(e)) = e
  BY CurrentIsGood, TwoEnds
<1>2. CASE tcb[e].state = "COOKIE_WAIT"
  <2>1. m = InitChunk(e, tcb[e])
    BY <1>2 DEF Repeats
  <2>2. m \in Packet
    BY <1>1, <1>2, <2>1, InitChunkIsPacket DEF GoodTCB, SoundTCB
  <2> QED
    BY <2>1, <2>2 DEF InitChunk, FacingPacket
<1>3. CASE tcb[e].state = "COOKIE_ECHOED"
  <2>1. m = CookieEcho(e, tcb[e])
    BY <1>3 DEF Repeats
  <2>2. m \in Packet
    BY <1>1, <1>3, <2>1, CookieEchoIsPacket DEF GoodTCB, SoundTCB
  <2>3. m.to = Peer(e) /\ m.chunk = "COOKIE_ECHO" /\ m.cookie = tcb[e].cookieChunk
    BY <2>1 DEF CookieEcho
  <2> QED
    BY <1>1, <1>3, <2>2, <2>3 DEF FacingPacket, FacingEnd, Joined
<1> QED
  BY <1>2, <1>3 DEF Repeats

\* ... and where an end keeps its tags, or only closes.
LEMMA StaysFacing ==
  ASSUME ControlInv, Facing, NEW e \in Endpoint, Stays(e)
  PROVE  Facing'
<1>1. \A f \in Endpoint : Keeps(tcb[f], tcb'[f])
  BY DEF Stays
<1>2. \A f \in Endpoint : FacingEnd(f)'
  BY <1>1, KeepsFacingEnd DEF Facing
<1>3. ASSUME NEW m \in net'
      PROVE  FacingPacket(m)'
  <2>1. CASE m \in net \/ m \in Repeats(e)
    <3>1. m \in Packet /\ FacingPacket(m)
      BY <2>1, RepeatedIsFacing DEF Facing, ControlInv, TypeOK
    <3> QED
      BY <1>1, <3>1, KeepsFacingPacket
  <2>2. CASE m.chunk \notin Handshake
    BY <2>2 DEF FacingPacket, Handshake
  <2> QED
    BY <1>3, <2>1, <2>2 DEF Stays, Sends
<1> QED
  BY <1>2, <1>3 DEF Facing

\* An INIT ACK is answered to whoever sent the INIT, with a cookie that fits the tags.
LEMMA AnswersFacing ==
  ASSUME ControlInv, Facing, NEW e \in Endpoint, Answers(e)
  PROVE  Facing'
<1>1. PICK m \in net, local \in Tag, localTie \in TagOrZero, peerTie \in TagOrZero :
        /\ \A f \in Endpoint : Keeps(tcb[f], tcb'[f])
        /\ Sends({InitAck(e, m, local, localTie, peerTie)})
        /\ \/ tcb[e].state \in InitStates /\ local = tcb[e].tagLocal
           \/ tcb[e].state \notin InitStates
        /\ tcb[e].state = "CLOSED" => localTie = 0
  BY DEF Answers
<1>2. \A f \in Endpoint : FacingEnd(f)'
  BY <1>1, KeepsFacingEnd DEF Facing
<1> PICK a : a = InitAck(e, m, local, localTie, peerTie)
  OBVIOUS
<1>3. /\ a.to = Peer(e) /\ a.chunk = "INIT_ACK" /\ a.initTag = a.cookie.localTag
      /\ a.vtag = a.cookie.peerTag /\ a.cookie.localTag = local
      /\ a.cookie.localTieTag = localTie
  BY DEF InitAck
<1>4. FacingPacket(a)'
  <2>1. Peer(a.to) = e /\ Keeps(tcb[e], tcb'[e])
    BY <1>1, <1>3, TwoEnds
  <2> QED
    BY <1>1, <1>3, <2>1 DEF FacingPacket, NoTies, Keeps, Up, InitStates
<1>5. ASSUME NEW p \in net'
      PROVE  FacingPacket(p)'
  <2>1. CASE p \in net
    <3>1. p \in Packet /\ FacingPacket(p)
      BY <2>1 DEF Facing, ControlInv, TypeOK
    <3> QED
      BY <1>1, <3>1, KeepsFacingPacket
  <2>2. CASE p.chunk \notin Handshake
    BY <2>2 DEF FacingPacket, Handshake
  <2>3. p \in net \/ p = a \/ p.chunk \notin Handshake
    BY <1>1, <1>5 DEF Sends
  <2> QED
    BY <1>4, <2>1, <2>2, <2>3
<1> QED
  BY <1>2, <1>5 DEF Facing

\* Until it opens, nothing but cookies without tie tags speaks of this end.
LEMMA OpensFacing ==
  ASSUME ControlInv, Facing, NEW e \in Endpoint, Opens(e)
  PROVE  Facing'
<1> DEFINE f == Peer(e)
<1>1. PICK t \in TCB :
        /\ tcb[e].state = "CLOSED" /\ t.state = "COOKIE_WAIT"
        /\ Become(e, t) /\ Sends({InitChunk(e, t)})
  BY DEF Opens
<1>2. f \in Endpoint /\ f # e /\ Peer(f) = e /\ \A g \in Endpoint : g = e \/ g = f
  BY TwoEnds
<1>3. tcb'[e] = t /\ tcb'[f] = tcb[f]
  BY <1>1, <1>2 DEF Become, ControlInv, TypeOK
<1>4. ~Up(tcb[f])
  BY <1>1, <1>2 DEF Facing, FacingEnd, Joined, Up
<1>5. FacingEnd(e)'
  BY <1>1, <1>3 DEF FacingEnd, Up, InitStates
<1>6. FacingEnd(f)'
  <2>1. FacingEnd(f)
    BY <1>2 DEF Facing
  <2> QED
    BY <1>1, <1>2, <1>3, <1>4, <2>1 DEF FacingEnd, NoTies
<1>7. ASSUME NEW m \in net'
      PROVE  FacingPacket(m)'
  <2>1. CASE m \in net
    <3>1. FacingPacket(m) /\ m.to \in Endpoint
      BY <2>1 DEF Facing, ControlInv, TypeOK, Packet
    <3>2. CASE m.to = e
      BY <1>1, <1>2, <1>3, <3>1, <3>2 DEF FacingPacket, NoTies
    <3>3. CASE m.to = f
      BY <1>1, <1>2, <1>3, <1>4, <3>1, <3>3 DEF FacingPacket, NoTies, Joined, Up
    <3> QED
      BY <1>2, <3>1, <3>2, <3>3
  <2>2. CASE m.chunk \in {"INIT"} \/ m.chunk \notin Handshake
    BY <2>2 DEF FacingPacket, Handshake
  <2>3. m \in net \/ m.chunk = "INIT" \/ m.chunk \notin Handshake
    BY <1>1, <1>7 DEF Sends, InitChunk
  <2> QED
    BY <2>1, <2>2, <2>3
<1> QED
  BY <1>2, <1>5, <1>6, <1>7 DEF Facing

\* The INIT ACK that is taken first gives this end its one cookie.
LEMMA EchoesFacing ==
  ASSUME ControlInv, Facing, NEW e \in Endpoint, Echoes(e)
  PROVE  Facing'
<1> DEFINE f == Peer(e)
<1>1. PICK m \in net, t \in TCB :
        /\ m.to = e /\ m.chunk = "INIT_ACK" /\ m.vtag = tcb[e].tagLocal
        /\ tcb[e].state = "COOKIE_WAIT" /\ t.state = "COOKIE_ECHOED"
        /\ t.tagLocal = tcb[e].tagLocal /\ t.tagRemote = m.initTag /\ t.cookieChunk = m.cookie
        /\ Become(e, t) /\ Sends({CookieEcho(e, t)})
  BY DEF Echoes
<1>2. f \in Endpoint /\ f # e /\ Peer(f) = e /\ \A g \in Endpoint : g = e \/ g = f
  BY TwoEnds
<1>3. tcb'[e] = t /\ tcb'[f] = tcb[f]
  BY <1>1, <1>2 DEF Become, ControlInv, TypeOK
<1>4. ~Up(tcb[f])
  BY <1>1, <1>2 DEF Facing, FacingEnd, Joined, Up, InitStates
<1>5. /\ m.cookie.localTag = m.initTag /\ m.cookie.peerTag = m.vtag
      /\ NoTies(f, m.cookie)
  BY <1>1 DEF Facing, FacingPacket
<1>6. NoTies(f, m.cookie)'
  BY <1>2, <1>3, <1>5 DEF NoTies
<1>7. FacingEnd(e)'
  BY <1>1, <1>2, <1>3, <1>5, <1>6 DEF FacingEnd, Up, InitStates
<1>8. FacingEnd(f)'
  <2>1. FacingEnd(f)
    BY <1>2 DEF Facing
  <2> QED
    BY <1>1, <1>2, <1>3, <1>4, <2>1 DEF FacingEnd, NoTies, InitStates
<1>9. PICK c : c = CookieEcho(e, t)
  OBVIOUS
<1>10. c.to = f /\ c.chunk = "COOKIE_ECHO" /\ c.cookie = m.cookie
  BY <1>1, <1>9 DEF CookieEcho
<1>11. FacingPacket(c)'
  BY <1>1, <1>2, <1>3, <1>5, <1>6, <1>10 DEF FacingPacket, Joined
<1>12. ASSUME NEW p \in net'
       PROVE  FacingPacket(p)'
  <2>1. CASE p \in net
    <3>1. FacingPacket(p) /\ p.to \in Endpoint
      BY <2>1 DEF Facing, ControlInv, TypeOK, Packet
    <3>2. CASE p.to = e
      BY <1>1, <1>2, <1>3, <3>1, <3>2 DEF FacingPacket, NoTies, InitStates
    <3>3. CASE p.to = f
      BY <1>1, <1>2, <1>3, <1>4, <3>1, <3>3
         DEF FacingPacket, NoTies, Joined, Up, InitStates
    <3> QED
      BY <1>2, <3>1, <3>2, <3>3
  <2>2. CASE p.chunk \notin Handshake
    BY <2>2 DEF FacingPacket, Handshake
  <2>3. p \in net \/ p = c \/ p.chunk \notin Handshake
    BY <1>1, <1>9, <1>12 DEF Sends
  <2> QED
    BY <1>11, <2>1, <2>2, <2>3
<1> QED
  BY <1>2, <1>7, <1>8, <1>12 DEF Facing

\* An end that is up with the tags of the other, and has kept its own if it has ever
\* told the other.
LEMMA JoinsFacing ==
  ASSUME ControlInv, Facing, NEW e \in Endpoint, NEW t \in TCB, Up(t), Become(e, t),
         Sends({Chunk(e, t, "COOKIE_ACK")}),
         Joined(tcb[Peer(e)]), tcb[Peer(e)].tagLocal = t.tagRemote,
         tcb[Peer(e)].tagRemote = t.tagLocal,
         Joined(tcb[e]) => t.tagLocal = tcb[e].tagLocal
  PROVE  Facing'
<1> DEFINE f == Peer(e)
<1>1. f \in Endpoint /\ f # e /\ Peer(f) = e /\ \A g \in Endpoint : g = e \/ g = f
  BY TwoEnds
<1>2. tcb'[e] = t /\ tcb'[f] = tcb[f]
  BY <1>1 DEF Become, ControlInv, TypeOK
<1>3. t.state \notin InitStates /\ t.state # "CLOSED"
  BY DEF Up
<1>4. FacingEnd(e)'
  BY <1>1, <1>2, <1>3 DEF FacingEnd, Joined, Up, InitStates
<1>5. FacingEnd(f)'
  <2>1. FacingEnd(f)
    BY <1>1 DEF Facing
  <2> QED
    BY <1>1, <1>2, <1>3, <2>1 DEF FacingEnd, NoTies, Joined, Up
<1>6. ASSUME NEW p \in net'
      PROVE  FacingPacket(p)'
  <2>1. CASE p \in net
    <3>1. FacingPacket(p) /\ p.to \in Endpoint
      BY <2>1 DEF Facing, ControlInv, TypeOK, Packet
    <3>2. CASE p.to = e
      BY <1>1, <1>2, <1>3, <3>1, <3>2 DEF FacingPacket, NoTies
    <3>3. CASE p.to = f
      BY <1>1, <1>2, <1>3, <3>1, <3>3 DEF FacingPacket, NoTies, Joined, Up, InitStates
    <3> QED
      BY <1>1, <3>1, <3>2, <3>3
  <2>2. CASE p.chunk \notin Handshake
    BY <2>2 DEF FacingPacket, Handshake
  <2>3. CASE p.to = f /\ p.chunk = "COOKIE_ACK"
    BY <1>1, <1>2, <2>3 DEF FacingPacket
  <2>4. p \in net \/ (p.to = f /\ p.chunk = "COOKIE_ACK") \/ p.chunk \notin Handshake
    BY <1>6 DEF Sends, Chunk
  <2> QED
    BY <2>1, <2>2, <2>3, <2>4
<1> QED
  BY <1>1, <1>4, <1>5, <1>6 DEF Facing

\* A COOKIE ACK comes from an end that is up, which therefore faces this one.
LEMMA ConfirmedFacing ==
  ASSUME ControlInv, Facing, NEW e \in Endpoint, Confirmed(e)
  PROVE  Facing'
<1> DEFINE f == Peer(e)
<1>1. PICK m \in net, t \in TCB :
        /\ m.to = e /\ m.chunk = "COOKIE_ACK" /\ tcb[e].state = "COOKIE_ECHOED"
        /\ Up(t) /\ t.tagLocal = tcb[e].tagLocal /\ t.tagRemote = tcb[e].tagRemote
        /\ Become(e, t) /\ Sends({})
  BY DEF Confirmed
<1>2. f \in Endpoint /\ Peer(f) = e
  BY TwoEnds
<1>3. Up(tcb[f])
  BY <1>1 DEF Facing, FacingPacket
<1>4. tcb[f].tagLocal = t.tagRemote /\ tcb[f].tagRemote = t.tagLocal
  BY <1>1, <1>2, <1>3 DEF Facing, FacingEnd
<1> QED
  BY <1>1, <1>3, <1>4, QuietSends, JoinsFacing DEF Joined

\* A cookie is accepted only when the end that echoed it uses its tags, whatever this end
\* was doing when it arrived; one that would be taken for a restart of an end that has
\* not restarted finds no association that waits for an answer to its own cookie.
LEMMA AcceptsFacing ==
  ASSUME ControlInv, Facing, NEW e \in Endpoint, Accepts(e)
  PROVE  Facing'
<1> DEFINE f == Peer(e)
<1>1. PICK m \in net, t \in TCB :
        /\ m.to = e /\ m.chunk = "COOKIE_ECHO"
        /\ Up(t) /\ t.tagLocal = m.cookie.localTag /\ t.tagRemote = m.cookie.peerTag
        /\ \/ tcb[e].state = "CLOSED"
           \/ m.cookie.localTag = tcb[e].tagLocal
           \/ /\ m.cookie.localTag # tcb[e].tagLocal /\ m.cookie.peerTag # tcb[e].tagRemote
              /\ m.cookie.localTieTag = tcb[e].localTieTag
        /\ Become(e, t) /\ Sends({Chunk(e, t, "COOKIE_ACK")})
  BY DEF Accepts
<1>2. f \in Endpoint /\ Peer(f) = e
  BY TwoEnds
<1>3. /\ Joined(tcb[f]) /\ m.cookie.peerTag = tcb[f].tagLocal
      /\ tcb[f].state = "COOKIE_ECHOED" => m.cookie.localTag = tcb[f].tagRemote
      /\ NoTies(e, m.cookie)
  BY <1>1 DEF Facing, FacingPacket
<1>4. FacingEnd(e) /\ FacingEnd(f)
  BY <1>2 DEF Facing
<1>5. tcb[e].state = "COOKIE_ECHOED" => tcb[e].localTieTag # 0
  BY CurrentIsGood DEF GoodTCB, SoundTCB
<1>6. Joined(tcb[e]) => m.cookie.localTag = tcb[e].tagLocal
  <2>1. CASE Up(tcb[e])
    BY <1>1, <1>3, <1>4, <2>1 DEF FacingEnd, Up
  <2>2. CASE tcb[e].state = "COOKIE_ECHOED"
    BY <1>1, <1>3, <1>5, <2>2 DEF NoTies, InitStates
  <2> QED
    BY <2>1, <2>2 DEF Joined
<1>7. tcb[f].tagRemote = m.cookie.localTag
  <2>1. CASE tcb[f].state = "COOKIE_ECHOED"
    BY <1>3, <2>1
  <2>2. CASE Up(tcb[f])
    BY <1>2, <1>4, <1>6, <2>2 DEF FacingEnd
  <2> QED
    BY <1>3, <2>1, <2>2 DEF Joined
<1> QED
  BY <1>1, <1>3, <1>6, <1>7, JoinsFacing

\* Every step in the first life of both ends keeps them facing each other.
LEMMA NextKeepsMirror == ControlInv /\ MirrorInv /\ [Next]_vars => MirrorInv'
<1> SUFFICES ASSUME ControlInv, MirrorInv, [Next]_vars, FirstLife'
             PROVE  Facing'
  BY DEF MirrorInv
<1>1. CASE UNCHANGED vars
  <2>1. FirstLife
    BY <1>1 DEF vars, FirstLife
  <2> QED
    BY <1>1, <2>1 DEF vars, MirrorInv, Facing, FacingEnd, FacingPacket, NoTies
<1>2. CASE Next
  <2>1. FirstLife
    <3>1. CASE \E e \in Endpoint : TagStep(e)
      BY <3>1, FirstLifeIsFirst
    <3>2. CASE UNCHANGED <<epoch, expired, past>>
      BY <3>2 DEF FirstLife
    <3> QED
      BY <1>2, <3>1, <3>2, NextIsStep DEF FirstLife
  <2>2. Facing
    BY <2>1 DEF MirrorInv
  <2>3. PICK e \in Endpoint : TagStep(e)
    BY <1>2, <2>2, NextIsStep DEF FirstLife, Facing, FacingPacket
  <2>4. ~Ends(e)
    BY <2>3, FirstLifeIsFirst
  <2> QED
    BY <2>2, <2>3, <2>4, StaysFacing, AnswersFacing, OpensFacing, EchoesFacing,
       ConfirmedFacing, AcceptsFacing DEF TagStep
<1> QED
  BY <1>1, <1>2

\* For any interleaving of two handshakes, with any number of retransmissions, packets lost
\* or delivered again, and whatever the ULPs do meanwhile, two ends that are both up in
\* their first life use each other's tag.
THEOREM CollisionsAgree == Spec => []TagsMirrored
<1>1. Init => MirrorInv
  BY DEF Init, MirrorInv, Facing, FacingEnd, NoTCB, Up
<1>2. Spec => []MirrorInv
  BY <1>1, ControlInvariant, NextKeepsMirror, PTL DEF Spec
<1>3. MirrorInv => TagsMirrored
  BY DEF MirrorInv, TagsMirrored, Facing, FacingEnd, Up, DataStates, InitStates
<1> QED
  BY <1>2, <1>3, PTL

-----------------------------------------------------------------------------
(* Associations set up again by the same end *)

\* A tag that has been drawn, or none.
Drawn == {tag \in TagOrZero : tag < nextTag}

TagsOf(c) == <<c.localTag, c.peerTag>>

\* The tags of the answering and of the initiating end, in that order: as they stand in
\* the INIT ACKs ...
Offered == {TagsOf(m.cookie) : m \in {x \in net : x.chunk = "INIT_ACK"}}

\* ... and as some end has put its trust in them, with a cookie or an association.
Echoed(i) ==
  {TagsOf(m.cookie) : m \in {x \in net : x.chunk = "COOKIE_ECHO"}}
  \cup {p \in {<<tcb[i].tagRemote, tcb[i].tagLocal>>} : Joined(tcb[i])}
  \cup {p \in {<<tcb[Peer(i)].tagLocal, tcb[Peer(i)].tagRemote>>} :
          tcb[Peer(i)].state # "CLOSED"}

\* An answering tag is drawn for one INIT, so it fixes the initiating tag; and of the
\* offers for one initiating tag a single one is echoed.
Paired(i) ==
  /\ Offered \subseteq Drawn \X Drawn /\ Echoed(i) \subseteq Drawn \X Drawn
  /\ \A p, q \in Offered \cup Echoed(i) : p[1] = q[1] => p[2] = q[2]
  /\ \A p, q \in Echoed(i) : p[2] = q[2] => p[1] = q[1]

\* What either end does when i is the only one that sends INITs.
SidedEnds(i) ==
  /\ tcb[Peer(i)].state \notin InitStates
  /\ tcb[i].tagLocal \in Drawn
  /\ tcb[i].state = "COOKIE_WAIT" => \A p \in Echoed(i) : p[2] # tcb[i].tagLocal
  /\ tcb[i].state = "COOKIE_ECHOED" =>
       TagsOf(tcb[i].cookieChunk) = <<tcb[i].tagRemote, tcb[i].tagLocal>>

SidedPacket(i, m) ==
  /\ m.chunk = "INIT" => m.to = Peer(i) /\ m.initTag \in Drawn
  /\ m.chunk = "INIT_ACK" => m.to = i /\ TagsOf(m.cookie) = <<m.initTag, m.vtag>>
  /\ m.chunk = "COOKIE_ECHO" => m.to = Peer(i)
  /\ m.chunk # "STALE_COOKIE_ERROR"

OneSided(i) == Paired(i) /\ SidedEnds(i) /\ \A m \in net : SidedPacket(i, m)

\* The inductive invariant behind TagAgreement.
AgreeInv(i) == expired = {} => OneSided(i)

\* Drawn tags stay drawn.
LEMMA DrawnGrows ==
  ASSUME ControlInv, nextTag' \in Nat, nextTag' >= nextTag
  PROVE  Drawn \subseteq Drawn'
<1>1. nextTag \in Nat
  BY BoundAssumption DEF ControlInv, TypeOK
<1>2. \A k \in TagOrZero : k < nextTag => k < nextTag'
  BY <1>1, BoundAssumption DEF TagOrZero
<1> QED
  BY <1>2 DEF Drawn

\* With no new pair of tags the pairs still match.
LEMMA PairedKept ==
  ASSUME NEW i, Paired(i), Drawn \subseteq Drawn',
         Offered' \subseteq Offered, Echoed(i)' \subseteq Echoed(i)
  PROVE  Paired(i)'
<1>1. Offered' \subseteq Drawn' \X Drawn' /\ Echoed(i)' \subseteq Drawn' \X Drawn'
  BY DEF Paired
<1>2. \A p, q \in Offered' \cup Echoed(i)' : p[1] = q[1] => p[2] = q[2]
  BY DEF Paired
<1>3. \A p, q \in Echoed(i)' : p[2] = q[2] => p[1] = q[1]
  BY DEF Paired
<1> QED
  BY <1>1, <1>2, <1>3 DEF Paired

\* The packets of before keep their sides.
LEMMA SidedPacketKept ==
  ASSUME NEW i, NEW m, SidedPacket(i, m), Drawn \subseteq Drawn'
  PROVE  SidedPacket(i, m)'
  BY DEF SidedPacket

\* Packets with no cookie add no pair, nor do those that were there.
LEMMA OfferedFrom ==
  ASSUME NEW out, Sends(out)
  PROVE  Offered' \subseteq
           Offered \cup {TagsOf(m.cookie) : m \in {x \in out : x.chunk = "INIT_ACK"}}
  BY DEF Offered, Sends, Handshake

\* The pairs that are trusted come from a packet or from one of the two ends.
LEMMA EchoedCases ==
  ASSUME NEW i, NEW out, Sends(out), NEW p \in Echoed(i)'
  PROVE  \/ p \in {TagsOf(m.cookie) : m \in {x \in net : x.chunk = "COOKIE_ECHO"}}
         \/ p \in {TagsOf(m.cookie) : m \in {x \in out : x.chunk = "COOKIE_ECHO"}}
         \/ p = <<tcb'[i].tagRemote, tcb'[i].tagLocal>> /\ Joined(tcb'[i])
         \/ /\ p = <<tcb'[Peer(i)].tagLocal, tcb'[Peer(i)].tagRemote>>
            /\ tcb'[Peer(i)].state # "CLOSED"
  BY DEF Echoed, Sends, Handshake, Joined, Up

\* If nothing changes at the ends and no new cookie is echoed, no pair is new.
LEMMA EchoedKept ==
  ASSUME ControlInv, NEW i \in Endpoint, \A f \in Endpoint : Keeps(tcb[f], tcb'[f]),
         NEW out, Sends(out),
         \A m \in out : m.chunk = "COOKIE_ECHO" => TagsOf(m.cookie) \in Echoed(i)
  PROVE  Echoed(i)' \subseteq Echoed(i)
<1>1. Peer(i) \in Endpoint
  BY TwoEnds
<1>2. Keeps(tcb[i], tcb'[i]) /\ Keeps(tcb[Peer(i)], tcb'[Peer(i)])
  BY <1>1
<1>3. SUFFICES ASSUME NEW p \in Echoed(i)'
               PROVE  p \in Echoed(i)
  OBVIOUS
<1>4. CASE p \in {TagsOf(m.cookie) : m \in {x \in net : x.chunk = "COOKIE_ECHO"}}
  BY <1>4 DEF Echoed
<1>5. CASE p \in {TagsOf(m.cookie) : m \in {x \in out : x.chunk = "COOKIE_ECHO"}}
  BY <1>5
<1>6. CASE p = <<tcb'[i].tagRemote, tcb'[i].tagLocal>> /\ Joined(tcb'[i])
  <2>1. Joined(tcb[i]) /\ p = <<tcb[i].tagRemote, tcb[i].tagLocal>>
    BY <1>2, <1>6 DEF Keeps, Joined, Up
  <2> QED
    BY <2>1 DEF Echoed
<1>7. CASE /\ p = <<tcb'[Peer(i)].tagLocal, tcb'[Peer(i)].tagRemote>>
           /\ tcb'[Peer(i)].state # "CLOSED"
  <2>1. /\ tcb[Peer(i)].state # "CLOSED"
        /\ p = <<tcb[Peer(i)].tagLocal, tcb[Peer(i)].tagRemote>>
    BY <1>2, <1>7 DEF Keeps, Up
  <2> QED
    BY <2>1 DEF Echoed
<1> QED
  BY <1>3, <1>4, <1>5, <1>6, <1>7, EchoedCases

\* Neither end changes: what it says of itself stays, with the pairs there are.
LEMMA SidedEndsKept ==
  ASSUME ControlInv, NEW i \in Endpoint, \A f \in Endpoint : Keeps(tcb[f], tcb'[f]),
         SidedEnds(i), Drawn \subseteq Drawn', Echoed(i)' \subseteq Echoed(i)
  PROVE  SidedEnds(i)'
<1>1. Peer(i) \in Endpoint
  BY TwoEnds
<1>2. Keeps(tcb[i], tcb'[i]) /\ Keeps(tcb[Peer(i)], tcb'[Peer(i)])
  BY <1>1
<1>3. tcb'[Peer(i)].state \notin InitStates /\ tcb'[i].tagLocal \in Drawn'
  BY <1>2 DEF SidedEnds, Keeps, Up
<1>4. tcb'[i].state = "COOKIE_WAIT" => \A p \in Echoed(i)' : p[2] # tcb'[i].tagLocal
  <2>1. tcb'[i].state = "COOKIE_WAIT" =>
          tcb[i].state = "COOKIE_WAIT" /\ tcb'[i].tagLocal = tcb[i].tagLocal
    BY <1>2 DEF Keeps, Up, InitStates
  <2> QED
    BY <2>1 DEF SidedEnds
<1>5. tcb'[i].state = "COOKIE_ECHOED" =>
        TagsOf(tcb'[i].cookieChunk) = <<tcb'[i].tagRemote, tcb'[i].tagLocal>>
  BY <1>2 DEF SidedEnds, Keeps, Up, InitStates
<1> QED
  BY <1>3, <1>4, <1>5 DEF SidedEnds

\* The same where an end keeps its tags, or only closes.
LEMMA StaysSided ==
  ASSUME ControlInv, NEW i \in Endpoint, OneSided(i), NEW e \in Endpoint, Stays(e)
  PROVE  OneSided(i)'
<1>1. /\ \A f \in Endpoint : Keeps(tcb[f], tcb'[f])
      /\ nextTag' = nextTag /\ Sends(Repeats(e))
  BY DEF Stays
<1>2. Drawn' = Drawn /\ (\A f \in Endpoint : f = i \/ f = Peer(i)) /\ Peer(i) # i
  BY <1>1, TwoEnds DEF Drawn
<1>3. ASSUME NEW m \in Repeats(e)
      PROVE  /\ m.chunk = "INIT" /\ m.to = Peer(i) /\ m.initTag \in Drawn
             \/ /\ m.chunk = "COOKIE_ECHO" /\ m.to = Peer(i)
                /\ TagsOf(m.cookie) \in Echoed(i)
  <2>1. e = i
    BY <1>2 DEF Repeats, OneSided, SidedEnds, InitStates
  <2>2. CASE tcb[e].state = "COOKIE_WAIT"
    <3>1. m = InitChunk(e, tcb[e])
      BY <2>2 DEF Repeats
    <3> QED
      BY <2>1, <3>1 DEF InitChunk, OneSided, SidedEnds
  <2>3. CASE tcb[e].state = "COOKIE_ECHOED"
    <3>1. m = CookieEcho(e, tcb[e])
      BY <2>3 DEF Repeats
    <3>2. /\ m.chunk = "COOKIE_ECHO" /\ m.to = Peer(i)
          /\ TagsOf(m.cookie) = <<tcb[i].tagRemote, tcb[i].tagLocal>>
      BY <2>1, <2>3, <3>1 DEF CookieEcho, OneSided, SidedEnds
    <3> QED
      BY <2>1, <2>3, <3>2 DEF Echoed, Joined
  <2> QED
    BY <2>2, <2>3 DEF Repeats
<1>4. Echoed(i)' \subseteq Echoed(i)
  BY <1>1, <1>3, EchoedKept
<1>5. Offered' \subseteq Offered
  BY <1>1, <1>3, OfferedFrom
<1>6. Paired(i)' /\ SidedEnds(i)'
  BY <1>1, <1>2, <1>4, <1>5, PairedKept, SidedEndsKept DEF OneSided
<1>7. ASSUME NEW m \in net'
      PROVE  SidedPacket(i, m)'
  <2>1. CASE m \in net
    BY <1>2, <2>1, SidedPacketKept DEF OneSided
  <2>2. CASE m \in Repeats(e)
    BY <1>2, <1>3, <2>2 DEF SidedPacket
  <2>3. CASE m.chunk \notin Handshake
    BY <2>3 DEF SidedPacket, Handshake
  <2> QED
    BY <1>1, <1>7, <2>1, <2>2, <2>3 DEF Sends
<1> QED
  BY <1>6, <1>7 DEF OneSided

\* The end that answers draws the answering tag of a new pair.
LEMMA AnswersSided ==
  ASSUME ControlInv, NEW i \in Endpoint, OneSided(i), NEW e \in Endpoint, Answers(e)
  PROVE  OneSided(i)'
<1>1. PICK m \in net, local \in Tag, localTie \in TagOrZero, peerTie \in TagOrZero :
        /\ m.to = e /\ m.chunk = "INIT"
        /\ \A f \in Endpoint : Keeps(tcb[f], tcb'[f])
        /\ Sends({InitAck(e, m, local, localTie, peerTie)})
        /\ \/ tcb[e].state \in InitStates
           \/ local = nextTag /\ nextTag' = nextTag + 1
  BY DEF Answers
<1>2. e = Peer(i) /\ Peer(e) = i /\ m.initTag \in Drawn
  BY <1>1, TwoEnds DEF OneSided, SidedPacket
<1>3. local = nextTag /\ nextTag' = nextTag + 1
  BY <1>1, <1>2 DEF OneSided, SidedEnds
<1>4. nextTag \in Nat /\ nextTag' \in Nat /\ nextTag' >= nextTag
  BY <1>3, BoundAssumption DEF ControlInv, TypeOK
<1>5. Drawn \subseteq Drawn' /\ local \in Drawn' /\ local \notin Drawn
  BY <1>3, <1>4, DrawnGrows, BoundAssumption DEF Drawn, Tag, TagOrZero
<1>6. PICK a : a = InitAck(e, m, local, localTie, peerTie)
  OBVIOUS
<1>7. /\ a.to = i /\ a.chunk = "INIT_ACK" /\ TagsOf(a.cookie) = <<local, m.initTag>>
      /\ a.initTag = local /\ a.vtag = m.initTag
  BY <1>2, <1>6 DEF InitAck, TagsOf
<1>8. Echoed(i)' \subseteq Echoed(i)
  BY <1>1, <1>6, <1>7, EchoedKept
<1>9. Offered' \subseteq Offered \cup {<<local, m.initTag>>}
  BY <1>1, <1>6, <1>7, OfferedFrom
<1>10. Paired(i)'
  <2>1. /\ Offered \subseteq Drawn \X Drawn /\ Echoed(i) \subseteq Drawn \X Drawn
        /\ \A p, q \in Offered \cup Echoed(i) : p[1] = q[1] => p[2] = q[2]
        /\ \A p, q \in Echoed(i) : p[2] = q[2] => p[1] = q[1]
    BY DEF OneSided, Paired
  <2>2. Offered' \subseteq Drawn' \X Drawn' /\ Echoed(i)' \subseteq Drawn' \X Drawn'
    BY <1>2, <1>5, <1>8, <1>9, <2>1
  <2>3. \A p \in Offered \cup Echoed(i) : p[1] # local
    BY <1>5, <2>1
  <2>4. \A p, q \in Offered' \cup Echoed(i)' : p[1] = q[1] => p[2] = q[2]
    <3>1. SUFFICES ASSUME NEW p \in Offered' \cup Echoed(i)', NEW q \in Offered' \cup Echoed(i)',
                          p[1] = q[1]
                   PROVE  p[2] = q[2]
      OBVIOUS
    <3>2. /\ p \in Offered \cup Echoed(i) \/ p = <<local, m.initTag>>
          /\ q \in Offered \cup Echoed(i) \/ q = <<local, m.initTag>>
      BY <1>8, <1>9
    <3> QED
      BY <2>1, <2>3, <3>1, <3>2
  <2>5. \A p, q \in Echoed(i)' : p[2] = q[2] => p[1] = q[1]
    BY <1>8, <2>1
  <2> QED
    BY <2>2, <2>4, <2>5 DEF Paired
<1>11. SidedEnds(i)'
  BY <1>1, <1>5, <1>8, SidedEndsKept DEF OneSided
<1>12. ASSUME NEW p \in net'
       PROVE  SidedPacket(i, p)'
  <2>1. CASE p \in net
    BY <1>5, <2>1, SidedPacketKept DEF OneSided
  <2>2. CASE p = a
    BY <1>7, <2>2 DEF SidedPacket
  <2>3. CASE p.chunk \notin Handshake
    BY <2>3 DEF SidedPacket, Handshake
  <2> QED
    BY <1>1, <1>6, <1>12, <2>1, <2>2, <2>3 DEF Sends
<1> QED
  BY <1>10, <1>11, <1>12 DEF OneSided

\* A new association has a tag that no pair holds.
LEMMA OpensSided ==
  ASSUME ControlInv, NEW i \in Endpoint, Initiator \subseteq {i}, OneSided(i),
         NEW e \in Endpoint, Opens(e)
  PROVE  OneSided(i)'
<1> DEFINE r == Peer(i)
<1>1. PICK t \in TCB :
        /\ e \in Initiator /\ tcb[e].state = "CLOSED"
        /\ t.state = "COOKIE_WAIT" /\ t.tagLocal = nextTag /\ nextTag' = nextTag + 1
        /\ Become(e, t) /\ Sends({InitChunk(e, t)})
  BY DEF Opens
<1>2. e = i /\ r \in Endpoint /\ r # i
  BY <1>1, TwoEnds
<1>3. tcb'[i] = t /\ tcb'[r] = tcb[r]
  BY <1>1, <1>2 DEF Become, ControlInv, TypeOK
<1>4. nextTag \in Nat /\ nextTag' \in Nat /\ nextTag' >= nextTag
  BY <1>1, BoundAssumption DEF ControlInv, TypeOK
<1>5. Drawn \subseteq Drawn' /\ t.tagLocal \in Drawn' /\ t.tagLocal \notin Drawn
  <2>1. t.tagLocal \in TagOrZero
    BY DEF TCB
  <2> QED
    BY <1>1, <1>4, <2>1, DrawnGrows DEF Drawn
<1>6. PICK n : n = InitChunk(e, t)
  OBVIOUS
<1>7. n.chunk = "INIT" /\ n.to = r /\ n.initTag = t.tagLocal
  BY <1>2, <1>6 DEF InitChunk
<1>8. Sends({n})
  BY <1>1, <1>6
<1>9. Offered' \subseteq Offered
  BY <1>7, <1>8, OfferedFrom
<1>10. ~Joined(tcb'[i])
  BY <1>1, <1>3 DEF Joined, Up, InitStates
<1>11. Echoed(i)' \subseteq Echoed(i)
  <2>1. SUFFICES ASSUME NEW p \in Echoed(i)'
                 PROVE  p \in Echoed(i)
    OBVIOUS
  <2>2. \/ p \in {TagsOf(m.cookie) : m \in {x \in net : x.chunk = "COOKIE_ECHO"}}
        \/ p = <<tcb[r].tagLocal, tcb[r].tagRemote>> /\ tcb[r].state # "CLOSED"
    BY <1>3, <1>7, <1>8, <1>10, EchoedCases
  <2> QED
    BY <2>2 DEF Echoed
<1>12. Paired(i)'
  BY <1>5, <1>9, <1>11, PairedKept DEF OneSided
<1>13. SidedEnds(i)'
  <2>1. \A p \in Echoed(i)' : p[2] # t.tagLocal
    BY <1>5, <1>11 DEF OneSided, Paired
  <2> QED
    BY <1>1, <1>3, <1>5, <2>1 DEF OneSided, SidedEnds
<1>14. ASSUME NEW p \in net'
       PROVE  SidedPacket(i, p)'
  <2>1. CASE p \in net
    BY <1>5, <2>1, SidedPacketKept DEF OneSided
  <2>2. CASE p = n
    BY <1>5, <1>7, <2>2 DEF SidedPacket
  <2>3. CASE p.chunk \notin Handshake
    BY <2>3 DEF SidedPacket, Handshake
  <2> QED
    BY <1>8, <1>14, <2>1, <2>2, <2>3 DEF Sends
<1> QED
  BY <1>12, <1>13, <1>14 DEF OneSided

\* The first INIT ACK of an association is the only one whose cookie it echoes.
LEMMA EchoesSided ==
  ASSUME ControlInv, NEW i \in Endpoint, OneSided(i), NEW e \in Endpoint, Echoes(e)
  PROVE  OneSided(i)'
<1> DEFINE r == Peer(i)
<1>1. PICK m \in net, t \in TCB :
        /\ m.to = e /\ m.chunk = "INIT_ACK" /\ m.vtag = tcb[e].tagLocal
        /\ tcb[e].state = "COOKIE_WAIT" /\ t.state = "COOKIE_ECHOED"
        /\ t.tagLocal = tcb[e].tagLocal /\ t.tagRemote = m.initTag /\ t.cookieChunk = m.cookie
        /\ Become(e, t) /\ nextTag' = nextTag /\ Sends({CookieEcho(e, t)})
  BY DEF Echoes
<1>2. e = i /\ r \in Endpoint /\ r # i
  BY <1>1, TwoEnds DEF OneSided, SidedPacket
<1>3. tcb'[i] = t /\ tcb'[r] = tcb[r]
  BY <1>1, <1>2 DEF Become, ControlInv, TypeOK
<1>4. Drawn' = Drawn
  BY <1>1 DEF Drawn
<1>5. PICK pair : pair = <<m.initTag, m.vtag>>
  OBVIOUS
<1>6. TagsOf(m.cookie) = pair /\ pair \in Offered /\ pair = <<t.tagRemote, t.tagLocal>>
  BY <1>1, <1>5 DEF OneSided, SidedPacket, Offered
<1>7. PICK n : n = CookieEcho(e, t)
  OBVIOUS
<1>8. n.chunk = "COOKIE_ECHO" /\ n.to = r /\ TagsOf(n.cookie) = pair
  BY <1>1, <1>2, <1>6, <1>7 DEF CookieEcho
<1>9. Sends({n})
  BY <1>1, <1>7
<1>10. Offered' \subseteq Offered
  BY <1>8, <1>9, OfferedFrom
<1>11. Echoed(i)' \subseteq Echoed(i) \cup {pair}
  <2>1. SUFFICES ASSUME NEW p \in Echoed(i)'
                 PROVE  p \in Echoed(i) \/ p = pair
    OBVIOUS
  <2>2. \/ p \in {TagsOf(x.cookie) : x \in {y \in net : y.chunk = "COOKIE_ECHO"}}
        \/ p = pair
        \/ p = <<tcb[r].tagLocal, tcb[r].tagRemote>> /\ tcb[r].state # "CLOSED"
    BY <1>3, <1>6, <1>8, <1>9, EchoedCases
  <2> QED
    BY <2>2 DEF Echoed
<1>12. \A p \in Echoed(i) : p[2] # pair[2]
  BY <1>1, <1>2, <1>6 DEF OneSided, SidedEnds
<1>13. Paired(i)'
  <2>1. /\ Offered \subseteq Drawn \X Drawn /\ Echoed(i) \subseteq Drawn \X Drawn
        /\ \A p, q \in Offered \cup Echoed(i) : p[1] = q[1] => p[2] = q[2]
        /\ \A p, q \in Echoed(i) : p[2] = q[2] => p[1] = q[1]
    BY DEF OneSided, Paired
  <2>2. Offered' \subseteq Drawn' \X Drawn' /\ Echoed(i)' \subseteq Drawn' \X Drawn'
    BY <1>4, <1>6, <1>10, <1>11, <2>1
  <2>3. \A p, q \in Offered' \cup Echoed(i)' : p[1] = q[1] => p[2] = q[2]
    BY <1>6, <1>10, <1>11, <2>1
  <2>4. \A p, q \in Echoed(i)' : p[2] = q[2] => p[1] = q[1]
    <3>1. SUFFICES ASSUME NEW p \in Echoed(i)', NEW q \in Echoed(i)', p[2] = q[2]
                   PROVE  p[1] = q[1]
      OBVIOUS
    <3>2. (p \in Echoed(i) \/ p = pair) /\ (q \in Echoed(i) \/ q = pair)
      BY <1>11
    <3> QED
      BY <1>12, <2>1, <3>1, <3>2
  <2> QED
    BY <2>2, <2>3, <2>4 DEF Paired
<1>14. SidedEnds(i)'
  BY <1>1, <1>2, <1>3, <1>4, <1>6 DEF OneSided, SidedEnds
<1>15. ASSUME NEW p \in net'
       PROVE  SidedPacket(i, p)'
  <2>1. CASE p \in net
    BY <1>4, <2>1, SidedPacketKept DEF OneSided
  <2>2. CASE p = n
    BY <1>8, <2>2 DEF SidedPacket
  <2>3. CASE p.chunk \notin Handshake
    BY <2>3 DEF SidedPacket, Handshake
  <2> QED
    BY <1>9, <1>15, <2>1, <2>2, <2>3 DEF Sends
<1> QED
  BY <1>13, <1>14, <1>15 DEF OneSided

\* An end that takes over a pair that is trusted already, or ends.
LEMMA TakesSided ==
  ASSUME ControlInv, NEW i \in Endpoint, OneSided(i), NEW e \in Endpoint, NEW t \in TCB,
         Become(e, t), nextTag' = nextTag,
         NEW out, Sends(out),
         \A m \in out : m.chunk \notin {"INIT", "INIT_ACK", "COOKIE_ECHO", "STALE_COOKIE_ERROR"},
         t.state \notin InitStates, t.tagLocal \in Drawn,
         t.state # "CLOSED" =>
           \/ e = i /\ <<t.tagRemote, t.tagLocal>> \in Echoed(i)
           \/ e = Peer(i) /\ <<t.tagLocal, t.tagRemote>> \in Echoed(i)
  PROVE  OneSided(i)'
<1> DEFINE r == Peer(i)
<1>1. r \in Endpoint /\ r # i /\ (e = i \/ e = r)
  BY TwoEnds
<1>2. tcb'[e] = t /\ \A f \in Endpoint : f # e => tcb'[f] = tcb[f]
  BY DEF Become, ControlInv, TypeOK
<1>3. Drawn' = Drawn
  BY DEF Drawn
<1>4. Offered' \subseteq Offered
  BY OfferedFrom
<1>5. Joined(t) => t.state # "CLOSED"
  BY DEF Joined, Up
<1>6. Echoed(i)' \subseteq Echoed(i)
  <2>1. SUFFICES ASSUME NEW p \in Echoed(i)'
                 PROVE  p \in Echoed(i)
    OBVIOUS
  <2>2. \/ p \in {TagsOf(x.cookie) : x \in {y \in net : y.chunk = "COOKIE_ECHO"}}
        \/ p = <<tcb'[i].tagRemote, tcb'[i].tagLocal>> /\ Joined(tcb'[i])
        \/ p = <<tcb'[r].tagLocal, tcb'[r].tagRemote>> /\ tcb'[r].state # "CLOSED"
    BY EchoedCases
  <2>3. CASE e = i
    BY <1>1, <1>2, <1>5, <2>2, <2>3 DEF Echoed
  <2>4. CASE e = r
    BY <1>1, <1>2, <2>2, <2>4 DEF Echoed
  <2> QED
    BY <1>1, <2>3, <2>4
<1>7. Paired(i)'
  BY <1>3, <1>4, <1>6, PairedKept DEF OneSided
<1>8. SidedEnds(i)'
  <2>1. CASE e = i
    BY <1>1, <1>2, <1>3, <2>1 DEF OneSided, SidedEnds, InitStates
  <2>2. CASE e = r
    BY <1>1, <1>2, <1>3, <1>6, <2>2 DEF OneSided, SidedEnds
  <2> QED
    BY <1>1, <2>1, <2>2
<1>9. ASSUME NEW p \in net'
      PROVE  SidedPacket(i, p)'
  <2>1. CASE p \in net
    BY <1>3, <2>1, SidedPacketKept DEF OneSided
  <2>2. CASE p \in out
    BY <2>2 DEF SidedPacket
  <2>3. CASE p.chunk \notin Handshake
    BY <2>3 DEF SidedPacket, Handshake
  <2> QED
    BY <1>9, <2>1, <2>2, <2>3 DEF Sends
<1> QED
  BY <1>7, <1>8, <1>9 DEF OneSided

\* ... a COOKIE ACK, or what counts for one, confirms what was echoed;
LEMMA ConfirmedSided ==
  ASSUME ControlInv, NEW i \in Endpoint, OneSided(i), NEW e \in Endpoint, Confirmed(e)
  PROVE  OneSided(i)'
<1>1. PICK m \in net, t \in TCB :
        /\ m.to = e /\ m.chunk = "COOKIE_ACK" /\ tcb[e].state = "COOKIE_ECHOED"
        /\ Up(t) /\ t.tagLocal = tcb[e].tagLocal /\ t.tagRemote = tcb[e].tagRemote
        /\ Become(e, t) /\ nextTag' = nextTag /\ Sends({})
  BY DEF Confirmed
<1>2. e = i
  BY <1>1, TwoEnds DEF OneSided, SidedEnds, InitStates
<1>3. <<t.tagRemote, t.tagLocal>> \in Echoed(i)
  BY <1>1, <1>2 DEF Echoed, Joined
<1>4. t.tagLocal \in Drawn /\ t.state \notin InitStates
  BY <1>1, <1>2 DEF OneSided, SidedEnds, Up
<1> QED
  BY <1>1, <1>2, <1>3, <1>4, TakesSided

\* ... a cookie that is accepted names a pair that was echoed;
LEMMA AcceptsSided ==
  ASSUME ControlInv, NEW i \in Endpoint, OneSided(i), NEW e \in Endpoint, Accepts(e)
  PROVE  OneSided(i)'
<1>1. PICK m \in net, t \in TCB :
        /\ m.to = e /\ m.chunk = "COOKIE_ECHO"
        /\ Up(t) /\ t.tagLocal = m.cookie.localTag /\ t.tagRemote = m.cookie.peerTag
        /\ Become(e, t) /\ nextTag' = nextTag /\ Sends({Chunk(e, t, "COOKIE_ACK")})
  BY DEF Accepts
<1>2. e = Peer(i)
  BY <1>1 DEF OneSided, SidedPacket
<1>3. <<t.tagLocal, t.tagRemote>> \in Echoed(i)
  BY <1>1 DEF Echoed, TagsOf
<1>4. t.tagLocal \in Drawn /\ t.state \notin InitStates
  BY <1>1, <1>3 DEF OneSided, Paired, Up
<1>5. \A p \in {Chunk(e, t, "COOKIE_ACK")} :
        p.chunk \notin {"INIT", "INIT_ACK", "COOKIE_ECHO", "STALE_COOKIE_ERROR"}
  BY DEF Chunk
<1> QED
  BY <1>1, <1>2, <1>3, <1>4, <1>5, TakesSided

\* ... and the end of an association or of a process leaves the pairs as they are.
LEMMA EndsSided ==
  ASSUME ControlInv, NEW i \in Endpoint, OneSided(i), NEW e \in Endpoint, Ends(e)
  PROVE  OneSided(i)'
<1>1. NoTCB \in TCB /\ NoTCB.state = "CLOSED" /\ NoTCB.tagLocal = 0
  BY NoTCBIsGood DEF GoodTCB, NoTCB
<1>2. nextTag \in 1..(MaxTag + 1)
  BY DEF ControlInv, TypeOK
<1>3. 0 \in Drawn
  BY <1>2, BoundAssumption DEF Drawn, TagOrZero
<1> QED
  BY <1>1, <1>3, TakesSided DEF Ends, InitStates

\* Every step keeps the pairs, whichever end has crashed or given up in between.
LEMMA NextKeepsAgree ==
  ASSUME NEW i \in Endpoint, Initiator \subseteq {i}
  PROVE  ControlInv /\ AgreeInv(i) /\ [Next]_vars => AgreeInv(i)'
<1> SUFFICES ASSUME ControlInv, AgreeInv(i), [Next]_vars, expired' = {}
             PROVE  OneSided(i)'
  BY DEF AgreeInv
<1>1. CASE UNCHANGED vars
  BY <1>1 DEF vars, AgreeInv, OneSided, Paired, SidedEnds, SidedPacket, Offered, Echoed, Drawn
<1>2. CASE Next
  <2>1. expired = {}
    BY <1>2, NextIsStep DEF TagStep
  <2>2. OneSided(i)
    BY <2>1 DEF AgreeInv
  <2>3. PICK e \in Endpoint : TagStep(e)
    BY <1>2, <2>2, NextIsStep DEF OneSided, SidedPacket
  <2> QED
    BY <2>2, <2>3, StaysSided, AnswersSided, OpensSided, EchoesSided, ConfirmedSided,
       AcceptsSided, EndsSided DEF TagStep
<1> QED
  BY <1>1, <1>2

\* After any number of crashes, aborts and shutdowns of associations that one end sets up,
\* and with packets of all former ones still under way: two ends that are up, of which one
\* sends with the other's tag, are the two ends of one association.
THEOREM RestartsAgree ==
  ASSUME NEW i \in Endpoint, Initiator \subseteq {i}
  PROVE  Spec => []TagAgreement
<1>1. Init => AgreeInv(i)
  <2>1. SUFFICES ASSUME Init
                 PROVE  OneSided(i)
    BY DEF AgreeInv
  <2>2. Peer(i) \in Endpoint
    BY TwoEnds
  <2>3. net = {} /\ nextTag = 1 /\ tcb[i] = NoTCB /\ tcb[Peer(i)] = NoTCB
    BY <2>1, <2>2 DEF Init
  <2>4. Offered = {} /\ Echoed(i) = {}
    BY <2>3 DEF Offered, Echoed, NoTCB, Joined, Up
  <2>5. 0 \in Drawn
    BY <2>3, BoundAssumption DEF Drawn, TagOrZero
  <2> QED
    BY <2>3, <2>4, <2>5 DEF OneSided, Paired, SidedEnds, NoTCB, InitStates
<1>2. Spec => []AgreeInv(i)
  BY <1>1, ControlInvariant, NextKeepsAgree, PTL DEF Spec
<1>3. ControlInv /\ AgreeInv(i) => TagAgreement
  <2>1. SUFFICES ASSUME AgreeInv(i), expired = {}, NEW e \in Endpoint, NEW f \in Endpoint,
                        e # f, tcb[e].state \in DataStates, tcb[f].state \in DataStates,
                        tcb[e].tagRemote = tcb[f].tagLocal
                 PROVE  tcb[f].tagRemote = tcb[e].tagLocal
    BY DEF TagAgreement
  <2>2. Paired(i)
    BY <2>1 DEF AgreeInv, OneSided
  <2>3. Joined(tcb[i]) /\ tcb[Peer(i)].state # "CLOSED"
        /\ \/ e = i /\ f = Peer(i)
           \/ e = Peer(i) /\ f = i
    BY <2>1, TwoEnds DEF Joined, Up, DataStates, InitStates
  <2>4. /\ <<tcb[i].tagRemote, tcb[i].tagLocal>> \in Echoed(i)
        /\ <<tcb[Peer(i)].tagLocal, tcb[Peer(i)].tagRemote>> \in Echoed(i)
    BY <2>3 DEF Echoed
  <2>5. /\ tcb[i].tagRemote = tcb[Peer(i)].tagLocal => tcb[i].tagLocal = tcb[Peer(i)].tagRemote
        /\ tcb[i].tagLocal = tcb[Peer(i)].tagRemote => tcb[i].tagRemote = tcb[Peer(i)].tagLocal
    BY <2>2, <2>4 DEF Paired
  <2> QED
    BY <2>1, <2>3, <2>5
<1> QED
  BY <1>2, <1>3, ControlInvariant, PTL
=============================================================================

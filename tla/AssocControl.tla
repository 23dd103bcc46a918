---------------------------- MODULE AssocControl ----------------------------
(***************************************************************************)
(* The association state machine of sctplib (sctp/SCTP-control.c) together *)
(* with what surrounds it: the verification-tag and TCB checks of          *)
(* mdi_receiveMessage, the creation and removal of associations in         *)
(* distribution.c, the state cookie, and the only facts of the data path   *)
(* the shutdown sequence reads (how many chunks are not yet acknowledged). *)
(*                                                                         *)
(* Two endpoints run the library, each with an instance bound to the port  *)
(* the other one addresses, so that both may call sctp_associate and at    *)
(* most one association exists between them at each side.  Packets carry   *)
(* one control chunk.  They are delivered in any order, and with           *)
(* Duplication more than once; a lost packet is one that is never          *)
(* delivered.  A process may crash and start again with a new secret key.  *)
(*                                                                         *)
(* An operator whose name ends in Fault is a slip the code could contain.  *)
(* It is no part of the specification: it stands before the operator it    *)
(* would replace and shows that the properties below depend on the latter. *)
(***************************************************************************)
EXTENDS Naturals

CONSTANTS
  Endpoint,            \* the two SCTP processes
  Initiator,           \* those whose ULP calls sctp_associate
  Calls,               \* what else the ULPs do: "shutdown", "abort", "send"
  MaxTag,              \* bound: tags are drawn from 1..MaxTag, each once
  MaxInitRetransmits,  \* assocMaxInitRetransmissions
  MaxRetransmits,      \* assocMaxRetransmissions
  MaxUnacked,          \* bound: chunks a ULP has outstanding at one time
  MaxCrashes,          \* bound: how often a process ends
  PathFailures,        \* may a peer become unreachable?
  Duplication,         \* may the network deliver a packet twice?
  StaleCookies,        \* may a cookie outlive its lifetime?
  SendAbortForOOTB     \* the library parameter of the same name

ASSUME EndpointAssumption ==
  /\ \E e, f \in Endpoint : e # f /\ Endpoint = {e, f}
  /\ Initiator \subseteq Endpoint /\ Calls \subseteq {"shutdown", "abort", "send"}

ASSUME BoundAssumption ==
  /\ MaxTag \in Nat /\ MaxUnacked \in Nat /\ MaxCrashes \in Nat
  /\ MaxInitRetransmits \in Nat /\ MaxRetransmits \in Nat

ASSUME SwitchAssumption ==
  /\ PathFailures \in BOOLEAN /\ Duplication \in BOOLEAN
  /\ StaleCookies \in BOOLEAN /\ SendAbortForOOTB \in BOOLEAN

VARIABLES
  tcb,      \* per endpoint: SCTP_controlData and the fields of Association it relies on
  net,      \* the packets in flight
  nextTag,  \* the next value mdi_generateTag returns (random values do not repeat)
  epoch,    \* per endpoint: which secret key it signs its cookies with
  expired,  \* the cookies found to be older than their lifetime
  past      \* per endpoint: how the last association ended, and its two tags

vars == <<tcb, net, nextTag, epoch, expired, past>>

-----------------------------------------------------------------------------
(* Data *)

Tag == 1..MaxTag
TagOrZero == 0..MaxTag

InitStates == {"COOKIE_WAIT", "COOKIE_ECHOED"}
DataStates == {"ESTABLISHED", "SHUTDOWNPENDING", "SHUTDOWNRECEIVED"}
DrainedStates == {"SHUTDOWNSENT", "SHUTDOWNACKSENT"}
ShutdownStates == {"SHUTDOWNPENDING", "SHUTDOWNRECEIVED"} \cup DrainedStates
States == {"CLOSED"} \cup InitStates \cup DataStates \cup DrainedStates

\* What a state cookie holds, and the key of the signature that protects it.
Cookie == [localTag : Tag, peerTag : Tag,
           localTieTag : TagOrZero, peerTieTag : TagOrZero, key : 0..MaxCrashes]
NoCookie == [localTag |-> 0]

\* A TCB.  CLOSED stands for "no association": the library leaves that state
\* in the same call that creates the control block.
TCB == [state : States,
        tagLocal : TagOrZero, tagRemote : TagOrZero,
        localTieTag : TagOrZero, peerTieTag : TagOrZero,
        initTimer : BOOLEAN,           \* initTimer # 0
        initRetransCounter : Nat,
        cookieChunk : Cookie \cup {NoCookie},
        modules : BOOLEAN,             \* flow control, reliable transfer, receive control exist
        unacked : 0..MaxUnacked,       \* chunks queued in flow control or not yet acknowledged
        shutdownReceived : BOOLEAN,    \* rtx->shutdown_received and fc->shutdown_received
        ups : 0..2]                    \* COMM_UP notifications the ULP has had, capped at 2

NoTCB == [state |-> "CLOSED", tagLocal |-> 0, tagRemote |-> 0,
          localTieTag |-> 0, peerTieTag |-> 0, initTimer |-> FALSE,
          initRetransCounter |-> 0, cookieChunk |-> NoCookie,
          modules |-> FALSE, unacked |-> 0, shutdownReceived |-> FALSE, ups |-> 0]

SimpleChunk == {"COOKIE_ACK", "SHUTDOWN", "SHUTDOWN_ACK", "SHUTDOWN_COMPLETE",
                "ABORT", "STALE_COOKIE_ERROR"}

Packet ==
       [to : Endpoint, chunk : {"INIT"}, vtag : TagOrZero, initTag : Tag]
  \cup [to : Endpoint, chunk : {"INIT_ACK"}, vtag : TagOrZero, initTag : Tag, cookie : Cookie]
  \cup [to : Endpoint, chunk : {"COOKIE_ECHO"}, vtag : TagOrZero, cookie : Cookie]
  \cup [to : Endpoint, chunk : SimpleChunk, vtag : TagOrZero]

Endings == {"NONE", "COMM_LOST", "SHUTDOWN_COMPLETE"}

TypeOK ==
  /\ tcb \in [Endpoint -> TCB]
  /\ net \subseteq Packet
  /\ nextTag \in 1..(MaxTag + 1)
  /\ epoch \in [Endpoint -> 0..MaxCrashes]
  /\ expired \subseteq Cookie
  /\ past \in [Endpoint -> [how : Endings, tagLocal : TagOrZero, tagRemote : TagOrZero]]

-----------------------------------------------------------------------------
(* Building blocks *)

Peer(e) == CHOOSE f \in Endpoint : f # e

\* mdi_send_message with an association: the peer's tag is the verification tag.
Chunk(e, t, name) == [to |-> Peer(e), chunk |-> name, vtag |-> t.tagRemote]

\* mdi_send_message without one: the tag of the packet it answers is reflected.
Reflected(e, m, name) == [to |-> Peer(e), chunk |-> name, vtag |-> m.vtag]

\* The stored init chunk and the stored cookie chunk.  An INIT gets no tag of its
\* own: it carries tagRemote as every packet does, which is 0 before an INIT ACK.
InitChunk(e, t) == [to |-> Peer(e), chunk |-> "INIT", vtag |-> t.tagRemote,
                    initTag |-> t.tagLocal]
CookieEcho(e, t) == [to |-> Peer(e), chunk |-> "COOKIE_ECHO", vtag |-> t.tagRemote,
                     cookie |-> t.cookieChunk]

\* An INIT ACK is sent to the initiate tag of the INIT and carries a cookie.
InitAck(e, m, local, localTie, peerTie) ==
  [to |-> Peer(e), chunk |-> "INIT_ACK", vtag |-> m.initTag, initTag |-> local,
   cookie |-> [localTag |-> local, peerTag |-> m.initTag,
               localTieTag |-> localTie, peerTieTag |-> peerTie, key |-> epoch[e]]]

\* A packet reaches its handler: it leaves the network unless a copy of it stays.
Consume(m, out) ==
  \E copy \in (IF Duplication THEN BOOLEAN ELSE {FALSE}) :
    net' = (IF copy THEN net ELSE net \ {m}) \cup out

Become(e, t) == tcb' = [tcb EXCEPT ![e] = t]

\* mdi_deleteCurrentAssociation and the notification that follows it.  The flagged
\* association is found by no lookup any more, whether or not the ULP frees it.
Delete(e, how) ==
  /\ Become(e, NoTCB)
  /\ past' = [past EXCEPT ![e] = [how |-> how, tagLocal |-> tcb[e].tagLocal,
                                  tagRemote |-> tcb[e].tagRemote]]

\* The process ends and starts again: no association, another secret key.
ProcessEnds(e) ==
  /\ epoch[e] < MaxCrashes
  /\ epoch' = [epoch EXCEPT ![e] = epoch[e] + 1]
  /\ Become(e, NoTCB)
  /\ past' = [past EXCEPT ![e] = [how |-> "NONE", tagLocal |-> 0, tagRemote |-> 0]]

\* mdi_newAssociation: a control block with zero counters and tie tags.
NewAssociation(tag) == [NoTCB EXCEPT !.tagLocal = tag]

\* mdi_initAssociation: the data-path modules are (re)created.
InitAssociation(t, remote) ==
  [t EXCEPT !.tagRemote = remote, !.modules = TRUE, !.unacked = 0,
            !.shutdownReceived = FALSE]

\* mdi_restartAssociation resets the modules there are; it creates none of them.
RestartAssociation(t) == [t EXCEPT !.unacked = 0, !.shutdownReceived = FALSE]

CommUp(t) == [t EXCEPT !.ups = IF t.ups = 2 THEN 2 ELSE t.ups + 1]

\* Only the retransmission queue is looked at, not that of flow control.
ReadyForShutdownFault(t) == t.unacked <= 1

ReadyForShutdown(t) == t.unacked = 0

\* The modules are not told.
RtxShutdownFault(t) == t

\* rtx_shutdown: no module, no effect.
RtxShutdown(t) == [t EXCEPT !.shutdownReceived = t.modules]

\* The SHUTDOWN ACK is sent without a timer.
AllChunksAckedFault(e, t) ==
  CASE t.state = "SHUTDOWNPENDING" ->
         [tcb |-> [t EXCEPT !.state = "SHUTDOWNSENT", !.initTimer = TRUE,
                            !.initRetransCounter = 0],
          out |-> {Chunk(e, t, "SHUTDOWN")}]
    [] t.state = "SHUTDOWNRECEIVED" ->
         [tcb |-> [t EXCEPT !.state = "SHUTDOWNACKSENT"], out |-> {Chunk(e, t, "SHUTDOWN_ACK")}]
    [] OTHER -> [tcb |-> t, out |-> {}]

\* sci_allChunksAcked: the control block and the packets it leaves behind.
AllChunksAcked(e, t) ==
  CASE t.state = "SHUTDOWNPENDING" ->
         [tcb |-> [t EXCEPT !.state = "SHUTDOWNSENT", !.initTimer = TRUE,
                            !.initRetransCounter = 0],
          out |-> {Chunk(e, t, "SHUTDOWN")}]
    [] t.state = "SHUTDOWNRECEIVED" ->
         [tcb |-> [t EXCEPT !.state = "SHUTDOWNACKSENT", !.initTimer = TRUE],
          out |-> {Chunk(e, t, "SHUTDOWN_ACK")}]
    [] OTHER -> [tcb |-> t, out |-> {}]

\* The chunk the SACK is for is not counted.
AcknowledgedEarlyFault(e, t, left) ==
  LET a == [t EXCEPT !.unacked = left]
  IN  IF left <= 1 /\ t.shutdownReceived THEN AllChunksAcked(e, a)
      ELSE [tcb |-> a, out |-> {}]

\* A chunk is removed twice.
AcknowledgedTwiceFault(e, t, left) ==
  [tcb |-> [t EXCEPT !.unacked = left - 1], out |-> {}]

\* The acknowledgement of all but left chunks, and the call it leads to when
\* both queues are empty and a shutdown is in progress.
Acknowledged(e, t, left) ==
  LET a == [t EXCEPT !.unacked = left]
  IN  IF left = 0 /\ t.shutdownReceived THEN AllChunksAcked(e, a)
      ELSE [tcb |-> a, out |-> {}]

\* rtx_rcv_shutdown_ctsna measures the retransmission queue, then has fc_sack_info send
\* what waited in flow control, and takes the queue of flow control, now empty, for the
\* end: the chunks left are those that waited.
ShutdownCtsna(e, t, left, waited) ==
  IF waited /\ t.shutdownReceived THEN AllChunksAcked(e, [t EXCEPT !.unacked = left])
  ELSE Acknowledged(e, t, left)

-----------------------------------------------------------------------------
(* Calls of the ULP *)

\* sctp_associate: mdi_newAssociation refuses a second association to the peer.
Associate(e) ==
  LET t == [NewAssociation(nextTag) EXCEPT !.state = "COOKIE_WAIT", !.initTimer = TRUE]
  IN  /\ e \in Initiator /\ tcb[e].state = "CLOSED" /\ nextTag <= MaxTag
      /\ Become(e, t)
      /\ net' = net \cup {InitChunk(e, t)}
      /\ nextTag' = nextTag + 1
      /\ UNCHANGED <<epoch, expired, past>>

\* sctp_shutdown in ESTABLISHED; before it, scu_shutdown is scu_abort, and later
\* it is ignored.
Shutdown(e) ==
  LET t == tcb[e]
  IN  /\ "shutdown" \in Calls /\ t.state = "ESTABLISHED"
      /\ IF ReadyForShutdown(t)
         THEN /\ Become(e, [t EXCEPT !.state = "SHUTDOWNSENT", !.initTimer = TRUE,
                                     !.initRetransCounter = 0])
              /\ net' = net \cup {Chunk(e, t, "SHUTDOWN")}
         ELSE /\ Become(e, [RtxShutdown(t) EXCEPT !.state = "SHUTDOWNPENDING"])
              /\ UNCHANGED net
      /\ UNCHANGED <<nextTag, epoch, expired, past>>

\* sctp_abort, and sctp_shutdown in COOKIE_WAIT or COOKIE_ECHOED.
Abort(e) ==
  /\ "abort" \in Calls /\ tcb[e].state # "CLOSED"
  /\ net' = net \cup {Chunk(e, tcb[e], "ABORT")}
  /\ Delete(e, "COMM_LOST")
  /\ UNCHANGED <<nextTag, epoch, expired>>

\* sctp_send once the association is up: refused by the stream engine when a
\* shutdown procedure has started and by flow control after fc_shutdown.
Send(e) ==
  LET t == tcb[e]
  IN  /\ "send" \in Calls /\ t.state = "ESTABLISHED" /\ t.modules /\ ~t.shutdownReceived
      /\ t.unacked < MaxUnacked
      /\ Become(e, [t EXCEPT !.unacked = t.unacked + 1])
      /\ UNCHANGED <<net, nextTag, epoch, expired, past>>

-----------------------------------------------------------------------------
(* Timers *)

\* sci_timer_expired in a state that waits for the peer: the chunk that is sent again,
\* how often, and the counter.
Repeated(e, t) ==
  CASE t.state = "COOKIE_WAIT"   -> InitChunk(e, t)
    [] t.state = "COOKIE_ECHOED" -> CookieEcho(e, t)
    [] t.state = "SHUTDOWNSENT"  -> Chunk(e, t, "SHUTDOWN")
    [] OTHER                     -> Chunk(e, t, "SHUTDOWN_ACK")

RetransmitLimit(t) ==
  IF t.state \in InitStates THEN MaxInitRetransmits ELSE MaxRetransmits

\* The counter is forgotten.
CountRetransmitFault(t) == t

CountRetransmit(t) == [t EXCEPT !.initRetransCounter = t.initRetransCounter + 1]

TimerRetransmit(e) ==
  /\ tcb[e].initTimer /\ tcb[e].state \in InitStates \cup DrainedStates
  /\ tcb[e].initRetransCounter < RetransmitLimit(tcb[e])
  /\ Become(e, CountRetransmit(tcb[e]))
  /\ net' = net \cup {Repeated(e, tcb[e])}
  /\ UNCHANGED <<nextTag, epoch, expired, past>>

\* The same with no retransmission left: the association is given up.
TimerGiveUp(e) ==
  /\ tcb[e].initTimer /\ tcb[e].state \in InitStates \cup DrainedStates
  /\ tcb[e].initRetransCounter >= RetransmitLimit(tcb[e])
  /\ Delete(e, "COMM_LOST")
  /\ UNCHANGED <<net, nextTag, epoch, expired>>

\* The same in any other state, logged as an unexpected event.
TimerUnexpected(e) ==
  /\ tcb[e].initTimer /\ tcb[e].state \notin InitStates \cup DrainedStates
  /\ Become(e, [tcb[e] EXCEPT !.initTimer = FALSE])
  /\ UNCHANGED <<net, nextTag, epoch, expired, past>>

\* The error counter of the peer exceeds its limit, for outstanding data ...
DataFailure(e) ==
  /\ PathFailures /\ tcb[e].state \in DataStates /\ tcb[e].unacked > 0
  /\ Delete(e, "COMM_LOST")
  /\ UNCHANGED <<net, nextTag, epoch, expired>>

\* ... or for heartbeats, which run from COMM_UP until scu_shutdown disables them.
HeartbeatFailure(e) ==
  /\ PathFailures /\ tcb[e].state \in {"ESTABLISHED", "SHUTDOWNRECEIVED", "SHUTDOWNACKSENT"}
  /\ Delete(e, "COMM_LOST")
  /\ UNCHANGED <<net, nextTag, epoch, expired>>

-----------------------------------------------------------------------------
(* Packets of the handshake *)

\* sctlr_init without an association: nothing is stored but in the cookie.
ReceiveInitNoTCB(e, m) ==
  /\ m.chunk = "INIT" /\ tcb[e].state = "CLOSED" /\ nextTag <= MaxTag
  /\ Consume(m, {InitAck(e, m, nextTag, 0, 0)})
  /\ nextTag' = nextTag + 1
  /\ UNCHANGED <<tcb, epoch, expired, past>>

\* An INIT for an existing association must carry the tag 0.
InitAccepted(e, m) == m.chunk = "INIT" /\ m.vtag = 0 /\ tcb[e].state # "CLOSED"

\* sctlr_init in COOKIE_WAIT: the collision is answered with the own first INIT.
ReceiveInitCookieWait(e, m) ==
  /\ InitAccepted(e, m) /\ tcb[e].state = "COOKIE_WAIT"
  /\ tcb[e].localTieTag = 0 /\ tcb[e].peerTieTag = 0
  /\ Consume(m, {InitAck(e, m, tcb[e].tagLocal, 0, 0)})
  /\ UNCHANGED <<tcb, nextTag, epoch, expired, past>>

\* The same with tie tags, which a stale cookie error leaves in COOKIE_WAIT: they are
\* logged as ERROR_FATAL, and error_log_main then calls abort().
ReceiveInitFatal(e, m) ==
  /\ InitAccepted(e, m) /\ tcb[e].state = "COOKIE_WAIT"
  /\ tcb[e].localTieTag # 0 \/ tcb[e].peerTieTag # 0
  /\ ProcessEnds(e)
  /\ Consume(m, {})
  /\ UNCHANGED <<nextTag, expired>>

\* sctlr_init in COOKIE_ECHOED: the tie tags become two random values.
ReceiveInitCookieEchoed(e, m) ==
  /\ InitAccepted(e, m) /\ tcb[e].state = "COOKIE_ECHOED" /\ nextTag < MaxTag
  /\ Become(e, [tcb[e] EXCEPT !.localTieTag = nextTag, !.peerTieTag = nextTag + 1])
  /\ Consume(m, {InitAck(e, m, tcb[e].tagLocal, nextTag, nextTag + 1)})
  /\ nextTag' = nextTag + 2
  /\ UNCHANGED <<epoch, expired, past>>

\* sctlr_init in the states of an established association.
ReceiveInitEstablished(e, m) ==
  /\ InitAccepted(e, m) /\ nextTag <= MaxTag
  /\ tcb[e].state \in DataStates \cup {"SHUTDOWNSENT"}
  /\ Consume(m, {InitAck(e, m, nextTag, tcb[e].localTieTag, tcb[e].peerTieTag)})
  /\ nextTag' = nextTag + 1
  /\ UNCHANGED <<tcb, epoch, expired, past>>

\* sctlr_init in SHUTDOWNACKSENT.
ReceiveInitShutdownAckSent(e, m) ==
  /\ InitAccepted(e, m) /\ tcb[e].state = "SHUTDOWNACKSENT"
  /\ Consume(m, {Chunk(e, tcb[e], "SHUTDOWN_ACK")})
  /\ UNCHANGED <<tcb, nextTag, epoch, expired, past>>

\* The tie tags are not populated.
CookieEchoedFault(t, m) ==
  [InitAssociation(t, m.initTag) EXCEPT
     !.state = "COOKIE_ECHOED", !.initTimer = TRUE, !.cookieChunk = m.cookie]

\* The control block sctlr_initAck leaves: cookie and tie tags stored, the timer
\* started anew with the counter as it is.
CookieEchoed(t, m) ==
  [InitAssociation(t, m.initTag) EXCEPT
     !.state = "COOKIE_ECHOED", !.initTimer = TRUE, !.cookieChunk = m.cookie,
     !.localTieTag = t.tagLocal, !.peerTieTag = m.initTag]

\* sctlr_initAck: in COOKIE_WAIT only.
ReceiveInitAck(e, m) ==
  LET t == CookieEchoed(tcb[e], m)
  IN  /\ m.chunk = "INIT_ACK" /\ tcb[e].state = "COOKIE_WAIT" /\ m.vtag = tcb[e].tagLocal
      /\ Become(e, t)
      /\ Consume(m, {CookieEcho(e, t)})
      /\ UNCHANGED <<nextTag, epoch, expired, past>>

\* sctlr_cookieAck in COOKIE_ECHOED.
ReceiveCookieAck(e, m) ==
  /\ m.chunk = "COOKIE_ACK" /\ tcb[e].state = "COOKIE_ECHOED" /\ m.vtag = tcb[e].tagLocal
  /\ Become(e, [CommUp(tcb[e]) EXCEPT !.state = "ESTABLISHED", !.initTimer = FALSE,
                                      !.cookieChunk = NoCookie])
  /\ Consume(m, {})
  /\ UNCHANGED <<nextTag, epoch, expired, past>>

\* sctlr_staleCookie: back to COOKIE_WAIT, with timer, counter and tie tags as they are.
ReceiveStaleCookieError(e, m) ==
  LET t == [tcb[e] EXCEPT !.state = "COOKIE_WAIT"]
  IN  /\ m.chunk = "STALE_COOKIE_ERROR" /\ tcb[e].state = "COOKIE_ECHOED"
      /\ m.vtag = tcb[e].tagLocal
      /\ Become(e, t)
      /\ Consume(m, {InitChunk(e, t)})
      /\ UNCHANGED <<nextTag, epoch, expired, past>>

TagsMatch(e, m) ==
  m.cookie.localTag = tcb[e].tagLocal /\ m.cookie.peerTag = tcb[e].tagRemote

\* sctlr_cookie_echo goes on with a cookie that the running process signed and that
\* is fresh, or has the tags of the association.
CookieAccepted(e, m) ==
  /\ m.chunk = "COOKIE_ECHO" /\ m.cookie.key = epoch[e]
  /\ m.cookie \notin expired \/ TagsMatch(e, m)

\* Any other cookie past its lifetime is answered with an error.
ReceiveCookieStale(e, m) ==
  /\ StaleCookies /\ m.chunk = "COOKIE_ECHO" /\ m.cookie.key = epoch[e]
  /\ ~TagsMatch(e, m)
  /\ Consume(m, {[to |-> Peer(e), chunk |-> "STALE_COOKIE_ERROR",
                  vtag |-> IF tcb[e].state = "CLOSED" THEN m.cookie.peerTag
                           ELSE tcb[e].tagRemote]})
  /\ expired' = expired \cup {m.cookie}
  /\ UNCHANGED <<tcb, nextTag, epoch, past>>

\* No association: it is created, initialised and up in one call.
ReceiveCookieNoTCB(e, m) ==
  LET t == [CommUp(InitAssociation(NewAssociation(m.cookie.localTag), m.cookie.peerTag))
              EXCEPT !.state = "ESTABLISHED"]
  IN  /\ CookieAccepted(e, m) /\ tcb[e].state = "CLOSED"
      /\ Become(e, t)
      /\ Consume(m, {Chunk(e, t, "COOKIE_ACK")})
      /\ UNCHANGED <<nextTag, epoch, expired, past>>

\* The ULP is notified of every duplicate.
CookieOfPeerUpFault(t, peerTag) ==
  LET base == IF t.state \in InitStates THEN InitAssociation(t, peerTag) ELSE t
  IN  [CommUp(base) EXCEPT !.state = "ESTABLISHED", !.initTimer = FALSE,
                           !.tagRemote = peerTag]

\* Cases B and D of section 5.2.4 leave this control block: in every state the timer
\* is stopped and ESTABLISHED entered, and the peer's tag is that of the cookie.
CookieOfPeer(t, peerTag) ==
  LET base == IF t.state \in InitStates THEN CommUp(InitAssociation(t, peerTag)) ELSE t
  IN  [base EXCEPT !.state = "ESTABLISHED", !.initTimer = FALSE, !.tagRemote = peerTag]

\* Case C, a late cookie, is taken for case B.
OwnCookieFault(e, m) ==
  m.cookie.localTag = tcb[e].tagLocal \/ m.cookie.peerTag = tcb[e].tagRemote

OwnCookie(e, m) == m.cookie.localTag = tcb[e].tagLocal

ReceiveCookieKnown(e, m) ==
  LET t == CookieOfPeer(tcb[e], m.cookie.peerTag)
  IN  /\ CookieAccepted(e, m) /\ tcb[e].state # "CLOSED"
      /\ OwnCookie(e, m)
      /\ Become(e, t)
      /\ Consume(m, {Chunk(e, t, "COOKIE_ACK")})
      /\ UNCHANGED <<nextTag, epoch, expired, past>>

\* The condition of case A: other tags on both sides, the tie tags those stored.
LooksLikeRestart(e, m) ==
  /\ CookieAccepted(e, m) /\ tcb[e].state # "CLOSED"
  /\ m.cookie.localTag # tcb[e].tagLocal /\ m.cookie.peerTag # tcb[e].tagRemote
  /\ m.cookie.localTieTag = tcb[e].localTieTag
  /\ m.cookie.peerTieTag = tcb[e].peerTieTag

\* The peer's new tag is not stored.
PeerRestartedFault(t, cookie) ==
  [RestartAssociation(t) EXCEPT !.state = "ESTABLISHED", !.tagLocal = cookie.localTag]

\* Case A: the peer has restarted.  A running timer is left running.
PeerRestarted(t, cookie) ==
  [RestartAssociation(t) EXCEPT !.state = "ESTABLISHED",
                                !.tagLocal = cookie.localTag, !.tagRemote = cookie.peerTag]

ReceiveCookieRestart(e, m) ==
  LET t == PeerRestarted(tcb[e], m.cookie)
  IN  /\ LooksLikeRestart(e, m) /\ tcb[e].state # "SHUTDOWNACKSENT"
      /\ Become(e, t)
      /\ Consume(m, {Chunk(e, t, "COOKIE_ACK")})
      /\ UNCHANGED <<nextTag, epoch, expired, past>>

\* Case A in SHUTDOWNACKSENT: the SHUTDOWN ACK again, with an error nobody acts on.
ReceiveCookieShutdownAckSent(e, m) ==
  /\ LooksLikeRestart(e, m) /\ tcb[e].state = "SHUTDOWNACKSENT"
  /\ Consume(m, {Chunk(e, tcb[e], "SHUTDOWN_ACK")})
  /\ UNCHANGED <<tcb, nextTag, epoch, expired, past>>

\* A bad signature, case C, and tags that fit no case.
CookieDiscarded(e, m) ==
  /\ m.chunk = "COOKIE_ECHO"
  /\ \/ m.cookie.key # epoch[e]
     \/ /\ CookieAccepted(e, m) /\ tcb[e].state # "CLOSED"
        /\ ~OwnCookie(e, m) /\ ~LooksLikeRestart(e, m)

-----------------------------------------------------------------------------
(* Data acknowledgements and the packets of the shutdown *)

\* rtx_process_sack, reduced to the chunks it removes: the peer acknowledges all
\* but left of them.  Nothing is called when there was nothing to acknowledge.
ReceiveSack(e) ==
  LET t == tcb[e]
  IN  /\ t.state \in DataStates /\ t.unacked > 0
      /\ tcb[Peer(e)].modules /\ tcb[Peer(e)].tagRemote = t.tagLocal
      /\ \E left \in 0..(t.unacked - 1) :
            LET r == Acknowledged(e, t, left)
            IN  Become(e, r.tcb) /\ net' = net \cup r.out
      /\ UNCHANGED <<nextTag, epoch, expired, past>>

FromPeer(e, m) == tcb[e].state # "CLOSED" /\ m.vtag = tcb[e].tagLocal

\* sctlr_shutdown in ESTABLISHED.  The timer starts with the counter it finds.
ReceiveShutdownEstablished(e, m) ==
  /\ m.chunk = "SHUTDOWN" /\ FromPeer(e, m) /\ tcb[e].state = "ESTABLISHED"
  /\ \E left \in 0..tcb[e].unacked :
       LET t == [tcb[e] EXCEPT !.unacked = left]
       IN  IF ReadyForShutdown(t)
           THEN /\ Become(e, [t EXCEPT !.state = "SHUTDOWNACKSENT", !.initTimer = TRUE])
                /\ Consume(m, {Chunk(e, t, "SHUTDOWN_ACK")})
           ELSE /\ Become(e, [RtxShutdown(t) EXCEPT !.state = "SHUTDOWNRECEIVED"])
                /\ Consume(m, {})
  /\ UNCHANGED <<nextTag, epoch, expired, past>>

\* sctlr_shutdown in SHUTDOWNSENT: both sides have sent one.
ReceiveShutdownSent(e, m) ==
  LET t == tcb[e]
  IN  /\ m.chunk = "SHUTDOWN" /\ FromPeer(e, m) /\ t.state = "SHUTDOWNSENT"
      /\ IF ReadyForShutdown(t)
         THEN /\ Become(e, [t EXCEPT !.state = "SHUTDOWNACKSENT", !.initTimer = TRUE])
              /\ Consume(m, {Chunk(e, t, "SHUTDOWN_ACK")})
         ELSE UNCHANGED tcb /\ Consume(m, {})
      /\ UNCHANGED <<nextTag, epoch, expired, past>>

\* sctlr_shutdown in SHUTDOWNRECEIVED and SHUTDOWNACKSENT.  The state read at the
\* start is written back at the end, after all that rtx_rcv_shutdown_ctsna calls.
\* Which chunks wait in flow control is not kept: any that are left may have waited.
ReceiveShutdownAgain(e, m) ==
  LET t == tcb[e]
  IN  /\ m.chunk = "SHUTDOWN" /\ FromPeer(e, m)
      /\ t.state \in {"SHUTDOWNRECEIVED", "SHUTDOWNACKSENT"}
      /\ \E left \in 0..t.unacked, waited \in BOOLEAN :
            LET r == ShutdownCtsna(e, t, left, waited)
            IN  /\ Become(e, [r.tcb EXCEPT !.state = t.state])
                /\ Consume(m, r.out)
      /\ UNCHANGED <<nextTag, epoch, expired, past>>

\* sctlr_shutdownAck in the two states that wait for the end of the shutdown.
ReceiveShutdownAck(e, m) ==
  /\ m.chunk = "SHUTDOWN_ACK" /\ FromPeer(e, m) /\ tcb[e].state \in DrainedStates
  /\ Consume(m, {Chunk(e, tcb[e], "SHUTDOWN_COMPLETE")})
  /\ Delete(e, "SHUTDOWN_COMPLETE")
  /\ UNCHANGED <<nextTag, epoch, expired>>

\* mdi_receiveMessage: a SHUTDOWN ACK during the handshake, whatever its tag.
ReceiveShutdownAckInit(e, m) ==
  /\ m.chunk = "SHUTDOWN_ACK" /\ tcb[e].state \in InitStates
  /\ Consume(m, {Chunk(e, tcb[e], "SHUTDOWN_COMPLETE")})
  /\ UNCHANGED <<tcb, nextTag, epoch, expired, past>>

\* sctlr_shutdownComplete in SHUTDOWNACKSENT.
ReceiveShutdownComplete(e, m) ==
  /\ m.chunk = "SHUTDOWN_COMPLETE" /\ FromPeer(e, m)
  /\ tcb[e].state = "SHUTDOWNACKSENT"
  /\ Consume(m, {})
  /\ Delete(e, "SHUTDOWN_COMPLETE")
  /\ UNCHANGED <<nextTag, epoch, expired>>

\* sctlr_abort, for an ABORT with either tag of the association.
ReceiveAbort(e, m) ==
  /\ m.chunk = "ABORT" /\ tcb[e].state # "CLOSED"
  /\ m.vtag \in {tcb[e].tagLocal, tcb[e].tagRemote}
  /\ Consume(m, {})
  /\ Delete(e, "COMM_LOST")
  /\ UNCHANGED <<nextTag, epoch, expired>>

-----------------------------------------------------------------------------
(* Packets without effect, out-of-the-blue packets, and the environment *)

\* mdi_receiveMessage without an association: a SHUTDOWN ACK is answered with its
\* own tag, so is what is no part of a handshake, if the library is set to.
ReceiveOOTB(e, m) ==
  /\ tcb[e].state = "CLOSED"
  /\ \/ /\ m.chunk = "SHUTDOWN_ACK"
        /\ Consume(m, {Reflected(e, m, "SHUTDOWN_COMPLETE")})
     \/ /\ m.chunk \in {"INIT_ACK", "SHUTDOWN"} /\ SendAbortForOOTB
        /\ Consume(m, {Reflected(e, m, "ABORT")})
  /\ UNCHANGED <<tcb, nextTag, epoch, expired, past>>

\* The states whose handler does something with a chunk that carries the local tag.
HandledIn ==
  [INIT_ACK           |-> {"COOKIE_WAIT"},
   COOKIE_ACK         |-> {"COOKIE_ECHOED"},
   STALE_COOKIE_ERROR |-> {"COOKIE_ECHOED"},
   SHUTDOWN           |-> {"ESTABLISHED", "SHUTDOWNRECEIVED"} \cup DrainedStates,
   SHUTDOWN_ACK       |-> DrainedStates,
   SHUTDOWN_COMPLETE  |-> {"SHUTDOWNACKSENT"}]

\* Everything else is dropped: by its tag, by its state, or for lack of a TCB.
Discarded(e, m) ==
  \/ CookieDiscarded(e, m)
  \/ /\ tcb[e].state = "CLOSED"
     /\ \/ m.chunk \in {"ABORT", "SHUTDOWN_COMPLETE", "COOKIE_ACK", "STALE_COOKIE_ERROR"}
        \/ m.chunk \in {"INIT_ACK", "SHUTDOWN"} /\ ~SendAbortForOOTB
  \/ /\ tcb[e].state # "CLOSED"
     /\ \/ m.chunk = "INIT" /\ m.vtag # 0
        \/ m.chunk = "ABORT" /\ m.vtag \notin {tcb[e].tagLocal, tcb[e].tagRemote}
        \/ /\ m.chunk \in DOMAIN HandledIn
           /\ ~(m.chunk = "SHUTDOWN_ACK" /\ tcb[e].state \in InitStates)
           /\ m.vtag = tcb[e].tagLocal => tcb[e].state \notin HandledIn[m.chunk]

Discard(e, m) ==
  /\ Discarded(e, m)
  /\ Consume(m, {})
  /\ UNCHANGED <<tcb, nextTag, epoch, expired, past>>

\* The process ends for a reason of its own.
Crash(e) == ProcessEnds(e) /\ UNCHANGED <<net, nextTag, expired>>

-----------------------------------------------------------------------------
Init ==
  /\ tcb = [e \in Endpoint |-> NoTCB]
  /\ net = {}
  /\ nextTag = 1
  /\ epoch = [e \in Endpoint |-> 0]
  /\ expired = {}
  /\ past = [e \in Endpoint |-> [how |-> "NONE", tagLocal |-> 0, tagRemote |-> 0]]

Call(e) == Associate(e) \/ Shutdown(e) \/ Abort(e) \/ Send(e)

Timer(e) == TimerRetransmit(e) \/ TimerGiveUp(e) \/ TimerUnexpected(e)

ReceiveInit(e, m) ==
  \/ ReceiveInitNoTCB(e, m) \/ ReceiveInitCookieWait(e, m) \/ ReceiveInitFatal(e, m)
  \/ ReceiveInitCookieEchoed(e, m) \/ ReceiveInitEstablished(e, m)
  \/ ReceiveInitShutdownAckSent(e, m)

ReceiveCookieEcho(e, m) ==
  \/ ReceiveCookieStale(e, m) \/ ReceiveCookieNoTCB(e, m) \/ ReceiveCookieKnown(e, m)
  \/ ReceiveCookieRestart(e, m) \/ ReceiveCookieShutdownAckSent(e, m)

ReceiveShutdown(e, m) ==
  \/ ReceiveShutdownEstablished(e, m) \/ ReceiveShutdownSent(e, m)
  \/ ReceiveShutdownAgain(e, m)

Receive(e, m) ==
  /\ m.to = e
  /\ \/ ReceiveInit(e, m) \/ ReceiveInitAck(e, m)
     \/ ReceiveCookieEcho(e, m) \/ ReceiveCookieAck(e, m) \/ ReceiveStaleCookieError(e, m)
     \/ ReceiveShutdown(e, m) \/ ReceiveShutdownAck(e, m) \/ ReceiveShutdownAckInit(e, m)
     \/ ReceiveShutdownComplete(e, m) \/ ReceiveAbort(e, m)
     \/ ReceiveOOTB(e, m) \/ Discard(e, m)

PathFailure(e) == DataFailure(e) \/ HeartbeatFailure(e)

Next ==
  \/ \E e \in Endpoint : Call(e) \/ Timer(e) \/ PathFailure(e) \/ ReceiveSack(e) \/ Crash(e)
  \/ \E m \in net : Receive(m.to, m)

Spec == Init /\ [][Next]_vars

\* Timers fire; the event loop owes nothing else to an association.
FairSpec ==
  Spec /\ \A e \in Endpoint : WF_vars(TimerRetransmit(e) \/ TimerGiveUp(e))

-----------------------------------------------------------------------------
(* Properties *)

\* In a state that waits for an answer of the peer the timer runs.  The handlers of
\* SHUTDOWN ACK and SHUTDOWN COMPLETE assert it (lines 1926 and 2002), and without it
\* an association whose packet is lost stays for ever.
TimerGuardsWait ==
  \A e \in Endpoint : tcb[e].state \in InitStates \cup DrainedStates => tcb[e].initTimer

\* SHUTDOWNSENT and SHUTDOWNACKSENT are entered only when the peer has acknowledged
\* everything, and nothing is accepted for sending in them (line 1825).
DrainedBeforeShutdown ==
  \A e \in Endpoint : tcb[e].state \in DrainedStates => tcb[e].unacked = 0

\* SHUTDOWNPENDING has no timer: it is left when the last chunk is acknowledged, so
\* there must be one, and reliable transfer must know that it has to report it.
PendingHasData ==
  \A e \in Endpoint :
    tcb[e].state = "SHUTDOWNPENDING" => tcb[e].unacked > 0 /\ tcb[e].shutdownReceived

\* The tie tags by which COOKIE_ECHOED recognises a collision are set (line 809).
TieTagsEchoed ==
  \A e \in Endpoint :
    tcb[e].state = "COOKIE_ECHOED" => tcb[e].localTieTag # 0 /\ tcb[e].peerTieTag # 0

\* However often a cookie arrives, and whichever side's cookie wins a collision, the
\* ULP hears once that an association is up.
OneCommUp == \A e \in Endpoint : tcb[e].ups <= 1

\* The inductive invariant behind those above, one control block at a time.  A cookie is
\* stored as long as the timer may send it again, and only an association that is
\* initialised has chunks.
SoundTCB(t) ==
  /\ t.state \in InitStates \cup DrainedStates => t.initTimer
  /\ t.state \in DrainedStates => t.unacked = 0
  /\ t.state = "SHUTDOWNPENDING" => t.unacked > 0 /\ t.shutdownReceived
  /\ t.state = "COOKIE_ECHOED" =>
       t.localTieTag # 0 /\ t.peerTieTag # 0 /\ t.cookieChunk \in Cookie
  /\ t.ups <= 1 /\ (t.state \in InitStates => t.ups = 0)
  /\ t.state # "CLOSED" => t.tagLocal # 0
  /\ t.unacked > 0 => t.modules

ControlInv == TypeOK /\ \A e \in Endpoint : SoundTCB(tcb[e])

\* No association has ended, no process has crashed, and no cookie was too old.
FirstLife ==
  expired = {} /\ \A e \in Endpoint : past[e].how = "NONE" /\ epoch[e] = 0

\* Whatever the interleaving of two simultaneous handshakes, two endpoints that are up
\* send with each other's tag, as long as neither has lost an association before.  A
\* stale cookie breaks it: COOKIE_WAIT is entered again with the tag that an earlier
\* cookie of the peer holds, and the COOKIE ACK for that one confirms a later one.
TagsMirrored ==
  FirstLife /\ (\A e \in Endpoint : tcb[e].state \in DataStates)
  => \A e \in Endpoint : tcb[e].tagRemote = tcb[Peer(e)].tagLocal

\* After crashes, aborts and restarts of associations that the same end has set up: if
\* what one end sends reaches the association of the other, the way back is open too.
\* With initiators at both ends it fails, for the reason a stale cookie breaks it.
TagAgreement ==
  expired = {} =>
    \A e, f \in Endpoint :
      /\ e # f /\ tcb[e].state \in DataStates /\ tcb[f].state \in DataStates
      /\ tcb[e].tagRemote = tcb[f].tagLocal
      => tcb[f].tagRemote = tcb[e].tagLocal

\* A ULP that is told that the shutdown is complete knows that the other end of this
\* association has no chunk left that was not acknowledged.  The exception is the
\* SHUTDOWN ACK that ShutdownCtsna sends early, which leaves SHUTDOWNRECEIVED behind.
GracefulEnd ==
  \A e, f \in Endpoint :
    /\ e # f /\ past[e].how = "SHUTDOWN_COMPLETE" /\ tcb[f].state # "CLOSED"
    /\ past[e].tagLocal = tcb[f].tagRemote /\ past[e].tagRemote = tcb[f].tagLocal
    => tcb[f].unacked = 0 \/ tcb[f].state = "SHUTDOWNRECEIVED"

\* Chunks that are outstanding are acknowledged some time, or their retransmissions
\* fail.  It is a premise and not part of FairSpec: flow control may stop sending with
\* chunks queued and no T3 timer (flowcontrol.c:504, 693 and 1208).
DataMoves(e) == WF_vars(DataFailure(e) \/ ReceiveSack(e))

\* Even if every packet is lost, no association stays in a state whose wait the timer
\* guards.  SHUTDOWNPENDING and SHUTDOWNRECEIVED have no timer: they are left if the data
\* moves, all but a SHUTDOWNRECEIVED that has nothing outstanding, which line 1841 writes
\* back after the SHUTDOWN ACK and which only another packet or a failure ends.
WaitsEnd ==
  \A e \in Endpoint :
    /\ []<>(tcb[e].state \notin InitStates \cup DrainedStates)
    /\ DataMoves(e) => []<>(/\ tcb[e].state # "SHUTDOWNPENDING"
                           /\ tcb[e].state = "SHUTDOWNRECEIVED" => tcb[e].unacked = 0)
=============================================================================

# A TLA+ model of sctplib

sctplib is a user-space implementation of SCTP (RFC 4960, with PR-SCTP and a few
extensions) in C. This directory holds TLA+ specifications of its protocol machinery, the
TLC configurations that check them on small instances, and proofs for TLAPS. All paths
below are relative to `src/sctplib/sctp/`.

Everything the library does is a call of the upper layer (ULP), a datagram or a timer, each
dispatched from one poll loop (`adaptation.c`) and run to its end. In most of the
specifications an action is therefore one such call, together with everything it calls in
turn. What is hard about this code is the order of packets and timers: packets of two
handshakes cross, arrive twice, late or never, a process restarts between two of them, and one
call passes through several modules that read each other's state while it changes. Two
specifications look inside a call: `Distribution` splits it where the ULP is called back and
may call the library again, and `EventLoop` where the loop waits in `select()`, without the lock
that a program with several threads may give it.

## 1. Inventory

| Component | State it keeps | Operations | What makes it correct |
|---|---|---|---|
| Association control, `SCTP-control.c` | `SCTP_controlData`: state, the one timer, retransmission counter, tie tags, stored INIT and cookie | `scu_associate/shutdown/abort`, `sci_timer_expired`, one `sctlr_` function per control chunk, `sci_allChunksAcked` | tags of both ends agree after collisions and restarts; no wait without a timer; no shutdown before the data; one COMM_UP |
| Message distribution, `distribution.c` | list of `Association`, list of instances, the current association and addresses, used ports | the ULP's API, `mdi_receiveMessage` (tag checks, out-of-the-blue rules, dispatch), `mdi_send_message`, ULP notifications, creation and removal of associations | a packet reaches at most one association and only with the right tag; a removed association is reached by nothing |
| Bundling, `rbundling.c`, `sbundling.c` | per association one packet under construction for control, SACK and data chunks; a lock | `rbu_rcvDatagram` (the loop over chunks), `bu_put_*`, `bu_sendAllChunks` | no chunk is handled for an association removed by an earlier chunk; SACK before DATA; nothing stays behind |
| Reliable transfer, `reltransfer.c` | list of chunks sent, `lowest_tsn`, `highest_acked`, `newly_acked_bytes`, fast recovery, advanced peer ack point | `rtx_send`, `rtx_process_sack`, `rtx_t3_timeout`, `rtx_rcv_shutdown_ctsna`, `rtx_shutdown` | a chunk leaves the list only when acknowledged or given up; each byte is acknowledged once |
| Flow control, `flowcontrol.c` | chunk queue, per path `cwnd`, `ssthresh`, `partial_bytes_acked`, T3 timer; `outstanding_bytes`, `arwnd` | `fc_send_data_chunk`, `fc_check_for_txmit`, `fc_sack_info`, `fc_fast_retransmission`, `fc_timer_cb_t3_timeout` | never more than cwnd in flight; T3 runs while something is in flight; one probe at zero window |
| Receive control, `recvctrl.c` | cumulative TSN, list of fragments beyond it, list of duplicates, SACK timer and flags | `rxc_data_chunk_rx`, `rxc_create_sack`, `rxc_bubbleup_ctsna`, forward TSN | the cumulative TSN covers exactly what has arrived without a gap; fragments are disjoint and sorted; a SACK is always sent |
| Stream engine, `streamengine.c` | per stream the next SSN, list of PDUs ready, list of chunks not assembled, queued bytes | `se_ulpsend`, `se_recvDataChunk`, `se_searchReadyPdu`, `se_deliver`, `se_ulpreceive` | messages complete, in order per stream, each once; unordered ones never wait |
| Path management, `pathmanagement.c` | per path state, error counter, flags of one heartbeat interval, RTO; error counter of the peer, primary path | `pm_heartbeatTimer`, `pm_heartbeatAck`, `pm_chunksAcked`, `pm_chunksRetransmitted`, `pm_rto_backoff`, enable, disable, primary | a path that works is not declared dead, one that does not is; the association ends only with the last path or the peer's counter |
| Chunk handler, `chunkHandler.c` | an array of chunks under construction, write positions | make, put, read and check of chunk parameters; cookie signing | what is read is what was written; chunk slots are freed |
| Timers and event loop, `timer_list.c`, `adaptation.c` | sorted list of timers, next identifier; polled descriptors | start, stop, restart, `get_msecs_to_nexttimer`, dispatch | a timer fires at most once, not before its time, and never after it was stopped |
| Error handling, `errorhandler.c` | none | one function per error cause | stale cookie errors reach association control |
| Auxiliary, `auxiliary.c`, `md5.c`, `globals.c` | secret key, log settings | serial arithmetic (`before`, `after`, `between`), CRC, MD5, list compare functions | comparison of TSNs and SSNs across the wrap |
| Programs, documents, packaging | - | examples of use | not part of the library |

### How they interact

* A datagram goes from `adaptation.c` to `mdi_receiveMessage`, which finds the association,
  checks tags and chunk combinations, and calls `rbu_rcvDatagram`. That loops over the chunks
  and calls `rxc_`, `rtx_`, `pm_` or `sctlr_` functions.
* `rtx_process_sack` reports to flow control (`fc_sack_info`) and path management
  (`pm_chunksAcked`), and ends in `sci_allChunksAcked` when a shutdown waits for the last
  chunk. This call back into association control is made from inside its own handler of
  SHUTDOWN.
* Timers call back with pointers to an association's identifier; removal of an association
  stops them, and only sets a flag on the association itself until the current call ends.
* ULP notifications are called in the middle of handlers, and the ULP may call the library
  from them. What keeps that apart are the pointers to the current association and instance,
  saved and put back by every function of `distribution.c`: `Distribution`. The other
  specifications treat handlers as atomic.

## 2. Plan

In this order; each step adds its rows to PROJECT.json.

1. `AssocControl`: state machine, tags, cookies, shutdown. Done, with proofs.
2. `PathManagement`: error counters, path states, heartbeats, association loss. Done, with
   proofs.
3. `ReceiveControl`: which TSNs have come, SACKs and their timer, across the wrap of serial
   numbers; it refines `Receiver`. Done, with proofs.
4. `DataTransfer`: the sender, that is reliable transfer and flow control: SACK processing, gap
   reports and fast retransmission, T3, the probe of a closed window, the advanced
   acknowledgement point. Done, with proofs.
5. `StreamEngine`: SSNs, fragments, ordered and unordered delivery, FORWARD TSN. Done, with
   proofs.
6. `EventLoop`: timers and polled descriptors, and what callbacks and a second thread do to
   them. Done, with proofs.
7. `Distribution`: instances, associations, ports, the current association while callbacks call
   the library. Done, with proofs.
8. `Bundling`: packets under construction, and the loop over the chunks of a datagram. Done,
   with proofs.
9. `ChunkHandler`: what the handshake carries, and the state cookie. Done, without proofs.
10. Not begun: the congestion window as an action property of `DataTransfer`; a contract of the ULP
    notifications (up, then data, then exactly one end) which `AssocControl` refines.

The specifications meet in few places (a failed association, a restart, the queue lengths a
shutdown reads), and each has the others' calls as actions; composing them would multiply their
states and show nothing about these interfaces that the parts do not. In `DataTransfer` the
peer is what `Receiver` promises: it has what it told of. In `StreamEngine` chunks come once, in
any order, which is what `ReceiveControl` shows. In `Bundling` a handler is what it puts into
the buffers, and in `Distribution` what it does to addresses and pointers.

## 3. AssocControl

`AssocControl.tla` is the state machine of `SCTP-control.c` and what `distribution.c` does
around it: the tag checks of `mdi_receiveMessage`, `mdi_initAssociation`,
`mdi_deleteCurrentAssociation` and the rules for packets without an association.

**Two endpoints** run the library and each may call `sctp_associate`. At most one association
exists between two address and port pairs, because `mdi_newAssociation` refuses a second one;
so one control block `tcb[e]` per endpoint is the whole state, and CLOSED stands for "none".

| Variable | Code |
|---|---|
| `tcb[e].state`, `initTimer`, `initRetransCounter`, tie tags, `cookieChunk` | the fields of `SCTP_controlData` with these names; the INIT chunk stored with them is a function of the tags |
| `tcb[e].tagLocal`, `tagRemote` | fields of `Association` |
| `tcb[e].modules` | whether `mdi_initAssociation` has created flow control, reliable transfer and receive control |
| `tcb[e].unacked` | chunks in the queue of flow control plus those in the list of reliable transfer; `fc_readNumberOfQueuedChunks` and `rtx_readNumberOfUnackedChunks` |
| `tcb[e].shutdownReceived` | `rtx->shutdown_received` and the flag of flow control, which are set together |
| `tcb[e].ups` | history: COMM_UP notifications |
| `net` | packets under way, one control chunk each |
| `nextTag` | `mdi_generateTag` and `mdi_generateStartTSN` return random 32-bit values; the model assumes they do not repeat and draws them in turn |
| `epoch[e]` | the secret key of `key_operation`, new in each process |
| `expired` | cookies seen after their lifetime. Time only passes, so a cookie once stale remains so |
| `past[e]` | history: how the last association ended, and its tags |

Every handler is an action or, where its cases differ by state, an action per case. A packet
that no handler acts on is consumed by `Discard`, whose guard is the list of tag and state
checks; packets are therefore never stuck. The data path is reduced to what shutdown reads:
`Send` adds a chunk, `ReceiveSack` removes some, and both report as `rtx_process_sack` does.
The verdict of path management on an unreachable peer is `DataFailure` (only with data
outstanding) and `HeartbeatFailure` (while heartbeats are enabled).

The ULP of the model sends only after COMM_UP. Its other calls come at any time.

### Properties

* `TypeOK` the type invariant.
* `TimerGuardsWait` a state that waits for the peer has a running timer. The handlers of
  SHUTDOWN ACK and SHUTDOWN COMPLETE report a fatal error otherwise, which ends the process.
* `DrainedBeforeShutdown`, `PendingHasData` (proved, not run) the shutdown sequence against the data: SHUTDOWNSENT
  and SHUTDOWNACKSENT only with both queues empty, and SHUTDOWNPENDING, which has no timer, only
  if an acknowledgement is still to come and will be reported.
* `GracefulEnd` across both ends: whoever is told SHUTDOWN_COMPLETE knows that the other end
  of that association has nothing unacknowledged, unless the other end is in SHUTDOWNRECEIVED.
  The exception is a defect of the code. In that state a repeated SHUTDOWN calls
  `rtx_rcv_shutdown_ctsna`, which measures the list of reliable transfer, then lets
  `fc_sack_info` send what had to wait in flow control, and then sees the queue of flow control
  empty (`ShutdownCtsna`): the SHUTDOWN ACK goes out behind a chunk that may be lost. Without the
  exception TLC shows a ULP that is told SHUTDOWN_COMPLETE and lacks a chunk of its peer.
* `TieTagsEchoed` (proved, not run) COOKIE_ECHOED can always recognise a collision.
* `TagsMirrored` two ends that are up send with each other's tag, however the packets of two
  simultaneous handshakes were ordered, repeated or lost, as long as neither end has lost an
  association before and no cookie was refused as stale (`FirstLife`).
* `TagAgreement` after crashes, aborts and restarts: if what one end sends reaches the
  association of the other, the way back is open too, again without stale cookies.
* `OneCommUp` duplicates and collisions never notify twice.
* `WaitsEnd` even if every packet is lost, no association stays for ever in a state whose wait the
  timer guards: COOKIE_WAIT, COOKIE_ECHOED, SHUTDOWNSENT and SHUTDOWNACKSENT. SHUTDOWNPENDING and
  SHUTDOWNRECEIVED have no timer, and about them it says less: they are left *if* outstanding data
  is acknowledged or its retransmissions fail in the end (`DataMoves`), which the code does not
  guarantee (section 6), and all but a SHUTDOWNRECEIVED with nothing outstanding, the state of the
  finding below, which only another packet or a failure ends.
* `ControlInv` the inductive invariant of the proofs, `TypeOK` among its conjuncts.

### Runs

All runs have two endpoints. `CHECK_DEADLOCK FALSE` because a run stops when the tags, the
calls or the crashes are used up, which is the end of the bounded experiment and no state the
program is stuck in; which waits do end is what `WaitsEnd` says.

| Run | Instance | Shows |
|---|---|---|
| `handshake` | `MCHandshake`: each behaviour follows one of four plans, below; four tags, one retransmission of the handshake, one chunk, one end of each process, by a crash or `abort()` | `TimerGuardsWait`, `OneCommUp`, `TagsMirrored` and `TagAgreement` |
| `shutdown` | shutdown and abort at both ends, two chunks outstanding (one is not enough for a partial acknowledgement), two retransmissions, unreachable peers, a crash of each process at any moment, three tags so that the initiator can begin anew after one; `FairSpec` | `GracefulEnd` and `WaitsEnd` |
| `claim_shutdown_ack` | as `shutdown`, smaller | violated: see the findings |

What makes the handshake hard does not need all faults at once, and all at once are out of TLC's
reach. In the plan "collision" both ends call `sctp_associate`, in every order of the packets of
both handshakes; four tags are enough for both INITs, one INIT answered without an association
and a second attempt. In "exchange" one handshake, data and shutdown run over a network that
delivers any packet twice, with stale cookies and retransmissions; two tags are enough, as a
duplicated INIT uses them up. In "crash" an association is set up, aborted or lost in a crash
while its packets are under way, and set up again; the initiator may be given up by its ULP
instead of by its timer, which comes to the same. In "stale" both ends call `sctp_associate` and
cookies may be stale, so that an end that is back in COOKIE_WAIT with its tie tags meets the
INIT of the other and ends (`ReceiveInitFatal`); three tags are enough for that.

Two limits were found while choosing the instances and searching for the invariants:

* `GracefulEnd` needs a handshake without retransmissions and duplicates. A late second COOKIE
  ECHO in a shutdown state takes the association back to ESTABLISHED (case D of section 5.2.4
  is entered in every state), and new data can be accepted while the peer's SHUTDOWN ACK is
  under way. The run `shutdown` therefore has `MaxInitRetransmits` zero and no duplicates.
* A COOKIE ACK identifies an association only by the receiver's own tag, so one for an earlier
  cookie can confirm a later one. A stale cookie error makes that possible: `sctlr_staleCookie`
  returns to COOKIE_WAIT with the same tag, and with a third tag TLC refutes `TagsMirrored`
  and `TagAgreement` where an older cookie of the peer is still under way. So do initiators at
  both ends for `TagAgreement`, once an association was aborted or lost in a crash: a COOKIE
  ECHO of the former life reaches the peer while that waits for the answer to its own. The
  properties and the theorems name these conditions.

### Fairness

`FairSpec` says that the timer of an association, once running, is eventually handled
(`TimerRetransmit` or `TimerGiveUp`), and nothing else: the poll loop never waits longer than to the
next timer. Nothing is assumed of the network or the ULP: packets may all be lost.

That outstanding data is eventually acknowledged or its retransmissions fail (`ReceiveSack` or
`DataFailure`) is no part of it. Where T3 runs, it is what T3 and the error counter of path
management lead to; but the sender can come to a halt with chunks queued and no T3 (section 6), and
heartbeats are off during a shutdown. It is therefore the premise `DataMoves` of the part of
`WaitsEnd` that needs it, and where flow control halts nothing is claimed.

### Findings

* `claim_shutdown_ack`: `sctlr_shutdown` in SHUTDOWNRECEIVED reads the state, calls
  `rtx_rcv_shutdown_ctsna`, which may send the SHUTDOWN ACK and write SHUTDOWNACKSENT, and then
  writes the value it read. The association is back in SHUTDOWNRECEIVED, ignores the
  SHUTDOWN COMPLETE, and its timer stops at the first expiry.

Seen while writing the actions, modelled as they are, and without a run:

* `mdi_receiveMessage` accepts a SHUTDOWN COMPLETE with the peer's tag (distribution.c:1305)
  and drops it in the general tag check (1366). SHUTDOWNACKSENT whose peer is gone ends by
  its retransmission limit.
* A SHUTDOWN ACK that meets COOKIE_WAIT or COOKIE_ECHOED is answered with the remote tag of
  the association and not, as the comment at 3551 says, with the tag received.
* A stale cookie error returns to COOKIE_WAIT with tie tags set, and the INIT it sends carries the
  peer's tag. If the peer's own INIT comes next, `sctlr_init` finds the tie tags and reports a fatal
  error at line 802, and `error_log` of ERROR_FATAL ends in `abort()` (`globals.c`:329): the
  process ends, with all its associations. The two assignments behind it that would reset
  the tags are never reached in this case. `ReceiveInitFatal` is this end.
* SHUTDOWNACKSENT inherits the retransmission counter of the state before it.
* A COOKIE ECHO made before this end called `sctp_associate` has zero tie tags; so has
  COOKIE_WAIT; the packet is taken for a restart of the peer (`SCTP-control.c`:1541) and the
  association is up with no data-path module, although the comment at `reltransfer.c`:1011 says
  that a restart finds an association that is established. `UpIsInitialised` in
  `MCAssocControl` states it; with both ends as initiators and three tags TLC refutes it.

### Proofs

`AssocControlProofs.tla` proves for every number of tags, retransmissions, chunks and ends of a process:
`ControlInvariant` (`Spec => []ControlInv`), from which `TypeCorrect`, `WaitsAreGuarded`,
`ShutdownDrains`, `PendingIsWokenUp`, `CollisionsAreSeen` and `UpOnce` follow; and, about both
ends and the packets between them, `CollisionsAgree` (`TagsMirrored`) and `RestartsAgree`
(`TagAgreement`).

The assumptions are those on the constants: `EndpointAssumption` (there are exactly two
endpoints), `BoundAssumption` (bounds are natural numbers) and `SwitchAssumption`.
`RestartsAgree` has one hypothesis more, `Initiator \subseteq {i}` for some endpoint `i`: only
one end calls `sctp_associate`. Without it the property is false, see the limits above.

None of the single properties is inductive. `ControlInv` is their conjunction with four facts:
a stored cookie exists in COOKIE_ECHOED (else the retransmission of the timer would not be a
packet); no COMM_UP has been given in COOKIE_WAIT and COOKIE_ECHOED (else the next would be a
second); an association has a local tag (the INIT ACK that copies it into the tie tags makes
`TieTagsEchoed` depend on it); and chunks exist only where modules do (else `RtxShutdown`
would set no flag and SHUTDOWNPENDING would wait for nothing). The proof has a lemma per
action: `GoodStep` reduces each to the new control block being typed and sound and the packets
sent being well-formed.

For the tags, `NextIsStep` first reduces the many actions to seven kinds of step (`TagStep`):
an end keeps its tags (`Stays`), answers an INIT, opens a handshake, echoes a cookie, has its
cookie confirmed, accepts a cookie, or ends. Two invariants are then proved once per kind.

* `MirrorInv`: during the first lives of both ends, whoever is up faces an end with the same
  tags that is up or will be when the COOKIE ACK arrives; whoever has echoed a cookie uses the
  tags in it; each packet under way, however old, speaks of the tags of the one life of its
  sender. The part that collisions need is `NoTies`: a cookie signed under another tag than
  that of the signer's own handshake was made without an association and has no tie tags, so
  it does not match those of COOKIE_ECHOED and `sctlr_cookie_echo` refuses it.
* `AgreeInv(i)`: `Offered` are the pairs of tags in the INIT ACKs under way, `Echoed` those that
  some end has put its trust in, by a COOKIE ECHO or an association. The tag of the answering
  end fixes that of the initiating one, as it was drawn for one INIT; and of the offers for
  one initiating tag a single one is ever echoed, as `i` leaves COOKIE_WAIT when it does so.
  Neither needs to know how often either end has crashed, which is why the theorem holds for
  every number of crashes.

Only model-checked: `GracefulEnd`, which is true only for the instances described under the
limits, with neither retransmission nor duplicates in the handshake, and `WaitsEnd`, since
liveness is out of the prover's reach.

### Not modelled

Malformed or unrecognised parameters (and the aborts they lead to), zero streams, several
chunks in a packet, address and port matching, durations of timers, and ULP calls made from
inside callbacks.

## 4. PathManagement

`PathManagement.tla` is one `PathmanData` of `pathmanagement.c`, from `pm_newPathman` to
`pm_deletePathman`, and what reads or drives it: the choice of a destination and the T3
time-out of flow control, the removal and the restart of an association in `distribution.c`.

| Variable | Code |
|---|---|
| `pathData[p]` | the fields of `PathData` with these names |
| `pathData[p].hearbeatTimer` | whether the identifier stored in that field is that of a timer in the list; a stale identifier and 0 are alike, since stopping either has no effect |
| `pathData[p].orphans` | how many timers of the path are in the list whose identifier has been overwritten |
| `peerRetranscount`, `primaryPath` | the fields of `PathmanData` |
| `assoc` | `pathData == NULL` before COMM_UP ("setup"), `Association.deleted` ("deleted"), and memory freed ("freed") |
| `working`, `heartbeats` | the network: which paths deliver, and on which of them a heartbeat or its answer is under way. An answer may arrive twice or never |
| `unacked` | the paths with chunks under way, for which flow control runs T3 |

Time is left out, and with it the round trip estimate, `timerBackoff` and `rto`: a timer that
runs may expire at any moment, so every order of expiries and answers occurs. `HeartbeatTimer`
is the whole callback: the error of the interval that ends, the heartbeat of the next if the
path was idle, and the timer started again. The ULP's calls come at any time and are switched
by `Calls`.

Four things the code does are in the model because they decide what can be claimed:

* Only active paths count errors for missing heartbeats (line 357), so an unconfirmed path is
  never declared unreachable by heartbeats alone, and a count of the peer only grows with
  active ones. T3 counts unconfirmed paths too.
* `pm_chunksAcked` is given the path the SACK came over (a CHECKME at `reltransfer.c`:192), so
  that data over one path resets the counter of another.
* A heartbeat that was sent counts as an error although data was acknowledged in the interval.
* `pm_heartbeatAck` starts the timer of a path that becomes active even if its heartbeats are
  disabled.

### Properties

* `TypeOK`; it bounds both counters by their limits, which is not a matter of form: a path that
  were counted once more after it failed would pass them.
* `SomePathActive` an association that is up has an active path. `fc_getNextActivePath` relies
  on it: without one it returns its argument and the data goes to a path known to be dead.
* `WithinLimits` (proved, not run) no active path and no association is kept at or beyond its limit.
* `ErrorsCovered` the counter of the peer is never larger than those of its paths together: the
  association is not given up for errors that an acknowledgement has cancelled.
* `HeartbeatGoesOn` (proved, not run) the timer behind enabled heartbeats runs, whichever way the callback went
  and whatever was switched off and on.
* `DeadPathIsFound`, `WorkingPathIsFound` a path that has failed for good does not remain
  active, one that works is active again and again. Each concerns paths with heartbeats
  enabled from some moment on.

### Runs

| Run | Instance | Shows |
|---|---|---|
| `paths` | two paths, two errors per path and three per peer, so that either limit can be the first to be reached; all calls; restarts; no orphans | `SomePathActive`, `ErrorsCovered` |
| `path_recovery` | the same limits, no calls and no restarts; `FairSpec` | the two liveness properties |

With two paths one can fail while the other is active, unconfirmed or inactive, which are the
cases the code tells apart; a third adds none but for the circle of `fc_getNextActivePath`,
and the theorems hold for any number. `MaxOrphans` is a bound of the model: with 0, `paths`
leaves out the calls of `pm_enableHB` that lose a timer (the safety properties were found to
hold with 1 as well; that instance has 7 million states and is not kept as a run).
`CHECK_DEADLOCK FALSE` because an association that has been freed is the end.

### Fairness

`FairSpec`: heartbeat timers that run expire, T3 expires for chunks over a path that has
failed, and a heartbeat over a path that goes on working is answered. The first two are the
poll loop; the third is what "the path works" means. T3 of a working path may or may not
expire.

### What the code does not promise

* `TimersAreStopped` (`MCPathManagement`, after the comment at `pathmanagement.c`:382) is refuted
  with `MaxOrphans` of one and the calls "enable" and "disable": an answer that arrives after heartbeats were disabled starts the timer of an
  unconfirmed or inactive path. `pm_enableHB` then starts another and overwrites its
  identifier. No later `pm_disableHB` or `pm_deletePathman` can stop the first, which goes
  on after the association is freed, with arguments that point into `pathData`. The
  models end there: what the callback reads then is undefined.

### Proofs

`PathManagementProofs.tla` proves for any number of paths and all limits, calls and restarts:
`PathInvariant` (`Spec => []PathInv`), and from it `PathTypes`, `PathIsLeft`, `LimitsAreKept`
and `HeartbeatsGoOn`. The only assumption is `PathAssumption`: there is a path, and neither
limit is zero. `pm_setMaxPathRetransmisions` accepts zero, with which the counters start at their
limit; that case is outside the model.

`WithinLimits` is not inductive: it speaks of active paths, and an unconfirmed one becomes
active. `PathInv` bounds the counter of every path that is not inactive, and adds types and
the two properties that concern the same state. `ErrorCounted` states once what
`handleChunksRetransmitted` does to all of it; the heartbeat timer and T3 both cite it.

Only model-checked: `ErrorsCovered`, a sum over the paths and so an induction over their
number, and the liveness properties.

### Not modelled

The round trip estimate, the durations of timers, setters of parameters, and the network
status notifications.

## 5. ReceiveControl

`ReceiveControl.tla` is one `rxc_buffer` of `recvctrl.c` with what it needs of its
surroundings: the order in which `rbu_rcvDatagram` handles a datagram, the sender lock and the
SACK buffer of `sbundling.c`, and the queue length of the stream engine. `SerialNumbers.tla` is
the comparison of serial numbers in `globals.c`, with the width as a parameter, and
`Receiver.tla` is the abstract specification: sets of chunk numbers, no serial numbers, no
fragments, no timers.

| Variable | Code |
|---|---|
| `rxc` | the fields of `rxc_buffer` with these names; `sack` is the content of `sack_chunk`. Of `datagrams_received` only -1 and the parity are kept, since it is only ever compared with -1 and taken modulo `sack_flag` |
| `bu` | `sack_in_buffer`, `got_send_request` of the bundling instance, and the SACK copied into its buffer |
| `phase` | where the one thread is: "idle", or in `rbu_rcvDatagram` among the chunks ("chunks"), in the notifications of a FORWARD TSN ("forwarding") or in those at the end of the datagram ("notifying"). The sender is locked in all but the first |
| `hasData` | `data_chunk_received` of `rbu_rcvDatagram` |
| `queued` | `se_getQueuedBytes` |
| `closing` | the association is in SHUTDOWNRECEIVED or SHUTDOWNACKSENT |
| `base`, `handed`, `skipped`, `told`, `unanswered` | history: the peer's initial TSN, the chunks given to `se_recvDataChunk`, the last FORWARD TSN, the last SACK sent, and whether anything has come after it was built |

**The peer** numbers its chunks; TSNs start anywhere. `Deliverable` is the network: any chunk
may come at any time and again, up to `PeerWindow` beyond what the peer knows to be
acknowledged, and not older than `MaxAge` below `ctsna`. Loss is a chunk that does not come.

**A datagram is not one step.** The notifications in the middle and at its end let the ULP read
(`Read`), and a read may build and request a SACK while the sender is locked; what has been put
into the buffer by then leaves in `Unlock`. These are the orders in which a SACK, the chunks it
should tell of, and the SACK timer can miss each other, so the chunks of a datagram are steps
of their own. Between the steps of one datagram there is no timer (`SackTimer` needs "idle").

**Bytes** are counted in units of `MAX_SCTP_PDU`: a chunk is one unit, and the silly window
limit is two (`2 * MAX_SCTP_PDU`), so the window is closed, silly, or open.

Left out: the duplicates listed in a SACK, which nothing here reads; offsets beyond 16 bits and
the early end of the report loop they cause; faulty chunk lengths; and the refusal of a chunk by
the stream engine. Control chunks come before DATA in a datagram.

### Properties

* `TypeOK` (proved, not run) the type invariant.
* `FragmentsAreRuns` `ctsna` is the last chunk up to which all have come or were given up, and
  the list of fragments is exactly the sequence of longest runs beyond it: nothing is lost by
  a merge, no two fragments touch, none lies below `ctsna`.
* `Implements` every step is one of `Receiver` or none: a chunk is handed on once, the cumulative
  point and the chunks beyond it follow from what has come, and a SACK tells of nothing that
  has not come and never goes back. Two mistakes here are silent in a test, since a chunk that
  is taken for a duplicate comes again and one that is handed on twice is noticed by the ULP
  only.
* `NewDataIsTaken` the other direction: a chunk that has not come before is accepted whenever
  the window allows, or if it fills a gap.
* `DataIsAnswered` when no datagram is being handled, DATA that no later SACK has answered finds
  the SACK timer running, and there are no gaps (with gaps the SACK leaves at once).
* `WindowOpens` a peer that was told of a closed window will be told when it opens.
* `CumulativeIsTight` the chunk after `ctsna` has not come. Without overtaking it follows from
  `FragmentsAreRuns`; with it, the code breaks it.

`DataIsAnswered` and `WindowOpens` have an exception, `told.fresh`. A SACK that was put into the
buffer before a DATA chunk of the same datagram (a SACK chunk makes room for data, and
`bu_put_Data_Chunk` adds the SACK of the chunks before) leaves when the sender is unlocked. By
then `rbu_rcvDatagram` has started the timer for the new DATA, and `bu_sendAllChunks` stops it
whatever SACK it sends. Every second datagram the buffered SACK is replaced; otherwise the DATA
remains unanswered until the next datagram or the retransmission of the peer. The peer
recovers, so this is no loss, and it is stated as the exception instead of a finding: no
comment or document of the code promises the timer.

### Runs

| Run | Instance | Shows |
|---|---|---|
| `receive` | TSNs of five bits starting at 30, so that they wrap at the third chunk; five chunks; a restart with another initial TSN; `my_rwnd` of three units (closed, silly and open windows); one gap report per SACK; FORWARD TSNs that do not overtake | all properties but `CumulativeIsTight` |

Five chunks in a window of five allow two fragments with a gap before, between and behind them,
and so each case of `rxc_update_fragments`, with both neighbours present or absent.
`ReceiveAssumption` says what the serial numbers must leave room for. `PeerWindow` + `MaxAge` is
the distance of what is under way, and it must stay below half the modulus, which 32 bits
do for any real window. `PeerWindow` + `MaxGivenUp` must too: a FORWARD TSN moves `ctsna` and not
`highest`, so a peer that gave up half of all serial numbers in a row, with no chunk arriving
between, would make the next chunk look older than `highest`; `MaxGivenUp` is how far `ctsna` may
get beyond it. Chunks are numbered from 1 and fewer than there are serial numbers, so the TSNs
of one association pass the wrap once. `MaxReports` of one leaves out a report when there are two. Reads are of up to two units: with three, and more queued than
`my_rwnd`, the unsigned difference in `rxc_start_sack_timer` wraps, and a read within a
notification that should send a SACK only starts the timer, which the SACK in the buffer
then stops. `queued` needs no bound: a chunk is handed on once. `CHECK_DEADLOCK FALSE` since the
run ends when all chunks have come, all is read and the association is closing.

### What the code does not promise

* `CumulativeIsTight` is refuted with `Overtaking`: `rxc_process_forward_tsn` moves `ctsna` beyond `highest` and does not move
  `highest`. A chunk that the FORWARD TSN overtook is then newer than `highest`, so it skips the
  test for duplicates, which relies on `highest` being up to date (line 172), and is stored
  as a fragment below `ctsna`. There it stays: `rxc_bubbleup_ctsna` stops at the first fragment
  that does not continue `ctsna`, so `ctsna` never moves over later fragments, and the offset of
  that fragment is out of range, so no gap is reported either. In the counterexample, chunk 1 is given up
  and comes late, 3 and then 2 come, and `ctsna` stays at 2.

### Proofs

`ReceiveControlProofs.tla` proves, for every width of the serial numbers, window, number of
chunks and limits, and with or without overtaking:

* `ReceiveTypes` (`Spec => []TypeOK`). The work is in the operators on the list of fragments.
  `UpdateTypes`, `BubbleTypes` and `AdvanceTypes` show that each index they use is one of the
  list; for the case that extends the fragment before a gap this needs that the gap before the
  first fragment starts at `ctsna + 1`, which another branch has caught. `MinIsElement` and
  `MaxIsElement` are derived from the well-foundedness of the natural numbers.
* `AnswersAreSent` (`Spec => []DataIsAnswered`). The property speaks of "idle" only and is not
  inductive. `AnswerInv` adds what holds on the way through a datagram: among the control chunks
  the timer runs or a SACK is about to leave; at the end of a datagram with DATA the timer is
  relied on only if there are no gaps. The step that matters is `EndChunks`: `DueWithGaps` shows
  that with gaps a SACK is due after any datagram with DATA, which needs that
  `datagrams_received` is no longer -1.

* `WindowsReopen`: `WindowOpens` in every behaviour without a `ReadWraps` step, a read that makes
  `my_rwnd - oldQueueLen` wrap. `WindowInv` follows the SACK with window zero through
  the buffer of the bundling instance to the peer: while it waits in the buffer, less than two
  units are free; once it was sent, that still holds, or the SACK timer runs, or another SACK
  waits in the buffer.

These three use of `ReceiveAssumption` only that the initial TSNs are TSNs and the limits
positive. The second half of the module proves what depends on the serial numbers and on the order of the
fragments, if no FORWARD TSN overtakes a chunk (`~ Overtaking`):

* `ReceiverInvariant` (`Spec => []ReceiverInv`). `ReceiverInv` is `TypeOK` and `Views`: the
  buffer agrees with the history (`Agrees`: the fragments lie in order between `ctsna` and
  `highest` and do not touch, and hold exactly the chunks beyond `ctsna` that were handed on; what
  is below came or was given up), all TSNs are near the point that the peer was told of
  (`InWindow`), and every SACK, built, waiting in the bundling buffer or sent, tells of nothing
  that is not there (`Honest`, `Leaves`). None of these is inductive alone: the window makes
  the comparisons right, the comparisons keep the list in order, the order makes the SACKs
  honest, and honest SACKs bound the window of the peer.
* `FragmentsAlwaysRuns`, `AlwaysTight` and `NewDataAlwaysTaken`: `FragmentsAreRuns`,
  `CumulativeIsTight` and `NewDataIsTaken` follow from the invariant (`RunsOfChunks`) and from what
  one chunk does (`DataView`).
* `ReceiverImplements` (`Spec => Implements`), the refinement. `ReceiverSteps` maps each
  action: a chunk that is new to `Accept`, a FORWARD TSN to `GiveUp`, a restart to `Restart`, and
  everything else to `Acknowledge` if it sends a SACK and to a stutter if not.

The proofs go from the bottom up. `PositionOf` to `Compare` and `Betweens`: within half the modulus
`before`, `after` and `between` are <, > and <= of positions, whatever the wrap. `Spliced` and
`Dropped`: what replacing a range of fragments by one, or dropping the first ones, does to an
ordered list and to the set it stands for (`HeldIn`). With these each branch of
`rxc_update_fragments` is an instance of `Spliced` (`UpdateView`), the bubbling and the FORWARD TSN
of `Dropped` (`ReceiveView`, `AdvanceView`), and `Duplicates` says that the test for duplicates is
exact. `ReportView`, `OnwardKeeps` and `BuildView` do the same for SACKs. `ReceiverIsKept` has one step
per action.

Every property of the run is proved. Proved for fewer chunks than serial numbers only is
everything in the second half (`LastChunk + 1 < Modulus`). With `Overtaking` the invariant is
false (`CumulativeIsTight` above).

### Not modelled

The list of duplicates, the address a SACK is sent to, packets that overflow while the sender
is locked, and what receive control does for an association that is removed.

## 6. DataTransfer

`DataTransfer.tla` is the sender of one association: the `rtx_buffer` of `reltransfer.c` and
the `fc_data` of `flowcontrol.c`. It is an operator per function from one state of the sender
to the next, so that the calls of a handler are composed in the order of the code, and an action
per event.

| Variable | Code |
|---|---|
| `snd.chunk[n]` | the `chunk_data` of the chunk with the n-th TSN; `sent` is `num_of_transmissions > 0` |
| `snd.unacked`, `snd.queue` | the lists of chunks of `rtx_buffer` and of `fc_data`. Both are sorted by TSN and have no duplicates, so they are sets |
| `snd.lowest_tsn` ... `snd.lastSentForwardTSN` | the fields of `rtx_buffer` with these names; `lastReceivedCTSNA` always equals `highest_acked`, and `newly_acked_bytes` is zero between events |
| `snd.closing` | "pending" and "received" are `shutdown_received` after the call of the own ULP and after the peer's SHUTDOWN; "sent" and "answered" mean that SHUTDOWN or SHUTDOWN ACK has been sent; "rewritten" that `sctlr_shutdown` has written SHUTDOWNRECEIVED back after the SHUTDOWN ACK (`SCTP-control.c`:1841), with `shutdown_received` still set |
| `snd.tsn` ... `snd.doing_retransmission` | the fields of `fc_data` with these names, `cparams` split into functions of the path |
| `views` | the peer and the network: the sets of chunks the peer had, oldest first. A SACK or a SHUTDOWN carries any of them, so they are lost, repeated, delayed and reordered |

Abstractions:

* A chunk, the MTU of a path and `MAX_MTU_SIZE` are one unit. Comparisons that add an MTU
  less one (line 639 of `flowcontrol.c`) come out as "fits as long as the window is not
  exceeded before".
* Paths fail and recover, and the primary path changes, between any two events, so that
  `fc_select_destination` may choose any path. That is more than `PathManagement` allows
  in one respect: a path without a failure may be avoided.
* A SACK may come over any path and with any window. Time is left out: lifetimes, RTO
  and round trips pass or do not (`expired`, `idle`, `rtt`).
* The peer does not renege, but a SACK that arrives late without gap reports looks like it.
* Gap reports are counted up to `GapLimit`; beyond it they make no difference.

### Properties

* `TypeOK` the type invariant; it has no counter below zero, which in the code is a counter
  close to 2^32.
* `ListsAgree` the lists share their chunks. A chunk queued for another transmission is still
  in the list of reliable transfer (else flow control would hold freed memory), that
  list has no hole, and what was never sent is in the queue.
* `InFlightIsTimed` every chunk in flight that is not about to be sent again is covered by the
  T3 timer of the path it was last sent to, although SACKs over other paths stop and start
  timers.
* `DrainIsReported` a shutdown that waits for the last acknowledgement was not passed over, and
  SHUTDOWN is sent with nothing left. It says nothing of "rewritten", where the SHUTDOWN ACK is out
  and the state says that it is not (the finding of section 3).
* `NothingIsForgotten` a chunk without lifetime stays with the sender until the peer has it.
* `ForwardIsHonest` a FORWARD TSN covers nothing that was not given up or has not arrived.

### Run

| Run | Instance | Shows |
|---|---|---|
| `data` | two paths, two chunks, the first with a lifetime; initial window of four; SACKs with a window of zero or four; two gap reports instead of four | the five properties after `TypeOK` |

Two chunks over two paths give the cases in which the lists and the timers depend on
each other: one chunk in flight on each path, one requeued while the other is acknowledged, one
given up before or behind the other. Two gap reports reach fast retransmission with
the SACKs that two chunks provoke. The properties were also found to hold for one path and four chunks
(179 thousand states) and for two paths and three chunks without lifetimes (175 thousand
states), which are not kept as runs. `Word` stands for 2^32 and only bounds
`partial_bytes_acked`. `CHECK_DEADLOCK FALSE` because the run ends when all is acknowledged.

### What the code does not promise

Two properties one would expect do not hold of the code; both concern liveness, and neither is
kept as a run:

* "Something to send or to be acknowledged means that some T3 runs." It fails for two chunks:
  T3 gives up the only chunk of its path (`rtx_t3_timeout` returns zero), and
  `fc_timer_cb_t3_timeout` returns (line 504) without looking at its queue and without a
  timer for the FORWARD TSN. If that is lost, or the queue is not empty, the next call of the
  ULP or the next SACK has to restart the sender.
* "Blocked by a closed window means that a probe is in flight." It fails for three chunks over two
  paths: after T3 a chunk waits in the queue; a SACK with window zero over the other path
  leads to fast retransmission; `fc_check_t3` stops the timer of that path, where nothing is in
  flight; `fc_fast_retransmission` sets `one_packet_inflight` because not all is acknowledged
  (line 1208), where `fc_sack_info` looks at `outstanding_bytes`; and `fc_check_for_txmit`
  returns at line 693. Nothing is in flight, no timer runs, and the peer has no reason to send.

Also seen, modelled as it is: after T3 more than one packet may leave although the comment at
line 556 says that one is (`t3_retransmission_sent` is set after the loop);
`doing_retransmission` keeps its value if the queue is exhausted; `partial_bytes_acked` is
reduced by `cwnd` after `cwnd` was increased (line 1093) and can wrap.

### Proofs

`DataTransferProofs.tla` proves for every number of chunks and paths, any windows, limits and
`Word`, with and without PR-SCTP: `DataInvariant` (`Spec => []DataInv`), and from it
`DataTypeCorrect`, `ListsAlwaysAgree`, `InFlightAlwaysTimed`, `DrainAlwaysReported`,
`NothingEverForgotten` and `ForwardAlwaysHonest`: type correctness and the five properties of the run.
The only assumption is `DataAssumption`.

`DataInv` has a part for each thing a handler keeps:

* `Numbers` the order of the TSNs the two buffers keep: `highest_tsn` before `tsn`, neither the
  advanced peer ack point nor `lastSentForwardTSN` beyond what was sent.
* `Lists` is `ListsAgree` with what makes it inductive: reliable transfer keeps only what has been
  sent, and a chunk counts as transmitted exactly as long as it is kept.
* `Timed` is `InFlightIsTimed`, with an argument: the chunks that are in the middle of a handler on
  their way to the queue, when they are neither timed nor queued.
* `Covered` relates the sender and the peer: a chunk without lifetime is in one of the lists or the
  peer has seen it; what is given up has a lifetime; the advanced peer ack point and a FORWARD TSN
  pass over chunks that were seen or have a lifetime. `NothingIsForgotten` and `ForwardIsHonest`
  follow.
* `Reported` is `DrainIsReported`, and `SeenGrows` says that what a SACK tells, however old, the peer
  still has. Without it a late SACK could free chunks the peer lacks.

A handler is a composition of operators, and so is the proof. There is a lemma per operator of
`reltransfer.c` and `flowcontrol.c` (`TxmitGood`, `DequeueGood`, `FastRetransmissionGood`,
`ProcessSackGood`, `T3TimeoutGood`, ...), which says what of the invariant the operator keeps, what it
leaves unchanged and which chunks it leaves untimed for its caller; a lemma per action
(`SackStep`, `T3Step`, ...) then follows the order of the calls.

Only model-checked: nothing of the properties above. Liveness, which the code does not promise,
is described before.

### Not modelled

Restart (where `mdi_restartAssociation` frees the chunks of reliable transfer before
`fc_restart` walks its queue, which may contain them), retrieval of unsent and unacknowledged
chunks, chunk sizes and bundling, the array of 500 chunks, limits of the send queue, the
streams listed in a FORWARD TSN, and the end of the association by path management.

## 7. StreamEngine

`StreamEngine.tla` is both halves of `streamengine.c`: the sender that cuts messages into chunks
and numbers them, and the receiver that puts them together, announces them and hands them out.

| Variable | Code |
|---|---|
| `peer` | the sender: `SendStreams[].nextSSN`, and the chunks sent, in the order of their TSNs |
| `se` | the fields of `StreamEngine` and of its streams with these names. `List` is sorted by TSN and so a set of chunk numbers; a PDU is an interval of them with its `read_position` |
| `came`, `point` | the chunks receive control has passed on, each once and in any order, and `rxc->ctsna` |
| `scan` | `tmp` and `firstItem`, the variables of the loops of `se_searchReadyPdu` |
| `phase`, `hasData`, `upTo` | where `rbu_rcvDatagram` is; `data_chunk_received`; the argument of `se_deliver_unreliably` |
| `aborted` | `scu_abort` was called for a protocol violation |
| `given`, `kept`, `announced` | history: what FORWARD TSNs told of, what of it the drop left in the list, and the order of the announcements |

`UlpSend` is `se_ulpsend`; `RecvDataChunk` stores a chunk; `ForwardTSN` is
`se_deliver_unreliably` from the streams of the chunk to the search it starts; `EndDatagram` is
the notification at the end of a datagram with DATA. The search takes a step per iteration
(`SearchBegin` with no PDU begun, `SearchFragment` with one), because a mistake there is one of the
state carried from one iteration to the next. `DeliverWaiting` is an announcement, and between two
of them the ULP may read (`UlpReceiveFrom`).

### Properties

* `OrderKept` the ordered messages of a stream are announced in the order in which they were sent, each
  at most once. It has two exceptions, which are what the code does: it says nothing once the peer
  has given up an unordered chunk, and a message of which the drop kept the first chunk at the wrap of
  the TSNs may come behind later ones (both below).
* `DeliveredWhole` a PDU is one message, all of it, though fragments of several wait in one list.
* `QueuedBytesExact` the count of bytes from which receive control makes the advertised window
  agrees with the three places they wait in.
* `NothingReadyWaits` one search finds all that can be announced; no other follows before the next
  DATA.
* `ReliableArrives` until the first FORWARD TSN each message is announced as soon as it and, if ordered, all
  before it have come.

### Run

`streams` (`MCStreams`): TSNs of four bits from 14 and SSNs of four bits from 15, so that both wrap,
reads of two bytes, which take a message in one part or several, and one of two plans, since both at once are
out of TLC's reach:

* four chunks on two streams, messages of one or two fragments (`Lengths` 2 and 3, two bytes in
  a chunk), ordered or not. That is two fragmented messages that interleave, or one between
  two single ones, on one stream or on two;
* five chunks on one stream, ordered messages of one or three fragments. Five chunks are the fewest
  with which a message that the drop keeps at the wrap of the TSNs is completed behind a later one.

The peer has PR-SCTP and may give up any chunk, so that both exceptions of `OrderKept` are reached:
without either of them TLC refutes it. The peer sends before anything arrives, which leaves out no
order of arrivals. `StreamAssumption` keeps the numbers under way below half of the range of SSNs.
The run has 3.4 million states.

### Proofs

`StreamEngineProofs.tla` proves, for any number of streams and chunks, any lengths and any width
of the serial numbers that `StreamAssumption` allows:

| Theorem | States |
|---|---|
| `StreamInvariant` | the inductive invariant `StreamInv` |
| `MessagesWhole` | `DeliveredWhole` |
| `NothingReadyEverWaits` | `NothingReadyWaits` |
| `ReliableAlwaysArrives` | `ReliableArrives` |
| `OrderAlwaysKept` | `OrderKept` |

None of them has a hypothesis beyond `StreamAssumption`: with and without PR-SCTP, whatever the peer gives
up. Where the code does not keep the order, `OrderKept` says so.

`StreamInv` has three parts. `Base` is types, what the peer has sent (`PeerSound`: messages one
behind the other; `PeerNumbered`: how far the SSN of a chunk is behind the next one of the peer,
its `Place`, is the number of ordered messages from there on, which turns the comparisons modulo
2^16 into those of numbers), and where the chunks are (`ChunksSound`, `ScanSound`, `PDUsSound`:
while a PDU has begun, the chunks from its first to the last one seen are all in the list).
`DeliveredWhole` follows from it alone. `SearchExact` says that what is ready is at or behind the
cursor of the search or waits for a search to come; `NothingReadyWaits` needs that the search never
passes a chunk that becomes ready within it, and this holds even where `nextSSN` was set wrongly.

The third part holds as long as no unordered chunk was given up (`Numbered`, a predicate of the
state: until then `nextSSN` has a meaning, and `NextSound` bounds it). `ArrivedSound` says that what
has left the list while nothing is given up are whole messages that were announced or are about to
be, and on each stream those up to `nextSSN`: `ReliableArrives` follows. `OrderSound` says that a
message that can still be announced is behind all that were; it is what the drop in
`se_deliver_unreliably` has to restore after a FORWARD TSN has moved `nextSSN`, and it excepts the
chunks that the drop has kept (`kept`), which are all before what can still be announced. TLC
checked these parts as invariants, on the bounds of `streams`, before they were proved.

`QueuedBytesExact` stays model-checked: it is about sums over sets and lists, and what a sum is can only be
proved by induction over the set. For the same reason the proofs do not say that
`queuedBytes` is a number: the invariant has a set `V` of whatever bytes are counted in.

### What the code does not promise

* The order of a stream once an unordered chunk is given up: the FORWARD TSN lists it with the SSN 0,
  and `nextSSN` of its stream is set to 1, back or forward. This is the first exception of `OrderKept`.
* `NoFalseAlarm`: an unordered chunk (SSN 0) behind an ordered one of its stream in the list looks as if
  SSNs fell, and the association is aborted (`streamengine.c`:715). `AbortsBlameMix` says
  that this is the only case; both are defined in the module and are not part of the run.
* The order of a stream at the wrap of the TSNs: what a FORWARD TSN passes over is dropped as long as
  `tsn <= up_to_tsn`, of unsigned integers (line 989), so that at the wrap chunks are kept that should not
  be. If the last fragment of their message comes late, the message is announced behind a later
  one, against `doc.txt`:76 ("held back in the Stream Engine, if they do not arrive in order"). This
  is the second exception of `OrderKept`. TLC finds it in the second plan: 14 is the first
  message, 15, 0 and 1 the second and 2 the third; 15, 0 and 2 come, a FORWARD TSN gives up 14 to
  0, the third message is announced, then 1 comes, and the second one is.
* FORWARD TSN may set `nextSSN` back when chunks of it have come and were announced. Fragments of which the first was dropped stay in the list, and in
  `queuedBytes`, until the association ends.
* After the abort, what was already complete is still announced. `se->List` is not freed with the
  engine.

### Not modelled

The limit of messages and bytes the ULP sets, lifetimes (the peer may give up any chunk that has
one), the notification of partial delivery, memory that runs out within `se_ulpsend`, where the
fragments already queued remain and no further ones follow (line 437).

## 8. EventLoop

`EventLoop.tla` is `timer_list.c` and the part of `adaptation.c` that polls and dispatches.

| Variable | Code |
|---|---|
| `poll_fds` | the entries in use of `poll_fds` and `event_callbacks`, which are moved together. `new` is whether `revision` is newer than the poll under way; `seen` is history |
| `ready`, `failed` | what the kernel would report |
| `phase`, `polling`, `at`, `called` | where the thread of the loop is: outside, in `select()`, back without the lock, at an entry of `dispatch_event`, in a callback or a timer; its descriptor sets; its index |
| `timer_list` | the list; `left` is the time until the timer is due, -1 all the past; `running` is the item `dispatch_timer` holds a pointer to |
| `held`, `armed` | the identifier each user of timers holds, and (history) whether its timer should go off |

The lock is not a variable: `Unlocked` says in which phases it is free. Then `Register`,
`Unregister`, `Consume`, `StartTimer`, `StopTimer` and `RestartTimer` may happen, by a callback or by
another thread. `adl_extendedGetEvents` gives the lock back before it dispatches, and
`adl_extendedEventLoop` keeps it; the model has both (`polling.caller`).

### Properties

* `NoStaleEvent` no callback runs for an event from before its descriptor was registered, even if
  the descriptor was removed, emptied and registered again while `select()` ran.
* `DueFirst` the list is sorted by time, through restarts and starts from within callbacks.
* `ArmedIsListed` a timer that was started is on the list under the identifier its owner has, until
  it goes off, is stopped or is started anew. What removes another timer leaves it there. It is proved
  (below) and not checked by the run, where `TimersFire` says more.
* `TimersFire` each timer goes off unless stopped or restarted.
* `EventsReported` a registered, readable descriptor is reported, however the entries before it
  come and go.

### Run

`events`: two descriptors of which one is an SCTP socket; two owners of timers; times of 0 to 2
ms. A behaviour follows one of three plans (`MCEventLoop`): two descriptors, two timers, or one of
each. Timers and descriptors meet in the phases of the loop only, for which one of each is enough; two
entries are what `adl_remove_poll_fd` needs to move one to an index the dispatch has passed, and two
timers what the order needs. Identifiers are taken from a finite set: any that nobody knows stands
for `tid++`.

**Fairness.** The ULP calls the loop again and again, and not only `sctp_getEvents`, which leaves
timers alone; callbacks return; time passes; `select()` is not interrupted for ever. A socket is
strongly fair in receiving packets that are its own, because a foreign datagram (another port, with
SCTP over UDP) ends the dispatch (`break` at line 1302) and the entries behind it wait for the next
poll.

### What the code does not promise

* With `SelfRestart`, a timer restarted from its own callback is removed when the callback returns
  (`adaptation.c`:1380), and never goes off. The library does not do it: its callbacks start a new one.
* A descriptor with an error and data is called back twice. A descriptor registered twice breaks
  `adl_remove_poll_fd`. Timers of zero delay that start themselves again keep the loop from
  polling. With no descriptor at all `extendedPoll` returns at once instead of waiting. A timer started
  by another thread while the loop is in `select()` waits until that times out.

### Proofs

`EventLoopProofs.tla` proves for any descriptors, any size of the table, any finite number of owners
of timers and any delays: `EventInvariant` (`Spec => []EventInv`), and from it `EventTypes`,
`NeverStale`, `AlwaysDueFirst` and, where `SelfRestart` is FALSE, `ArmedAlwaysListed`. The assumption
is `EventLoopAssumption`.

`EventInv` has three parts. `Timers` says of the list that it is in order, that identifiers differ,
that each item is the one whose callback runs or waits under the identifier of its owner, that
there is one such callback at most, and that no two owners have the same identifier. Without the
last two, `adl_stopTimer` could remove the timer of another owner, and `remove_timer` more than one.
`Entries` says of the table that every entry has seen the events there are now, and an entry that
is not new those that `select()` found for its descriptor: `NoStaleEvent` follows when
`extendedPoll` takes the lock again. `Loop` bounds the index of `dispatch_event`.

`OneLess` and `OneMore` state what a list is after an element was removed or put in;
`RemoveSound`, `WithoutSound` and `InsertSound` carry the order and the identifiers through them.
`NewIdIsNew` counts: the owners know at most as many identifiers as there are owners, and the list
holds one more at most, that of the timer whose callback runs, so that `Ids` always has a free one.

Only model-checked: `TimersFire` and `EventsReported`, which are liveness.

### Not modelled

The wrap of identifiers after 2^32 timers, a clock that is set back, sockets and their options, the
conversion of addresses, and the ULP's lock functions themselves.

## 9. Distribution

`Distribution.tla` is `distribution.c`: which association a datagram, a timer or a call is for, and
that everything called on its behalf works on that one.

| Variable | Code |
|---|---|
| `instances`, `lastName`, `portsSeized`, `users`, `polled` | `InstanceList`, `lastSCTP_instanceName`, the ports taken, `ipv4_users` and `ipv6_users`, and the registration of the sockets |
| `assocs`, `AssociationList`, `nextId` | memory cells of associations, the list sorted by ID, `nextAssocId`. A deleted association remains in the list until the ULP deletes it |
| `current`, `instance`, `lastFrom` | `currentAssociation`, `sctpInstance`, `lastFromAddress` |
| `stack` | what has been entered and not left: a datagram or timer, callbacks, calls of the ULP from them, and so on, each with the pointers it saved |
| `strayed` | history, see below |

`Found`, `FoundInstance` and `Verdict` are the path through `mdi_receiveMessage`: the association by
source address or by an address in an INIT or INIT ACK, the rules for packets out of the blue, the
tags. What the other modules do with a datagram is reduced to the addresses and the state they
write and to the callbacks they make (`Handle`, `Accept`, `Notif`).

### Properties

* `CurrentIsRight` whatever callbacks call whatever functions, the library is at work on the
  association it was entered for, and on none when it is idle.
* `LiveIsFound` an ID means the same association until it is deleted, through the wrap of IDs and with
  deleted ones in the list.
* `OwnIsDelivered` what the peer sends, from any of its addresses to any address of the instance,
  reaches its association.
* `ListenersServed` while an instance is registered its port is its own, its sockets are polled and
  INITs to it are passed on.

### Run

`distribution`: two cells, IDs up to 3, names up to 2 (all wrap), a host with an IPv4 and an IPv6
address, a peer with two addresses and one with one, two ports, a stack of four. Behaviours have
one of three plans (`MCDistribution`): "calls", in which callbacks call any function, on one instance,
until each ID has been given once (three associations, two at a time); "IDs", in which associations
come and go and IDs wrap; and "instances", in which instances come and go, IDs wrap, and next to an
association that lives there may be a deleted one, which the ULP frees before the other one ends.
A stack of four is an event, its callback, a call from it, and the callback of that. The cells and the two
addresses of a peer are symmetric, and the run checks invariants only. Nothing is lost by
`CHECK_DEADLOCK FALSE`: IDs of deleted associations that the ULP never frees may fill the cells.

### Proofs

`DistributionProofs.tla` proves `DistributionInv`, for hosts of any number of addresses that share
none (`DistributionAssumption`), any finite number of cells and ports, IDs and names that wrap anywhere,
and stacks of any depth. Its parts, beside the types:

* `ListSound`: the list holds what is in memory, each once, in the order of the IDs; and of those with
  the same ID all but the first are deleted. This is what a wrapped `nextAssocId` leaves: an ID is
  given again only when no live association has it, and the new one is put in front.
* `InstancesSound`: the ports taken are those of the instances, no two have the same, and none goes
  while it has associations.
* `UsersCounted`: `ipv4_users` and `ipv6_users` are the numbers of instances that use the family, and
  sockets are polled as long as these are not zero. Only if no ULP unregisters an instance in use.
* `HostsApart`: two live associations with the same ports are not with the same host. Only if no second
  one is begun over another address.
* `Nested`: a frame that is at work on an association has its pointers, or gets them back when the frame
  above it is left. Only if no ULP deletes what is worked on or sets a primary path early.

The last three are implications, so that what they need of a ULP or a peer is a hypothesis of just the
theorem that needs it, and `TypeCorrect` and `LiveAlwaysFound` need nothing:

| Theorem | Property | If no ULP or peer has the habit |
|---|---|---|
| `TypeCorrect` | `TypeOK` | |
| `LiveAlwaysFound` | `LiveIsFound` | |
| `CurrentAlwaysRight` | `CurrentIsRight` | "delete in use", "primary early" |
| `OwnAlwaysDelivered` | `OwnIsDelivered` | "second address" |
| `ListenersAlwaysServed` | `ListenersServed` | "unregister in use" |

A step is split into what it does to the list and the instances and what it does to pointers and stack:
one lemma for each way the list changes (an association is new, updated, removed), one for each way the
stack does (an event, a callback, a call, a return), and then one for each action. The invariant
was checked by TLC on the run `distribution` before it was proved.

### What the code does not promise

`Habits` names what a ULP or a peer may do that the code is not up to; the run has none of them.

* "delete in use": `sctp_deleteAssociation` sets `currentAssociation` to NULL and does not put it
  back. From the callback of COMM_UP, `mdi_communicationUpNotif` then reads through it; from a callback
  that told the end of another association, the handler below is left without one; of the
  association that is being handled, memory is freed under it.
* "primary early": `sctp_setPrimary` leaves `currentAssociation` set when it returns early.
* "unregister in use": `sctp_unregisterInstance` counts the users of a socket down before it refuses.
* "second address": an association begun over one address of a peer and another over a second one
  are not recognised as the same until both have told all addresses; the addresses in an
  INIT ACK or a cookie are not compared with those of other associations.
* `NothingStrays` (defined, not run): an ABORT or SHUTDOWN for one association, called from a
  callback while a datagram of another is handled, goes to the source of that datagram.
* `PeersTagAccepted` (defined, not run): a SHUTDOWN COMPLETE with the peer's tag, accepted at line 1305,
  is dropped at line 1366.
* An instance bound to INADDR_ANY is found for a datagram over IPv6 and then refuses it.
  `sctp_setLibraryParameters` and `sctp_setAssocStatus` apply some of their parameters before they
  return an error.

### Not modelled

Memory that runs out, the addresses of the host changing, UDP encapsulation, statistics, and parameters that
only other modules read.

## 10. Bundling

`Bundling.tla` is `sbundling.c`, the chunk loop of `rbundling.c`, and the use `errorhandler.c` makes
of them. There is one buffer per association and a global one, `mdi_readBundling` leads to
one of them, and which one changes in the middle of a datagram when an association is created or
removed.

| Variable | Code |
|---|---|
| `buffers[o]` | the bytes of control chunks, SACK and DATA in a buffer; `locked`, `got_send_request`, `requested_destination`; whether the SACK timer runs. `owed` and `tooLong` are history |
| `alive`, `current` | whether there is an association, and whose buffer is in use |
| `phase`, `left`, `forward`, `from`, `dataSeen`, `sendIt` | the variables of the loop; `forward`: whether the next chunk is a FORWARD TSN, and one that `mdi_supportsPRSCTP` lets in |

An action is a chunk, by what its handler puts into the buffer and asks for: `DataChunk`,
`SackChunk`, `HeartbeatChunk`, `SetupChunk`, `CookieEchoChunk`, `RemovingChunk`, `UnknownChunk`,
`ForwardTSNChunk`, `FaultyLength`; or the end of the datagram, or a call or timer outside of it.

### Properties

* `PacketFits` no packet exceeds the length at which `bu_sendAllChunks` calls `abort()`.
* `NothingHeldBack` when no datagram is being handled the buffer of the association is open and what
  was asked to be sent has been.
* `NoStaleAddress` the destination of one packet is not used for the next.
* `DatagramEnds` the loop ends, with weak fairness of its own steps, which is that the thread runs, unless
  it meets a FORWARD TSN that PR-SCTP was not agreed for. The exception is what the code does.

### Run

`bundling`: packets of at most 1480 bytes with the header, chunks of at most 1468; control chunks of
481 and 1456, SACKs of 116, DATA of 733 and 1468 bytes; three chunks in a datagram. The sizes
are chosen at the limits: 481 and 733 need padding and fit into one packet with a SACK, 1456 is
`MAX_SCTP_PDU` with the header, and 1468 bytes exceed it but not the packet. Three chunks are enough
for a packet that is sent early, a SACK that is replaced and a chunk that remains.

### What the code does not promise

* A faulty chunk length ends the loop without the SACK for the DATA before it (`rbundling.c`:395).
* Without PR-SCTP a FORWARD TSN is met for ever: the loop continues before it has moved on
  (`rbundling.c`:471). The run has both kinds of FORWARD TSN, at any place in a datagram; without the
  exception TLC refutes `DatagramEnds`.
* An ERROR for a DATA chunk is put into the buffer without a request, and waits for the next packet.
  A reported chunk before a COOKIE ECHO stays in the global buffer, and goes out with the next
  packet from there, to whomever. The global buffer remains locked after an accepted
  COOKIE ECHO, until the next use unlocks it. A chunk put for one path may leave with a packet to another.

### Proofs

`BundlingProofs.tla` proves, for all lengths of chunks up to `MAX_SCTP_PDU`, any number of chunks in
a datagram and of paths, FORWARD TSNs that are let in or not: `BundlingInvariant`
(`Spec => []BundlingInv`), and from it `TypeCorrect`, `PacketAlwaysFits`, `NothingIsHeldBack` and
`NoAddressIsStale`. The only assumption is `BundlingAssumption`: `MAX_SCTP_PDU` and the header are
multiples of four, so is the length of a SACK, and a chunk alone is no longer than the first.

None of the properties is inductive. That a packet fits after padding needs that every length
in the buffer is a multiple of four (`Aligned`), since the code compares the length before padding
(`PaddedFits`). `NothingHeldBack` speaks of the end of a datagram, so `Calm` says what must hold
in its midst: what waits has been asked for behind the lock, which then opens with a request.
Only between `rxc_create_sack` and the end of `rbu_rcvDatagram`, when the ULP is notified and may
send in between, a SACK waits that nobody has asked for (`Awaiting`). `NoStaleAddress` needs that
an address is noted only with something to send. The proof has a lemma per function on a buffer and
per action.

Only model-checked: `DatagramEnds`, since liveness is out of the prover's reach.

### Not modelled

Which chunk follows which in the packet, checksums, and the path of a packet beyond what bundling
remembers.

## 11. ChunkHandler

`ChunkHandler.tla` is what the chunks of a handshake carry from `scu_associate` to the association of the
listening side, through `ch_make...`, `ch_enter...` and `ch_cookie...` of `chunkHandler.c`.

| Variable | Code |
|---|---|
| `bound[e]`, `supports[e]` | `localAddressList` and `supportsPRSCTP` of the instance |
| `library` | `librarySupportsPRSCTP`, which decides what the INIT says |
| `adds[e]` | parameters that another implementation would add |
| `wire` | packets sent. None is removed: they may be lost, repeated and reordered |
| `assoc[e]` | the association, from what it was built |
| `aborted` | the process ended in `error_log(ERROR_FATAL, ...)` |

A cookie is the list of addresses and the four counts the code writes; reading it back is
`SetIPAddresses`, the filter for families and scopes, and a split at these counts, exactly the place
where writer and reader can disagree. `recalls` in a cookie is history.

### Properties

* `CookieRecalls` the listening side builds the paths it would have built from the INIT.
* `CookieReadable` it does not end over a cookie, but for two cases: the cookie holds more addresses
  than there is room for, or came from an address of another scope than the INIT.
* `PRSCTPAgreed` both ends support PR-SCTP or none.

### Run

`chunks`: ten addresses of both families and all scopes; five hosts each for both sides, among them
both on one host; `MaxAddresses` four, with hosts that have more together; five combinations of
foreign parameters. `CHECK_DEADLOCK FALSE` as the handshake ends.

Only model-checked: all three. The lists of addresses and parameters are filtered, counted and
folded in the order in which they stand in a chunk, and what a fold returns for every list is
an induction over its length, which is out of the prover's reach.

### What the code does not promise

* The exceptions of `CookieReadable`: a retransmitted COOKIE ECHO goes to the first path (IPv4 first).
  If the INIT came from a link-local or site-local IPv6 address, fewer addresses are read than
  were counted, and `chunkHandler.c`:1722 ends the process.
* The chunk ID 0 is also "no error chunk"; the address in SET_PRIMARY is never found; an INIT with a
  parameter that ends the examination is answered, though the comment says it is not. An INIT may
  announce PR-SCTP that the association, built from the instance, does not use.

### Not modelled

The signature of the cookie (`AssocControl` has its lifetime), lengths and padding of parameters, and chunks other
than those of the handshake.

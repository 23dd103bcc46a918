------------------------------- MODULE Bundling -------------------------------
(***************************************************************************)
(* Bundling (sctp/sbundling.c, sctp/rbundling.c, sctp/errorhandler.c): the *)
(* buffers in which chunks wait to be sent in one packet, and the loop     *)
(* over the chunks of a datagram.  While a datagram is handled the buffer  *)
(* is locked: what the handlers of its chunks ask to be sent goes out with *)
(* the SACK at its end, unless the packet would become too long.           *)
(*                                                                         *)
(* An association has a buffer; there is another, global one for whatever  *)
(* belongs to none.  The handlers are reduced to what they put into the    *)
(* buffers, and to the association they create or remove.  Where a packet  *)
(* is sent matters only as far as bundling remembers it.                   *)
(***************************************************************************)
EXTENDS Integers, FiniteSetsExt

CONSTANTS
  NULL,
  Paths,
  Header,       \* sizeof(SCTP_common_header)
  MaxPDU,       \* MAX_SCTP_PDU
  Limit,        \* what no packet may exceed
  CtrlSizes, SackSizes, DataSizes,    \* lengths of chunks
  MaxChunks     \* bound: the chunks of a datagram

Sizes == CtrlSizes \cup SackSizes \cup DataSizes

ASSUME BundlingAssumption ==
  /\ NULL \notin Paths
  /\ Header \in Nat /\ MaxPDU \in Nat /\ MaxChunks \in Nat
  /\ Limit \in Nat /\ MaxPDU + Header <= Limit
  /\ CtrlSizes \subseteq 1..MaxPDU /\ SackSizes \subseteq 1..MaxPDU
  /\ DataSizes \subseteq 1..MaxPDU /\ MaxPDU % 4 = 0 /\ Header % 4 = 0
  /\ \A n \in SackSizes : n % 4 = 0

VARIABLES
  buffers,
  alive,      \* is there an association?
  current,    \* whose buffer mdi_readBundling leads to
  phase,      \* what rbu_rcvDatagram is doing
  left,       \* the chunks of the datagram that it has not handled
  forward,    \* is the next of them a FORWARD TSN, and does mdi_supportsPRSCTP agree?
  from,       \* address_index: the path on which the datagram came
  dataSeen,   \* data_chunk_received
  sendIt      \* send_it

datagram == <<phase, left, forward, from, dataSeen, sendIt>>
vars == <<buffers, alive, current, datagram>>

Owners == {"association", "global"}
Phases == {"idle", "chunks", "notifications"}
Forwards == {"none", "supported", "refused"}

Buffer ==
  [ctrl : Nat, sack : Nat, data : Nat,    \* the bytes of chunks of each kind
   locked : BOOLEAN,
   requested : BOOLEAN,                   \* got_send_request
   address : Paths \cup {NULL},           \* requested_destination, if got_send_address
   sackTimer : BOOLEAN,                   \* timer_running, of receive control
   owed : BOOLEAN,                        \* history: chunks here were asked to be sent
   tooLong : BOOLEAN]                     \* history: abort() was called for a packet

TypeOK ==
  /\ buffers \in [Owners -> Buffer]
  /\ alive \in BOOLEAN /\ current \in Owners /\ phase \in Phases
  /\ left \in 0..MaxChunks /\ forward \in Forwards /\ from \in Paths
  /\ dataSeen \in BOOLEAN /\ sendIt \in BOOLEAN

(* bu_new *)
NewBuffer ==
  [ctrl |-> 0, sack |-> 0, data |-> 0, locked |-> FALSE, requested |-> FALSE,
   address |-> NULL, sackTimer |-> FALSE, owed |-> FALSE, tooLong |-> FALSE]

(* bu_init_bundling *)
Init ==
  /\ buffers = [o \in Owners |-> NewBuffer]
  /\ alive = FALSE /\ current = "global"
  /\ phase = "idle" /\ left = 0 /\ forward = "none" /\ from \in Paths
  /\ dataSeen = FALSE /\ sendIt = FALSE

-----------------------------------------------------------------------------
(* A buffer *)

Empty(b) == b.ctrl + b.sack + b.data = 0

(* Mutant: the SACK is not counted. *)
TotalSizeFault(b) == Header + b.ctrl + b.data

(* TOTAL_SIZE, and SACK_SIZE: a SACK replaces the one in the buffer. *)
TotalSize(b) == Header + b.ctrl + b.sack + b.data
SackSize(b) == Header + b.ctrl + b.data

Padded(size) == ((size + 3) \div 4) * 4

(* Mutant: the address is kept for the next packet. *)
ResetFault(b) ==
  [b EXCEPT !.ctrl = 0, !.sack = 0, !.data = 0, !.requested = FALSE, !.owed = FALSE]

Reset(b) ==
  [b EXCEPT !.ctrl = 0, !.sack = 0, !.data = 0, !.requested = FALSE,
            !.address = NULL, !.owed = FALSE]

(* bu_sendAllChunks of a buffer that is not locked: rxc_stop_sack_timer is *)
(* called if there is a SACK in it.                                        *)
Transmit(b) ==
  IF Empty(b) THEN b
  ELSE [Reset(b) EXCEPT !.sackTimer = b.sackTimer /\ b.sack = 0,
                        !.tooLong = @ \/ Header + b.ctrl + b.sack + b.data > Limit]

(* bu_sendAllChunks *)
SendAllChunks(b, path) ==
  IF ~b.locked THEN Transmit(b)
  ELSE [b EXCEPT !.requested = TRUE, !.owed = ~Empty(b),
                 !.address = IF path # NULL THEN path ELSE @]

(* Before a chunk is put into the buffer what is there is sent, locked or   *)
(* not, if the packet would become too long; else the address is noted.     *)
MakeRoom(b, size, path) ==
  IF size >= MaxPDU THEN Transmit(b)
  ELSE IF path # NULL THEN [b EXCEPT !.address = path] ELSE b

(* bu_put_SACK_Chunk *)
PutSack(b, size, path) ==
  [MakeRoom(b, SackSize(b) + size, path) EXCEPT !.sack = size]

(* bu_put_Ctrl_Chunk *)
PutCtrl(b, size, path) ==
  [MakeRoom(b, TotalSize(b) + size, path) EXCEPT !.ctrl = @ + Padded(size)]

(* bu_put_Data_Chunk: a SACK that is waiting goes along (rxc_create_sack). *)
PutData(b, size, sackSize, path) ==
  LET d == [MakeRoom(b, TotalSize(b) + size, path) EXCEPT !.data = @ + Padded(size)]
  IN  IF d.sackTimer THEN PutSack(d, sackSize, path) ELSE d

(* bu_lock_sender *)
Lock(b) == [b EXCEPT !.locked = TRUE, !.requested = FALSE]

(* bu_unlock_sender *)
Unlock(b, path) ==
  LET u == [b EXCEPT !.locked = FALSE]
  IN  IF b.requested THEN SendAllChunks(u, path) ELSE u

(* A chunk is put into the buffer and asked to be sent; some handlers unlock *)
(* the buffer at once.                                                       *)
SendCtrl(b, size, path) == SendAllChunks(PutCtrl(b, size, path), path)
SendCtrlNow(b, size, path) == Unlock(SendCtrl(b, size, path), path)

-----------------------------------------------------------------------------
(* The chunks of a datagram *)

buffer == buffers[current]
BufferBecomes(b) == buffers' = [buffers EXCEPT ![current] = b]

(* What the next chunk is is known when the loop has come to it. *)
ChunksLeft(n) == left' = n /\ forward' \in (IF n > 0 THEN Forwards ELSE {"none"})

AtChunk == phase = "chunks" /\ left > 0 /\ forward = "none"

(* rbu_rcvDatagram begins, for the association or for none. *)
ReceiveDatagram(chunks, path) ==
  /\ phase = "idle"
  /\ phase' = "chunks" /\ ChunksLeft(chunks) /\ from' = path
  /\ dataSeen' = FALSE /\ sendIt' = FALSE
  /\ current' \in {"global"} \cup (IF alive THEN {"association"} ELSE {})
  /\ buffers' = [buffers EXCEPT ![current'] = Lock(@)]
  /\ UNCHANGED alive

(* The next chunk is handled. *)
NextChunk ==
  /\ AtChunk
  /\ ChunksLeft(left - 1)
  /\ UNCHANGED <<phase, from, sendIt>>

(* mdi_deleteCurrentAssociation, after what is in buffer b was sent *)
Removed(b) ==
  /\ buffers' = [buffers EXCEPT !["association"] = [NewBuffer EXCEPT !.tooLong = b.tooLong]]
  /\ alive' = FALSE

(* scu_abort sends an ABORT with whatever waits, and clears the current    *)
(* association: the other chunks meet the global buffer.                   *)
ScuAbort(size) ==
  Removed(SendCtrlNow(buffer, size, NULL)) /\ current' = "global"

(* rxc_data_chunk_rx: an ERROR is put into the buffer (empty DATA, invalid *)
(* stream) but not asked to be sent; a violation of the protocol aborts.    *)
DataChunk(size) ==
  /\ NextChunk
  /\ dataSeen' = TRUE
  /\ \/ UNCHANGED <<buffers, alive, current>>
     \/ /\ current = "association"
        /\ BufferBecomes(PutCtrl(buffer, size, NULL)) /\ UNCHANGED <<alive, current>>
     \/ current = "association" /\ ScuAbort(size)

(* rtx_process_sack: more DATA goes out, a SHUTDOWN (sci_allChunksAcked), or *)
(* what is in the buffer (flowcontrol.c:1216).                               *)
SackChunk(size, sackSize, path) ==
  /\ NextChunk /\ current = "association"
  /\ \/ size \in DataSizes
        /\ BufferBecomes(SendAllChunks(PutData(buffer, size, sackSize, path), path))
     \/ size \in CtrlSizes /\ BufferBecomes(SendCtrl(buffer, size, NULL))
     \/ BufferBecomes(SendAllChunks(buffer, NULL))
  /\ UNCHANGED <<alive, current, dataSeen>>

(* pm_heartbeat; sctlr_shutdown answers in the same way. *)
HeartbeatChunk(size) ==
  /\ NextChunk
  /\ BufferBecomes(SendCtrl(buffer, size, from))
  /\ UNCHANGED <<alive, current, dataSeen>>

(* sctlr_init, sctlr_initAck and sctlr_cookie_echo of an association answer, *)
(* and unlock the buffer in the middle of the datagram.                      *)
SetupChunk(size, path) ==
  /\ NextChunk
  /\ current = "global" => path = NULL
  /\ BufferBecomes(SendCtrlNow(buffer, size, path))
  /\ UNCHANGED <<alive, current, dataSeen>>

(* sctlr_cookie_echo without an association: a stale cookie is answered with *)
(* an ERROR; another one creates the association, whose buffer is not locked. *)
CookieEchoChunk(size) ==
  /\ NextChunk /\ current = "global"
  /\ \/ BufferBecomes(SendCtrl(buffer, size, NULL)) /\ UNCHANGED <<alive, current>>
     \/ /\ ~alive
        /\ alive' = TRUE /\ current' = "association"
        /\ buffers' = [buffers EXCEPT !["association"] = SendCtrlNow(@, size, NULL)]
  /\ UNCHANGED dataSeen

(* sctlr_abort, sctlr_shutdownComplete, sctlr_shutdownAck: the association *)
(* goes, with an answer or without, and the loop ends.                     *)
RemovingChunk(size, answer) ==
  /\ AtChunk /\ current = "association"
  /\ Removed(IF answer THEN SendCtrlNow(buffer, size, from) ELSE Unlock(buffer, from))
  /\ current' = "global"
  /\ phase' = "idle" /\ ChunksLeft(0)
  /\ UNCHANGED <<from, dataSeen, sendIt>>

(* A chunk that is not known: its type says whether it is reported and      *)
(* whether the rest of the datagram is looked at.                            *)
UnknownChunk(size, report, stop) ==
  /\ AtChunk
  /\ ChunksLeft(IF stop THEN 0 ELSE left - 1)
  /\ IF report THEN BufferBecomes(SendCtrl(buffer, size, NULL)) ELSE UNCHANGED buffers
  /\ UNCHANGED <<alive, current, phase, from, dataSeen, sendIt>>

(* Mutant: the chunk is met again and again. *)
SkipFault == UNCHANGED <<left, forward>>

(* Without PR-SCTP the loop goes on before it has moved to the next chunk. *)
Skip ==
  \/ forward = "supported" /\ ChunksLeft(left - 1)
  \/ forward = "refused" /\ UNCHANGED <<left, forward>>

(* FORWARD TSN: rxc_process_forward_tsn puts nothing into the buffer. *)
ForwardTSNChunk ==
  /\ phase = "chunks" /\ forward # "none"
  /\ Skip
  /\ UNCHANGED <<buffers, alive, current, phase, from, dataSeen, sendIt>>

(* Mutant: the loop is left with the buffer locked. *)
FaultyLengthFault ==
  /\ AtChunk
  /\ phase' = "idle" /\ ChunksLeft(0) /\ current' = "global"
  /\ UNCHANGED <<buffers, alive, from, dataSeen, sendIt>>

(* A chunk that is longer than the rest of the datagram *)
FaultyLength ==
  /\ AtChunk
  /\ BufferBecomes(Unlock(buffer, from))
  /\ phase' = "idle" /\ ChunksLeft(0) /\ current' = "global"
  /\ UNCHANGED <<alive, from, dataSeen, sendIt>>

(* After the last chunk, if DATA was among them, the SACK timer is started *)
(* (rxc_all_chunks_processed) and a SACK may be put into the buffer          *)
(* (rxc_create_sack); then the ULP is notified (se_doNotifications).         *)
EndChunks(sackSize, send) ==
  /\ phase = "chunks" /\ left = 0
  /\ send => dataSeen /\ current = "association"
  /\ LET started == [buffer EXCEPT !.sackTimer = @ \/ (dataSeen /\ current = "association")]
     IN  BufferBecomes(IF send THEN PutSack(started, sackSize, from) ELSE started)
  /\ phase' = "notifications" /\ sendIt' = send
  /\ UNCHANGED <<alive, current, left, forward, from, dataSeen>>

EndDatagram ==
  /\ phase = "notifications"
  /\ BufferBecomes(Unlock(IF sendIt THEN SendAllChunks(buffer, from) ELSE buffer, from))
  /\ phase' = "idle" /\ current' = "global"
  /\ UNCHANGED <<alive, left, forward, from, dataSeen, sendIt>>

-----------------------------------------------------------------------------
(* Everything else: the ULP, also in its callbacks, and the timers *)

(* The association is set: the ULP calls the library when nothing else goes *)
(* on, or when it is notified.                                              *)
Called == alive /\ phase \in {"idle", "notifications"}
AssociationBecomes(b) ==
  /\ buffers' = [buffers EXCEPT !["association"] = b]
  /\ UNCHANGED <<alive, current, datagram>>

(* fc_check_for_txmit, for a message of the ULP or after T3 *)
SendData(size, sackSize, path) ==
  /\ Called
  /\ AssociationBecomes(SendAllChunks(PutData(buffers["association"], size, sackSize, path), path))

(* scu_shutdown, sci_timer_expired, pm_heartbeatTimer, rtx_send_forward_tsn *)
SendControl(size, path) ==
  Called /\ AssociationBecomes(SendCtrl(buffers["association"], size, path))

(* rxc_sack_timer_cb *)
SackTimer(sackSize, path) ==
  /\ phase = "idle" /\ alive /\ buffers["association"].sackTimer
  /\ AssociationBecomes(
       SendAllChunks(PutSack([buffers["association"] EXCEPT !.sackTimer = FALSE], sackSize, path), path))

(* rxc_start_sack_timer, when the ULP has read: the window opens much, or *)
(* little                                                                  *)
UlpReads(sackSize, path) ==
  /\ Called
  /\ \/ AssociationBecomes(
          [SendAllChunks(PutSack(buffers["association"], sackSize, path), path)
             EXCEPT !.sackTimer = FALSE])
     \/ AssociationBecomes([buffers["association"] EXCEPT !.sackTimer = TRUE])

(* scu_associate *)
Associate(size, path) ==
  /\ phase = "idle" /\ ~alive
  /\ alive' = TRUE
  /\ buffers' = [buffers EXCEPT !["association"] = SendCtrl(@, size, path)]
  /\ UNCHANGED <<current, datagram>>

(* sctp_abort *)
UlpAborts(size) ==
  /\ phase = "idle" /\ alive
  /\ Removed(SendCtrlNow(buffers["association"], size, NULL))
  /\ UNCHANGED <<current, datagram>>

(* mdi_receiveMessage answers a datagram out of the blue. *)
OutOfTheBlue(size) ==
  /\ phase = "idle"
  /\ buffers' = [buffers EXCEPT !["global"] =
       SendAllChunks(Unlock(PutCtrl(@, size, NULL), NULL), NULL)]
  /\ UNCHANGED <<alive, current, datagram>>

Handle ==
  \/ \E size \in CtrlSizes :
       \/ DataChunk(size) \/ HeartbeatChunk(size) \/ CookieEchoChunk(size)
       \/ \E path \in Paths \cup {NULL} : SetupChunk(size, path)
       \/ \E answer \in BOOLEAN : RemovingChunk(size, answer)
       \/ \E report, stop \in BOOLEAN : UnknownChunk(size, report, stop)
  \/ \E size \in CtrlSizes \cup DataSizes, sackSize \in SackSizes, path \in Paths :
       SackChunk(size, sackSize, path)
  \/ ForwardTSNChunk \/ FaultyLength
  \/ \E sackSize \in SackSizes, send \in BOOLEAN : EndChunks(sackSize, send)
  \/ EndDatagram

Other ==
  \/ \E size \in CtrlSizes :
       \/ UlpAborts(size) \/ OutOfTheBlue(size)
       \/ \E path \in Paths : Associate(size, path)
       \/ \E path \in Paths \cup {NULL} : SendControl(size, path)
  \/ \E sackSize \in SackSizes, path \in Paths :
       \/ SackTimer(sackSize, path) \/ UlpReads(sackSize, path)
       \/ \E size \in DataSizes : SendData(size, sackSize, path)

Next == Handle \/ Other \/ \E n \in 1..MaxChunks, path \in Paths : ReceiveDatagram(n, path)

Spec == Init /\ [][Next]_vars

(* rbu_rcvDatagram is a loop in one thread, which goes on as long as it may *)
FairSpec == Spec /\ WF_vars(Handle)

-----------------------------------------------------------------------------
(* No packet is longer than what bu_sendAllChunks calls abort() for         *)
(* (sbundling.c:456), whatever mix of chunks gathers while the buffer is     *)
(* locked and with whatever padding, as long as every chunk alone fits.      *)
PacketFits == \A o \in Owners : ~buffers[o].tooLong

(* When no datagram is being handled the association's buffer is open, and  *)
(* what was asked to be sent has been: no way out of the loop leaves it      *)
(* locked or skips what waits there, and no packet sent early loses it.      *)
NothingHeldBack ==
  phase = "idle" =>
    LET b == buffers["association"]
    IN  ~b.locked /\ ~b.owed /\ b.sack = 0 /\ b.data = 0

(* An address asked for counts for the packet it was asked for: none is     *)
(* left for chunks of a later packet that are to go to the default path.     *)
NoStaleAddress == \A o \in Owners : Empty(buffers[o]) => buffers[o].address = NULL

(* The loop over the chunks of a datagram ends, whatever the chunks are and  *)
(* whatever their handlers do, unless it meets a FORWARD TSN without PR-SCTP: *)
(* that one it reads again and again (rbundling.c:471), and the thread never  *)
(* gets back to the event loop.                                              *)
DatagramEnds == phase = "chunks" ~> (phase # "chunks" \/ forward = "refused")

(* "report in an ERROR Chunk" (rbundling.c:487): a report that was asked to *)
(* be sent does not wait in the global buffer for another peer's datagram.   *)
ReportsGoOut == phase = "idle" => ~buffers["global"].owed
=============================================================================

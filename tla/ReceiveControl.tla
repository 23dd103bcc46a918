--------------------------- MODULE ReceiveControl ---------------------------
(***************************************************************************)
(* Receive control of one association (sctp/recvctrl.c): which TSNs have   *)
(* come, when a SACK is built, put into the bundling buffer and sent, and  *)
(* the SACK timer.  The chunks of a datagram are handled one after the     *)
(* other while the sender is locked (rbu_rcvDatagram); a SACK put into the *)
(* buffer meanwhile leaves when it is unlocked.                            *)
(*                                                                         *)
(* The peer counts its chunks 1, 2, ... and the network loses, repeats and *)
(* reorders them.  Bytes are counted in units of a full chunk.             *)
(***************************************************************************)
EXTENDS SerialNumbers, SequencesExt

CONSTANTS
  InitialTSN,    \* remote_initial_TSN
  RestartTSN,    \* remote_initial_TSN after a restart of the association
  LastChunk,     \* bound: chunks the peer has to send
  PeerWindow,    \* bound: chunks the peer sends beyond its acknowledgement point
  MaxAge,        \* bound: how far below ctsna a repeated chunk may be
  MaxGivenUp,    \* bound: how far beyond the last chunk that came others are given up
  MyRwnd,        \* my_rwnd
  MaxRead,       \* bound: largest message of the ULP
  MaxReports,    \* fragments that fit into a SACK: 10 in the code
  Overtaking     \* may a FORWARD TSN overtake the chunks it covers?

ASSUME ReceiveAssumption ==
  /\ {InitialTSN, RestartTSN} \subseteq TSN
  /\ {LastChunk, PeerWindow, MaxAge, MaxGivenUp, MyRwnd, MaxRead, MaxReports}
       \subseteq Nat \ {0}
  /\ LastChunk + 1 < Modulus
  /\ 2 * (PeerWindow + MaxAge) <= Modulus /\ 2 * (PeerWindow + MaxGivenUp) <= Modulus
  /\ Overtaking \in BOOLEAN

VARIABLES
  rxc,        \* the rxc_buffer
  bu,         \* the bundling instance: the SACK buffer and got_send_request
  phase,      \* where the handling of a datagram is
  hasData,    \* data_chunk_received of rbu_rcvDatagram
  queued,     \* se_getQueuedBytes
  closing,    \* SHUTDOWNRECEIVED or SHUTDOWNACKSENT
  base,       \* the peer's initial TSN
  handed,     \* how often each chunk went to se_recvDataChunk
  skipped,    \* the last chunk the peer gave up in a FORWARD TSN
  told,       \* the last SACK sent
  unanswered  \* DATA or FORWARD TSN has come and no SACK built later was sent

vars == <<rxc, bu, phase, hasData, queued, closing, base, handed, skipped, told, unanswered>>

Chunks == 1..LastChunk
Numbered(n) == Plus(base, n - 1)
Position(tsn) == Minus(tsn, base - 1)          \* the chunk with this TSN

Fragment == [start_tsn : TSN, stop_tsn : TSN]

SACK ==
  [ctsna : TSN,
   gaps : Seq(TSN \X TSN),   \* offsets to ctsna
   rwnd : 0..MyRwnd,
   fresh : BOOLEAN]   \* built after the last DATA and FORWARD TSN

TypeOK ==
  /\ rxc \in [ctsna : TSN, lowest : TSN, highest : TSN, frag_list : Seq(Fragment),
              contains_valid_sack : BOOLEAN, sack : SACK, timer_running : BOOLEAN,
              datagrams_received : -1..1, sack_flag : 1..2]
  /\ bu \in [sack : SACK, sack_in_buffer : BOOLEAN, got_send_request : BOOLEAN]
  /\ phase \in {"idle", "chunks", "forwarding", "notifying"} /\ hasData \in BOOLEAN
  /\ queued \in Nat /\ closing \in BOOLEAN
  /\ base \in TSN /\ handed \in [Chunks -> Nat] /\ skipped \in {0} \cup Chunks
  /\ told \in SACK /\ unanswered \in BOOLEAN

-----------------------------------------------------------------------------
(* Which TSNs have come *)

(* The gap before the i-th fragment, or behind the last one, starts here. *)
GapStart(r, i) == Plus(IF i = 1 THEN r.ctsna ELSE r.frag_list[i - 1].stop_tsn, 1)
GapStop(r, i) == Minus(r.frag_list[i].start_tsn, 1)

(* Mutant: everything up to the end of a fragment counts as received. *)
ChunkIsDuplicateHullFault(r, tsn) ==
  \/ Between(r.lowest, tsn, r.ctsna)
  \/ \E i \in DOMAIN r.frag_list : Between(r.ctsna, tsn, r.frag_list[i].stop_tsn)

(* Mutant: the fragments are not looked at. *)
ChunkIsDuplicateFault(r, tsn) == Between(r.lowest, tsn, r.ctsna)

ChunkIsDuplicate(r, tsn) ==
  \/ Between(r.lowest, tsn, r.ctsna)
  \/ /\ Between(r.ctsna, tsn, r.highest)
     /\ \E i \in DOMAIN r.frag_list :
          /\ Between(r.frag_list[i].start_tsn, tsn, r.frag_list[i].stop_tsn)
          /\ \A j \in 1..(i - 1) : ~ After(r.frag_list[j].stop_tsn, tsn)

(* Where g_list_insert_sorted with rxc_sort_fragments puts a new fragment. *)
SortedPlace(r, tsn) ==
  LET follows(f) == /\ After(tsn, f.start_tsn) /\ After(tsn, f.stop_tsn)
                    /\ ~ (Before(tsn, f.start_tsn) /\ Before(tsn, f.stop_tsn))
  IN  Min({i \in DOMAIN r.frag_list : ~ follows(r.frag_list[i])} \cup {Len(r.frag_list) + 1})

(* The first gap that holds the TSN decides: it closes the gap, continues   *)
(* the fragment behind it or before it, or is a fragment of its own.        *)
UpdateFragments(r, tsn) ==
  LET frags == r.frag_list
      new == [start_tsn |-> tsn, stop_tsn |-> tsn]
      hits == {i \in DOMAIN frags : Between(GapStart(r, i), tsn, GapStop(r, i))}
      i == Min(hits)
      gapsize == Plus(Minus(GapStop(r, i), GapStart(r, i)), 1)
      next == Plus(r.ctsna, 1)
  IN  IF hits = {}
      THEN IF tsn = next /\ tsn = GapStart(r, Len(frags) + 1)
           THEN [r EXCEPT !.ctsna = tsn]
           ELSE IF tsn = GapStart(r, Len(frags) + 1)
           THEN [r EXCEPT !.frag_list[Len(frags)].stop_tsn = tsn]
           ELSE [r EXCEPT !.frag_list = Append(@, new)]
      ELSE IF gapsize > 1 /\ tsn = GapStop(r, i)
      THEN [r EXCEPT !.frag_list[i].start_tsn = tsn]
      ELSE IF gapsize > 1 /\ tsn = GapStart(r, i)
      THEN IF tsn = next THEN [r EXCEPT !.ctsna = tsn]
                         ELSE [r EXCEPT !.frag_list[i - 1].stop_tsn = tsn]
      ELSE IF gapsize > 1
      THEN [r EXCEPT !.frag_list = InsertAt(@, SortedPlace(r, tsn), new)]
      ELSE IF GapStart(r, i) = next
      THEN [r EXCEPT !.ctsna = frags[i].stop_tsn, !.frag_list = RemoveAt(@, i)]
      ELSE [r EXCEPT !.frag_list =
              RemoveAt(ReplaceAt(@, i, [frags[i] EXCEPT !.start_tsn = frags[i - 1].start_tsn]),
                       i - 1)]

(* The fragments that continue ctsna go into it.  The code leaves this out   *)
(* if ctsna and the first fragment are as they were.                        *)
BubbleUp(r) ==
  LET chained == {k \in 0..Len(r.frag_list) :
                    \A i \in 1..k : r.frag_list[i].start_tsn = GapStart(r, i)}
      k == Max(chained)
  IN  [r EXCEPT !.ctsna = IF k = 0 THEN @ ELSE r.frag_list[k].stop_tsn,
                !.frag_list = SubSeq(@, k + 1, Len(@))]

(* What a chunk with this TSN makes of the buffer, and whether it is new. *)
Receive(r, tsn) ==
  IF Before(tsn, r.lowest)
  THEN [buffer |-> [r EXCEPT !.lowest = tsn], new |-> FALSE]
  ELSE IF After(tsn, r.highest)
  THEN [buffer |-> BubbleUp(UpdateFragments([r EXCEPT !.highest = tsn], tsn)), new |-> TRUE]
  ELSE IF ChunkIsDuplicate(r, tsn)
  THEN [buffer |-> r, new |-> FALSE]
  ELSE [buffer |-> BubbleUp(UpdateFragments(r, tsn)), new |-> TRUE]

(* Mutant: a fragment that starts right behind the new point does not join. *)
AdvanceFault(r, tsn) ==
  LET frags == r.frag_list
      behind(f) == ~ Between(f.start_tsn, tsn, f.stop_tsn) /\ After(tsn, f.stop_tsn)
      k == Max({k \in 0..Len(frags) : \A i \in 1..k : behind(frags[i])})
      joins == k < Len(frags) /\ Between(frags[k + 1].start_tsn, tsn, frags[k + 1].stop_tsn)
  IN  [r EXCEPT !.ctsna = IF joins THEN frags[k + 1].stop_tsn ELSE tsn,
                !.frag_list = SubSeq(@, IF joins THEN k + 2 ELSE k + 1, Len(@))]

(* Fragments before the new point are dropped, one that it touches joins it. *)
Advance(r, tsn) ==
  LET frags == r.frag_list
      touches(f) == /\ ~ Before(tsn, Minus(f.start_tsn, 1))
                    /\ Between(Minus(f.start_tsn, 1), tsn, f.stop_tsn)
      passed(f) == ~ Before(tsn, Minus(f.start_tsn, 1)) /\ ~ touches(f)
      k == Max({k \in 0..Len(frags) : \A i \in 1..k : passed(frags[i])})
      joins == k < Len(frags) /\ touches(frags[k + 1])
  IN  [r EXCEPT !.ctsna = IF joins THEN frags[k + 1].stop_tsn ELSE tsn,
                !.frag_list = SubSeq(@, IF joins THEN k + 2 ELSE k + 1, Len(@))]

-----------------------------------------------------------------------------
(* Building and sending a SACK *)

(* Mutants: an overfull queue is not considered; a silly window counts as   *)
(* closed.                                                                  *)
WindowFault(q) == MyRwnd - q
WindowClosedFault(q) == IF q + 2 >= MyRwnd THEN 0 ELSE MyRwnd - q

(* current_rwnd, with the prevention of silly windows *)
Window(q) ==
  IF q > MyRwnd THEN 0 ELSE IF MyRwnd - q \in 1..2 THEN 1 ELSE MyRwnd - q

Report(r, q) ==
  LET offset(tsn) == Minus(tsn, r.ctsna)
      number == Min({Len(r.frag_list), MaxReports})
  IN  [ctsna |-> r.ctsna,
       gaps |-> [i \in 1..number |->
                  <<offset(r.frag_list[i].start_tsn), offset(r.frag_list[i].stop_tsn)>>],
       rwnd |-> Window(q), fresh |-> TRUE]

(* datagrams_received counts from -1; only its parity is used after that. *)
AllChunksProcessed(r, q, newData) ==
  [r EXCEPT !.datagrams_received = IF newData THEN (@ + 1) % 2 ELSE @,
            !.sack = Report(r, q),
            !.timer_running = @ \/ newData,
            !.contains_valid_sack = TRUE]

(* Mutant: gaps make no difference to when a SACK is due. *)
PreparedFault(r, q) ==
  IF r.contains_valid_sack THEN r ELSE AllChunksProcessed(r, q, FALSE)

(* The first part of rxc_create_sack *)
Prepared(r, q) ==
  [IF r.contains_valid_sack THEN r ELSE AllChunksProcessed(r, q, FALSE)
   EXCEPT !.sack_flag = IF r.frag_list = <<>> THEN 2 ELSE 1]

SackIsDue(r) == r.datagrams_received # -1 /\ r.datagrams_received % r.sack_flag = 0

Put(r) == [r EXCEPT !.lowest = r.ctsna]   \* its SACK goes into the buffer
StopSackTimer(r) == [r EXCEPT !.timer_running = FALSE]

Initial(tsn) ==
  LET before == Minus(tsn, 1)
  IN  [ctsna |-> before, lowest |-> before, highest |-> before, frag_list |-> <<>>,
       contains_valid_sack |-> FALSE,
       sack |-> [ctsna |-> before, gaps |-> <<>>, rwnd |-> Window(0), fresh |-> TRUE],
       timer_running |-> FALSE, datagrams_received |-> -1, sack_flag |-> 2]

(* bu_sendAllChunks with a SACK while the sender is not locked *)
Transmit(sack) ==
  /\ told' = sack
  /\ unanswered' = (unanswered /\ ~ sack.fresh)
  /\ bu' = [sack |-> sack, sack_in_buffer |-> FALSE, got_send_request |-> FALSE]

(* rxc_create_sack(.., TRUE) and bu_sendAllChunks *)
ForceSack(r) ==
  IF phase = "idle"
  THEN rxc' = StopSackTimer(Put(r)) /\ Transmit(r.sack)
  ELSE /\ rxc' = Put(r)
       /\ bu' = [sack |-> r.sack, sack_in_buffer |-> TRUE, got_send_request |-> TRUE]
       /\ UNCHANGED <<told, unanswered>>

-----------------------------------------------------------------------------
(* Actions *)

Init ==
  /\ base = InitialTSN /\ rxc = Initial(InitialTSN)
  /\ told = rxc.sack /\ unanswered = FALSE
  /\ bu = [sack |-> told, sack_in_buffer |-> FALSE, got_send_request |-> FALSE]
  /\ phase = "idle" /\ hasData = FALSE /\ queued = 0 /\ closing = FALSE
  /\ handed = [n \in Chunks |-> 0] /\ skipped = 0

(* bu_lock_sender *)
BeginDatagram ==
  /\ phase = "idle"
  /\ phase' = "chunks" /\ hasData' = FALSE
  /\ bu' = [bu EXCEPT !.got_send_request = FALSE]
  /\ UNCHANGED <<rxc, queued, closing, base, handed, skipped, told, unanswered>>

(* What the network may deliver *)
Deliverable ==
  {n \in Chunks :
     /\ n > Position(rxc.ctsna) - MaxAge
     /\ n <= Position(told.ctsna) + PeerWindow
     /\ Overtaking \/ n > skipped \/ handed[n] > 0}

(* rxc_data_chunk_rx *)
DataChunk(n) ==
  LET tsn == Numbered(n)
      dropped == closing \/ (After(tsn, rxc.highest) /\ Window(queued) = 0)
      result == IF dropped THEN [buffer |-> rxc, new |-> FALSE] ELSE Receive(rxc, tsn)
  IN  /\ phase = "chunks" /\ n \in Deliverable
      /\ rxc' = [result.buffer EXCEPT !.contains_valid_sack = FALSE, !.sack.fresh = FALSE]
      /\ hasData' = TRUE /\ unanswered' = TRUE
      /\ bu' = [bu EXCEPT !.sack.fresh = FALSE]
      /\ handed' = IF result.new THEN [handed EXCEPT ![n] = @ + 1] ELSE handed
      /\ queued' = IF result.new THEN queued + 1 ELSE queued
      /\ UNCHANGED <<phase, closing, base, skipped, told>>

(* rxc_process_forward_tsn up to se_deliver_unreliably, which notifies the  *)
(* ULP of what it may read now *)
ForwardTSN(n) ==
  /\ phase = "chunks" /\ ~ hasData
  /\ n \in Chunks /\ n > skipped /\ n <= Position(rxc.highest) + MaxGivenUp
  /\ n > Position(rxc.ctsna) - MaxAge /\ n <= Position(told.ctsna) + PeerWindow
  /\ ~ After(rxc.ctsna, Numbered(n)) /\ Numbered(n) # rxc.ctsna
  /\ rxc' = [Advance(rxc, Numbered(n)) EXCEPT !.sack.fresh = FALSE]
  /\ bu' = [bu EXCEPT !.sack.fresh = FALSE]
  /\ skipped' = n /\ unanswered' = TRUE
  /\ phase' = "forwarding"
  /\ UNCHANGED <<hasData, queued, closing, base, handed, told>>

(* and then drops what cannot be delivered any more *)
ForwardTSNDone ==
  /\ phase = "forwarding"
  /\ queued' \in 0..queued
  /\ rxc' = AllChunksProcessed(rxc, queued', TRUE)
  /\ bu' = [bu EXCEPT !.sack.fresh = FALSE]
  /\ phase' = "chunks"
  /\ UNCHANGED <<hasData, closing, base, handed, skipped, told, unanswered>>

(* A COOKIE ECHO, the first chunk of its datagram, restarts the association. *)
RestartReceiveControl ==
  /\ phase = "chunks" /\ ~ hasData /\ ~ bu.sack_in_buffer /\ ~ bu.got_send_request
  /\ base # RestartTSN
  /\ base' = RestartTSN /\ rxc' = Initial(RestartTSN)
  /\ told' = rxc'.sack /\ bu' = [bu EXCEPT !.sack = told'] /\ unanswered' = FALSE
  /\ queued' = 0 /\ closing' = FALSE
  /\ handed' = [n \in Chunks |-> 0] /\ skipped' = 0
  /\ UNCHANGED <<phase, hasData>>

(* bu_unlock_sender *)
Unlock(r, b) ==
  /\ phase' = "idle"
  /\ IF b.got_send_request /\ b.sack_in_buffer
     THEN rxc' = StopSackTimer(r) /\ Transmit(b.sack)
     ELSE /\ rxc' = r /\ bu' = [b EXCEPT !.got_send_request = FALSE]
          /\ UNCHANGED <<told, unanswered>>

(* The end of rbu_rcvDatagram: with DATA, the ULP is notified in between. *)
EndChunks ==
  LET r == AllChunksProcessed(rxc, queued, hasData)
      p == Prepared(r, queued)
  IN  /\ phase = "chunks"
      /\ IF ~ hasData
         THEN Unlock(r, bu)
         ELSE /\ phase' = "notifying"
              /\ IF SackIsDue(p)
                 THEN /\ rxc' = Put(p)
                      /\ bu' = [sack |-> p.sack, sack_in_buffer |-> TRUE, got_send_request |-> TRUE]
                 ELSE rxc' = p /\ UNCHANGED bu
              /\ UNCHANGED <<told, unanswered>>
      /\ UNCHANGED <<hasData, queued, closing, base, handed, skipped>>

EndDatagram ==
  /\ phase = "notifying"
  /\ Unlock(rxc, bu)
  /\ UNCHANGED <<hasData, queued, closing, base, handed, skipped>>

(* rxc_sack_timer_cb *)
SackTimer ==
  /\ phase = "idle" /\ rxc.timer_running
  /\ ForceSack(Prepared([rxc EXCEPT !.timer_running = FALSE], queued))
  /\ UNCHANGED <<phase, hasData, queued, closing, base, handed, skipped>>

(* DATA goes out, because the ULP sends or a SACK chunk makes room: if the  *)
(* SACK timer runs, bu_put_Data_Chunk adds a SACK.  Within a datagram the   *)
(* SACK chunk comes before the DATA chunks.                                 *)
SendData ==
  /\ phase = "chunks" => ~ hasData
  /\ rxc.timer_running
  /\ ForceSack(Prepared(rxc, queued))
  /\ UNCHANGED <<phase, hasData, queued, closing, base, handed, skipped>>

(* The ULP takes a message, at any time or in a notification, and           *)
(* se_ulpreceive calls rxc_start_sack_timer.                                *)
Read(k) ==
  LET left == queued - k
      r == AllChunksProcessed(rxc, left, FALSE)
      opens == queued <= MyRwnd /\ MyRwnd - queued < 2 /\ MyRwnd - left >= 2  \* unsigned
  IN  /\ phase \in {"idle", "forwarding", "notifying"} /\ k <= queued
      /\ queued' = left
      /\ IF opens
         THEN LET p == Prepared(r, left) IN
              IF phase = "idle" THEN ForceSack(p)
              ELSE /\ rxc' = StopSackTimer(Put(p))
                   /\ bu' = [sack |-> p.sack, sack_in_buffer |-> TRUE, got_send_request |-> TRUE]
                   /\ UNCHANGED <<told, unanswered>>
         ELSE /\ rxc' = [r EXCEPT !.timer_running = TRUE]
              /\ UNCHANGED <<bu, told, unanswered>>
      /\ UNCHANGED <<phase, hasData, closing, base, handed, skipped>>

(* The peer's SHUTDOWN *)
Close ==
  /\ phase = "idle" /\ ~ closing
  /\ closing' = TRUE
  /\ UNCHANGED <<rxc, bu, phase, hasData, queued, base, handed, skipped, told, unanswered>>

Next ==
  \/ BeginDatagram
  \/ \E n \in Chunks : DataChunk(n) \/ ForwardTSN(n)
  \/ ForwardTSNDone \/ RestartReceiveControl \/ EndChunks \/ EndDatagram
  \/ SackTimer \/ SendData
  \/ \E k \in 1..MaxRead : Read(k)
  \/ Close

Spec == Init /\ [][Next]_vars

-----------------------------------------------------------------------------
(* Properties *)

(* The chunks that have come or were given up, from what was handed on. *)
Covered(n) == n <= skipped \/ handed[n] > 0

(* The cumulative point is the last chunk up to which all have come or were *)
(* given up, and the fragment list holds, in order, the longest runs of     *)
(* chunks that have come beyond it (rxc_update_fragments).                  *)
FragmentsAreRuns ==
  LET point == Position(rxc.ctsna)
      list == DOMAIN rxc.frag_list
      first(i) == Position(rxc.frag_list[i].start_tsn)
      last(i) == Position(rxc.frag_list[i].stop_tsn)
      come == {n \in Chunks : n > point /\ handed[n] > 0}
  IN  /\ \A n \in Chunks : (n <= point => Covered(n)) /\ (n = point + 1 => ~ Covered(n))
      /\ \A i \in list : /\ first(i) <= last(i) /\ first(i)..last(i) \subseteq come
                       /\ first(i) - 1 \notin come /\ last(i) + 1 \notin come
      /\ \A i, j \in list : i < j => last(i) < first(j)
      /\ \A n \in come : \E i \in list : n \in first(i)..last(i)

(* Receive control does what it promises: the serial numbers and the list   *)
(* of fragments stand for the set of chunks that have come, and each goes   *)
(* to the stream engine once (rxc_data_chunk_rx, rxc_process_forward_tsn).  *)
Promise == INSTANCE Receiver WITH
  cumulative <- Position(rxc.ctsna),
  above <- {n \in Chunks : \E i \in DOMAIN rxc.frag_list :
              n \in Position(rxc.frag_list[i].start_tsn)..Position(rxc.frag_list[i].stop_tsn)},
  told <- Position(told.ctsna),
  gaps <- {n \in Chunks : \E i \in DOMAIN told.gaps :
             n - Position(told.ctsna) \in told.gaps[i][1]..told.gaps[i][2]}

Implements == Promise!Spec

(* A chunk that has not come before is handed on, unless it is beyond what  *)
(* has come and the window is closed, or the association is closing.        *)
NewDataIsTaken ==
  [][\A n \in Chunks :
       DataChunk(n) /\ ~ closing /\ ~ Covered(n)
         /\ (Window(queued) > 0 \/ \E m \in Chunks : m > n /\ handed[m] > 0)
       => handed'[n] = 1]_vars

(* Whoever sent DATA gets a SACK built after it: at once if there are gaps, *)
(* otherwise when the SACK timer expires (rxc_create_sack); unless a SACK   *)
(* put into the buffer before the DATA of the same datagram left with it    *)
(* and stopped the timer.                                                   *)
DataIsAnswered ==
  phase = "idle" /\ unanswered /\ told.fresh
    => rxc.timer_running /\ (hasData => rxc.frag_list = <<>>)

(* A peer that was told of a closed window hears of it when the window is   *)
(* open again: the SACK timer runs (rxc_start_sack_timer).  The exception   *)
(* is that of DataIsAnswered.                                               *)
WindowOpens ==
  phase = "idle" /\ told.rwnd = 0 /\ told.fresh /\ Window(queued) > 1 => rxc.timer_running

(* The cumulative TSN acknowledged stands as far as it can: the chunk after *)
(* it has not come (rxc_bubbleup_ctsna).                                    *)
CumulativeIsTight ==
  \A n \in Chunks : n = Position(rxc.ctsna) + 1 => handed[n] = 0
=============================================================================

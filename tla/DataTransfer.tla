---------------------------- MODULE DataTransfer ----------------------------
(***************************************************************************)
(* The sender of one association: reliable transfer (sctp/reltransfer.c)   *)
(* keeps what was sent and not acknowledged, flow control                  *)
(* (sctp/flowcontrol.c) the queue in front of it, the congestion windows   *)
(* and a T3 timer per path.  Both lists are sorted by TSN and free of      *)
(* duplicates; here they are sets of chunk numbers.                        *)
(*                                                                         *)
(* Chunks are numbered 1, 2, ... in the order of their TSNs, which stay    *)
(* within a small part of the serial number space.  A chunk, the MTU and   *)
(* MAX_MTU_SIZE are one unit.  Paths fail and recover, the ULP chooses     *)
(* another primary path and time limits pass between any two events, so    *)
(* that chunks may go to any path.                                         *)
(***************************************************************************)
EXTENDS Integers, FiniteSets, SequencesExt, FiniteSetsExt

CONSTANTS
  NumPaths,     \* number_of_addresses
  LastChunk,    \* bound: chunks the ULP sends
  PeerRwnd,     \* peer_rwnd of the INIT or INIT ACK
  Windows,      \* bound: the windows the peer advertises
  Mortal,       \* the chunks with a lifetime
  GapLimit,     \* gap reports before a fast retransmission: 4 in the code
  PRSCTP,       \* mdi_supportsPRSCTP
  Word          \* 2^32 in the code: partial_bytes_acked is unsigned

ASSUME DataAssumption ==
  /\ {NumPaths, LastChunk, GapLimit} \subseteq Nat \ {0}
  /\ PeerRwnd \in Nat /\ Windows \subseteq Nat
  /\ Mortal \subseteq 1..LastChunk /\ PRSCTP \in BOOLEAN
  /\ ~PRSCTP => Mortal = {}     \* se_ulpsend: lifetimes need PR-SCTP
  /\ Word \in Nat \ {0}

VARIABLES
  snd,        \* the rtx_buffer and the fc_data of the association
  views       \* what the peer had, one set for each time it got more

vars == <<snd, views>>

Path == 0..(NumPaths - 1)
Chunks == 1..LastChunk

ChunkData ==
  [sent : BOOLEAN,               \* num_of_transmissions > 0
   last_destination : Path,
   gap_reports : 0..GapLimit,    \* more of them make no difference
   hasBeenAcked : BOOLEAN, hasBeenDropped : BOOLEAN,
   hasBeenFastRetransmitted : BOOLEAN, hasBeenRequeued : BOOLEAN]

NewChunk ==
  [sent |-> FALSE, last_destination |-> 0, gap_reports |-> 0,
   hasBeenAcked |-> FALSE, hasBeenDropped |-> FALSE,
   hasBeenFastRetransmitted |-> FALSE, hasBeenRequeued |-> FALSE]

(* The rtx_buffer and the fc_data *)
Sender ==
  [chunk : [Chunks -> ChunkData],
   unacked : SUBSET Chunks,       \* chunk_list of reliable transfer
   queue : SUBSET Chunks,         \* chunk_list of flow control
   lowest_tsn : Nat, highest_tsn : Nat, highest_acked : Nat,
   peer_arwnd : Nat, all_chunks_are_unacked : BOOLEAN,
   fast_recovery_active : BOOLEAN, fr_exit_point : Nat,
   advancedPeerAckPoint : Nat, lastSentForwardTSN : Nat,
   closing : {"no", "pending", "received", "sent", "answered", "rewritten"},
   tsn : Nat, outstanding_bytes : Nat,
   cwnd : [Path -> Nat], ssthresh : [Path -> Nat],
   partial_bytes_acked : [Path -> 0..(Word - 1)],
   T3 : [Path -> BOOLEAN],
   waiting_for_sack : BOOLEAN, t3_retransmission_sent : BOOLEAN,
   one_packet_inflight : BOOLEAN, doing_retransmission : BOOLEAN]

TypeOK == snd \in Sender /\ views \in Seq(SUBSET Chunks)

Init ==
  /\ snd = [chunk |-> [n \in Chunks |-> NewChunk], unacked |-> {}, queue |-> {},
            lowest_tsn |-> 0, highest_tsn |-> 0, highest_acked |-> 0,
            peer_arwnd |-> PeerRwnd, all_chunks_are_unacked |-> TRUE,
            fast_recovery_active |-> FALSE, fr_exit_point |-> 0,
            advancedPeerAckPoint |-> 0, lastSentForwardTSN |-> 0,
            closing |-> "no", tsn |-> 1, outstanding_bytes |-> 0,
            cwnd |-> [p \in Path |-> 2], ssthresh |-> [p \in Path |-> PeerRwnd],
            partial_bytes_acked |-> [p \in Path |-> 0],
            T3 |-> [p \in Path |-> FALSE],
            waiting_for_sack |-> FALSE, t3_retransmission_sent |-> FALSE,
            one_packet_inflight |-> FALSE, doing_retransmission |-> FALSE]
  /\ views = <<{}>>

-----------------------------------------------------------------------------
(* Helpers; s is the state of the sender *)

MonusFault(a, b) == a - b    \* mutant: without the check against underflow

Monus(a, b) == IF a > b THEN a - b ELSE 0

ShutdownReceived(s) == s.closing \in {"pending", "received", "rewritten"}

(* What rtx_get_obpa counts: not the chunks given up, acknowledged by a gap *)
(* report, or waiting to be sent again after T3.                            *)
InFlight(s) ==
  {n \in s.unacked : ~(\/ s.chunk[n].hasBeenDropped \/ s.chunk[n].hasBeenAcked
                       \/ s.chunk[n].hasBeenRequeued)}

Obpa(s, p) == Cardinality({n \in InFlight(s) : s.chunk[n].last_destination = p})

(* rtx_get_obpa also writes the total. *)
Counted(s) == [s EXCEPT !.outstanding_bytes = Cardinality(InFlight(s))]

Drained(s) == s.unacked = {} /\ s.queue = {}

(* Mutant: only the shutdown of the own ULP is told that all is acknowledged. *)
AllChunksAckedFault(s, empty) ==
  [s EXCEPT !.closing = IF empty /\ @ = "pending" THEN "sent" ELSE @]

(* sci_allChunksAcked, if a shutdown waits and the queues are taken to be empty. *)
AllChunksAcked(s, empty) ==
  [s EXCEPT !.closing = IF ~empty \/ ~ShutdownReceived(s) THEN @
                        ELSE IF @ = "pending" THEN "sent" ELSE "answered"]

-----------------------------------------------------------------------------
(* Sending *)

(* Is chunk n, with the chunks before it in the queue already submitted,    *)
(* the next to go?  These use up the peer's window only when they are new.  *)
SendOkay(s, n, d, obpa) ==
  LET before == {m \in s.queue : m < n}
      rwnd == Monus(s.peer_arwnd, Cardinality({m \in before : ~s.chunk[m].sent}))
      fresh == ~s.chunk[n].sent
  IN  /\ before # {} /\ fresh => rwnd >= 1
      /\ \/ s.doing_retransmission /\ before = {}
         \/ /\ Cardinality(before) + obpa <= s.cwnd[d]
            /\ \/ fresh /\ rwnd > 1
               \/ ~s.one_packet_inflight /\ before = {}
               \/ ~fresh

(* Chunk c as it is after a transmission to d; a new one joins those kept. *)
Transmitted(c, d) ==
  [c EXCEPT !.sent = TRUE, !.last_destination = d, !.hasBeenRequeued = FALSE,
            !.gap_reports = IF c.sent THEN @ ELSE 0]

Saved(s, new) ==
  [s EXCEPT !.unacked = @ \cup new, !.highest_tsn = Max({@} \cup new)]

(* The loop of fc_check_for_txmit and what follows it. *)
Submit(s, d, obpa) ==
  LET sent == {n \in s.queue : \A m \in s.queue : m <= n => SendOkay(s, m, d, obpa)}
      left == s.queue \ sent
      new == {n \in sent : ~s.chunk[n].sent}
      rwnd == Monus(s.peer_arwnd, Cardinality(new))
      retransmitted == IF left # {} THEN s.chunk[Min(left)].sent ELSE s.chunk[Max(sent)].sent
      second == IF Cardinality(s.queue) > 1 THEN {Min(s.queue \ {Min(s.queue)})} ELSE {}
      asked == \E n \in second : n \in sent \/ s.chunk[n].sent \/ rwnd >= 1
  IN  [Saved(s, new) EXCEPT
         !.chunk = [n \in Chunks |-> IF n \in sent THEN Transmitted(@[n], d) ELSE @[n]],
         !.outstanding_bytes = @ + Cardinality(new),
         !.peer_arwnd = rwnd,
         !.queue = left,
         !.one_packet_inflight = @ \/ sent # {},
         !.doing_retransmission = @ /\ ~asked,
         !.t3_retransmission_sent =
            @ \/ (s.waiting_for_sack /\ sent # {} /\ retransmitted),
         !.T3[d] = TRUE]

(* A path without traffic for an RTO starts over, and without anything      *)
(* outstanding one packet may be in flight again.                           *)
ResetCwnd(s, d, idle) ==
  [s EXCEPT !.one_packet_inflight = @ /\ s.outstanding_bytes > 0,
            !.cwnd[d] = IF idle THEN 2 ELSE @]

(* initial: doInitialRetransmit; d: what fc_select_destination chooses; as  *)
(* paths may have failed or recovered, and the primary path changed, since  *)
(* the last event, that is any path.                                        *)
CheckForTxmit(s, initial, d, idle) ==
  IF s.queue = {} \/ (s.peer_arwnd = 0 /\ s.one_packet_inflight) THEN s
  ELSE LET head == Min(s.queue)
           obpa == Obpa(s, d)
           t == [Counted(s) EXCEPT !.doing_retransmission = @ \/ initial]
       IN  IF ~initial /\ s.cwnd[d] <= obpa THEN Counted(s)
           ELSE IF s.waiting_for_sack /\ s.chunk[head].sent /\ s.t3_retransmission_sent THEN t
           ELSE Submit(ResetCwnd(t, d, idle), d, obpa)

-----------------------------------------------------------------------------
(* Receiving SACKs *)

(* newly: chunks newly acknowledged; advanced: new_acked; rtt: has a round  *)
(* trip passed since the window grew?                                       *)
AdjustCounters(s, p, newly, advanced, all, rtt) ==
  LET outstanding == Monus(s.outstanding_bytes, newly)
      acked == s.partial_bytes_acked[p] + IF advanced THEN newly ELSE 0
      grow == rtt /\ acked >= s.cwnd[p] /\ outstanding >= s.cwnd[p]
      t == [s EXCEPT !.outstanding_bytes = outstanding]
  IN  IF s.cwnd[p] <= s.ssthresh[p]
      THEN [t EXCEPT !.partial_bytes_acked = [q \in Path |-> 0],
                     !.cwnd[p] = @ + IF advanced THEN Min({1, newly}) ELSE 0]
      ELSE [t EXCEPT !.cwnd[p] = @ + IF grow THEN 1 ELSE 0,
                     !.partial_bytes_acked[p] =
                        IF all THEN 0
                        ELSE IF grow THEN (acked - (s.cwnd[p] + 1)) % Word
                        ELSE acked % Word]

(* Mutant: a path without anything in flight stops every timer. *)
CheckT3Fault(s, p, all, advanced) ==
  LET t == Counted(s)
  IN  IF all \/ Obpa(s, p) = 0 THEN [t EXCEPT !.T3 = [q \in Path |-> FALSE]]
      ELSE [t EXCEPT !.T3[p] = @ \/ advanced]

CheckT3(s, p, all, advanced) ==
  LET t == Counted(s)
  IN  IF all THEN [t EXCEPT !.T3 = [q \in Path |-> FALSE]]
      ELSE IF Obpa(s, p) = 0 THEN [t EXCEPT !.T3[p] = FALSE]
      ELSE [t EXCEPT !.T3[p] = @ \/ advanced]

SackInfo(s, p, w, newly, all, advanced, rtt, d, idle) ==
  LET a == AdjustCounters([s EXCEPT !.t3_retransmission_sent = FALSE,
                                    !.waiting_for_sack = FALSE],
                          p, newly, advanced, all, rtt)
      t == CheckT3(a, p, all, advanced)
  IN  CheckForTxmit([t EXCEPT !.one_packet_inflight = t.outstanding_bytes > 0,
                              !.peer_arwnd = Monus(w, t.outstanding_bytes)], FALSE, d, idle)

Halve(cwnd) == Max({cwnd \div 2, 2})

FastRetransmission(s, p, w, chunks, newly, all, advanced, rtt, d, idle) ==
  LET a == AdjustCounters([s EXCEPT !.t3_retransmission_sent = FALSE,
                                    !.waiting_for_sack = FALSE],
                          p, newly, advanced, all, rtt)
      b == IF a.fast_recovery_active THEN a
           ELSE [a EXCEPT !.ssthresh[p] = Halve(a.cwnd[p]), !.cwnd[p] = Halve(a.cwnd[p]),
                          !.partial_bytes_acked[p] = 0,
                          !.fast_recovery_active = TRUE, !.fr_exit_point = a.highest_tsn]
      t == CheckT3([b EXCEPT !.queue = @ \cup chunks], p, all, advanced)
  IN  CheckForTxmit([t EXCEPT !.one_packet_inflight = ~all,
                              !.peer_arwnd = Monus(w, t.outstanding_bytes)], TRUE, d, idle)

(* Mutants: chunks are freed that flow control still holds; one chunk too   *)
(* many is freed.                                                           *)
DequeueUpToFault(s, c) ==
  [s EXCEPT !.unacked = {n \in @ : n > c},
            !.chunk = [n \in Chunks |-> IF n \in s.unacked /\ n <= c THEN NewChunk ELSE @[n]]]

DequeueUpToBeyondFault(s, c) ==
  [s EXCEPT !.queue = {n \in @ : n > c + 1}, !.unacked = {n \in @ : n > c + 1}]

(* rtx_dequeue_up_to, with a list that is not empty: flow control forgets   *)
(* the chunks before they are freed.                                        *)
DequeueUpTo(s, c) ==
  [s EXCEPT !.queue = {n \in @ : n > c}, !.unacked = {n \in @ : n > c},
            !.chunk = [n \in Chunks |-> IF n \in s.unacked /\ n <= c THEN NewChunk ELSE @[n]]]

NewlyAcked(s, chunks) ==
  {n \in s.unacked \cap chunks : ~s.chunk[n].hasBeenAcked /\ ~s.chunk[n].hasBeenDropped}

(* The chunks that gap reports count against, up to the last one reported. *)
Missing(s, gaps) == {n \in s.unacked \ gaps : n < Max(gaps)}

OverLimit(s, gaps) ==
  {n \in Missing(s, gaps) : s.chunk[n].gap_reports + 1 >= GapLimit
                            /\ ~s.chunk[n].hasBeenDropped}

(* The chunks among expired are found past their lifetime. *)
FastCandidates(s, gaps, expired) ==
  {n \in OverLimit(s, gaps) \ expired : ~s.chunk[n].hasBeenFastRetransmitted}

(* Chunk c is reported, perhaps for the first time. *)
GapAcked(c, newly) == [c EXCEPT !.hasBeenAcked = @ \/ newly, !.gap_reports = 0]

(* It is reported missing: it is given up, sent again at once, or counted. *)
GapMissed(c, given, again) ==
  [c EXCEPT !.gap_reports = IF again THEN 0 ELSE Min({@ + 1, GapLimit}),
            !.hasBeenDropped = @ \/ given,
            !.hasBeenFastRetransmitted = @ \/ given \/ again]

GapReports(s, gaps, expired) ==
  LET given == OverLimit(s, gaps) \cap expired
      again == FastCandidates(s, gaps, expired)
      newly == NewlyAcked(s, gaps)
  IN  [s EXCEPT
         !.all_chunks_are_unacked = @ /\ newly = {},
         !.chunk = [n \in Chunks |->
            IF n \in s.unacked \cap gaps THEN GapAcked(@[n], n \in newly)
            ELSE IF n \in Missing(s, gaps) THEN GapMissed(@[n], n \in given, n \in again)
            ELSE @[n]]]

(* A SACK without gap reports takes back all gap reports before it. *)
Reneged(s) ==
  IF s.all_chunks_are_unacked THEN {}
  ELSE {n \in s.unacked : s.chunk[n].hasBeenAcked /\ ~s.chunk[n].hasBeenDropped}

Renege(s) ==
  [s EXCEPT !.all_chunks_are_unacked = TRUE,
            !.chunk = [n \in Chunks |->
               IF n \in Reneged(s)
               THEN [@[n] EXCEPT !.hasBeenAcked = FALSE, !.gap_reports = 0,
                                 !.hasBeenFastRetransmitted = TRUE]
               ELSE @[n]]]

(* Mutant: the point moves before the chunk is looked at. *)
AdvancePeerAckPointFault(s, c) ==
  LET given == {n \in s.unacked :
                  \A m \in s.unacked : m < n => s.chunk[m].hasBeenDropped}
      point == IF given = {} THEN s.advancedPeerAckPoint ELSE Max(given)
  IN  IF ~PRSCTP THEN s
      ELSE [s EXCEPT !.advancedPeerAckPoint = point,
                     !.lastSentForwardTSN = IF point > c THEN point ELSE @]

(* The chunks given up at the head of the list; c is the last ctsna. *)
AdvancePeerAckPoint(s, c) ==
  LET given == {n \in s.unacked :
                  \A m \in s.unacked : m <= n => s.chunk[m].hasBeenDropped}
      point == IF given = {} THEN s.advancedPeerAckPoint ELSE Max(given)
  IN  IF ~PRSCTP THEN s
      ELSE [s EXCEPT !.advancedPeerAckPoint = point,
                     !.lastSentForwardTSN = IF point > c THEN point ELSE @]

(* What rtx_process_sack has done when it comes to the lists: fast recovery *)
(* ends at its exit point, chunks up to c go.  A SACK that acknowledges     *)
(* something while nothing is in the list is discarded half-way.            *)
Acknowledged(s, c) ==
  LET over == s.fast_recovery_active /\ c >= s.fr_exit_point
      t == [s EXCEPT !.highest_acked = c,
                     !.fast_recovery_active = @ /\ ~over,
                     !.fr_exit_point = IF over THEN 0 ELSE @]
  IN  IF c >= s.lowest_tsn /\ s.unacked # {}
      THEN [DequeueUpTo(t, c) EXCEPT !.lowest_tsn = c] ELSE t

SackIsDiscarded(s, c) == c >= s.lowest_tsn /\ s.unacked = {}

ProcessSack(s, p, c, gaps, w, expired, rtt, d, idle) ==
  LET dequeued == IF c >= s.lowest_tsn THEN Cardinality(NewlyAcked(s, 1..c)) ELSE 0
      a == Acknowledged(s, c)
      reported == gaps # {} /\ a.unacked # {}
      again == IF reported THEN FastCandidates(a, gaps, expired)
               ELSE IF gaps = {} THEN Reneged(a) ELSE {}
      newly == dequeued + IF reported THEN Cardinality(NewlyAcked(a, gaps)) ELSE 0
      b == IF reported THEN GapReports(a, gaps, expired)
           ELSE IF gaps = {} THEN Renege(a) ELSE a
      empty == b.unacked = {}
      lowest == IF empty THEN b.highest_tsn ELSE Min(b.unacked)
      all == empty /\ b.highest_tsn = c
      advanced == lowest > s.lowest_tsn
      t == AllChunksAcked([b EXCEPT !.lowest_tsn = lowest,
                                    !.peer_arwnd = IF empty THEN w ELSE @], Drained(b))
      f == IF again = {} THEN SackInfo(t, p, w, newly, all, advanced, rtt, d, idle)
           ELSE FastRetransmission(t, p, w, again, newly, all, advanced, rtt, d, idle)
  IN  IF SackIsDiscarded(s, c) THEN a
      ELSE AdvancePeerAckPoint([f EXCEPT !.advancedPeerAckPoint = Max({@, c})], c)

-----------------------------------------------------------------------------
(* T3 and shutdown *)

(* What rtx_t3_timeout hands to flow control for another transmission. *)
ToRetransmit(s, p, expired) ==
  {n \in s.unacked : s.chunk[n].last_destination = p /\ ~s.chunk[n].hasBeenDropped
                     /\ n \notin expired}

RtxT3Timeout(s, p, expired) ==
  LET again == ToRetransmit(s, p, expired)
      given == {n \in s.unacked \cap expired : s.chunk[n].last_destination = p}
      t == [s EXCEPT
              !.lowest_tsn = Min(s.unacked),
              !.chunk = [n \in Chunks |->
                 IF n \in given THEN [@[n] EXCEPT !.hasBeenDropped = TRUE]
                 ELSE IF n \in again THEN [@[n] EXCEPT !.gap_reports = 0]
                 ELSE @[n]]]
  IN  AdvancePeerAckPoint(t, s.highest_acked)

Requeue(s, chunks) ==
  LET back == {n \in chunks \ s.queue : ~s.chunk[n].hasBeenAcked}
  IN  [s EXCEPT !.queue = @ \cup back,
                !.chunk = [n \in Chunks |->
                   IF n \in back THEN [@[n] EXCEPT !.hasBeenRequeued = TRUE] ELSE @[n]],
                !.waiting_for_sack = TRUE,
                !.t3_retransmission_sent = FALSE,
                !.one_packet_inflight = FALSE]

Collapse(s, p) ==
  IF s.fast_recovery_active THEN s
  ELSE [s EXCEPT !.ssthresh[p] = Halve(s.cwnd[p]), !.cwnd[p] = 1,
                 !.partial_bytes_acked[p] = 0]

T3Timeout(s, p, expired, d, idle) ==
  LET off == [s EXCEPT !.T3[p] = FALSE]
      t == RtxT3Timeout(off, p, expired)
      again == ToRetransmit(s, p, expired)
  IN  IF s.unacked = {} THEN off
      ELSE IF again = {} THEN t
      ELSE CheckForTxmit(Requeue(Collapse(t, p), again), TRUE, d, idle)

(* The ctsna in a SHUTDOWN counts like a SACK on path 0 with the old window. *)
(* The list of reliable transfer is measured before fc_sack_info sends what  *)
(* had to wait, the queue of flow control afterwards.                        *)
RcvShutdownCtsna(s, c, rtt, d, idle) ==
  LET old == c < s.lowest_tsn
      newly == Cardinality(NewlyAcked(s, 1..c))
      a == IF old THEN s
           ELSE [(IF s.unacked = {} THEN s ELSE DequeueUpTo(s, c)) EXCEPT !.lowest_tsn = c]
      f == IF old THEN s
           ELSE SackInfo(a, 0, s.peer_arwnd, newly, a.unacked = {}, newly > 0, rtt, d, idle)
  IN  AllChunksAcked(f, a.unacked = {} /\ f.queue = {})

-----------------------------------------------------------------------------
(* Actions *)

Become(s) == snd' = s /\ UNCHANGED views

SendDataChunk ==
  \E d \in Path, idle \in BOOLEAN :
    /\ snd.closing = "no" /\ snd.tsn <= LastChunk
    /\ Become(CheckForTxmit([snd EXCEPT !.queue = @ \cup {snd.tsn}, !.tsn = @ + 1], FALSE, d, idle))

T3TimerCallback(p) ==
  \E expired \in SUBSET Mortal, d \in Path, idle \in BOOLEAN :
    /\ snd.T3[p]
    /\ Become(T3Timeout(snd, p, expired, d, idle))

(* The peer's ctsna when it has these chunks or was told to do without. *)
Point(view) == Max({n \in Chunks \cup {0} : 1..n \subseteq view})

(* Whether a round trip has passed matters in congestion avoidance only. *)
RoundTrip(p) == IF snd.cwnd[p] <= snd.ssthresh[p] THEN {TRUE} ELSE BOOLEAN

(* A SACK may be older than what has come to the peer since. *)
ReceiveSack(p, w) ==
  \E i \in 2..Len(views), expired \in SUBSET Mortal, rtt \in RoundTrip(p),
    d \in Path, idle \in BOOLEAN :
    LET c == Point(views[i])
    IN  /\ c >= snd.highest_acked
        /\ Become(ProcessSack(snd, p, c, {n \in views[i] : n > c}, w, expired, rtt, d, idle))

(* scu_shutdown: SHUTDOWN is sent at once, or when all is acknowledged. *)
Shutdown ==
  /\ snd.closing = "no"
  /\ Become([snd EXCEPT !.closing = IF Drained(snd) THEN "sent" ELSE "pending"])

(* sctlr_shutdown: in SHUTDOWN-PENDING it discards the peer's SHUTDOWN, and *)
(* SHUTDOWN-SENT is none of reliable transfer's business.  The state read   *)
(* at the start is written back over that of sci_allChunksAcked (line 1841). *)
ReceiveShutdown ==
  \E i \in DOMAIN views, rtt \in RoundTrip(0), d \in Path, idle \in BOOLEAN :
    /\ snd.closing \in {"no", "received", "answered", "rewritten"}
    /\ LET s == RcvShutdownCtsna(snd, Point(views[i]), rtt, d, idle)
       IN  Become([s EXCEPT !.closing =
                     IF @ = "no" THEN IF Drained(s) THEN "answered" ELSE "received"
                     ELSE IF @ = "answered" /\ snd.closing # "answered" THEN "rewritten"
                     ELSE @])

(* Whatever was sent comes to the peer later, several times or never. *)
Arrive(chunks) ==
  /\ ~(chunks \subseteq Last(views))
  /\ views' = Append(views, Last(views) \cup chunks)
  /\ UNCHANGED snd

DeliverData == \E n \in 1..snd.highest_tsn : Arrive({n})

DeliverForwardTSN == Arrive(1..snd.lastSentForwardTSN)

Next ==
  \/ SendDataChunk \/ Shutdown \/ ReceiveShutdown \/ DeliverData \/ DeliverForwardTSN
  \/ \E p \in Path : T3TimerCallback(p) \/ \E w \in Windows : ReceiveSack(p, w)

Spec == Init /\ [][Next]_vars

-----------------------------------------------------------------------------
(* Properties *)

(* What flow control queues and reliable transfer keeps fits together: a    *)
(* chunk queued to be sent again is still held by reliable transfer, so     *)
(* that nothing refers to a freed chunk; what is held is all that was sent  *)
(* from the lowest on; what has not been sent is in the queue.              *)
ListsAgree ==
  /\ \A n \in snd.queue : n \in snd.unacked \/ n > snd.highest_tsn
  /\ \A n \in snd.unacked : n..snd.highest_tsn \subseteq snd.unacked
  /\ \A n \in Chunks : snd.highest_tsn < n /\ n < snd.tsn => n \in snd.queue

(* A chunk in flight that is not queued to be sent again has the T3 timer   *)
(* of the path it was last sent to running, whichever path SACKs come over. *)
InFlightIsTimed ==
  \A n \in InFlight(snd) \ snd.queue : snd.T3[snd.chunk[n].last_destination]

(* A shutdown that waits for the last acknowledgement has something left to *)
(* wait for: sci_allChunksAcked was not missed.  And when SHUTDOWN was sent, *)
(* everything is acknowledged ("SHUTDOWN_SENT state may not be entered, if   *)
(* queues are not empty", SCTP-control.c:1826).  The exception is the state  *)
(* SHUTDOWNRECEIVED that is written back after the SHUTDOWN ACK has gone.    *)
DrainIsReported ==
  /\ snd.closing \in {"pending", "received"} => ~Drained(snd)
  /\ snd.closing = "sent" => Drained(snd)

(* Whatever order SACKs and SHUTDOWNs come in, the sender forgets no        *)
(* reliable chunk that the peer does not have.                              *)
NothingIsForgotten ==
  \A n \in Chunks \ Mortal : n < snd.tsn => n \in snd.unacked \cup snd.queue \cup Last(views)

(* A FORWARD TSN passes over no reliable chunk that the peer misses.        *)
ForwardIsHonest ==
  \A n \in 1..snd.lastSentForwardTSN : n \in Mortal \cup Last(views)
=============================================================================

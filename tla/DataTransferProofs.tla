------------------------- MODULE DataTransferProofs -------------------------
(***************************************************************************)
(* Theorems about DataTransfer, for any number of paths and chunks, any    *)
(* windows and any limit of gap reports, with or without PR-SCTP: type     *)
(* correctness and all five properties of the run.                         *)
(***************************************************************************)
EXTENDS DataTransfer, FiniteSetTheorems, SequenceTheorems, WellFoundedInduction, TLAPS

(* The numbers of a sender fit: what was sent are the chunks up to          *)
(* highest_tsn, which never passes what the ULP gave, nor the bound; no     *)
(* point the peer is told lies beyond.                                      *)
Numbers(s) ==
  /\ s.highest_tsn < s.tsn /\ s.tsn <= LastChunk + 1
  /\ s.advancedPeerAckPoint <= s.highest_tsn /\ s.lastSentForwardTSN <= s.highest_tsn

(* ListsAgree for a state that need not be the current one, and that a      *)
(* chunk knows whether it was sent: it was if reliable transfer keeps it.   *)
Lists(s) ==
  /\ s.unacked \subseteq 1..s.highest_tsn
  /\ \A n \in s.unacked : n..s.highest_tsn \subseteq s.unacked
  /\ \A n \in s.queue : n < s.tsn /\ (n \in s.unacked \/ n > s.highest_tsn)
  /\ \A n \in Chunks : s.highest_tsn < n /\ n < s.tsn => n \in s.queue
  /\ \A n \in Chunks : s.chunk[n].sent <=> n \in s.unacked

(* InFlightIsTimed but for the chunks that are on their way to the queue. *)
Timed(s, but) ==
  \A n \in InFlight(s) \ (s.queue \cup but) : s.T3[s.chunk[n].last_destination]

(* What the peer need not be sent any more: it has seen it, or the chunk has *)
(* a lifetime.  It has seen only what was sent.                              *)
Covered(s, seen) ==
  /\ seen \subseteq 1..s.highest_tsn
  /\ \A n \in Chunks \ Mortal : n < s.tsn => n \in s.unacked \cup s.queue \cup seen
  /\ \A n \in Chunks : s.chunk[n].hasBeenDropped => n \in Mortal
  /\ \A n \in 1..s.advancedPeerAckPoint : n \in Mortal \cup seen
  /\ \A n \in 1..s.lastSentForwardTSN : n \in Mortal \cup seen

(* A shutdown waits for sci_allChunksAcked, which has not been called yet.   *)
Waits(s) == s.closing \in {"pending", "received"}

Reported(s) ==
  /\ Waits(s) => ~Drained(s)
  /\ s.closing = "sent" => Drained(s)

Good(s, seen) == s \in Sender /\ Numbers(s) /\ Lists(s) /\ Covered(s, seen)

SeenGrows == views # <<>> /\ \A i \in DOMAIN views : views[i] \subseteq Last(views)

\* The inductive invariant.
DataInv ==
  /\ TypeOK /\ SeenGrows
  /\ Good(snd, Last(views)) /\ Timed(snd, {}) /\ Reported(snd)

-----------------------------------------------------------------------------
(* Extrema and sizes *)

\* A set of natural numbers has a least element, and Min is it.
LEMMA MinIsLeast ==
  ASSUME NEW S \in SUBSET Nat, S # {}
  PROVE  Min(S) \in S /\ \A y \in S : Min(S) <= y
  <1>1. PICK x \in S : \A y \in S : ~ (<<y, x>> \in OpToRel(<, Nat))
    BY NatLessThanWellFounded, WFMin
  <1>2. ASSUME NEW y \in S PROVE x <= y
    <2>1. x \in Nat /\ y \in Nat
      OBVIOUS
    <2>2. ~ (y < x)
      BY <1>1, <2>1 DEF OpToRel
    <2> QED  BY <2>1, <2>2
  <1> QED  BY <1>2 DEF Min

\* Turned round: a set of natural numbers with a bound has a largest element.
LEMMA MaxIsLargest ==
  ASSUME NEW n \in Nat, NEW S \in SUBSET (0..n), S # {}
  PROVE  Max(S) \in S /\ \A y \in S : y <= Max(S)
  <1> DEFINE T == {n - x : x \in S}
  <1>0. \A x \in S : x \in Nat /\ n - x \in Nat
    OBVIOUS
  <1>1. T \in SUBSET Nat /\ T # {}
    BY <1>0
  <1>2. Min(T) \in T /\ \A y \in T : Min(T) <= y
    BY <1>1, MinIsLeast
  <1>3. PICK x \in S : Min(T) = n - x
    BY <1>2
  <1>4. \A y \in S : y <= x
    BY <1>2, <1>3
  <1> QED  BY <1>4 DEF Max

\* The extrema of two numbers.
LEMMA OfTwo ==
  ASSUME NEW a \in Nat, NEW b \in Nat
  PROVE  /\ Min({a, b}) \in Nat /\ Min({a, b}) <= a /\ Min({a, b}) <= b
         /\ Max({a, b}) = IF a > b THEN a ELSE b
  <1>1. Min({a, b}) \in {a, b} /\ \A y \in {a, b} : Min({a, b}) <= y
    BY MinIsLeast
  <1>2. CASE a > b
    BY <1>1, <1>2, MaxIsLargest, {a, b} \in SUBSET (0..a)
  <1>3. CASE ~(a > b)
    BY <1>1, <1>3, MaxIsLargest, {a, b} \in SUBSET (0..b)
  <1> QED  BY <1>2, <1>3

\* Half a window is no less than two packets.
LEMMA HalveType ==
  \A cwnd \in Nat : Halve(cwnd) \in Nat
  <1> SUFFICES ASSUME NEW cwnd \in Nat PROVE Halve(cwnd) \in Nat
    OBVIOUS
  <1> DEFINE c == cwnd \div 2
  <1>1. c \in Nat
    OBVIOUS
  <1> HIDE DEF c
  <1>2. Max({c, 2}) = IF c > 2 THEN c ELSE 2
    BY <1>1, OfTwo
  <1>3. Max({c, 2}) \in Nat
    BY <1>1, <1>2
  <1> QED  BY <1>3 DEF Halve, c

\* Sets of chunks are finite, and only the empty one has no element.
LEMMA ChunkSets ==
  ASSUME NEW S \in SUBSET Chunks
  PROVE  /\ Cardinality(S) \in Nat
         /\ Cardinality(S) = 0 <=> S = {}
         /\ S # {} => /\ Min(S) \in S /\ \A n \in S : Min(S) <= n
                      /\ Max(S) \in S /\ \A n \in S : n <= Max(S)
  <1>0. LastChunk \in Int /\ 1 \in Int
    BY DataAssumption
  <1>1. IsFiniteSet(S)
    BY <1>0, FS_Interval, FS_Subset DEF Chunks
  <1>2. S \in SUBSET Nat /\ S \in SUBSET (0..LastChunk) /\ LastChunk \in Nat
    BY DataAssumption DEF Chunks
  <1> QED  BY <1>1, <1>2, FS_CardinalityType, FS_EmptySet, MinIsLeast, MaxIsLargest

\* What the checked subtractions return is no negative number.
LEMMA MonusType ==
  \A a, b \in Nat : Monus(a, b) \in Nat
  BY DEF Monus

-----------------------------------------------------------------------------
(* The counters: windows, outstanding bytes and the flags of flow control *)

(* t differs from s in nothing the properties look at, but for the timers. *)
Keeps(s, t) ==
  /\ t \in Sender
  /\ t.chunk = s.chunk /\ t.unacked = s.unacked /\ t.queue = s.queue
  /\ t.highest_tsn = s.highest_tsn /\ t.tsn = s.tsn /\ t.closing = s.closing
  /\ t.advancedPeerAckPoint = s.advancedPeerAckPoint
  /\ t.lastSentForwardTSN = s.lastSentForwardTSN

\* Counting what is in flight writes a counter only.
LEMMA CountedKeeps ==
  ASSUME NEW s \in Sender
  PROVE  Keeps(s, Counted(s)) /\ Counted(s).T3 = s.T3 /\ InFlight(s) \in SUBSET Chunks
  <1>1. InFlight(s) \in SUBSET Chunks
    BY DEF InFlight, Sender
  <1>2. Cardinality(InFlight(s)) \in Nat
    BY <1>1, ChunkSets
  <1> HIDE DEF InFlight
  <1> QED  BY <1>1, <1>2 DEF Counted, Keeps, Sender

\* The congestion control of a SACK leaves lists and timers alone.
LEMMA AdjustCountersKeeps ==
  ASSUME NEW s \in Sender, NEW p \in Path, NEW newly \in Nat,
         NEW advanced \in BOOLEAN, NEW all \in BOOLEAN, NEW rtt \in BOOLEAN
  PROVE  /\ Keeps(s, AdjustCounters(s, p, newly, advanced, all, rtt))
         /\ AdjustCounters(s, p, newly, advanced, all, rtt).T3 = s.T3
  <1> DEFINE outstanding == Monus(s.outstanding_bytes, newly)
             acked == s.partial_bytes_acked[p] + IF advanced THEN newly ELSE 0
             grow == rtt /\ acked >= s.cwnd[p] /\ outstanding >= s.cwnd[p]
             slow == s.cwnd[p] + IF advanced THEN Min({1, newly}) ELSE 0
             fast == s.cwnd[p] + IF grow THEN 1 ELSE 0
             partial == IF all THEN 0
                        ELSE IF grow THEN (acked - (s.cwnd[p] + 1)) % Word
                        ELSE acked % Word
             t == [s EXCEPT !.outstanding_bytes = outstanding]
             none == [q \in Path |-> 0]
             a == [t EXCEPT !.partial_bytes_acked = none, !.cwnd[p] = slow]
             b == [t EXCEPT !.cwnd[p] = fast, !.partial_bytes_acked[p] = partial]
  <1>1. /\ outstanding \in Nat /\ s.cwnd[p] \in Nat
        /\ s.partial_bytes_acked[p] \in 0..(Word - 1)
        /\ s.partial_bytes_acked \in [Path -> 0..(Word - 1)] /\ s.cwnd \in [Path -> Nat]
    BY MonusType DEF Sender
  <1>2. Word \in Nat /\ Word > 0
    BY DataAssumption
  <1>3. \A x \in Int : x % Word \in 0..(Word - 1)
    BY <1>2
  <1>4. acked \in Nat
    BY <1>1, <1>2
  <1>5. slow \in Nat
    <2>1. Min({1, newly}) \in Nat
      BY OfTwo
    <2> QED  BY <1>1, <2>1
  <1>6. fast \in Nat
    BY <1>1
  <1>7. partial \in 0..(Word - 1)
    <2>1. acked - (s.cwnd[p] + 1) \in Int /\ acked \in Int /\ 0 \in 0..(Word - 1)
      BY <1>1, <1>2, <1>4
    <2> HIDE DEF acked, grow
    <2> QED  BY <1>3, <2>1
  <1>8. none \in [Path -> 0..(Word - 1)]
    BY <1>2
  <1>9. AdjustCounters(s, p, newly, advanced, all, rtt) = IF s.cwnd[p] <= s.ssthresh[p] THEN a ELSE b
    BY DEF AdjustCounters
  <1> HIDE DEF outstanding, acked, grow, slow, fast, partial, none
  <1>10. Keeps(s, a) /\ a.T3 = s.T3
    BY <1>1, <1>5, <1>8 DEF Keeps, Sender
  <1>11. Keeps(s, b) /\ b.T3 = s.T3
    BY <1>1, <1>6, <1>7 DEF Keeps, Sender
  <1> QED  BY <1>9, <1>10, <1>11

\* What keeps lists and timers keeps the invariant.
LEMMA KeepsGood ==
  ASSUME NEW s, NEW t, Keeps(s, t), NEW seen, NEW but
  PROVE  /\ InFlight(t) = InFlight(s) /\ (Drained(t) <=> Drained(s))
         /\ Good(s, seen) => Good(t, seen)
         /\ Reported(s) => Reported(t)
         /\ t.T3 = s.T3 => (Timed(s, but) => Timed(t, but))
  <1>1. InFlight(t) = InFlight(s) /\ (Drained(t) <=> Drained(s))
    BY DEF Keeps, InFlight, Drained
  <1>2. Good(s, seen) => Good(t, seen)
    BY DEF Keeps, Good, Numbers, Lists, Covered
  <1>3. Reported(s) => Reported(t)
    BY <1>1 DEF Keeps, Reported, Waits
  <1>4. t.T3 = s.T3 => (Timed(s, but) => Timed(t, but))
    BY <1>1 DEF Keeps, Timed
  <1> QED  BY <1>1, <1>2, <1>3, <1>4

\* fc_check_t3 stops the timer of no path that has a chunk in flight.
LEMMA CheckT3Keeps ==
  ASSUME NEW s \in Sender, NEW p \in Path, NEW all \in BOOLEAN, NEW advanced \in BOOLEAN,
         NEW but, all => s.unacked = {}
  PROVE  /\ Keeps(s, CheckT3(s, p, all, advanced))
         /\ Timed(s, but) => Timed(CheckT3(s, p, all, advanced), but)
  <1> DEFINE t == Counted(s)
             r == CheckT3(s, p, all, advanced)
             none == [q \in Path |-> FALSE]
             noTimer == [t EXCEPT !.T3 = none]
             stopped == [t EXCEPT !.T3[p] = FALSE]
             started == [t EXCEPT !.T3[p] = @ \/ advanced]
             onPath == {n \in InFlight(s) : s.chunk[n].last_destination = p}
  <1>1. Keeps(s, t) /\ t.T3 = s.T3 /\ InFlight(t) = InFlight(s) /\ t \in Sender
    <2> HIDE DEF t
    <2>1. Keeps(s, t) /\ t.T3 = s.T3
      BY CountedKeeps DEF t
    <2> QED  BY <2>1, KeepsGood DEF Keeps
  <1>2. onPath \in SUBSET Chunks
    BY CountedKeeps
  <1>3. Obpa(s, p) = 0 => onPath = {}
    BY <1>2, ChunkSets DEF Obpa
  <1>r. r = IF all THEN noTimer ELSE IF Obpa(s, p) = 0 THEN stopped ELSE started
    BY DEF CheckT3
  <1> HIDE DEF t, r, noTimer, stopped, started
  <1>4. CASE all
    <2>1. r = [t EXCEPT !.T3 = none]
      BY <1>r, <1>4 DEF noTimer
    <2>2. none \in [Path -> BOOLEAN]
      OBVIOUS
    <2> HIDE DEF none
    <2>3. Keeps(s, r)
      BY <1>1, <2>1, <2>2 DEF Keeps, Sender
    <2>4. InFlight(r) = {}
      BY <1>4, <2>3 DEF Keeps, InFlight
    <2> QED  BY <2>3, <2>4 DEF Timed, r
  <1>5. CASE ~all /\ Obpa(s, p) = 0
    <2>1. r = [t EXCEPT !.T3[p] = FALSE]
      BY <1>r, <1>5 DEF stopped
    <2>2. Keeps(s, r)
      BY <1>1, <2>1 DEF Keeps, Sender
    <2>3. \A q \in Path \ {p} : r.T3[q] = s.T3[q]
      BY <1>1, <2>1 DEF Sender
    <2>4. InFlight(r) = InFlight(s) /\ r.chunk = s.chunk /\ r.queue = s.queue
      BY <2>2, KeepsGood DEF Keeps
    <2>5. \A n \in InFlight(s) : s.chunk[n].last_destination \in Path \ {p}
      BY <1>1, <1>3, <1>5, CountedKeeps DEF Keeps, Sender, ChunkData
    <2> QED  BY <2>2, <2>3, <2>4, <2>5 DEF Timed, r
  <1>6. CASE ~all /\ Obpa(s, p) # 0
    <2>1. r = [t EXCEPT !.T3[p] = @ \/ advanced]
      BY <1>r, <1>6 DEF started
    <2>2. Keeps(s, r)
      BY <1>1, <2>1 DEF Keeps, Sender
    <2>3. \A q \in Path : s.T3[q] => r.T3[q]
      BY <1>1, <2>1 DEF Sender
    <2>4. InFlight(r) = InFlight(s) /\ r.chunk = s.chunk /\ r.queue = s.queue
      BY <2>2, KeepsGood DEF Keeps
    <2>5. \A n \in InFlight(s) : s.chunk[n].last_destination \in Path
      BY CountedKeeps DEF Sender, ChunkData
    <2> QED  BY <2>2, <2>3, <2>4, <2>5 DEF Timed, r
  <1> QED  BY <1>4, <1>5, <1>6

-----------------------------------------------------------------------------
(* Sending *)

(* r is s after the chunks of sent, the first of the queue, went to path d. *)
Sends(s, r, sent, d) ==
  LET new == {n \in sent : ~s.chunk[n].sent}
  IN  /\ r \in Sender /\ sent \in SUBSET s.queue
      /\ \A n \in sent, m \in s.queue : m <= n => m \in sent
      /\ r.queue = s.queue \ sent
      /\ r.unacked = s.unacked \cup new
      /\ r.highest_tsn = Max({s.highest_tsn} \cup new)
      /\ r.chunk = [n \in Chunks |-> IF n \in sent THEN Transmitted(s.chunk[n], d)
                                    ELSE s.chunk[n]]
      /\ r.T3 = [s.T3 EXCEPT ![d] = TRUE]
      /\ r.tsn = s.tsn /\ r.closing = s.closing
      /\ r.advancedPeerAckPoint = s.advancedPeerAckPoint
      /\ r.lastSentForwardTSN = s.lastSentForwardTSN

\* What a transmission does to one chunk.
LEMMA TransmittedChunk ==
  ASSUME NEW c \in ChunkData, NEW d \in Path
  PROVE  /\ Transmitted(c, d) \in ChunkData
         /\ Transmitted(c, d).sent /\ Transmitted(c, d).last_destination = d
         /\ Transmitted(c, d).hasBeenDropped = c.hasBeenDropped
  <1> DEFINE g == IF c.sent THEN c.gap_reports ELSE 0
  <1>1. g \in 0..GapLimit
    BY DataAssumption DEF ChunkData
  <1>2. Transmitted(c, d) =
          [c EXCEPT !.sent = TRUE, !.last_destination = d, !.hasBeenRequeued = FALSE,
                    !.gap_reports = g]
    BY DEF Transmitted
  <1> HIDE DEF g
  <1> QED  BY <1>1, <1>2 DEF ChunkData

\* The loop of fc_check_for_txmit sends the first chunks of the queue, if any.
LEMMA SubmitSends ==
  ASSUME NEW s \in Sender, NEW d \in Path, NEW obpa \in Nat, s.queue # {}
  PROVE  \E sent : Sends(s, Submit(s, d, obpa), sent, d)
  <1> DEFINE sent == {n \in s.queue : \A m \in s.queue : m <= n => SendOkay(s, m, d, obpa)}
             left == s.queue \ sent
             new == {n \in sent : ~s.chunk[n].sent}
             rwnd == Monus(s.peer_arwnd, Cardinality(new))
             retransmitted == IF left # {} THEN s.chunk[Min(left)].sent
                              ELSE s.chunk[Max(sent)].sent
             second == IF Cardinality(s.queue) > 1 THEN {Min(s.queue \ {Min(s.queue)})} ELSE {}
             asked == \E n \in second : n \in sent \/ s.chunk[n].sent \/ rwnd >= 1
             highest == Max({s.highest_tsn} \cup new)
             chunk == [n \in Chunks |-> IF n \in sent THEN Transmitted(s.chunk[n], d)
                                        ELSE s.chunk[n]]
             late == s.t3_retransmission_sent \/ (s.waiting_for_sack /\ sent # {} /\ retransmitted)
             T3 == [s.T3 EXCEPT ![d] = TRUE]
             unacked == s.unacked \cup new
             bytes == s.outstanding_bytes + Cardinality(new)
             inFlight == s.one_packet_inflight \/ sent # {}
             again == s.doing_retransmission /\ ~asked
             r == Submit(s, d, obpa)
  <1>1. /\ s.queue \in SUBSET Chunks /\ sent \in SUBSET s.queue /\ left \in SUBSET Chunks
        /\ new \in SUBSET sent /\ new \in SUBSET Chunks /\ sent \in SUBSET Chunks
        /\ left = {} => sent # {}
    BY DEF Sender
  <1>2. \A n \in sent, m \in s.queue : m <= n => m \in sent
    <2> SUFFICES ASSUME NEW n \in sent, NEW m \in s.queue, m <= n,
                        NEW k \in s.queue, k <= m
                 PROVE  SendOkay(s, k, d, obpa)
      OBVIOUS
    <2>1. n \in Int /\ m \in Int /\ k \in Int
      BY <1>1 DEF Chunks
    <2> QED  BY <2>1
  <1>3. Cardinality(new) \in Nat /\ rwnd \in Nat
    <2> HIDE DEF new
    <2> QED  BY <1>1, ChunkSets, MonusType DEF Sender
  <1>4. highest \in Nat
    <2>1. s.highest_tsn \in Nat /\ LastChunk \in Nat
      BY DataAssumption DEF Sender
    <2> HIDE DEF new
    <2> DEFINE S == {s.highest_tsn} \cup new
               bound == s.highest_tsn + LastChunk
    <2>2. bound \in Nat /\ s.highest_tsn \in 0..bound /\ new \in SUBSET (0..bound)
      BY <1>1, <2>1 DEF Chunks
    <2>3. S \in SUBSET (0..bound) /\ S # {}
      BY <2>2
    <2> HIDE DEF S, bound
    <2>4. Max(S) \in S
      BY <2>2, <2>3, MaxIsLargest
    <2>5. Max(S) \in 0..bound
      BY <2>3, <2>4
    <2> QED  BY <2>2, <2>5 DEF S
  <1>5. chunk \in [Chunks -> ChunkData]
    <2> HIDE DEF sent
    <2> QED  BY TransmittedChunk DEF Sender
  <1>6. retransmitted \in BOOLEAN
    <2>1. left # {} => Min(left) \in Chunks
      <3> HIDE DEF left
      <3> QED  BY <1>1, ChunkSets
    <2>2. left = {} => Max(sent) \in Chunks
      <3> HIDE DEF left, sent
      <3> QED  BY <1>1, ChunkSets
    <2>3. \A n \in Chunks : s.chunk[n].sent \in BOOLEAN
      BY DEF Sender, ChunkData
    <2> HIDE DEF left, sent
    <2> QED  BY <2>1, <2>2, <2>3
  <1>7. T3 \in [Path -> BOOLEAN]
    BY DEF Sender
  <1>8. r = [[s EXCEPT !.unacked = unacked, !.highest_tsn = highest] EXCEPT
               !.chunk = chunk, !.outstanding_bytes = bytes, !.peer_arwnd = rwnd, !.queue = left,
               !.one_packet_inflight = inFlight, !.doing_retransmission = again,
               !.t3_retransmission_sent = late, !.T3[d] = TRUE]
    BY DEF Submit, Saved
  <1>9. unacked \in SUBSET Chunks /\ left \in SUBSET Chunks
    BY <1>1 DEF Sender
  <1>10. bytes \in Nat
    BY <1>3 DEF Sender
  <1>11. inFlight \in BOOLEAN /\ again \in BOOLEAN /\ late \in BOOLEAN
    <2> HIDE DEF sent, asked, retransmitted
    <2> QED  BY <1>6 DEF Sender
  <1> HIDE DEF sent, left, new, rwnd, retransmitted, second, highest, chunk, T3, r, asked,
               late, unacked, bytes, inFlight, again
  <1>12. r \in Sender
    <2> DEFINE r1 == [s EXCEPT !.unacked = unacked, !.highest_tsn = highest]
               r2 == [r1 EXCEPT !.chunk = chunk, !.outstanding_bytes = bytes,
                                !.peer_arwnd = rwnd, !.queue = left]
               r3 == [r2 EXCEPT !.one_packet_inflight = inFlight, !.doing_retransmission = again,
                                !.t3_retransmission_sent = late]
    <2>1. r = [r3 EXCEPT !.T3[d] = TRUE]
      BY <1>8
    <2>2. r1 \in Sender
      BY <1>4, <1>9 DEF Sender
    <2> HIDE DEF r1
    <2>3. r2 \in Sender
      BY <1>3, <1>5, <1>9, <1>10, <2>2 DEF Sender
    <2> HIDE DEF r2
    <2>4. r3 \in Sender
      BY <1>11, <2>3 DEF Sender
    <2> HIDE DEF r3
    <2> QED  BY <2>1, <2>4 DEF Sender
  <1>13. /\ r.queue = left
         /\ r.unacked = unacked
         /\ r.highest_tsn = highest
    BY <1>8 DEF Sender
  <1>14. r.chunk = chunk /\ r.T3 = T3
    BY <1>8 DEF Sender, T3
  <1>15. r.tsn = s.tsn /\ r.closing = s.closing
    BY <1>8 DEF Sender
  <1>16. /\ r.advancedPeerAckPoint = s.advancedPeerAckPoint
         /\ r.lastSentForwardTSN = s.lastSentForwardTSN
    BY <1>8 DEF Sender
  <1> QED
    BY <1>1, <1>2, <1>12, <1>13, <1>14, <1>15, <1>16
    DEF Sends, r, unacked, left, new, highest, chunk, T3

\* What is kept is sent in the same way afterwards.
LEMMA SendsAfter ==
  ASSUME NEW s, NEW t, NEW r, NEW sent, NEW d, Keeps(s, t), t.T3 = s.T3, Sends(t, r, sent, d)
  PROVE  Sends(s, r, sent, d)
  BY DEF Sends, Keeps

\* fc_check_for_txmit does nothing to lists and timers, or sends to path d.
LEMMA TxmitSends ==
  ASSUME NEW s \in Sender, NEW initial \in BOOLEAN, NEW d \in Path, NEW idle \in BOOLEAN
  PROVE  \/ /\ Keeps(s, CheckForTxmit(s, initial, d, idle))
            /\ CheckForTxmit(s, initial, d, idle).T3 = s.T3
         \/ \E sent : Sends(s, CheckForTxmit(s, initial, d, idle), sent, d)
  <1> DEFINE r == CheckForTxmit(s, initial, d, idle)
             obpa == Obpa(s, d)
             c == Counted(s)
             retransmitting == c.doing_retransmission \/ initial
             t == [c EXCEPT !.doing_retransmission = retransmitting]
             u == ResetCwnd(t, d, idle)
             idling == t.one_packet_inflight /\ t.outstanding_bytes > 0
             window == IF idle THEN 2 ELSE t.cwnd[d]
  <1>1. Keeps(s, c) /\ c.T3 = s.T3 /\ c \in Sender
    <2> HIDE DEF c
    <2> QED  BY CountedKeeps DEF Keeps, c
  <1>2. Keeps(s, t) /\ t.T3 = s.T3 /\ t \in Sender
    <2>1. retransmitting \in BOOLEAN
      BY <1>1 DEF Sender
    <2> HIDE DEF c, retransmitting
    <2> QED  BY <1>1, <2>1 DEF Keeps, Sender
  <1>3. Keeps(s, u) /\ u.T3 = s.T3 /\ u \in Sender
    <2> HIDE DEF t
    <2>1. u = [t EXCEPT !.one_packet_inflight = idling, !.cwnd[d] = window]
      BY DEF ResetCwnd
    <2>2. idling \in BOOLEAN /\ window \in Nat
      BY <1>2 DEF Sender
    <2> HIDE DEF u, idling, window
    <2> QED  BY <1>2, <2>1, <2>2 DEF Keeps, Sender
  <1>4. obpa \in Nat
    <2>1. {n \in InFlight(s) : s.chunk[n].last_destination = d} \in SUBSET Chunks
      BY CountedKeeps
    <2> QED  BY <2>1, ChunkSets DEF Obpa
  <1>5. Keeps(s, s)
    BY DEF Keeps
  <1>6. \/ r = s \/ r = c \/ r = t
        \/ s.queue # {} /\ r = Submit(u, d, obpa)
    <2> HIDE DEF u, t, c, obpa
    <2> QED  BY DEF CheckForTxmit, u, t, c, obpa
  <1> HIDE DEF r, u, t, c, obpa
  <1>7. CASE s.queue # {} /\ r = Submit(u, d, obpa)
    <2>1. u.queue # {}
      BY <1>3, <1>7 DEF Keeps
    <2>2. PICK sent : Sends(u, r, sent, d)
      BY <1>3, <1>4, <1>7, <2>1, SubmitSends
    <2>3. Sends(s, r, sent, d)
      BY <1>3, <2>2, SendsAfter
    <2> QED  BY <2>3 DEF r
  <1>8. CASE r = s \/ r = c \/ r = t
    BY <1>1, <1>2, <1>5, <1>8 DEF r
  <1> QED  BY <1>6, <1>7, <1>8

\* The new chunks that are sent are the next ones.
LEMMA SendsNext ==
  ASSUME NEW s, NEW r, NEW sent, NEW d, s \in Sender, Numbers(s), Lists(s), Sends(s, r, sent, d)
  PROVE  /\ r.highest_tsn \in Nat /\ s.highest_tsn <= r.highest_tsn /\ r.highest_tsn < s.tsn
         /\ s.unacked \in SUBSET Chunks /\ sent \in SUBSET Chunks
         /\ r.unacked = s.unacked \cup sent
         /\ r.unacked = s.unacked \cup ((s.highest_tsn + 1)..r.highest_tsn)
         /\ \A n \in sent : n <= r.highest_tsn
  <1> DEFINE new == {n \in sent : ~s.chunk[n].sent}
             S == {s.highest_tsn} \cup new
  <1>1. /\ s.unacked \in SUBSET Chunks /\ s.queue \in SUBSET Chunks
        /\ sent \in SUBSET s.queue /\ s.highest_tsn \in Nat /\ s.tsn \in Nat
    BY DEF Sender, Sends
  <1>2. Chunks \in SUBSET Nat /\ \A n \in Chunks : 1 <= n
    BY DataAssumption DEF Chunks
  <1>3. \A n \in sent : n \in new <=> n \notin s.unacked
    BY <1>1 DEF Lists
  <1>4. \A n \in new : n \in sent /\ n \in Nat /\ s.highest_tsn < n /\ n < s.tsn
    BY <1>1, <1>2, <1>3 DEF Lists
  <1>5. s.highest_tsn < s.tsn
    BY DEF Numbers
  <1>6. r.highest_tsn = Max(S) /\ r.unacked = s.unacked \cup new
    BY DEF Sends
  <1>7. \A n \in s.unacked : n <= s.highest_tsn
    BY <1>1 DEF Lists
  <1>8. \A n, m \in Chunks : n \in sent /\ m \in s.queue /\ m <= n => m \in sent
    BY <1>1 DEF Sends
  <1> HIDE DEF new
  <1>9. Max(S) \in S /\ \A n \in S : n <= Max(S)
    <2>1. \A n \in S : n \in 0..s.tsn
      BY <1>1, <1>4, <1>5
    <2> HIDE DEF S
    <2>2. S \in SUBSET (0..s.tsn)
      BY <2>1
    <2>3. S # {}
      BY DEF S
    <2> QED  BY <1>1, <2>2, <2>3, MaxIsLargest
  <1>10. /\ r.highest_tsn \in Nat /\ s.highest_tsn <= r.highest_tsn /\ r.highest_tsn < s.tsn
         /\ \A n \in new : n <= r.highest_tsn
         /\ r.highest_tsn = s.highest_tsn \/ r.highest_tsn \in new
    BY <1>1, <1>4, <1>5, <1>6, <1>9
  <1>11. r.unacked = s.unacked \cup sent
    BY <1>3, <1>4, <1>6
  <1>12. \A n \in sent : n <= r.highest_tsn
    <2> SUFFICES ASSUME NEW n \in sent PROVE n <= r.highest_tsn
      OBVIOUS
    <2>1. n \in Nat
      BY <1>1, <1>2
    <2> QED  BY <1>1, <1>3, <1>7, <1>10, <2>1
  <1>13. ASSUME NEW n \in (s.highest_tsn + 1)..r.highest_tsn
         PROVE  n \in sent
    <2>1. r.highest_tsn \in new /\ r.highest_tsn \in sent
      BY <1>1, <1>4, <1>10, <1>13
    <2>2. n \in Nat /\ s.highest_tsn < n /\ n < s.tsn /\ n <= r.highest_tsn
      BY <1>1, <1>10, <1>13
    <2>3. r.highest_tsn \in Chunks /\ r.highest_tsn <= LastChunk /\ LastChunk \in Nat
      BY <1>1, <2>1, DataAssumption DEF Chunks
    <2>4. n \in Chunks
      BY <1>1, <1>10, <2>2, <2>3 DEF Chunks
    <2>5. n \in s.queue
      BY <2>2, <2>4 DEF Lists
    <2> QED  BY <1>8, <2>1, <2>2, <2>3, <2>4, <2>5
  <1>14. \A n \in new : n \in (s.highest_tsn + 1)..r.highest_tsn
    BY <1>1, <1>4, <1>10
  <1>15. r.unacked = s.unacked \cup ((s.highest_tsn + 1)..r.highest_tsn)
    BY <1>6, <1>11, <1>13, <1>14
  <1>16. s.unacked \in SUBSET Chunks /\ sent \in SUBSET Chunks
    BY <1>1
  <1> QED  BY <1>10, <1>11, <1>12, <1>15, <1>16

\* Sending keeps the invariant, and starts the timer of the path it uses.
LEMMA SendsGood ==
  ASSUME NEW s, NEW r, NEW sent, NEW d \in Path, NEW seen, NEW but,
         Good(s, seen), Sends(s, r, sent, d)
  PROVE  /\ Good(r, seen) /\ (Drained(r) <=> Drained(s))
         /\ Reported(s) => Reported(r)
         /\ Timed(s, but) => Timed(r, but)
  <1>1. /\ s \in Sender /\ Numbers(s) /\ Lists(s) /\ Covered(s, seen)
        /\ r \in Sender /\ sent \in SUBSET s.queue
    BY DEF Good, Sends
  <1>2. /\ r.highest_tsn \in Nat /\ s.highest_tsn <= r.highest_tsn /\ r.highest_tsn < s.tsn
        /\ s.unacked \in SUBSET Chunks /\ sent \in SUBSET Chunks
        /\ r.unacked = s.unacked \cup sent
        /\ r.unacked = s.unacked \cup ((s.highest_tsn + 1)..r.highest_tsn)
        /\ \A n \in sent : n <= r.highest_tsn
    BY <1>1, SendsNext
  <1>3. /\ r.queue = s.queue \ sent /\ r.tsn = s.tsn /\ r.closing = s.closing
        /\ r.T3 = [s.T3 EXCEPT ![d] = TRUE]
        /\ r.advancedPeerAckPoint = s.advancedPeerAckPoint
        /\ r.lastSentForwardTSN = s.lastSentForwardTSN
    BY DEF Sends
  <1>4. ASSUME NEW n \in sent
        PROVE  /\ r.chunk[n].sent /\ r.chunk[n].last_destination = d
               /\ r.chunk[n].hasBeenDropped = s.chunk[n].hasBeenDropped
    <2>1. n \in Chunks /\ s.chunk[n] \in ChunkData
      BY <1>1, <1>2 DEF Sender
    <2>2. r.chunk[n] = Transmitted(s.chunk[n], d)
      BY <2>1 DEF Sends
    <2> QED  BY <2>1, <2>2, TransmittedChunk
  <1>5. \A n \in Chunks \ sent : r.chunk[n] = s.chunk[n]
    BY DEF Sends
  <1>6. s.highest_tsn \in Nat /\ s.tsn \in Nat /\ Chunks \in SUBSET Nat
    <2>1. s.highest_tsn \in Nat /\ s.tsn \in Nat
      BY <1>1 DEF Sender
    <2>2. Chunks \in SUBSET Nat
      BY DataAssumption DEF Chunks
    <2> QED  BY <2>1, <2>2
  <1>7. Numbers(r)
    BY <1>1, <1>2, <1>3, <1>6 DEF Numbers, Sender
  <1>8. Lists(r)
    <2>1. ASSUME NEW n \in r.unacked
          PROVE  n \in 1..r.highest_tsn /\ n..r.highest_tsn \subseteq r.unacked
      <3>1. CASE n \in s.unacked
        <4>1. n \in 1..s.highest_tsn /\ n..s.highest_tsn \subseteq s.unacked
          BY <1>1, <3>1 DEF Lists
        <4> QED  BY <1>2, <1>6, <4>1
      <3>2. CASE n \in (s.highest_tsn + 1)..r.highest_tsn
        BY <1>2, <1>6, <3>2
      <3> QED  BY <1>2, <2>1, <3>1, <3>2
    <2>2. ASSUME NEW n \in r.queue
          PROVE  n < r.tsn /\ (n \in r.unacked \/ n > r.highest_tsn)
      <3>1. n \in Nat /\ n < s.tsn /\ (n \in s.unacked \/ n > s.highest_tsn)
        BY <1>1, <1>3, <1>6, <2>2 DEF Lists, Sender
      <3> QED  BY <1>2, <1>3, <1>6, <3>1
    <2>3. ASSUME NEW n \in Chunks, r.highest_tsn < n, n < r.tsn
          PROVE  n \in r.queue
      <3>1. n \in Nat /\ s.highest_tsn < n /\ n \notin sent
        BY <1>2, <1>6, <2>3
      <3> QED  BY <1>1, <1>3, <2>3, <3>1 DEF Lists
    <2>4. ASSUME NEW n \in Chunks
          PROVE  r.chunk[n].sent <=> n \in r.unacked
      BY <1>1, <1>2, <1>4, <1>5 DEF Lists
    <2> QED  BY <2>1, <2>2, <2>3, <2>4 DEF Lists
  <1>9. Covered(r, seen)
    <2>1. \A n \in Chunks : r.chunk[n].hasBeenDropped = s.chunk[n].hasBeenDropped
      BY <1>4, <1>5
    <2>2. seen \subseteq 1..r.highest_tsn
      BY <1>1, <1>2, <1>6 DEF Covered
    <2> QED  BY <1>1, <1>2, <1>3, <2>1, <2>2 DEF Covered
  <1>10. Drained(r) <=> Drained(s)
    BY <1>1, <1>2, <1>3 DEF Drained
  <1>11. Reported(s) => Reported(r)
    BY <1>3, <1>10 DEF Reported, Waits
  <1>12. ASSUME Timed(s, but), NEW n \in InFlight(r) \ (r.queue \cup but)
         PROVE  r.T3[r.chunk[n].last_destination]
    <2>1. n \in Chunks
      BY <1>1, <1>12, CountedKeeps
    <2>2. CASE n \in sent
      BY <1>1, <1>3, <1>4, <2>2 DEF Sender
    <2>3. CASE n \notin sent
      <3>1. n \in InFlight(s) \ (s.queue \cup but)
        BY <1>2, <1>3, <1>5, <1>12, <2>1, <2>3 DEF InFlight
      <3>2. s.chunk[n].last_destination \in Path
        BY <1>1, <2>1 DEF Sender, ChunkData
      <3>3. s.T3[s.chunk[n].last_destination]
        BY <1>12, <3>1 DEF Timed
      <3> QED  BY <1>1, <1>3, <1>5, <2>1, <2>3, <3>2, <3>3 DEF Sender
    <2> QED  BY <2>2, <2>3
  <1>13. Timed(s, but) => Timed(r, but)
    BY <1>12 DEF Timed
  <1> QED  BY <1>1, <1>7, <1>8, <1>9, <1>10, <1>11, <1>13 DEF Good

(* r is s after flow control had its turn: at most, something more was sent. *)
Follows(s, r, seen) ==
  /\ Good(r, seen) /\ (Drained(r) <=> Drained(s)) /\ r.closing = s.closing
  /\ s.unacked \subseteq r.unacked
  /\ Reported(s) => Reported(r)

\* fc_check_for_txmit keeps the invariant, whatever it does.
LEMMA TxmitGood ==
  ASSUME NEW s, NEW seen, NEW but, Good(s, seen),
         NEW initial \in BOOLEAN, NEW d \in Path, NEW idle \in BOOLEAN
  PROVE  /\ Follows(s, CheckForTxmit(s, initial, d, idle), seen)
         /\ Timed(s, but) => Timed(CheckForTxmit(s, initial, d, idle), but)
  <1> DEFINE r == CheckForTxmit(s, initial, d, idle)
  <1>1. s \in Sender
    BY DEF Good
  <1>2. \/ Keeps(s, r) /\ r.T3 = s.T3
        \/ \E sent : Sends(s, r, sent, d)
    BY <1>1, TxmitSends
  <1> HIDE DEF r
  <1>3. CASE Keeps(s, r) /\ r.T3 = s.T3
    <2>1. r.closing = s.closing /\ s.unacked \subseteq r.unacked
      BY <1>3 DEF Keeps
    <2> QED  BY <1>3, <2>1, KeepsGood DEF r, Follows
  <1>4. CASE \E sent : Sends(s, r, sent, d)
    <2>1. PICK sent : Sends(s, r, sent, d)
      BY <1>4
    <2>2. r.closing = s.closing /\ s.unacked \subseteq r.unacked
      BY <2>1 DEF Sends
    <2> QED  BY <2>1, <2>2, SendsGood DEF r, Follows
  <1> QED  BY <1>2, <1>3, <1>4

-----------------------------------------------------------------------------
(* What flow control does about a SACK *)

\* Keeping something twice is keeping it.
LEMMA KeepsTransitive ==
  ASSUME NEW s, NEW t, NEW u, Keeps(s, t), Keeps(t, u)
  PROVE  Keeps(s, u)
  BY DEF Keeps

\* What was kept first is followed in the same way.
LEMMA FollowsKept ==
  ASSUME NEW s, NEW t, NEW r, NEW seen, Keeps(s, t), Follows(t, r, seen)
  PROVE  Follows(s, r, seen)
  <1>1. (Drained(t) <=> Drained(s)) /\ (Reported(s) => Reported(t))
    BY KeepsGood
  <1> QED  BY <1>1 DEF Follows, Keeps

(* The first lines of fc_sack_info and fc_fast_retransmission. *)
Adjusted(s, p, newly, advanced, all, rtt) ==
  AdjustCounters([s EXCEPT !.t3_retransmission_sent = FALSE, !.waiting_for_sack = FALSE],
                 p, newly, advanced, all, rtt)

\* They keep lists and timers.
LEMMA AdjustedKeeps ==
  ASSUME NEW s \in Sender, NEW p \in Path, NEW newly \in Nat,
         NEW advanced \in BOOLEAN, NEW all \in BOOLEAN, NEW rtt \in BOOLEAN
  PROVE  /\ Keeps(s, Adjusted(s, p, newly, advanced, all, rtt))
         /\ Adjusted(s, p, newly, advanced, all, rtt).T3 = s.T3
  <1> DEFINE b == [s EXCEPT !.t3_retransmission_sent = FALSE, !.waiting_for_sack = FALSE]
             a == AdjustCounters(b, p, newly, advanced, all, rtt)
  <1>1. Keeps(s, b) /\ b \in Sender /\ b.T3 = s.T3
    BY DEF Keeps, Sender
  <1> HIDE DEF b
  <1>2. Keeps(b, a) /\ a.T3 = b.T3
    BY <1>1, AdjustCountersKeeps
  <1>3. Keeps(s, a) /\ a.T3 = s.T3
    <2> HIDE DEF a
    <2> QED  BY <1>1, <1>2, KeepsTransitive
  <1> QED  BY <1>3 DEF Adjusted, b

\* fc_sack_info keeps the invariant.
LEMMA SackInfoGood ==
  ASSUME NEW s, NEW seen, NEW but, Good(s, seen), NEW p \in Path, NEW w \in Nat, NEW newly \in Nat,
         NEW all \in BOOLEAN, NEW advanced \in BOOLEAN, NEW rtt \in BOOLEAN,
         NEW d \in Path, NEW idle \in BOOLEAN, all => s.unacked = {}
  PROVE  /\ Follows(s, SackInfo(s, p, w, newly, all, advanced, rtt, d, idle), seen)
         /\ Timed(s, but) => Timed(SackInfo(s, p, w, newly, all, advanced, rtt, d, idle), but)
  <1> DEFINE a == Adjusted(s, p, newly, advanced, all, rtt)
             t == CheckT3(a, p, all, advanced)
             inFlight == t.outstanding_bytes > 0
             window == Monus(w, t.outstanding_bytes)
             u == [t EXCEPT !.one_packet_inflight = inFlight, !.peer_arwnd = window]
             r == CheckForTxmit(u, FALSE, d, idle)
  <1>1. s \in Sender
    BY DEF Good
  <1>2. Keeps(s, a) /\ a.T3 = s.T3 /\ a \in Sender /\ a.unacked = s.unacked
    <2>1. Keeps(s, a) /\ a.T3 = s.T3
      BY <1>1, AdjustedKeeps
    <2> HIDE DEF a
    <2> QED  BY <2>1 DEF Keeps
  <1> HIDE DEF a
  <1>3. Keeps(a, t) /\ (Timed(a, but) => Timed(t, but)) /\ t \in Sender
    <2>1. Keeps(a, t) /\ (Timed(a, but) => Timed(t, but))
      BY <1>2, CheckT3Keeps
    <2> HIDE DEF t
    <2> QED  BY <2>1 DEF Keeps
  <1> HIDE DEF t
  <1>4. Keeps(t, u) /\ u.T3 = t.T3
    <2>0. t.outstanding_bytes \in Nat
      BY <1>3 DEF Sender
    <2>1. inFlight \in BOOLEAN /\ window \in Nat
      <3>1. window \in Nat
        BY <2>0, MonusType
      <3>2. inFlight \in BOOLEAN
        BY <2>0
      <3> QED  BY <3>1, <3>2
    <2>2. u = [t EXCEPT !.one_packet_inflight = inFlight, !.peer_arwnd = window]
      OBVIOUS
    <2> HIDE DEF u, inFlight, window
    <2> QED  BY <1>3, <2>1, <2>2 DEF Keeps, Sender
  <1> HIDE DEF u
  <1>5. Keeps(s, t) /\ Keeps(s, u)
    BY <1>2, <1>3, <1>4, KeepsTransitive
  <1>6. Good(u, seen) /\ (Timed(s, but) => Timed(u, but))
    <2>1. Good(u, seen)
      BY <1>5, KeepsGood
    <2>2. Timed(s, but) => Timed(a, but)
      BY <1>2, KeepsGood
    <2>3. Timed(t, but) => Timed(u, but)
      BY <1>4, KeepsGood
    <2> QED  BY <1>3, <2>1, <2>2, <2>3
  <1>7. Follows(u, r, seen) /\ (Timed(u, but) => Timed(r, but))
    BY <1>6, TxmitGood
  <1> HIDE DEF r
  <1>8. Follows(s, r, seen) /\ (Timed(s, but) => Timed(r, but))
    BY <1>5, <1>6, <1>7, FollowsKept
  <1> QED  BY <1>8 DEF SackInfo, Adjusted, r, u, t, a

\* fc_fast_retransmission keeps it, and what it gives to the queue needs no timer until then.
LEMMA FastRetransmissionGood ==
  ASSUME NEW s, NEW seen, Good(s, seen), NEW p \in Path, NEW w \in Nat, NEW newly \in Nat,
         NEW chunks \in SUBSET s.unacked, chunks # {},
         NEW all \in BOOLEAN, NEW advanced \in BOOLEAN, NEW rtt \in BOOLEAN,
         NEW d \in Path, NEW idle \in BOOLEAN, all => s.unacked = {}
  PROVE  LET r == FastRetransmission(s, p, w, chunks, newly, all, advanced, rtt, d, idle)
         IN  Follows(s, r, seen) /\ (Timed(s, chunks) => Timed(r, {}))
  <1> DEFINE a == Adjusted(s, p, newly, advanced, all, rtt)
             half == Halve(a.cwnd[p])
             h == [[a EXCEPT !.ssthresh[p] = half, !.cwnd[p] = half] EXCEPT
                     !.partial_bytes_acked[p] = 0,
                     !.fast_recovery_active = TRUE, !.fr_exit_point = a.highest_tsn]
             b == IF a.fast_recovery_active THEN a ELSE h
             q == [b EXCEPT !.queue = @ \cup chunks]
             t == CheckT3(q, p, all, advanced)
             inFlight == ~all
             window == Monus(w, t.outstanding_bytes)
             u == [t EXCEPT !.one_packet_inflight = inFlight, !.peer_arwnd = window]
             r == CheckForTxmit(u, TRUE, d, idle)
  <1>1. s \in Sender
    BY DEF Good
  <1>2. Keeps(s, a) /\ a.T3 = s.T3 /\ a \in Sender /\ a.unacked = s.unacked
    <2>1. Keeps(s, a) /\ a.T3 = s.T3
      BY <1>1, AdjustedKeeps
    <2> HIDE DEF a
    <2> QED  BY <2>1 DEF Keeps
  <1> HIDE DEF a
  <1>3. Keeps(a, b) /\ b.T3 = a.T3
    <2>1. half \in Nat
      <3>1. a.cwnd[p] \in Nat
        BY <1>2 DEF Sender
      <3> QED  BY <3>1, HalveType
    <2>2. 0 \in 0..(Word - 1)
      BY DataAssumption
    <2> HIDE DEF half
    <2>3. Keeps(a, h) /\ h.T3 = a.T3
      BY <1>2, <2>1, <2>2 DEF Keeps, Sender
    <2>4. Keeps(a, a)
      BY <1>2 DEF Keeps
    <2> HIDE DEF h
    <2> QED  BY <2>3, <2>4
  <1>4. Keeps(s, b) /\ b.T3 = s.T3
    <2> HIDE DEF b
    <2> QED  BY <1>2, <1>3, KeepsTransitive
  <1> HIDE DEF b
  <1>5. Good(b, seen) /\ (Timed(s, chunks) => Timed(b, chunks)) /\ (Reported(s) => Reported(b))
    BY <1>4, KeepsGood
  <1>6. /\ b \in Sender /\ b.unacked = s.unacked /\ b.closing = s.closing
        /\ chunks \in SUBSET Chunks /\ chunks \in SUBSET b.unacked /\ b.queue \in SUBSET Chunks
    BY <1>1, <1>4 DEF Keeps, Sender
  <1>7. /\ q \in Sender /\ q.queue = b.queue \cup chunks /\ q.unacked = b.unacked
        /\ q.chunk = b.chunk /\ q.highest_tsn = b.highest_tsn /\ q.tsn = b.tsn
        /\ q.advancedPeerAckPoint = b.advancedPeerAckPoint
        /\ q.lastSentForwardTSN = b.lastSentForwardTSN
        /\ q.closing = b.closing /\ q.T3 = b.T3
    BY <1>6 DEF Sender
  <1> HIDE DEF q
  <1>8. Good(q, seen)
    <2>1. Numbers(q) /\ Covered(q, seen)
      BY <1>5, <1>7 DEF Good, Numbers, Covered
    <2>2. \A n \in chunks : n < b.tsn
      <3> SUFFICES ASSUME NEW n \in chunks PROVE n < b.tsn
        OBVIOUS
      <3>1. n \in 1..b.highest_tsn /\ b.highest_tsn < b.tsn
        BY <1>5, <1>6 DEF Good, Lists, Numbers
      <3>2. b.highest_tsn \in Nat /\ b.tsn \in Nat
        BY <1>6 DEF Sender
      <3> QED  BY <3>1, <3>2
    <2>3. Lists(q)
      BY <1>5, <1>6, <1>7, <2>2 DEF Good, Lists
    <2> QED  BY <1>7, <2>1, <2>3 DEF Good
  <1>9. ~Drained(q) /\ ~Drained(s) /\ (Reported(s) => Reported(q))
    BY <1>6, <1>7 DEF Drained, Reported, Waits
  <1>10. Timed(b, chunks) => Timed(q, {})
    BY <1>7 DEF Timed, InFlight
  <1>11. Keeps(q, t) /\ (Timed(q, {}) => Timed(t, {})) /\ t \in Sender
    <2>1. Keeps(q, t) /\ (Timed(q, {}) => Timed(t, {}))
      BY <1>6, <1>7, CheckT3Keeps
    <2> HIDE DEF t
    <2> QED  BY <2>1 DEF Keeps
  <1> HIDE DEF t
  <1>12. Keeps(t, u) /\ u.T3 = t.T3
    <2>0. t.outstanding_bytes \in Nat
      BY <1>11 DEF Sender
    <2>1. inFlight \in BOOLEAN /\ window \in Nat
      BY <2>0, MonusType
    <2>2. u = [t EXCEPT !.one_packet_inflight = inFlight, !.peer_arwnd = window]
      OBVIOUS
    <2> HIDE DEF u, inFlight, window
    <2> QED  BY <1>11, <2>1, <2>2 DEF Keeps, Sender
  <1> HIDE DEF u
  <1>13. Keeps(q, u) /\ Good(u, seen) /\ (Timed(t, {}) => Timed(u, {}))
    BY <1>8, <1>11, <1>12, KeepsTransitive, KeepsGood
  <1>14. Follows(u, r, seen) /\ (Timed(u, {}) => Timed(r, {}))
    BY <1>13, TxmitGood
  <1> HIDE DEF r
  <1>15. Follows(q, r, seen)
    BY <1>13, <1>14, FollowsKept
  <1>16. Follows(s, r, seen)
    BY <1>6, <1>7, <1>9, <1>15 DEF Follows
  <1>17. Timed(s, chunks) => Timed(r, {})
    BY <1>5, <1>10, <1>11, <1>13, <1>14
  <1> QED  BY <1>16, <1>17 DEF FastRetransmission, Adjusted, r, u, t, q, b, a

-----------------------------------------------------------------------------
(* What reliable transfer does about a SACK *)

\* rtx_dequeue_up_to forgets nothing the peer does not have.
LEMMA DequeueGood ==
  ASSUME NEW s, NEW seen, NEW but, Good(s, seen), NEW c \in Nat, 1..c \subseteq seen
  PROVE  /\ Good(DequeueUpTo(s, c), seen) /\ DequeueUpTo(s, c).closing = s.closing
         /\ Timed(s, but) => Timed(DequeueUpTo(s, c), but)
  <1> DEFINE unacked == {n \in s.unacked : n > c}
             queue == {n \in s.queue : n > c}
             chunk == [n \in Chunks |-> IF n \in s.unacked /\ n <= c THEN NewChunk ELSE s.chunk[n]]
             r == DequeueUpTo(s, c)
  <1>1. s \in Sender /\ Numbers(s) /\ Lists(s) /\ Covered(s, seen)
    BY DEF Good
  <1>2. /\ s.unacked \in SUBSET Chunks /\ s.queue \in SUBSET Chunks /\ Chunks \in SUBSET Nat
        /\ s.highest_tsn \in Nat /\ s.tsn \in Nat /\ s.chunk \in [Chunks -> ChunkData]
    <2>1. Chunks \in SUBSET Nat
      BY DataAssumption DEF Chunks
    <2> QED  BY <1>1, <2>1 DEF Sender
  <1>3. c <= s.highest_tsn
    BY <1>1, <1>2, c = 0 \/ c \in 1..c DEF Covered
  <1>4. chunk \in [Chunks -> ChunkData]
    <2>1. NewChunk \in ChunkData
      BY DataAssumption DEF NewChunk, ChunkData, Path
    <2> QED  BY <1>2, <2>1
  <1>5. r = [s EXCEPT !.queue = queue, !.unacked = unacked, !.chunk = chunk]
    BY DEF DequeueUpTo
  <1> HIDE DEF r, chunk, queue, unacked
  <1>6. unacked \in SUBSET Chunks /\ queue \in SUBSET Chunks
    BY <1>2 DEF unacked, queue
  <1>7. r \in Sender
    BY <1>1, <1>4, <1>5, <1>6 DEF Sender
  <1>8. /\ r.queue = queue /\ r.unacked = unacked /\ r.chunk = chunk
        /\ r.highest_tsn = s.highest_tsn /\ r.tsn = s.tsn /\ r.closing = s.closing
        /\ r.advancedPeerAckPoint = s.advancedPeerAckPoint
        /\ r.lastSentForwardTSN = s.lastSentForwardTSN /\ r.T3 = s.T3
    BY <1>1, <1>5 DEF Sender
  <1>9. /\ \A n \in unacked : chunk[n] = s.chunk[n]
        /\ \A n \in Chunks : (~chunk[n].sent /\ ~chunk[n].hasBeenDropped) \/ chunk[n] = s.chunk[n]
        /\ \A n \in Chunks : n \in s.unacked /\ n <= c => ~chunk[n].sent
        /\ \A n \in Chunks \ s.unacked : chunk[n] = s.chunk[n]
    <2>1. ~NewChunk.sent /\ ~NewChunk.hasBeenDropped
      BY DEF NewChunk
    <2>2. \A n \in Chunks : chunk[n] = IF n \in s.unacked /\ n <= c THEN NewChunk ELSE s.chunk[n]
      BY DEF chunk
    <2>3. \A n \in unacked : n \in Chunks /\ ~(n <= c)
      <3> SUFFICES ASSUME NEW n \in unacked PROVE n \in Chunks /\ ~(n <= c)
        OBVIOUS
      <3>1. n \in s.unacked /\ n > c
        BY DEF unacked
      <3>2. n \in Chunks /\ n \in Nat
        BY <1>2, <3>1
      <3> QED  BY <3>1, <3>2
    <2> HIDE DEF NewChunk
    <2> QED  BY <2>1, <2>2, <2>3
  <1>10. Numbers(r)
    BY <1>1, <1>8 DEF Numbers
  <1>11. Lists(r)
    <2>1. ASSUME NEW n \in unacked
          PROVE  n \in 1..s.highest_tsn /\ n..s.highest_tsn \subseteq unacked
      BY <1>1, <1>2, <2>1 DEF unacked, Lists
    <2>2. ASSUME NEW n \in queue
          PROVE  n < s.tsn /\ (n \in unacked \/ n > s.highest_tsn)
      BY <1>1, <1>2, <2>2 DEF unacked, queue, Lists
    <2>3. ASSUME NEW n \in Chunks, s.highest_tsn < n, n < s.tsn
          PROVE  n \in queue
      BY <1>1, <1>2, <1>3, <2>3 DEF queue, Lists
    <2>4. ASSUME NEW n \in Chunks
          PROVE  chunk[n].sent <=> n \in unacked
      BY <1>1, <1>2, <1>9 DEF Lists, unacked
    <2> QED  BY <1>8, <2>1, <2>2, <2>3, <2>4 DEF Lists
  <1>12. Covered(r, seen)
    <2>1. ASSUME NEW n \in Chunks \ Mortal, n < s.tsn
          PROVE  n \in unacked \cup queue \cup seen
      <3>1. CASE n > c
        BY <1>1, <2>1, <3>1 DEF Covered, unacked, queue
      <3>2. CASE ~(n > c)
        <4>1. n \in 1..c
          BY <3>2, DataAssumption DEF Chunks
        <4> QED  BY <4>1
      <3> QED  BY <3>1, <3>2
    <2> QED  BY <1>1, <1>8, <1>9, <2>1 DEF Covered
  <1>13. Timed(s, but) => Timed(r, but)
    <2> SUFFICES ASSUME Timed(s, but), NEW n \in InFlight(r) \ (r.queue \cup but)
                 PROVE  r.T3[r.chunk[n].last_destination]
      BY DEF Timed
    <2>1. n \in unacked /\ n \in s.unacked /\ n > c /\ chunk[n] = s.chunk[n]
      BY <1>8, <1>9 DEF InFlight, unacked
    <2>2. n \in InFlight(s) \ (s.queue \cup but)
      BY <1>8, <2>1 DEF InFlight, queue
    <2> QED  BY <1>8, <2>1, <2>2 DEF Timed
  <1> QED  BY <1>7, <1>8, <1>10, <1>11, <1>12, <1>13 DEF Good, r

(* r differs from s in what is noted of chunks; only those with a lifetime *)
(* were given up.                                                          *)
Touches(s, r) ==
  /\ r \in Sender
  /\ r.unacked = s.unacked /\ r.queue = s.queue /\ r.T3 = s.T3
  /\ r.highest_tsn = s.highest_tsn /\ r.tsn = s.tsn /\ r.closing = s.closing
  /\ r.advancedPeerAckPoint = s.advancedPeerAckPoint
  /\ r.lastSentForwardTSN = s.lastSentForwardTSN
  /\ \A n \in Chunks :
       /\ r.chunk[n].sent = s.chunk[n].sent
       /\ r.chunk[n].last_destination = s.chunk[n].last_destination
       /\ r.chunk[n].hasBeenDropped => s.chunk[n].hasBeenDropped \/ n \in Mortal

\* Such notes keep the invariant, and the timers for what they put into flight.
LEMMA TouchesGood ==
  ASSUME NEW s, NEW r, Touches(s, r), NEW seen, NEW but, NEW more,
         Good(s, seen), InFlight(r) \subseteq InFlight(s) \cup more
  PROVE  /\ Good(r, seen) /\ (Drained(r) <=> Drained(s)) /\ (Reported(s) => Reported(r))
         /\ Timed(s, but) => Timed(r, but \cup more)
  <1>1. s \in Sender /\ r \in Sender
    BY DEF Good, Touches
  <1>2. Good(r, seen)
    <2>1. Numbers(r)
      BY DEF Good, Touches, Numbers
    <2>2. Lists(r)
      BY DEF Good, Touches, Lists
    <2>3. Covered(r, seen)
      BY DEF Good, Touches, Covered
    <2> QED  BY <1>1, <2>1, <2>2, <2>3 DEF Good
  <1>3. (Drained(r) <=> Drained(s)) /\ (Reported(s) => Reported(r))
    BY DEF Touches, Drained, Reported, Waits
  <1>4. Timed(s, but) => Timed(r, but \cup more)
    <2> SUFFICES ASSUME Timed(s, but), NEW n \in InFlight(r) \ (r.queue \cup (but \cup more))
                 PROVE  r.T3[r.chunk[n].last_destination]
      BY DEF Timed
    <2>1. n \in InFlight(s) \ (s.queue \cup but) /\ n \in Chunks
      BY <1>1, CountedKeeps DEF Touches
    <2> QED  BY <2>1 DEF Timed, Touches
  <1> QED  BY <1>2, <1>3, <1>4

\* What gap reports do to one chunk: nothing is forgotten of its fate.
LEMMA GapReportedChunk ==
  ASSUME NEW c \in ChunkData, NEW newly \in BOOLEAN, NEW given \in BOOLEAN, NEW again \in BOOLEAN
  PROVE  \A x \in {GapAcked(c, newly), GapMissed(c, given, again)} :
           /\ x \in ChunkData
           /\ x.sent = c.sent /\ x.last_destination = c.last_destination
           /\ x.hasBeenDropped => c.hasBeenDropped \/ given
           /\ c.hasBeenDropped => x.hasBeenDropped
           /\ c.hasBeenAcked => x.hasBeenAcked
           /\ x.hasBeenRequeued = c.hasBeenRequeued
  <1> DEFINE k == IF again THEN 0 ELSE Min({c.gap_reports + 1, GapLimit})
             a == c.hasBeenAcked \/ newly
             g == c.hasBeenDropped \/ given
             f == c.hasBeenFastRetransmitted \/ given \/ again
  <1>1. k \in 0..GapLimit /\ 0 \in 0..GapLimit
    <2>1. GapLimit \in Nat /\ c.gap_reports + 1 \in Nat
      BY DataAssumption DEF ChunkData
    <2>2. Min({c.gap_reports + 1, GapLimit}) \in 0..GapLimit
      BY <2>1, OfTwo
    <2> QED  BY <2>1, <2>2
  <1>2. /\ a \in BOOLEAN /\ (c.hasBeenAcked => a)
        /\ g \in BOOLEAN /\ (c.hasBeenDropped => g) /\ (g => c.hasBeenDropped \/ given)
        /\ f \in BOOLEAN
    BY DEF ChunkData
  <1>3. /\ GapAcked(c, newly) = [c EXCEPT !.hasBeenAcked = a, !.gap_reports = 0]
        /\ GapMissed(c, given, again) =
             [c EXCEPT !.gap_reports = k, !.hasBeenDropped = g, !.hasBeenFastRetransmitted = f]
    BY DEF GapAcked, GapMissed
  <1> DEFINE x == GapAcked(c, newly)
             y == GapMissed(c, given, again)
  <1> HIDE DEF k, a, g, f, x, y
  <1>4. /\ x \in ChunkData
        /\ x.sent = c.sent /\ x.last_destination = c.last_destination
        /\ x.hasBeenDropped = c.hasBeenDropped
        /\ x.hasBeenAcked = a /\ x.hasBeenRequeued = c.hasBeenRequeued
    BY <1>1, <1>2, <1>3 DEF ChunkData, x
  <1>5. /\ y \in ChunkData
        /\ y.sent = c.sent /\ y.last_destination = c.last_destination
        /\ y.hasBeenDropped = g
        /\ y.hasBeenAcked = c.hasBeenAcked /\ y.hasBeenRequeued = c.hasBeenRequeued
    BY <1>1, <1>2, <1>3 DEF ChunkData, y
  <1> QED  BY <1>2, <1>4, <1>5 DEF x, y

\* The gap reports of a SACK put nothing into flight.
LEMMA GapReportsTouch ==
  ASSUME NEW s \in Sender, NEW gaps \in SUBSET Chunks, NEW expired \in SUBSET Mortal
  PROVE  /\ Touches(s, GapReports(s, gaps, expired))
         /\ InFlight(GapReports(s, gaps, expired)) \subseteq InFlight(s) \cup {}
         /\ FastCandidates(s, gaps, expired) \in SUBSET s.unacked
  <1> DEFINE given == OverLimit(s, gaps) \cap expired
             again == FastCandidates(s, gaps, expired)
             newly == NewlyAcked(s, gaps)
             chunk == [n \in Chunks |->
               IF n \in s.unacked \cap gaps THEN GapAcked(s.chunk[n], n \in newly)
               ELSE IF n \in Missing(s, gaps) THEN GapMissed(s.chunk[n], n \in given, n \in again)
               ELSE s.chunk[n]]
             none == s.all_chunks_are_unacked /\ newly = {}
             r == GapReports(s, gaps, expired)
  <1>1. r = [s EXCEPT !.all_chunks_are_unacked = none, !.chunk = chunk]
    BY DEF GapReports
  <1>2. given \in SUBSET Mortal /\ again \in SUBSET s.unacked
    BY DEF FastCandidates, OverLimit, Missing
  <1> HIDE DEF r, given, again, newly
  <1>3. ASSUME NEW n \in Chunks
        PROVE  /\ chunk[n] \in ChunkData
               /\ chunk[n].sent = s.chunk[n].sent
               /\ chunk[n].last_destination = s.chunk[n].last_destination
               /\ chunk[n].hasBeenDropped => s.chunk[n].hasBeenDropped \/ n \in Mortal
               /\ s.chunk[n].hasBeenDropped => chunk[n].hasBeenDropped
               /\ s.chunk[n].hasBeenAcked => chunk[n].hasBeenAcked
               /\ chunk[n].hasBeenRequeued = s.chunk[n].hasBeenRequeued
    <2> DEFINE c == s.chunk[n]
               a == n \in newly
               g == n \in given
               f == n \in again
    <2>1. c \in ChunkData
      BY DEF Sender
    <2>2. chunk[n] \in {GapAcked(c, a), GapMissed(c, g, f)} \/ chunk[n] = c
      OBVIOUS
    <2>3. a \in BOOLEAN /\ g \in BOOLEAN /\ f \in BOOLEAN
      OBVIOUS
    <2>4. g => n \in Mortal
      BY <1>2
    <2> DEFINE x == chunk[n]
    <2> HIDE DEF a, g, f, c, x
    <2>5. CASE x \in {GapAcked(c, a), GapMissed(c, g, f)}
      <3>1. /\ x \in ChunkData
            /\ x.sent = c.sent /\ x.last_destination = c.last_destination
            /\ x.hasBeenDropped => c.hasBeenDropped \/ g
            /\ c.hasBeenDropped => x.hasBeenDropped
            /\ c.hasBeenAcked => x.hasBeenAcked
            /\ x.hasBeenRequeued = c.hasBeenRequeued
        BY <2>1, <2>3, <2>5, GapReportedChunk
      <3> QED  BY <2>4, <3>1 DEF c, x
    <2>6. CASE x = c
      BY <2>1, <2>6 DEF c, x
    <2> QED  BY <2>2, <2>5, <2>6 DEF x
  <1>4. chunk \in [Chunks -> ChunkData]
    BY <1>3
  <1>5. none \in BOOLEAN
    BY DEF Sender
  <1> HIDE DEF chunk, none
  <1>6. /\ r \in Sender /\ r.chunk = chunk
        /\ r.unacked = s.unacked /\ r.queue = s.queue /\ r.T3 = s.T3
        /\ r.highest_tsn = s.highest_tsn /\ r.tsn = s.tsn /\ r.closing = s.closing
        /\ r.advancedPeerAckPoint = s.advancedPeerAckPoint
        /\ r.lastSentForwardTSN = s.lastSentForwardTSN
    BY <1>1, <1>4, <1>5 DEF Sender
  <1>7. Touches(s, r)
    BY <1>3, <1>6 DEF Touches
  <1>8. InFlight(r) \subseteq InFlight(s) \cup {}
    <2>1. s.unacked \in SUBSET Chunks
      BY DEF Sender
    <2> QED  BY <1>3, <1>6, <2>1 DEF InFlight
  <1> QED  BY <1>2, <1>7, <1>8 DEF r, again

\* Taking gap reports back puts into flight what is sent again at once.
LEMMA RenegeTouches ==
  ASSUME NEW s \in Sender
  PROVE  /\ Touches(s, Renege(s)) /\ InFlight(Renege(s)) \subseteq InFlight(s) \cup Reneged(s)
         /\ Reneged(s) \in SUBSET s.unacked
  <1> DEFINE again == Reneged(s)
             chunk == [n \in Chunks |->
               IF n \in again
               THEN [s.chunk[n] EXCEPT !.hasBeenAcked = FALSE, !.gap_reports = 0,
                                       !.hasBeenFastRetransmitted = TRUE]
               ELSE s.chunk[n]]
             r == Renege(s)
  <1>1. r = [s EXCEPT !.all_chunks_are_unacked = TRUE, !.chunk = chunk]
    BY DEF Renege
  <1>2. again \in SUBSET s.unacked
    BY DEF Reneged
  <1> HIDE DEF r, again
  <1>3. ASSUME NEW n \in Chunks
        PROVE  /\ chunk[n] \in ChunkData
               /\ chunk[n].sent = s.chunk[n].sent
               /\ chunk[n].last_destination = s.chunk[n].last_destination
               /\ chunk[n].hasBeenDropped = s.chunk[n].hasBeenDropped
               /\ n \notin again => chunk[n] = s.chunk[n]
    <2>1. s.chunk[n] \in ChunkData /\ 0 \in 0..GapLimit
      BY DataAssumption DEF Sender
    <2> QED  BY <2>1 DEF ChunkData
  <1>4. chunk \in [Chunks -> ChunkData]
    BY <1>3
  <1> HIDE DEF chunk
  <1>5. /\ r \in Sender /\ r.chunk = chunk
        /\ r.unacked = s.unacked /\ r.queue = s.queue /\ r.T3 = s.T3
        /\ r.highest_tsn = s.highest_tsn /\ r.tsn = s.tsn /\ r.closing = s.closing
        /\ r.advancedPeerAckPoint = s.advancedPeerAckPoint
        /\ r.lastSentForwardTSN = s.lastSentForwardTSN
    BY <1>1, <1>4 DEF Sender
  <1>6. Touches(s, r)
    BY <1>3, <1>5 DEF Touches
  <1>7. InFlight(r) \subseteq InFlight(s) \cup again
    <2>1. s.unacked \in SUBSET Chunks
      BY DEF Sender
    <2> QED  BY <1>3, <1>5, <2>1 DEF InFlight
  <1> QED  BY <1>2, <1>6, <1>7 DEF r, again

\* The beginning of rtx_process_sack: the lists only lose what the peer has.
LEMMA AcknowledgedGood ==
  ASSUME NEW s, NEW seen, NEW but, Good(s, seen), NEW c \in Nat, 1..c \subseteq seen
  PROVE  LET r == Acknowledged(s, c)
         IN  /\ Good(r, seen) /\ r.closing = s.closing
             /\ Timed(s, but) => Timed(r, but)
             /\ r.unacked \subseteq s.unacked /\ r.queue \subseteq s.queue
             /\ SackIsDiscarded(s, c) => Keeps(s, r)
  <1> DEFINE over == s.fast_recovery_active /\ c >= s.fr_exit_point
             active == s.fast_recovery_active /\ ~over
             exit == IF over THEN 0 ELSE s.fr_exit_point
             t == [s EXCEPT !.highest_acked = c, !.fast_recovery_active = active,
                            !.fr_exit_point = exit]
             q == DequeueUpTo(t, c)
             u == [q EXCEPT !.lowest_tsn = c]
             r == Acknowledged(s, c)
  <1>1. s \in Sender
    BY DEF Good
  <1>2. Keeps(s, t) /\ t.T3 = s.T3
    <2>1. active \in BOOLEAN /\ exit \in Nat
      BY <1>1 DEF Sender
    <2> HIDE DEF active, exit
    <2> QED  BY <1>1, <2>1 DEF Keeps, Sender
  <1>3. r = IF c >= s.lowest_tsn /\ s.unacked # {} THEN u ELSE t
    BY DEF Acknowledged
  <1> HIDE DEF t, r
  <1>4. Good(t, seen) /\ (Timed(s, but) => Timed(t, but)) /\ t.unacked = s.unacked
        /\ t.queue = s.queue /\ t.closing = s.closing
    BY <1>2, KeepsGood DEF Keeps
  <1>5. Good(q, seen) /\ q.closing = t.closing /\ (Timed(t, but) => Timed(q, but))
    BY <1>4, DequeueGood
  <1>6. q.unacked \subseteq t.unacked /\ q.queue \subseteq t.queue
    <2>1. t \in Sender
      BY <1>4 DEF Good
    <2> QED  BY <2>1 DEF DequeueUpTo, Sender
  <1> HIDE DEF q
  <1>7. Keeps(q, u) /\ u.T3 = q.T3
    <2>1. q \in Sender
      BY <1>5 DEF Good
    <2> QED  BY <2>1 DEF Keeps, Sender
  <1> HIDE DEF u
  <1>8. Good(u, seen) /\ (Timed(q, but) => Timed(u, but)) /\ u.closing = q.closing
        /\ u.unacked = q.unacked /\ u.queue = q.queue
    BY <1>5, <1>7, KeepsGood DEF Keeps
  <1>9. SackIsDiscarded(s, c) => r = t
    BY <1>3 DEF SackIsDiscarded
  <1>10. /\ Good(r, seen) /\ r.closing = s.closing
         /\ Timed(s, but) => Timed(r, but)
         /\ r.unacked \subseteq s.unacked /\ r.queue \subseteq s.queue
         /\ SackIsDiscarded(s, c) => Keeps(s, r)
    BY <1>2, <1>3, <1>4, <1>5, <1>6, <1>8, <1>9
  <1> QED  BY <1>10 DEF r

(* The points the peer is told, or would be, to go on from. *)
Told(s, point, sent) ==
  [s EXCEPT !.advancedPeerAckPoint = point, !.lastSentForwardTSN = sent]

\* The peer may be told to do without everything up to a point that is covered.
LEMMA PointGood ==
  ASSUME NEW s, NEW seen, NEW but, Good(s, seen), NEW point \in Nat, NEW sent \in Nat,
         point <= s.highest_tsn, sent <= s.highest_tsn,
         \A n \in 1..point : n \in Mortal \cup seen, \A n \in 1..sent : n \in Mortal \cup seen
  PROVE  LET r == Told(s, point, sent)
         IN  /\ Good(r, seen)
             /\ Reported(s) => Reported(r)
             /\ Timed(s, but) => Timed(r, but)
             /\ r.unacked = s.unacked /\ r.queue = s.queue /\ r.chunk = s.chunk
             /\ r.T3 = s.T3 /\ r.closing = s.closing
  <1> DEFINE r == Told(s, point, sent)
  <1>1. s \in Sender
    BY DEF Good
  <1>2. /\ r \in Sender /\ r.chunk = s.chunk
        /\ r.unacked = s.unacked /\ r.queue = s.queue /\ r.T3 = s.T3
        /\ r.highest_tsn = s.highest_tsn /\ r.tsn = s.tsn /\ r.closing = s.closing
        /\ r.advancedPeerAckPoint = point /\ r.lastSentForwardTSN = sent
    BY <1>1 DEF Sender, Told
  <1> HIDE DEF r
  <1>3. Good(r, seen)
    <2>1. Numbers(r)
      BY <1>2 DEF Good, Numbers
    <2>2. Lists(r)
      BY <1>2 DEF Good, Lists
    <2>3. Covered(r, seen)
      BY <1>2 DEF Good, Covered
    <2> QED  BY <1>2, <2>1, <2>2, <2>3 DEF Good
  <1>4. Reported(s) => Reported(r)
    BY <1>2 DEF Reported, Waits, Drained
  <1>5. Timed(s, but) => Timed(r, but)
    BY <1>2 DEF Timed, InFlight
  <1> QED  BY <1>2, <1>3, <1>4, <1>5 DEF r

\* rtx_advancePeerAckPoint passes over nothing but chunks given up and chunks seen.
LEMMA AdvanceGood ==
  ASSUME NEW s, NEW seen, NEW but, Good(s, seen), NEW c \in Nat
  PROVE  LET r == AdvancePeerAckPoint(s, c)
         IN  /\ Good(r, seen)
             /\ Reported(s) => Reported(r)
             /\ Timed(s, but) => Timed(r, but)
             /\ r.unacked = s.unacked /\ r.queue = s.queue /\ r.chunk = s.chunk
             /\ r.T3 = s.T3 /\ r.closing = s.closing
  <1> DEFINE given == {n \in s.unacked :
                         \A m \in s.unacked : m <= n => s.chunk[m].hasBeenDropped}
             point == IF given = {} THEN s.advancedPeerAckPoint ELSE Max(given)
             sent == IF point > c THEN point ELSE s.lastSentForwardTSN
             u == Told(s, point, sent)
             r == AdvancePeerAckPoint(s, c)
  <1>1. s \in Sender /\ Numbers(s) /\ Lists(s) /\ Covered(s, seen)
    BY DEF Good
  <1>2. /\ s.unacked \in SUBSET Chunks /\ Chunks \in SUBSET Nat /\ s.highest_tsn \in Nat
        /\ s.tsn \in Nat /\ s.advancedPeerAckPoint \in Nat /\ s.lastSentForwardTSN \in Nat
    <2>1. Chunks \in SUBSET Nat
      BY DataAssumption DEF Chunks
    <2> QED  BY <1>1, <2>1 DEF Sender
  <1>3. given \in SUBSET s.unacked
    OBVIOUS
  <1>4. ASSUME given # {}
        PROVE  /\ Max(given) \in Nat /\ Max(given) <= s.highest_tsn
               /\ \A n \in 1..Max(given) : n \in Mortal \cup seen
    <2>1. Max(given) \in given
      <3> HIDE DEF given
      <3> QED  BY <1>2, <1>3, <1>4, ChunkSets
    <2> DEFINE top == Max(given)
    <2> HIDE DEF top
    <2>2. top \in s.unacked /\ \A m \in s.unacked : m <= top => s.chunk[m].hasBeenDropped
      BY <2>1 DEF top
    <2>3. top \in Nat /\ top \in Chunks /\ top <= s.highest_tsn
      BY <1>1, <1>2, <2>2 DEF Lists
    <2>4. ASSUME NEW n \in 1..top
          PROVE  n \in Mortal \cup seen
      <3>1. n \in Chunks
        BY <2>3, DataAssumption DEF Chunks
      <3>2. n < s.tsn /\ ~(n > s.highest_tsn)
        BY <1>1, <1>2, <2>3 DEF Numbers
      <3>3. CASE n \in s.unacked
        BY <1>1, <2>2, <3>1, <3>3 DEF Covered
      <3>4. CASE n \notin s.unacked
        BY <1>1, <3>1, <3>2, <3>4 DEF Covered, Lists
      <3> QED  BY <3>3, <3>4
    <2> QED  BY <2>3, <2>4 DEF top
  <1> HIDE DEF given
  <1>5. /\ point \in Nat /\ point <= s.highest_tsn /\ \A n \in 1..point : n \in Mortal \cup seen
    BY <1>1, <1>2, <1>4 DEF Numbers, Covered
  <1> HIDE DEF point
  <1>6. /\ sent \in Nat /\ sent <= s.highest_tsn /\ \A n \in 1..sent : n \in Mortal \cup seen
    BY <1>1, <1>2, <1>5 DEF Numbers, Covered
  <1> HIDE DEF sent
  <1>7. /\ Good(u, seen)
        /\ Reported(s) => Reported(u)
        /\ Timed(s, but) => Timed(u, but)
        /\ u.unacked = s.unacked /\ u.queue = s.queue /\ u.chunk = s.chunk
        /\ u.T3 = s.T3 /\ u.closing = s.closing
    BY <1>5, <1>6, PointGood
  <1>8. r = IF ~PRSCTP THEN s ELSE u
    BY DEF AdvancePeerAckPoint, Told, sent, point, given
  <1> HIDE DEF u, r
  <1> QED  BY <1>7, <1>8 DEF r

\* sci_allChunksAcked moves the shutdown on, and nothing else.
LEMMA AllChunksAckedGood ==
  ASSUME NEW s, NEW seen, NEW but, Good(s, seen), NEW empty \in BOOLEAN
  PROVE  LET r == AllChunksAcked(s, empty)
         IN  /\ Good(r, seen) /\ (Drained(r) <=> Drained(s))
             /\ r.unacked = s.unacked /\ r.queue = s.queue
             /\ Timed(s, but) => Timed(r, but)
             /\ Waits(r) => Waits(s) /\ ~empty
             /\ r.closing = "sent" => s.closing = "sent" \/ (s.closing = "pending" /\ empty)
  <1> DEFINE closing == IF ~empty \/ ~ShutdownReceived(s) THEN s.closing
                        ELSE IF s.closing = "pending" THEN "sent" ELSE "answered"
             r == AllChunksAcked(s, empty)
  <1>1. s \in Sender
    BY DEF Good
  <1>2. r = [s EXCEPT !.closing = closing]
    BY DEF AllChunksAcked
  <1>3. /\ closing \in {"no", "pending", "received", "sent", "answered", "rewritten"}
        /\ closing \in {"pending", "received"} => Waits(s) /\ ~empty
        /\ closing = "sent" => s.closing = "sent" \/ (s.closing = "pending" /\ empty)
    <2>1. s.closing \in {"no", "pending", "received", "sent", "answered", "rewritten"}
      BY <1>1 DEF Sender
    <2> QED  BY <2>1 DEF ShutdownReceived, Waits
  <1> HIDE DEF r, closing
  <1>4. /\ r \in Sender /\ r.chunk = s.chunk /\ r.closing = closing
        /\ r.unacked = s.unacked /\ r.queue = s.queue /\ r.T3 = s.T3
        /\ r.highest_tsn = s.highest_tsn /\ r.tsn = s.tsn
        /\ r.advancedPeerAckPoint = s.advancedPeerAckPoint
        /\ r.lastSentForwardTSN = s.lastSentForwardTSN
    BY <1>1, <1>2, <1>3 DEF Sender
  <1>5. Good(r, seen)
    <2>1. Numbers(r)
      BY <1>4 DEF Good, Numbers
    <2>2. Lists(r)
      BY <1>4 DEF Good, Lists
    <2>3. Covered(r, seen)
      BY <1>4 DEF Good, Covered
    <2> QED  BY <1>4, <2>1, <2>2, <2>3 DEF Good
  <1>6. Timed(s, but) => Timed(r, but)
    BY <1>4 DEF Timed, InFlight
  <1>7. Drained(r) <=> Drained(s)
    BY <1>4 DEF Drained
  <1>8. Waits(r) => Waits(s) /\ ~empty
    BY <1>3, <1>4 DEF Waits
  <1> QED  BY <1>3, <1>4, <1>5, <1>6, <1>7, <1>8 DEF r

\* rtx_process_sack keeps all of it.
LEMMA ProcessSackGood ==
  ASSUME NEW s, NEW seen, Good(s, seen), Timed(s, {}), Reported(s),
         NEW p \in Path, NEW c \in Nat, 1..c \subseteq seen, NEW gaps \in SUBSET Chunks,
         NEW w \in Nat, NEW expired \in SUBSET Mortal, NEW rtt \in BOOLEAN,
         NEW d \in Path, NEW idle \in BOOLEAN
  PROVE  LET r == ProcessSack(s, p, c, gaps, w, expired, rtt, d, idle)
         IN  Good(r, seen) /\ Timed(r, {}) /\ Reported(r)
  <1> DEFINE dequeued == IF c >= s.lowest_tsn THEN Cardinality(NewlyAcked(s, 1..c)) ELSE 0
             a == Acknowledged(s, c)
             reported == gaps # {} /\ a.unacked # {}
             again == IF reported THEN FastCandidates(a, gaps, expired)
                      ELSE IF gaps = {} THEN Reneged(a) ELSE {}
             newly == dequeued + IF reported THEN Cardinality(NewlyAcked(a, gaps)) ELSE 0
             b == IF reported THEN GapReports(a, gaps, expired)
                  ELSE IF gaps = {} THEN Renege(a) ELSE a
             empty == b.unacked = {}
             lowest == IF empty THEN b.highest_tsn ELSE Min(b.unacked)
             all == empty /\ b.highest_tsn = c
             advanced == lowest > s.lowest_tsn
             window == IF empty THEN w ELSE b.peer_arwnd
             v == [b EXCEPT !.lowest_tsn = lowest, !.peer_arwnd = window]
             t == AllChunksAcked(v, Drained(b))
             info == SackInfo(t, p, w, newly, all, advanced, rtt, d, idle)
             fast == FastRetransmission(t, p, w, again, newly, all, advanced, rtt, d, idle)
             f == IF again = {} THEN info ELSE fast
             point == Max({f.advancedPeerAckPoint, c})
             g == [f EXCEPT !.advancedPeerAckPoint = point]
             r == ProcessSack(s, p, c, gaps, w, expired, rtt, d, idle)
  <1>1. s \in Sender /\ a \in Sender /\ Good(a, seen) /\ a.closing = s.closing /\ Timed(a, {})
        /\ a.unacked \subseteq s.unacked /\ a.queue \subseteq s.queue
        /\ (SackIsDiscarded(s, c) => Keeps(s, a))
    <2>1. /\ Good(a, seen) /\ a.closing = s.closing /\ Timed(a, {})
          /\ a.unacked \subseteq s.unacked /\ a.queue \subseteq s.queue
          /\ (SackIsDiscarded(s, c) => Keeps(s, a))
      BY AcknowledgedGood
    <2> HIDE DEF a
    <2> QED  BY <2>1 DEF Good
  <1> HIDE DEF a
  <1>2. newly \in Nat
    <2>1. \A x \in Sender, set \in {1..c, gaps} : Cardinality(NewlyAcked(x, set)) \in Nat
      <3> SUFFICES ASSUME NEW x \in Sender, NEW set \in {1..c, gaps}
                   PROVE  Cardinality(NewlyAcked(x, set)) \in Nat
        OBVIOUS
      <3>1. NewlyAcked(x, set) \in SUBSET Chunks
        BY DEF NewlyAcked, Sender
      <3> QED  BY <3>1, ChunkSets
    <2>2. Cardinality(NewlyAcked(s, 1..c)) \in Nat /\ Cardinality(NewlyAcked(a, gaps)) \in Nat
      BY <1>1, <2>1
    <2>3. dequeued \in Nat
      BY <2>2
    <2> HIDE DEF dequeued, reported
    <2> QED  BY <2>2, <2>3
  <1>3. /\ Good(b, seen) /\ Timed(b, again) /\ again \in SUBSET b.unacked
        /\ b.unacked = a.unacked /\ b.queue = a.queue /\ b.closing = s.closing
    <2>1. CASE reported
      <3> DEFINE x == GapReports(a, gaps, expired)
      <3>1. /\ Touches(a, x) /\ InFlight(x) \subseteq InFlight(a) \cup {}
            /\ FastCandidates(a, gaps, expired) \in SUBSET a.unacked
        BY <1>1, GapReportsTouch
      <3>2. b = x /\ again = FastCandidates(a, gaps, expired)
        BY <2>1
      <3> HIDE DEF x, b, again
      <3>3. Good(x, seen) /\ (Timed(a, {}) => Timed(x, {} \cup {}))
        BY <1>1, <3>1, TouchesGood
      <3>4. Timed(x, again)
        BY <1>1, <3>3 DEF Timed
      <3>5. x.unacked = a.unacked /\ x.queue = a.queue /\ x.closing = a.closing
        BY <3>1 DEF Touches
      <3> QED  BY <1>1, <3>1, <3>2, <3>3, <3>4, <3>5
    <2>2. CASE ~reported /\ gaps = {}
      <3> DEFINE x == Renege(a)
      <3>1. /\ Touches(a, x) /\ InFlight(x) \subseteq InFlight(a) \cup Reneged(a)
            /\ Reneged(a) \in SUBSET a.unacked
        BY <1>1, RenegeTouches
      <3>2. b = x /\ again = Reneged(a)
        BY <2>2
      <3> HIDE DEF x, b, again
      <3>3. Good(x, seen) /\ (Timed(a, {}) => Timed(x, {} \cup Reneged(a)))
        BY <1>1, <3>1, TouchesGood
      <3>4. Timed(x, again)
        BY <1>1, <3>2, <3>3 DEF Timed
      <3>5. x.unacked = a.unacked /\ x.queue = a.queue /\ x.closing = a.closing
        BY <3>1 DEF Touches
      <3> QED  BY <1>1, <3>1, <3>2, <3>3, <3>4, <3>5
    <2>3. CASE ~reported /\ gaps # {}
      <3>1. b = a /\ again = {}
        BY <2>3
      <3> HIDE DEF b, again
      <3> QED  BY <1>1, <3>1
    <2> QED  BY <2>1, <2>2, <2>3
  <1> HIDE DEF b, again, newly
  <1>4. b \in Sender /\ b.unacked \in SUBSET Chunks /\ b.highest_tsn \in Nat
    BY <1>3 DEF Good, Sender
  <1>5. lowest \in Nat /\ all \in BOOLEAN /\ advanced \in BOOLEAN /\ window \in Nat
    <2>1. lowest \in Nat
      <3>1. CASE empty
        BY <1>4, <3>1
      <3>2. CASE ~empty
        <4>1. Min(b.unacked) \in b.unacked
          BY <1>4, <3>2, ChunkSets
        <4> QED  BY <1>4, <3>2, <4>1, DataAssumption DEF Chunks
      <3> QED  BY <3>1, <3>2
    <2>2. window \in Nat
      BY <1>4 DEF Sender
    <2>3. s.lowest_tsn \in Nat
      BY <1>1 DEF Sender
    <2> HIDE DEF lowest
    <2> QED  BY <2>1, <2>2, <2>3
  <1>6. Keeps(b, v) /\ v.T3 = b.T3
    <2> HIDE DEF lowest, window
    <2> QED  BY <1>4, <1>5 DEF Keeps, Sender
  <1> HIDE DEF v
  <1>7. /\ Good(v, seen) /\ Timed(v, again) /\ (Drained(v) <=> Drained(b))
        /\ v.unacked = b.unacked /\ v.closing = s.closing
    BY <1>3, <1>6, KeepsGood DEF Keeps
  <1>8. /\ Good(t, seen) /\ (Drained(t) <=> Drained(v)) /\ t.unacked = v.unacked
        /\ Timed(t, again)
        /\ Waits(t) => Waits(v) /\ ~Drained(b)
        /\ t.closing = "sent" => v.closing = "sent" \/ (v.closing = "pending" /\ Drained(b))
    <2>1. Drained(b) \in BOOLEAN
      BY DEF Drained
    <2> QED  BY <1>7, <2>1, AllChunksAckedGood
  <1> HIDE DEF t
  <1>9. Reported(t)
    <2>1. Drained(s) => Drained(b)
      BY <1>1, <1>3 DEF Drained
    <2> QED  BY <1>7, <1>8, <2>1 DEF Reported
  <1>10. all => t.unacked = {}
    BY <1>7, <1>8
  <1> HIDE DEF all, advanced, lowest
  <1>11. Good(f, seen) /\ Timed(f, {}) /\ Reported(f)
    <2>1. CASE again = {}
      <3>1. Follows(t, info, seen) /\ Timed(info, {})
        BY <1>2, <1>5, <1>8, <1>10, <2>1, SackInfoGood
      <3>2. f = info
        BY <2>1
      <3> HIDE DEF f, info
      <3> QED  BY <1>9, <3>1, <3>2 DEF Follows
    <2>2. CASE again # {}
      <3>1. again \in SUBSET t.unacked
        BY <1>3, <1>7, <1>8
      <3>2. Follows(t, fast, seen) /\ Timed(fast, {})
        BY <1>2, <1>5, <1>8, <1>10, <2>2, <3>1, FastRetransmissionGood
      <3>3. f = fast
        BY <2>2
      <3> HIDE DEF f, fast
      <3> QED  BY <1>9, <3>2, <3>3 DEF Follows
    <2> QED  BY <2>1, <2>2
  <1> HIDE DEF f
  <1>12. /\ f \in Sender /\ f.advancedPeerAckPoint \in Nat /\ f.lastSentForwardTSN \in Nat
         /\ Numbers(f) /\ Covered(f, seen) /\ f.highest_tsn \in Nat
    BY <1>11 DEF Good, Sender
  <1>13. c <= f.highest_tsn
    BY <1>12, c = 0 \/ c \in 1..c DEF Covered
  <1>14. point \in {f.advancedPeerAckPoint, c}
    BY <1>12, OfTwo
  <1>15. g = Told(f, point, f.lastSentForwardTSN)
    <2> HIDE DEF point
    <2>1. g = [f EXCEPT !.advancedPeerAckPoint = point]
      OBVIOUS
    <2> QED  BY <1>12 DEF Told, Sender
  <1> HIDE DEF point
  <1>16. Good(g, seen) /\ Timed(g, {}) /\ Reported(g)
    <2>1. /\ point \in Nat /\ point <= f.highest_tsn
          /\ \A n \in 1..point : n \in Mortal \cup seen
      BY <1>12, <1>13, <1>14 DEF Numbers, Covered
    <2>2. /\ f.lastSentForwardTSN <= f.highest_tsn
          /\ \A n \in 1..f.lastSentForwardTSN : n \in Mortal \cup seen
      BY <1>12 DEF Numbers, Covered
    <2> HIDE DEF g
    <2> QED  BY <1>11, <1>12, <1>15, <2>1, <2>2, PointGood
  <1> HIDE DEF g
  <1>17. r = IF SackIsDiscarded(s, c) THEN a ELSE AdvancePeerAckPoint(g, c)
    BY DEF ProcessSack, g, point, f, t, v, all, advanced, lowest, newly, again, b, a
  <1>18. CASE SackIsDiscarded(s, c)
    <2>1. Reported(a)
      BY <1>1, <1>18, KeepsGood
    <2> HIDE DEF r
    <2> QED  BY <1>1, <1>17, <1>18, <2>1 DEF r
  <1>19. CASE ~SackIsDiscarded(s, c)
    <2> DEFINE x == AdvancePeerAckPoint(g, c)
    <2>1. Good(x, seen) /\ Timed(x, {}) /\ Reported(x)
      BY <1>16, AdvanceGood
    <2> HIDE DEF r, x
    <2>2. r = x
      BY <1>17, <1>19 DEF x
    <2> QED  BY <2>1, <2>2 DEF r
  <1> QED  BY <1>18, <1>19

-----------------------------------------------------------------------------
(* T3 and shutdown *)

(* What rtx_t3_timeout notes of the chunks of path p before it looks at the point. *)
TimeoutNoted(s, p, expired) ==
  LET again == ToRetransmit(s, p, expired)
      given == {n \in s.unacked \cap expired : s.chunk[n].last_destination = p}
  IN  [s EXCEPT
         !.lowest_tsn = Min(s.unacked),
         !.chunk = [n \in Chunks |->
            IF n \in given THEN [@[n] EXCEPT !.hasBeenDropped = TRUE]
            ELSE IF n \in again THEN [@[n] EXCEPT !.gap_reports = 0]
            ELSE @[n]]]

\* Chunks are given up, or stay in flight to be sent again.
LEMMA TimeoutTouches ==
  ASSUME NEW s \in Sender, NEW p \in Path, NEW expired \in SUBSET Mortal, s.unacked # {}
  PROVE  LET r == TimeoutNoted(s, p, expired)
         IN  /\ Touches(s, r) /\ InFlight(r) \subseteq InFlight(s) \cup {}
             /\ \A n \in InFlight(r) : s.chunk[n].last_destination = p
                                         => n \in ToRetransmit(s, p, expired)
  <1> DEFINE again == ToRetransmit(s, p, expired)
             given == {n \in s.unacked \cap expired : s.chunk[n].last_destination = p}
             chunk == [n \in Chunks |->
               IF n \in given THEN [s.chunk[n] EXCEPT !.hasBeenDropped = TRUE]
               ELSE IF n \in again THEN [s.chunk[n] EXCEPT !.gap_reports = 0]
               ELSE s.chunk[n]]
             lowest == Min(s.unacked)
             r == TimeoutNoted(s, p, expired)
  <1>1. r = [s EXCEPT !.lowest_tsn = lowest, !.chunk = chunk]
    BY DEF TimeoutNoted
  <1>2. s.unacked \in SUBSET Chunks
    BY DEF Sender
  <1>3. lowest \in Nat
    <2>1. lowest \in s.unacked
      BY <1>2, ChunkSets
    <2> QED  BY <1>2, <2>1, DataAssumption DEF Chunks
  <1>4. /\ given \in SUBSET Mortal
        /\ \A n \in s.unacked : s.chunk[n].last_destination = p /\ n \notin given
                                /\ ~s.chunk[n].hasBeenDropped => n \in again
    BY DEF ToRetransmit
  <1> HIDE DEF r, again, given, lowest
  <1>5. ASSUME NEW n \in Chunks
        PROVE  /\ chunk[n] \in ChunkData
               /\ chunk[n].sent = s.chunk[n].sent
               /\ chunk[n].last_destination = s.chunk[n].last_destination
               /\ chunk[n].hasBeenDropped => s.chunk[n].hasBeenDropped \/ n \in Mortal
               /\ s.chunk[n].hasBeenDropped \/ n \in given => chunk[n].hasBeenDropped
               /\ chunk[n].hasBeenAcked = s.chunk[n].hasBeenAcked
               /\ chunk[n].hasBeenRequeued = s.chunk[n].hasBeenRequeued
    <2> DEFINE c == s.chunk[n]
               x == chunk[n]
    <2>1. c \in ChunkData /\ 0 \in 0..GapLimit
      BY DataAssumption DEF Sender
    <2>2. CASE n \in given
      <3>1. x = [c EXCEPT !.hasBeenDropped = TRUE] /\ n \in Mortal
        BY <1>4, <2>2
      <3> HIDE DEF c, x
      <3> QED  BY <2>1, <3>1 DEF ChunkData, c, x
    <2>3. CASE n \notin given /\ n \in again
      <3>1. x = [c EXCEPT !.gap_reports = 0]
        BY <2>3
      <3> HIDE DEF c, x
      <3> QED  BY <2>1, <2>3, <3>1 DEF ChunkData, c, x
    <2>4. CASE n \notin given /\ n \notin again
      <3>1. x = c
        BY <2>4
      <3> HIDE DEF c, x
      <3> QED  BY <2>1, <2>4, <3>1 DEF c, x
    <2> QED  BY <2>2, <2>3, <2>4
  <1>6. chunk \in [Chunks -> ChunkData]
    BY <1>5
  <1> HIDE DEF chunk
  <1>7. /\ r \in Sender /\ r.chunk = chunk
        /\ r.unacked = s.unacked /\ r.queue = s.queue /\ r.T3 = s.T3
        /\ r.highest_tsn = s.highest_tsn /\ r.tsn = s.tsn /\ r.closing = s.closing
        /\ r.advancedPeerAckPoint = s.advancedPeerAckPoint
        /\ r.lastSentForwardTSN = s.lastSentForwardTSN
    BY <1>1, <1>3, <1>6 DEF Sender
  <1>8. Touches(s, r)
    BY <1>5, <1>7 DEF Touches
  <1>9. InFlight(r) \subseteq InFlight(s) \cup {}
    BY <1>2, <1>5, <1>7 DEF InFlight
  <1>10. \A n \in InFlight(r) : s.chunk[n].last_destination = p => n \in again
    BY <1>2, <1>4, <1>5, <1>7 DEF InFlight
  <1> QED  BY <1>8, <1>9, <1>10 DEF r, again

\* What T3 gives back to flow control is queued, so that it needs no timer.
LEMMA RequeueGood ==
  ASSUME NEW s, NEW seen, Good(s, seen), NEW chunks \in SUBSET s.unacked, chunks # {}
  PROVE  LET r == Requeue(s, chunks)
         IN  /\ Good(r, seen) /\ r.closing = s.closing /\ r.unacked = s.unacked
             /\ Timed(s, chunks) => Timed(r, {})
  <1> DEFINE back == {n \in chunks \ s.queue : ~s.chunk[n].hasBeenAcked}
             queue == s.queue \cup back
             chunk == [n \in Chunks |->
                IF n \in back THEN [s.chunk[n] EXCEPT !.hasBeenRequeued = TRUE] ELSE s.chunk[n]]
             r == Requeue(s, chunks)
  <1>1. /\ s \in Sender /\ Numbers(s) /\ Lists(s) /\ Covered(s, seen)
        /\ s.unacked \in SUBSET Chunks /\ s.highest_tsn \in Nat /\ s.tsn \in Nat
    BY DEF Good, Sender
  <1>2. r = [s EXCEPT !.queue = queue, !.chunk = chunk, !.waiting_for_sack = TRUE,
                      !.t3_retransmission_sent = FALSE, !.one_packet_inflight = FALSE]
    BY DEF Requeue
  <1>3. /\ back \in SUBSET s.unacked
        /\ \A n \in chunks : n \notin back /\ n \notin s.queue => s.chunk[n].hasBeenAcked
    OBVIOUS
  <1> HIDE DEF r, back
  <1>4. queue \in SUBSET Chunks /\ \A n \in back : n < s.tsn
    <2>1. \A n \in s.unacked : n \in 1..s.highest_tsn
      BY <1>1 DEF Lists
    <2>2. s.highest_tsn < s.tsn
      BY <1>1 DEF Numbers
    <2>3. s.queue \in SUBSET Chunks
      BY <1>1 DEF Sender
    <2> QED  BY <1>1, <1>3, <2>1, <2>2, <2>3
  <1>5. ASSUME NEW n \in Chunks
        PROVE  /\ chunk[n] \in ChunkData
               /\ chunk[n].sent = s.chunk[n].sent
               /\ chunk[n].last_destination = s.chunk[n].last_destination
               /\ chunk[n].hasBeenDropped = s.chunk[n].hasBeenDropped
               /\ chunk[n].hasBeenAcked = s.chunk[n].hasBeenAcked
               /\ s.chunk[n].hasBeenRequeued => chunk[n].hasBeenRequeued
    <2>1. s.chunk[n] \in ChunkData
      BY <1>1 DEF Sender
    <2> QED  BY <2>1 DEF ChunkData
  <1>6. chunk \in [Chunks -> ChunkData]
    BY <1>5
  <1> HIDE DEF chunk, queue
  <1>7. /\ r \in Sender /\ r.chunk = chunk
        /\ r.unacked = s.unacked /\ r.queue = queue /\ r.T3 = s.T3
        /\ r.highest_tsn = s.highest_tsn /\ r.tsn = s.tsn /\ r.closing = s.closing
        /\ r.advancedPeerAckPoint = s.advancedPeerAckPoint
        /\ r.lastSentForwardTSN = s.lastSentForwardTSN
    BY <1>1, <1>2, <1>4, <1>6 DEF Sender
  <1>8. Good(r, seen)
    <2>1. Numbers(r)
      BY <1>1, <1>7 DEF Numbers
    <2>2. Lists(r)
      BY <1>1, <1>3, <1>4, <1>5, <1>7 DEF Lists, queue
    <2>3. Covered(r, seen)
      BY <1>1, <1>5, <1>7 DEF Covered, queue
    <2> QED  BY <1>7, <2>1, <2>2, <2>3 DEF Good
  <1>9. Timed(s, chunks) => Timed(r, {})
    <2> SUFFICES ASSUME Timed(s, chunks), NEW n \in InFlight(r) \ (r.queue \cup {})
                 PROVE  r.T3[r.chunk[n].last_destination]
      BY DEF Timed
    <2>1. n \in Chunks
      BY <1>1, <1>7 DEF InFlight
    <2>2. n \in InFlight(s)
      BY <1>1, <1>5, <1>7, <2>1 DEF InFlight
    <2>3. n \notin s.queue /\ n \notin back
      BY <1>7 DEF queue
    <2>4. n \notin chunks
      BY <1>3, <2>2, <2>3 DEF InFlight
    <2> QED  BY <1>5, <1>7, <2>1, <2>2, <2>3, <2>4 DEF Timed
  <1> QED  BY <1>7, <1>8, <1>9 DEF r

\* fc_timer_cb_t3_timeout keeps all of it.
LEMMA T3TimeoutGood ==
  ASSUME NEW s, NEW seen, Good(s, seen), Timed(s, {}), Reported(s),
         NEW p \in Path, NEW expired \in SUBSET Mortal, NEW d \in Path, NEW idle \in BOOLEAN
  PROVE  LET r == T3Timeout(s, p, expired, d, idle)
         IN  Good(r, seen) /\ Timed(r, {}) /\ Reported(r)
  <1> DEFINE off == [s EXCEPT !.T3[p] = FALSE]
             again == ToRetransmit(off, p, expired)
             noted == TimeoutNoted(off, p, expired)
             t == AdvancePeerAckPoint(noted, s.highest_acked)
             half == Halve(t.cwnd[p])
             collapsed == [t EXCEPT !.ssthresh[p] = half, !.cwnd[p] = 1,
                                    !.partial_bytes_acked[p] = 0]
             x == Collapse(t, p)
             q == Requeue(x, again)
             sent == CheckForTxmit(q, TRUE, d, idle)
             r == T3Timeout(s, p, expired, d, idle)
  <1>1. s \in Sender
    BY DEF Good
  <1>2. Keeps(s, off) /\ off \in Sender /\ off.highest_acked = s.highest_acked
        /\ s.highest_acked \in Nat /\ \A k \in Path \ {p} : off.T3[k] = s.T3[k]
    BY <1>1 DEF Keeps, Sender
  <1>3. again = ToRetransmit(s, p, expired)
    BY <1>2 DEF ToRetransmit, Keeps
  <1>4. r = IF s.unacked = {} THEN off ELSE IF again = {} THEN t ELSE sent
    <2> DEFINE rtx == RtxT3Timeout(off, p, expired)
               chunks == ToRetransmit(s, p, expired)
    <2>1. r = IF s.unacked = {} THEN off ELSE IF chunks = {} THEN rtx
              ELSE CheckForTxmit(Requeue(Collapse(rtx, p), chunks), TRUE, d, idle)
      BY DEF T3Timeout
    <2> HIDE DEF off
    <2>2. rtx = AdvancePeerAckPoint(noted, off.highest_acked)
      BY DEF RtxT3Timeout, TimeoutNoted
    <2> HIDE DEF rtx, noted
    <2>3. rtx = t
      BY <1>2, <2>2
    <2>4. chunks = again
      BY <1>3
    <2> HIDE DEF chunks, again, t
    <2> QED  BY <2>1, <2>3, <2>4
  <1> HIDE DEF off, r
  <1>5. Good(off, seen) /\ Reported(off) /\ InFlight(off) = InFlight(s)
    BY <1>2, KeepsGood
  <1>6. CASE s.unacked = {}
    <2>1. InFlight(s) = {}
      BY <1>6 DEF InFlight
    <2>2. Timed(off, {})
      BY <1>5, <2>1 DEF Timed
    <2> QED  BY <1>4, <1>5, <1>6, <2>2 DEF r
  <1>7. CASE s.unacked # {}
    <2>1. off.unacked # {}
      BY <1>2, <1>7 DEF Keeps
    <2>2. /\ Touches(off, noted) /\ InFlight(noted) \subseteq InFlight(off) \cup {}
          /\ \A n \in InFlight(noted) : off.chunk[n].last_destination = p => n \in again
      BY <1>2, <2>1, TimeoutTouches
    <2>3. Good(noted, seen) /\ Reported(noted)
      BY <1>5, <2>2, TouchesGood
    <2>4. Timed(noted, again)
      <3> SUFFICES ASSUME NEW n \in InFlight(noted) \ (noted.queue \cup again)
                   PROVE  noted.T3[noted.chunk[n].last_destination]
        BY DEF Timed
      <3>1. n \in InFlight(s) /\ n \in Chunks
        BY <1>1, <1>5, <2>2, CountedKeeps
      <3>2. s.chunk[n].last_destination \in Path
        BY <1>1, <3>1 DEF Sender, ChunkData
      <3>3. /\ noted.chunk[n].last_destination = s.chunk[n].last_destination
            /\ noted.T3 = off.T3 /\ noted.queue = s.queue
            /\ off.chunk[n].last_destination = s.chunk[n].last_destination
        BY <1>2, <2>2, <3>1 DEF Touches, Keeps
      <3>4. s.chunk[n].last_destination # p
        BY <2>2, <3>3
      <3>5. s.T3[s.chunk[n].last_destination]
        BY <3>1, <3>3 DEF Timed
      <3> QED  BY <1>2, <3>2, <3>3, <3>4, <3>5
    <2>5. /\ Good(t, seen) /\ Reported(t) /\ Timed(t, again)
          /\ t.unacked = noted.unacked /\ t.closing = noted.closing
      <3> HIDE DEF noted, again
      <3> QED  BY <1>2, <2>3, <2>4, AdvanceGood
    <2>6. t.unacked = s.unacked /\ t.closing = s.closing /\ again \in SUBSET s.unacked
      BY <1>2, <1>3, <2>2, <2>5 DEF Touches, Keeps, ToRetransmit
    <2> HIDE DEF t, again
    <2>7. CASE again = {}
      BY <1>4, <1>7, <2>5, <2>7 DEF r
    <2>8. CASE again # {}
      <3>1. Keeps(t, x) /\ x.T3 = t.T3
        <4>1. t \in Sender
          BY <2>5 DEF Good
        <4>2. x = IF t.fast_recovery_active THEN t ELSE collapsed
          BY DEF Collapse
        <4>3. half \in Nat /\ 0 \in 0..(Word - 1)
          <5>1. t.cwnd[p] \in Nat
            BY <4>1 DEF Sender
          <5> QED  BY <5>1, HalveType, DataAssumption
        <4> HIDE DEF half, x
        <4>4. Keeps(t, collapsed) /\ collapsed.T3 = t.T3
          BY <4>1, <4>3 DEF Keeps, Sender
        <4>5. Keeps(t, t)
          BY <4>1 DEF Keeps
        <4> HIDE DEF collapsed
        <4> QED  BY <4>2, <4>4, <4>5
      <3> HIDE DEF x
      <3>2. Good(x, seen) /\ Timed(x, again) /\ x.unacked = t.unacked /\ x.closing = t.closing
        BY <2>5, <3>1, KeepsGood DEF Keeps
      <3>3. /\ Good(q, seen) /\ q.closing = x.closing /\ q.unacked = x.unacked
            /\ Timed(q, {})
        BY <2>6, <2>8, <3>2, RequeueGood
      <3> HIDE DEF q
      <3>4. Reported(q)
        BY <1>7, <2>6, <3>2, <3>3 DEF Reported, Drained
      <3>5. Good(sent, seen) /\ Timed(sent, {}) /\ Reported(sent)
        <4>1. Follows(q, sent, seen) /\ (Timed(q, {}) => Timed(sent, {}))
          BY <3>3, TxmitGood
        <4> HIDE DEF sent
        <4> QED  BY <3>3, <3>4, <4>1 DEF Follows
      <3> HIDE DEF sent
      <3> QED  BY <1>4, <1>7, <2>8, <3>5 DEF r
    <2> QED  BY <2>7, <2>8
  <1> QED  BY <1>6, <1>7

\* The ctsna of a SHUTDOWN is taken like a SACK, and a shutdown that waits is told when
\* nothing is left.
LEMMA RcvShutdownGood ==
  ASSUME NEW s, NEW seen, Good(s, seen), Timed(s, {}), s.closing \notin {"pending", "sent"},
         NEW c \in Nat, 1..c \subseteq seen, NEW rtt \in BOOLEAN,
         NEW d \in Path, NEW idle \in BOOLEAN
  PROVE  LET r == RcvShutdownCtsna(s, c, rtt, d, idle)
         IN  Good(r, seen) /\ Timed(r, {}) /\ Reported(r)
  <1> DEFINE old == c < s.lowest_tsn
             newly == Cardinality(NewlyAcked(s, 1..c))
             q == DequeueUpTo(s, c)
             less == IF s.unacked = {} THEN s ELSE q
             b == [less EXCEPT !.lowest_tsn = c]
             a == IF old THEN s ELSE b
             empty == a.unacked = {}
             advanced == newly > 0
             info == SackInfo(a, 0, s.peer_arwnd, newly, empty, advanced, rtt, d, idle)
             f == IF old THEN s ELSE info
             drained == empty /\ f.queue = {}
             r == RcvShutdownCtsna(s, c, rtt, d, idle)
  <1>1. r = AllChunksAcked(f, drained)
    BY DEF RcvShutdownCtsna
  <1> HIDE DEF r
  <1>2. s \in Sender /\ s.peer_arwnd \in Nat /\ 0 \in Path
    <2>1. s \in Sender
      BY DEF Good
    <2>2. s.peer_arwnd \in Nat
      BY <2>1 DEF Sender
    <2>3. 0 \in Path
      BY DataAssumption DEF Path
    <2> QED  BY <2>1, <2>2, <2>3
  <1>3. newly \in Nat
    <2>1. NewlyAcked(s, 1..c) \in SUBSET Chunks
      BY <1>2 DEF NewlyAcked, Sender
    <2> QED  BY <2>1, ChunkSets
  <1>4. Good(less, seen) /\ Timed(less, {}) /\ less.closing = s.closing
    <2>1. Good(q, seen) /\ Timed(q, {}) /\ q.closing = s.closing
      BY DequeueGood
    <2> HIDE DEF q
    <2> QED  BY <2>1
  <1> HIDE DEF less
  <1>5. Keeps(less, b) /\ b.T3 = less.T3
    <2>1. less \in Sender
      BY <1>4 DEF Good
    <2> QED  BY <2>1 DEF Keeps, Sender
  <1>6. Good(b, seen) /\ Timed(b, {}) /\ b.closing = s.closing
    <2> HIDE DEF b
    <2> QED  BY <1>4, <1>5, KeepsGood DEF Keeps
  <1>7. Good(a, seen) /\ Timed(a, {}) /\ a.closing = s.closing
    <2> HIDE DEF b
    <2> QED  BY <1>6
  <1> HIDE DEF a
  <1>8. empty \in BOOLEAN /\ advanced \in BOOLEAN /\ drained \in BOOLEAN
    <2> HIDE DEF f, newly
    <2> QED  BY <1>3
  <1>9. /\ Good(f, seen) /\ Timed(f, {}) /\ f.closing = s.closing
        /\ Drained(f) => drained
    <2>1. CASE old
      <3>1. f = s /\ a = s
        BY <2>1 DEF a
      <3>2. Drained(s) => a.unacked = {} /\ s.queue = {}
        BY <3>1 DEF Drained
      <3> HIDE DEF f
      <3>3. Drained(f) => drained
        BY <3>1, <3>2
      <3> QED  BY <3>1, <3>3
    <2>2. CASE ~old
      <3>1. f = info
        BY <2>2
      <3>2. Follows(a, info, seen) /\ (Timed(a, {}) => Timed(info, {}))
        <4>1. empty => a.unacked = {}
          OBVIOUS
        <4> HIDE DEF empty, advanced, newly
        <4> QED  BY ZenonT(40), <1>2, <1>3, <1>7, <1>8, <4>1, SackInfoGood
      <3> HIDE DEF f, info
      <3> QED  BY <1>7, <3>1, <3>2 DEF Follows, Drained
    <2> QED  BY <2>1, <2>2
  <1> HIDE DEF f, drained
  <1>10. /\ Good(r, seen) /\ (Drained(r) <=> Drained(f)) /\ Timed(r, {})
         /\ Waits(r) => Waits(f) /\ ~drained
         /\ r.closing = "sent" => f.closing = "sent" \/ (f.closing = "pending" /\ drained)
    BY <1>1, <1>8, <1>9, AllChunksAckedGood
  <1>11. Reported(r)
    BY <1>9, <1>10 DEF Reported
  <1> QED  BY <1>10, <1>11 DEF r

-----------------------------------------------------------------------------
(* The steps *)

\* The point of what the peer has seen: it has everything up to there.
LEMMA PointCovered ==
  ASSUME NEW view \in SUBSET Chunks
  PROVE  Point(view) \in Nat /\ 1..Point(view) \subseteq view
  <1> DEFINE S == {n \in Chunks \cup {0} : 1..n \subseteq view}
  <1>1. LastChunk \in Nat
    BY DataAssumption
  <1>2. S \in SUBSET (0..LastChunk)
    BY <1>1 DEF Chunks
  <1>3. 0 \in S
    OBVIOUS
  <1>4. Max(S) \in S
    <2> HIDE DEF S
    <2> QED  BY <1>1, <1>2, <1>3, MaxIsLargest
  <1>5. Max(S) \in Nat
    BY <1>1, <1>4 DEF Chunks
  <1> QED  BY <1>4, <1>5 DEF Point

\* A step of the sender that keeps its invariant keeps the whole.
LEMMA BecomeGood ==
  ASSUME DataInv, NEW s, Become(s), Good(s, Last(views)), Timed(s, {}), Reported(s)
  PROVE  DataInv'
  <1>1. snd' = s /\ views' = views /\ Last(views)' = Last(views)
    BY DEF Become
  <1>2. TypeOK' /\ SeenGrows'
    BY <1>1 DEF DataInv, TypeOK, SeenGrows, Good
  <1>3. Good(snd, Last(views))' /\ Timed(snd, {})' /\ Reported(snd)'
    <2>1. Good(snd', Last(views)') /\ Timed(snd', {}) /\ Reported(snd')
      BY <1>1
    <2> QED  BY <2>1
  <1> QED  BY <1>2, <1>3 DEF DataInv

\* What comes to the peer was sent, or it was told to do without.
LEMMA ArriveGood ==
  ASSUME DataInv, NEW chunks \in SUBSET Chunks, Arrive(chunks),
         chunks \subseteq 1..snd.highest_tsn
  PROVE  DataInv'
  <1> DEFINE last == Last(views)
             more == last \cup chunks
  <1>1. views \in Seq(SUBSET Chunks) /\ Len(views) \in Nat /\ Len(views) > 0
    <2>1. views \in Seq(SUBSET Chunks) /\ views # <<>>
      BY DEF DataInv, TypeOK, SeenGrows
    <2> QED  BY <2>1, LenProperties, EmptySeq
  <1>2. last \in SUBSET Chunks /\ last = views[Len(views)]
    BY <1>1, ElementOfSeq DEF Last
  <1>3. views' = Append(views, more) /\ snd' = snd
    BY DEF Arrive
  <1>4. more \in SUBSET Chunks
    BY <1>2
  <1> HIDE DEF more, last
  <1>5. /\ views' \in Seq(SUBSET Chunks) /\ Len(views') = Len(views) + 1
        /\ views'[Len(views')] = more
        /\ \A i \in 1..Len(views) : views'[i] = views[i]
    BY <1>1, <1>3, <1>4, AppendProperties
  <1>6. Last(views') = more
    BY <1>5 DEF Last
  <1>7. TypeOK' /\ SeenGrows'
    <2>1. TypeOK'
      BY <1>3, <1>5 DEF DataInv, TypeOK
    <2>2. views' # <<>> /\ DOMAIN views' = 1..Len(views') /\ DOMAIN views = 1..Len(views)
      BY <1>1, <1>5, LenProperties, EmptySeq
    <2>3. ASSUME NEW i \in DOMAIN views' PROVE views'[i] \subseteq more
      <3>1. CASE i = Len(views')
        BY <1>5, <3>1
      <3>2. CASE i # Len(views')
        <4>1. i \in 1..Len(views)
          BY <1>1, <1>5, <2>2, <3>2
        <4>2. views[i] \subseteq last
          BY <2>2, <4>1 DEF DataInv, SeenGrows, last
        <4> QED  BY <1>5, <4>1, <4>2 DEF more
      <3> QED  BY <3>1, <3>2
    <2> QED  BY <1>6, <2>1, <2>2, <2>3 DEF SeenGrows
  <1>8. Good(snd, more)
    <2>1. Good(snd, last)
      BY DEF DataInv, last
    <2>2. Covered(snd, more)
      BY <2>1 DEF Good, Covered, more
    <2> QED  BY <2>1, <2>2 DEF Good
  <1>9. Good(snd', Last(views')) /\ Timed(snd', {}) /\ Reported(snd')
    BY <1>3, <1>6, <1>8 DEF DataInv
  <1>10. Good(snd, Last(views))' /\ Timed(snd, {})' /\ Reported(snd)'
    BY <1>9
  <1> QED  BY <1>7, <1>10 DEF DataInv

\* The invariant holds at the start.
LEMMA DataInit ==
  ASSUME Init PROVE DataInv
  <1> DEFINE chunk == [n \in Chunks |-> NewChunk]
             cwnd == [p \in Path |-> 2]
             ssthresh == [p \in Path |-> PeerRwnd]
             partial == [p \in Path |-> 0]
             T3 == [p \in Path |-> FALSE]
  <1>1. chunk \in [Chunks -> ChunkData]
    <2>1. NewChunk \in ChunkData
      BY DataAssumption DEF NewChunk, ChunkData, Path
    <2> QED  BY <2>1
  <1>2. /\ cwnd \in [Path -> Nat] /\ ssthresh \in [Path -> Nat]
        /\ partial \in [Path -> 0..(Word - 1)] /\ T3 \in [Path -> BOOLEAN] /\ PeerRwnd \in Nat
    BY DataAssumption
  <1>3. \A n \in Chunks : ~chunk[n].sent /\ ~chunk[n].hasBeenDropped
    BY DEF NewChunk
  <1>4. snd = [chunk |-> chunk, unacked |-> {}, queue |-> {},
               lowest_tsn |-> 0, highest_tsn |-> 0, highest_acked |-> 0,
               peer_arwnd |-> PeerRwnd, all_chunks_are_unacked |-> TRUE,
               fast_recovery_active |-> FALSE, fr_exit_point |-> 0,
               advancedPeerAckPoint |-> 0, lastSentForwardTSN |-> 0,
               closing |-> "no", tsn |-> 1, outstanding_bytes |-> 0,
               cwnd |-> cwnd, ssthresh |-> ssthresh,
               partial_bytes_acked |-> partial, T3 |-> T3,
               waiting_for_sack |-> FALSE, t3_retransmission_sent |-> FALSE,
               one_packet_inflight |-> FALSE, doing_retransmission |-> FALSE]
        /\ views = <<{}>>
    BY DEF Init
  <1> HIDE DEF chunk, cwnd, ssthresh, partial, T3
  <1>5. snd \in Sender
    BY <1>1, <1>2, <1>4 DEF Sender
  <1>6. /\ snd.chunk = chunk /\ snd.unacked = {} /\ snd.queue = {} /\ snd.highest_tsn = 0
        /\ snd.tsn = 1 /\ snd.advancedPeerAckPoint = 0 /\ snd.lastSentForwardTSN = 0
        /\ snd.closing = "no"
    BY <1>4
  <1>7. /\ Last(views) = {} /\ views \in Seq(SUBSET Chunks) /\ views # <<>>
        /\ \A i \in DOMAIN views : views[i] \subseteq Last(views)
    BY <1>4 DEF Last
  <1>8. TypeOK /\ SeenGrows
    BY <1>5, <1>7 DEF TypeOK, SeenGrows
  <1>9. \A n \in Chunks : n >= 1 /\ n \in Nat
    BY DataAssumption DEF Chunks
  <1>10. Numbers(snd)
    BY <1>6, DataAssumption DEF Numbers
  <1>11. Lists(snd)
    BY <1>3, <1>6, <1>9 DEF Lists
  <1>12. Covered(snd, {})
    BY <1>3, <1>6, <1>9 DEF Covered
  <1>13. Timed(snd, {})
    BY <1>6 DEF Timed, InFlight
  <1>14. Reported(snd)
    BY <1>6 DEF Reported, Waits
  <1> QED  BY <1>5, <1>7, <1>8, <1>10, <1>11, <1>12, <1>13, <1>14 DEF DataInv, Good

\* What a view is, and that all of it has come to the peer by now.
LEMMA ViewSeen ==
  ASSUME DataInv, NEW i \in DOMAIN views
  PROVE  /\ views[i] \in SUBSET Chunks
         /\ Point(views[i]) \in Nat /\ 1..Point(views[i]) \subseteq Last(views)
  <1>1. views[i] \in SUBSET Chunks /\ views[i] \subseteq Last(views)
    <2>1. views \in Seq(SUBSET Chunks)
      BY DEF DataInv, TypeOK
    <2>2. i \in 1..Len(views)
      BY <2>1, LenProperties
    <2> QED  BY <2>1, <2>2, ElementOfSeq DEF DataInv, SeenGrows
  <1>2. Point(views[i]) \in Nat /\ 1..Point(views[i]) \subseteq views[i]
    BY <1>1, PointCovered
  <1> QED  BY <1>1, <1>2

\* The ULP sends: one chunk more waits in the queue, or is sent at once.
LEMMA SendDataChunkStep ==
  ASSUME DataInv, SendDataChunk PROVE DataInv'
  <1>1. PICK d \in Path, idle \in BOOLEAN :
          /\ snd.closing = "no" /\ snd.tsn <= LastChunk
          /\ Become(CheckForTxmit([snd EXCEPT !.queue = @ \cup {snd.tsn}, !.tsn = @ + 1],
                                  FALSE, d, idle))
    BY DEF SendDataChunk
  <1> DEFINE queue == snd.queue \cup {snd.tsn}
             next == snd.tsn + 1
             q == [snd EXCEPT !.queue = queue, !.tsn = next]
             seen == Last(views)
             r == CheckForTxmit(q, FALSE, d, idle)
  <1>2. Become(r)
    BY <1>1
  <1>3. /\ snd \in Sender /\ Numbers(snd) /\ Lists(snd) /\ Covered(snd, seen)
        /\ Timed(snd, {}) /\ snd.tsn \in Nat /\ snd.highest_tsn \in Nat
        /\ snd.queue \in SUBSET Chunks /\ snd.unacked \in SUBSET Chunks
    BY DEF DataInv, Good, Sender
  <1>4. snd.tsn \in Chunks /\ Chunks \in SUBSET Nat /\ LastChunk \in Nat
    BY <1>1, <1>3, DataAssumption DEF Chunks, Numbers
  <1>5. /\ q \in Sender /\ q.queue = queue /\ q.tsn = next
        /\ q.chunk = snd.chunk /\ q.unacked = snd.unacked /\ q.highest_tsn = snd.highest_tsn
        /\ q.closing = snd.closing /\ q.T3 = snd.T3
        /\ q.advancedPeerAckPoint = snd.advancedPeerAckPoint
        /\ q.lastSentForwardTSN = snd.lastSentForwardTSN
    <2>1. queue \in SUBSET Chunks /\ next \in Nat
      BY <1>3, <1>4
    <2> HIDE DEF queue, next
    <2> QED  BY <1>3, <2>1 DEF Sender
  <1> HIDE DEF q
  <1>6. Good(q, seen)
    <2>1. Numbers(q)
      BY <1>1, <1>3, <1>4, <1>5 DEF Numbers
    <2>2. Lists(q)
      <3>1. \A n \in queue : n < next /\ (n \in snd.unacked \/ n > snd.highest_tsn)
        <4> SUFFICES ASSUME NEW n \in queue
                     PROVE  n < next /\ (n \in snd.unacked \/ n > snd.highest_tsn)
          OBVIOUS
        <4>1. CASE n \in snd.queue
          BY <1>3, <1>4, <4>1 DEF Lists
        <4>2. CASE n = snd.tsn
          BY <1>3, <4>2 DEF Numbers
        <4> QED  BY <4>1, <4>2
      <3>2. \A n \in Chunks : snd.highest_tsn < n /\ n < next => n \in queue
        <4> SUFFICES ASSUME NEW n \in Chunks, snd.highest_tsn < n, n < next PROVE n \in queue
          OBVIOUS
        <4>1. n < snd.tsn \/ n = snd.tsn
          BY <1>3, <1>4
        <4> QED  BY <1>3, <4>1 DEF Lists
      <3> HIDE DEF queue, next
      <3> QED  BY <1>3, <1>5, <3>1, <3>2 DEF Lists
    <2>3. Covered(q, seen)
      <3>1. \A n \in Chunks \ Mortal : n < next => n \in snd.unacked \cup queue \cup seen
        <4> SUFFICES ASSUME NEW n \in Chunks \ Mortal, n < next
                     PROVE  n \in snd.unacked \cup queue \cup seen
          OBVIOUS
        <4>1. n < snd.tsn \/ n = snd.tsn
          BY <1>3, <1>4
        <4> QED  BY <1>3, <4>1 DEF Covered
      <3> HIDE DEF queue, next, seen
      <3> QED  BY <1>3, <1>5, <3>1 DEF Covered
    <2> QED  BY <1>5, <2>1, <2>2, <2>3 DEF Good
  <1>7. Timed(q, {})
    BY <1>3, <1>5 DEF Timed, InFlight
  <1>8. Reported(q)
    BY <1>1, <1>5 DEF Reported, Waits
  <1>9. Follows(q, r, seen) /\ (Timed(q, {}) => Timed(r, {}))
    BY <1>6, TxmitGood
  <1> HIDE DEF r
  <1> QED  BY <1>2, <1>7, <1>8, <1>9, BecomeGood DEF Follows

\* The ULP closes: there is something to wait for, or nothing.
LEMMA ShutdownStep ==
  ASSUME DataInv, Shutdown PROVE DataInv'
  <1> DEFINE closing == IF Drained(snd) THEN "sent" ELSE "pending"
             r == [snd EXCEPT !.closing = closing]
  <1>1. Become(r)
    BY DEF Shutdown
  <1>2. snd \in Sender /\ Good(snd, Last(views)) /\ Timed(snd, {})
    BY DEF DataInv, Good
  <1>3. /\ r \in Sender /\ r.closing = closing
        /\ r.chunk = snd.chunk /\ r.unacked = snd.unacked /\ r.queue = snd.queue
        /\ r.highest_tsn = snd.highest_tsn /\ r.tsn = snd.tsn /\ r.T3 = snd.T3
        /\ r.advancedPeerAckPoint = snd.advancedPeerAckPoint
        /\ r.lastSentForwardTSN = snd.lastSentForwardTSN
    BY <1>2 DEF Sender
  <1> HIDE DEF r
  <1>4. Good(r, Last(views)) /\ Timed(r, {})
    <2>1. Numbers(r)
      BY <1>2, <1>3 DEF Good, Numbers
    <2>2. Lists(r)
      BY <1>2, <1>3 DEF Good, Lists
    <2>3. Covered(r, Last(views))
      BY <1>2, <1>3 DEF Good, Covered
    <2> QED  BY <1>2, <1>3, <2>1, <2>2, <2>3 DEF Good, Timed, InFlight
  <1>5. Reported(r)
    BY <1>3 DEF Reported, Waits, Drained
  <1> QED  BY <1>1, <1>4, <1>5, BecomeGood

\* T3 goes off.
LEMMA T3Step ==
  ASSUME DataInv, NEW p \in Path, T3TimerCallback(p) PROVE DataInv'
  <1>1. PICK expired \in SUBSET Mortal, d \in Path, idle \in BOOLEAN :
          Become(T3Timeout(snd, p, expired, d, idle))
    BY DEF T3TimerCallback
  <1> DEFINE r == T3Timeout(snd, p, expired, d, idle)
  <1>2. Good(r, Last(views)) /\ Timed(r, {}) /\ Reported(r)
    <2>1. Good(snd, Last(views)) /\ Timed(snd, {}) /\ Reported(snd)
      BY DEF DataInv
    <2> QED  BY <2>1, T3TimeoutGood
  <1> HIDE DEF r
  <1> QED  BY <1>1, <1>2, BecomeGood DEF r

\* A SACK comes, however old it is.
LEMMA SackStep ==
  ASSUME DataInv, NEW p \in Path, NEW w \in Windows, ReceiveSack(p, w) PROVE DataInv'
  <1>1. PICK i \in 2..Len(views), expired \in SUBSET Mortal, rtt \in RoundTrip(p),
             d \in Path, idle \in BOOLEAN :
          LET c == Point(views[i])
          IN  /\ c >= snd.highest_acked
              /\ Become(ProcessSack(snd, p, c, {n \in views[i] : n > c}, w, expired, rtt, d, idle))
    BY DEF ReceiveSack
  <1> DEFINE c == Point(views[i])
             gaps == {n \in views[i] : n > c}
             r == ProcessSack(snd, p, c, gaps, w, expired, rtt, d, idle)
  <1>2. Become(r)
    BY <1>1
  <1>3. i \in DOMAIN views
    <2>1. views \in Seq(SUBSET Chunks) /\ Len(views) \in Nat
      BY LenProperties DEF DataInv, TypeOK
    <2> QED  BY <2>1, LenProperties
  <1>4. c \in Nat /\ 1..c \subseteq Last(views) /\ gaps \in SUBSET Chunks
    BY <1>3, ViewSeen
  <1>5. rtt \in BOOLEAN /\ w \in Nat
    BY DataAssumption DEF RoundTrip
  <1> HIDE DEF c, gaps
  <1>6. Good(r, Last(views)) /\ Timed(r, {}) /\ Reported(r)
    <2>1. Good(snd, Last(views)) /\ Timed(snd, {}) /\ Reported(snd)
      BY DEF DataInv
    <2> QED  BY <1>4, <1>5, <2>1, ProcessSackGood
  <1> HIDE DEF r
  <1> QED  BY <1>2, <1>6, BecomeGood

\* A SHUTDOWN comes, however old it is.
LEMMA ReceiveShutdownStep ==
  ASSUME DataInv, ReceiveShutdown PROVE DataInv'
  <1>1. PICK i \in DOMAIN views, rtt \in RoundTrip(0), d \in Path, idle \in BOOLEAN :
          /\ snd.closing \in {"no", "received", "answered", "rewritten"}
          /\ LET s == RcvShutdownCtsna(snd, Point(views[i]), rtt, d, idle)
             IN  Become([s EXCEPT !.closing =
                           IF @ = "no" THEN IF Drained(s) THEN "answered" ELSE "received"
                           ELSE IF @ = "answered" /\ snd.closing # "answered" THEN "rewritten"
                           ELSE @])
    BY DEF ReceiveShutdown
  <1> DEFINE s == RcvShutdownCtsna(snd, Point(views[i]), rtt, d, idle)
             closing == IF s.closing = "no" THEN IF Drained(s) THEN "answered" ELSE "received"
                        ELSE IF s.closing = "answered" /\ snd.closing # "answered"
                        THEN "rewritten" ELSE s.closing
             r == [s EXCEPT !.closing = closing]
  <1>2. Become(r)
    BY <1>1
  <1>3. Good(s, Last(views)) /\ Timed(s, {}) /\ Reported(s)
    <2>1. Good(snd, Last(views)) /\ Timed(snd, {}) /\ snd.closing \notin {"pending", "sent"}
      BY <1>1 DEF DataInv
    <2>2. Point(views[i]) \in Nat /\ 1..Point(views[i]) \subseteq Last(views)
      BY ViewSeen
    <2>3. rtt \in BOOLEAN
      BY DEF RoundTrip
    <2> QED  BY <2>1, <2>2, <2>3, RcvShutdownGood
  <1> HIDE DEF s
  <1>4. /\ r \in Sender /\ r.closing = closing
        /\ r.chunk = s.chunk /\ r.unacked = s.unacked /\ r.queue = s.queue
        /\ r.highest_tsn = s.highest_tsn /\ r.tsn = s.tsn /\ r.T3 = s.T3
        /\ r.advancedPeerAckPoint = s.advancedPeerAckPoint
        /\ r.lastSentForwardTSN = s.lastSentForwardTSN
    <2>1. s \in Sender
      BY <1>3 DEF Good
    <2> QED  BY <2>1 DEF Sender
  <1> HIDE DEF r
  <1>5. Good(r, Last(views)) /\ Timed(r, {})
    <2>1. Numbers(r)
      BY <1>3, <1>4 DEF Good, Numbers
    <2>2. Lists(r)
      BY <1>3, <1>4 DEF Good, Lists
    <2>3. Covered(r, Last(views))
      BY <1>3, <1>4 DEF Good, Covered
    <2> QED  BY <1>3, <1>4, <2>1, <2>2, <2>3 DEF Good, Timed, InFlight
  <1>6. Reported(r)
    BY <1>3, <1>4 DEF Reported, Waits, Drained
  <1> QED  BY <1>2, <1>5, <1>6, BecomeGood

\* Something comes to the peer.
LEMMA ArrivalStep ==
  ASSUME DataInv, DeliverData \/ DeliverForwardTSN PROVE DataInv'
  <1>1. /\ snd.highest_tsn \in Nat /\ snd.lastSentForwardTSN \in Nat /\ snd.tsn \in Nat
        /\ snd.highest_tsn < snd.tsn /\ snd.tsn <= LastChunk + 1
        /\ snd.lastSentForwardTSN <= snd.highest_tsn /\ LastChunk \in Nat
    BY DataAssumption DEF DataInv, Good, Numbers, Sender
  <1>2. 1..snd.highest_tsn \in SUBSET Chunks
    BY <1>1 DEF Chunks
  <1>3. CASE DeliverData
    <2>1. PICK n \in 1..snd.highest_tsn : Arrive({n})
      BY <1>3 DEF DeliverData
    <2> QED  BY <1>2, <2>1, ArriveGood
  <1>4. CASE DeliverForwardTSN
    <2>1. 1..snd.lastSentForwardTSN \subseteq 1..snd.highest_tsn
      BY <1>1
    <2> DEFINE chunks == 1..snd.lastSentForwardTSN
    <2>2. Arrive(chunks)
      BY <1>4 DEF DeliverForwardTSN
    <2> HIDE DEF chunks
    <2> QED  BY <1>2, <2>1, <2>2, ArriveGood DEF chunks
  <1> QED  BY <1>3, <1>4

\* Every step keeps the invariant.
LEMMA DataStep ==
  ASSUME DataInv, [Next]_vars PROVE DataInv'
  <1>1. CASE SendDataChunk
    BY <1>1, SendDataChunkStep
  <1>2. CASE Shutdown
    BY <1>2, ShutdownStep
  <1>3. CASE ReceiveShutdown
    BY <1>3, ReceiveShutdownStep
  <1>4. CASE DeliverData \/ DeliverForwardTSN
    BY <1>4, ArrivalStep
  <1>5. ASSUME NEW p \in Path, T3TimerCallback(p) PROVE DataInv'
    BY <1>5, T3Step
  <1>6. ASSUME NEW p \in Path, NEW w \in Windows, ReceiveSack(p, w) PROVE DataInv'
    BY <1>6, SackStep
  <1>7. CASE UNCHANGED vars
    <2>1. snd' = snd /\ views' = views
      BY <1>7 DEF vars
    <2>2. TypeOK' /\ SeenGrows'
      BY <2>1 DEF DataInv, TypeOK, SeenGrows
    <2>3. Good(snd', Last(views')) /\ Timed(snd', {}) /\ Reported(snd')
      BY <2>1 DEF DataInv
    <2>4. Good(snd, Last(views))' /\ Timed(snd, {})' /\ Reported(snd)'
      BY <2>3
    <2> QED  BY <2>2, <2>4 DEF DataInv
  <1> QED  BY <1>1, <1>2, <1>3, <1>4, <1>5, <1>6, <1>7 DEF Next

-----------------------------------------------------------------------------
(* The theorems *)

\* The inductive invariant holds in every reachable state.
THEOREM DataInvariant == Spec => []DataInv
  <1>1. Init => DataInv
    BY DataInit
  <1>2. DataInv /\ [Next]_vars => DataInv'
    BY DataStep
  <1> QED  BY <1>1, <1>2, PTL DEF Spec

\* The buffers of reliable transfer and flow control have their type (rtx_buffer, fc_data).
THEOREM DataTypeCorrect == Spec => []TypeOK
  <1>1. DataInv => TypeOK
    BY DEF DataInv
  <1> QED  BY <1>1, DataInvariant, PTL

\* Flow control queues no chunk that reliable transfer has freed, and nothing in between is lost.
THEOREM ListsAlwaysAgree == Spec => []ListsAgree
  <1>1. DataInv => ListsAgree
    <2> SUFFICES ASSUME DataInv PROVE ListsAgree
      OBVIOUS
    <2>1. Lists(snd)
      BY DEF DataInv, Good
    <2> QED  BY <2>1 DEF Lists, ListsAgree
  <1> QED  BY <1>1, DataInvariant, PTL

\* A chunk in flight has the T3 timer of its path running, so that its loss is noticed.
THEOREM InFlightAlwaysTimed == Spec => []InFlightIsTimed
  <1>1. DataInv => InFlightIsTimed
    BY DEF DataInv, Timed, InFlightIsTimed
  <1> QED  BY <1>1, DataInvariant, PTL

\* A shutdown that waits for the queues is told when they are empty, and none is sent before.
THEOREM DrainAlwaysReported == Spec => []DrainIsReported
  <1>1. DataInv => DrainIsReported
    BY DEF DataInv, Reported, Waits, DrainIsReported
  <1> QED  BY <1>1, DataInvariant, PTL

\* The sender forgets no reliable chunk that the peer does not have.
THEOREM NothingEverForgotten == Spec => []NothingIsForgotten
  <1>1. DataInv => NothingIsForgotten
    BY DEF DataInv, Good, Covered, NothingIsForgotten
  <1> QED  BY <1>1, DataInvariant, PTL

\* A FORWARD TSN passes over no reliable chunk that the peer misses.
THEOREM ForwardAlwaysHonest == Spec => []ForwardIsHonest
  <1>1. DataInv => ForwardIsHonest
    BY DEF DataInv, Good, Covered, ForwardIsHonest
  <1> QED  BY <1>1, DataInvariant, PTL
=============================================================================

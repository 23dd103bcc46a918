---------------------------- MODULE StreamEngine ----------------------------
(***************************************************************************)
(* The stream engine (sctp/streamengine.c): the sender cuts messages into  *)
(* chunks and numbers those of a stream; the receiver collects chunks in   *)
(* the order of their TSNs, puts complete messages together, announces     *)
(* them in the order of the stream and hands them to the ULP; a FORWARD    *)
(* TSN makes it pass over messages the peer gave up.                       *)
(*                                                                         *)
(* The n-th chunk of the peer has the number n; se->List, which is sorted  *)
(* by TSN, is a set of numbers, and a PDU an interval of them.  Receive    *)
(* control hands each chunk over at most once, in any order (ReceiveControl*)
(* shows that).  The search for complete PDUs takes a step per iteration   *)
(* of its loops, and the ULP may read between two announcements.           *)
(***************************************************************************)
EXTENDS SerialNumbers, SequencesExt, FiniteSetsExt

CONSTANTS
  NumStreams,         \* numReceiveStreams, and the peer's numSendStreams
  SSNModulus,         \* 2^16 in the code
  MaxDataLength,      \* SCTP_MAXIMUM_DATA_LENGTH
  Lengths,            \* bound: the lengths of messages
  MaxChunks,          \* bound: chunks the peer sends
  Reads,              \* bound: how much the ULP reads at once
  FirstTSNs,          \* bound: initial TSNs, and the SSNs that the streams
  FirstSSNs,          \*        have come to
  PRSCTP              \* se->unreliable

S == INSTANCE SerialNumbers WITH Modulus <- SSNModulus

ASSUME StreamAssumption ==
  /\ {NumStreams, MaxDataLength, MaxChunks} \subseteq Nat \ {0}
  /\ Lengths \subseteq Nat \ {0} /\ Reads \subseteq Nat \ {0}
  /\ SSNModulus \in Nat /\ SSNModulus > 3 /\ SSNModulus % 2 = 0
  /\ FirstTSNs \subseteq TSN /\ FirstSSNs \subseteq 0..(SSNModulus - 1)
  /\ 2 * MaxChunks <= SSNModulus /\ MaxChunks < Modulus
  /\ PRSCTP \in BOOLEAN

VARIABLES
  peer,      \* the sender: base TSN, SendStreams[].nextSSN, the chunks sent
  came,      \* the chunks handed to se_recvDataChunk
  point,     \* rxc->ctsna
  se,        \* the StreamEngine of the receiver
  scan,      \* se_searchReadyPdu: tmp and firstItem
  phase,     \* where the handling of a datagram is
  hasData,   \* data_chunk_received of rbu_rcvDatagram
  upTo,      \* up_to_tsn of se_deliver_unreliably, 0 outside of it
  aborted,   \* scu_abort was called
  given,     \* the chunks that FORWARD TSNs told of
  kept,      \* history: chunks that stayed in the list when a FORWARD TSN passed them
  announced  \* the first chunks of the PDUs announced, for each stream

vars == <<peer, came, point, se, scan, phase, hasData, upTo, aborted, given, kept, announced>>
receiver == <<came, point, se, scan, phase, hasData, upTo, aborted, given, kept, announced>>

Stream == 0..(NumStreams - 1)
SSN == 0..(SSNModulus - 1)
Numbers == 1..MaxChunks

Chunk ==
  [sid : Stream, ssn : SSN, unordered : BOOLEAN, begin : BOOLEAN, end : BOOLEAN,
   length : Nat]

PDU == [first : Numbers, last : Numbers, read_position : Nat]

TypeOK ==
  /\ peer \in [base : TSN, nextSSN : [Stream -> SSN], sent : Seq(Chunk)]
  /\ came \subseteq Numbers /\ point \in {0} \cup Numbers
  /\ se \in [List : SUBSET Numbers, queuedBytes : Int,
             nextSSN : [Stream -> SSN], highestSSN : [Stream -> SSN],
             highestSSNused : [Stream -> BOOLEAN],
             prePduList : [Stream -> Seq(PDU)], pduList : [Stream -> Seq(PDU)]]
  /\ scan \in [at : {0} \cup Numbers, first : {0} \cup Numbers]
  /\ phase \in {"idle", "chunks", "search", "deliver"} /\ hasData \in BOOLEAN
  /\ upTo \in {0} \cup Numbers /\ aborted \in BOOLEAN
  /\ given \subseteq Numbers /\ kept \subseteq Numbers /\ announced \in [Stream -> Seq(Numbers)]

sent == peer.sent
RawTSN(n) == Plus(peer.base, n - 1)

(* se_new_stream_engine *)
NewStreamEngine(ssn) ==
  [List |-> {}, queuedBytes |-> 0,
   nextSSN |-> [s \in Stream |-> ssn], highestSSN |-> [s \in Stream |-> 0],
   highestSSNused |-> [s \in Stream |-> FALSE],
   prePduList |-> [s \in Stream |-> <<>>], pduList |-> [s \in Stream |-> <<>>]]

NewPeer(base, ssn) ==
  [base |-> base, nextSSN |-> [s \in Stream |-> ssn], sent |-> <<>>]

Init ==
  /\ \E base \in FirstTSNs, ssn \in FirstSSNs :
       peer = NewPeer(base, ssn) /\ se = NewStreamEngine(ssn)
  /\ came = {} /\ point = 0 /\ given = {} /\ kept = {}
  /\ scan = [at |-> 0, first |-> 0]
  /\ phase = "idle" /\ hasData = FALSE /\ upTo = 0 /\ aborted = FALSE
  /\ announced = [s \in Stream |-> <<>>]

-----------------------------------------------------------------------------
(* Sending *)

Segments(length) == (length + MaxDataLength - 1) \div MaxDataLength

(* Mutant: an unordered message uses up an SSN too. *)
NextSendSSNFault(s, length, unordered) ==
  [peer.nextSSN EXCEPT ![s] = S!Plus(@, 1)]

NextSendSSN(s, length, unordered) ==
  IF unordered THEN peer.nextSSN ELSE [peer.nextSSN EXCEPT ![s] = S!Plus(@, 1)]

(* The fragments are queued, and get their TSNs, one behind the other. *)
Fragments(s, length, unordered) ==
  [i \in 1..Segments(length) |->
     [sid |-> s, ssn |-> IF unordered THEN 0 ELSE peer.nextSSN[s],
      unordered |-> unordered, begin |-> i = 1, end |-> i = Segments(length),
      length |-> IF i = Segments(length) THEN length - (i - 1) * MaxDataLength
                 ELSE MaxDataLength]]

(* se_ulpsend of the peer.  Bound: it sends before anything arrives, which  *)
(* leaves out no order of arrivals, as the receiver knows only of chunks    *)
(* that have come.                                                          *)
UlpSend(s, length, unordered) ==
  /\ phase = "idle" /\ point = 0 /\ came = {}
  /\ Len(sent) + Segments(length) <= MaxChunks
  /\ peer' = [peer EXCEPT !.sent = @ \o Fragments(s, length, unordered),
                          !.nextSSN = NextSendSSN(s, length, unordered)]
  /\ UNCHANGED receiver

-----------------------------------------------------------------------------
(* Receiving chunks *)

Bytes(chunks) == MapThenSumSet(LAMBDA n : sent[n].length, chunks)

(* Up to where nothing is missing, if chunks are there and from is the point. *)
Contiguous(chunks, from) ==
  Max({n \in from..Len(sent) : (from + 1)..n \subseteq chunks})

(* rxc_data_chunk_rcvd has found chunk n to be new *)
RecvDataChunk(n) ==
  /\ phase = "chunks" \/ (phase = "idle" /\ ~aborted)
  /\ n \in DOMAIN sent /\ n > point /\ n \notin came
  /\ came' = came \cup {n}
  /\ point' = Contiguous(came', point)
  /\ se' = [se EXCEPT !.List = @ \cup {n}, !.queuedBytes = @ + sent[n].length]
  /\ phase' = "chunks" /\ hasData' = TRUE
  /\ UNCHANGED <<peer, scan, upTo, aborted, given, kept, announced>>

(* The streams of the chunks given up, with the last SSN of each: what      *)
(* rtx_update_fwtsn_list collects.  Unordered chunks are among them.        *)
Skipped(chunks) ==
  {<<sent[n].sid, sent[n].ssn>> : n \in
     {n \in chunks : \A m \in chunks : sent[m].sid = sent[n].sid
                                         => ~ S!After(sent[m].ssn, sent[n].ssn)}}

Skip(nextSSN, skipped) ==
  [s \in Stream |-> IF \E ssn \in SSN : <<s, ssn>> \in skipped
                    THEN S!Plus(CHOOSE ssn \in SSN : <<s, ssn>> \in skipped, 1)
                    ELSE nextSSN[s]]

Successor(list, n) ==
  IF \E m \in list : m > n THEN Min({m \in list : m > n}) ELSE 0

(* Mutant: what earlier searches saw is still held against a chunk. *)
ForgottenFault(e) == e

Forgotten(e) ==
  [e EXCEPT !.highestSSN = [s \in Stream |-> 0],
            !.highestSSNused = [s \in Stream |-> FALSE]]

(* se_searchReadyPdu begins with engine e. *)
StartSearch(e) ==
  /\ se' = Forgotten(e)
  /\ scan' = [at |-> Successor(e.List, 0), first |-> 0]
  /\ phase' = "search"

(* The peer, whose last SACK was for a, has given up the chunks from a + 1  *)
(* to u, all of which had a lifetime.  Receive control moves on to what is  *)
(* contiguous, and tells that point to se_deliver_unreliably.               *)
ForwardTSN(a, u) ==
  /\ phase = "chunks" \/ (phase = "idle" /\ ~aborted)
  /\ PRSCTP /\ a <= point /\ point < u /\ u \in DOMAIN sent
  /\ given' = given \cup (a + 1)..u
  /\ point' = Contiguous(came, u) /\ upTo' = point'
  /\ StartSearch([se EXCEPT !.nextSSN = Skip(@, Skipped((a + 1)..u))])
  /\ UNCHANGED <<peer, came, hasData, aborted, kept, announced>>

(* The end of rbu_rcvDatagram: se_doNotifications if there was DATA *)
EndDatagram ==
  /\ phase = "chunks"
  /\ hasData' = FALSE
  /\ IF hasData THEN StartSearch(se)
     ELSE phase' = "idle" /\ UNCHANGED <<se, scan>>
  /\ UNCHANGED <<peer, came, point, upTo, aborted, given, kept, announced>>

-----------------------------------------------------------------------------
(* Putting PDUs together: se_searchReadyPdu *)

(* Mutant: any message can be announced when it is complete. *)
DeliverableFault(c) == TRUE

Deliverable(c) ==
  \/ S!Before(c.ssn, se.nextSSN[c.sid])
  \/ c.ssn = se.nextSSN[c.sid]
  \/ c.unordered

OutOfOrder(c) == se.highestSSNused[c.sid] /\ S!After(se.highestSSN[c.sid], c.ssn)

Noted(e, c) ==
  IF c.unordered THEN e
  ELSE [e EXCEPT !.highestSSN[c.sid] = c.ssn, !.highestSSNused[c.sid] = TRUE]

(* The chunks from f to l are a PDU. *)
Complete(e, f, l) ==
  LET s == sent[f].sid
      next == ~sent[f].unordered /\ e.nextSSN[s] = sent[f].ssn
  IN  /\ se' = [e EXCEPT !.List = @ \ f..l,
                         !.nextSSN[s] = IF next THEN S!Plus(@, 1) ELSE @,
                         !.prePduList[s] =
                            Append(@, [first |-> f, last |-> l, read_position |-> 0])]
      /\ scan' = [at |-> Successor(e.List, l), first |-> 0]
      /\ UNCHANGED <<phase, aborted>>

Abort ==
  /\ aborted' = TRUE /\ phase' = "deliver"
  /\ UNCHANGED <<se, scan>>

(* The next chunk of the list, with no PDU begun *)
SearchBegin ==
  LET n == scan.at
      c == sent[n]
  IN  /\ phase = "search" /\ n # 0 /\ scan.first = 0
      /\ IF OutOfOrder(c) THEN Abort
         ELSE IF c.begin /\ Deliverable(c) /\ c.end THEN Complete(Noted(se, c), n, n)
         ELSE /\ se' = Noted(se, c)
              /\ scan' = [at |-> Successor(se.List, n),
                          first |-> IF c.begin /\ Deliverable(c) THEN n ELSE 0]
              /\ UNCHANGED <<phase, aborted>>
      /\ UNCHANGED <<peer, came, point, hasData, upTo, given, kept, announced>>

Continues(n) == n - 1 \in se.List     \* firstTSN + nrOfChunks - 1 == tsn

(* Mutant: the TSN is not looked at. *)
MatchesFault(f, n) ==
  /\ sent[n].sid = sent[f].sid
  /\ sent[n].ssn = sent[f].ssn \/ sent[f].unordered

Matches(f, n) ==
  /\ sent[n].sid = sent[f].sid
  /\ sent[n].ssn = sent[f].ssn \/ sent[f].unordered
  /\ Continues(n)

(* Multiple begins, ordered and unordered fragments mixed, no end segment *)
Violation(f, n) ==
  \/ Matches(f, n) /\ (sent[n].begin \/ sent[n].unordered # sent[f].unordered)
  \/ ~Matches(f, n) /\ Continues(n)

(* Mutant: the chunk that ended an incomplete PDU is passed over. *)
ResumeFault(n) == [at |-> Successor(se.List, n), first |-> 0]

(* The search goes on with the chunk that does not belong to the PDU. *)
Resume(n) == [at |-> n, first |-> 0]

(* The next chunk of the list, while a PDU has begun *)
SearchFragment ==
  LET n == scan.at
      f == scan.first
  IN  /\ phase = "search" /\ n # 0 /\ f # 0
      /\ IF Violation(f, n) THEN Abort
         ELSE IF Matches(f, n) /\ sent[n].end THEN Complete(se, f, n)
         ELSE /\ scan' = IF Matches(f, n) THEN [scan EXCEPT !.at = Successor(se.List, n)]
                         ELSE Resume(n)
              /\ UNCHANGED <<se, phase, aborted>>
      /\ UNCHANGED <<peer, came, point, hasData, upTo, given, kept, announced>>

SearchEnd ==
  /\ phase = "search" /\ scan.at = 0
  /\ phase' = "deliver"
  /\ UNCHANGED <<peer, came, point, se, scan, hasData, upTo, aborted, given, kept, announced>>

-----------------------------------------------------------------------------
(* Announcing and reading *)

Waiting == {s \in Stream : se.prePduList[s] # <<>>}

(* One round of se_deliverWaiting, with mdi_dataArriveNotif *)
DeliverWaiting ==
  /\ phase = "deliver" /\ Waiting # {}
  /\ LET s == Min(Waiting)
         pdu == Head(se.prePduList[s])
     IN  /\ se' = [se EXCEPT !.prePduList[s] = Tail(@), !.pduList[s] = Append(@, pdu)]
         /\ announced' = [announced EXCEPT ![s] = Append(@, pdu.first)]
  /\ UNCHANGED <<peer, came, point, scan, phase, hasData, upTo, aborted, given, kept>>

(* The chunks at the head of the list that a FORWARD TSN makes useless.  The *)
(* comparison of their TSNs is one of unsigned integers: a chunk before the *)
(* wrap stays when u is behind it, and so do those that follow it.          *)
Useless(u) ==
  {n \in se.List : \A m \in se.List : m <= n => RawTSN(m) <= RawTSN(u)}

Drop(e, chunks) ==
  [e EXCEPT !.List = @ \ chunks, !.queuedBytes = @ - Bytes(chunks)]

(* se_doNotifications returns. *)
Delivered ==
  /\ phase = "deliver" /\ Waiting = {}
  /\ IF upTo = 0 THEN phase' = "idle" /\ UNCHANGED <<se, kept>>
     ELSE /\ phase' = "chunks" /\ se' = Drop(se, Useless(upTo))
          /\ kept' = kept \cup ({n \in se.List : n <= upTo} \ Useless(upTo))
  /\ upTo' = 0
  /\ UNCHANGED <<peer, came, point, scan, hasData, aborted, given, announced>>

TotalLength(pdu) == Bytes(pdu.first..pdu.last)

(* Mutant: a message read in parts gives back its bytes part by part too. *)
ReadFault(s, bytes) ==
  LET pdu == Head(se.pduList[s])
      position == Min({pdu.read_position + bytes, TotalLength(pdu)})
  IN  IF position >= TotalLength(pdu)
      THEN [se EXCEPT !.pduList[s] = Tail(@), !.queuedBytes = @ - TotalLength(pdu)]
      ELSE [se EXCEPT !.pduList[s][1].read_position = position, !.queuedBytes = @ - bytes]

Read(s, bytes) ==
  LET pdu == Head(se.pduList[s])
      position == Min({pdu.read_position + bytes, TotalLength(pdu)})
  IN  IF position >= TotalLength(pdu)
      THEN [se EXCEPT !.pduList[s] = Tail(@), !.queuedBytes = @ - TotalLength(pdu)]
      ELSE [se EXCEPT !.pduList[s][1].read_position = position]

(* se_ulpreceivefrom: a message is freed when its last byte is read. *)
UlpReceiveFrom(s, bytes) ==
  /\ phase \in {"idle", "deliver"}
  /\ se.pduList[s] # <<>>
  /\ se' = Read(s, bytes)
  /\ UNCHANGED <<peer, came, point, scan, phase, hasData, upTo, aborted, given, kept, announced>>

(* se_delete_stream_engine, and both ends begin anew *)
NewAssociation ==
  /\ phase = "idle"
  /\ \E base \in FirstTSNs, ssn \in FirstSSNs :
       peer' = NewPeer(base, ssn) /\ se' = NewStreamEngine(ssn)
  /\ came' = {} /\ point' = 0 /\ given' = {} /\ kept' = {} /\ aborted' = FALSE
  /\ announced' = [s \in Stream |-> <<>>]
  /\ UNCHANGED <<scan, phase, hasData, upTo>>

Sending ==
  \E s \in Stream, length \in Lengths, unordered \in BOOLEAN : UlpSend(s, length, unordered)

Receiving ==
  \/ \E n \in Numbers : RecvDataChunk(n)
  \/ \E a \in {0} \cup Numbers, u \in Numbers : ForwardTSN(a, u)
  \/ EndDatagram
  \/ SearchBegin
  \/ SearchFragment
  \/ SearchEnd
  \/ DeliverWaiting
  \/ Delivered
  \/ \E s \in Stream, bytes \in Reads : UlpReceiveFrom(s, bytes)

Next == Sending \/ Receiving \/ NewAssociation

Spec == Init /\ [][Next]_vars

-----------------------------------------------------------------------------
(* Properties *)

(* The chunks of the message that begins with chunk f *)
Message(f) ==
  f..Min({n \in f..Len(sent) : sent[n].end})

(* A FORWARD TSN names an unordered chunk by SSN 0, which the receiver takes *)
(* for the SSN the stream has come to.                                       *)
UnorderedGiven == \E n \in given : sent[n].unordered

(* The ordered messages of a stream are announced in the order in which     *)
(* se_ulpsend took them, each at most once, whatever arrives first and      *)
(* whatever ordered messages the peer gives up (se_searchReadyPdu: sBefore,  *)
(* nextSSN).  The order is lost in two ways: once an unordered chunk was     *)
(* given up, and for a message that the drop at line 989 should have taken   *)
(* and did not, as the TSNs wrapped: it may come late, behind later ones.    *)
OrderKept ==
  ~UnorderedGiven =>
    \A s \in Stream : \A i, j \in DOMAIN announced[s] :
      LET f == announced[s][i]
          g == announced[s][j]
      IN  i < j /\ ~sent[f].unordered /\ ~sent[g].unordered
          => f # g /\ (f < g \/ g \in kept)

PDUs(s) == ToSet(se.prePduList[s]) \cup ToSet(se.pduList[s])

(* A PDU consists of the fragments of one message of its stream, all of     *)
(* them, though fragments of several messages wait in one list and others   *)
(* were dropped (se_searchReadyPdu).                                        *)
DeliveredWhole ==
  \A s \in Stream : \A pdu \in PDUs(s) :
    /\ sent[pdu.first].begin /\ sent[pdu.first].sid = s
    /\ pdu.first..pdu.last = Message(pdu.first)

(* queuedBytes, from which receive control computes the window it           *)
(* advertises, is what waits: in the list, in PDUs not yet announced and in *)
(* PDUs not yet read to their end.                                          *)
QueuedBytesExact ==
  LET held(list) == FoldLeft(LAMBDA total, pdu : total + TotalLength(pdu), 0, list)
  IN  se.queuedBytes =
        Bytes(se.List) + MapThenSumSet(LAMBDA s : held(se.prePduList[s] \o se.pduList[s]), Stream)

(* When a datagram is done, no complete message that the stream is ready    *)
(* for is left in the list: one search finds them all (se_doNotifications   *)
(* is not called again before the next DATA).                               *)
NothingReadyWaits ==
  phase = "idle" /\ ~aborted =>
    \A f \in se.List : ~(sent[f].begin /\ Deliverable(sent[f]) /\ Message(f) \subseteq se.List)

Earlier(f) ==
  {m \in 1..(f - 1) : ~sent[m].unordered /\ sent[m].sid = sent[f].sid}

(* As long as the peer gives nothing up, a message is announced as soon as  *)
(* it has come, with all messages before it on its stream if it is ordered. *)
ReliableArrives ==
  phase = "idle" /\ ~aborted /\ given = {} =>
    \A f \in came :
      (/\ sent[f].begin /\ Message(f) \subseteq came
       /\ sent[f].unordered \/ Earlier(f) \subseteq came)
      => f \in ToSet(announced[sent[f].sid])

(* A peer that numbers its chunks as se_ulpsend does is taken for one that  *)
(* violates the protocol in one case only: an unordered chunk is behind an  *)
(* ordered one of the same stream in the list (its SSN is 0).               *)
AbortsBlameMix ==
  aborted => \E s \in Stream, u, o \in Numbers :
    /\ {u, o} \subseteq came /\ o < u
    /\ sent[u].sid = s /\ sent[o].sid = s /\ sent[u].unordered /\ ~sent[o].unordered

(* What the field highestSSN is for, "used to detect Protocol violations":  *)
(* a peer that sends as se_ulpsend does is not taken for a violator.        *)
NoFalseAlarm == ~aborted
=============================================================================

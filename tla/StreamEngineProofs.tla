------------------------- MODULE StreamEngineProofs -------------------------
(***************************************************************************)
(* Theorems about StreamEngine, for any number of streams and chunks, any  *)
(* width of the serial numbers and any lengths: DeliveredWhole, OrderKept, *)
(* NothingReadyWaits and ReliableArrives.                                  *)
(***************************************************************************)
EXTENDS StreamEngine, SequenceTheorems, WellFoundedInduction, TLAPS

-----------------------------------------------------------------------------
(* The inductive invariant *)

(* The types that are needed; V is what bytes are counted in.  That they are *)
(* numbers follows from sums over sets only.                                 *)
Fragment ==
  [sid : Stream, ssn : SSN, unordered : BOOLEAN, begin : BOOLEAN, end : BOOLEAN,
   length : Int]

Interval(V) == [first : Numbers, last : Numbers, read_position : V]

Engine(V) ==
  [List : SUBSET Numbers, queuedBytes : V,
   nextSSN : [Stream -> SSN], highestSSN : [Stream -> SSN],
   highestSSNused : [Stream -> BOOLEAN],
   prePduList : [Stream -> Seq(Interval(V))], pduList : [Stream -> Seq(Interval(V))]]

Typed ==
  /\ peer \in [base : TSN, nextSSN : [Stream -> SSN], sent : Seq(Fragment)]
  /\ \E V : se \in Engine(V)
  /\ came \in SUBSET Numbers /\ point \in {0} \cup Numbers
  /\ scan \in [at : {0} \cup Numbers, first : {0} \cup Numbers]
  /\ phase \in {"idle", "chunks", "search", "deliver"} /\ hasData \in BOOLEAN
  /\ upTo \in {0} \cup Numbers /\ aborted \in BOOLEAN
  /\ given \in SUBSET Numbers /\ kept \in SUBSET Numbers
  /\ announced \in [Stream -> Seq(Numbers)]

(* No message ends between two chunks. *)
Same(m, n) == \A k \in m..(n - 1) : ~sent[k].end

(* What the peer has sent is messages, one behind the other. *)
PeerSound ==
  /\ Len(sent) <= MaxChunks /\ peer.base \in FirstTSNs
  /\ Len(sent) > 0 => sent[1].begin /\ sent[Len(sent)].end
  /\ \A n \in 1..(Len(sent) - 1) : sent[n].end => sent[n + 1].begin
  /\ \A m, n \in DOMAIN sent : m < n /\ Same(m, n) =>
       /\ ~sent[n].begin /\ sent[n].sid = sent[m].sid /\ sent[n].ssn = sent[m].ssn
       /\ sent[n].unordered = sent[m].unordered

(* How far an SSN is behind the next one of the peer: the number of ordered *)
(* messages from there on.                                                   *)
Back(s, ssn) == (peer.nextSSN[s] - ssn) % SSNModulus
Place(n) == Back(sent[n].sid, sent[n].ssn)
NextPlace(s) == Back(s, se.nextSSN[s])

Ordered(n) == n \in DOMAIN sent /\ ~sent[n].unordered

PeerNumbered ==
  /\ \A n \in DOMAIN sent : Ordered(n) => Place(n) \in 1..(Len(sent) - n + 1)
  /\ \A m, n \in DOMAIN sent :
       m < n /\ Ordered(m) /\ Ordered(n) /\ sent[m].sid = sent[n].sid /\ ~Same(m, n)
         => Place(m) > Place(n)

ChunksSound ==
  /\ se.List \subseteq came /\ came \subseteq DOMAIN sent /\ point \in 0..Len(sent)
  /\ upTo # 0 => upTo = point /\ given # {}
  /\ given \subseteq 1..point /\ kept \subseteq 1..point
  /\ phase \in {"idle", "chunks"} => upTo = 0 /\ \A s \in Stream : se.prePduList[s] = <<>>

(* While a PDU has begun, its chunks are all in the list, up to the last one *)
(* the search has seen.                                                      *)
ScanSound ==
  phase = "search" =>
    /\ scan.at # 0 => scan.at \in se.List
    /\ scan.first # 0 =>
         /\ scan.first \in se.List /\ sent[scan.first].begin /\ Deliverable(sent[scan.first])
         /\ \E p \in Numbers :
              /\ p >= scan.first /\ scan.first..p \subseteq se.List
              /\ \A k \in scan.first..p : ~sent[k].end
              /\ scan.at = Successor(se.List, p)

IsMessage(s, f, l) ==
  /\ f \in came /\ l \in f..Len(sent)
  /\ sent[f].begin /\ sent[f].sid = s /\ Same(f, l) /\ sent[l].end

PDUsSound ==
  \A s \in Stream :
    /\ \A pdu \in PDUs(s) : IsMessage(s, pdu.first, pdu.last)
    /\ \A f \in ToSet(announced[s]) : f \in came /\ sent[f].sid = s

(* No SSN of an unordered chunk was taken for one that was skipped. *)
Numbered == ~UnorderedGiven

NextSound == \A s \in Stream : NextPlace(s) <= Len(sent)

(* The search has left nothing behind that can be announced. *)
Ready(f) ==
  /\ f \in se.List /\ sent[f].begin /\ Deliverable(sent[f])
  /\ \E l \in f..Len(sent) : Same(f, l) /\ sent[l].end /\ f..l \subseteq se.List

Cursor == IF scan.first # 0 THEN scan.first ELSE scan.at

SearchExact ==
  ~aborted =>
    \A f \in Numbers : Ready(f) =>
      \/ phase = "search" /\ Cursor # 0 /\ f >= Cursor
      \/ phase = "chunks" /\ hasData

(* As long as nothing is given up, what has left the list was announced, or *)
(* will be: whole messages, and the ordered ones of a stream up to nextSSN.  *)
Left(n) == n \in came \ se.List
Told(s) == ToSet(announced[s]) \cup {pdu.first : pdu \in ToSet(se.prePduList[s])}

ArrivedSound ==
  given = {} =>
    /\ \A n \in DOMAIN sent : Ordered(n) => (Left(n) <=> Place(n) > NextPlace(sent[n].sid))
    /\ \A m, n \in DOMAIN sent : m < n /\ Same(m, n) => (Left(m) <=> Left(n))
    /\ \A n \in DOMAIN sent : Left(n) /\ sent[n].begin => n \in Told(sent[n].sid)
    /\ \A s \in Stream : \A k \in 1..NextPlace(s) :
         \E b \in DOMAIN sent : Ordered(b) /\ sent[b].begin /\ sent[b].sid = s /\ Place(b) = k

(* A message that can still be announced is behind all that were.  A FORWARD *)
(* TSN breaks this for chunks that the search has passed by, and mends it by *)
(* dropping them, all but those that it should have dropped and kept.        *)
Open(n) ==
  /\ Ordered(n) /\ sent[n].begin /\ n \notin kept
  /\ n \in se.List \/ (n > point /\ n \notin came)

Relevant(n) ==
  Open(n) /\ (n > upTo \/ (phase = "search" /\ Cursor # 0 /\ n >= Cursor))

(* Message g may be announced after message f. *)
Behind(f, g) == Ordered(f) /\ Ordered(g) => f # g /\ (f < g \/ g \in kept)

OrderSound ==
  /\ \A s \in Stream : \A g \in Told(s), n \in Numbers :
       Ordered(g) /\ Relevant(n) /\ sent[n].sid = s => g < n
  /\ \A n \in Numbers : Open(n) /\ n > upTo => Place(n) <= NextPlace(sent[n].sid)
  /\ \A k \in kept, n \in Numbers : Open(n) => k < n
  /\ \A s \in Stream : Told(s) \cap se.List = {}
  /\ \A s \in Stream : \A i, j \in DOMAIN announced[s] :
       i < j => Behind(announced[s][i], announced[s][j])
  /\ \A s \in Stream : \A i, j \in DOMAIN se.prePduList[s] :
       i < j => Behind(se.prePduList[s][i].first, se.prePduList[s][j].first)
  /\ \A s \in Stream : \A f \in ToSet(announced[s]), pdu \in ToSet(se.prePduList[s]) :
       Behind(f, pdu.first)

Base == Typed /\ PeerSound /\ PeerNumbered /\ ChunksSound /\ ScanSound /\ PDUsSound

StreamInv ==
  /\ Base /\ SearchExact
  /\ Numbered => NextSound /\ ArrivedSound /\ OrderSound

-----------------------------------------------------------------------------
(* Numbers *)

\* A set of natural numbers has a least element, and Min is it.
LEMMA LeastElement ==
  ASSUME NEW T \in SUBSET Nat, T # {}
  PROVE  Min(T) \in T /\ \A y \in T : Min(T) <= y
  <1>1. PICK x \in T : \A y \in T : ~ (<<y, x>> \in OpToRel(<, Nat))
    BY NatLessThanWellFounded, WFMin
  <1>2. ASSUME NEW y \in T PROVE x <= y
    <2>1. x \in Nat /\ y \in Nat
      OBVIOUS
    <2>2. ~ (y < x)
      BY <1>1, <2>1 DEF OpToRel
    <2> QED  BY <2>1, <2>2
  <1> QED  BY <1>2 DEF Min

\* A set of natural numbers with a bound has a greatest element, and Max is it.
LEMMA GreatestElement ==
  ASSUME NEW n \in Nat, NEW T \in SUBSET (0..n), T # {}
  PROVE  Max(T) \in T /\ \A y \in T : Max(T) >= y
  <1> DEFINE U == {n - x : x \in T}
  <1>1. U \in SUBSET Nat /\ U # {}
    <2>1. \A x \in T : n - x \in Nat
      OBVIOUS
    <2> QED  BY <2>1
  <1>2. Min(U) \in U /\ \A y \in U : Min(U) <= y
    BY <1>1, LeastElement
  <1>3. PICK x \in T : Min(U) = n - x
    BY <1>2
  <1>4. \A y \in T : x >= y
    <2> TAKE y \in T
    <2>1. n - x <= n - y
      BY <1>2, <1>3
    <2> QED  BY <2>1
  <1> QED  BY <1>4 DEF Max

\* What a remainder is, up to one modulus below and above.
LEMMA Remainder ==
  ASSUME NEW M \in Nat \ {0}, NEW x \in Int
  PROVE  /\ 0 <= x /\ x < M => x % M = x
         /\ -M <= x /\ x < 0 => x % M = x + M
         /\ M <= x /\ x < 2 * M => x % M = x - M
  <1> DEFINE q == x \div M
             m == x % M
  <1>1. q \in Int /\ m \in 0..(M - 1) /\ x = M * q + m
    OBVIOUS
  <1> HIDE DEF q, m
  <1>2. /\ q >= 1 => M * q >= M
        /\ q >= 2 => M * q >= 2 * M
        /\ q <= -1 => M * q <= -M
        /\ q <= -2 => M * q <= -(2 * M)
    <2>1. q >= 1 => M * q >= M
      BY <1>1
    <2>2. q >= 2 => M * q >= 2 * M
      BY <1>1
    <2>3. q <= -1 => M * q <= -M
      BY <1>1
    <2>4. q <= -2 => M * q <= -(2 * M)
      BY <1>1
    <2> QED  BY <2>1, <2>2, <2>3, <2>4
  <1>3. ASSUME 0 <= x, x < M PROVE m = x
    <2>1. q = 0
      BY <1>1, <1>2, <1>3
    <2> QED  BY <1>1, <2>1
  <1>4. ASSUME -M <= x, x < 0 PROVE m = x + M
    <2>1. q = -1
      BY <1>1, <1>2, <1>4
    <2> QED  BY <1>1, <2>1
  <1>5. ASSUME M <= x, x < 2 * M PROVE m = x - M
    <2>1. q = 1
      BY <1>1, <1>2, <1>5
    <2> QED  BY <1>1, <2>1
  <1> QED  BY <1>3, <1>4, <1>5 DEF m

\* The numbers the proofs are about.
LEMMA Parameters ==
  /\ NumStreams \in Nat \ {0} /\ MaxDataLength \in Nat \ {0} /\ MaxChunks \in Nat \ {0}
  /\ Lengths \subseteq Nat \ {0}
  /\ SSNModulus \in Nat /\ SSNModulus > 3 /\ SSNModulus \div 2 \in Nat
  /\ SSNModulus = 2 * (SSNModulus \div 2) /\ MaxChunks <= SSNModulus \div 2
  /\ FirstTSNs \subseteq TSN /\ FirstSSNs \subseteq SSN
  /\ Modulus \in Nat /\ Modulus > 3 /\ MaxChunks < Modulus
  BY StreamAssumption, ModulusAssumption DEF SSN

-----------------------------------------------------------------------------
(* Serial numbers, seen from the next one of the peer *)

\* The difference of two SSNs.
LEMMA Difference ==
  ASSUME NEW x \in SSN, NEW y \in SSN
  PROVE  (x - y) % SSNModulus = IF x >= y THEN x - y ELSE x - y + SSNModulus
  <1>1. SSNModulus \in Nat \ {0} /\ x - y \in Int
    BY Parameters DEF SSN
  <1>2. /\ x \in Int /\ y \in Int
        /\ -SSNModulus <= x - y /\ x - y < SSNModulus
    BY Parameters DEF SSN
  <1>3. /\ 0 <= x - y => (x - y) % SSNModulus = x - y
        /\ x - y < 0 => (x - y) % SSNModulus = x - y + SSNModulus
    BY <1>1, <1>2, Remainder
  <1> QED  BY <1>2, <1>3

\* The SSN after one.
LEMMA NextOne ==
  ASSUME NEW x \in SSN
  PROVE  /\ S!Plus(x, 1) \in SSN
         /\ S!Plus(x, 1) = IF x = SSNModulus - 1 THEN 0 ELSE x + 1
  <1>1. SSNModulus \in Nat \ {0} /\ x \in Nat /\ x < SSNModulus /\ SSNModulus > 3
    BY Parameters DEF SSN
  <1>2. SSNModulus \in Nat \ {0} /\ x + 1 \in Int
    BY <1>1
  <1>3. /\ 0 <= x + 1 /\ x + 1 < SSNModulus => (x + 1) % SSNModulus = x + 1
        /\ SSNModulus <= x + 1 /\ x + 1 < 2 * SSNModulus
             => (x + 1) % SSNModulus = (x + 1) - SSNModulus
    BY <1>2, Remainder
  <1>4. S!Plus(x, 1) = IF x = SSNModulus - 1 THEN 0 ELSE x + 1
    BY <1>1, <1>3 DEF S!Plus
  <1> QED  BY <1>1, <1>4 DEF SSN

\* Comparisons of SSNs are comparisons of how far they are behind.
LEMMA Comparisons ==
  ASSUME NEW p \in SSN, NEW x \in SSN, NEW y \in SSN,
         (p - x) % SSNModulus <= MaxChunks, (p - y) % SSNModulus <= MaxChunks
  PROVE  LET d == (p - x) % SSNModulus
             e == (p - y) % SSNModulus
         IN  /\ x = y <=> d = e
             /\ d >= 1 => (S!After(y, x) <=> e < d)
             /\ d >= 1 => (S!Before(x, y) <=> e < d)
  <1> DEFINE d == (p - x) % SSNModulus
             e == (p - y) % SSNModulus
             h == SSNModulus \div 2
             xy == (x - y) % SSNModulus
  <1>1. /\ d = IF p >= x THEN p - x ELSE p - x + SSNModulus
        /\ e = IF p >= y THEN p - y ELSE p - y + SSNModulus
        /\ xy = IF x >= y THEN x - y ELSE x - y + SSNModulus
    BY Difference
  <1>2. S!After(y, x) <=> xy >= h
    BY DEF S!After, S!Minus
  <1>3. S!Before(x, y) <=> xy >= h
    BY DEF S!Before, S!Minus
  <1>4. /\ x \in 0..(SSNModulus - 1) /\ y \in 0..(SSNModulus - 1) /\ p \in 0..(SSNModulus - 1)
        /\ SSNModulus \in Nat /\ h \in Nat /\ SSNModulus = 2 * h
        /\ MaxChunks \in Nat /\ MaxChunks <= h
    BY Parameters DEF SSN
  <1>5. d <= MaxChunks /\ e <= MaxChunks
    OBVIOUS
  <1> HIDE DEF d, e, h, xy
  <1>6. x = y <=> d = e
    BY <1>1, <1>4
  <1>7. d >= 1 => (xy >= h <=> e < d)
    BY <1>1, <1>4, <1>5
  <1> QED  BY <1>2, <1>3, <1>6, <1>7 DEF d, e

\* One more message puts every SSN one further back.
LEMMA OneFurther ==
  ASSUME NEW p \in SSN, NEW x \in SSN, ((p - x) % SSNModulus) + 1 < SSNModulus
  PROVE  (S!Plus(p, 1) - x) % SSNModulus = ((p - x) % SSNModulus) + 1
  <1> DEFINE q == S!Plus(p, 1)
             d == (p - x) % SSNModulus
  <1>1. q \in SSN /\ q = IF p = SSNModulus - 1 THEN 0 ELSE p + 1
    BY NextOne
  <1>2. d = IF p >= x THEN p - x ELSE p - x + SSNModulus
    BY Difference
  <1> HIDE DEF q
  <1>3. (q - x) % SSNModulus = IF q >= x THEN q - x ELSE q - x + SSNModulus
    BY <1>1, Difference
  <1>4. p \in 0..(SSNModulus - 1) /\ x \in 0..(SSNModulus - 1) /\ SSNModulus \in Nat
    BY Parameters DEF SSN
  <1>5. d + 1 < SSNModulus
    OBVIOUS
  <1> HIDE DEF d
  <1>6. (IF q >= x THEN q - x ELSE q - x + SSNModulus) = d + 1
    BY <1>1, <1>2, <1>4, <1>5
  <1> QED  BY <1>3, <1>6 DEF q, d

\* And taking the next one puts the next SSN one nearer.
LEMMA OneNearer ==
  ASSUME NEW p \in SSN, NEW x \in SSN, (p - x) % SSNModulus >= 1
  PROVE  (p - S!Plus(x, 1)) % SSNModulus = ((p - x) % SSNModulus) - 1
  <1> DEFINE y == S!Plus(x, 1)
             d == (p - x) % SSNModulus
  <1>1. y \in SSN /\ y = IF x = SSNModulus - 1 THEN 0 ELSE x + 1
    BY NextOne
  <1>2. d = IF p >= x THEN p - x ELSE p - x + SSNModulus
    BY Difference
  <1> HIDE DEF y
  <1>3. (p - y) % SSNModulus = IF p >= y THEN p - y ELSE p - y + SSNModulus
    BY <1>1, Difference
  <1>4. p \in 0..(SSNModulus - 1) /\ x \in 0..(SSNModulus - 1) /\ SSNModulus \in Nat
    BY Parameters DEF SSN
  <1>5. d >= 1
    OBVIOUS
  <1> HIDE DEF d
  <1>6. (IF p >= y THEN p - y ELSE p - y + SSNModulus) = d - 1
    BY <1>1, <1>2, <1>4, <1>5
  <1> QED  BY <1>3, <1>6 DEF y, d

\* What the next SSN leaves behind when it moves on is the one it comes to.
LEMMA NewlyBefore ==
  ASSUME NEW x \in SSN, NEW y \in SSN, ~S!Before(y, x), y # x,
         S!Before(y, S!Plus(x, 1)) \/ y = S!Plus(x, 1)
  PROVE  y = S!Plus(x, 1)
  <1> DEFINE z == S!Plus(x, 1)
             h == SSNModulus \div 2
             yx == (y - x) % SSNModulus
             yz == (y - z) % SSNModulus
  <1>1. z \in SSN /\ z = IF x = SSNModulus - 1 THEN 0 ELSE x + 1
    BY NextOne
  <1>2. yx < h \/ yx >= h
    BY Difference, Parameters DEF SSN
  <1>3. ~(yx >= h) /\ (yz >= h \/ y = z)
    BY DEF S!Before, S!Minus
  <1> HIDE DEF z
  <1>4. /\ yx = IF y >= x THEN y - x ELSE y - x + SSNModulus
        /\ yz = IF y >= z THEN y - z ELSE y - z + SSNModulus
    BY <1>1, Difference
  <1>5. /\ x \in 0..(SSNModulus - 1) /\ y \in 0..(SSNModulus - 1) /\ z \in 0..(SSNModulus - 1)
        /\ SSNModulus \in Nat /\ h \in Nat /\ SSNModulus = 2 * h /\ x # y
    BY <1>1, Parameters DEF SSN
  <1> HIDE DEF h, yx, yz
  <1>6. y = z
    BY <1>1, <1>3, <1>4, <1>5
  <1> QED  BY <1>6 DEF z

-----------------------------------------------------------------------------
(* Types *)

\* A larger set of byte counts admits what a smaller one does.
LEMMA EngineGrows ==
  ASSUME NEW V, NEW W, V \subseteq W, NEW e \in Engine(V)
  PROVE  e \in Engine(W)
  <1>1. Interval(V) \subseteq Interval(W)
    BY DEF Interval
  <1>2. Seq(Interval(V)) \subseteq Seq(Interval(W))
    BY <1>1
  <1>3. [Stream -> Seq(Interval(V))] \subseteq [Stream -> Seq(Interval(W))]
    BY <1>2
  <1> QED  BY <1>3 DEF Engine

\* The elements of a sequence with one more.
LEMMA ToSetAppend ==
  ASSUME NEW T, NEW q \in Seq(T), NEW x \in T
  PROVE  ToSet(Append(q, x)) = ToSet(q) \cup {x}
  <1> DEFINE r == Append(q, x)
  <1>1. /\ Len(q) \in Nat /\ DOMAIN q = 1..Len(q) /\ DOMAIN r = 1..(Len(q) + 1)
        /\ r[Len(q) + 1] = x /\ \A i \in 1..Len(q) : r[i] = q[i]
    OBVIOUS
  <1> HIDE DEF r
  <1>2. ToSet(r) \subseteq ToSet(q) \cup {x}
    <2> SUFFICES ASSUME NEW i \in 1..(Len(q) + 1)
                 PROVE  r[i] \in ToSet(q) \cup {x}
      BY <1>1 DEF ToSet
    <2>1. CASE i = Len(q) + 1
      BY <1>1, <2>1
    <2>2. CASE i # Len(q) + 1
      BY <1>1, <2>2 DEF ToSet
    <2> QED  BY <2>1, <2>2
  <1>3. ToSet(q) \cup {x} \subseteq ToSet(r)
    <2>1. x \in ToSet(r)
      BY <1>1 DEF ToSet
    <2>2. ToSet(q) \subseteq ToSet(r)
      BY <1>1 DEF ToSet
    <2> QED  BY <2>1, <2>2
  <1> QED  BY <1>2, <1>3 DEF r

\* The elements of a sequence are the first one and the others.
LEMMA ToSetTail ==
  ASSUME NEW T, NEW q \in Seq(T), q # <<>>
  PROVE  ToSet(q) = {Head(q)} \cup ToSet(Tail(q))
  <1>1. Len(q) \in Nat \ {0} /\ DOMAIN q = 1..Len(q)
    BY EmptySeq
  <1>2. /\ Head(q) = q[1] /\ Len(Tail(q)) = Len(q) - 1
        /\ \A i \in 1..(Len(q) - 1) : Tail(q)[i] = q[i + 1]
        /\ DOMAIN Tail(q) = 1..(Len(q) - 1)
    BY <1>1
  <1>3. ASSUME NEW i \in 1..Len(q) PROVE q[i] = Head(q) \/ q[i] \in ToSet(Tail(q))
    <2>1. CASE i = 1
      BY <2>1, <1>2
    <2>2. CASE i # 1
      <3>1. i - 1 \in 1..(Len(q) - 1) /\ Tail(q)[i - 1] = q[i]
        BY <2>2, <1>1, <1>2
      <3> QED  BY <3>1, <1>2 DEF ToSet
    <2> QED  BY <2>1, <2>2
  <1>4. ToSet(q) \subseteq {Head(q)} \cup ToSet(Tail(q))
    BY <1>1, <1>3 DEF ToSet
  <1>5. {Head(q)} \cup ToSet(Tail(q)) \subseteq ToSet(q)
    BY <1>1, <1>2 DEF ToSet
  <1> QED  BY <1>4, <1>5

\* The next chunk of a list, if there is one.
LEMMA SuccessorIs ==
  ASSUME NEW list \in SUBSET Numbers, NEW n \in Nat
  PROVE  /\ Successor(list, n) \in {0} \cup list
         /\ Successor(list, n) # 0 => Successor(list, n) > n
         /\ \A m \in list : m > n => Successor(list, n) # 0 /\ Successor(list, n) <= m
  <1> DEFINE T == {m \in list : m > n}
  <1>1. T \in SUBSET Nat /\ list \subseteq Nat /\ \A m \in list : m # 0
    <2>1. \A m \in Numbers : m \in Nat /\ m # 0
      BY Parameters DEF Numbers
    <2> QED  BY <2>1
  <1>2. CASE T = {}
    <2>1. Successor(list, n) = 0
      BY <1>2 DEF Successor
    <2> QED  BY <1>2, <2>1
  <1>3. CASE T # {}
    <2>1. Min(T) \in T /\ \A m \in T : Min(T) <= m
      BY <1>1, <1>3, LeastElement
    <2>2. Successor(list, n) = Min(T)
      BY <1>3 DEF Successor
    <2> QED  BY <1>1, <2>1, <2>2
  <1> QED  BY <1>2, <1>3

\* The point to which nothing is missing.
LEMMA ContiguousIs ==
  ASSUME Len(sent) \in Nat, NEW chunks, NEW from \in 0..Len(sent)
  PROVE  /\ Contiguous(chunks, from) \in from..Len(sent)
         /\ (from + 1)..Contiguous(chunks, from) \subseteq chunks
  <1> DEFINE T == {n \in from..Len(sent) : (from + 1)..n \subseteq chunks}
  <1>1. from \in T
    <2>1. from \in Int /\ \A n \in (from + 1)..from : n \in chunks
      OBVIOUS
    <2> QED  BY <2>1
  <1>2. T \in SUBSET (0..Len(sent)) /\ T # {}
    BY <1>1
  <1>3. Max(T) \in T
    BY <1>2, GreatestElement
  <1> QED  BY <1>3 DEF Contiguous

-----------------------------------------------------------------------------
(* What the peer has sent *)

\* The peer stays as it is while the receiver works.
LEMMA PeerKept ==
  ASSUME peer' = peer
  PROVE  /\ sent' = sent
         /\ \A m, n : Same(m, n)' <=> Same(m, n)
         /\ \A n : Place(n)' = Place(n) /\ (Ordered(n)' <=> Ordered(n))
         /\ \A s, ssn : Back(s, ssn)' = Back(s, ssn)
         /\ PeerSound => PeerSound'
         /\ PeerNumbered => PeerNumbered'
  <1>1. sent' = sent
    BY DEF sent
  <1>2. \A s, ssn : Back(s, ssn)' = Back(s, ssn)
    BY DEF Back
  <1>3. \A m, n : Same(m, n)' <=> Same(m, n)
    BY <1>1 DEF Same
  <1>4. \A n : Place(n)' = Place(n) /\ (Ordered(n)' <=> Ordered(n))
    BY <1>1, <1>2 DEF Place, Ordered
  <1>5. PeerSound => PeerSound'
    BY <1>1, <1>3 DEF PeerSound
  <1>6. PeerNumbered => PeerNumbered'
    BY <1>1, <1>3, <1>4 DEF PeerNumbered
  <1> QED  BY <1>1, <1>2, <1>3, <1>4, <1>5, <1>6

\* No message ends between m and n if none ends on the way to k and on from there.
LEMMA SameSplit ==
  ASSUME NEW m \in Int, NEW k \in Int, NEW n \in Int, m <= k, k <= n
  PROVE  Same(m, n) <=> Same(m, k) /\ Same(k, n)
  <1>1. ASSUME Same(m, n) PROVE Same(m, k) /\ Same(k, n)
    BY <1>1 DEF Same
  <1>2. ASSUME Same(m, k), Same(k, n) PROVE Same(m, n)
    <2> SUFFICES ASSUME NEW i \in m..(n - 1) PROVE ~sent[i].end
      BY DEF Same
    <2>1. i \in m..(k - 1) \/ i \in k..(n - 1)
      OBVIOUS
    <2> QED  BY <1>2, <2>1 DEF Same
  <1> QED  BY <1>1, <1>2

\* The chunks are numbered, and each has the fields of a fragment.
LEMMA SentIs ==
  ASSUME Typed, PeerSound
  PROVE  /\ Len(sent) \in Nat /\ Len(sent) <= MaxChunks /\ DOMAIN sent = 1..Len(sent)
         /\ DOMAIN sent \subseteq Numbers
         /\ \A n \in DOMAIN sent :
              sent[n].sid \in Stream /\ sent[n].ssn \in SSN
              /\ sent[n].unordered \in BOOLEAN /\ sent[n].begin \in BOOLEAN
              /\ sent[n].end \in BOOLEAN /\ sent[n] \in Fragment
         /\ peer.nextSSN \in [Stream -> SSN]
  <1>1. sent \in Seq(Fragment) /\ peer.nextSSN \in [Stream -> SSN]
    BY DEF Typed, sent
  <1>2. Len(sent) \in Nat /\ DOMAIN sent = 1..Len(sent) /\ Len(sent) <= MaxChunks
    BY <1>1 DEF PeerSound
  <1>3. \A n \in DOMAIN sent : sent[n] \in Fragment
    BY <1>1, <1>2
  <1>4. DOMAIN sent \subseteq Numbers
    BY <1>2, Parameters DEF Numbers
  <1> QED  BY <1>1, <1>2, <1>3, <1>4 DEF Fragment

\* How far the chunks are behind the next SSN of the peer.
LEMMA Places ==
  ASSUME Typed, PeerSound, PeerNumbered, NEW n, Ordered(n)
  PROVE  /\ n \in 1..Len(sent) /\ Place(n) \in 1..(Len(sent) - n + 1) /\ Place(n) <= MaxChunks
         /\ n \in Numbers
  <1>1. n \in DOMAIN sent /\ DOMAIN sent = 1..Len(sent) /\ Len(sent) \in Nat
        /\ Len(sent) <= MaxChunks /\ n \in Numbers
    BY SentIs DEF Ordered
  <1>2. Place(n) \in 1..(Len(sent) - n + 1)
    BY <1>1 DEF PeerNumbered
  <1>3. MaxChunks \in Nat
    BY Parameters
  <1> QED  BY <1>1, <1>2, <1>3

\* A chunk before the first one of a message is further back, one behind it
\* is as far back only if it is part of that message.
LEMMA Apart ==
  ASSUME Typed, PeerSound, PeerNumbered,
         NEW f, Ordered(f), sent[f].begin,
         NEW n, Ordered(n), sent[n].sid = sent[f].sid
  PROVE  /\ n < f => Place(n) > Place(f) /\ ~Same(n, f)
         /\ n > f /\ ~Same(f, n) => Place(f) > Place(n)
         /\ Place(n) = Place(f) => n = f \/ (n > f /\ Same(f, n))
  <1>1. n \in DOMAIN sent /\ f \in DOMAIN sent /\ n \in Nat /\ f \in Nat
        /\ Place(n) \in Nat /\ Place(f) \in Nat
    BY Places, SentIs DEF Ordered
  <1>2. n < f => ~Same(n, f)
    BY <1>1 DEF PeerSound
  <1>3. n < f => Place(n) > Place(f)
    BY <1>1, <1>2 DEF PeerNumbered
  <1>4. n > f /\ ~Same(f, n) => Place(f) > Place(n)
    BY <1>1 DEF PeerNumbered
  <1> QED  BY <1>1, <1>2, <1>3, <1>4

\* How far the next SSNs of the receiver are behind those of the peer.
LEMMA NextPlaces ==
  ASSUME Typed, PeerSound, NextSound, NEW s \in Stream
  PROVE  NextPlace(s) \in 0..Len(sent) /\ NextPlace(s) <= MaxChunks
         /\ se.nextSSN[s] \in SSN /\ peer.nextSSN[s] \in SSN
  <1>1. se.nextSSN \in [Stream -> SSN] /\ peer.nextSSN \in [Stream -> SSN]
    BY DEF Typed, Engine
  <1>2. NextPlace(s) <= Len(sent) /\ Len(sent) \in Nat /\ Len(sent) <= MaxChunks
    BY SentIs DEF NextSound
  <1>3. se.nextSSN[s] \in SSN /\ peer.nextSSN[s] \in SSN
    BY <1>1
  <1>4. NextPlace(s) \in Nat
    <2>1. NextPlace(s) = IF peer.nextSSN[s] >= se.nextSSN[s] THEN peer.nextSSN[s] - se.nextSSN[s]
                         ELSE peer.nextSSN[s] - se.nextSSN[s] + SSNModulus
      BY <1>3, Difference DEF NextPlace, Back
    <2> QED  BY <2>1, <1>3, Parameters DEF SSN
  <1> QED  BY <1>2, <1>3, <1>4, Parameters

\* The comparisons of se_searchReadyPdu, in terms of places.
LEMMA DeliverableIs ==
  ASSUME Typed, PeerSound, PeerNumbered, NextSound, NEW n, Ordered(n)
  PROVE  LET s == sent[n].sid
         IN  /\ Deliverable(sent[n]) <=> Place(n) >= NextPlace(s)
             /\ sent[n].ssn = se.nextSSN[s] <=> Place(n) = NextPlace(s)
  <1> DEFINE s == sent[n].sid
             p == peer.nextSSN[s]
             x == sent[n].ssn
             y == se.nextSSN[s]
  <1>1. n \in DOMAIN sent /\ s \in Stream /\ x \in SSN /\ ~sent[n].unordered
    BY SentIs DEF Ordered
  <1>2. Place(n) \in Nat /\ Place(n) >= 1 /\ Place(n) <= MaxChunks
    BY Places
  <1>3. NextPlace(s) \in Nat /\ NextPlace(s) <= MaxChunks /\ y \in SSN /\ p \in SSN
    BY <1>1, NextPlaces
  <1>4. Place(n) = (p - x) % SSNModulus /\ NextPlace(s) = (p - y) % SSNModulus
    BY DEF Place, NextPlace, Back
  <1>5. /\ x = y <=> Place(n) = NextPlace(s)
        /\ S!Before(x, y) <=> NextPlace(s) < Place(n)
    BY <1>1, <1>2, <1>3, <1>4, Comparisons
  <1>6. Deliverable(sent[n]) <=> S!Before(x, y) \/ x = y
    BY <1>1 DEF Deliverable
  <1> QED  BY <1>2, <1>3, <1>5, <1>6

-----------------------------------------------------------------------------
(* UlpSend: a message more *)

\* A message has a segment at least.
LEMMA SegmentsIs ==
  ASSUME NEW length \in Lengths
  PROVE  Segments(length) \in Nat \ {0}
  <1> DEFINE q == (length + MaxDataLength - 1) \div MaxDataLength
             r == (length + MaxDataLength - 1) % MaxDataLength
  <1>1. length \in Nat \ {0} /\ MaxDataLength \in Nat \ {0}
    BY Parameters
  <1>2. /\ q \in Int /\ r \in 0..(MaxDataLength - 1)
        /\ length + MaxDataLength - 1 = MaxDataLength * q + r
    BY <1>1
  <1> HIDE DEF q, r
  <1>3. q <= 0 => MaxDataLength * q <= 0
    BY <1>1, <1>2
  <1>4. q >= 1
    BY <1>1, <1>2, <1>3
  <1> QED  BY <1>2, <1>4 DEF Segments, q

\* What UlpSend does to the peer.
Grown(s, length, unordered) ==
  LET k == Segments(length)
      N == Len(sent)
  IN  /\ k \in Nat \ {0} /\ N \in Nat
      /\ sent' \in Seq(Fragment) /\ Len(sent') = N + k /\ N + k <= MaxChunks
      /\ DOMAIN sent' = 1..(N + k) /\ DOMAIN sent = 1..N
      /\ \A n \in 1..N : sent'[n] = sent[n]
      /\ \A n \in (N + 1)..(N + k) :
           /\ sent'[n].sid = s /\ sent'[n].unordered = unordered
           /\ sent'[n].ssn = IF unordered THEN 0 ELSE peer.nextSSN[s]
           /\ (sent'[n].begin <=> n = N + 1) /\ (sent'[n].end <=> n = N + k)
      /\ peer'.base = peer.base
      /\ peer'.nextSSN = NextSendSSN(s, length, unordered)
      /\ peer'.nextSSN \in [Stream -> SSN]
      /\ peer' \in [base : TSN, nextSSN : [Stream -> SSN], sent : Seq(Fragment)]

\* What se_ulpsend adds.
LEMMA SentGrows ==
  ASSUME Typed, PeerSound,
         NEW s \in Stream, NEW length \in Lengths, NEW unordered \in BOOLEAN,
         UlpSend(s, length, unordered)
  PROVE  Grown(s, length, unordered)
  <1> DEFINE k == Segments(length)
             N == Len(sent)
             more == Fragments(s, length, unordered)
  <1>1. k \in Nat \ {0} /\ N \in Nat /\ N + k <= MaxChunks
    BY SegmentsIs, SentIs DEF UlpSend
  <1>2. sent \in Seq(Fragment) /\ DOMAIN sent = 1..N /\ peer.nextSSN \in [Stream -> SSN]
    BY SentIs DEF Typed, sent
  <1>3. /\ peer' = [peer EXCEPT !.sent = @ \o more,
                                !.nextSSN = NextSendSSN(s, length, unordered)]
        /\ peer \in [base : TSN, nextSSN : [Stream -> SSN], sent : Seq(Fragment)]
    BY DEF UlpSend, Typed
  <1>4. sent' = sent \o more /\ peer'.base = peer.base
        /\ peer'.nextSSN = NextSendSSN(s, length, unordered)
    BY <1>3 DEF sent
  <1>5. \A i \in 1..k :
          /\ more[i].sid = s /\ more[i].unordered = unordered
          /\ more[i].ssn = IF unordered THEN 0 ELSE peer.nextSSN[s]
          /\ (more[i].begin <=> i = 1) /\ (more[i].end <=> i = k)
    BY DEF Fragments
  <1>6. more \in Seq(Fragment) /\ Len(more) = k
    <2>1. \A i \in 1..k : more[i] \in Fragment
      <3> TAKE i \in 1..k
      <3>1. more[i] = [sid |-> s, ssn |-> IF unordered THEN 0 ELSE peer.nextSSN[s],
                       unordered |-> unordered, begin |-> i = 1, end |-> i = k,
                       length |-> IF i = k THEN length - (i - 1) * MaxDataLength
                                  ELSE MaxDataLength]
        BY DEF Fragments
      <3>2. (IF unordered THEN 0 ELSE peer.nextSSN[s]) \in SSN
        BY <1>2, Parameters DEF SSN
      <3>3. (IF i = k THEN length - (i - 1) * MaxDataLength ELSE MaxDataLength) \in Int
        BY <1>1, Parameters
      <3>4. (i = 1) \in BOOLEAN /\ (i = k) \in BOOLEAN
        OBVIOUS
      <3> HIDE DEF k
      <3> QED  BY <3>1, <3>2, <3>3, <3>4 DEF Fragment
    <2>2. DOMAIN more = 1..k
      BY DEF Fragments
    <2>3. \A i \in DOMAIN more : more[i] = more[i]
      OBVIOUS
    <2>4. more = [i \in 1..k |-> more[i]]
      BY DEF Fragments
    <2> HIDE DEF more, k
    <2>5. more \in Seq(Fragment)
      BY <2>1, <2>4, <1>1
    <2> QED  BY <1>1, <2>2, <2>5
  <1> HIDE DEF more, k
  <1>7. /\ sent' \in Seq(Fragment) /\ Len(sent') = N + k
        /\ \A n \in 1..N : sent'[n] = sent[n]
        /\ \A n \in (N + 1)..(N + k) : sent'[n] = more[n - N]
    <2>1. (sent \o more) \in Seq(Fragment) /\ Len(sent \o more) = N + k
      BY <1>1, <1>2, <1>6, ConcatProperties
    <2>2. \A n \in 1..(N + k) : (sent \o more)[n] = IF n <= N THEN sent[n] ELSE more[n - N]
      BY <1>1, <1>2, <1>6, ConcatProperties
    <2>3. \A n \in 1..N : n \in 1..(N + k) /\ n <= N
      BY <1>1
    <2>4. \A n \in (N + 1)..(N + k) : n \in 1..(N + k) /\ ~(n <= N)
      BY <1>1
    <2> QED  BY <1>4, <2>1, <2>2, <2>3, <2>4
  <1>8. \A n \in (N + 1)..(N + k) :
                  /\ sent'[n].sid = s /\ sent'[n].unordered = unordered
                  /\ sent'[n].ssn = IF unordered THEN 0 ELSE peer.nextSSN[s]
                  /\ (sent'[n].begin <=> n = N + 1) /\ (sent'[n].end <=> n = N + k)
    <2> TAKE n \in (N + 1)..(N + k)
    <2>1. n - N \in 1..k /\ sent'[n] = more[n - N] /\ (n - N = 1 <=> n = N + 1)
          /\ (n - N = k <=> n = N + k)
      BY <1>1, <1>7
    <2> QED  BY <1>5, <2>1
  <1>9. peer'.nextSSN \in [Stream -> SSN]
    BY <1>2, <1>4, NextOne DEF NextSendSSN
  <1>10. peer' \in [base : TSN, nextSSN : [Stream -> SSN], sent : Seq(Fragment)]
    BY <1>3, <1>4, <1>7, <1>9 DEF sent
  <1>11. DOMAIN sent' = 1..(N + k)
    BY <1>7, <1>1
  <1> QED  BY <1>1, <1>2, <1>4, <1>7, <1>8, <1>9, <1>10, <1>11 DEF k, Grown

\* The chunks sent before keep their messages, and the new ones are one.
LEMMA SendSame ==
  ASSUME Typed, PeerSound,
         NEW s \in Stream, NEW length \in Lengths, NEW unordered \in BOOLEAN,
         UlpSend(s, length, unordered)
  PROVE  LET k == Segments(length)
             N == Len(sent)
         IN  /\ \A m, n \in 1..N : Same(m, n)' <=> Same(m, n)
             /\ \A m \in 1..N, n \in (N + 1)..(N + k) : ~Same(m, n)'
             /\ \A m, n \in (N + 1)..(N + k) : Same(m, n)'
  <1> DEFINE k == Segments(length)
             N == Len(sent)
  <1>1. /\ k \in Nat \ {0} /\ N \in Nat
        /\ \A n \in 1..N : sent'[n] = sent[n]
        /\ \A n \in (N + 1)..(N + k) : sent'[n].end <=> n = N + k
    <2>1. Grown(s, length, unordered)
      BY SentGrows
    <2> QED  BY <2>1 DEF Grown
  <1>2. N > 0 => sent[N].end
    BY DEF PeerSound
  <1> HIDE DEF k, N
  <1>3. ASSUME NEW m \in 1..N, NEW n \in 1..N PROVE Same(m, n)' <=> Same(m, n)
    <2>1. \A i \in m..(n - 1) : i \in 1..N
      BY <1>1
    <2> QED  BY <1>1, <2>1 DEF Same
  <1>4. ASSUME NEW m \in 1..N, NEW n \in (N + 1)..(N + k) PROVE ~Same(m, n)'
    <2>1. N \in m..(n - 1) /\ N \in 1..N
      BY <1>1
    <2> QED  BY <1>1, <1>2, <2>1 DEF Same
  <1>5. ASSUME NEW m \in (N + 1)..(N + k), NEW n \in (N + 1)..(N + k) PROVE Same(m, n)'
    <2>1. \A i \in m..(n - 1) : i \in (N + 1)..(N + k) /\ i # N + k
      BY <1>1
    <2> QED  BY <1>1, <2>1 DEF Same
  <1> QED  BY <1>3, <1>4, <1>5 DEF k, N

LEMMA SendPeerSound ==
  ASSUME Typed, PeerSound,
         NEW s \in Stream, NEW length \in Lengths, NEW unordered \in BOOLEAN,
         UlpSend(s, length, unordered)
  PROVE  PeerSound'
  <1> DEFINE k == Segments(length)
             N == Len(sent)
  <1>1. /\ k \in Nat \ {0} /\ N \in Nat /\ Len(sent') = N + k /\ N + k <= MaxChunks
        /\ DOMAIN sent' = 1..(N + k) /\ DOMAIN sent = 1..N /\ peer'.base = peer.base
        /\ \A n \in 1..N : sent'[n] = sent[n]
        /\ \A n \in (N + 1)..(N + k) :
             /\ sent'[n].sid = s /\ sent'[n].unordered = unordered
             /\ sent'[n].ssn = IF unordered THEN 0 ELSE peer.nextSSN[s]
             /\ (sent'[n].begin <=> n = N + 1) /\ (sent'[n].end <=> n = N + k)
    <2>1. Grown(s, length, unordered)
      BY SentGrows
    <2> QED  BY <2>1 DEF Grown
  <1>2. /\ \A m, n \in 1..N : Same(m, n)' <=> Same(m, n)
        /\ \A m \in 1..N, n \in (N + 1)..(N + k) : ~Same(m, n)'
    BY SendSame
  <1>3. /\ peer.base \in FirstTSNs
        /\ N > 0 => sent[1].begin /\ sent[N].end
        /\ \A n \in 1..(N - 1) : sent[n].end => sent[n + 1].begin
        /\ \A m, n \in 1..N : m < n /\ Same(m, n) =>
             /\ ~sent[n].begin /\ sent[n].sid = sent[m].sid /\ sent[n].ssn = sent[m].ssn
             /\ sent[n].unordered = sent[m].unordered
    BY SMTT(30), <1>1 DEF PeerSound
  <1> HIDE DEF k, N
  <1>4. sent'[1].begin /\ sent'[N + k].end
    <2>1. N + k \in (N + 1)..(N + k) /\ N + 1 \in (N + 1)..(N + k)
      BY <1>1
    <2>2. CASE N = 0
      BY <1>1, <2>1, <2>2
    <2>3. CASE N # 0
      <3>1. 1 \in 1..N /\ N > 0
        BY <1>1, <2>3
      <3> QED  BY <1>1, <1>3, <2>1, <3>1
    <2> QED  BY <2>2, <2>3
  <1>5. ASSUME NEW n \in 1..(N + k - 1), sent'[n].end PROVE sent'[n + 1].begin
    <2>1. CASE n < N
      <3>1. n \in 1..N /\ n + 1 \in 1..N /\ n \in 1..(N - 1)
        BY <1>1, <2>1
      <3> QED  BY <1>1, <1>3, <1>5, <3>1
    <2>2. CASE n = N
      <3>1. n + 1 \in (N + 1)..(N + k) /\ n + 1 = N + 1
        BY <1>1, <2>2
      <3> QED  BY <1>1, <3>1
    <2>3. CASE n > N
      <3>1. n \in (N + 1)..(N + k) /\ n # N + k
        BY <1>1, <2>3
      <3> QED  BY <1>1, <1>5, <3>1
    <2> QED  BY <1>1, <2>1, <2>2, <2>3
  <1>6. ASSUME NEW m \in 1..(N + k), NEW n \in 1..(N + k), m < n, Same(m, n)'
        PROVE  /\ ~sent'[n].begin /\ sent'[n].sid = sent'[m].sid /\ sent'[n].ssn = sent'[m].ssn
               /\ sent'[n].unordered = sent'[m].unordered
    <2>1. CASE n \in 1..N
      <3>1. m \in 1..N
        BY <1>1, <1>6, <2>1
      <3> QED  BY <1>1, <1>2, <1>3, <1>6, <2>1, <3>1
    <2>2. CASE n \notin 1..N
      <3>1. n \in (N + 1)..(N + k) /\ m \in (N + 1)..(N + k)
        <4>1. n \in (N + 1)..(N + k)
          BY <1>1, <2>2
        <4>2. m \notin 1..N
          BY <1>2, <1>6, <4>1
        <4> QED  BY <1>1, <4>1, <4>2
      <3>2. n # N + 1
        BY <1>1, <1>6, <3>1
      <3> QED  BY <1>1, <3>1, <3>2
    <2> QED  BY <2>1, <2>2
  <1> QED  BY <1>1, <1>3, <1>4, <1>5, <1>6 DEF PeerSound

\* Places count from the next SSN of the peer.
LEMMA SendBack ==
  ASSUME Typed, PeerSound,
         NEW s \in Stream, NEW length \in Lengths, NEW unordered \in BOOLEAN,
         UlpSend(s, length, unordered),
         NEW r \in Stream, NEW x \in SSN
  PROVE  /\ unordered \/ r # s => Back(r, x)' = Back(r, x)
         /\ ~unordered /\ r = s /\ Back(r, x) <= Len(sent) => Back(r, x)' = Back(r, x) + 1
         /\ ~unordered /\ r = s /\ x = peer.nextSSN[s] => Back(r, x)' = 1
  <1>1. /\ peer'.nextSSN = NextSendSSN(s, length, unordered)
        /\ Segments(length) \in Nat \ {0} /\ Len(sent) \in Nat
        /\ Len(sent) + Segments(length) <= MaxChunks
    <2>1. Grown(s, length, unordered)
      BY SentGrows
    <2> QED  BY <2>1 DEF Grown
  <1>2. peer.nextSSN \in [Stream -> SSN]
    BY SentIs
  <1>3. unordered \/ r # s => peer'.nextSSN[r] = peer.nextSSN[r]
    BY <1>1, <1>2 DEF NextSendSSN
  <1>4. ~unordered /\ r = s => peer'.nextSSN[r] = S!Plus(peer.nextSSN[r], 1)
    BY <1>1, <1>2 DEF NextSendSSN
  <1>5. Len(sent) + 1 < SSNModulus
    BY <1>1, Parameters
  <1> DEFINE p == peer.nextSSN[r]
  <1>6. p \in SSN
    BY <1>2
  <1>7. ASSUME NEW y \in SSN, (p - y) % SSNModulus <= Len(sent)
        PROVE  (S!Plus(p, 1) - y) % SSNModulus = ((p - y) % SSNModulus) + 1
    <2>1. (p - y) % SSNModulus \in Nat
      BY <1>6, Difference, Parameters DEF SSN
    <2>2. ((p - y) % SSNModulus) + 1 < SSNModulus
      BY <1>1, <1>5, <1>7, <2>1, Parameters
    <2> QED  BY <1>6, <2>2, OneFurther
  <1>8. (p - p) % SSNModulus = 0
    BY <1>6, Difference, Parameters DEF SSN
  <1>9. ~unordered /\ r = s /\ Back(r, x) <= Len(sent) => Back(r, x)' = Back(r, x) + 1
    BY <1>4, <1>7 DEF Back
  <1>10. ~unordered /\ r = s /\ x = peer.nextSSN[s] => Back(r, x)' = 1
    <2> SUFFICES ASSUME ~unordered, r = s, x = p PROVE Back(r, x)' = 1
      OBVIOUS
    <2>1. Back(r, x) = 0 /\ 0 <= Len(sent)
      BY <1>1, <1>8 DEF Back
    <2> QED  BY <1>9, <2>1
  <1> QED  BY <1>3, <1>9, <1>10 DEF Back

\* And to the places of its chunks.
Moved(s, length, unordered) ==
  LET k == Segments(length)
      N == Len(sent)
  IN  /\ \A n \in 1..N :
           /\ Ordered(n)' <=> Ordered(n)
           /\ Ordered(n) => Place(n)' = IF sent[n].sid = s /\ ~unordered THEN Place(n) + 1
                                        ELSE Place(n)
      /\ \A n \in (N + 1)..(N + k) :
           /\ Ordered(n)' <=> ~unordered
           /\ Ordered(n)' => Place(n)' = 1

LEMMA SendPlaces ==
  ASSUME Typed, PeerSound, PeerNumbered,
         NEW s \in Stream, NEW length \in Lengths, NEW unordered \in BOOLEAN,
         UlpSend(s, length, unordered)
  PROVE  Moved(s, length, unordered)
  <1> DEFINE k == Segments(length)
             N == Len(sent)
  <1>1. /\ k \in Nat \ {0} /\ N \in Nat
        /\ DOMAIN sent' = 1..(N + k) /\ DOMAIN sent = 1..N
        /\ \A n \in 1..N : sent'[n] = sent[n]
        /\ \A n \in (N + 1)..(N + k) :
             /\ sent'[n].sid = s /\ sent'[n].unordered = unordered
             /\ sent'[n].ssn = IF unordered THEN 0 ELSE peer.nextSSN[s]
    <2>1. Grown(s, length, unordered)
      BY SentGrows
    <2> QED  BY <2>1 DEF Grown
  <1>2. \A r \in Stream, x \in SSN :
           /\ unordered \/ r # s
                => (peer'.nextSSN[r] - x) % SSNModulus = (peer.nextSSN[r] - x) % SSNModulus
           /\ ~unordered /\ r = s /\ (peer.nextSSN[r] - x) % SSNModulus <= N
                => (peer'.nextSSN[r] - x) % SSNModulus = ((peer.nextSSN[r] - x) % SSNModulus) + 1
           /\ ~unordered /\ r = s /\ x = peer.nextSSN[s]
                => (peer'.nextSSN[r] - x) % SSNModulus = 1
    BY SendBack DEF Back
  <1>3. \A n \in 1..N : sent[n].sid \in Stream /\ sent[n].ssn \in SSN
    BY <1>1, SentIs
  <1>4. \A n \in 1..N : Ordered(n) => Place(n) \in 1..(N - n + 1)
    BY <1>1 DEF PeerNumbered
  <1>5. peer.nextSSN[s] \in SSN
    BY SentIs
  <1> HIDE DEF k, N
  <1>6. ASSUME NEW n \in 1..N
        PROVE  /\ Ordered(n)' <=> Ordered(n)
               /\ Ordered(n) => Place(n)' = IF sent[n].sid = s /\ ~unordered THEN Place(n) + 1
                                            ELSE Place(n)
    <2>1. n \in 1..(N + k)
      BY <1>1
    <2>2. Ordered(n)' <=> Ordered(n)
      BY <1>1, <2>1 DEF Ordered
    <2>3. ASSUME Ordered(n)
          PROVE  Place(n)' = IF sent[n].sid = s /\ ~unordered THEN Place(n) + 1 ELSE Place(n)
      <3>1. /\ Place(n)' = (peer'.nextSSN[sent[n].sid] - sent[n].ssn) % SSNModulus
            /\ Place(n) = (peer.nextSSN[sent[n].sid] - sent[n].ssn) % SSNModulus
        BY <1>1 DEF Place, Back
      <3>2. Place(n) <= N
        BY <1>1, <1>4, <2>3
      <3> QED  BY <1>2, <1>3, <3>1, <3>2
    <2> QED  BY <2>2, <2>3
  <1>7. ASSUME NEW n \in (N + 1)..(N + k)
        PROVE  /\ Ordered(n)' <=> ~unordered
               /\ Ordered(n)' => Place(n)' = 1
    <2>1. n \in 1..(N + k)
      BY <1>1
    <2>2. Ordered(n)' <=> ~unordered
      BY <1>1, <2>1 DEF Ordered
    <2>3. ASSUME ~unordered PROVE Place(n)' = 1
      <3>1. Place(n)' = (peer'.nextSSN[s] - peer.nextSSN[s]) % SSNModulus
        BY <1>1, <2>3 DEF Place, Back
      <3> QED  BY <1>2, <1>5, <2>3, <3>1
    <2> QED  BY <2>2, <2>3
  <1> QED  BY <1>6, <1>7 DEF k, N, Moved

LEMMA SendPeerNumbered ==
  ASSUME Typed, PeerSound, PeerNumbered,
         NEW s \in Stream, NEW length \in Lengths, NEW unordered \in BOOLEAN,
         UlpSend(s, length, unordered)
  PROVE  PeerNumbered'
  <1> DEFINE k == Segments(length)
             N == Len(sent)
  <1>1. /\ k \in Nat \ {0} /\ N \in Nat /\ Len(sent') = N + k
        /\ DOMAIN sent' = 1..(N + k) /\ DOMAIN sent = 1..N
        /\ \A n \in 1..N : sent'[n] = sent[n]
        /\ \A n \in (N + 1)..(N + k) : sent'[n].sid = s
    <2>1. Grown(s, length, unordered)
      BY SentGrows
    <2> QED  BY <2>1 DEF Grown
  <1>2. /\ \A n \in 1..N :
             /\ Ordered(n)' <=> Ordered(n)
             /\ Ordered(n) => Place(n)' = IF sent[n].sid = s /\ ~unordered THEN Place(n) + 1
                                          ELSE Place(n)
        /\ \A n \in (N + 1)..(N + k) :
             /\ Ordered(n)' <=> ~unordered
             /\ Ordered(n)' => Place(n)' = 1
    <2>1. Moved(s, length, unordered)
      BY SendPlaces
    <2> QED  BY <2>1 DEF Moved
  <1>3. /\ \A m, n \in 1..N : Same(m, n)' <=> Same(m, n)
        /\ \A m, n \in (N + 1)..(N + k) : Same(m, n)'
    BY SendSame
  <1>4. /\ \A n \in 1..N : Ordered(n) => Place(n) \in 1..(N - n + 1)
        /\ \A m, n \in 1..N :
             m < n /\ Ordered(m) /\ Ordered(n) /\ sent[m].sid = sent[n].sid /\ ~Same(m, n)
               => Place(m) > Place(n)
    BY <1>1 DEF PeerNumbered
  <1> HIDE DEF k, N
  <1>5. ASSUME NEW n \in 1..(N + k), Ordered(n)' PROVE Place(n)' \in 1..(N + k - n + 1)
    <2>1. CASE n \in 1..N
      BY <1>1, <1>2, <1>4, <1>5, <2>1
    <2>2. CASE n \notin 1..N
      BY <1>1, <1>2, <1>5, <2>2
    <2> QED  BY <2>1, <2>2
  <1>6. ASSUME NEW m \in 1..(N + k), NEW n \in 1..(N + k), m < n, Ordered(m)', Ordered(n)',
               sent'[m].sid = sent'[n].sid, ~Same(m, n)'
        PROVE  Place(m)' > Place(n)'
    <2>1. CASE n \in 1..N
      <3>1. m \in 1..N
        BY <1>1, <1>6, <2>1
      <3>2. Place(m) > Place(n) /\ Place(m) \in Int /\ Place(n) \in Int /\ Ordered(m) /\ Ordered(n)
        BY <1>1, <1>2, <1>3, <1>4, <1>6, <2>1, <3>1
      <3> QED  BY <1>1, <1>2, <1>6, <2>1, <3>1, <3>2
    <2>2. CASE n \notin 1..N
      <3>1. n \in (N + 1)..(N + k)
        BY <1>1, <2>2
      <3>2. m \in 1..N
        <4>1. m \notin (N + 1)..(N + k)
          BY <1>3, <1>6, <3>1
        <4> QED  BY <1>1, <4>1
      <3>3. sent[m].sid = s /\ ~unordered /\ Ordered(m)
        BY <1>1, <1>2, <1>6, <3>1, <3>2
      <3>4. Place(m) >= 1 /\ Place(m) \in Int
        BY <1>1, <1>4, <3>2, <3>3
      <3>5. Place(m)' = Place(m) + 1 /\ Place(n)' = 1
        BY <1>2, <1>6, <3>1, <3>2, <3>3
      <3> QED  BY <3>4, <3>5
    <2> QED  BY <2>1, <2>2
  <1>7. /\ \A n \in DOMAIN sent' : Ordered(n)' => Place(n)' \in 1..(Len(sent') - n + 1)
        /\ \A m, n \in DOMAIN sent' :
             m < n /\ Ordered(m)' /\ Ordered(n)' /\ sent'[m].sid = sent'[n].sid /\ ~Same(m, n)'
               => Place(m)' > Place(n)'
    <2>1. DOMAIN sent' = 1..(N + k) /\ Len(sent') = N + k /\ N + k \in Int
      BY <1>1
    <2>2. ASSUME NEW n \in 1..(N + k), Ordered(n)' PROVE Place(n)' \in 1..(Len(sent') - n + 1)
      <3>1. Place(n)' \in 1..(N + k - n + 1)
        BY <1>5, <2>2
      <3>2. N \in Int /\ k \in Int /\ n \in Int /\ Len(sent') = N + k
        BY <1>1, <2>2
      <3>3. N + k - n + 1 = Len(sent') - n + 1
        BY <3>2
      <3> QED  BY <3>1, <3>3
    <2>3. \A m, n \in 1..(N + k) :
             m < n /\ Ordered(m)' /\ Ordered(n)' /\ sent'[m].sid = sent'[n].sid /\ ~Same(m, n)'
               => Place(m)' > Place(n)'
      BY <1>6
    <2> QED  BY <2>1, <2>2, <2>3, Zenon
  <1> QED  BY <1>7 DEF PeerNumbered

LEMMA SendNextPlaces ==
  ASSUME Base, NextSound,
         NEW s \in Stream, NEW length \in Lengths, NEW unordered \in BOOLEAN,
         UlpSend(s, length, unordered), NEW r \in Stream
  PROVE  NextPlace(r)' = IF r = s /\ ~unordered THEN NextPlace(r) + 1 ELSE NextPlace(r)
  <1>1. Typed /\ PeerSound /\ se' = se
    BY DEF Base, UlpSend, receiver
  <1>2. se.nextSSN[r] \in SSN /\ NextPlace(r) \in 0..Len(sent) /\ Len(sent) \in Nat
    BY <1>1, NextPlaces, SentIs
  <1>3. \A x \in SSN :
           /\ unordered \/ r # s
                => (peer'.nextSSN[r] - x) % SSNModulus = (peer.nextSSN[r] - x) % SSNModulus
           /\ ~unordered /\ r = s /\ (peer.nextSSN[r] - x) % SSNModulus <= Len(sent)
                => (peer'.nextSSN[r] - x) % SSNModulus = ((peer.nextSSN[r] - x) % SSNModulus) + 1
    BY <1>1, SendBack DEF Back
  <1>4. /\ NextPlace(r)' = (peer'.nextSSN[r] - se.nextSSN[r]) % SSNModulus
        /\ NextPlace(r) = (peer.nextSSN[r] - se.nextSSN[r]) % SSNModulus
    BY <1>1 DEF NextPlace, Back
  <1> QED  BY <1>2, <1>3, <1>4

LEMMA UlpSendBase ==
  ASSUME Base,
         NEW s \in Stream, NEW length \in Lengths, NEW unordered \in BOOLEAN,
         UlpSend(s, length, unordered)
  PROVE  Base'
  <1> USE DEF Base
  <1>1. UNCHANGED receiver /\ came = {} /\ point = 0 /\ phase = "idle"
    BY DEF UlpSend
  <1>2. UNCHANGED <<came, point, se, scan, phase, hasData, upTo, aborted, given, kept, announced>>
    BY <1>1 DEF receiver
  <1>3. Typed'
    <2>1. peer' \in [base : TSN, nextSSN : [Stream -> SSN], sent : Seq(Fragment)]
      <3>1. Grown(s, length, unordered)
        BY SentGrows
      <3> QED  BY <3>1 DEF Grown
    <2> QED  BY <1>2, <2>1 DEF Typed
  <1>4. PeerSound' /\ PeerNumbered'
    BY SendPeerSound, SendPeerNumbered
  <1>5. ChunksSound'
    <2>1. Len(sent') \in Nat
      <3>1. Grown(s, length, unordered)
        BY SentGrows
      <3> QED  BY <3>1 DEF Grown
    <2> QED  BY <1>1, <1>2, <2>1 DEF ChunksSound
  <1>6. ScanSound'
    BY <1>1, <1>2 DEF ScanSound
  <1>7. PDUsSound'
    <2>1. \A r \in Stream : PDUs(r) = {} /\ ToSet(announced[r]) = {}
      BY <1>1 DEF PDUsSound, IsMessage
    <2>2. \A r \in Stream : PDUs(r)' = {} /\ ToSet(announced[r])' = {}
      BY <1>2, <2>1 DEF PDUs
    <2> QED  BY <2>2 DEF PDUsSound
  <1> QED  BY <1>3, <1>4, <1>5, <1>6, <1>7

LEMMA UlpSendSearch ==
  ASSUME Base,
         NEW s \in Stream, NEW length \in Lengths, NEW unordered \in BOOLEAN,
         UlpSend(s, length, unordered)
  PROVE  SearchExact'
  <1>1. came = {} /\ se' = se
    BY DEF UlpSend, receiver
  <1>2. se.List = {}
    BY <1>1 DEF Base, ChunksSound
  <1> QED  BY <1>1, <1>2 DEF SearchExact, Ready

LEMMA UlpSendNumbered ==
  ASSUME Base, NextSound, ArrivedSound,
         NEW s \in Stream, NEW length \in Lengths, NEW unordered \in BOOLEAN,
         UlpSend(s, length, unordered)
  PROVE  NextSound' /\ ArrivedSound'
  <1> DEFINE k == Segments(length)
             N == Len(sent)
  <1> USE DEF Base
  <1>1. /\ came = {} /\ point = 0 /\ phase = "idle"
        /\ UNCHANGED <<came, point, se, scan, phase, hasData, upTo, aborted, given, kept, announced>>
    BY DEF UlpSend, receiver
  <1>2. /\ k \in Nat \ {0} /\ N \in Nat /\ Len(sent') = N + k
        /\ DOMAIN sent' = 1..(N + k) /\ DOMAIN sent = 1..N
        /\ \A n \in 1..N : sent'[n] = sent[n]
        /\ \A n \in (N + 1)..(N + k) :
             sent'[n].sid = s /\ (sent'[n].begin <=> n = N + 1)
    <2>1. Grown(s, length, unordered)
      BY SentGrows
    <2> QED  BY <2>1 DEF Grown
  <1>3. se.List = {} /\ se.nextSSN \in [Stream -> SSN]
    BY <1>1 DEF ChunksSound, Typed, Engine
  <1>4. \A r \in Stream : NextPlace(r) \in 0..N
    BY NextPlaces
  <1>5. \A r \in Stream :
          NextPlace(r)' = IF r = s /\ ~unordered THEN NextPlace(r) + 1 ELSE NextPlace(r)
    BY SendNextPlaces
  <1>6. /\ \A n \in 1..N :
             /\ Ordered(n)' <=> Ordered(n)
             /\ Ordered(n) => Place(n)' = IF sent[n].sid = s /\ ~unordered THEN Place(n) + 1
                                          ELSE Place(n)
        /\ \A n \in (N + 1)..(N + k) :
             /\ Ordered(n)' <=> ~unordered
             /\ Ordered(n)' => Place(n)' = 1
    <2>1. Moved(s, length, unordered)
      BY SendPlaces
    <2> QED  BY <2>1 DEF Moved
  <1>7. \A n \in 1..N : Ordered(n) => Place(n) \in Int
    BY <1>2 DEF PeerNumbered
  <1>8. \A n \in 1..N : sent[n].sid \in Stream
    BY <1>2, SentIs
  <1>9. \A n : ~Left(n) /\ ~Left(n)'
    BY <1>1 DEF Left
  <1>10. given = {} =>
           /\ \A n \in 1..N : Ordered(n) => ~(Place(n) > NextPlace(sent[n].sid))
           /\ \A r \in Stream : \A i \in 1..NextPlace(r) :
                \E b \in 1..N : Ordered(b) /\ sent[b].begin /\ sent[b].sid = r /\ Place(b) = i
    BY SMTT(30), <1>2, <1>9 DEF ArrivedSound
  <1> HIDE DEF k, N
  <1>11. NextSound'
    <2>1. \A r \in Stream : NextPlace(r)' <= N + k
      BY <1>2, <1>4, <1>5
    <2> QED  BY <1>2, <2>1 DEF NextSound
  <1>13. ASSUME given = {}, NEW n \in 1..(N + k), Ordered(n)'
         PROVE  ~(Place(n)' > NextPlace(sent[n].sid)')
    <2>1. CASE n \in 1..N
      <3>2. Ordered(n) /\ Place(n) \in Int /\ sent[n].sid \in Stream /\ sent'[n] = sent[n]
            /\ ~(Place(n) > NextPlace(sent[n].sid))
        BY <1>2, <1>6, <1>7, <1>8, <1>10, <1>13, <2>1
      <3>3. Place(n)' = IF sent[n].sid = s /\ ~unordered THEN Place(n) + 1 ELSE Place(n)
        BY <1>6, <2>1, <3>2
      <3>4. \A r \in Stream : r = sent[n].sid =>
              ~(Place(n)' > IF r = s /\ ~unordered THEN NextPlace(r) + 1 ELSE NextPlace(r))
        BY <1>2, <1>4, <3>2, <3>3
      <3>5. \A r \in Stream : r = sent[n].sid => ~(Place(n)' > NextPlace(r)')
        BY <1>5, <3>4
      <3>6. sent'[n].sid \in Stream /\ sent'[n].sid = sent[n].sid
        BY <3>2
      <3> QED  BY <3>5, <3>6 DEF NextPlace
    <2>2. CASE n \notin 1..N
      <3>1. Place(n)' = 1 /\ sent'[n].sid = s /\ ~unordered
        BY <1>2, <1>6, <1>13, <2>2
      <3>2. NextPlace(s)' = NextPlace(s) + 1 /\ NextPlace(s) \in Nat
        BY <1>2, <1>4, <1>5, <3>1
      <3> QED  BY <3>1, <3>2 DEF NextPlace
    <2> QED  BY <2>1, <2>2
  <1>14. ASSUME given = {}, NEW r \in Stream, NEW i \in 1..NextPlace(r)'
         PROVE  \E b \in 1..(N + k) : Ordered(b)' /\ sent'[b].begin /\ sent'[b].sid = r
                                      /\ Place(b)' = i
    <2>1. NextPlace(r) \in Nat
      BY <1>2, <1>4
    <2>2. CASE r = s /\ ~unordered /\ i = 1
      <3>1. N + 1 \in (N + 1)..(N + k) /\ N + 1 \in 1..(N + k)
        BY <1>2
      <3> QED  BY <1>2, <1>6, <2>2, <3>1
    <2>3. CASE r = s /\ ~unordered /\ i # 1
      <3>1. i - 1 \in 1..NextPlace(r)
        BY <1>5, <2>1, <2>3
      <3>2. PICK b \in 1..N : Ordered(b) /\ sent[b].begin /\ sent[b].sid = r /\ Place(b) = i - 1
        BY <1>10, <1>14, <3>1
      <3>3. Place(b)' = i /\ Ordered(b)' /\ sent'[b] = sent[b] /\ b \in 1..(N + k)
        BY <1>2, <1>6, <2>3, <3>2
      <3> QED  BY <3>2, <3>3
    <2>4. CASE ~(r = s /\ ~unordered)
      <3>1. i \in 1..NextPlace(r)
        BY <1>5, <2>4
      <3>2. PICK b \in 1..N : Ordered(b) /\ sent[b].begin /\ sent[b].sid = r /\ Place(b) = i
        BY <1>10, <1>14, <3>1
      <3>3. Place(b)' = i /\ Ordered(b)' /\ sent'[b] = sent[b] /\ b \in 1..(N + k)
        BY <1>2, <1>6, <2>4, <3>2
      <3> QED  BY <3>2, <3>3
    <2> QED  BY <2>2, <2>3, <2>4
  <1>15. ArrivedSound'
    BY <1>1, <1>2, <1>9, <1>13, <1>14 DEF ArrivedSound
  <1> QED  BY <1>11, <1>15

LEMMA UlpSendOrder ==
  ASSUME Base, NextSound, OrderSound,
         NEW s \in Stream, NEW length \in Lengths, NEW unordered \in BOOLEAN,
         UlpSend(s, length, unordered)
  PROVE  OrderSound'
  <1> DEFINE k == Segments(length)
             N == Len(sent)
  <1> USE DEF Base
  <1>1. /\ came = {} /\ point = 0 /\ phase = "idle"
        /\ UNCHANGED <<came, point, se, scan, phase, hasData, upTo, aborted, given, kept, announced>>
    BY DEF UlpSend, receiver
  <1>2. /\ k \in Nat \ {0} /\ N \in Nat
        /\ DOMAIN sent' = 1..(N + k) /\ DOMAIN sent = 1..N
        /\ \A n \in 1..N : sent'[n] = sent[n]
        /\ \A n \in (N + 1)..(N + k) :
             sent'[n].sid = s /\ (sent'[n].begin <=> n = N + 1)
    <2>1. Grown(s, length, unordered)
      BY SentGrows
    <2> QED  BY <2>1 DEF Grown
  <1>3. se.List = {} /\ se.nextSSN \in [Stream -> SSN] /\ upTo = 0
    BY <1>1 DEF ChunksSound, Typed, Engine
  <1>4. \A r \in Stream : NextPlace(r) \in 0..N
    BY NextPlaces
  <1>5. \A r \in Stream :
          NextPlace(r)' = IF r = s /\ ~unordered THEN NextPlace(r) + 1 ELSE NextPlace(r)
    BY SendNextPlaces
  <1>6. /\ \A n \in 1..N :
             /\ Ordered(n)' <=> Ordered(n)
             /\ Ordered(n) => Place(n)' = IF sent[n].sid = s /\ ~unordered THEN Place(n) + 1
                                          ELSE Place(n)
        /\ \A n \in (N + 1)..(N + k) :
             /\ Ordered(n)' <=> ~unordered
             /\ Ordered(n)' => Place(n)' = 1
    <2>1. Moved(s, length, unordered)
      BY SendPlaces
    <2> QED  BY <2>1 DEF Moved
  <1>7. \A n \in 1..N : Ordered(n) => Place(n) \in Int
    BY <1>2 DEF PeerNumbered
  <1>8. \A n \in 1..N : sent[n].sid \in Stream
    BY <1>2, SentIs
  <1>9. \A r \in Stream : PDUs(r) = {} /\ ToSet(announced[r]) = {}
    BY <1>1 DEF PDUsSound, IsMessage
  <1>10. \A r \in Stream :
           /\ Told(r)' = {} /\ ToSet(announced[r])' = {}
           /\ DOMAIN announced'[r] = {} /\ DOMAIN se'.prePduList[r] = {}
    <2> TAKE r \in Stream
    <2>1. ToSet(announced[r]) = {} /\ ToSet(se.prePduList[r]) = {}
      BY <1>9 DEF PDUs
    <2>2. Told(r)' = {} /\ ToSet(announced[r])' = {}
      BY <1>1, <2>1 DEF Told
    <2>3. DOMAIN announced[r] = {} /\ DOMAIN se.prePduList[r] = {}
      BY <2>1 DEF ToSet
    <2> QED  BY <1>1, <2>2, <2>3
  <1> HIDE DEF k, N
  <1>11. ASSUME NEW n \in Numbers, Open(n)', n > upTo'
         PROVE  Place(n)' <= NextPlace(sent[n].sid)'
    <2>1. n \in 1..(N + k) /\ Ordered(n)' /\ sent'[n].begin /\ n > 0 /\ n \notin kept
      BY <1>1, <1>2, <1>3, <1>11 DEF Open, Ordered
    <2>2. CASE n \in 1..N
      <3>1. Ordered(n) /\ Place(n) \in Int /\ sent[n].sid \in Stream /\ sent'[n] = sent[n]
        BY <1>2, <1>6, <1>7, <1>8, <2>1, <2>2
      <3>2. Open(n) /\ n > upTo
        BY <1>1, <1>3, <2>1, <3>1 DEF Open
      <3>3. Place(n) <= NextPlace(sent[n].sid)
        BY <1>11, <3>2 DEF OrderSound
      <3>4. Place(n)' = IF sent[n].sid = s /\ ~unordered THEN Place(n) + 1 ELSE Place(n)
        BY <1>6, <2>2, <3>1
      <3>5. \A r \in Stream : r = sent[n].sid =>
              Place(n)' <= IF r = s /\ ~unordered THEN NextPlace(r) + 1 ELSE NextPlace(r)
        BY <1>2, <1>4, <3>1, <3>3, <3>4
      <3>6. \A r \in Stream : r = sent[n].sid => Place(n)' <= NextPlace(r)'
        BY <1>5, <3>5
      <3>7. sent'[n].sid \in Stream /\ sent'[n].sid = sent[n].sid
        BY <3>1
      <3> QED  BY <3>6, <3>7 DEF NextPlace
    <2>3. CASE n \notin 1..N
      <3>1. Place(n)' = 1 /\ sent'[n].sid = s /\ ~unordered
        BY <1>2, <1>6, <2>1, <2>3
      <3>2. NextPlace(s)' = NextPlace(s) + 1 /\ NextPlace(s) \in Nat
        BY <1>2, <1>4, <1>5, <3>1
      <3> QED  BY <3>1, <3>2 DEF NextPlace
    <2> QED  BY <2>2, <2>3
  <1>12. kept' = {}
    BY <1>1 DEF ChunksSound
  <1>13. \A r \in Stream : ToSet(se'.prePduList[r]) = {}
    BY <1>10 DEF ToSet
  <1> QED  BY <1>10, <1>11, <1>12, <1>13 DEF OrderSound

-----------------------------------------------------------------------------
(* RecvDataChunk *)

\* What was announced or will be has come.
LEMMA ToldCame ==
  ASSUME Base, NEW s \in Stream
  PROVE  Told(s) \subseteq came
  <1>1. PDUsSound
    BY DEF Base
  <1>2. \A pdu \in ToSet(se.prePduList[s]) : pdu.first \in came
    BY <1>1 DEF PDUsSound, PDUs, IsMessage
  <1>3. \A f \in ToSet(announced[s]) : f \in came
    BY <1>1 DEF PDUsSound
  <1> QED  BY <1>2, <1>3 DEF Told

\* What is the same as long as the next SSNs are.
LEMMA EngineKept ==
  ASSUME peer' = peer, se'.nextSSN = se.nextSSN
  PROVE  /\ \A s : NextPlace(s)' = NextPlace(s)
         /\ \A n : Deliverable(sent[n])' <=> Deliverable(sent[n])
         /\ NextSound => NextSound'
  <1>1. sent' = sent
    BY DEF sent
  <1>2. \A s : NextPlace(s)' = NextPlace(s)
    BY DEF NextPlace, Back
  <1>3. \A n : Deliverable(sent[n])' <=> Deliverable(sent[n])
    BY <1>1 DEF Deliverable
  <1>4. NextSound => NextSound'
    BY <1>1, <1>2 DEF NextSound
  <1> QED  BY <1>2, <1>3, <1>4

LEMMA RecvDataChunkIs ==
  ASSUME Base, NEW n \in Numbers, RecvDataChunk(n)
  PROVE  /\ peer' = peer /\ sent' = sent /\ n \in 1..Len(sent) /\ n > point /\ n \notin came
         /\ came' = came \cup {n} /\ se'.List = se.List \cup {n}
         /\ se' = [se EXCEPT !.List = @ \cup {n}, !.queuedBytes = @ + sent[n].length]
         /\ se'.nextSSN = se.nextSSN
         /\ se'.prePduList = se.prePduList /\ se'.pduList = se.pduList
         /\ UNCHANGED <<scan, upTo, aborted, given, kept, announced>>
         /\ phase' = "chunks" /\ hasData' = TRUE
         /\ phase \in {"chunks", "idle"} /\ upTo = 0
         /\ point' \in point..Len(sent)
  <1> USE DEF Base
  <1>1. /\ peer' = peer /\ n \in DOMAIN sent /\ n > point /\ n \notin came
        /\ came' = came \cup {n} /\ phase \in {"chunks", "idle"}
        /\ phase' = "chunks" /\ hasData' = TRUE
        /\ UNCHANGED <<scan, upTo, aborted, given, kept, announced>>
        /\ point' = Contiguous(came', point)
        /\ se' = [se EXCEPT !.List = @ \cup {n}, !.queuedBytes = @ + sent[n].length]
    BY DEF RecvDataChunk
  <1>2. se'.List = se.List \cup {n} /\ se'.nextSSN = se.nextSSN
        /\ se'.prePduList = se.prePduList /\ se'.pduList = se.pduList
    BY <1>1 DEF Typed, Engine
  <1>3. DOMAIN sent = 1..Len(sent) /\ Len(sent) \in Nat /\ sent' = sent
    BY <1>1, SentIs DEF sent
  <1>4. upTo = 0 /\ point \in 0..Len(sent)
    BY <1>1 DEF ChunksSound
  <1>5. Contiguous(came', point) \in point..Len(sent)
    <2>1. \A chunks : Contiguous(chunks, point) \in point..Len(sent)
      BY <1>3, <1>4, ContiguousIs
    <2> QED  BY <2>1
  <1> QED  BY <1>1, <1>2, <1>3, <1>4, <1>5

LEMMA RecvDataChunkBase ==
  ASSUME Base, NEW n \in Numbers, RecvDataChunk(n)
  PROVE  Base'
  <1> USE DEF Base
  <1>1. /\ peer' = peer /\ sent' = sent /\ n \in 1..Len(sent) /\ n > point /\ n \notin came
        /\ came' = came \cup {n} /\ se'.List = se.List \cup {n}
        /\ se' = [se EXCEPT !.List = @ \cup {n}, !.queuedBytes = @ + sent[n].length]
        /\ se'.prePduList = se.prePduList /\ se'.pduList = se.pduList
        /\ UNCHANGED <<scan, upTo, aborted, given, kept, announced>>
        /\ phase' = "chunks" /\ hasData' = TRUE
        /\ phase \in {"chunks", "idle"} /\ upTo = 0
        /\ point' \in point..Len(sent)
    BY RecvDataChunkIs
  <1>2. DOMAIN sent = 1..Len(sent) /\ Len(sent) \in Nat /\ DOMAIN sent \subseteq Numbers
    BY SentIs
  <1>3. point \in 0..Len(sent) /\ \A m \in 1..Len(sent) : m \in Numbers
    BY <1>2 DEF ChunksSound
  <1>4. Typed'
    <2>1. PICK V : se \in Engine(V)
      BY DEF Typed
    <2> DEFINE W == V \cup {se.queuedBytes + sent[n].length}
    <2>2. se \in Engine(W)
      BY <2>1, EngineGrows
    <2>3. se' \in Engine(W)
      BY <1>1, <2>2 DEF Engine
    <2>4. point' \in {0} \cup Numbers
      BY <1>1, <1>2, <1>3
    <2>5. peer' \in [base : TSN, nextSSN : [Stream -> SSN], sent : Seq(Fragment)]
      BY <1>1 DEF Typed
    <2>6. came' \in SUBSET Numbers
      BY <1>1 DEF Typed
    <2> HIDE DEF W
    <2> QED  BY <1>1, <2>3, <2>4, <2>5, <2>6 DEF Typed
  <1>5. PeerSound' /\ PeerNumbered'
    BY <1>1, PeerKept
  <1>6. ChunksSound'
    <2>1. point' \in 0..Len(sent)
      BY <1>1, <1>3
    <2> QED  BY <1>1, <1>2, <2>1 DEF ChunksSound
  <1>7. ScanSound'
    BY <1>1 DEF ScanSound
  <1>8. PDUsSound'
    <2>1. \A s \in Stream : PDUs(s)' = PDUs(s)
      BY <1>1 DEF PDUs
    <2>2. \A s, f, l : IsMessage(s, f, l) => IsMessage(s, f, l)'
      BY <1>1, PeerKept DEF IsMessage
    <2> QED  BY <1>1, <2>1, <2>2 DEF PDUsSound
  <1> QED  BY <1>4, <1>5, <1>6, <1>7, <1>8

LEMMA RecvDataChunkSearch ==
  ASSUME Base, NEW n \in Numbers, RecvDataChunk(n)
  PROVE  SearchExact'
  <1>1. phase' = "chunks" /\ hasData' = TRUE
    BY RecvDataChunkIs
  <1> QED  BY <1>1 DEF SearchExact

LEMMA RecvDataChunkNumbered ==
  ASSUME Base, NextSound, ArrivedSound, NEW n \in Numbers, RecvDataChunk(n)
  PROVE  NextSound' /\ ArrivedSound'
  <1>1. /\ peer' = peer /\ sent' = sent /\ n \notin came
        /\ came' = came \cup {n} /\ se'.List = se.List \cup {n}
        /\ se'.nextSSN = se.nextSSN /\ se'.prePduList = se.prePduList
        /\ UNCHANGED <<given, kept, announced>> /\ phase' = "chunks" /\ hasData' = TRUE
    BY RecvDataChunkIs
  <1>2. \A m : Left(m)' <=> Left(m)
    BY <1>1 DEF Left
  <1>3. \A s : Told(s)' = Told(s)
    BY <1>1 DEF Told
  <1>4. /\ \A m, k : Same(m, k)' <=> Same(m, k)
        /\ \A m : Place(m)' = Place(m) /\ (Ordered(m)' <=> Ordered(m))
        /\ \A s : NextPlace(s)' = NextPlace(s)
        /\ NextSound'
    BY <1>1, PeerKept, EngineKept
  <1>5. ArrivedSound'
    BY <1>1, <1>2, <1>3, <1>4 DEF ArrivedSound
  <1> QED  BY <1>4, <1>5

LEMMA RecvDataChunkOrder ==
  ASSUME Base, OrderSound, NEW n \in Numbers, RecvDataChunk(n)
  PROVE  OrderSound'
  <1>1. /\ peer' = peer /\ sent' = sent /\ n > point /\ n \notin came
        /\ came' = came \cup {n} /\ se'.List = se.List \cup {n}
        /\ se'.nextSSN = se.nextSSN /\ se'.prePduList = se.prePduList
        /\ UNCHANGED <<upTo, kept, announced>> /\ phase' = "chunks" /\ upTo = 0
        /\ point' \in point..Len(sent)
    BY RecvDataChunkIs
  <1>2. \A s : Told(s)' = Told(s)
    BY <1>1 DEF Told
  <1>3. /\ \A m : Place(m)' = Place(m) /\ (Ordered(m)' <=> Ordered(m))
        /\ \A s : NextPlace(s)' = NextPlace(s)
    BY <1>1, PeerKept, EngineKept
  <1>4. point \in Int /\ Len(sent) \in Int
    BY SentIs DEF Base, ChunksSound
  <1>5. \A m \in Numbers : m \in Nat /\ m > 0
    BY Parameters DEF Numbers
  <1>6. \A m \in Numbers : Open(m)' => Open(m)
    BY <1>1, <1>3, <1>4, <1>5 DEF Open
  <1>7. \A m \in Numbers : Relevant(m)' => Relevant(m)
    BY <1>1, <1>6 DEF Relevant
  <1>8. \A f, g : Behind(f, g)' <=> Behind(f, g)
    BY <1>1, <1>3 DEF Behind
  <1>9. \A s \in Stream : Told(s)' \cap se'.List = {}
    <2>1. \A s \in Stream : Told(s) \subseteq came
      BY ToldCame
    <2> QED  BY <1>1, <1>2, <2>1 DEF OrderSound
  <1> QED  BY <1>1, <1>2, <1>3, <1>6, <1>7, <1>8, <1>9 DEF OrderSound

-----------------------------------------------------------------------------
(* ForwardTSN *)

\* A stream keeps its next SSN, or takes the one after a chunk given up.
LEMMA SkipIs ==
  ASSUME Typed, PeerSound, NEW chunks, chunks \subseteq DOMAIN sent, NEW s \in Stream
  PROVE  /\ Skip(se.nextSSN, Skipped(chunks)) \in [Stream -> SSN]
         /\ \/ Skip(se.nextSSN, Skipped(chunks))[s] = se.nextSSN[s]
            \/ \E n \in chunks : /\ sent[n].sid = s
                                 /\ Skip(se.nextSSN, Skipped(chunks))[s] = S!Plus(sent[n].ssn, 1)
  <1> DEFINE skipped == Skipped(chunks)
  <1>1. se.nextSSN \in [Stream -> SSN]
    BY DEF Typed, Engine
  <1>2. \A r, ssn : <<r, ssn>> \in skipped => \E n \in chunks : sent[n].sid = r /\ sent[n].ssn = ssn
    BY DEF Skipped
  <1> HIDE DEF skipped
  <1>3. \A r \in Stream :
           LET y == Skip(se.nextSSN, skipped)[r]
           IN  \/ y = se.nextSSN[r]
               \/ \E x \in SSN : <<r, x>> \in skipped /\ y = S!Plus(x, 1)
    <2> TAKE r \in Stream
    <2>1. CASE \E x \in SSN : <<r, x>> \in skipped
      <3> DEFINE x == CHOOSE x \in SSN : <<r, x>> \in skipped
      <3>1. x \in SSN /\ <<r, x>> \in skipped
        BY <2>1
      <3>2. Skip(se.nextSSN, skipped)[r] = S!Plus(x, 1)
        BY <2>1 DEF Skip
      <3> QED  BY <3>1, <3>2
    <2>2. CASE ~ \E x \in SSN : <<r, x>> \in skipped
      BY <2>2 DEF Skip
    <2> QED  BY <2>1, <2>2
  <1>4. Skip(se.nextSSN, skipped) \in [Stream -> SSN]
    <2>1. \A r \in Stream : Skip(se.nextSSN, skipped)[r] \in SSN
      BY <1>1, <1>3, NextOne
    <2>2. Skip(se.nextSSN, skipped) = [r \in Stream |-> Skip(se.nextSSN, skipped)[r]]
      BY DEF Skip
    <2> QED  BY <2>1, <2>2
  <1>5. \/ Skip(se.nextSSN, skipped)[s] = se.nextSSN[s]
        \/ \E n \in chunks : sent[n].sid = s /\ Skip(se.nextSSN, skipped)[s] = S!Plus(sent[n].ssn, 1)
    <2> DEFINE y == Skip(se.nextSSN, skipped)[s]
    <2>1. CASE y = se.nextSSN[s]
      BY <2>1
    <2>2. ASSUME NEW x \in SSN, <<s, x>> \in skipped, y = S!Plus(x, 1)
          PROVE  \E n \in chunks : sent[n].sid = s /\ y = S!Plus(sent[n].ssn, 1)
      <3>1. PICK n \in chunks : sent[n].sid = s /\ sent[n].ssn = x
        BY <1>2, <2>2
      <3> QED  BY <2>2, <3>1
    <2>3. y = se.nextSSN[s] \/ \E x \in SSN : <<s, x>> \in skipped /\ y = S!Plus(x, 1)
      BY <1>3
    <2> HIDE DEF y
    <2> QED  BY <2>1, <2>2, <2>3 DEF y
  <1> QED  BY <1>4, <1>5 DEF skipped

LEMMA ForwardTSNIs ==
  ASSUME Base, NEW a \in {0} \cup Numbers, NEW u \in Numbers, ForwardTSN(a, u)
  PROVE  /\ peer' = peer /\ sent' = sent /\ came' = came
         /\ (a + 1)..u \subseteq DOMAIN sent /\ (a + 1)..u # {}
         /\ given' = given \cup (a + 1)..u
         /\ u \in 1..Len(sent) /\ a \in Nat /\ point < u
         /\ point' \in u..Len(sent) /\ upTo' = point' /\ upTo = 0
         /\ se' = Forgotten([se EXCEPT !.nextSSN = Skip(@, Skipped((a + 1)..u))])
         /\ se'.nextSSN = Skip(se.nextSSN, Skipped((a + 1)..u))
         /\ se'.List = se.List /\ se'.prePduList = se.prePduList /\ se'.pduList = se.pduList
         /\ scan' = [at |-> Successor(se.List, 0), first |-> 0]
         /\ phase' = "search" /\ phase \in {"idle", "chunks"}
         /\ UNCHANGED <<hasData, aborted, kept, announced>>
  <1> USE DEF Base
  <1> DEFINE e == [se EXCEPT !.nextSSN = Skip(@, Skipped((a + 1)..u))]
  <1>1. /\ peer' = peer /\ came' = came /\ given' = given \cup (a + 1)..u
        /\ u \in DOMAIN sent /\ a <= point /\ point < u
        /\ point' = Contiguous(came, u) /\ upTo' = point'
        /\ se' = Forgotten(e) /\ scan' = [at |-> Successor(e.List, 0), first |-> 0]
        /\ phase' = "search" /\ phase \in {"idle", "chunks"}
        /\ UNCHANGED <<hasData, aborted, kept, announced>>
    BY DEF ForwardTSN, StartSearch
  <1>2. /\ e.List = se.List /\ e.prePduList = se.prePduList /\ e.pduList = se.pduList
        /\ e.nextSSN = Skip(se.nextSSN, Skipped((a + 1)..u))
    BY DEF Typed, Engine
  <1>3. /\ se'.List = e.List /\ se'.prePduList = e.prePduList /\ se'.pduList = e.pduList
        /\ se'.nextSSN = e.nextSSN
    BY <1>1 DEF Typed, Engine, Forgotten
  <1> HIDE DEF e
  <1>4. DOMAIN sent = 1..Len(sent) /\ Len(sent) \in Nat /\ sent' = sent
    BY <1>1, SentIs DEF sent
  <1>5. upTo = 0 /\ a \in Nat /\ point \in Nat
    <2>1. \A n \in Numbers : n \in Nat
      BY Parameters DEF Numbers
    <2> QED  BY <1>1, <1>4, <2>1 DEF ChunksSound
  <1>6. Contiguous(came, u) \in u..Len(sent)
    <2>1. u \in 0..Len(sent)
      BY <1>1, <1>4
    <2> QED  BY <1>4, <2>1, ContiguousIs
  <1>7. (a + 1)..u \subseteq DOMAIN sent /\ u \in (a + 1)..u
    BY <1>1, <1>4, <1>5
  <1> QED  BY <1>1, <1>2, <1>3, <1>4, <1>5, <1>6, <1>7 DEF e

LEMMA ForwardTSNBase ==
  ASSUME Base, NEW a \in {0} \cup Numbers, NEW u \in Numbers, ForwardTSN(a, u)
  PROVE  Base'
  <1> USE DEF Base
  <1> DEFINE nextSSN == Skip(se.nextSSN, Skipped((a + 1)..u))
  <1>1. /\ peer' = peer /\ sent' = sent /\ came' = came
        /\ (a + 1)..u \subseteq DOMAIN sent /\ (a + 1)..u # {}
        /\ given' = given \cup (a + 1)..u /\ u \in 1..Len(sent) /\ a \in Nat
        /\ point' \in u..Len(sent) /\ upTo' = point'
        /\ se' = Forgotten([se EXCEPT !.nextSSN = nextSSN])
        /\ se'.List = se.List /\ se'.prePduList = se.prePduList /\ se'.pduList = se.pduList
        /\ scan' = [at |-> Successor(se.List, 0), first |-> 0]
        /\ phase' = "search"
        /\ UNCHANGED <<hasData, aborted, kept, announced>>
    BY ForwardTSNIs
  <1>2. DOMAIN sent = 1..Len(sent) /\ Len(sent) \in Nat /\ DOMAIN sent \subseteq Numbers
    BY SentIs
  <1>3. point' \in 0..Len(sent) /\ point' \in Numbers
    BY <1>1, <1>2
  <1>4. se.List \in SUBSET Numbers
    BY DEF Typed, Engine
  <1>5. Successor(se.List, 0) \in {0} \cup se.List
    BY <1>4, SuccessorIs
  <1>6. Typed'
    <2>1. PICK V : se \in Engine(V)
      BY DEF Typed
    <2>2. nextSSN \in [Stream -> SSN]
      <3>1. 0 \in Stream
        BY Parameters DEF Stream
      <3> QED  BY <1>1, <3>1, SkipIs
    <2> HIDE DEF nextSSN
    <2>3. 0 \in SSN
      BY Parameters DEF SSN
    <2>4. se' \in Engine(V)
      BY <1>1, <2>1, <2>2, <2>3 DEF Engine, Forgotten
    <2>5. scan' \in [at : {0} \cup Numbers, first : {0} \cup Numbers]
      BY <1>1, <1>4, <1>5
    <2>6. given' \in SUBSET Numbers
      BY <1>1, <1>2 DEF Typed
    <2>7. peer' \in [base : TSN, nextSSN : [Stream -> SSN], sent : Seq(Fragment)]
      BY <1>1 DEF Typed
    <2>8. came' \in SUBSET Numbers /\ hasData' \in BOOLEAN /\ aborted' \in BOOLEAN
          /\ kept' \in SUBSET Numbers /\ announced' \in [Stream -> Seq(Numbers)]
      BY <1>1 DEF Typed
    <2> QED  BY <1>1, <1>3, <2>4, <2>5, <2>6, <2>7, <2>8 DEF Typed
  <1>7. PeerSound' /\ PeerNumbered'
    BY <1>1, PeerKept
  <1>8. ChunksSound'
    <2>1. point < u /\ point \in Nat
      <3>1. point < u
        BY ForwardTSNIs
      <3> QED  BY <1>2, <3>1 DEF ChunksSound
    <2>2. given' \subseteq 1..point' /\ kept' \subseteq 1..point'
      BY <1>1, <1>2, <1>3, <2>1 DEF ChunksSound
    <2> QED  BY <1>1, <1>2, <1>3, <2>2 DEF ChunksSound
  <1>9. ScanSound'
    BY <1>1, <1>5 DEF ScanSound
  <1>10. PDUsSound'
    <2>1. \A s \in Stream : PDUs(s)' = PDUs(s)
      BY <1>1 DEF PDUs
    <2>2. \A s, f, l : IsMessage(s, f, l) => IsMessage(s, f, l)'
      BY <1>1, PeerKept DEF IsMessage
    <2> QED  BY <1>1, <2>1, <2>2 DEF PDUsSound
  <1> QED  BY <1>6, <1>7, <1>8, <1>9, <1>10

\* Unless unordered chunks were given up, a stream goes on behind a message
\* that was.
LEMMA ForwardTSNPlaces ==
  ASSUME Base, Numbered', NEW a \in {0} \cup Numbers, NEW u \in Numbers, ForwardTSN(a, u),
         NEW s \in Stream
  PROVE  \/ NextPlace(s)' = NextPlace(s)
         \/ \E n \in (a + 1)..u : /\ Ordered(n) /\ sent[n].sid = s
                                  /\ NextPlace(s)' = Place(n) - 1
  <1> USE DEF Base
  <1>1. /\ peer' = peer /\ sent' = sent /\ (a + 1)..u \subseteq DOMAIN sent
        /\ (a + 1)..u \subseteq given'
        /\ se'.nextSSN = Skip(se.nextSSN, Skipped((a + 1)..u))
    BY ForwardTSNIs
  <1>2. \/ se'.nextSSN[s] = se.nextSSN[s]
        \/ \E n \in (a + 1)..u : sent[n].sid = s /\ se'.nextSSN[s] = S!Plus(sent[n].ssn, 1)
    <2> DEFINE chunks == (a + 1)..u
    <2> HIDE DEF chunks
    <2>1. chunks \subseteq DOMAIN sent /\ se'.nextSSN = Skip(se.nextSSN, Skipped(chunks))
      BY <1>1 DEF chunks
    <2>2. \/ Skip(se.nextSSN, Skipped(chunks))[s] = se.nextSSN[s]
          \/ \E n \in chunks : /\ sent[n].sid = s
                               /\ Skip(se.nextSSN, Skipped(chunks))[s] = S!Plus(sent[n].ssn, 1)
      BY <2>1, SkipIs
    <2> QED  BY <2>1, <2>2 DEF chunks
  <1>3. CASE se'.nextSSN[s] = se.nextSSN[s]
    BY <1>1, <1>3 DEF NextPlace, Back
  <1>4. ASSUME NEW n \in (a + 1)..u, sent[n].sid = s, se'.nextSSN[s] = S!Plus(sent[n].ssn, 1)
        PROVE  Ordered(n) /\ NextPlace(s)' = Place(n) - 1
    <2>1. n \in DOMAIN sent /\ ~sent[n].unordered
      BY <1>1 DEF Numbered, UnorderedGiven
    <2>2. Ordered(n) /\ sent[n].ssn \in SSN /\ peer.nextSSN[s] \in SSN
      BY <2>1, SentIs DEF Ordered
    <2>3. Place(n) >= 1
      BY <2>2, Places
    <2>4. Place(n) = (peer.nextSSN[s] - sent[n].ssn) % SSNModulus
      BY <1>4 DEF Place, Back
    <2>5. NextPlace(s)' = (peer.nextSSN[s] - S!Plus(sent[n].ssn, 1)) % SSNModulus
      BY <1>1, <1>4 DEF NextPlace, Back
    <2> QED  BY <2>2, <2>3, <2>4, <2>5, OneNearer
  <1> QED  BY <1>2, <1>3, <1>4

LEMMA ForwardTSNSearch ==
  ASSUME Base, NEW a \in {0} \cup Numbers, NEW u \in Numbers, ForwardTSN(a, u)
  PROVE  SearchExact'
  <1>1. /\ se'.List = se.List /\ phase' = "search"
        /\ scan' = [at |-> Successor(se.List, 0), first |-> 0]
    BY ForwardTSNIs
  <1>2. se.List \in SUBSET Numbers
    BY DEF Base, Typed, Engine
  <1>3. \A m \in se.List : m > 0 => Successor(se.List, 0) # 0 /\ Successor(se.List, 0) <= m
    BY <1>2, SuccessorIs
  <1>4. \A m \in Numbers : m > 0 /\ m \in Nat
    BY Parameters DEF Numbers
  <1>5. Successor(se.List, 0) \in {0} \cup se.List
    BY <1>2, SuccessorIs
  <1>6. Cursor' = Successor(se.List, 0)
    BY <1>1 DEF Cursor
  <1>7. \A f \in Numbers : Ready(f)' => f \in se.List
    BY <1>1 DEF Ready
  <1>8. \A f \in Numbers : Ready(f)' => Cursor' # 0 /\ f >= Cursor'
    BY <1>2, <1>3, <1>4, <1>5, <1>6, <1>7
  <1> QED  BY <1>1, <1>8 DEF SearchExact

LEMMA ForwardTSNNumbered ==
  ASSUME Base, NextSound, ArrivedSound, Numbered',
         NEW a \in {0} \cup Numbers, NEW u \in Numbers, ForwardTSN(a, u)
  PROVE  NextSound' /\ ArrivedSound'
  <1> USE DEF Base
  <1>1. /\ peer' = peer /\ sent' = sent
        /\ (a + 1)..u \subseteq DOMAIN sent /\ (a + 1)..u # {}
        /\ given' = given \cup (a + 1)..u /\ a \in Nat
        /\ se'.List = se.List /\ phase' = "search"
        /\ scan' = [at |-> Successor(se.List, 0), first |-> 0]
    BY ForwardTSNIs
  <1>2. DOMAIN sent = 1..Len(sent) /\ Len(sent) \in Nat
    BY SentIs
  <1>3. NextSound'
    <2> SUFFICES ASSUME NEW s \in Stream PROVE NextPlace(s)' <= Len(sent)
      BY <1>1 DEF NextSound
    <2>1. CASE NextPlace(s)' = NextPlace(s)
      BY <2>1 DEF NextSound
    <2>2. ASSUME NEW n \in (a + 1)..u, Ordered(n), NextPlace(s)' = Place(n) - 1
          PROVE  NextPlace(s)' <= Len(sent)
      <3>1. Place(n) \in 1..(Len(sent) - n + 1) /\ n \in 1..Len(sent)
        BY <2>2, Places
      <3> QED  BY <1>2, <2>2, <3>1
    <2> QED  BY <2>1, <2>2, ForwardTSNPlaces
  <1>4. ArrivedSound'
    BY <1>1 DEF ArrivedSound
  <1> QED  BY <1>3, <1>4

LEMMA ForwardTSNOrder ==
  ASSUME Base, NextSound, OrderSound, Numbered',
         NEW a \in {0} \cup Numbers, NEW u \in Numbers, ForwardTSN(a, u)
  PROVE  OrderSound'
  <1> USE DEF Base
  <1>1. /\ peer' = peer /\ sent' = sent /\ came' = came /\ (a + 1)..u \subseteq DOMAIN sent
        /\ u \in 1..Len(sent) /\ a \in Nat /\ point < u
        /\ point' \in u..Len(sent) /\ upTo' = point' /\ upTo = 0
        /\ se'.List = se.List /\ se'.prePduList = se.prePduList
        /\ phase' = "search" /\ UNCHANGED <<kept, announced>>
    BY ForwardTSNIs
  <1>2. point \in Int /\ Len(sent) \in Nat
    BY SentIs DEF ChunksSound
  <1>3. \A m \in Numbers : m \in Nat /\ m > 0
    BY Parameters DEF Numbers
  <1>4. /\ \A m, n : Same(m, n)' <=> Same(m, n)
        /\ \A m : Place(m)' = Place(m) /\ (Ordered(m)' <=> Ordered(m))
    BY <1>1, PeerKept
  <1>5. \A m \in Numbers : Open(m)' => Open(m)
    BY <1>1, <1>2, <1>3, <1>4 DEF Open
  <1>6. \A m \in Numbers : Relevant(m)' => Relevant(m)
    BY <1>1, <1>3, <1>5 DEF Relevant
  <1>7. \A s : Told(s)' = Told(s)
    BY <1>1 DEF Told
  <1>8. ASSUME NEW m \in Numbers, Open(m)', m > upTo'
        PROVE  Place(m) <= NextPlace(sent[m].sid)'
    <2>1. Open(m) /\ m > upTo /\ m > u /\ Ordered(m) /\ sent[m].begin
      BY <1>1, <1>3, <1>5, <1>8 DEF Open
    <2>2. Place(m) <= NextPlace(sent[m].sid)
      BY <2>1 DEF OrderSound
    <2> DEFINE s == sent[m].sid
    <2>3. s \in Stream /\ sent'[m].sid = s
      BY <1>1, <2>1, SentIs DEF Ordered
    <2> HIDE DEF s
    <2>4. CASE NextPlace(s)' = NextPlace(s)
      BY <2>2, <2>3, <2>4 DEF s, NextPlace
    <2>5. ASSUME NEW n \in (a + 1)..u, Ordered(n), sent[n].sid = s, NextPlace(s)' = Place(n) - 1
          PROVE  Place(m) <= NextPlace(s)'
      <3>1. n < m /\ sent[n].sid = sent[m].sid
        BY <1>1, <1>3, <2>1, <2>5 DEF s
      <3>2. Place(n) > Place(m)
        BY <2>1, <2>5, <3>1, Apart
      <3>3. Place(n) \in Int /\ Place(m) \in Int
        <4>1. Place(n) \in 1..(Len(sent) - n + 1) /\ Place(m) \in 1..(Len(sent) - m + 1)
          BY <2>1, <2>5, Places
        <4> QED  BY <4>1
      <3> QED  BY <2>5, <3>2, <3>3
    <2>6. Place(m) <= NextPlace(s)'
      BY <2>2, <2>3, <2>4, <2>5, ForwardTSNPlaces DEF s
    <2> QED  BY <2>3, <2>6 DEF NextPlace, s
  <1>9. \A f, g : Behind(f, g)' <=> Behind(f, g)
    BY <1>1, <1>4 DEF Behind
  <1> QED  BY <1>1, <1>4, <1>5, <1>6, <1>7, <1>8, <1>9 DEF OrderSound

-----------------------------------------------------------------------------
(* EndDatagram *)

LEMMA EndDatagramIs ==
  ASSUME Base, EndDatagram
  PROVE  /\ peer' = peer /\ sent' = sent /\ UNCHANGED <<came, point, upTo, aborted, given, kept, announced>>
         /\ phase = "chunks" /\ upTo = 0 /\ hasData' = FALSE
         /\ se'.List = se.List /\ se'.nextSSN = se.nextSSN
         /\ se'.prePduList = se.prePduList /\ se'.pduList = se.pduList
         /\ IF hasData THEN /\ phase' = "search" /\ se' = Forgotten(se)
                            /\ scan' = [at |-> Successor(se.List, 0), first |-> 0]
            ELSE phase' = "idle" /\ UNCHANGED <<se, scan>>
  <1>1. /\ peer' = peer /\ UNCHANGED <<came, point, upTo, aborted, given, kept, announced>>
        /\ phase = "chunks" /\ hasData' = FALSE
        /\ IF hasData THEN /\ phase' = "search" /\ se' = Forgotten(se)
                           /\ scan' = [at |-> Successor(se.List, 0), first |-> 0]
           ELSE phase' = "idle" /\ UNCHANGED <<se, scan>>
    BY DEF EndDatagram, StartSearch
  <1>2. se'.List = se.List /\ se'.nextSSN = se.nextSSN
        /\ se'.prePduList = se.prePduList /\ se'.pduList = se.pduList
    BY <1>1 DEF Base, Typed, Engine, Forgotten
  <1>3. upTo = 0 /\ sent' = sent
    BY <1>1 DEF Base, ChunksSound, sent
  <1> QED  BY <1>1, <1>2, <1>3

LEMMA EndDatagramBase ==
  ASSUME Base, EndDatagram
  PROVE  Base'
  <1> USE DEF Base
  <1>1. /\ peer' = peer /\ sent' = sent /\ UNCHANGED <<came, point, upTo, aborted, given, kept, announced>>
        /\ phase = "chunks" /\ upTo = 0 /\ hasData' = FALSE
        /\ se'.List = se.List /\ se'.prePduList = se.prePduList /\ se'.pduList = se.pduList
        /\ IF hasData THEN /\ phase' = "search" /\ se' = Forgotten(se)
                           /\ scan' = [at |-> Successor(se.List, 0), first |-> 0]
           ELSE phase' = "idle" /\ UNCHANGED <<se, scan>>
    BY EndDatagramIs
  <1>2. se.List \in SUBSET Numbers
    BY DEF Typed, Engine
  <1>3. Successor(se.List, 0) \in {0} \cup se.List
    BY <1>2, SuccessorIs
  <1>4. Typed'
    <2>1. PICK V : se \in Engine(V)
      BY DEF Typed
    <2>2. 0 \in SSN
      BY Parameters DEF SSN
    <2>3. se' \in Engine(V)
      <3>1. CASE hasData
        <4>1. se' = Forgotten(se)
          BY <1>1, <3>1
        <4>2. Forgotten(se) \in Engine(V)
          BY <2>1, <2>2 DEF Engine, Forgotten
        <4> QED  BY <4>1, <4>2
      <3>2. CASE ~hasData
        BY <1>1, <2>1, <3>2
      <3> QED  BY <3>1, <3>2
    <2>4. scan' \in [at : {0} \cup Numbers, first : {0} \cup Numbers]
      <3>1. CASE hasData
        BY <1>1, <1>2, <1>3, <3>1
      <3>2. CASE ~hasData
        BY <1>1, <3>2 DEF Typed
      <3> QED  BY <3>1, <3>2
    <2>5. peer' \in [base : TSN, nextSSN : [Stream -> SSN], sent : Seq(Fragment)]
      BY <1>1 DEF Typed
    <2>6. phase' \in {"idle", "chunks", "search", "deliver"}
      BY <1>1
    <2> QED  BY <1>1, <2>3, <2>4, <2>5, <2>6 DEF Typed
  <1>5. PeerSound' /\ PeerNumbered'
    BY <1>1, PeerKept
  <1>6. ChunksSound'
    BY <1>1 DEF ChunksSound
  <1>7. ScanSound'
    BY <1>1, <1>3 DEF ScanSound
  <1>8. PDUsSound'
    <2>1. \A s \in Stream : PDUs(s)' = PDUs(s)
      BY <1>1 DEF PDUs
    <2>2. \A s, f, l : IsMessage(s, f, l) => IsMessage(s, f, l)'
      BY <1>1, PeerKept DEF IsMessage
    <2> QED  BY <1>1, <2>1, <2>2 DEF PDUsSound
  <1> QED  BY <1>4, <1>5, <1>6, <1>7, <1>8

\* What was ready before, when engine, chunks and next SSNs are the same.
LEMMA ReadyKept ==
  ASSUME peer' = peer, se'.List \subseteq se.List, se'.nextSSN = se.nextSSN, NEW f, Ready(f)'
  PROVE  Ready(f)
  <1>1. sent' = sent /\ (\A m, n : Same(m, n)' <=> Same(m, n))
    BY PeerKept
  <1>2. Deliverable(sent[f])' <=> Deliverable(sent[f])
    BY EngineKept
  <1> QED  BY <1>1, <1>2 DEF Ready

\* ArrivedSound looks at little.
LEMMA ArrivedKept ==
  ASSUME ArrivedSound, peer' = peer, came' = came, given' = given,
         se'.List = se.List, se'.nextSSN = se.nextSSN, \A s \in Stream : Told(s)' = Told(s),
         Typed, PeerSound
  PROVE  ArrivedSound'
  <1>1. \A m : Left(m)' <=> Left(m)
    BY DEF Left
  <1>2. /\ sent' = sent
        /\ \A m, k : Same(m, k)' <=> Same(m, k)
        /\ \A m : Place(m)' = Place(m) /\ (Ordered(m)' <=> Ordered(m))
        /\ \A s : NextPlace(s)' = NextPlace(s)
    BY PeerKept, EngineKept
  <1>3. \A n \in DOMAIN sent : sent[n].sid \in Stream
    BY SentIs
  <1> QED  BY <1>1, <1>2, <1>3 DEF ArrivedSound

\* OrderSound is kept while nothing new is open, told or in the PDU lists.
LEMMA OrderSoundKept ==
  ASSUME OrderSound, peer' = peer, se'.nextSSN = se.nextSSN,
         se'.prePduList = se.prePduList, UNCHANGED <<kept, announced>>,
         se'.List \subseteq se.List, \A n \in Numbers : Open(n)' => Open(n),
         \A n \in Numbers : Relevant(n)' => Relevant(n),
         \A n \in Numbers : Open(n)' /\ n > upTo' => Open(n) /\ n > upTo
  PROVE  OrderSound'
  <1>1. /\ sent' = sent
        /\ \A m : Place(m)' = Place(m) /\ (Ordered(m)' <=> Ordered(m))
        /\ \A s : NextPlace(s)' = NextPlace(s)
    BY PeerKept, EngineKept
  <1>2. \A s : Told(s)' = Told(s)
    BY DEF Told
  <1>3. \A f, g : Behind(f, g)' <=> Behind(f, g)
    BY <1>1 DEF Behind
  <1> QED  BY <1>1, <1>2, <1>3 DEF OrderSound

LEMMA EndDatagramSearch ==
  ASSUME Base, SearchExact, EndDatagram
  PROVE  SearchExact'
  <1> USE DEF Base
  <1>1. /\ peer' = peer /\ aborted' = aborted /\ phase = "chunks" /\ hasData' = FALSE
        /\ se'.List = se.List /\ se'.nextSSN = se.nextSSN
        /\ IF hasData THEN /\ phase' = "search"
                           /\ scan' = [at |-> Successor(se.List, 0), first |-> 0]
           ELSE phase' = "idle"
    BY EndDatagramIs
  <1> SUFFICES ASSUME ~aborted, NEW f \in Numbers, Ready(f)'
               PROVE  phase' = "search" /\ Cursor' # 0 /\ f >= Cursor'
    BY <1>1 DEF SearchExact
  <1>2. Ready(f)
    BY <1>1, ReadyKept
  <1>3. hasData
    BY <1>1, <1>2 DEF SearchExact
  <1>4. se.List \in SUBSET Numbers /\ f \in se.List
    BY <1>2 DEF Typed, Engine, Ready
  <1>5. f > 0
    BY Parameters DEF Numbers
  <1>6. Successor(se.List, 0) # 0 /\ Successor(se.List, 0) <= f
        /\ Successor(se.List, 0) \in {0} \cup se.List
    BY <1>4, <1>5, SuccessorIs
  <1>7. Cursor' = Successor(se.List, 0)
    BY <1>1, <1>3 DEF Cursor
  <1>8. Successor(se.List, 0) \in Nat /\ f \in Nat
    BY <1>4, <1>6, Parameters DEF Numbers
  <1> QED  BY <1>1, <1>3, <1>6, <1>7, <1>8

LEMMA EndDatagramNumbered ==
  ASSUME Base, NextSound, ArrivedSound, EndDatagram
  PROVE  NextSound' /\ ArrivedSound'
  <1> USE DEF Base
  <1>1. /\ peer' = peer /\ sent' = sent /\ UNCHANGED <<came, aborted, given, kept, announced>>
        /\ se'.List = se.List /\ se'.nextSSN = se.nextSSN /\ se'.prePduList = se.prePduList
    BY EndDatagramIs
  <1>2. NextSound'
    BY <1>1, EngineKept
  <1>3. ArrivedSound'
    <2>1. \A s : Told(s)' = Told(s)
      BY <1>1 DEF Told
    <2> QED  BY <1>1, <2>1, ArrivedKept
  <1> QED  BY <1>2, <1>3

LEMMA EndDatagramOrder ==
  ASSUME Base, OrderSound, EndDatagram
  PROVE  OrderSound'
  <1>1. /\ peer' = peer /\ sent' = sent /\ UNCHANGED <<came, point, upTo, kept, announced>>
        /\ upTo = 0 /\ se'.List = se.List /\ se'.nextSSN = se.nextSSN
        /\ se'.prePduList = se.prePduList
    BY EndDatagramIs
  <1>2. \A m \in Numbers : m > 0
    BY Parameters DEF Numbers
  <1>3. \A m : Ordered(m)' <=> Ordered(m)
    BY <1>1, PeerKept
  <1>4. \A m \in Numbers : Open(m)' => Open(m)
    BY <1>1, <1>3 DEF Open
  <1>5. \A m \in Numbers : Relevant(m)' => Relevant(m)
    BY <1>1, <1>2, <1>4 DEF Relevant
  <1> QED  BY <1>1, <1>4, <1>5, OrderSoundKept

-----------------------------------------------------------------------------
(* A PDU is complete. *)

\* The engine e, which differs from se at most in what the search notes, has a
\* whole message from f to l, where the search has come to f.
Completing(e, f, l) ==
  /\ \E V : e \in Engine(V)
  /\ e.List = se.List /\ e.nextSSN = se.nextSSN
  /\ e.prePduList = se.prePduList /\ e.pduList = se.pduList
  /\ phase = "search" /\ Cursor = f /\ f # 0
  /\ f \in se.List /\ sent[f].begin /\ Deliverable(sent[f])
  /\ l \in f..Len(sent) /\ Same(f, l) /\ sent[l].end /\ f..l \subseteq se.List
  /\ Complete(e, f, l)
  /\ UNCHANGED <<peer, came, point, hasData, upTo, given, kept, announced>>

Followed(f) == ~sent[f].unordered /\ se.nextSSN[sent[f].sid] = sent[f].ssn

Whole(f, l) == [first |-> f, last |-> l, read_position |-> 0]

\* What putting the chunks from f to l together does.
Completed(f, l) ==
  LET s == sent[f].sid
  IN  /\ peer' = peer /\ sent' = sent /\ s \in Stream
      /\ f \in 1..Len(sent) /\ l \in f..Len(sent) /\ f \in Numbers /\ l \in Numbers
      /\ Len(sent) \in Nat /\ DOMAIN sent = 1..Len(sent)
      /\ se'.List = se.List \ f..l
      /\ \A r \in Stream :
           /\ se'.nextSSN[r] = IF r = s /\ Followed(f) THEN S!Plus(se.nextSSN[r], 1)
                               ELSE se.nextSSN[r]
           /\ se'.prePduList[r] = IF r = s THEN Append(se.prePduList[r], Whole(f, l))
                                  ELSE se.prePduList[r]
      /\ se'.pduList = se.pduList
      /\ \E W : se \in Engine(W) /\ se' \in Engine(W) /\ Whole(f, l) \in Interval(W)
      /\ scan' \in [at : {0} \cup Numbers, first : {0} \cup Numbers]
      /\ scan'.at = Successor(se.List, l) /\ scan'.first = 0
      /\ UNCHANGED <<phase, aborted>>

LEMMA CompleteIs ==
  ASSUME Base, NEW e, NEW f, NEW l, Completing(e, f, l)
  PROVE  Completed(f, l)
  <1> DEFINE s == sent[f].sid
             next == ~sent[f].unordered /\ e.nextSSN[s] = sent[f].ssn
             ssn == IF next THEN S!Plus(e.nextSSN[s], 1) ELSE e.nextSSN[s]
             list == Append(e.prePduList[s], Whole(f, l))
             d == [e EXCEPT !.List = @ \ f..l, !.nextSSN[s] = ssn, !.prePduList[s] = list]
  <1> USE DEF Base
  <1>1. /\ peer' = peer /\ sent' = sent /\ se' = d
        /\ scan' = [at |-> Successor(e.List, l), first |-> 0] /\ UNCHANGED <<phase, aborted>>
    BY DEF Completing, Complete, Whole, sent
  <1>2. e.List = se.List /\ e.nextSSN = se.nextSSN
        /\ e.prePduList = se.prePduList /\ e.pduList = se.pduList
    BY DEF Completing
  <1>3. f \in 1..Len(sent) /\ Len(sent) \in Nat /\ s \in Stream /\ l \in f..Len(sent)
        /\ DOMAIN sent = 1..Len(sent) /\ DOMAIN sent \subseteq Numbers
    <2>1. f \in DOMAIN sent /\ l \in f..Len(sent)
      BY DEF Completing, ChunksSound
    <2> QED  BY <2>1, SentIs
  <1>4. f \in Numbers /\ l \in Numbers
    BY <1>3
  <1>5. PICK V : e \in Engine(V)
    BY DEF Completing
  <1>6. PICK U : se \in Engine(U)
    BY DEF Typed
  <1> DEFINE W == V \cup U \cup {0}
  <1>7. e \in Engine(W) /\ se \in Engine(W)
    BY <1>5, <1>6, EngineGrows
  <1>8. Whole(f, l) \in Interval(W)
    BY <1>4 DEF Whole, Interval
  <1> HIDE DEF W
  <1>9. ssn \in SSN
    <2>1. e.nextSSN[s] \in SSN
      BY <1>3, <1>7 DEF Engine
    <2> QED  BY <2>1, NextOne
  <1>10. list \in Seq(Interval(W))
    <2>1. e.prePduList[s] \in Seq(Interval(W))
      BY <1>3, <1>7 DEF Engine
    <2> QED  BY <1>8, <2>1
  <1>11. Followed(f) <=> next
    BY <1>2 DEF Followed
  <1> HIDE DEF ssn, list, next
  <1>12. /\ d.List = e.List \ f..l
         /\ d.nextSSN = [e.nextSSN EXCEPT ![s] = ssn]
         /\ d.prePduList = [e.prePduList EXCEPT ![s] = list]
         /\ d.pduList = e.pduList
    BY <1>5 DEF Engine
  <1>13. d \in Engine(W)
    BY <1>3, <1>7, <1>9, <1>10 DEF Engine
  <1> HIDE DEF d
  <1>14. \A r \in Stream :
           /\ se'.nextSSN[r] = IF r = s /\ Followed(f) THEN S!Plus(se.nextSSN[r], 1)
                               ELSE se.nextSSN[r]
           /\ se'.prePduList[r] = IF r = s THEN Append(se.prePduList[r], Whole(f, l))
                                  ELSE se.prePduList[r]
    <2>1. e.nextSSN \in [Stream -> SSN] /\ e.prePduList \in [Stream -> Seq(Interval(W))]
      BY <1>7 DEF Engine
    <2> QED  BY <1>1, <1>2, <1>3, <1>11, <1>12, <2>1 DEF ssn, list
  <1>15. Successor(se.List, l) \in {0} \cup Numbers
    <2>1. l \in Nat /\ se.List \in SUBSET Numbers
      BY <1>3, <1>7 DEF Engine
    <2> QED  BY <2>1, SuccessorIs
  <1> QED  BY <1>1, <1>2, <1>3, <1>4, <1>7, <1>8, <1>12, <1>13, <1>14, <1>15 DEF Completed

LEMMA CompleteTold ==
  ASSUME Base, NEW e, NEW f, NEW l, Completing(e, f, l), NEW r \in Stream
  PROVE  LET more == IF r = sent[f].sid THEN {Whole(f, l)} ELSE {}
         IN  /\ ToSet(se'.prePduList[r]) = ToSet(se.prePduList[r]) \cup more
             /\ PDUs(r)' = PDUs(r) \cup more
             /\ UNCHANGED announced => Told(r)' = Told(r) \cup {pdu.first : pdu \in more}
  <1> DEFINE s == sent[f].sid
             more == IF r = s THEN {Whole(f, l)} ELSE {}
  <1>1. /\ se'.prePduList[r] = IF r = s THEN Append(se.prePduList[r], Whole(f, l))
                               ELSE se.prePduList[r]
        /\ se'.pduList = se.pduList
        /\ \E W : se \in Engine(W) /\ se' \in Engine(W) /\ Whole(f, l) \in Interval(W)
    <2>1. Completed(f, l)
      BY CompleteIs
    <2> QED  BY <2>1 DEF Completed
  <1>2. PICK W : se \in Engine(W) /\ Whole(f, l) \in Interval(W)
    BY <1>1
  <1>3. se.prePduList \in [Stream -> Seq(Interval(W))]
    BY <1>2 DEF Engine
  <1>4. se.prePduList[r] \in Seq(Interval(W))
    BY <1>3
  <1>5. ToSet(Append(se.prePduList[r], Whole(f, l))) = ToSet(se.prePduList[r]) \cup {Whole(f, l)}
    BY <1>2, <1>4, ToSetAppend
  <1>6. se'.prePduList[r] = IF r = s THEN Append(se.prePduList[r], Whole(f, l)) ELSE se.prePduList[r]
    BY <1>1
  <1>7. ToSet(se'.prePduList[r]) = ToSet(se.prePduList[r]) \cup more
    BY <1>5, <1>6
  <1> HIDE DEF more
  <1>8. PDUs(r)' = PDUs(r) \cup more
    BY <1>1, <1>7 DEF PDUs
  <1>9. UNCHANGED announced => Told(r)' = Told(r) \cup {pdu.first : pdu \in more}
    BY <1>7 DEF Told
  <1> QED  BY <1>7, <1>8, <1>9 DEF more

LEMMA CompleteBase ==
  ASSUME Base, NEW e, NEW f, NEW l, Completing(e, f, l)
  PROVE  Base'
  <1> USE DEF Base
  <1> DEFINE s == sent[f].sid
  <1>1. /\ peer' = peer /\ sent' = sent /\ s \in Stream
        /\ f \in 1..Len(sent) /\ l \in f..Len(sent) /\ f \in Numbers /\ l \in Numbers
        /\ Len(sent) \in Nat /\ DOMAIN sent = 1..Len(sent)
        /\ se'.List = se.List \ f..l
        /\ scan' \in [at : {0} \cup Numbers, first : {0} \cup Numbers]
        /\ scan'.at = Successor(se.List, l) /\ scan'.first = 0
        /\ \E W : se \in Engine(W) /\ se' \in Engine(W) /\ Whole(f, l) \in Interval(W)
        /\ UNCHANGED <<phase, aborted>>
    <2>1. Completed(f, l)
      BY CompleteIs
    <2> QED  BY <2>1 DEF Completed
  <1>2. /\ UNCHANGED <<came, point, hasData, upTo, given, kept, announced>>
        /\ phase = "search" /\ f \in se.List /\ sent[f].begin /\ Same(f, l) /\ sent[l].end
    BY DEF Completing
  <1>3. se.List \in SUBSET Numbers
    BY DEF Typed, Engine
  <1>4. /\ Successor(se.List, l) \in {0} \cup se.List
        /\ Successor(se.List, l) # 0 => Successor(se.List, l) > l
    <2>1. l \in Nat
      BY <1>1
    <2> QED  BY <1>3, <2>1, SuccessorIs
  <1>5. Typed'
    <2>1. peer' \in [base : TSN, nextSSN : [Stream -> SSN], sent : Seq(Fragment)]
      BY <1>1 DEF Typed
    <2> QED  BY <1>1, <1>2, <2>1 DEF Typed
  <1>6. PeerSound' /\ PeerNumbered'
    BY <1>1, PeerKept
  <1>7. ChunksSound'
    BY <1>1, <1>2 DEF ChunksSound
  <1>8. ScanSound'
    <2>1. scan'.at # 0 => scan'.at \in se.List \ f..l
      BY <1>1, <1>3, <1>4
    <2> QED  BY <1>1, <2>1 DEF ScanSound
  <1>9. PDUsSound'
    <2>1. \A r \in Stream :
            PDUs(r)' = PDUs(r) \cup IF r = s THEN {Whole(f, l)} ELSE {}
      BY CompleteTold
    <2>2. \A r, m, n : IsMessage(r, m, n) => IsMessage(r, m, n)'
      BY <1>1, <1>2, PeerKept DEF IsMessage
    <2>3. IsMessage(s, f, l)
      BY <1>1, <1>2 DEF IsMessage, ChunksSound
    <2>4. Whole(f, l).first = f /\ Whole(f, l).last = l
      BY DEF Whole
    <2> HIDE DEF s
    <2>5. \A r \in Stream : \A pdu \in PDUs(r)' : IsMessage(r, pdu.first, pdu.last)
      BY <2>1, <2>3, <2>4 DEF PDUsSound
    <2>6. \A r \in Stream : \A pdu \in PDUs(r)' : IsMessage(r, pdu.first, pdu.last)'
      BY <2>2, <2>5
    <2> QED  BY <1>1, <1>2, <2>6 DEF PDUsSound
  <1> QED  BY <1>5, <1>6, <1>7, <1>8, <1>9

\* The chunks of a message belong together.
LEMMA MessageChunks ==
  ASSUME Typed, PeerSound, NEW f \in DOMAIN sent, sent[f].begin,
         NEW l \in f..Len(sent), Same(f, l), sent[l].end
  PROVE  /\ \A n \in f..l :
              /\ n \in DOMAIN sent /\ Same(f, n)
              /\ sent[n].sid = sent[f].sid /\ sent[n].ssn = sent[f].ssn
              /\ sent[n].unordered = sent[f].unordered /\ (sent[n].begin <=> n = f)
         /\ \A m, n \in DOMAIN sent : m < n /\ Same(m, n) => (m \in f..l <=> n \in f..l)
         /\ \A n \in DOMAIN sent : n > f /\ Same(f, n) => n \in f..l
  <1>1. DOMAIN sent = 1..Len(sent) /\ Len(sent) \in Nat /\ f \in 1..Len(sent) /\ l \in 1..Len(sent)
    BY SentIs
  <1>2. ASSUME NEW n \in f..l
        PROVE  /\ n \in DOMAIN sent /\ Same(f, n)
               /\ sent[n].sid = sent[f].sid /\ sent[n].ssn = sent[f].ssn
               /\ sent[n].unordered = sent[f].unordered /\ (sent[n].begin <=> n = f)
    <2>1. n \in DOMAIN sent /\ n >= f /\ n \in Int
      BY <1>1
    <2>2. Same(f, n)
      BY <1>1, <2>1, SameSplit
    <2> QED  BY <1>1, <2>1, <2>2 DEF PeerSound
  <1>3. ASSUME NEW n \in DOMAIN sent, n > f, Same(f, n) PROVE n \in f..l
    <2>1. n > l => l \in f..(n - 1)
      BY <1>1
    <2>2. ~(n > l)
      BY <1>3, <2>1 DEF Same
    <2> QED  BY <1>1, <1>3, <2>2
  <1>4. ASSUME NEW m \in DOMAIN sent, NEW n \in DOMAIN sent, m < n, Same(m, n)
        PROVE  m \in f..l <=> n \in f..l
    <2>1. ASSUME m \in f..l PROVE n \in f..l
      <3>1. Same(f, m)
        BY <1>2, <2>1
      <3>2. Same(f, n) /\ n > f
        BY <1>1, <1>4, <2>1, <3>1, SameSplit
      <3> QED  BY <1>3, <3>2
    <2>2. ASSUME n \in f..l, m < f PROVE FALSE
      <3>1. Same(m, f)
        BY SMTT(30), <1>1, <1>4, <2>2, SameSplit
      <3> QED  BY <2>2, <3>1 DEF PeerSound
    <2>3. ASSUME n \in f..l PROVE m \in f..l
      BY <1>1, <1>4, <2>2, <2>3
    <2> QED  BY <2>1, <2>3
  <1> QED  BY <1>2, <1>3, <1>4

\* The ordered chunks in the place of a message are its chunks.
LEMMA MessagePlace ==
  ASSUME Typed, PeerSound, PeerNumbered, NEW f, Ordered(f), sent[f].begin,
         NEW l \in f..Len(sent), Same(f, l), sent[l].end,
         NEW n, Ordered(n), sent[n].sid = sent[f].sid
  PROVE  Place(n) = Place(f) <=> n \in f..l
  <1>1. f \in DOMAIN sent /\ n \in DOMAIN sent
    BY DEF Ordered
  <1>2. ASSUME n \in f..l PROVE Place(n) = Place(f)
    BY <1>1, <1>2, MessageChunks DEF Place
  <1>3. ASSUME Place(n) = Place(f) PROVE n \in f..l
    <2>1. n = f \/ (n > f /\ Same(f, n))
      BY <1>3, Apart
    <2>2. f \in f..l
      BY <1>1, SentIs
    <2> QED  BY <1>1, <2>1, <2>2, MessageChunks
  <1> QED  BY <1>2, <1>3

LEMMA CompletePlaces ==
  ASSUME Base, NextSound, NEW e, NEW f, NEW l, Completing(e, f, l)
  PROVE  LET s == sent[f].sid
         IN  /\ Followed(f) <=> Ordered(f) /\ Place(f) = NextPlace(s)
             /\ Ordered(f) => Place(f) >= NextPlace(s) /\ Place(f) >= 1
             /\ \A r \in Stream :
                  NextPlace(r)' = IF r = s /\ Followed(f) THEN NextPlace(r) - 1 ELSE NextPlace(r)
  <1> DEFINE s == sent[f].sid
  <1> USE DEF Base
  <1>1. /\ peer' = peer /\ s \in Stream /\ f \in DOMAIN sent
        /\ \A r \in Stream :
             se'.nextSSN[r] = IF r = s /\ Followed(f) THEN S!Plus(se.nextSSN[r], 1)
                              ELSE se.nextSSN[r]
    <2>1. Completed(f, l)
      BY CompleteIs
    <2> QED  BY <2>1 DEF Completed
  <1>2. Deliverable(sent[f]) /\ (Ordered(f) <=> ~sent[f].unordered)
    BY <1>1 DEF Completing, Ordered
  <1>3. Ordered(f) => Place(f) >= NextPlace(s) /\ Place(f) >= 1
    BY <1>2, DeliverableIs, Places
  <1>4. Followed(f) <=> Ordered(f) /\ Place(f) = NextPlace(s)
    BY <1>2, DeliverableIs DEF Followed
  <1>5. ASSUME NEW r \in Stream
        PROVE  NextPlace(r)' = IF r = s /\ Followed(f) THEN NextPlace(r) - 1 ELSE NextPlace(r)
    <2>1. peer.nextSSN[r] \in SSN /\ se.nextSSN[r] \in SSN
      BY NextPlaces
    <2>2. NextPlace(r) = (peer.nextSSN[r] - se.nextSSN[r]) % SSNModulus
          /\ NextPlace(r)' = (peer.nextSSN[r] - se'.nextSSN[r]) % SSNModulus
      BY <1>1 DEF NextPlace, Back
    <2>3. CASE r = s /\ Followed(f)
      <3>1. NextPlace(r) >= 1 /\ se'.nextSSN[r] = S!Plus(se.nextSSN[r], 1)
        BY <1>1, <1>3, <1>4, <2>3
      <3> QED  BY <2>1, <2>2, <2>3, <3>1, OneNearer
    <2>4. CASE ~(r = s /\ Followed(f))
      BY <1>1, <2>2, <2>4
    <2> QED  BY <2>3, <2>4
  <1> QED  BY <1>3, <1>4, <1>5

LEMMA CompleteNextSound ==
  ASSUME Base, NextSound, NEW e, NEW f, NEW l, Completing(e, f, l)
  PROVE  NextSound'
  <1>1. peer' = peer /\ sent' = sent
    <2>1. Completed(f, l)
      BY CompleteIs
    <2> QED  BY <2>1 DEF Completed
  <1>2. \A s \in Stream : NextPlace(s) \in 0..Len(sent)
    BY NextPlaces DEF Base
  <1>3. \A s \in Stream : NextPlace(s)' = NextPlace(s) \/ NextPlace(s)' = NextPlace(s) - 1
    BY CompletePlaces
  <1>4. Len(sent) \in Int
    BY SentIs DEF Base
  <1> QED  BY <1>1, <1>2, <1>3, <1>4 DEF NextSound

\* A search that goes on behind a PDU leaves nothing behind.
LEMMA CompleteSearch ==
  ASSUME Base, SearchExact, NEW e, NEW f, NEW l, Completing(e, f, l)
  PROVE  SearchExact'
  <1> DEFINE s == sent[f].sid
  <1> USE DEF Base
  <1>1. /\ peer' = peer /\ sent' = sent /\ s \in Stream /\ DOMAIN sent = 1..Len(sent)
        /\ f \in 1..Len(sent) /\ l \in f..Len(sent) /\ Len(sent) \in Nat
        /\ se'.List = se.List \ f..l
        /\ \A r \in Stream :
             se'.nextSSN[r] = IF r = s /\ Followed(f) THEN S!Plus(se.nextSSN[r], 1)
                              ELSE se.nextSSN[r]
        /\ scan'.at = Successor(se.List, l) /\ scan'.first = 0
        /\ UNCHANGED <<phase, aborted>>
    <2>1. Completed(f, l)
      BY CompleteIs
    <2> QED  BY <2>1 DEF Completed
  <1>2. /\ phase = "search" /\ Cursor = f /\ f # 0 /\ sent[f].begin
    BY DEF Completing
  <1>3. se.List \in SUBSET Numbers
    BY DEF Typed, Engine
  <1>4. Cursor' = Successor(se.List, l)
    BY <1>1 DEF Cursor
  <1> SUFFICES ASSUME ~aborted, NEW g \in Numbers, Ready(g)'
               PROVE  Cursor' # 0 /\ g >= Cursor'
    BY <1>1, <1>2 DEF SearchExact
  <1>5. g \in se.List /\ g \notin f..l /\ g \in DOMAIN sent /\ g \in Nat /\ sent[g].begin
    <2>1. g \in se.List /\ g \notin f..l /\ sent[g].begin
      BY <1>1 DEF Ready
    <2>2. g \in DOMAIN sent
      BY <2>1 DEF ChunksSound
    <2> QED  BY <1>1, <2>1, <2>2
  <1>6. SUFFICES ASSUME g < f PROVE FALSE
    <2>1. g > l => Successor(se.List, l) # 0 /\ Successor(se.List, l) <= g
      <3>1. l \in Nat
        BY <1>1
      <3> QED  BY <1>3, <1>5, <3>1, SuccessorIs
    <2>2. ~(g < f) => g > l
      BY <1>1, <1>5
    <2>3. Successor(se.List, l) \in Nat
      <3>1. l \in Nat /\ \A m \in Numbers : m \in Nat
        BY <1>1, Parameters DEF Numbers
      <3> QED  BY <1>3, <3>1, SuccessorIs
    <2> QED  BY <1>4, <1>5, <1>6, <2>1, <2>2, <2>3
  <1>7. ~Ready(g)
    BY <1>1, <1>2, <1>5, <1>6 DEF SearchExact
  <1>8. \A m, n : Same(m, n)' <=> Same(m, n)
    BY <1>1, PeerKept
  <1>9. ~Deliverable(sent[g]) /\ Deliverable(sent[g])'
    <2>1. \E i \in g..Len(sent) : Same(g, i) /\ sent[i].end /\ g..i \subseteq se.List
      BY <1>1, <1>8 DEF Ready
    <2>2. Deliverable(sent[g])'
      BY DEF Ready
    <2> QED  BY <1>5, <1>7, <2>1, <2>2 DEF Ready
  <1>10. Ordered(g) /\ Ordered(g)'
    BY <1>1, <1>5, <1>9, SentIs DEF Deliverable, Ordered
  <1>11. sent[g].sid = s /\ Followed(f)
    <2>1. se'.nextSSN[sent[g].sid] # se.nextSSN[sent[g].sid]
      BY <1>1, <1>9 DEF Deliverable
    <2>2. sent[g].sid \in Stream
      BY <1>5, SentIs
    <2> QED  BY <1>1, <2>1, <2>2
  <1>12. Ordered(f) /\ sent[f].ssn = se.nextSSN[s] /\ sent[f].ssn \in SSN /\ sent[g].ssn \in SSN
    BY <1>1, <1>5, <1>11, SentIs DEF Followed, Ordered
  <1>13. sent[g].ssn = S!Plus(sent[f].ssn, 1)
    <2>1. ~S!Before(sent[g].ssn, sent[f].ssn) /\ sent[g].ssn # sent[f].ssn
      BY <1>9, <1>11, <1>12 DEF Deliverable
    <2>2. \/ S!Before(sent[g].ssn, S!Plus(sent[f].ssn, 1))
          \/ sent[g].ssn = S!Plus(sent[f].ssn, 1)
      BY <1>1, <1>9, <1>10, <1>11, <1>12 DEF Deliverable, Ordered
    <2> QED  BY <1>12, <2>1, <2>2, NewlyBefore
  <1>14. Place(f) >= 1 /\ Place(f) \in Int /\ Place(g) \in Int
    <2>1. Place(g) \in 1..(Len(sent) - g + 1) /\ Place(f) \in 1..(Len(sent) - f + 1)
      BY <1>10, <1>12, Places
    <2> QED  BY <2>1
  <1>15. Place(g) = Place(f) - 1
    <2>1. peer.nextSSN[s] \in SSN
      BY <1>1, SentIs
    <2>2. /\ Place(f) = (peer.nextSSN[s] - sent[f].ssn) % SSNModulus
          /\ Place(g) = (peer.nextSSN[s] - S!Plus(sent[f].ssn, 1)) % SSNModulus
      BY <1>11, <1>13 DEF Place, Back
    <2> QED  BY <1>12, <1>14, <2>1, <2>2, OneNearer
  <1>16. Place(g) > Place(f)
    BY <1>2, <1>6, <1>10, <1>11, <1>12, Apart
  <1> QED  BY <1>14, <1>15, <1>16

\* With nothing given up, the ordered message that leaves is the next one.
LEMMA CompleteArrived ==
  ASSUME Base, NextSound, ArrivedSound, NEW e, NEW f, NEW l, Completing(e, f, l)
  PROVE  ArrivedSound'
  <1> DEFINE s == sent[f].sid
  <1> USE DEF Base
  <1>1. /\ peer' = peer /\ sent' = sent /\ s \in Stream /\ DOMAIN sent = 1..Len(sent)
        /\ f \in 1..Len(sent) /\ l \in f..Len(sent) /\ Len(sent) \in Nat
        /\ se'.List = se.List \ f..l
    <2>1. Completed(f, l)
      BY CompleteIs
    <2> QED  BY <2>1 DEF Completed
  <1>2. /\ UNCHANGED <<came, given, kept, announced>>
        /\ sent[f].begin /\ Same(f, l) /\ sent[l].end /\ f..l \subseteq se.List
    BY DEF Completing
  <1>3. /\ \A m, n : Same(m, n)' <=> Same(m, n)
        /\ \A m : Place(m)' = Place(m) /\ (Ordered(m)' <=> Ordered(m))
    BY <1>1, PeerKept
  <1> SUFFICES ASSUME given = {} PROVE ArrivedSound'
    BY <1>2 DEF ArrivedSound
  <1>4. /\ \A n \in DOMAIN sent : Ordered(n) => (Left(n) <=> Place(n) > NextPlace(sent[n].sid))
        /\ \A m, n \in DOMAIN sent : m < n /\ Same(m, n) => (Left(m) <=> Left(n))
        /\ \A n \in DOMAIN sent : Left(n) /\ sent[n].begin => n \in Told(sent[n].sid)
        /\ \A r \in Stream : \A k \in 1..NextPlace(r) :
             \E b \in DOMAIN sent : Ordered(b) /\ sent[b].begin /\ sent[b].sid = r /\ Place(b) = k
    BY DEF ArrivedSound
  <1>5. /\ \A n \in f..l : sent[n].sid = s /\ sent[n].unordered = sent[f].unordered
                           /\ (sent[n].begin <=> n = f)
        /\ \A m, n \in DOMAIN sent : m < n /\ Same(m, n) => (m \in f..l <=> n \in f..l)
    BY <1>1, <1>2, MessageChunks
  <1>6. \A n \in DOMAIN sent : Left(n)' <=> Left(n) \/ n \in f..l
    <2>1. f..l \subseteq came
      BY <1>2 DEF ChunksSound
    <2> QED  BY <1>1, <1>2, <2>1 DEF Left
  <1>7. f \in f..l /\ ~Left(f) /\ f \in DOMAIN sent
    <2>1. f \in f..l
      BY <1>1
    <2> QED  BY <1>1, <1>2, <2>1 DEF Left
  <1>8. \A r \in Stream :
          /\ NextPlace(r)' = IF r = s /\ Followed(f) THEN NextPlace(r) - 1 ELSE NextPlace(r)
          /\ NextPlace(r) \in Nat
    <2>1. \A r \in Stream : NextPlace(r) \in 0..Len(sent)
      BY NextPlaces
    <2> QED  BY <2>1, <1>1, CompletePlaces
  <1>9. /\ Followed(f) <=> Ordered(f) /\ Place(f) = NextPlace(s)
        /\ Ordered(f) => Place(f) >= NextPlace(s)
    BY CompletePlaces
  <1>10. ASSUME Ordered(f) PROVE Followed(f)
    <2>1. Place(f) \in 1..(Len(sent) - f + 1)
      BY <1>10, Places
    <2>2. ~(Place(f) > NextPlace(s))
      BY <1>4, <1>7, <1>10
    <2>3. NextPlace(s) \in Nat
      BY <1>1, <1>8
    <2> QED  BY <1>9, <1>10, <2>1, <2>2, <2>3
  <1>11. ASSUME NEW n \in DOMAIN sent, Ordered(n)
         PROVE  Left(n)' <=> Place(n) > NextPlace(sent[n].sid)'
    <2> DEFINE r == sent[n].sid
    <2>1. r \in Stream /\ sent'[n].sid = r
      BY <1>1, SentIs
    <2>2. Place(n) \in Nat
      BY <1>11, Places
    <2>3. NextPlace(r) \in Nat /\ (Left(n) <=> Place(n) > NextPlace(r))
      BY <1>4, <1>8, <1>11, <2>1
    <2>4. CASE r = s /\ Followed(f)
      <3>1. NextPlace(r)' = NextPlace(r) - 1
        BY <1>8, <2>1, <2>4
      <3>2. Place(n) = NextPlace(r) <=> n \in f..l
        <4>1. Ordered(f) /\ Place(f) = NextPlace(s)
          BY <1>9, <2>4
        <4> QED  BY <1>1, <1>2, <1>11, <2>4, <4>1, MessagePlace
      <3> HIDE DEF r
      <3>3. Left(n)' <=> Place(n) > NextPlace(r) \/ Place(n) = NextPlace(r)
        BY <1>6, <2>3, <3>2
      <3>4. Left(n)' <=> Place(n) > NextPlace(r)'
        BY <2>2, <2>3, <3>1, <3>3
      <3> QED  BY <2>1, <3>4 DEF NextPlace, r
    <2>5. CASE ~(r = s /\ Followed(f))
      <3>1. NextPlace(r)' = NextPlace(r)
        BY <1>8, <2>1, <2>5
      <3>2. n \notin f..l
        BY <1>5, <1>10, <1>11, <1>7, <2>5 DEF Ordered
      <3> HIDE DEF r
      <3>3. Left(n)' <=> Place(n) > NextPlace(r)'
        BY <1>6, <2>3, <3>1, <3>2
      <3> QED  BY <2>1, <3>3 DEF NextPlace, r
    <2> QED  BY <2>4, <2>5
  <1>12. ASSUME NEW n \in DOMAIN sent, Left(n)', sent[n].begin
         PROVE  n \in Told(sent[n].sid)'
    <2> DEFINE r == sent[n].sid
    <2>1. r \in Stream /\ sent'[n].sid = r
      BY <1>1, SentIs
    <2>2. Told(r)' = Told(r) \cup
            {pdu.first : pdu \in IF r = s THEN {Whole(f, l)} ELSE {}}
      BY <1>2, <2>1, CompleteTold
    <2>3. CASE Left(n)
      <3>1. n \in Told(r)
        BY <1>4, <1>12, <2>3
      <3> QED  BY <2>1, <2>2, <3>1 DEF Told
    <2>4. CASE ~Left(n)
      <3>1. n \in f..l
        BY <1>6, <1>12, <2>4
      <3>2. n = f /\ r = s
        BY <1>5, <1>12, <3>1
      <3>3. f \in Told(r)'
        BY <2>2, <3>2 DEF Whole
      <3> QED  BY <2>1, <3>2, <3>3 DEF Told
    <2> QED  BY <2>3, <2>4
  <1>13. \A m, n \in DOMAIN sent : m < n /\ Same(m, n) => (Left(m)' <=> Left(n)')
    BY <1>4, <1>5, <1>6
  <1>14. \A r \in Stream : \A k \in 1..NextPlace(r)' : k \in 1..NextPlace(r)
    BY <1>8
  <1> QED  BY <1>1, <1>3, <1>4, <1>11, <1>12, <1>13, <1>14 DEF ArrivedSound

\* The message that leaves is behind all that were told and before all that
\* can still be.
LEMMA CompleteOrder ==
  ASSUME Base, NextSound, OrderSound, NEW e, NEW f, NEW l, Completing(e, f, l)
  PROVE  OrderSound'
  <1> DEFINE s == sent[f].sid
             more(r) == IF r = s THEN {Whole(f, l)} ELSE {}
  <1> USE DEF Base
  <1>1. /\ peer' = peer /\ sent' = sent /\ s \in Stream /\ DOMAIN sent = 1..Len(sent)
        /\ f \in 1..Len(sent) /\ l \in f..Len(sent) /\ Len(sent) \in Nat /\ f \in Numbers
        /\ se'.List = se.List \ f..l /\ l \in Numbers
        /\ scan'.at = Successor(se.List, l) /\ scan'.first = 0
        /\ UNCHANGED <<phase, aborted>>
    <2>1. Completed(f, l)
      BY CompleteIs
    <2> QED  BY <2>1 DEF Completed
  <1>2. /\ UNCHANGED <<came, point, upTo, kept, announced>>
        /\ phase = "search" /\ Cursor = f /\ f # 0
        /\ sent[f].begin /\ Same(f, l) /\ sent[l].end /\ f \in se.List
    BY DEF Completing
  <1>3. /\ \A m : Place(m)' = Place(m) /\ (Ordered(m)' <=> Ordered(m))
    BY <1>1, PeerKept
  <1>4. \A n \in Numbers : n \in Nat
    BY Parameters DEF Numbers
  <1>5. se.List \subseteq came /\ se.List \in SUBSET Numbers /\ f \in f..l
    BY <1>1 DEF ChunksSound, Typed, Engine
  <1>6. \A n \in Numbers : Open(n)' => Open(n) /\ n \notin f..l
    <2> SUFFICES ASSUME NEW n \in Numbers, Open(n)' PROVE Open(n) /\ n \notin f..l
      OBVIOUS
    <2>1. Open(n)
      BY <1>1, <1>2, <1>3 DEF Open
    <2>2. n \notin f..l
      <3>1. f..l \subseteq came
        BY <1>5 DEF Completing
      <3> QED  BY <1>1, <1>2, <3>1 DEF Open
    <2> QED  BY <2>1, <2>2
  <1>7. Cursor' # 0 => Cursor' > l /\ Cursor' \in Nat
    <2>1. l \in Nat /\ Cursor' = Successor(se.List, l)
      BY <1>1 DEF Cursor
    <2> QED  BY <1>4, <1>5, <2>1, SuccessorIs
  <1>8. ASSUME NEW n \in Numbers, Relevant(n)'
        PROVE  Relevant(n) /\ n \notin f..l
    <2>1. Open(n) /\ n \notin f..l
      BY <1>6, <1>8 DEF Relevant
    <2>2. n > upTo \/ n >= f
      BY <1>1, <1>2, <1>4, <1>7, <1>8 DEF Relevant
    <2> QED  BY <1>2, <2>1, <2>2 DEF Relevant
  <1>9. \A r \in Stream :
          /\ ToSet(se'.prePduList[r]) = ToSet(se.prePduList[r]) \cup more(r)
          /\ Told(r)' = Told(r) \cup {pdu.first : pdu \in more(r)}
    BY <1>2, CompleteTold
  <1>10. \A r \in Stream : \A pdu \in more(r) : pdu = Whole(f, l) /\ pdu.first = f /\ r = s
    BY DEF Whole
  <1>11. Ordered(f) /\ f \notin kept => Relevant(f)
    BY <1>2, <1>4, <1>1 DEF Relevant, Open
  <1>12. ASSUME NEW n \in Numbers, Open(n), n \notin f..l, sent[n].sid = s, Ordered(f), n <= f
         PROVE  Place(n) > Place(f)
    <2>1. n < f
      BY <1>1, <1>4, <1>12
    <2> QED  BY <1>2, <1>12, <2>1, Apart DEF Open
  <1>13. ASSUME NEW n, Ordered(n) PROVE Place(n) \in Nat
    BY <1>13, Places
  <1>14. \A r \in Stream : NextPlace(r) \in Nat
    BY NextPlaces
  <1>15. ASSUME NEW n \in Numbers, Relevant(n)', sent[n].sid = s, Ordered(f) PROVE f < n
    <2>1. Open(n) /\ n \notin f..l
      BY <1>6, <1>15 DEF Relevant
    <2>2. CASE n >= f
      BY <1>1, <1>4, <2>1, <2>2
    <2>3. CASE n < f
      <3>1. n > upTo
        BY <1>1, <1>2, <1>4, <1>7, <1>15, <2>3 DEF Relevant
      <3>2. Place(n) <= NextPlace(s)
        BY <1>15, <2>1, <3>1 DEF OrderSound
      <3>3. Place(f) >= NextPlace(s)
        BY <1>15, CompletePlaces
      <3>4. Place(n) > Place(f)
        BY <1>4, <1>12, <1>15, <1>1, <2>1, <2>3
      <3> QED  BY <1>1, <1>13, <1>14, <1>15, <2>1, <3>2, <3>3, <3>4 DEF Open
    <2> QED  BY <1>1, <1>4, <2>2, <2>3
  <1>16. ASSUME NEW r \in Stream, NEW g \in Told(r)', NEW n \in Numbers,
                Ordered(g), Relevant(n)', sent[n].sid = r
         PROVE  g < n
    <2>1. CASE g \in Told(r)
      BY <1>8, <1>16, <2>1 DEF OrderSound
    <2>2. CASE g \notin Told(r)
      <3>1. g = f /\ r = s
        BY <1>9, <1>10, <1>16, <2>2
      <3> QED  BY <1>15, <1>16, <3>1
    <2> QED  BY <2>1, <2>2
  <1>17. ASSUME NEW n \in Numbers, Open(n)', n > upTo
         PROVE  Place(n) <= NextPlace(sent[n].sid)'
    <2> DEFINE r == sent[n].sid
    <2>1. Open(n) /\ n \notin f..l /\ Ordered(n) /\ Place(n) <= NextPlace(r)
      BY <1>6, <1>17 DEF OrderSound, Open
    <2>2. r \in Stream /\ sent'[n].sid = r
      BY <1>1, <2>1, SentIs DEF Ordered
    <2>3. NextPlace(r)' = IF r = s /\ Followed(f) THEN NextPlace(r) - 1 ELSE NextPlace(r)
      BY <2>2, CompletePlaces
    <2>4. r = s /\ Followed(f) => Place(n) # NextPlace(r)
      <3> SUFFICES ASSUME r = s, Followed(f) PROVE Place(n) # Place(f)
        BY CompletePlaces
      <3>1. Ordered(f)
        BY CompletePlaces
      <3> QED  BY <1>1, <1>2, <2>1, <3>1, MessagePlace
    <2>5. Place(n) \in Nat /\ NextPlace(r) \in Nat
      BY <1>13, <1>14, <2>1, <2>2
    <2> HIDE DEF r
    <2>6. Place(n) <= NextPlace(r)'
      BY <2>1, <2>3, <2>4, <2>5
    <2> QED  BY <2>2, <2>6 DEF NextPlace, r
  <1>18. ASSUME NEW g \in Told(s) PROVE Behind(g, f)
    <2>1. g # f
      BY <1>1, <1>2, <1>18 DEF OrderSound
    <2>2. Ordered(g) /\ Ordered(f) /\ f \notin kept => g < f
      BY <1>1, <1>11, <1>18 DEF OrderSound
    <2> QED  BY <2>1, <2>2 DEF Behind
  <1>19. ASSUME NEW r \in Stream, NEW i \in DOMAIN se'.prePduList[r],
                NEW j \in DOMAIN se'.prePduList[r], i < j
         PROVE  Behind(se'.prePduList[r][i].first, se'.prePduList[r][j].first)
    <2>1. PICK W : se \in Engine(W) /\ Whole(f, l) \in Interval(W)
      <3>1. \E W : se \in Engine(W) /\ se' \in Engine(W) /\ Whole(f, l) \in Interval(W)
        <4>1. Completed(f, l)
          BY CompleteIs
        <4> QED  BY <4>1 DEF Completed
      <3> QED  BY <3>1
    <2> DEFINE q == se.prePduList[r]
    <2>2. q \in Seq(Interval(W))
      BY <2>1 DEF Engine
    <2>3. CASE r # s
      <3>1. se'.prePduList[r] = q
        <4>1. Completed(f, l)
          BY CompleteIs
        <4> QED  BY <2>3, <4>1 DEF Completed
      <3> QED  BY <1>19, <3>1 DEF OrderSound
    <2>4. CASE r = s
      <3>1. se'.prePduList[r] = Append(q, Whole(f, l))
        <4>1. Completed(f, l)
          BY CompleteIs
        <4> QED  BY <2>4, <4>1 DEF Completed
      <3> HIDE DEF q
      <3>2. /\ DOMAIN q = 1..Len(q) /\ Len(q) \in Nat
            /\ DOMAIN Append(q, Whole(f, l)) = 1..(Len(q) + 1)
            /\ Append(q, Whole(f, l))[Len(q) + 1] = Whole(f, l)
            /\ \A k \in 1..Len(q) : Append(q, Whole(f, l))[k] = q[k]
        BY <2>1, <2>2
      <3>3. i \in 1..Len(q) /\ se'.prePduList[r][i] = q[i]
        <4>1. i \in 1..(Len(q) + 1) /\ j \in 1..(Len(q) + 1)
          BY <1>19, <3>1, <3>2
        <4>2. i \in 1..Len(q)
          BY <1>19, <3>2, <4>1
        <4> QED  BY <3>1, <3>2, <4>2
      <3>4. CASE j \in 1..Len(q)
        <4>1. se'.prePduList[r][j] = q[j]
          BY <3>1, <3>2, <3>4
        <4> QED  BY <1>19, <3>2, <3>3, <3>4, <4>1 DEF OrderSound, q
      <3>5. CASE j \notin 1..Len(q)
        <4>1. se'.prePduList[r][j].first = f
          <5>1. j = Len(q) + 1
            BY SMTT(30), <3>1, <3>2, <3>5
          <5> QED  BY <3>1, <3>2, <5>1 DEF Whole
        <4>2. q[i].first \in Told(s)
          BY <2>4, <3>2, <3>3 DEF Told, ToSet, q
        <4>3. Behind(q[i].first, f)
          BY <1>18, <4>2
        <4> QED  BY <3>3, <4>1, <4>3
      <3> QED  BY <3>4, <3>5
    <2> QED  BY <2>3, <2>4
  <1>20. ASSUME NEW r \in Stream, NEW g \in ToSet(announced[r]),
                NEW pdu \in ToSet(se'.prePduList[r])
         PROVE  Behind(g, pdu.first)
    <2>1. CASE pdu \in ToSet(se.prePduList[r])
      BY <1>20, <2>1 DEF OrderSound
    <2>2. CASE pdu \notin ToSet(se.prePduList[r])
      <3>1. pdu.first = f /\ r = s
        BY <1>9, <1>10, <1>20, <2>2
      <3>2. g \in Told(s)
        BY <3>1 DEF Told
      <3> QED  BY <1>18, <3>1, <3>2
    <2> QED  BY <2>1, <2>2
  <1>21. \A r \in Stream : \A i, j \in DOMAIN announced[r] :
           i < j => Behind(announced[r][i], announced[r][j])
    BY DEF OrderSound
  <1>22. \A r \in Stream : Told(r)' \cap se'.List = {}
    <2> TAKE r \in Stream
    <2>1. Told(r)' = Told(r) \cup {pdu.first : pdu \in more(r)}
      BY <1>9
    <2>2. Told(r) \cap se.List = {}
      BY DEF OrderSound
    <2> HIDE DEF more
    <2>3. \A g \in Told(r)' : g \in Told(r) \/ g = f
      BY <1>10, <2>1
    <2> QED  BY <1>1, <1>5, <2>2, <2>3
  <1>23. \A k \in kept, n \in Numbers : Open(n)' => k < n
    BY <1>6 DEF OrderSound
  <1> HIDE DEF s, more
  <1> QED
    BY <1>1, <1>2, <1>3, <1>16, <1>17, <1>19, <1>20, <1>21, <1>22, <1>23 DEF OrderSound, Behind

-----------------------------------------------------------------------------
(* SearchBegin, SearchFragment, SearchEnd *)

\* A step of the search that completes no PDU
SearchStep ==
  /\ peer' = peer /\ UNCHANGED <<came, point, hasData, upTo, given, kept, announced>>
  /\ se'.List = se.List /\ se'.nextSSN = se.nextSSN
  /\ se'.prePduList = se.prePduList /\ se'.pduList = se.pduList
  /\ \E V : se' \in Engine(V)
  /\ phase = "search" /\ phase' \in {"search", "deliver"} /\ aborted' \in BOOLEAN
  /\ scan' \in [at : {0} \cup Numbers, first : {0} \cup Numbers]

LEMMA SearchStepBase ==
  ASSUME Base, SearchStep, ScanSound'
  PROVE  Base'
  <1> USE DEF Base, SearchStep
  <1>1. Typed'
    <2>1. peer' \in [base : TSN, nextSSN : [Stream -> SSN], sent : Seq(Fragment)]
      BY DEF Typed
    <2> QED  BY <2>1 DEF Typed
  <1>2. PeerSound' /\ PeerNumbered' /\ sent' = sent
    BY PeerKept
  <1>3. ChunksSound'
    BY <1>2 DEF ChunksSound
  <1>4. PDUsSound'
    <2>1. \A s \in Stream : PDUs(s)' = PDUs(s)
      BY DEF PDUs
    <2>2. \A s, f, l : IsMessage(s, f, l) => IsMessage(s, f, l)'
      BY PeerKept DEF IsMessage
    <2> QED  BY <1>2, <2>1, <2>2 DEF PDUsSound
  <1> QED  BY <1>1, <1>2, <1>3, <1>4

LEMMA SearchStepSearch ==
  ASSUME Base, SearchExact, SearchStep,
         ~aborted' => ~aborted,
         \A f \in Numbers : ~aborted' /\ Ready(f) /\ Cursor # 0 /\ f >= Cursor =>
           phase' = "search" /\ Cursor' # 0 /\ f >= Cursor'
  PROVE  SearchExact'
  <1> SUFFICES ASSUME ~aborted', NEW f \in Numbers, Ready(f)'
               PROVE  phase' = "search" /\ Cursor' # 0 /\ f >= Cursor'
    BY DEF SearchExact
  <1>1. Ready(f)
    BY ReadyKept DEF SearchStep
  <1>2. Cursor # 0 /\ f >= Cursor
    BY <1>1 DEF SearchExact, SearchStep
  <1> QED  BY <1>1, <1>2

LEMMA SearchStepNumbered ==
  ASSUME Base, NextSound, ArrivedSound, SearchStep
  PROVE  NextSound' /\ ArrivedSound'
  <1>1. NextSound'
    BY EngineKept DEF SearchStep
  <1>2. ArrivedSound'
    <2>1. \A s : Told(s)' = Told(s)
      BY DEF Told, SearchStep
    <2> QED  BY <2>1, ArrivedKept DEF SearchStep, Base
  <1> QED  BY <1>1, <1>2

LEMMA SearchStepOrder ==
  ASSUME Base, OrderSound, SearchStep,
         \A n \in Numbers : phase' = "search" /\ Cursor' # 0 /\ n >= Cursor' =>
           Cursor # 0 /\ n >= Cursor
  PROVE  OrderSound'
  <1>1. \A m : Ordered(m)' <=> Ordered(m)
    BY PeerKept DEF SearchStep
  <1>2. sent' = sent
    BY DEF SearchStep, sent
  <1>3. \A m \in Numbers : Open(m)' => Open(m)
    BY <1>1, <1>2 DEF Open, SearchStep
  <1>4. \A m \in Numbers : Relevant(m)' => Relevant(m)
    BY <1>3 DEF Relevant, SearchStep
  <1> QED  BY <1>3, <1>4, OrderSoundKept DEF SearchStep

\* What the search notes of a chunk leaves the rest of the engine as it is.
LEMMA NotedIs ==
  ASSUME Base, NEW n \in DOMAIN sent
  PROVE  LET e == Noted(se, sent[n])
         IN  /\ \E V : e \in Engine(V)
             /\ e.List = se.List /\ e.nextSSN = se.nextSSN
             /\ e.prePduList = se.prePduList /\ e.pduList = se.pduList
  <1> DEFINE c == sent[n]
             e == Noted(se, c)
  <1> USE DEF Base
  <1>1. PICK V : se \in Engine(V)
    BY DEF Typed
  <1>2. c.sid \in Stream /\ c.ssn \in SSN
    BY SentIs
  <1> HIDE DEF c
  <1>3. e \in Engine(V)
    BY <1>1, <1>2 DEF Noted, Engine
  <1>4. e.List = se.List /\ e.nextSSN = se.nextSSN
        /\ e.prePduList = se.prePduList /\ e.pduList = se.pduList
    BY <1>1 DEF Noted, Engine
  <1> QED  BY <1>3, <1>4 DEF c

LEMMA SearchBeginIs ==
  ASSUME Base, SearchBegin
  PROVE  LET n == scan.at
             c == sent[n]
             begun == c.begin /\ Deliverable(c)
         IN  /\ n \in se.List /\ n \in DOMAIN sent /\ Cursor = n /\ n # 0
             /\ \/ SearchStep /\ phase' = "deliver" /\ aborted'
                \/ Completing(Noted(se, c), n, n)
                \/ /\ SearchStep /\ phase' = "search" /\ aborted' = aborted
                   /\ scan'.at = Successor(se.List, n)
                   /\ scan'.first = IF begun THEN n ELSE 0
                   /\ ~(begun /\ c.end)
  <1> DEFINE n == scan.at
             c == sent[n]
             begun == c.begin /\ Deliverable(c)
             e == Noted(se, c)
  <1> USE DEF Base
  <1>1. /\ phase = "search" /\ n # 0 /\ scan.first = 0
        /\ IF OutOfOrder(c) THEN Abort
           ELSE IF begun /\ c.end THEN Complete(e, n, n)
           ELSE /\ se' = e
                /\ scan' = [at |-> Successor(se.List, n), first |-> IF begun THEN n ELSE 0]
                /\ UNCHANGED <<phase, aborted>>
        /\ UNCHANGED <<peer, came, point, hasData, upTo, given, kept, announced>>
    BY DEF SearchBegin
  <1>2. n \in se.List /\ Cursor = n
    BY <1>1 DEF ScanSound, Cursor
  <1>3. n \in DOMAIN sent /\ n \in 1..Len(sent) /\ Len(sent) \in Nat /\ n \in Numbers
    BY <1>2, SentIs DEF ChunksSound
  <1>4. /\ \E V : e \in Engine(V)
        /\ e.List = se.List /\ e.nextSSN = se.nextSSN
        /\ e.prePduList = se.prePduList /\ e.pduList = se.pduList
    BY <1>3, NotedIs
  <1> HIDE DEF n, c, e, begun
  <1>5. CASE OutOfOrder(c)
    <2>1. aborted' = TRUE /\ phase' = "deliver" /\ se' = se /\ scan' = scan
      BY <1>1, <1>5 DEF Abort
    <2>2. SearchStep
      BY <1>1, <2>1 DEF SearchStep, Typed
    <2> QED  BY <1>2, <1>1, <1>3, <2>1, <2>2 DEF n
  <1>6. CASE ~OutOfOrder(c) /\ begun /\ c.end
    <2>1. Complete(e, n, n)
      BY <1>1, <1>6
    <2>2. n \in n..Len(sent) /\ Same(n, n) /\ n..n \subseteq se.List
      BY <1>2, <1>3 DEF Same
    <2>3. Completing(e, n, n)
      BY <1>1, <1>2, <1>4, <1>6, <2>1, <2>2 DEF Completing, c, begun
    <2> QED  BY <1>1, <1>2, <1>3, <2>3 DEF n, c, e
  <1>7. CASE ~OutOfOrder(c) /\ ~(begun /\ c.end)
    <2>1. /\ se' = e /\ UNCHANGED <<phase, aborted>>
          /\ scan' = [at |-> Successor(se.List, n), first |-> IF begun THEN n ELSE 0]
      BY <1>1, <1>7
    <2>2. Successor(se.List, n) \in {0} \cup Numbers
      <3>1. n \in Nat /\ se.List \in SUBSET Numbers
        BY <1>3 DEF Typed, Engine
      <3> QED  BY <3>1, SuccessorIs
    <2>3. scan' \in [at : {0} \cup Numbers, first : {0} \cup Numbers]
          /\ scan'.at = Successor(se.List, n) /\ scan'.first = IF begun THEN n ELSE 0
      BY <1>3, <2>1, <2>2
    <2>4. phase' \in {"search", "deliver"} /\ aborted' \in BOOLEAN /\ phase' = "search"
      BY <1>1, <2>1 DEF Typed
    <2>5. SearchStep
      BY <1>1, <1>4, <2>1, <2>3, <2>4 DEF SearchStep
    <2> QED  BY <1>1, <1>2, <1>3, <1>7, <2>1, <2>3, <2>4, <2>5 DEF n, c, begun
  <1> QED  BY <1>5, <1>6, <1>7

\* A message is not passed by: it is complete as far as the search has come
\* only if the list goes on with the next chunk.
LEMMA NotPassed ==
  ASSUME Base, phase = "search", scan.first # 0, NEW g \in Numbers, Ready(g), g >= scan.first
  PROVE  scan.at # 0 /\ (g >= scan.at \/ Continues(scan.at))
  <1> DEFINE f == scan.first
             n == scan.at
  <1> USE DEF Base
  <1>1. f \in se.List /\ n = scan.at
    BY DEF ScanSound
  <1>2. PICK p \in Numbers : /\ p >= f /\ f..p \subseteq se.List
                             /\ \A k \in f..p : ~sent[k].end
                             /\ n = Successor(se.List, p)
    BY DEF ScanSound
  <1>3. f \in DOMAIN sent /\ f \in Nat /\ p \in Nat /\ g \in Nat /\ se.List \in SUBSET Numbers
        /\ g \in se.List /\ g \in DOMAIN sent /\ sent[g].begin /\ \A m \in Numbers : m \in Nat
    <2>1. f \in DOMAIN sent /\ g \in se.List /\ g \in DOMAIN sent /\ sent[g].begin
      BY <1>1 DEF ChunksSound, Ready
    <2>2. \A m \in Numbers : m \in Nat
      BY Parameters DEF Numbers
    <2>3. se.List \in SUBSET Numbers
      BY DEF Typed, Engine
    <2> QED  BY <1>1, <1>2, <2>1, <2>2, <2>3
  <1>4. /\ n \in {0} \cup se.List
        /\ n # 0 => n > p
        /\ \A m \in se.List : m > p => n # 0 /\ n <= m
    <2> HIDE DEF n
    <2> QED  BY <1>2, <1>3, SuccessorIs
  <1> HIDE DEF f, n
  <1>5. CASE g = f
    <2>1. PICK l \in g..Len(sent) : Same(g, l) /\ sent[l].end /\ g..l \subseteq se.List
      BY DEF Ready
    <2>2. l > p /\ l \in Int
      BY <1>2, <1>3, <1>5, <2>1, SentIs
    <2>3. p + 1 \in se.List
      <3>1. p >= g
        BY <1>2, <1>5
      <3>2. p + 1 \in g..l
        BY <1>3, <2>2, <3>1
      <3> QED  BY <2>1, <3>2
    <2>4. n = p + 1
      BY <1>3, <1>4, <2>3
    <2>5. p \in se.List
      BY <1>2, <1>3
    <2>6. n - 1 \in se.List
      BY <1>3, <2>4, <2>5
    <2> QED  BY <1>3, <1>4, <2>4, <2>6 DEF Continues, n
  <1>6. CASE g > f /\ g <= p
    <2>1. Same(f, g)
      BY <1>2, <1>3, <1>6 DEF Same
    <2> QED  BY <1>3, <1>6, <2>1 DEF PeerSound
  <1>7. CASE g > p
    BY <1>3, <1>4, <1>7 DEF n
  <1>8. g >= f
    BY DEF f
  <1> QED  BY <1>2, <1>3, <1>5, <1>6, <1>7, <1>8

LEMMA SearchFragmentIs ==
  ASSUME Base, SearchFragment
  PROVE  LET n == scan.at
             f == scan.first
         IN  /\ n \in se.List /\ f \in se.List /\ Cursor = f /\ f # 0 /\ n # 0
             /\ phase = "search" /\ n \in Nat /\ f \in Nat /\ f < n
             /\ \/ SearchStep /\ phase' = "deliver" /\ aborted'
                \/ Completing(se, f, n)
                \/ /\ SearchStep /\ phase' = "search" /\ aborted' = aborted
                   /\ scan'.first = f /\ scan'.at = Successor(se.List, n)
                   /\ f..n \subseteq se.List /\ \A k \in f..n : ~sent[k].end
                \/ /\ SearchStep /\ phase' = "search" /\ aborted' = aborted
                   /\ scan'.first = 0 /\ scan'.at = n /\ ~Continues(n)
  <1> DEFINE f == scan.first
             n == scan.at
  <1> USE DEF Base
  <1>1. /\ phase = "search" /\ n # 0 /\ f # 0
        /\ IF Violation(f, n) THEN Abort
           ELSE IF Matches(f, n) /\ sent[n].end THEN Complete(se, f, n)
           ELSE /\ scan' = IF Matches(f, n) THEN [scan EXCEPT !.at = Successor(se.List, n)]
                           ELSE Resume(n)
                /\ UNCHANGED <<se, phase, aborted>>
        /\ UNCHANGED <<peer, came, point, hasData, upTo, given, kept, announced>>
    BY DEF SearchFragment
  <1>2. /\ n \in se.List /\ f \in se.List /\ sent[f].begin /\ Deliverable(sent[f]) /\ Cursor = f
    BY <1>1 DEF ScanSound, Cursor
  <1>3. PICK p \in Numbers : /\ p >= f /\ f..p \subseteq se.List
                             /\ \A k \in f..p : ~sent[k].end
                             /\ n = Successor(se.List, p)
    BY <1>1 DEF ScanSound
  <1>4. se.List \in SUBSET Numbers /\ \A m \in Numbers : m \in Nat
    BY Parameters DEF Numbers, Typed, Engine
  <1>5. f \in Nat /\ n \in Nat /\ p \in Nat /\ n > p /\ \A m \in se.List : m > p => n <= m
    BY <1>1, <1>2, <1>3, <1>4, SuccessorIs
  <1>6. n \in DOMAIN sent /\ n \in 1..Len(sent) /\ Len(sent) \in Nat
    BY <1>2, SentIs DEF ChunksSound
  <1>7. scan \in [at : {0} \cup Numbers, first : {0} \cup Numbers]
        /\ \E V : se \in Engine(V)
    BY DEF Typed
  <1> HIDE DEF f, n
  <1>8. ASSUME Continues(n)
        PROVE  n - 1 = p /\ f..n \subseteq se.List /\ (sent[n].end <=> ~ \A k \in f..n : ~sent[k].end)
    <2>1. n - 1 = p
      BY <1>4, <1>5, <1>8 DEF Continues
    <2>2. \A k \in f..n : k = n \/ k \in f..p
      BY <1>5, <2>1
    <2>3. n \in f..n
      BY <1>3, <1>5
    <2> QED  BY <1>2, <1>3, <2>1, <2>2, <2>3
  <1>9. CASE Violation(f, n)
    <2>1. aborted' = TRUE /\ phase' = "deliver" /\ se' = se /\ scan' = scan
      BY <1>1, <1>9 DEF Abort
    <2>2. SearchStep
      BY <1>1, <1>7, <2>1 DEF SearchStep
    <2> QED  BY <1>1, <1>2, <1>3, <1>5, <2>1, <2>2 DEF n, f
  <1>10. CASE ~Violation(f, n) /\ Matches(f, n) /\ sent[n].end
    <2>1. Complete(se, f, n)
      BY <1>1, <1>10
    <2>2. n - 1 = p /\ f..n \subseteq se.List
      BY <1>8, <1>10 DEF Matches
    <2>3. Same(f, n) /\ n \in f..Len(sent)
      BY <1>3, <1>5, <1>6, <2>2 DEF Same
    <2>4. Completing(se, f, n)
      BY <1>1, <1>2, <1>7, <1>10, <2>1, <2>2, <2>3 DEF Completing
    <2> QED  BY <1>1, <1>2, <1>3, <1>5, <2>4 DEF n, f
  <1>11. CASE ~Violation(f, n) /\ Matches(f, n) /\ ~sent[n].end
    <2>1. scan' = [scan EXCEPT !.at = Successor(se.List, n)] /\ UNCHANGED <<se, phase, aborted>>
      BY <1>1, <1>11
    <2>2. Successor(se.List, n) \in {0} \cup Numbers
      BY <1>4, <1>5, SuccessorIs
    <2>3. scan' \in [at : {0} \cup Numbers, first : {0} \cup Numbers]
          /\ scan'.at = Successor(se.List, n) /\ scan'.first = f
      BY <1>7, <2>1, <2>2 DEF f
    <2>4. SearchStep
      <3>1. phase' \in {"search", "deliver"} /\ aborted' \in BOOLEAN
        BY <1>1, <2>1 DEF Typed
      <3> QED  BY <1>1, <1>7, <2>1, <2>3, <3>1 DEF SearchStep
    <2>5. f..n \subseteq se.List /\ \A k \in f..n : ~sent[k].end
      BY <1>8, <1>11 DEF Matches
    <2> QED  BY <1>1, <1>2, <1>3, <1>5, <2>1, <2>3, <2>4, <2>5 DEF n, f
  <1>12. CASE ~Violation(f, n) /\ ~Matches(f, n)
    <2>1. scan' = Resume(n) /\ UNCHANGED <<se, phase, aborted>> /\ ~Continues(n)
      BY <1>1, <1>12 DEF Violation
    <2>2. scan' \in [at : {0} \cup Numbers, first : {0} \cup Numbers]
          /\ scan'.at = n /\ scan'.first = 0
      BY <1>2, <1>4, <2>1 DEF Resume
    <2>3. SearchStep
      <3>1. phase' \in {"search", "deliver"} /\ aborted' \in BOOLEAN
        BY <1>1, <2>1 DEF Typed
      <3> QED  BY <1>1, <1>7, <2>1, <2>2, <3>1 DEF SearchStep
    <2> QED  BY <1>1, <1>2, <1>3, <1>5, <2>1, <2>2, <2>3 DEF n, f
  <1> QED  BY <1>9, <1>10, <1>11, <1>12

\* The steps of the search, as they look from outside
LEMMA SearchBeginBase ==
  ASSUME Base, SearchBegin
  PROVE  Base'
  <1> DEFINE n == scan.at
             begun == sent[n].begin /\ Deliverable(sent[n])
  <1>1. /\ n \in se.List /\ n \in DOMAIN sent /\ Cursor = n /\ n # 0
        /\ \/ SearchStep /\ phase' = "deliver" /\ aborted'
           \/ Completing(Noted(se, sent[n]), n, n)
           \/ /\ SearchStep /\ phase' = "search" /\ aborted' = aborted
              /\ scan'.at = Successor(se.List, n)
              /\ scan'.first = IF begun THEN n ELSE 0
              /\ ~(begun /\ sent[n].end)
    BY SearchBeginIs
  <1>2. ASSUME SearchStep, phase' = "deliver" PROVE Base'
    BY <1>2, SearchStepBase DEF ScanSound
  <1>3. ASSUME Completing(Noted(se, sent[n]), n, n) PROVE Base'
    BY <1>3, CompleteBase
  <1>4. ASSUME NEW m, m = n, SearchStep, phase' = "search", scan'.at = Successor(se.List, m),
               scan'.first = IF begun THEN m ELSE 0, ~(begun /\ sent[m].end)
        PROVE  Base'
    <2>1. se.List \in SUBSET Numbers /\ m \in Nat /\ m \in Numbers /\ m \in se.List
      BY <1>1, <1>4, Parameters DEF Base, Typed, Engine, Numbers
    <2>2. scan'.at # 0 => scan'.at \in se.List
      BY <1>4, <2>1, SuccessorIs
    <2>3. peer' = peer /\ sent' = sent /\ se'.List = se.List /\ se'.nextSSN = se.nextSSN
      BY <1>4 DEF SearchStep, sent
    <2>4. Deliverable(sent[m])' <=> Deliverable(sent[m])
      BY <2>3, EngineKept
    <2>5. begun <=> sent[m].begin /\ Deliverable(sent[m])
      BY <1>4
    <2> HIDE DEF begun, n
    <2>6. ASSUME scan'.first # 0
          PROVE  /\ scan'.first = m /\ sent[m].begin /\ Deliverable(sent[m])'
                 /\ m..m \subseteq se.List /\ \A k \in m..m : ~sent[k].end
      <3>1. begun /\ scan'.first = m
        BY <1>4, <2>6
      <3>2. m..m = {m}
        BY <2>1
      <3> QED  BY <1>4, <2>1, <2>4, <2>5, <3>1, <3>2
    <2>7. ASSUME scan'.first # 0
          PROVE  /\ scan'.first \in se'.List /\ sent'[scan'.first].begin
                 /\ Deliverable(sent[scan.first])'
                 /\ \E p \in Numbers :
                      /\ p >= scan'.first /\ scan'.first..p \subseteq se'.List
                      /\ \A k \in scan'.first..p : ~sent'[k].end
                      /\ scan'.at = Successor(se'.List, p)
      <3>1. scan'.first = m /\ sent[m].begin /\ Deliverable(sent[m])'
            /\ m..m \subseteq se.List /\ \A k \in m..m : ~sent[k].end
        BY <2>6, <2>7
      <3>2. Deliverable(sent[scan.first])'
        BY <3>1 DEF Deliverable
      <3>3. m >= m
        BY <2>1
      <3> QED  BY <1>4, <2>1, <2>3, <3>1, <3>2, <3>3
    <2>8. ScanSound'
      BY <2>2, <2>3, <2>7 DEF ScanSound
    <2> QED  BY <1>4, <2>8, SearchStepBase
  <1> QED  BY <1>1, <1>2, <1>3, <1>4

LEMMA SearchBeginSearch ==
  ASSUME Base, SearchExact, SearchBegin
  PROVE  SearchExact'
  <1> DEFINE n == scan.at
             begun == sent[n].begin /\ Deliverable(sent[n])
  <1>1. /\ n \in se.List /\ n \in DOMAIN sent /\ Cursor = n /\ n # 0
        /\ \/ SearchStep /\ phase' = "deliver" /\ aborted'
           \/ Completing(Noted(se, sent[n]), n, n)
           \/ /\ SearchStep /\ phase' = "search" /\ aborted' = aborted
              /\ scan'.at = Successor(se.List, n)
              /\ scan'.first = IF begun THEN n ELSE 0
              /\ ~(begun /\ sent[n].end)
    BY SearchBeginIs
  <1>2. ASSUME SearchStep, aborted' PROVE SearchExact'
    BY <1>2, SearchStepSearch
  <1>3. ASSUME Completing(Noted(se, sent[n]), n, n)
        PROVE  SearchExact'
    BY <1>3, CompleteSearch
  <1>4. ASSUME SearchStep, phase' = "search", aborted' = aborted,
               scan'.at = Successor(se.List, n),
               scan'.first = IF begun THEN n ELSE 0, ~(begun /\ sent[n].end)
        PROVE  SearchExact'
    <2>1. se.List \in SUBSET Numbers /\ n \in Nat /\ n \in Numbers /\ \A m \in Numbers : m \in Nat
      BY <1>1, Parameters DEF Base, Typed, Engine, Numbers
    <2>2. Cursor' = IF begun THEN n ELSE Successor(se.List, n)
      BY <1>1, <1>4 DEF Cursor
    <2>3. ASSUME NEW f \in Numbers, Ready(f), f >= n PROVE Cursor' # 0 /\ f >= Cursor'
      <3>1. CASE begun
        BY <1>1, <2>2, <2>3, <3>1
      <3>2. CASE ~begun
        <4>1. f # n /\ f \in se.List
          BY <2>3, <3>2 DEF Ready
        <4>2. f > n /\ f \in Nat
          BY <2>1, <2>3, <4>1
        <4>3. Successor(se.List, n) # 0 /\ Successor(se.List, n) <= f
              /\ Successor(se.List, n) \in {0} \cup se.List
          BY <2>1, <4>1, <4>2, SuccessorIs
        <4>4. Successor(se.List, n) \in Nat
          BY <2>1, <4>3
        <4> QED  BY <2>2, <3>2, <4>2, <4>3, <4>4
      <3> QED  BY <3>1, <3>2
    <2> QED  BY <1>1, <1>4, <2>3, SearchStepSearch
  <1> QED  BY <1>1, <1>2, <1>3, <1>4

LEMMA SearchBeginNumbered ==
  ASSUME Base, NextSound, ArrivedSound, SearchBegin
  PROVE  NextSound' /\ ArrivedSound'
  <1>1. SearchStep \/ Completing(Noted(se, sent[scan.at]), scan.at, scan.at)
    BY SearchBeginIs
  <1>2. CASE SearchStep
    BY <1>2, SearchStepNumbered
  <1>3. CASE Completing(Noted(se, sent[scan.at]), scan.at, scan.at)
    BY <1>3, CompleteNextSound, CompleteArrived
  <1> QED  BY <1>1, <1>2, <1>3

LEMMA SearchBeginOrder ==
  ASSUME Base, NextSound, OrderSound, SearchBegin
  PROVE  OrderSound'
  <1> DEFINE n == scan.at
             begun == sent[n].begin /\ Deliverable(sent[n])
  <1>1. /\ n \in se.List /\ n \in DOMAIN sent /\ Cursor = n /\ n # 0
        /\ \/ SearchStep /\ phase' = "deliver" /\ aborted'
           \/ Completing(Noted(se, sent[n]), n, n)
           \/ /\ SearchStep /\ phase' = "search" /\ aborted' = aborted
              /\ scan'.at = Successor(se.List, n)
              /\ scan'.first = IF begun THEN n ELSE 0
              /\ ~(begun /\ sent[n].end)
    BY SearchBeginIs
  <1>2. ASSUME SearchStep, phase' = "deliver" PROVE OrderSound'
    BY <1>2, SearchStepOrder
  <1>3. ASSUME Completing(Noted(se, sent[n]), n, n) PROVE OrderSound'
    BY <1>3, CompleteOrder
  <1>4. ASSUME SearchStep, scan'.at = Successor(se.List, n), scan'.first = IF begun THEN n ELSE 0
        PROVE  OrderSound'
    <2>1. se.List \in SUBSET Numbers /\ n \in Nat /\ \A m \in Numbers : m \in Nat
      BY <1>1, Parameters DEF Base, Typed, Engine, Numbers
    <2>2. Cursor' = IF begun THEN n ELSE Successor(se.List, n)
      BY <1>1, <1>4 DEF Cursor
    <2>3. Successor(se.List, n) # 0 => Successor(se.List, n) > n /\ Successor(se.List, n) \in Nat
      BY <2>1, SuccessorIs
    <2>4. \A m \in Numbers : Cursor' # 0 /\ m >= Cursor' => m >= n
      BY <2>1, <2>2, <2>3
    <2> QED  BY <1>1, <1>4, <2>4, SearchStepOrder
  <1> QED  BY <1>1, <1>2, <1>3, <1>4

LEMMA SearchFragmentBase ==
  ASSUME Base, SearchFragment
  PROVE  Base'
  <1>1. PICK n, f : n = scan.at /\ f = scan.first
    OBVIOUS
  <1>2. /\ n \in se.List /\ f \in se.List /\ Cursor = f /\ f # 0 /\ n # 0
        /\ phase = "search" /\ n \in Nat /\ f \in Nat /\ f < n
        /\ \/ SearchStep /\ phase' = "deliver" /\ aborted'
           \/ Completing(se, f, n)
           \/ /\ SearchStep /\ phase' = "search" /\ aborted' = aborted
              /\ scan'.first = f /\ scan'.at = Successor(se.List, n)
              /\ f..n \subseteq se.List /\ \A k \in f..n : ~sent[k].end
           \/ /\ SearchStep /\ phase' = "search" /\ aborted' = aborted
              /\ scan'.first = 0 /\ scan'.at = n /\ ~Continues(n)
    BY <1>1, SearchFragmentIs
  <1>3. se.List \in SUBSET Numbers
    BY DEF Base, Typed, Engine
  <1>4. ASSUME SearchStep, phase' = "deliver" PROVE Base'
    BY <1>4, SearchStepBase DEF ScanSound
  <1>5. ASSUME Completing(se, f, n) PROVE Base'
    BY <1>5, CompleteBase
  <1>6. ASSUME SearchStep, phase' = "search", scan'.first = f, scan'.at = Successor(se.List, n),
               f..n \subseteq se.List, \A k \in f..n : ~sent[k].end
        PROVE  Base'
    <2>1. peer' = peer /\ sent' = sent /\ se'.List = se.List /\ se'.nextSSN = se.nextSSN
      BY <1>6 DEF SearchStep, sent
    <2>2. sent[f].begin /\ Deliverable(sent[f])
      BY <1>1, <1>2 DEF Base, ScanSound
    <2>3. Deliverable(sent[f])'
      BY <2>1, <2>2, EngineKept
    <2>4. Deliverable(sent[scan.first])'
      BY <1>6, <2>3 DEF Deliverable
    <2>5. scan'.at # 0 => scan'.at \in se.List
      BY <1>2, <1>3, <1>6, SuccessorIs
    <2>6. n \in Numbers /\ n >= f
      BY <1>2, <1>3
    <2>7. ScanSound'
      BY <1>2, <1>6, <2>1, <2>2, <2>4, <2>5, <2>6 DEF ScanSound
    <2> QED  BY <1>6, <2>7, SearchStepBase
  <1>7. ASSUME SearchStep, phase' = "search", scan'.first = 0, scan'.at = n
        PROVE  Base'
    <2>1. ScanSound'
      BY <1>2, <1>7 DEF ScanSound, SearchStep
    <2> QED  BY <1>7, <2>1, SearchStepBase
  <1> QED  BY <1>2, <1>4, <1>5, <1>6, <1>7

LEMMA SearchFragmentSearch ==
  ASSUME Base, SearchExact, SearchFragment
  PROVE  SearchExact'
  <1>1. PICK n, f : n = scan.at /\ f = scan.first
    OBVIOUS
  <1>2. /\ n \in se.List /\ f \in se.List /\ Cursor = f /\ f # 0 /\ n # 0
        /\ phase = "search" /\ n \in Nat /\ f \in Nat /\ f < n
        /\ \/ SearchStep /\ phase' = "deliver" /\ aborted'
           \/ Completing(se, f, n)
           \/ /\ SearchStep /\ phase' = "search" /\ aborted' = aborted
              /\ scan'.first = f /\ scan'.at = Successor(se.List, n)
              /\ f..n \subseteq se.List /\ \A k \in f..n : ~sent[k].end
           \/ /\ SearchStep /\ phase' = "search" /\ aborted' = aborted
              /\ scan'.first = 0 /\ scan'.at = n /\ ~Continues(n)
    BY <1>1, SearchFragmentIs
  <1>3. ASSUME SearchStep, aborted' PROVE SearchExact'
    BY <1>3, SearchStepSearch
  <1>4. ASSUME Completing(se, f, n) PROVE SearchExact'
    BY <1>4, CompleteSearch
  <1>5. ASSUME SearchStep, phase' = "search", aborted' = aborted, scan'.first = f
        PROVE  SearchExact'
    <2>1. Cursor' = Cursor /\ Cursor # 0
      BY <1>2, <1>5 DEF Cursor
    <2> QED  BY <1>5, <2>1, SearchStepSearch
  <1>6. ASSUME SearchStep, phase' = "search", aborted' = aborted, scan'.first = 0, scan'.at = n,
               ~Continues(n)
        PROVE  SearchExact'
    <2>1. Cursor' = n /\ n # 0
      BY <1>2, <1>6 DEF Cursor
    <2>2. \A g \in Numbers : Ready(g) /\ g >= f => g >= n
      BY <1>1, <1>2, <1>6, NotPassed
    <2> QED  BY <1>2, <1>6, <2>1, <2>2, SearchStepSearch
  <1> QED  BY <1>2, <1>3, <1>4, <1>5, <1>6

LEMMA SearchFragmentNumbered ==
  ASSUME Base, NextSound, ArrivedSound, SearchFragment
  PROVE  NextSound' /\ ArrivedSound'
  <1>1. SearchStep \/ Completing(se, scan.first, scan.at)
    BY SearchFragmentIs
  <1>2. CASE SearchStep
    BY <1>2, SearchStepNumbered
  <1>3. CASE Completing(se, scan.first, scan.at)
    BY <1>3, CompleteNextSound, CompleteArrived
  <1> QED  BY <1>1, <1>2, <1>3

LEMMA SearchFragmentOrder ==
  ASSUME Base, NextSound, OrderSound, SearchFragment
  PROVE  OrderSound'
  <1>1. PICK n, f : n = scan.at /\ f = scan.first
    OBVIOUS
  <1>2. /\ n \in se.List /\ f \in se.List /\ Cursor = f /\ f # 0 /\ n # 0
        /\ phase = "search" /\ n \in Nat /\ f \in Nat /\ f < n
        /\ \/ SearchStep /\ phase' = "deliver" /\ aborted'
           \/ Completing(se, f, n)
           \/ /\ SearchStep /\ phase' = "search" /\ aborted' = aborted
              /\ scan'.first = f /\ scan'.at = Successor(se.List, n)
              /\ f..n \subseteq se.List /\ \A k \in f..n : ~sent[k].end
           \/ /\ SearchStep /\ phase' = "search" /\ aborted' = aborted
              /\ scan'.first = 0 /\ scan'.at = n /\ ~Continues(n)
    BY <1>1, SearchFragmentIs
  <1>3. ASSUME SearchStep, phase' = "deliver" PROVE OrderSound'
    BY <1>3, SearchStepOrder
  <1>4. ASSUME Completing(se, f, n) PROVE OrderSound'
    BY <1>4, CompleteOrder
  <1>5. ASSUME SearchStep, scan'.first = f PROVE OrderSound'
    <2>1. Cursor' = Cursor
      BY <1>2, <1>5 DEF Cursor
    <2> QED  BY <1>5, <2>1, SearchStepOrder
  <1>6. ASSUME SearchStep, scan'.first = 0, scan'.at = n PROVE OrderSound'
    <2>1. Cursor' = n
      BY <1>6 DEF Cursor
    <2>2. \A m \in Numbers : m >= n => m >= f
      BY <1>2, Parameters DEF Numbers
    <2> QED  BY <1>2, <1>6, <2>1, <2>2, SearchStepOrder
  <1> QED  BY <1>2, <1>3, <1>4, <1>5, <1>6

LEMMA SearchEndIs ==
  ASSUME Base, SearchEnd
  PROVE  SearchStep /\ phase = "search" /\ phase' = "deliver" /\ scan.at = 0 /\ aborted' = aborted
  BY DEF SearchEnd, SearchStep, Base, Typed

LEMMA SearchEndBase ==
  ASSUME Base, SearchEnd
  PROVE  Base'
  <1>1. SearchStep /\ phase' = "deliver"
    BY SearchEndIs
  <1> QED  BY <1>1, SearchStepBase DEF ScanSound

LEMMA SearchEndSearch ==
  ASSUME Base, SearchExact, SearchEnd
  PROVE  SearchExact'
  <1>1. SearchStep /\ phase = "search" /\ phase' = "deliver" /\ scan.at = 0 /\ aborted' = aborted
    BY SearchEndIs
  <1>2. ASSUME NEW g \in Numbers, Ready(g), Cursor # 0, g >= Cursor PROVE FALSE
    <2>1. scan.first # 0 /\ Cursor = scan.first
      BY <1>1, <1>2 DEF Cursor
    <2> QED  BY <1>1, <1>2, <2>1, NotPassed
  <1> QED  BY <1>1, <1>2, SearchStepSearch

LEMMA SearchEndNumbered ==
  ASSUME Base, NextSound, ArrivedSound, SearchEnd
  PROVE  NextSound' /\ ArrivedSound'
  BY SearchEndIs, SearchStepNumbered

LEMMA SearchEndOrder ==
  ASSUME Base, OrderSound, SearchEnd
  PROVE  OrderSound'
  BY SearchEndIs, SearchStepOrder

-----------------------------------------------------------------------------
(* DeliverWaiting, Delivered, UlpReceiveFrom *)

\* A PDU goes from prePduList to pduList, and is announced.
LEMMA DeliverWaitingIs ==
  ASSUME Base, DeliverWaiting
  PROVE  \E s \in Stream :
           /\ se.prePduList[s] # <<>> /\ phase = "deliver"
           /\ UNCHANGED <<peer, came, point, scan, phase, hasData, upTo, aborted, given, kept>>
           /\ se'.List = se.List /\ se'.nextSSN = se.nextSSN
           /\ \E V : se \in Engine(V) /\ se' \in Engine(V)
           /\ \A r \in Stream :
                /\ se'.prePduList[r] = IF r = s THEN Tail(se.prePduList[r]) ELSE se.prePduList[r]
                /\ se'.pduList[r] = IF r = s THEN Append(se.pduList[r], Head(se.prePduList[r]))
                                    ELSE se.pduList[r]
                /\ announced'[r] = IF r = s THEN Append(announced[r], Head(se.prePduList[r]).first)
                                   ELSE announced[r]
           /\ announced' \in [Stream -> Seq(Numbers)]
  <1> DEFINE s == Min(Waiting)
             pdu == Head(se.prePduList[s])
             d == [se EXCEPT !.prePduList[s] = Tail(@), !.pduList[s] = Append(@, pdu)]
  <1> USE DEF Base
  <1>1. /\ phase = "deliver" /\ Waiting # {} /\ se' = d
        /\ announced' = [announced EXCEPT ![s] = Append(@, pdu.first)]
        /\ UNCHANGED <<peer, came, point, scan, phase, hasData, upTo, aborted, given, kept>>
    BY DEF DeliverWaiting
  <1>2. s \in Stream /\ se.prePduList[s] # <<>>
    <2>1. Waiting \in SUBSET Nat /\ \A r \in Waiting : r \in Stream /\ se.prePduList[r] # <<>>
      BY DEF Waiting, Stream
    <2> QED  BY <1>1, <2>1, LeastElement
  <1>3. PICK V : se \in Engine(V)
    BY DEF Typed
  <1>4. announced \in [Stream -> Seq(Numbers)]
    BY DEF Typed
  <1> HIDE DEF s
  <1>5. /\ se.prePduList[s] \in Seq(Interval(V)) /\ se.pduList[s] \in Seq(Interval(V))
        /\ announced[s] \in Seq(Numbers)
    BY <1>2, <1>3, <1>4 DEF Engine
  <1>6. pdu \in Interval(V) /\ Tail(se.prePduList[s]) \in Seq(Interval(V))
    BY <1>2, <1>5, HeadTailProperties
  <1>7. Append(se.pduList[s], pdu) \in Seq(Interval(V)) /\ Append(announced[s], pdu.first) \in Seq(Numbers)
    BY <1>5, <1>6 DEF Interval
  <1> HIDE DEF pdu
  <1>8. d \in Engine(V)
    BY <1>2, <1>3, <1>6, <1>7 DEF Engine
  <1>9. d.List = se.List /\ d.nextSSN = se.nextSSN
        /\ d.prePduList = [se.prePduList EXCEPT ![s] = Tail(@)]
        /\ d.pduList = [se.pduList EXCEPT ![s] = Append(@, pdu)]
    BY <1>3 DEF Engine
  <1>10. announced' \in [Stream -> Seq(Numbers)]
    BY <1>1, <1>2, <1>4, <1>7
  <1> HIDE DEF d
  <1>11. ASSUME NEW r \in Stream
         PROVE  /\ se'.prePduList[r] = IF r = s THEN Tail(se.prePduList[r]) ELSE se.prePduList[r]
                /\ se'.pduList[r] = IF r = s THEN Append(se.pduList[r], Head(se.prePduList[r]))
                                    ELSE se.pduList[r]
                /\ announced'[r] = IF r = s THEN Append(announced[r], Head(se.prePduList[r]).first)
                                   ELSE announced[r]
    <2>1. se.prePduList \in [Stream -> Seq(Interval(V))] /\ se.pduList \in [Stream -> Seq(Interval(V))]
      BY <1>3 DEF Engine
    <2>2. se'.prePduList[r] = IF r = s THEN Tail(se.prePduList[r]) ELSE se.prePduList[r]
      BY <1>1, <1>9, <2>1
    <2>3. se'.pduList[r] = IF r = s THEN Append(se.pduList[r], pdu) ELSE se.pduList[r]
      BY <1>1, <1>9, <2>1
    <2>4. announced'[r] = IF r = s THEN Append(announced[r], pdu.first) ELSE announced[r]
      BY <1>1, <1>4
    <2> QED  BY <2>2, <2>3, <2>4 DEF pdu
  <1> QED  BY <1>1, <1>2, <1>3, <1>8, <1>9, <1>10, <1>11

\* Nothing is lost on that way.
LEMMA DeliverWaitingTold ==
  ASSUME Base, DeliverWaiting
  PROVE  \A r \in Stream : PDUs(r)' = PDUs(r) /\ Told(r)' = Told(r)
  <1>1. PICK s \in Stream :
          /\ se.prePduList[s] # <<>>
          /\ \E V : se \in Engine(V) /\ se' \in Engine(V)
          /\ \A r \in Stream :
                /\ se'.prePduList[r] = IF r = s THEN Tail(se.prePduList[r]) ELSE se.prePduList[r]
                /\ se'.pduList[r] = IF r = s THEN Append(se.pduList[r], Head(se.prePduList[r]))
                                    ELSE se.pduList[r]
                /\ announced'[r] = IF r = s THEN Append(announced[r], Head(se.prePduList[r]).first)
                                   ELSE announced[r]
    BY DeliverWaitingIs
  <1>2. PICK V : se \in Engine(V)
    BY <1>1
  <1> TAKE r \in Stream
  <1> DEFINE q == se.prePduList[r]
             h == Head(q)
  <1>3. q \in Seq(Interval(V)) /\ se.pduList[r] \in Seq(Interval(V)) /\ announced[r] \in Seq(Numbers)
    BY <1>2 DEF Engine, Base, Typed
  <1>4. CASE r # s
    <2>1. se'.prePduList[r] = q /\ se'.pduList[r] = se.pduList[r] /\ announced'[r] = announced[r]
      BY <1>1, <1>4
    <2> QED  BY <2>1 DEF PDUs, Told
  <1>5. CASE r = s
    <2>1. /\ q # <<>> /\ se'.prePduList[r] = Tail(q) /\ se'.pduList[r] = Append(se.pduList[r], h)
          /\ announced'[r] = Append(announced[r], h.first)
      BY <1>1, <1>5
    <2>2. h \in Interval(V) /\ h.first \in Numbers
      <3>1. h \in Interval(V)
        BY <1>3, <2>1, HeadTailProperties
      <3> QED  BY <3>1 DEF Interval
    <2> HIDE DEF q, h
    <2>3. ToSet(q) = {h} \cup ToSet(Tail(q))
      BY <1>3, <2>1, ToSetTail DEF h
    <2>4. /\ ToSet(se'.pduList[r]) = ToSet(se.pduList[r]) \cup {h}
          /\ ToSet(announced'[r]) = ToSet(announced[r]) \cup {h.first}
      BY <1>3, <2>1, <2>2, ToSetAppend
    <2>5. PDUs(r)' = PDUs(r)
      <3>1. PDUs(r)' = ToSet(Tail(q)) \cup (ToSet(se.pduList[r]) \cup {h})
        BY <2>1, <2>4 DEF PDUs
      <3>2. PDUs(r) = ({h} \cup ToSet(Tail(q))) \cup ToSet(se.pduList[r])
        BY <2>3 DEF PDUs, q
      <3> QED  BY <3>1, <3>2
    <2>6. Told(r)' = Told(r)
      <3>1. Told(r)' = (ToSet(announced[r]) \cup {h.first}) \cup {pdu.first : pdu \in ToSet(Tail(q))}
        BY <2>1, <2>4 DEF Told
      <3>2. Told(r) = ToSet(announced[r]) \cup {pdu.first : pdu \in {h} \cup ToSet(Tail(q))}
        BY <2>3 DEF Told, q
      <3> QED  BY <3>1, <3>2
    <2> QED  BY <2>5, <2>6
  <1> QED  BY <1>4, <1>5

LEMMA DeliverWaitingBase ==
  ASSUME Base, DeliverWaiting
  PROVE  Base'
  <1> USE DEF Base
  <1>1. /\ UNCHANGED <<peer, came, point, scan, phase, hasData, upTo, aborted, given, kept>>
        /\ phase = "deliver" /\ se'.List = se.List
        /\ \E V : se \in Engine(V) /\ se' \in Engine(V)
        /\ announced' \in [Stream -> Seq(Numbers)]
    BY DeliverWaitingIs
  <1>2. Typed'
    <2>1. \E V : se' \in Engine(V)
      BY <1>1
    <2>2. peer' \in [base : TSN, nextSSN : [Stream -> SSN], sent : Seq(Fragment)]
      BY <1>1 DEF Typed
    <2> QED  BY <1>1, <2>1, <2>2 DEF Typed
  <1>3. PeerSound' /\ PeerNumbered' /\ sent' = sent
    BY <1>1, PeerKept
  <1>4. ChunksSound'
    BY <1>1, <1>3 DEF ChunksSound
  <1>5. ScanSound'
    BY <1>1 DEF ScanSound
  <1>6. PDUsSound'
    <2>1. \A r \in Stream : PDUs(r)' = PDUs(r) /\ ToSet(announced[r])' \subseteq Told(r)
      <3>1. \A r \in Stream : ToSet(announced[r])' \subseteq Told(r)'
        BY DEF Told
      <3> QED  BY <3>1, DeliverWaitingTold
    <2>2. \A s, f, l : IsMessage(s, f, l) => IsMessage(s, f, l)'
      BY <1>1, PeerKept DEF IsMessage
    <2>3. \A r \in Stream : \A f \in Told(r) : f \in came /\ sent[f].sid = r
      <3> SUFFICES ASSUME NEW r \in Stream, NEW f \in Told(r) PROVE f \in came /\ sent[f].sid = r
        OBVIOUS
      <3>1. CASE f \in ToSet(announced[r])
        BY <3>1 DEF PDUsSound
      <3>2. CASE f \notin ToSet(announced[r])
        <4>1. PICK pdu \in ToSet(se.prePduList[r]) : f = pdu.first
          BY <3>2 DEF Told
        <4>2. pdu \in PDUs(r)
          BY <4>1 DEF PDUs
        <4> QED  BY <4>1, <4>2 DEF PDUsSound, IsMessage
      <3> QED  BY <3>1, <3>2
    <2>4. \A r \in Stream : \A pdu \in PDUs(r)' : IsMessage(r, pdu.first, pdu.last)'
      BY <2>1, <2>2 DEF PDUsSound
    <2>5. \A r \in Stream : \A f \in ToSet(announced[r])' : f \in came' /\ sent'[f].sid = r
      BY <1>1, <1>3, <2>1, <2>3
    <2> QED  BY <2>4, <2>5 DEF PDUsSound
  <1> QED  BY <1>2, <1>3, <1>4, <1>5, <1>6

LEMMA DeliverWaitingSearch ==
  ASSUME Base, SearchExact, DeliverWaiting
  PROVE  SearchExact'
  <1>1. /\ UNCHANGED <<peer, came, point, scan, phase, hasData, upTo, aborted, given, kept>>
        /\ phase = "deliver" /\ se'.List = se.List /\ se'.nextSSN = se.nextSSN
    BY DeliverWaitingIs
  <1>2. \A f \in Numbers : Ready(f)' => Ready(f)
    BY <1>1, ReadyKept
  <1> QED  BY <1>1, <1>2 DEF SearchExact

LEMMA DeliverWaitingNumbered ==
  ASSUME Base, NextSound, ArrivedSound, DeliverWaiting
  PROVE  NextSound' /\ ArrivedSound'
  <1>1. /\ UNCHANGED <<peer, came, point, scan, phase, hasData, upTo, aborted, given, kept>>
        /\ phase = "deliver" /\ se'.List = se.List /\ se'.nextSSN = se.nextSSN
    BY DeliverWaitingIs
  <1>2. NextSound'
    BY <1>1, EngineKept
  <1>3. ArrivedSound'
    BY <1>1, DeliverWaitingTold, ArrivedKept DEF Base
  <1> QED  BY <1>2, <1>3

LEMMA DeliverWaitingOrder ==
  ASSUME Base, OrderSound, DeliverWaiting
  PROVE  OrderSound'
  <1> USE DEF Base
  <1>1. PICK s \in Stream :
          /\ se.prePduList[s] # <<>> /\ phase = "deliver"
          /\ UNCHANGED <<peer, came, point, scan, phase, hasData, upTo, aborted, given, kept>>
          /\ se'.List = se.List /\ se'.nextSSN = se.nextSSN
          /\ \E V : se \in Engine(V) /\ se' \in Engine(V)
          /\ \A r \in Stream :
               /\ se'.prePduList[r] = IF r = s THEN Tail(se.prePduList[r]) ELSE se.prePduList[r]
               /\ se'.pduList[r] = IF r = s THEN Append(se.pduList[r], Head(se.prePduList[r]))
                                   ELSE se.pduList[r]
               /\ announced'[r] = IF r = s THEN Append(announced[r], Head(se.prePduList[r]).first)
                                  ELSE announced[r]
          /\ announced' \in [Stream -> Seq(Numbers)]
    BY DeliverWaitingIs
  <1>2. PICK V : se \in Engine(V)
    BY <1>1
  <1>3. /\ \A m : Place(m)' = Place(m) /\ (Ordered(m)' <=> Ordered(m))
        /\ sent' = sent /\ \A r : NextPlace(r)' = NextPlace(r)
    BY <1>1, PeerKept, EngineKept
  <1>4. \A n \in Numbers : (Open(n)' <=> Open(n)) /\ (Relevant(n)' <=> Relevant(n))
    <2>1. \A n \in Numbers : Open(n)' <=> Open(n)
      BY <1>1, <1>3 DEF Open
    <2> QED  BY <1>1, <2>1 DEF Relevant
  <1> DEFINE q == se.prePduList[s]
             p == q[1]
             a == announced[s]
  <1>5. q \in Seq(Interval(V)) /\ a \in Seq(Numbers)
    BY <1>2 DEF Engine, Typed
  <1>6. /\ Len(q) \in Nat \ {0} /\ DOMAIN q = 1..Len(q) /\ Head(q) = p /\ p \in Interval(V)
        /\ Tail(q) \in Seq(Interval(V)) /\ Len(Tail(q)) = Len(q) - 1
        /\ \A i \in 1..(Len(q) - 1) : Tail(q)[i] = q[i + 1]
        /\ DOMAIN Tail(q) = 1..(Len(q) - 1)
    BY <1>1, <1>5, EmptySeq
  <1>7. p.first \in Numbers
    BY <1>6 DEF Interval
  <1>8. /\ Len(a) \in Nat /\ DOMAIN a = 1..Len(a)
        /\ DOMAIN Append(a, p.first) = 1..(Len(a) + 1)
        /\ Append(a, p.first)[Len(a) + 1] = p.first
        /\ \A i \in 1..Len(a) : Append(a, p.first)[i] = a[i]
        /\ ToSet(Append(a, p.first)) = ToSet(a) \cup {p.first}
    BY <1>5, <1>7, ToSetAppend
  <1>9. /\ se'.prePduList[s] = Tail(q) /\ announced'[s] = Append(a, p.first)
        /\ \A r \in Stream : r # s => se'.prePduList[r] = se.prePduList[r] /\ announced'[r] = announced[r]
    BY <1>1, <1>6
  <1>10. /\ \A r \in Stream : \A i, j \in DOMAIN announced[r] :
              i < j => Behind(announced[r][i], announced[r][j])
         /\ \A r \in Stream : \A i, j \in DOMAIN se.prePduList[r] :
              i < j => Behind(se.prePduList[r][i].first, se.prePduList[r][j].first)
         /\ \A r \in Stream : \A f \in ToSet(announced[r]), pdu \in ToSet(se.prePduList[r]) :
              Behind(f, pdu.first)
    BY DEF OrderSound
  <1>11. p \in ToSet(q)
    <2>1. 1 \in DOMAIN q
      BY <1>6
    <2> QED  BY <2>1 DEF ToSet
  <1> HIDE DEF p, q, a
  <1>12. ASSUME NEW r \in Stream, NEW i \in DOMAIN announced'[r],
                NEW j \in DOMAIN announced'[r], i < j
         PROVE  Behind(announced'[r][i], announced'[r][j])
    <2>1. CASE r # s
      BY <1>9, <1>10, <1>12, <2>1
    <2>2. CASE r = s
      <3>1. i \in 1..Len(a) /\ announced'[r][i] = a[i]
        BY <1>8, <1>9, <1>12, <2>2
      <3>2. CASE j \in 1..Len(a)
        <4>1. announced'[r][j] = a[j]
          BY <1>8, <1>9, <2>2, <3>2
        <4>2. i \in DOMAIN announced[s] /\ j \in DOMAIN announced[s]
          BY <1>8, <3>1, <3>2 DEF a
        <4> QED  BY <1>10, <1>12, <3>1, <4>1, <4>2 DEF a
      <3>3. CASE j \notin 1..Len(a)
        <4>1. announced'[r][j] = p.first
          <5>1. j = Len(a) + 1
            BY <1>8, <1>9, <1>12, <2>2, <3>3
          <5> QED  BY <1>8, <1>9, <2>2, <5>1
        <4>2. a[i] \in ToSet(a)
          BY <1>8, <3>1 DEF ToSet
        <4>3. Behind(a[i], p.first)
          BY <1>10, <1>11, <4>2 DEF a, q
        <4> QED  BY <3>1, <4>1, <4>3
      <3> QED  BY <3>2, <3>3
    <2> QED  BY <2>1, <2>2
  <1>13. ASSUME NEW r \in Stream, NEW i \in DOMAIN se'.prePduList[r],
                NEW j \in DOMAIN se'.prePduList[r], i < j
         PROVE  Behind(se'.prePduList[r][i].first, se'.prePduList[r][j].first)
    <2>1. CASE r # s
      BY <1>9, <1>10, <1>13, <2>1
    <2>2. CASE r = s
      <3>1. /\ i \in 1..(Len(q) - 1) /\ se'.prePduList[r][i] = q[i + 1] /\ i + 1 \in DOMAIN q
            /\ j \in 1..(Len(q) - 1) /\ se'.prePduList[r][j] = q[j + 1] /\ j + 1 \in DOMAIN q
            /\ i + 1 < j + 1
        <4>1. /\ se'.prePduList[r] = Tail(q) /\ DOMAIN Tail(q) = 1..(Len(q) - 1)
              /\ i \in 1..(Len(q) - 1) /\ j \in 1..(Len(q) - 1)
          BY <1>6, <1>9, <1>13, <2>2
        <4>2. i + 1 \in 1..Len(q) /\ j + 1 \in 1..Len(q) /\ i + 1 < j + 1
          BY <1>6, <1>13, <4>1
        <4>3. Tail(q)[i] = q[i + 1] /\ Tail(q)[j] = q[j + 1] /\ DOMAIN q = 1..Len(q)
          BY <1>6, <4>1
        <4> QED  BY <4>1, <4>2, <4>3
      <3> QED  BY <1>10, <1>13, <3>1 DEF q
    <2> QED  BY <2>1, <2>2
  <1>14. ASSUME NEW r \in Stream, NEW f \in ToSet(announced'[r]),
                NEW pdu \in ToSet(se'.prePduList[r])
         PROVE  Behind(f, pdu.first)
    <2>1. CASE r # s
      BY <1>9, <1>10, <1>14, <2>1
    <2>2. CASE r = s
      <3>1. PICK j \in 1..(Len(q) - 1) : pdu = q[j + 1]
        <4>1. pdu \in ToSet(Tail(q))
          BY <1>9, <1>14, <2>2
        <4> QED  BY <1>6, <4>1 DEF ToSet
      <3>2. j + 1 \in DOMAIN q /\ 1 \in DOMAIN q /\ 1 < j + 1
        BY <1>6
      <3>3. CASE f \in ToSet(a)
        <4>1. pdu \in ToSet(q)
          BY <3>1, <3>2 DEF ToSet
        <4> QED  BY <1>10, <1>14, <3>3, <4>1 DEF a, q
      <3>4. CASE f \notin ToSet(a)
        <4>1. f = p.first
          BY <1>8, <1>9, <1>14, <2>2, <3>4
        <4> QED  BY <1>10, <1>14, <3>1, <3>2, <4>1 DEF p, q
      <3> QED  BY <3>3, <3>4
    <2> QED  BY <2>1, <2>2
  <1>15. \A r \in Stream : \A g \in Told(r)', n \in Numbers :
           Ordered(g) /\ Relevant(n)' /\ sent[n].sid = r => g < n
    BY <1>4, DeliverWaitingTold DEF OrderSound
  <1>16. \A n \in Numbers : Open(n)' /\ n > upTo' => Place(n) <= NextPlace(sent[n].sid)
    BY <1>1, <1>4 DEF OrderSound
  <1>17. \A r \in Stream : Told(r)' \cap se'.List = {}
    BY <1>1, DeliverWaitingTold DEF OrderSound
  <1>18. \A k \in kept, n \in Numbers : Open(n)' => k < n
    BY <1>4 DEF OrderSound
  <1> QED
    BY <1>1, <1>3, <1>12, <1>13, <1>14, <1>15, <1>16, <1>17, <1>18 DEF OrderSound, Behind

LEMMA DeliveredIs ==
  ASSUME Base, Delivered
  PROVE  /\ peer' = peer /\ sent' = sent
         /\ UNCHANGED <<came, point, scan, hasData, aborted, given, announced>>
         /\ phase = "deliver" /\ upTo' = 0
         /\ \A s \in Stream : se.prePduList[s] = <<>>
         /\ se'.nextSSN = se.nextSSN
         /\ se'.prePduList = se.prePduList /\ se'.pduList = se.pduList
         /\ \E V : se' \in Engine(V)
         /\ upTo = 0 => phase' = "idle" /\ se' = se /\ kept' = kept
         /\ upTo # 0 => /\ phase' = "chunks" /\ se'.List = se.List \ Useless(upTo)
                        /\ kept' = kept \cup ({n \in se.List : n <= upTo} \ Useless(upTo))
  <1>1. /\ phase = "deliver" /\ Waiting = {} /\ upTo' = 0 /\ peer' = peer
        /\ IF upTo = 0 THEN phase' = "idle" /\ UNCHANGED <<se, kept>>
           ELSE /\ phase' = "chunks" /\ se' = Drop(se, Useless(upTo))
                /\ kept' = kept \cup ({n \in se.List : n <= upTo} \ Useless(upTo))
        /\ UNCHANGED <<came, point, scan, hasData, aborted, given, announced>>
    BY DEF Delivered
  <1>2. \A s \in Stream : se.prePduList[s] = <<>>
    BY <1>1 DEF Waiting
  <1>3. PICK V : se \in Engine(V)
    BY DEF Base, Typed
  <1>4. CASE upTo = 0
    BY <1>1, <1>2, <1>3, <1>4 DEF sent
  <1>5. CASE upTo # 0
    <2> DEFINE chunks == Useless(upTo)
               bytes == se.queuedBytes - Bytes(chunks)
               W == V \cup {bytes}
    <2>1. se' = Drop(se, chunks)
      BY <1>1, <1>5
    <2>2. se \in Engine(W)
      BY <1>3, EngineGrows
    <2>3. bytes \in W
      OBVIOUS
    <2>4. Drop(se, chunks) = [se EXCEPT !.List = @ \ chunks, !.queuedBytes = bytes]
      BY <1>3 DEF Drop, Engine
    <2> HIDE DEF W, bytes, chunks
    <2>5. /\ se' \in Engine(W) /\ se'.List = se.List \ chunks
          /\ se'.nextSSN = se.nextSSN
          /\ se'.prePduList = se.prePduList /\ se'.pduList = se.pduList
      BY <2>1, <2>2, <2>3, <2>4 DEF Engine
    <2> QED  BY <1>1, <1>2, <1>5, <2>5 DEF sent, chunks
  <1> QED  BY <1>4, <1>5

LEMMA DeliveredBase ==
  ASSUME Base, Delivered
  PROVE  Base'
  <1> USE DEF Base
  <1>1. /\ peer' = peer /\ sent' = sent
        /\ UNCHANGED <<came, point, scan, hasData, aborted, given, announced>>
        /\ phase = "deliver" /\ upTo' = 0
        /\ \A s \in Stream : se.prePduList[s] = <<>>
        /\ se'.prePduList = se.prePduList /\ se'.pduList = se.pduList
        /\ \E V : se' \in Engine(V)
        /\ phase' \in {"idle", "chunks"} /\ se'.List \subseteq se.List
        /\ kept' \subseteq kept \cup {n \in se.List : n <= upTo /\ upTo # 0}
    <2>1. /\ se'.List \subseteq se.List
          /\ kept' \subseteq kept \cup {n \in se.List : n <= upTo /\ upTo # 0}
      BY DeliveredIs
    <2> QED  BY <2>1, DeliveredIs
  <1>2. Typed'
    <2>1. peer' \in [base : TSN, nextSSN : [Stream -> SSN], sent : Seq(Fragment)]
      BY <1>1 DEF Typed
    <2>2. phase' \in {"idle", "chunks", "search", "deliver"}
      BY <1>1
    <2>3. kept' \in SUBSET Numbers
      BY <1>1 DEF Typed, Engine
    <2> QED  BY <1>1, <2>1, <2>2, <2>3 DEF Typed
  <1>3. PeerSound' /\ PeerNumbered'
    BY <1>1, PeerKept
  <1>4. ChunksSound'
    <2>1. \A n \in se.List : n \in Int /\ n >= 1
      BY Parameters DEF Typed, Engine, Numbers
    <2>2. kept' \subseteq 1..point
      BY <1>1, <2>1 DEF ChunksSound
    <2> QED  BY <1>1, <2>2 DEF ChunksSound
  <1>5. ScanSound'
    BY <1>1 DEF ScanSound
  <1>6. PDUsSound'
    <2>1. \A s \in Stream : PDUs(s)' = PDUs(s)
      BY <1>1 DEF PDUs
    <2>2. \A s, f, l : IsMessage(s, f, l) => IsMessage(s, f, l)'
      BY <1>1, PeerKept DEF IsMessage
    <2> QED  BY <1>1, <2>1, <2>2 DEF PDUsSound
  <1> QED  BY <1>2, <1>3, <1>4, <1>5, <1>6

LEMMA DeliveredSearch ==
  ASSUME Base, SearchExact, Delivered
  PROVE  SearchExact'
  <1>1. /\ peer' = peer /\ sent' = sent
        /\ UNCHANGED <<came, point, scan, hasData, aborted, given, announced>>
        /\ phase = "deliver" /\ se'.nextSSN = se.nextSSN /\ se'.prePduList = se.prePduList
        /\ upTo = 0 => se' = se
        /\ upTo # 0 => se'.List = se.List \ Useless(upTo)
    BY DeliveredIs
  <1>2. \A f \in Numbers : Ready(f)' => Ready(f)
    <2>1. se'.List \subseteq se.List
      BY <1>1
    <2> QED  BY <1>1, <2>1, ReadyKept
  <1> QED  BY <1>1, <1>2 DEF SearchExact

LEMMA DeliveredNumbered ==
  ASSUME Base, NextSound, ArrivedSound, Delivered
  PROVE  NextSound' /\ ArrivedSound'
  <1>1. /\ peer' = peer /\ sent' = sent
        /\ UNCHANGED <<came, point, scan, hasData, aborted, given, announced>>
        /\ phase = "deliver" /\ se'.nextSSN = se.nextSSN /\ se'.prePduList = se.prePduList
        /\ upTo = 0 => se' = se
        /\ upTo # 0 => se'.List = se.List \ Useless(upTo)
    BY DeliveredIs
  <1>2. NextSound'
    BY <1>1, EngineKept
  <1>3. ArrivedSound'
    <2>1. CASE upTo = 0
      <3>1. \A s : Told(s)' = Told(s)
        BY <1>1 DEF Told
      <3> QED  BY <1>1, <2>1, <3>1, ArrivedKept DEF Base
    <2>2. CASE upTo # 0
      BY <1>1, <2>2 DEF Base, ChunksSound, ArrivedSound
    <2> QED  BY <2>1, <2>2
  <1> QED  BY <1>2, <1>3

\* What is left in the list before the new point is kept.
LEMMA DeliveredOrder ==
  ASSUME Base, OrderSound, Delivered
  PROVE  OrderSound'
  <1> USE DEF Base
  <1>1. /\ peer' = peer /\ sent' = sent
        /\ UNCHANGED <<came, point, scan, hasData, aborted, given, announced>>
        /\ phase = "deliver" /\ upTo' = 0 /\ se'.nextSSN = se.nextSSN
        /\ se'.prePduList = se.prePduList
        /\ upTo = 0 => phase' = "idle" /\ se' = se /\ kept' = kept
        /\ upTo # 0 => /\ phase' = "chunks" /\ se'.List = se.List \ Useless(upTo)
                       /\ kept' = kept \cup ({n \in se.List : n <= upTo} \ Useless(upTo))
    BY DeliveredIs
  <1>2. /\ \A m : Place(m)' = Place(m) /\ (Ordered(m)' <=> Ordered(m))
        /\ \A s : NextPlace(s)' = NextPlace(s)
    BY <1>1, PeerKept, EngineKept
  <1>3. \A n \in Numbers : n \in Nat /\ n > 0
    BY Parameters DEF Numbers
  <1>4. kept \subseteq kept' /\ se'.List \subseteq se.List
    BY <1>1
  <1>5. ASSUME NEW n \in Numbers, Open(n)' PROVE Open(n) /\ n > upTo
    <2>1. CASE upTo = 0
      BY <1>1, <1>2, <1>3, <1>5, <2>1 DEF Open
    <2>2. CASE upTo # 0
      <3>1. upTo \in Numbers /\ upTo = point
        BY <2>2 DEF ChunksSound, Typed
      <3>2. Open(n)
        BY <1>1, <1>2, <1>4, <1>5 DEF Open
      <3>3. CASE n \in se'.List
        <4>1. n \in se.List /\ n \notin Useless(upTo) /\ n \notin kept'
          BY <1>1, <1>5, <2>2, <3>3 DEF Open
        <4>2. ~(n <= upTo)
          BY <1>1, <2>2, <4>1
        <4> QED  BY <1>3, <3>1, <3>2, <4>2
      <3>4. CASE n \notin se'.List
        BY <1>1, <1>5, <3>1, <3>2, <3>4 DEF Open
      <3> QED  BY <3>3, <3>4
    <2> QED  BY <2>1, <2>2
  <1>6. \A n \in Numbers : Relevant(n)' => Relevant(n)
    BY <1>5 DEF Relevant
  <1>7. \A s : Told(s)' = Told(s)
    BY <1>1 DEF Told
  <1>8. \A f, g : Behind(f, g) => Behind(f, g)'
    BY <1>2, <1>4 DEF Behind
  <1>9. ASSUME NEW k \in kept', NEW n \in Numbers, Open(n)' PROVE k < n
    <2>1. CASE k \in kept
      BY <1>5, <1>9, <2>1 DEF OrderSound
    <2>2. CASE k \notin kept
      <3>1. k <= upTo /\ k \in se.List
        BY <1>1, <1>9, <2>2
      <3>2. k \in Nat /\ n \in Nat /\ upTo \in Nat
        BY <1>3, <3>1 DEF Typed, Engine
      <3> QED  BY <1>5, <1>9, <3>1, <3>2
    <2> QED  BY <2>1, <2>2
  <1> QED  BY <1>1, <1>2, <1>4, <1>5, <1>6, <1>7, <1>8, <1>9 DEF OrderSound

\* Reading changes the first PDU of a stream, or takes it away.
LEMMA UlpReceiveFromIs ==
  ASSUME Base, NEW s \in Stream, NEW bytes \in Reads, UlpReceiveFrom(s, bytes)
  PROVE  /\ phase \in {"idle", "deliver"}
         /\ UNCHANGED <<peer, came, point, scan, phase, hasData, upTo, aborted, given, kept, announced>>
         /\ se'.List = se.List /\ se'.nextSSN = se.nextSSN /\ se'.prePduList = se.prePduList
         /\ \E V : se' \in Engine(V)
         /\ \A r \in Stream : \A pdu \in ToSet(se'.pduList[r]) :
              \E old \in ToSet(se.pduList[r]) : pdu.first = old.first /\ pdu.last = old.last
  <1> DEFINE q == se.pduList[s]
             h == Head(q)
             total == TotalLength(h)
             position == Min({h.read_position + bytes, total})
             d == [se EXCEPT !.pduList[s] = Tail(@), !.queuedBytes = @ - total]
             g == [q[1] EXCEPT !.read_position = position]
             list == [q EXCEPT ![1] = g]
             e == [se EXCEPT !.pduList[s] = list]
             c == [se EXCEPT !.pduList[s][1].read_position = position]
  <1>1. /\ phase \in {"idle", "deliver"} /\ q # <<>> /\ se' = Read(s, bytes)
        /\ UNCHANGED <<peer, came, point, scan, phase, hasData, upTo, aborted, given, kept, announced>>
    BY DEF UlpReceiveFrom
  <1>2. PICK V : se \in Engine(V)
    BY DEF Base, Typed
  <1>3. se' = d \/ se' = c
    BY <1>1 DEF Read
  <1>4. se.pduList \in [Stream -> Seq(Interval(V))]
    BY <1>2 DEF Engine
  <1>5. /\ q \in Seq(Interval(V)) /\ Len(q) \in Nat \ {0} /\ DOMAIN q = 1..Len(q)
        /\ h = q[1] /\ h \in Interval(V) /\ Tail(q) \in Seq(Interval(V))
        /\ 1 \in DOMAIN q
    <2>1. q \in Seq(Interval(V))
      BY <1>4
    <2> HIDE DEF q
    <2> QED  BY <1>1, <2>1, EmptySeq
  <1>6. CASE se' = d
    <2> DEFINE b == se.queuedBytes - total
               W == V \cup {b}
    <2>1. se \in Engine(W) /\ b \in W
      BY <1>2, EngineGrows
    <2>2. Tail(q) \in Seq(Interval(W))
      <3>1. se.pduList[s] \in Seq(Interval(W))
        BY <2>1 DEF Engine
      <3> QED  BY <1>1, <3>1, HeadTailProperties
    <2>3. d = [se EXCEPT !.pduList = [@ EXCEPT ![s] = Tail(q)], !.queuedBytes = b]
      BY <1>2 DEF Engine
    <2> HIDE DEF W, b, total, d
    <2>4. /\ d \in Engine(W) /\ d.List = se.List /\ d.nextSSN = se.nextSSN
          /\ d.prePduList = se.prePduList
          /\ d.pduList = [se.pduList EXCEPT ![s] = Tail(q)]
      BY <2>1, <2>2, <2>3 DEF Engine
    <2>5. ASSUME NEW r \in Stream, NEW pdu \in ToSet(d.pduList[r])
          PROVE  pdu \in ToSet(se.pduList[r])
      <3>1. CASE r = s
        <4>1. d.pduList[r] = Tail(q)
          BY <1>4, <2>4, <3>1
        <4>2. ToSet(q) = {h} \cup ToSet(Tail(q))
          BY <1>1, <1>5, ToSetTail
        <4> QED  BY <2>5, <3>1, <4>1, <4>2
      <3>2. CASE r # s
        BY <1>4, <2>4, <2>5, <3>2
      <3> QED  BY <3>1, <3>2
    <2> QED  BY <1>1, <1>6, <2>4, <2>5
  <1>7. CASE se' = c
    <2> DEFINE W == V \cup {position}
    <2>1. se \in Engine(W) /\ position \in W /\ h \in Interval(W)
      <3>1. se \in Engine(W) /\ position \in W
        BY <1>2, EngineGrows
      <3>2. Interval(V) \subseteq Interval(W)
        BY DEF Interval
      <3> QED  BY <1>5, <3>1, <3>2
    <2>2. c = e
      OBVIOUS
    <2>3. q \in Seq(Interval(W))
      BY <2>1 DEF Engine
    <2> HIDE DEF W, position, q, h, c
    <2>4. g \in Interval(W) /\ g.first = h.first /\ g.last = h.last
      BY <1>5, <2>1 DEF Interval
    <2> HIDE DEF g
    <2>5. list \in Seq(Interval(W)) /\ DOMAIN list = DOMAIN q
          /\ list[1] = g /\ \A i \in DOMAIN q : i # 1 => list[i] = q[i]
      BY <1>5, <2>3, <2>4
    <2> HIDE DEF list
    <2>6. /\ e \in Engine(W) /\ e.List = se.List /\ e.nextSSN = se.nextSSN
          /\ e.prePduList = se.prePduList
          /\ e.pduList = [se.pduList EXCEPT ![s] = list]
      BY <2>1, <2>5 DEF Engine
    <2> HIDE DEF e
    <2>7. ASSUME NEW r \in Stream, NEW pdu \in ToSet(e.pduList[r])
          PROVE  \E old \in ToSet(se.pduList[r]) : pdu.first = old.first /\ pdu.last = old.last
      <3>1. CASE r = s
        <4>1. e.pduList[r] = list
          BY <1>4, <2>6, <3>1
        <4>2. PICK i \in DOMAIN q : pdu = list[i]
          BY <2>5, <2>7, <4>1 DEF ToSet
        <4>3. q[i] \in ToSet(se.pduList[r])
          BY <3>1 DEF q, ToSet
        <4>4. pdu.first = q[i].first /\ pdu.last = q[i].last
          BY <1>5, <2>4, <2>5, <4>2
        <4> QED  BY <4>3, <4>4
      <3>2. CASE r # s
        BY <1>4, <2>6, <2>7, <3>2
      <3> QED  BY <3>1, <3>2
    <2> QED  BY <1>1, <1>7, <2>2, <2>6, <2>7
  <1> QED  BY <1>3, <1>6, <1>7

LEMMA UlpReceiveFromBase ==
  ASSUME Base, NEW s \in Stream, NEW bytes \in Reads, UlpReceiveFrom(s, bytes)
  PROVE  Base'
  <1> USE DEF Base
  <1>1. /\ phase \in {"idle", "deliver"}
        /\ UNCHANGED <<peer, came, point, scan, phase, hasData, upTo, aborted, given, kept, announced>>
        /\ se'.List = se.List /\ se'.prePduList = se.prePduList
        /\ \E V : se' \in Engine(V)
        /\ \A r \in Stream : \A pdu \in ToSet(se'.pduList[r]) :
             \E old \in ToSet(se.pduList[r]) : pdu.first = old.first /\ pdu.last = old.last
    BY UlpReceiveFromIs
  <1>2. Typed'
    <2>1. peer' \in [base : TSN, nextSSN : [Stream -> SSN], sent : Seq(Fragment)]
      BY <1>1 DEF Typed
    <2> QED  BY <1>1, <2>1 DEF Typed
  <1>3. PeerSound' /\ PeerNumbered' /\ sent' = sent
    BY <1>1, PeerKept
  <1>4. ChunksSound'
    BY <1>1, <1>3 DEF ChunksSound
  <1>5. ScanSound'
    BY <1>1 DEF ScanSound
  <1>6. PDUsSound'
    <2>1. ASSUME NEW r \in Stream, NEW pdu \in PDUs(r)' PROVE IsMessage(r, pdu.first, pdu.last)
      <3>1. PICK old \in PDUs(r) : pdu.first = old.first /\ pdu.last = old.last
        <4>1. pdu \in ToSet(se.prePduList[r]) \/ pdu \in ToSet(se'.pduList[r])
          BY <1>1, <2>1 DEF PDUs
        <4>2. CASE pdu \in ToSet(se.prePduList[r])
          BY <4>2 DEF PDUs
        <4>3. CASE pdu \in ToSet(se'.pduList[r])
          BY <1>1, <4>3 DEF PDUs
        <4> QED  BY <4>1, <4>2, <4>3
      <3> QED  BY <3>1 DEF PDUsSound
    <2>2. \A r, f, l : IsMessage(r, f, l) => IsMessage(r, f, l)'
      BY <1>1, PeerKept DEF IsMessage
    <2>3. \A r \in Stream : \A pdu \in PDUs(r)' : IsMessage(r, pdu.first, pdu.last)'
      BY <2>1, <2>2
    <2> QED  BY <1>1, <1>3, <2>3 DEF PDUsSound
  <1> QED  BY <1>2, <1>3, <1>4, <1>5, <1>6

LEMMA UlpReceiveFromSearch ==
  ASSUME Base, SearchExact, NEW s \in Stream, NEW bytes \in Reads, UlpReceiveFrom(s, bytes)
  PROVE  SearchExact'
  <1>1. /\ phase \in {"idle", "deliver"}
        /\ UNCHANGED <<peer, came, point, scan, phase, hasData, upTo, aborted, given, kept, announced>>
        /\ se'.List = se.List /\ se'.nextSSN = se.nextSSN /\ se'.prePduList = se.prePduList
    BY UlpReceiveFromIs
  <1>2. \A f \in Numbers : Ready(f)' => Ready(f)
    BY <1>1, ReadyKept
  <1> QED  BY <1>1, <1>2 DEF SearchExact

LEMMA UlpReceiveFromNumbered ==
  ASSUME Base, NextSound, ArrivedSound,
         NEW s \in Stream, NEW bytes \in Reads, UlpReceiveFrom(s, bytes)
  PROVE  NextSound' /\ ArrivedSound'
  <1>1. /\ phase \in {"idle", "deliver"}
        /\ UNCHANGED <<peer, came, point, scan, phase, hasData, upTo, aborted, given, kept, announced>>
        /\ se'.List = se.List /\ se'.nextSSN = se.nextSSN /\ se'.prePduList = se.prePduList
    BY UlpReceiveFromIs
  <1>2. NextSound'
    BY <1>1, EngineKept
  <1>3. ArrivedSound'
    <2>1. \A r : Told(r)' = Told(r)
      BY <1>1 DEF Told
    <2> QED  BY <1>1, <2>1, ArrivedKept DEF Base
  <1> QED  BY <1>2, <1>3

LEMMA UlpReceiveFromOrder ==
  ASSUME Base, OrderSound, NEW s \in Stream, NEW bytes \in Reads, UlpReceiveFrom(s, bytes)
  PROVE  OrderSound'
  <1>1. /\ UNCHANGED <<peer, came, point, scan, phase, hasData, upTo, aborted, given, kept, announced>>
        /\ se'.List = se.List /\ se'.nextSSN = se.nextSSN /\ se'.prePduList = se.prePduList
    BY UlpReceiveFromIs
  <1>2. sent' = sent /\ \A m : Ordered(m)' <=> Ordered(m)
    BY <1>1, PeerKept
  <1>3. \A n \in Numbers : (Open(n)' <=> Open(n)) /\ (Relevant(n)' <=> Relevant(n))
    <2>1. \A n \in Numbers : Open(n)' <=> Open(n)
      BY <1>1, <1>2 DEF Open
    <2>2. Cursor' = Cursor
      BY <1>1 DEF Cursor
    <2> QED  BY <1>1, <2>1, <2>2 DEF Relevant
  <1> QED  BY <1>1, <1>3, OrderSoundKept

-----------------------------------------------------------------------------
(* Where an association begins *)

Fresh ==
  /\ \E base \in FirstTSNs, ssn \in FirstSSNs :
       peer = NewPeer(base, ssn) /\ se = NewStreamEngine(ssn)
  /\ came = {} /\ point = 0 /\ given = {} /\ kept = {}
  /\ scan \in [at : {0} \cup Numbers, first : {0} \cup Numbers]
  /\ phase = "idle" /\ hasData \in BOOLEAN /\ upTo = 0 /\ aborted = FALSE
  /\ announced = [s \in Stream |-> <<>>]

\* Nothing was sent, and both ends are at the same SSN of every stream.
LEMMA FreshIs ==
  ASSUME Fresh
  PROVE  /\ Typed /\ sent = <<>> /\ Len(sent) = 0 /\ DOMAIN sent = {}
         /\ peer.base \in FirstTSNs /\ se.List = {}
         /\ \A s \in Stream :
              /\ NextPlace(s) = 0 /\ announced[s] = <<>>
              /\ se.prePduList[s] = <<>> /\ se.pduList[s] = <<>>
  <1>1. PICK base \in FirstTSNs, ssn \in FirstSSNs :
          peer = NewPeer(base, ssn) /\ se = NewStreamEngine(ssn)
    BY DEF Fresh
  <1>2. base \in TSN /\ ssn \in SSN /\ 0 \in SSN
    BY Parameters DEF SSN
  <1>3. sent = <<>> /\ Len(sent) = 0 /\ DOMAIN sent = {} /\ peer.base = base
    BY <1>1 DEF sent, NewPeer
  <1>4. /\ peer.nextSSN = [s \in Stream |-> ssn] /\ se.nextSSN = [s \in Stream |-> ssn]
        /\ se.List = {} /\ se.prePduList = [s \in Stream |-> <<>>]
        /\ se.pduList = [s \in Stream |-> <<>>]
    BY <1>1 DEF NewPeer, NewStreamEngine
  <1>5. \A s \in Stream : NextPlace(s) = 0
    <2> TAKE s \in Stream
    <2>1. NextPlace(s) = (ssn - ssn) % SSNModulus
      BY <1>4 DEF NextPlace, Back
    <2>2. (ssn - ssn) % SSNModulus = IF ssn >= ssn THEN ssn - ssn ELSE ssn - ssn + SSNModulus
      BY <1>2, Difference
    <2> QED  BY <2>1, <2>2, <1>2, Parameters DEF SSN
  <1>6. peer \in [base : TSN, nextSSN : [Stream -> SSN], sent : Seq(Fragment)]
    BY <1>1, <1>2 DEF NewPeer
  <1>7. se \in Engine({0})
    <2>1. [s \in Stream |-> <<>>] \in [Stream -> Seq(Interval({0}))]
      OBVIOUS
    <2> QED  BY <1>1, <1>2, <2>1 DEF NewStreamEngine, Engine
  <1>8. announced \in [Stream -> Seq(Numbers)]
    BY DEF Fresh
  <1>9. Typed
    BY <1>6, <1>7, <1>8 DEF Typed, Fresh
  <1>10. \A s \in Stream : announced[s] = <<>>
    BY DEF Fresh
  <1> QED  BY <1>1, <1>3, <1>4, <1>5, <1>9, <1>10

\* So the invariant holds.
LEMMA FreshInv == Fresh => StreamInv
  <1> SUFFICES ASSUME Fresh PROVE StreamInv
    OBVIOUS
  <1>1. /\ Typed /\ sent = <<>> /\ Len(sent) = 0 /\ DOMAIN sent = {}
        /\ peer.base \in FirstTSNs /\ se.List = {}
        /\ \A s \in Stream :
             /\ NextPlace(s) = 0 /\ announced[s] = <<>>
             /\ se.prePduList[s] = <<>> /\ se.pduList[s] = <<>>
    BY FreshIs
  <1>2. /\ came = {} /\ point = 0 /\ given = {} /\ kept = {} /\ phase = "idle" /\ upTo = 0
    BY DEF Fresh
  <1>3. \A x : ToSet(<<>>) = {}
    BY DEF ToSet
  <1>4. PeerSound /\ PeerNumbered
    <2>1. PeerSound
      BY <1>1, Parameters DEF PeerSound
    <2>2. PeerNumbered
      BY <1>1 DEF PeerNumbered
    <2> QED  BY <2>1, <2>2
  <1>5. ChunksSound /\ ScanSound
    <2>1. ChunksSound
      BY <1>1, <1>2 DEF ChunksSound
    <2>2. ScanSound
      BY <1>2 DEF ScanSound
    <2> QED  BY <2>1, <2>2
  <1>6. ToSet(<<>>) = {} /\ \A s \in Stream : PDUs(s) = {} /\ Told(s) = {}
    <2>1. ToSet(<<>>) = {}
      BY DEF ToSet
    <2>2. \A s \in Stream : PDUs(s) = {}
      BY <2>1, <1>1 DEF PDUs
    <2>3. \A s \in Stream : Told(s) = {}
      BY <2>1, <1>1 DEF Told
    <2> QED  BY <2>1, <2>2, <2>3
  <1>7. PDUsSound
    BY <1>1, <1>6 DEF PDUsSound
  <1>8. NextSound
    BY <1>1 DEF NextSound
  <1>9. SearchExact
    BY <1>1 DEF SearchExact, Ready
  <1>10. ArrivedSound
    BY <1>1 DEF ArrivedSound
  <1>11. OrderSound
    <2>1. \A n : ~Open(n)
      BY <1>1 DEF Open, Ordered
    <2>2. \A s \in Stream : DOMAIN announced[s] = {} /\ DOMAIN se.prePduList[s] = {}
      BY <1>1
    <2> QED  BY <1>1, <1>6, <2>1, <2>2 DEF OrderSound
  <1> QED  BY <1>1, <1>4, <1>5, <1>7, <1>8, <1>9, <1>10, <1>11 DEF StreamInv, Base

\* A new association begins as the first one did.
LEMMA NewAssociationFresh == Base /\ NewAssociation => Fresh'
  <1> SUFFICES ASSUME Base, NewAssociation PROVE Fresh'
    OBVIOUS
  <1>1. upTo = 0
    BY DEF Base, ChunksSound, NewAssociation
  <1>2. /\ scan \in [at : {0} \cup Numbers, first : {0} \cup Numbers]
        /\ hasData \in BOOLEAN
    BY DEF Base, Typed
  <1>3. /\ \E base \in FirstTSNs, ssn \in FirstSSNs :
             peer' = NewPeer(base, ssn) /\ se' = NewStreamEngine(ssn)
        /\ came' = {} /\ point' = 0 /\ given' = {} /\ kept' = {} /\ aborted' = FALSE
        /\ announced' = [s \in Stream |-> <<>>]
        /\ scan' = scan /\ phase' = phase /\ hasData' = hasData /\ upTo' = upTo
        /\ phase = "idle"
    BY DEF NewAssociation
  <1> QED  BY <1>1, <1>2, <1>3 DEF Fresh

LEMMA NewAssociationInv == StreamInv /\ NewAssociation => StreamInv'
  <1>1. Base /\ NewAssociation => Fresh'
    BY NewAssociationFresh
  <1>2. Fresh => StreamInv
    BY FreshInv
  <1>3. StreamInv => Base
    BY DEF StreamInv
  <1> QED  BY <1>1, <1>2, <1>3, PTL

\* A step that changes nothing keeps the invariant.
LEMMA StutterInv ==
  ASSUME StreamInv, UNCHANGED vars
  PROVE  StreamInv'
  <1>1. UNCHANGED <<peer, came, point, se, scan, phase, hasData, upTo, aborted, given, kept, announced>>
    BY DEF vars
  <1>2. sent' = sent
    BY <1>1 DEF sent
  <1> USE DEF sent
  <1>3. Base'
    <2>1. Typed'
      BY <1>1 DEF StreamInv, Base, Typed
    <2>2. PeerSound' /\ PeerNumbered'
      BY <1>1, PeerKept DEF StreamInv, Base
    <2>3. ChunksSound'
      BY <1>1 DEF StreamInv, Base, ChunksSound
    <2>4. ScanSound'
      <3>1. ScanSound
        BY DEF StreamInv, Base
      <3>2. \A n : (Deliverable(sent[n]))' <=> Deliverable(sent[n])
        BY <1>1 DEF Deliverable
      <3> QED  BY <1>1, <3>1, <3>2 DEF ScanSound
    <2>5. PDUsSound'
      <3>1. PDUsSound
        BY DEF StreamInv, Base
      <3>2. \A s \in Stream : PDUs(s)' = PDUs(s)
        BY <1>1 DEF PDUs
      <3>3. \A s, f, l : IsMessage(s, f, l)' <=> IsMessage(s, f, l)
        BY SMTT(30), <1>1, PeerKept DEF IsMessage
      <3> QED  BY <1>1, <3>1, <3>2, <3>3 DEF PDUsSound
    <2> QED  BY <2>1, <2>2, <2>3, <2>4, <2>5 DEF Base
  <1>4. SearchExact'
    BY <1>1 DEF StreamInv, SearchExact, Ready, Cursor, Deliverable, Same
  <1>5. (Numbered <=> Numbered')
    BY <1>1 DEF Numbered, UnorderedGiven
  <1>6. Numbered => (NextSound /\ ArrivedSound)'
    BY SMTT(30), <1>1 DEF StreamInv, NextSound, ArrivedSound, NextPlace, Place, Back, Ordered,
       Same, Left, Told
  <1>7. Numbered => OrderSound'
    BY <1>1 DEF StreamInv, OrderSound, Behind, NextPlace, Place, Back, Ordered, Open, Relevant,
       Cursor, Told
  <1> QED  BY <1>3, <1>4, <1>5, <1>6, <1>7 DEF StreamInv

-----------------------------------------------------------------------------
(* Every step keeps the invariant. *)

LEMMA NextBase ==
  ASSUME Base, Next, ~NewAssociation
  PROVE  Base'
  <1>1. ASSUME NEW s \in Stream, NEW length \in Lengths, NEW unordered \in BOOLEAN,
               UlpSend(s, length, unordered)
        PROVE  Base'
    BY <1>1, UlpSendBase
  <1>2. ASSUME NEW n \in Numbers, RecvDataChunk(n) PROVE Base'
    BY <1>2, RecvDataChunkBase
  <1>3. ASSUME NEW a \in {0} \cup Numbers, NEW u \in Numbers, ForwardTSN(a, u) PROVE Base'
    BY <1>3, ForwardTSNBase
  <1>4. CASE EndDatagram
    BY <1>4, EndDatagramBase
  <1>5. CASE SearchBegin
    BY <1>5, SearchBeginBase
  <1>6. CASE SearchFragment
    BY <1>6, SearchFragmentBase
  <1>7. CASE SearchEnd
    BY <1>7, SearchEndBase
  <1>8. CASE DeliverWaiting
    BY <1>8, DeliverWaitingBase
  <1>9. CASE Delivered
    BY <1>9, DeliveredBase
  <1>10. ASSUME NEW s \in Stream, NEW bytes \in Reads, UlpReceiveFrom(s, bytes) PROVE Base'
    BY <1>10, UlpReceiveFromBase
  <1> QED
    BY <1>1, <1>2, <1>3, <1>4, <1>5, <1>6, <1>7, <1>8, <1>9, <1>10 DEF Next, Sending, Receiving

LEMMA NextSearch ==
  ASSUME Base, SearchExact, Next, ~NewAssociation
  PROVE  SearchExact'
  <1>1. ASSUME NEW s \in Stream, NEW length \in Lengths, NEW unordered \in BOOLEAN,
               UlpSend(s, length, unordered)
        PROVE  SearchExact'
    BY <1>1, UlpSendSearch
  <1>2. ASSUME NEW n \in Numbers, RecvDataChunk(n) PROVE SearchExact'
    BY <1>2, RecvDataChunkSearch
  <1>3. ASSUME NEW a \in {0} \cup Numbers, NEW u \in Numbers, ForwardTSN(a, u) PROVE SearchExact'
    BY <1>3, ForwardTSNSearch
  <1>4. CASE EndDatagram
    BY <1>4, EndDatagramSearch
  <1>5. CASE SearchBegin
    BY <1>5, SearchBeginSearch
  <1>6. CASE SearchFragment
    BY <1>6, SearchFragmentSearch
  <1>7. CASE SearchEnd
    BY <1>7, SearchEndSearch
  <1>8. CASE DeliverWaiting
    BY <1>8, DeliverWaitingSearch
  <1>9. CASE Delivered
    BY <1>9, DeliveredSearch
  <1>10. ASSUME NEW s \in Stream, NEW bytes \in Reads, UlpReceiveFrom(s, bytes) PROVE SearchExact'
    BY <1>10, UlpReceiveFromSearch
  <1> QED
    BY <1>1, <1>2, <1>3, <1>4, <1>5, <1>6, <1>7, <1>8, <1>9, <1>10 DEF Next, Sending, Receiving

LEMMA NextNumbered ==
  ASSUME Base, Numbered', NextSound, ArrivedSound, Next, ~NewAssociation
  PROVE  NextSound' /\ ArrivedSound'
  <1> DEFINE Goal == NextSound' /\ ArrivedSound'
  <1>1. ASSUME NEW s \in Stream, NEW length \in Lengths, NEW unordered \in BOOLEAN,
               UlpSend(s, length, unordered)
        PROVE  Goal
    BY <1>1, UlpSendNumbered
  <1>2. ASSUME NEW n \in Numbers, RecvDataChunk(n) PROVE Goal
    BY <1>2, RecvDataChunkNumbered
  <1>3. ASSUME NEW a \in {0} \cup Numbers, NEW u \in Numbers, ForwardTSN(a, u) PROVE Goal
    BY <1>3, ForwardTSNNumbered
  <1>4. CASE EndDatagram
    BY <1>4, EndDatagramNumbered
  <1>5. CASE SearchBegin
    BY <1>5, SearchBeginNumbered
  <1>6. CASE SearchFragment
    BY <1>6, SearchFragmentNumbered
  <1>7. CASE SearchEnd
    BY <1>7, SearchEndNumbered
  <1>8. CASE DeliverWaiting
    BY <1>8, DeliverWaitingNumbered
  <1>9. CASE Delivered
    BY <1>9, DeliveredNumbered
  <1>10. ASSUME NEW s \in Stream, NEW bytes \in Reads, UlpReceiveFrom(s, bytes) PROVE Goal
    BY <1>10, UlpReceiveFromNumbered
  <1> QED
    BY <1>1, <1>2, <1>3, <1>4, <1>5, <1>6, <1>7, <1>8, <1>9, <1>10 DEF Next, Sending, Receiving

LEMMA NextOrder ==
  ASSUME Base, Numbered', NextSound, OrderSound, Next, ~NewAssociation
  PROVE  OrderSound'
  <1>1. ASSUME NEW s \in Stream, NEW length \in Lengths, NEW unordered \in BOOLEAN,
               UlpSend(s, length, unordered)
        PROVE  OrderSound'
    BY <1>1, UlpSendOrder
  <1>2. ASSUME NEW n \in Numbers, RecvDataChunk(n) PROVE OrderSound'
    BY <1>2, RecvDataChunkOrder
  <1>3. ASSUME NEW a \in {0} \cup Numbers, NEW u \in Numbers, ForwardTSN(a, u) PROVE OrderSound'
    BY <1>3, ForwardTSNOrder
  <1>4. CASE EndDatagram
    BY <1>4, EndDatagramOrder
  <1>5. CASE SearchBegin
    BY <1>5, SearchBeginOrder
  <1>6. CASE SearchFragment
    BY <1>6, SearchFragmentOrder
  <1>7. CASE SearchEnd
    BY <1>7, SearchEndOrder
  <1>8. CASE DeliverWaiting
    BY <1>8, DeliverWaitingOrder
  <1>9. CASE Delivered
    BY <1>9, DeliveredOrder
  <1>10. ASSUME NEW s \in Stream, NEW bytes \in Reads, UlpReceiveFrom(s, bytes) PROVE OrderSound'
    BY <1>10, UlpReceiveFromOrder
  <1> QED
    BY <1>1, <1>2, <1>3, <1>4, <1>5, <1>6, <1>7, <1>8, <1>9, <1>10 DEF Next, Sending, Receiving

\* Unordered chunks that were given up stay so as long as the association lives.
LEMMA NumberedBefore ==
  ASSUME Base, Next, ~NewAssociation, Numbered'
  PROVE  Numbered
  <1>1. CASE Sending
    <2>1. point = 0
      BY <1>1 DEF Sending, UlpSend
    <2>2. given = {}
      BY <2>1 DEF Base, ChunksSound
    <2> QED  BY <2>2 DEF Numbered, UnorderedGiven
  <1>2. CASE Receiving
    <2>1. peer' = peer /\ given \subseteq given'
      BY <1>2 DEF Receiving, RecvDataChunk, ForwardTSN, EndDatagram, SearchBegin, SearchFragment,
         SearchEnd, DeliverWaiting, Delivered, UlpReceiveFrom
    <2>2. sent' = sent
      BY <2>1 DEF sent
    <2> QED  BY <2>1, <2>2 DEF Numbered, UnorderedGiven
  <1> QED  BY <1>1, <1>2 DEF Next

LEMMA StepInv == StreamInv /\ [Next]_vars => StreamInv'
  <1>1. ASSUME StreamInv, Next, ~NewAssociation PROVE StreamInv'
    <2>1. Base' /\ SearchExact'
      BY <1>1, NextBase, NextSearch DEF StreamInv
    <2>2. Numbered' => Numbered
      BY <1>1, NumberedBefore DEF StreamInv
    <2>3. Numbered' => NextSound' /\ ArrivedSound'
      BY <1>1, <2>2, NextNumbered DEF StreamInv
    <2>4. Numbered' => OrderSound'
      BY <1>1, <2>2, NextOrder DEF StreamInv
    <2> QED  BY <2>1, <2>3, <2>4 DEF StreamInv
  <1> QED  BY <1>1, NewAssociationInv, StutterInv

\* It holds where the program starts.
LEMMA InitInv == Init => StreamInv
  <1>1. Init => Fresh
    <2> SUFFICES ASSUME Init PROVE Fresh
      OBVIOUS
    <2>1. scan \in [at : {0} \cup Numbers, first : {0} \cup Numbers]
      BY DEF Init
    <2> QED  BY <2>1 DEF Init, Fresh
  <1> QED  BY <1>1, FreshInv

\* The invariant of the stream engine: its list, its search and its PDUs fit
\* the messages that the peer sent, and the search leaves nothing behind that it
\* could announce.  As long as no unordered message was given up, what can still
\* be announced is behind all that was, but for chunks that were kept.
THEOREM StreamInvariant == Spec => []StreamInv
  <1> QED  BY InitInv, StepInv, PTL DEF Spec

-----------------------------------------------------------------------------
(* What the stream engine promises *)

\* Where a message ends.
LEMMA MessageIs ==
  ASSUME Typed, PeerSound, NEW f \in DOMAIN sent
  PROVE  \E l \in f..Len(sent) : Message(f) = f..l /\ Same(f, l) /\ sent[l].end
  <1> DEFINE T == {n \in f..Len(sent) : sent[n].end}
  <1>1. f \in 1..Len(sent) /\ Len(sent) \in Nat /\ Len(sent) \in f..Len(sent)
    BY SentIs
  <1>2. T \in SUBSET Nat /\ T # {}
    BY <1>1 DEF PeerSound
  <1>3. Min(T) \in T /\ \A y \in T : Min(T) <= y
    BY <1>2, LeastElement
  <1>4. PICK l \in f..Len(sent) : l = Min(T) /\ sent[l].end /\ \A y \in T : l <= y
    BY <1>3
  <1>5. Message(f) = f..l
    BY <1>4 DEF Message
  <1>6. Same(f, l)
    <2> SUFFICES ASSUME NEW k \in f..(l - 1), sent[k].end PROVE FALSE
      BY DEF Same
    <2>1. k \in T /\ ~(l <= k)
      BY <1>1, <1>4
    <2> QED  BY <2>1, <1>4
  <1> QED  BY <1>4, <1>5, <1>6

\* A message ends where its first end is.
LEMMA MessageEnds ==
  ASSUME Typed, PeerSound, NEW f \in DOMAIN sent, NEW l \in f..Len(sent), Same(f, l), sent[l].end
  PROVE  Message(f) = f..l
  <1>1. PICK k \in f..Len(sent) : Message(f) = f..k /\ Same(f, k) /\ sent[k].end
    BY MessageIs
  <1>2. f \in Int /\ k \in Int /\ l \in Int /\ f <= k /\ f <= l
    BY SentIs
  <1>3. ~(k < l) /\ ~(l < k)
    BY <1>1, <1>2 DEF Same
  <1> QED  BY <1>1, <1>2, <1>3

LEMMA DeliveredWholeHolds == StreamInv => DeliveredWhole
  <1> SUFFICES ASSUME StreamInv, NEW s \in Stream, NEW pdu \in PDUs(s)
               PROVE  /\ sent[pdu.first].begin /\ sent[pdu.first].sid = s
                      /\ pdu.first..pdu.last = Message(pdu.first)
    BY DEF DeliveredWhole
  <1> USE DEF StreamInv, Base
  <1>1. PICK f, l : f = pdu.first /\ l = pdu.last
    OBVIOUS
  <1>2. IsMessage(s, f, l)
    BY <1>1 DEF PDUsSound
  <1>3. f \in DOMAIN sent /\ l \in f..Len(sent) /\ Same(f, l) /\ sent[l].end
    BY <1>2 DEF IsMessage, ChunksSound
  <1>4. Message(f) = f..l
    BY <1>3, MessageEnds
  <1> QED  BY <1>1, <1>2, <1>4 DEF IsMessage

\* A PDU consists of all the fragments of one message of its stream and of
\* nothing else, whatever is lost, reordered or given up, also where the TSNs
\* and SSNs wrap (se_searchReadyPdu).
THEOREM MessagesWhole == Spec => []DeliveredWhole
  <1> QED  BY StreamInvariant, DeliveredWholeHolds, PTL

LEMMA NothingReadyWaitsHolds == StreamInv => NothingReadyWaits
  <1> SUFFICES ASSUME StreamInv, phase = "idle", ~aborted, NEW f \in se.List,
                      sent[f].begin, Deliverable(sent[f]), Message(f) \subseteq se.List
               PROVE  FALSE
    BY DEF NothingReadyWaits
  <1> USE DEF StreamInv, Base
  <1>1. f \in DOMAIN sent /\ f \in Numbers
    BY SentIs DEF ChunksSound
  <1>2. PICK l \in f..Len(sent) : Message(f) = f..l /\ Same(f, l) /\ sent[l].end
    BY <1>1, MessageIs
  <1>3. Ready(f)
    BY <1>2 DEF Ready
  <1> QED  BY <1>1, <1>3 DEF SearchExact

\* When the handling of a datagram ends, no complete message that its stream is
\* ready for is left in the list, whatever was given up: the one search of
\* se_doNotifications finds them all.
THEOREM NothingReadyEverWaits == Spec => []NothingReadyWaits
  <1> QED  BY StreamInvariant, NothingReadyWaitsHolds, PTL

\* If nothing is given up, what is ready to be announced when the search is
\* done has been announced already.
LEMMA ReliableArrivesHolds == StreamInv => ReliableArrives
  <1> SUFFICES ASSUME StreamInv, phase = "idle", ~aborted, given = {}, NEW f \in came,
                      sent[f].begin, Message(f) \subseteq came,
                      sent[f].unordered \/ Earlier(f) \subseteq came,
                      f \notin ToSet(announced[sent[f].sid])
               PROVE  FALSE
    BY DEF ReliableArrives
  <1> USE DEF StreamInv, Base
  <1> DEFINE s == sent[f].sid
  <1>1. /\ f \in DOMAIN sent /\ f \in Numbers /\ s \in Stream
        /\ DOMAIN sent = 1..Len(sent) /\ Len(sent) \in Nat
        /\ \A n \in DOMAIN sent : n \in Numbers /\ n \in Nat
    BY SentIs DEF ChunksSound
  <1>2. Told(s) = ToSet(announced[s])
    <2>1. se.prePduList[s] = <<>>
      BY <1>1 DEF ChunksSound
    <2>2. ToSet(<<>>) = {}
      BY DEF ToSet
    <2> QED  BY <2>1, <2>2 DEF Told
  <1>3. \A n \in Numbers : ~Ready(n)
    BY DEF SearchExact
  <1>4. PICK l \in f..Len(sent) : Message(f) = f..l /\ Same(f, l) /\ sent[l].end
    BY <1>1, MessageIs
  <1>5. ArrivedSound /\ NextSound
    BY DEF Numbered, UnorderedGiven
  \* The message is in the list.
  <1>6. ~Left(f)
    BY <1>1, <1>2, <1>5 DEF ArrivedSound
  <1>7. f..l \subseteq se.List
    <2> SUFFICES ASSUME NEW n \in f..l PROVE n \in se.List
      OBVIOUS
    <2>1. n \in DOMAIN sent /\ Same(f, n) /\ n \in came
      BY <1>1, <1>4, MessageChunks
    <2>2. ~Left(n)
      <3>1. CASE n = f
        BY <3>1, <1>6
      <3>2. CASE n # f
        <4>1. f < n
          BY <1>1, <3>2
        <4> QED  BY <4>1, <2>1, <1>1, <1>5, <1>6 DEF ArrivedSound
      <3> QED  BY <3>1, <3>2
    <2> QED  BY <2>1, <2>2 DEF Left
  <1>8. f \in f..l
    BY <1>1
  <1>9. ~Deliverable(sent[f])
    BY <1>1, <1>3, <1>4, <1>7, <1>8 DEF Ready
  <1>10. ~sent[f].unordered
    BY <1>9 DEF Deliverable
  <1>11. Ordered(f)
    BY <1>1, <1>10 DEF Ordered
  \* The one that its stream waits for is a message before it.
  <1>12. /\ Place(f) \in Nat /\ NextPlace(s) \in Nat /\ Place(f) < NextPlace(s)
         /\ Place(f) >= 1
    <2>1. Place(f) \in Nat /\ Place(f) >= 1
      BY <1>11, Places, <1>1
    <2>2. NextPlace(s) \in Nat
      BY <1>1, <1>5, NextPlaces
    <2>3. ~(Place(f) >= NextPlace(s))
      BY <1>5, <1>9, <1>11, DeliverableIs
    <2> QED  BY <2>1, <2>2, <2>3
  <1>13. PICK b \in DOMAIN sent : Ordered(b) /\ sent[b].begin /\ sent[b].sid = s
                                  /\ Place(b) = NextPlace(s)
    <2>1. NextPlace(s) \in 1..NextPlace(s)
      BY <1>12
    <2> QED  BY <2>1, <1>1, <1>5 DEF ArrivedSound
  <1>14. b < f
    <2>1. b # f /\ b \in Nat /\ f \in Nat
      BY <1>1, <1>12, <1>13
    <2>2. f < b => ~(Place(f) < Place(b))
      <3>1. f < b => Place(f) > Place(b) \/ Same(f, b)
        BY <1>11, <1>13, Apart
      <3>2. f < b => ~Same(f, b)
        BY <1>1, <1>13 DEF PeerSound
      <3> QED  BY <3>1, <3>2, <1>12, <1>13
    <2> QED  BY <2>1, <2>2, <1>12, <1>13
  <1>15. PICK k \in b..Len(sent) : Same(b, k) /\ sent[k].end
    BY MessageIs
  <1>16. \A n \in b..k : n \in Earlier(f) /\ ~Left(n)
    <2> SUFFICES ASSUME NEW n \in b..k PROVE n \in Earlier(f) /\ ~Left(n)
      OBVIOUS
    <2>1. n \in DOMAIN sent /\ sent[n].sid = s /\ ~sent[n].unordered /\ Place(n) = Place(b)
      <3>1. /\ n \in DOMAIN sent /\ sent[n].sid = sent[b].sid /\ sent[n].ssn = sent[b].ssn
            /\ sent[n].unordered = sent[b].unordered
        BY <1>13, <1>15, MessageChunks
      <3> QED  BY <3>1, <1>13 DEF Place, Ordered
    <2>2. Ordered(n)
      BY <2>1 DEF Ordered
    <2>3. n < f
      <3>1. n # f
        BY <2>1, <1>12, <1>13
      <3>2. ~(n > f)
        <4>1. n > f => k > f - 1 /\ f \in b..k
          BY <1>1, <1>14
        <4>2. f \notin b..k
          <5>1. f \in b..k => f = b
            BY <1>13, <1>15, MessageChunks
          <5> QED  BY <5>1, <1>14, <1>1
        <4> QED  BY <4>1, <4>2
      <3> QED  BY <3>1, <3>2, <2>1, <1>1
    <2>4. n \in Earlier(f)
      BY <2>1, <2>3, <1>1 DEF Earlier
    <2>5. ~Left(n)
      <3>1. Left(n) <=> Place(n) > NextPlace(sent[n].sid)
        BY <1>5, <2>1, <2>2 DEF ArrivedSound
      <3> QED  BY <3>1, <2>1, <1>12, <1>13
    <2> QED  BY <2>4, <2>5
  <1>17. b..k \subseteq se.List
    BY <1>10, <1>16 DEF Left
  <1>18. b \in b..k
    BY <1>1
  <1>19. Deliverable(sent[b])
    BY <1>5, <1>12, <1>13, DeliverableIs
  <1>20. Ready(b)
    BY <1>13, <1>15, <1>17, <1>18, <1>19 DEF Ready
  <1> QED  BY <1>1, <1>3, <1>20

\* As long as no FORWARD TSN has told of a message given up, a message was
\* announced by the end of the datagram that brought its last fragment, or, if
\* it is ordered, the last fragment missing of it and of those before it on its
\* stream: the receiver loses and forgets none.
THEOREM ReliableAlwaysArrives == Spec => []ReliableArrives
  <1> QED  BY StreamInvariant, ReliableArrivesHolds, PTL

LEMMA OrderKeptHolds == StreamInv => OrderKept
  <1> SUFFICES ASSUME StreamInv, ~UnorderedGiven, NEW s \in Stream,
                      NEW i \in DOMAIN announced[s], NEW j \in DOMAIN announced[s], i < j,
                      ~sent[announced[s][i]].unordered, ~sent[announced[s][j]].unordered
               PROVE  /\ announced[s][i] # announced[s][j]
                      /\ announced[s][i] < announced[s][j] \/ announced[s][j] \in kept
    BY DEF OrderKept
  <1>1. OrderSound /\ PDUsSound /\ ChunksSound
    BY DEF StreamInv, Base, Numbered
  <1>2. \A f \in ToSet(announced[s]) : f \in DOMAIN sent
    BY <1>1 DEF PDUsSound, ChunksSound
  <1>3. Ordered(announced[s][i]) /\ Ordered(announced[s][j])
    BY <1>2 DEF Ordered, ToSet
  <1> QED  BY <1>1, <1>3 DEF OrderSound, Behind

\* The ordered messages of a stream are announced in the order in which they
\* were sent, each at most once, whatever arrives first and whatever ordered
\* messages are given up, also where the TSNs and SSNs wrap; only a message that
\* a FORWARD TSN passed and the drop in se_deliver_unreliably left in the list
\* may come behind later ones.
THEOREM OrderAlwaysKept == Spec => []OrderKept
  <1> QED  BY StreamInvariant, OrderKeptHolds, PTL
=============================================================================

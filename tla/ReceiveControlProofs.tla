------------------------ MODULE ReceiveControlProofs ------------------------
(***************************************************************************)
(* Theorems about ReceiveControl.                                          *)
(*                                                                         *)
(* For any width of the serial numbers, any window, any limits, and a      *)
(* network that lets a FORWARD TSN overtake what it covers or not: type    *)
(* correctness, DataIsAnswered and WindowOpens.                            *)
(*                                                                         *)
(* And ReceiveControl implements Receiver: for any width of the serial     *)
(* numbers and any initial TSN, the list of fragments, the cumulative      *)
(* point and the comparisons of TSNs stand for a set of chunks, as long as *)
(* a FORWARD TSN overtakes no chunk and what is under way is less than     *)
(* half of the serial numbers.                                             *)
(***************************************************************************)
EXTENDS ReceiveControl, SequenceTheorems, WellFoundedInduction, TLAPS

Buffer ==
  [ctsna : TSN, lowest : TSN, highest : TSN, frag_list : Seq(Fragment),
   contains_valid_sack : BOOLEAN, sack : SACK, timer_running : BOOLEAN,
   datagrams_received : -1..1, sack_flag : 1..2]

-----------------------------------------------------------------------------
(* Extrema *)

\* A set of natural numbers has a least element, and Min is it.
LEMMA MinIsElement ==
  ASSUME NEW S \in SUBSET Nat, S # {}
  PROVE  Min(S) \in S
  <1>1. \E x \in S : \A y \in S : ~ (<<y, x>> \in OpToRel(<, Nat))
    BY NatLessThanWellFounded, WFMin
  <1>2. PICK x \in S : \A y \in S : ~ (<<y, x>> \in OpToRel(<, Nat))
    BY <1>1
  <1>3. ASSUME NEW y \in S PROVE x =< y
    <2>1. x \in Nat /\ y \in Nat
      OBVIOUS
    <2>2. ~ (y < x)
      BY <1>2, <2>1 DEF OpToRel
    <2> QED  BY <2>1, <2>2
  <1> QED  BY <1>3 DEF Min

\* A set of natural numbers with a bound has a largest element, and Max is it.
LEMMA MaxIsElement ==
  ASSUME NEW n \in Nat, NEW S \in SUBSET (0..n), S # {}
  PROVE  Max(S) \in S
  <1> DEFINE T == {n - x : x \in S}
  <1>0. \A x \in S : x \in Nat /\ n - x \in Nat
    OBVIOUS
  <1>1. T \in SUBSET Nat /\ T # {}
    BY <1>0
  <1>2. PICK t \in T : \A y \in T : ~ (<<y, t>> \in OpToRel(<, Nat))
    BY <1>1, NatLessThanWellFounded, WFMin
  <1>3. PICK x \in S : t = n - x
    OBVIOUS
  <1>4. \A y \in S : ~ (n - y < n - x)
    BY <1>1, <1>2, <1>3 DEF OpToRel
  <1>5. \A y \in S : x >= y
    BY <1>4
  <1> QED  BY <1>5 DEF Max

-----------------------------------------------------------------------------
(* Serial numbers *)

\* Arithmetic on serial numbers stays within them.
LEMMA SerialTypes ==
  \A s, t \in Int : Plus(s, t) \in TSN /\ Minus(s, t) \in TSN
  BY ModulusAssumption DEF Plus, Minus, TSN

LEMMA TSNIsInteger == TSN \subseteq Int /\ 1 \in Int
  BY ModulusAssumption DEF TSN

-----------------------------------------------------------------------------
(* The list of fragments *)

\* Replacing a field by a value of its type keeps the buffer's type.
LEMMA BufferFields ==
  ASSUME NEW r \in Buffer
  PROVE  /\ \A t \in TSN : [r EXCEPT !.ctsna = t] \in Buffer
         /\ \A t \in TSN : [r EXCEPT !.lowest = t] \in Buffer
         /\ \A t \in TSN : [r EXCEPT !.highest = t] \in Buffer
         /\ \A fs \in Seq(Fragment) : [r EXCEPT !.frag_list = fs] \in Buffer
         /\ \A t \in TSN, fs \in Seq(Fragment) :
              [r EXCEPT !.ctsna = t, !.frag_list = fs] \in Buffer
  BY DEF Buffer

\* A fragment whose ends are moved is a fragment, in a list as well.
LEMMA FragmentEnds ==
  ASSUME NEW fs \in Seq(Fragment), NEW i \in 1..Len(fs), NEW tsn \in TSN
  PROVE  /\ fs[i] \in Fragment /\ fs[i].start_tsn \in TSN /\ fs[i].stop_tsn \in TSN
         /\ [fs EXCEPT ![i].start_tsn = tsn] \in Seq(Fragment)
         /\ [fs EXCEPT ![i].stop_tsn = tsn] \in Seq(Fragment)
  <1>1. fs[i] \in Fragment
    BY ElementOfSeq
  <1>2. /\ fs[i].start_tsn \in TSN /\ fs[i].stop_tsn \in TSN
        /\ [fs[i] EXCEPT !.start_tsn = tsn] \in Fragment
        /\ [fs[i] EXCEPT !.stop_tsn = tsn] \in Fragment
    BY <1>1 DEF Fragment
  <1>3. /\ [fs EXCEPT ![i] = [fs[i] EXCEPT !.start_tsn = tsn]] \in Seq(Fragment)
        /\ [fs EXCEPT ![i] = [fs[i] EXCEPT !.stop_tsn = tsn]] \in Seq(Fragment)
    BY <1>2, ExceptSeq
  <1> QED  BY <1>1, <1>2, <1>3

\* Parts of a list, and a list with one element less or more, are lists.
LEMMA ListParts ==
  ASSUME NEW fs \in Seq(Fragment), NEW m \in Nat \ {0}
  PROVE  /\ \A n \in 0..Len(fs) : SubSeq(fs, m, n) \in Seq(Fragment)
         /\ m <= Len(fs) => RemoveAt(fs, m) \in Seq(Fragment)
         /\ m <= Len(fs) + 1 => \A f \in Fragment : InsertAt(fs, m, f) \in Seq(Fragment)
  <1>0. Len(fs) \in Nat /\ \A i \in 1..Len(fs) : fs[i] \in Fragment
    BY LenProperties, ElementOfSeq
  <1>1. ASSUME NEW a \in Nat \ {0}, NEW n \in 0..Len(fs)
        PROVE  SubSeq(fs, a, n) \in Seq(Fragment)
    BY <1>0, SubSeqProperties
  <1>2. ASSUME m <= Len(fs)
        PROVE  RemoveAt(fs, m) \in Seq(Fragment)
    <2>1. SubSeq(fs, 1, m - 1) \in Seq(Fragment) /\ SubSeq(fs, m + 1, Len(fs)) \in Seq(Fragment)
      BY <1>0, <1>1, <1>2
    <2> QED  BY <2>1, ConcatProperties DEF RemoveAt
  <1>3. ASSUME m <= Len(fs) + 1, NEW f \in Fragment
        PROVE  InsertAt(fs, m, f) \in Seq(Fragment)
    <2>1. SubSeq(fs, 1, m - 1) \in Seq(Fragment) /\ SubSeq(fs, m, Len(fs)) \in Seq(Fragment)
      BY <1>0, <1>1, <1>3
    <2>2. <<f>> \in Seq(Fragment)
      OBVIOUS
    <2>3. SubSeq(fs, 1, m - 1) \o <<f>> \in Seq(Fragment)
      BY <2>1, <2>2, ConcatProperties
    <2> QED  BY <2>1, <2>3, ConcatProperties DEF InsertAt
  <1> QED  BY <1>1, <1>2, <1>3

-----------------------------------------------------------------------------
(* The operators keep the buffer's type *)

\* The gap before a fragment, or behind the last one, starts at a TSN.
LEMMA GapTypes ==
  ASSUME NEW r \in Buffer
  PROVE  /\ r.ctsna \in TSN /\ r.frag_list \in Seq(Fragment) /\ Len(r.frag_list) \in Nat
         /\ DOMAIN r.frag_list = 1..Len(r.frag_list)
         /\ GapStart(r, 1) = Plus(r.ctsna, 1)
         /\ \A i \in 1..Len(r.frag_list) :
              r.frag_list[i].start_tsn \in TSN /\ GapStop(r, i) \in TSN
  <1>1. r.ctsna \in TSN /\ r.frag_list \in Seq(Fragment)
    BY DEF Buffer
  <1>2. Len(r.frag_list) \in Nat /\ DOMAIN r.frag_list = 1..Len(r.frag_list)
    BY <1>1, LenProperties
  <1>3. ASSUME NEW i \in 1..Len(r.frag_list)
        PROVE  r.frag_list[i].start_tsn \in TSN /\ GapStop(r, i) \in TSN
    <2>1. r.frag_list[i].start_tsn \in TSN
      BY <1>1, FragmentEnds
    <2> QED  BY <2>1, SerialTypes, TSNIsInteger DEF GapStop
  <1> QED  BY <1>1, <1>2, <1>3 DEF GapStart

\* A new fragment is put at a place of the list or behind its end.
LEMMA PlaceInList ==
  ASSUME NEW r \in Buffer, NEW tsn \in TSN
  PROVE  SortedPlace(r, tsn) \in 1..(Len(r.frag_list) + 1)
  <1>1. Len(r.frag_list) \in Nat /\ DOMAIN r.frag_list = 1..Len(r.frag_list)
    BY GapTypes
  <1> DEFINE follows(f) == /\ After(tsn, f.start_tsn) /\ After(tsn, f.stop_tsn)
                           /\ ~ (Before(tsn, f.start_tsn) /\ Before(tsn, f.stop_tsn))
             S == {i \in DOMAIN r.frag_list : ~ follows(r.frag_list[i])}
                    \cup {Len(r.frag_list) + 1}
  <1>2. S \in SUBSET Nat /\ S # {} /\ S \subseteq 1..(Len(r.frag_list) + 1)
    <2> HIDE DEF follows
    <2> QED  BY <1>1
  <1>3. Min(S) \in S
    <2> HIDE DEF S
    <2> QED  BY <1>2, MinIsElement
  <1>4. SortedPlace(r, tsn) = Min(S)
    BY DEF SortedPlace
  <1> QED  BY <1>2, <1>3, <1>4

\* Entering a TSN into the list of fragments (rxc_update_fragments) keeps the
\* buffer's type: every index it uses is one of the list.
LEMMA UpdateTypes ==
  ASSUME NEW r \in Buffer, NEW tsn \in TSN
  PROVE  UpdateFragments(r, tsn) \in Buffer
  <1> DEFINE frags == r.frag_list
             new == [start_tsn |-> tsn, stop_tsn |-> tsn]
             hits == {j \in DOMAIN frags : Between(GapStart(r, j), tsn, GapStop(r, j))}
             i == Min(hits)
             gapsize == Plus(Minus(GapStop(r, i), GapStart(r, i)), 1)
             next == Plus(r.ctsna, 1)
  <1>1. /\ r.ctsna \in TSN /\ frags \in Seq(Fragment) /\ Len(frags) \in Nat
        /\ DOMAIN frags = 1..Len(frags) /\ GapStart(r, 1) = next
    BY GapTypes
  <1>2. new \in Fragment
    BY DEF Fragment
  <1>3. [r EXCEPT !.ctsna = tsn] \in Buffer
    BY BufferFields
  <1>4. CASE hits = {}
    <2>1. [r EXCEPT !.frag_list = Append(@, new)] \in Buffer
      <3>1. Append(frags, new) \in Seq(Fragment)
        BY <1>1, <1>2, AppendProperties
      <3> QED  BY <3>1, BufferFields
    <2>2. ASSUME tsn # next, tsn = GapStart(r, Len(frags) + 1)
          PROVE  [r EXCEPT !.frag_list[Len(frags)].stop_tsn = tsn] \in Buffer
      <3>1. Len(frags) \in 1..Len(frags)
        BY <1>1, <2>2
      <3>2. [frags EXCEPT ![Len(frags)].stop_tsn = tsn] \in Seq(Fragment)
        BY <1>1, <3>1, FragmentEnds
      <3>3. [r EXCEPT !.frag_list = [frags EXCEPT ![Len(frags)].stop_tsn = tsn]] \in Buffer
        BY <3>2, BufferFields
      <3> QED  BY <3>3
    <2>3. CASE tsn = next /\ tsn = GapStart(r, Len(frags) + 1)
      BY <1>3, <1>4, <2>3 DEF UpdateFragments
    <2>4. CASE tsn # next /\ tsn = GapStart(r, Len(frags) + 1)
      BY <1>4, <2>2, <2>4 DEF UpdateFragments
    <2>5. CASE tsn # GapStart(r, Len(frags) + 1)
      BY <1>4, <2>1, <2>5 DEF UpdateFragments
    <2> QED  BY <2>3, <2>4, <2>5
  <1>5. CASE hits # {}
    <2>1. i \in hits /\ i \in 1..Len(frags)
      <3>1. hits \in SUBSET Nat
        BY <1>1
      <3> QED  BY <1>1, <1>5, <3>1, MinIsElement
    <2>2. ASSUME i # 1 PROVE i - 1 \in 1..Len(frags)
      BY <1>1, <2>1, <2>2
    <2>3. /\ frags[i] \in Fragment /\ frags[i].stop_tsn \in TSN
          /\ [frags EXCEPT ![i].start_tsn = tsn] \in Seq(Fragment)
      BY <1>1, <2>1, FragmentEnds
    <2> HIDE DEF i
    <2>4. [r EXCEPT !.frag_list[i].start_tsn = tsn] \in Buffer
      <3>1. [r EXCEPT !.frag_list = [frags EXCEPT ![i].start_tsn = tsn]] \in Buffer
        BY <2>3, BufferFields
      <3> QED  BY <3>1
    <2>5. ASSUME i # 1 PROVE [r EXCEPT !.frag_list[i - 1].stop_tsn = tsn] \in Buffer
      <3>1. [frags EXCEPT ![i - 1].stop_tsn = tsn] \in Seq(Fragment)
        BY <1>1, <2>2, <2>5, FragmentEnds
      <3>2. [r EXCEPT !.frag_list = [frags EXCEPT ![i - 1].stop_tsn = tsn]] \in Buffer
        BY <3>1, BufferFields
      <3> QED  BY <3>2
    <2>6. [r EXCEPT !.frag_list = InsertAt(@, SortedPlace(r, tsn), new)] \in Buffer
      <3>1. InsertAt(frags, SortedPlace(r, tsn), new) \in Seq(Fragment)
        BY <1>1, <1>2, PlaceInList, ListParts
      <3> QED  BY <3>1, BufferFields
    <2>7. [r EXCEPT !.ctsna = frags[i].stop_tsn, !.frag_list = RemoveAt(@, i)] \in Buffer
      <3>1. RemoveAt(frags, i) \in Seq(Fragment)
        BY <1>1, <2>1, ListParts
      <3> QED  BY <2>3, <3>1, BufferFields
    <2>8. ASSUME i # 1
          PROVE  [r EXCEPT !.frag_list =
                    RemoveAt(ReplaceAt(@, i, [frags[i] EXCEPT !.start_tsn = frags[i - 1].start_tsn]),
                             i - 1)] \in Buffer
      <3>1. frags[i - 1].start_tsn \in TSN
        BY <1>1, <2>2, <2>8, FragmentEnds
      <3>2. [frags[i] EXCEPT !.start_tsn = frags[i - 1].start_tsn] \in Fragment
        BY <2>3, <3>1 DEF Fragment
      <3> DEFINE joined ==
                   ReplaceAt(frags, i, [frags[i] EXCEPT !.start_tsn = frags[i - 1].start_tsn])
      <3>3. joined \in Seq(Fragment) /\ Len(joined) = Len(frags)
        BY <1>1, <2>1, <3>2, ExceptSeq DEF ReplaceAt
      <3>4. RemoveAt(joined, i - 1) \in Seq(Fragment)
        <4> HIDE DEF joined
        <4> QED  BY <1>1, <2>1, <2>2, <2>8, <3>3, ListParts
      <3> QED  BY <3>4, BufferFields
    <2>9. i = 1 => GapStart(r, i) = next
      BY <1>1
    <2> DEFINE wide == gapsize > 1
    <2>10. UpdateFragments(r, tsn) =
             IF wide /\ tsn = GapStop(r, i)
             THEN [r EXCEPT !.frag_list[i].start_tsn = tsn]
             ELSE IF wide /\ tsn = GapStart(r, i)
             THEN IF tsn = next THEN [r EXCEPT !.ctsna = tsn]
                                ELSE [r EXCEPT !.frag_list[i - 1].stop_tsn = tsn]
             ELSE IF wide
             THEN [r EXCEPT !.frag_list = InsertAt(@, SortedPlace(r, tsn), new)]
             ELSE IF GapStart(r, i) = next
             THEN [r EXCEPT !.ctsna = frags[i].stop_tsn, !.frag_list = RemoveAt(@, i)]
             ELSE [r EXCEPT !.frag_list =
                     RemoveAt(ReplaceAt(@, i, [frags[i] EXCEPT !.start_tsn = frags[i - 1].start_tsn]),
                              i - 1)]
      BY <1>5 DEF UpdateFragments, i
    <2> HIDE DEF wide, next, new, hits, gapsize
    <2> QED  BY <1>3, <2>4, <2>5, <2>6, <2>7, <2>8, <2>9, <2>10
  <1> QED  BY <1>4, <1>5

\* Moving the cumulative point over the fragments that continue it
\* (rxc_bubbleup_ctsna) keeps the buffer's type.
LEMMA BubbleTypes ==
  ASSUME NEW r \in Buffer
  PROVE  BubbleUp(r) \in Buffer
  <1> DEFINE chained == {k \in 0..Len(r.frag_list) :
                           \A i \in 1..k : r.frag_list[i].start_tsn = GapStart(r, i)}
             k == Max(chained)
             t == IF k = 0 THEN r.ctsna ELSE r.frag_list[k].stop_tsn
             rest == SubSeq(r.frag_list, k + 1, Len(r.frag_list))
  <1>1. r.ctsna \in TSN /\ r.frag_list \in Seq(Fragment) /\ Len(r.frag_list) \in Nat
    BY GapTypes
  <1>2. k \in 0..Len(r.frag_list)
    <2>1. 0 \in chained
      BY <1>1
    <2>2. chained \in SUBSET (0..Len(r.frag_list)) /\ chained # {}
      BY <2>1
    <2>3. k \in chained
      <3> HIDE DEF chained
      <3> QED  BY <1>1, <2>2, MaxIsElement
    <2> QED  BY <2>3
  <1> HIDE DEF k
  <1>3. t \in TSN
    <2>1. CASE k = 0
      BY <1>1, <2>1
    <2>2. CASE k # 0
      <3>1. k \in 1..Len(r.frag_list)
        BY <1>1, <1>2, <2>2
      <3> QED  BY <1>1, <2>2, <3>1, FragmentEnds
    <2> QED  BY <2>1, <2>2
  <1>4. rest \in Seq(Fragment)
    BY <1>1, <1>2, ListParts
  <1>5. BubbleUp(r) = [r EXCEPT !.ctsna = t, !.frag_list = rest]
    BY DEF BubbleUp, k
  <1> HIDE DEF t, rest
  <1>6. [r EXCEPT !.ctsna = t, !.frag_list = rest] \in Buffer
    BY <1>3, <1>4, BufferFields
  <1> QED  BY <1>5, <1>6

\* What receiving a chunk makes of the buffer is a buffer.
LEMMA ReceiveKeepsTypes ==
  ASSUME NEW r \in Buffer, NEW tsn \in TSN
  PROVE  Receive(r, tsn).buffer \in Buffer /\ Receive(r, tsn).new \in BOOLEAN
  <1>1. [r EXCEPT !.lowest = tsn] \in Buffer /\ [r EXCEPT !.highest = tsn] \in Buffer
    BY BufferFields
  <1>2. BubbleUp(UpdateFragments(r, tsn)) \in Buffer
    BY UpdateTypes, BubbleTypes
  <1>3. BubbleUp(UpdateFragments([r EXCEPT !.highest = tsn], tsn)) \in Buffer
    BY <1>1, UpdateTypes, BubbleTypes
  <1> QED  BY <1>1, <1>2, <1>3 DEF Receive

\* Moving the cumulative point to that of a FORWARD TSN
\* (rxc_process_forward_tsn) keeps the buffer's type.
LEMMA AdvanceTypes ==
  ASSUME NEW r \in Buffer, NEW tsn \in TSN
  PROVE  Advance(r, tsn) \in Buffer
  <1> DEFINE frags == r.frag_list
             touches(f) == /\ ~ Before(tsn, Minus(f.start_tsn, 1))
                           /\ Between(Minus(f.start_tsn, 1), tsn, f.stop_tsn)
             passed(f) == ~ Before(tsn, Minus(f.start_tsn, 1)) /\ ~ touches(f)
             ks == {j \in 0..Len(frags) : \A i \in 1..j : passed(frags[i])}
             k == Max(ks)
             joins == k < Len(frags) /\ touches(frags[k + 1])
             t == IF joins THEN frags[k + 1].stop_tsn ELSE tsn
             from == IF joins THEN k + 2 ELSE k + 1
             rest == SubSeq(frags, from, Len(frags))
  <1>1. frags \in Seq(Fragment) /\ Len(frags) \in Nat
    BY GapTypes
  <1>2. k \in 0..Len(frags)
    <2>1. 0 \in ks
      <3> HIDE DEF passed
      <3> QED  BY <1>1
    <2>2. ks \in SUBSET (0..Len(frags)) /\ ks # {}
      <3> HIDE DEF passed
      <3> QED  BY <2>1
    <2>3. k \in ks
      <3> HIDE DEF ks
      <3> QED  BY <1>1, <2>2, MaxIsElement
    <2> QED  BY <2>2, <2>3
  <1>3. Advance(r, tsn) = [r EXCEPT !.ctsna = t, !.frag_list = rest]
    BY DEF Advance
  <1> HIDE DEF k, touches
  <1>4. t \in TSN
    <2>1. ASSUME joins PROVE k + 1 \in 1..Len(frags)
      BY <1>1, <1>2, <2>1
    <2>2. CASE joins
      BY <1>1, <2>1, <2>2, FragmentEnds
    <2>3. CASE ~ joins
      BY <2>3
    <2> QED  BY <2>2, <2>3
  <1>5. rest \in Seq(Fragment)
    <2>1. from \in Nat \ {0}
      BY <1>2
    <2> HIDE DEF from
    <2> QED  BY <1>1, <2>1, ListParts
  <1> HIDE DEF t, rest
  <1>6. [r EXCEPT !.ctsna = t, !.frag_list = rest] \in Buffer
    BY <1>4, <1>5, BufferFields
  <1> QED  BY <1>3, <1>6

\* A SACK built from the buffer is one.
LEMMA ReportTypes ==
  ASSUME NEW r \in Buffer, NEW q \in Nat
  PROVE  Report(r, q) \in SACK
  <1> DEFINE offset(tsn) == Minus(tsn, r.ctsna)
             number == Min({Len(r.frag_list), MaxReports})
             gaps == [i \in 1..number |->
                       <<offset(r.frag_list[i].start_tsn), offset(r.frag_list[i].stop_tsn)>>]
  <1>1. r.ctsna \in TSN /\ r.frag_list \in Seq(Fragment) /\ Len(r.frag_list) \in Nat
    BY GapTypes
  <1>2. MaxReports \in Nat /\ MyRwnd \in Nat /\ MyRwnd >= 1
    BY ReceiveAssumption
  <1>3. number \in Nat /\ number <= Len(r.frag_list)
    <2>1. {Len(r.frag_list), MaxReports} \in SUBSET Nat
      BY <1>1, <1>2
    <2>2. number \in {Len(r.frag_list), MaxReports}
      BY <2>1, MinIsElement
    <2>3. \A x \in {Len(r.frag_list), MaxReports} : number <= x
      <3>1. \E x \in {Len(r.frag_list), MaxReports} :
              \A y \in {Len(r.frag_list), MaxReports} : x <= y
        BY <1>1, <1>2
      <3> QED  BY <3>1 DEF Min
    <2> QED  BY <2>1, <2>2, <2>3
  <1> HIDE DEF number
  <1>4. ASSUME NEW i \in 1..number
        PROVE  <<offset(r.frag_list[i].start_tsn), offset(r.frag_list[i].stop_tsn)>> \in TSN \X TSN
    <2>1. i \in 1..Len(r.frag_list)
      BY <1>1, <1>3
    <2>2. r.frag_list[i].start_tsn \in TSN /\ r.frag_list[i].stop_tsn \in TSN
      BY <1>1, <2>1, FragmentEnds
    <2> QED  BY <1>1, <2>2, SerialTypes, TSNIsInteger
  <1>5. gaps \in Seq(TSN \X TSN)
    <2> HIDE DEF offset
    <2> QED  BY <1>3, <1>4
  <1>6. Window(q) \in 0..MyRwnd
    BY <1>2 DEF Window
  <1>7. Report(r, q) = [ctsna |-> r.ctsna, gaps |-> gaps, rwnd |-> Window(q), fresh |-> TRUE]
    BY DEF Report, number
  <1> HIDE DEF gaps
  <1> QED  BY <1>1, <1>5, <1>6, <1>7 DEF SACK

\* Building a SACK, putting it into the buffer, stopping its timer and a new
\* receive control keep the types; and what these do to the fields that
\* DataIsAnswered is about.
LEMMA Processed ==
  ASSUME NEW r \in Buffer, NEW q \in Nat, NEW d \in BOOLEAN
  PROVE  /\ AllChunksProcessed(r, q, d) \in Buffer
         /\ AllChunksProcessed(r, q, d).timer_running = (r.timer_running \/ d)
         /\ AllChunksProcessed(r, q, d).frag_list = r.frag_list
         /\ d => AllChunksProcessed(r, q, d).datagrams_received # -1
  <1> DEFINE number == IF d THEN (r.datagrams_received + 1) % 2 ELSE r.datagrams_received
  <1>1. number \in -1..1 /\ (d => number # -1)
    BY DEF Buffer
  <1>2. Report(r, q) \in SACK
    BY ReportTypes
  <1>3. r.timer_running \in BOOLEAN
    BY DEF Buffer
  <1>4. (r.timer_running \/ d) \in BOOLEAN
    BY <1>3
  <1>5. AllChunksProcessed(r, q, d) =
          [r EXCEPT !.datagrams_received = number, !.sack = Report(r, q),
                    !.timer_running = r.timer_running \/ d, !.contains_valid_sack = TRUE]
    BY DEF AllChunksProcessed
  <1> HIDE DEF number
  <1> DEFINE runs == r.timer_running \/ d
  <1>6. runs \in BOOLEAN /\ runs = (r.timer_running \/ d)
    BY <1>4
  <1>7. AllChunksProcessed(r, q, d) =
          [r EXCEPT !.datagrams_received = number, !.sack = Report(r, q),
                    !.timer_running = runs, !.contains_valid_sack = TRUE]
    BY <1>5
  <1> HIDE DEF runs
  <1>8. /\ AllChunksProcessed(r, q, d) \in Buffer
        /\ AllChunksProcessed(r, q, d).timer_running = runs
        /\ AllChunksProcessed(r, q, d).frag_list = r.frag_list
        /\ AllChunksProcessed(r, q, d).datagrams_received = number
    BY <1>1, <1>2, <1>6, <1>7 DEF Buffer
  <1> QED  BY <1>1, <1>6, <1>8

LEMMA PreparedFields ==
  ASSUME NEW r \in Buffer, NEW q \in Nat
  PROVE  /\ Prepared(r, q) \in Buffer
         /\ Prepared(r, q).timer_running = r.timer_running
         /\ Prepared(r, q).frag_list = r.frag_list
         /\ Prepared(r, q).datagrams_received = r.datagrams_received
         /\ Prepared(r, q).sack_flag = IF r.frag_list = <<>> THEN 2 ELSE 1
  <1> DEFINE s == IF r.contains_valid_sack THEN r ELSE AllChunksProcessed(r, q, FALSE)
  <1>1. /\ s \in Buffer /\ s.timer_running = r.timer_running /\ s.frag_list = r.frag_list
        /\ s.datagrams_received = r.datagrams_received
    <2>1. CASE r.contains_valid_sack
      BY <2>1
    <2>2. CASE ~ r.contains_valid_sack
      <3>1. /\ AllChunksProcessed(r, q, FALSE) \in Buffer
            /\ AllChunksProcessed(r, q, FALSE).frag_list = r.frag_list
            /\ AllChunksProcessed(r, q, FALSE).timer_running = (r.timer_running \/ FALSE)
        BY Processed
      <3>2. AllChunksProcessed(r, q, FALSE).timer_running = r.timer_running
        BY <3>1 DEF Buffer
      <3>3. AllChunksProcessed(r, q, FALSE).datagrams_received = r.datagrams_received
        BY DEF AllChunksProcessed, Buffer
      <3> QED  BY <2>2, <3>1, <3>2, <3>3
    <2> QED  BY <2>1, <2>2
  <1>2. Prepared(r, q) = [s EXCEPT !.sack_flag = IF r.frag_list = <<>> THEN 2 ELSE 1]
    BY DEF Prepared
  <1> HIDE DEF s
  <1> QED  BY <1>1, <1>2 DEF Buffer

LEMMA InitialBuffer ==
  ASSUME NEW tsn \in TSN
  PROVE  Initial(tsn) \in Buffer
  <1>1. Minus(tsn, 1) \in TSN
    BY SerialTypes, TSNIsInteger
  <1>2. Window(0) \in 0..MyRwnd
    BY ReceiveAssumption DEF Window
  <1>3. [ctsna |-> Minus(tsn, 1), gaps |-> <<>>, rwnd |-> Window(0), fresh |-> TRUE] \in SACK
    BY <1>1, <1>2 DEF SACK
  <1> QED  BY <1>1, <1>3 DEF Initial, Buffer

LEMMA SmallSteps ==
  /\ \A r \in Buffer :
       /\ Put(r) \in Buffer /\ Put(r).timer_running = r.timer_running
       /\ Put(r).frag_list = r.frag_list
       /\ StopSackTimer(r) \in Buffer /\ r.sack \in SACK
       /\ [r EXCEPT !.timer_running = TRUE] \in Buffer
       /\ [r EXCEPT !.timer_running = TRUE].frag_list = r.frag_list
       /\ [r EXCEPT !.timer_running = FALSE] \in Buffer
       /\ [r EXCEPT !.sack.fresh = FALSE] \in Buffer
       /\ [r EXCEPT !.contains_valid_sack = FALSE, !.sack.fresh = FALSE] \in Buffer
  /\ \A tsn \in TSN : Initial(tsn) \in Buffer
  <1>1. ASSUME NEW r \in Buffer
        PROVE  /\ Put(r) \in Buffer /\ Put(r).timer_running = r.timer_running
               /\ Put(r).frag_list = r.frag_list
               /\ StopSackTimer(r) \in Buffer /\ r.sack \in SACK
               /\ [r EXCEPT !.timer_running = TRUE] \in Buffer
               /\ [r EXCEPT !.timer_running = TRUE].frag_list = r.frag_list
               /\ [r EXCEPT !.timer_running = FALSE] \in Buffer
    BY DEF Put, StopSackTimer, Buffer
  <1>2. ASSUME NEW r \in Buffer
        PROVE  /\ [r EXCEPT !.sack.fresh = FALSE] \in Buffer
               /\ [r EXCEPT !.contains_valid_sack = FALSE, !.sack.fresh = FALSE] \in Buffer
    <2>1. [r.sack EXCEPT !.fresh = FALSE] \in SACK
      BY DEF Buffer, SACK
    <2>2. /\ [r EXCEPT !.sack = [r.sack EXCEPT !.fresh = FALSE]] \in Buffer
          /\ [r EXCEPT !.contains_valid_sack = FALSE,
                       !.sack = [r.sack EXCEPT !.fresh = FALSE]] \in Buffer
      BY <2>1 DEF Buffer
    <2> QED  BY <2>2
  <1> QED  BY <1>1, <1>2, InitialBuffer

-----------------------------------------------------------------------------
(* Type correctness *)

Bundle == [sack : SACK, sack_in_buffer : BOOLEAN, got_send_request : BOOLEAN]

\* A SACK that is sent leaves nothing unanswered if it is fresh; while the
\* sender is locked it stays in the buffer, with a request to send.
LEMMA ForcedTypes ==
  ASSUME TypeOK, NEW r \in Buffer, ForceSack(r)
  PROVE  /\ rxc' \in Buffer /\ bu' \in Bundle /\ told' \in SACK /\ unanswered' \in BOOLEAN
         /\ phase = "idle" => ~ (unanswered' /\ told'.fresh)
         /\ phase # "idle" => bu'.sack_in_buffer /\ bu'.got_send_request
  <1>1. /\ Put(r) \in Buffer /\ StopSackTimer(Put(r)) \in Buffer /\ r.sack \in SACK
    BY SmallSteps
  <1>2. CASE phase = "idle"
    <2>1. rxc' = StopSackTimer(Put(r)) /\ Transmit(r.sack)
      BY <1>2 DEF ForceSack
    <2> QED  BY <1>1, <1>2, <2>1 DEF Transmit, Bundle, TypeOK, SACK
  <1>3. CASE phase # "idle"
    <2>1. /\ rxc' = Put(r)
          /\ bu' = [sack |-> r.sack, sack_in_buffer |-> TRUE, got_send_request |-> TRUE]
          /\ UNCHANGED <<told, unanswered>>
      BY <1>3 DEF ForceSack
    <2> QED  BY <1>1, <1>3, <2>1 DEF Bundle, TypeOK
  <1> QED  BY <1>2, <1>3

\* Unlocking the sender sends what waits; otherwise all stays as it was.
LEMMA UnlockTypes ==
  ASSUME TypeOK, NEW r \in Buffer, Unlock(r, bu)
  PROVE  /\ rxc' \in Buffer /\ bu' \in Bundle /\ told' \in SACK /\ unanswered' \in BOOLEAN
         /\ phase' = "idle"
         /\ \/ ~ (unanswered' /\ told'.fresh)
            \/ /\ ~ (bu.sack_in_buffer /\ bu.got_send_request)
               /\ rxc' = r /\ told' = told /\ unanswered' = unanswered
  <1>1. StopSackTimer(r) \in Buffer
    BY SmallSteps
  <1>2. bu \in Bundle /\ told \in SACK /\ unanswered \in BOOLEAN /\ phase' = "idle"
    BY DEF TypeOK, Bundle, Unlock
  <1>3. CASE bu.got_send_request /\ bu.sack_in_buffer
    <2>1. rxc' = StopSackTimer(r) /\ Transmit(bu.sack)
      BY <1>3 DEF Unlock
    <2> QED  BY <1>1, <1>2, <2>1 DEF Transmit, Bundle, SACK
  <1>4. CASE ~ (bu.got_send_request /\ bu.sack_in_buffer)
    <2>1. /\ rxc' = r /\ bu' = [bu EXCEPT !.got_send_request = FALSE]
          /\ UNCHANGED <<told, unanswered>>
      BY <1>4 DEF Unlock
    <2> QED  BY <1>2, <1>4, <2>1 DEF Bundle
  <1> QED  BY <1>3, <1>4

\* Every action of receive control, of its peer and of its ULP keeps the types.
LEMMA TypesAreKept == TypeOK /\ [Next]_vars => TypeOK'
  <1> SUFFICES ASSUME TypeOK, [Next]_vars
               PROVE  TypeOK'
    OBVIOUS
  <1> DEFINE Types(r, b, t, u) ==
               r \in Buffer /\ b \in Bundle /\ t \in SACK /\ u \in BOOLEAN
             Rest == /\ phase \in {"idle", "chunks", "forwarding", "notifying"}
                     /\ hasData \in BOOLEAN /\ queued \in Nat /\ closing \in BOOLEAN
                     /\ base \in TSN /\ handed \in [Chunks -> Nat]
                     /\ skipped \in {0} \cup Chunks
  <1>1. Types(rxc, bu, told, unanswered) /\ Rest
    BY DEF TypeOK, Buffer, Bundle
  <1>2. Types(rxc', bu', told', unanswered') /\ Rest' => TypeOK'
    BY DEF TypeOK, Buffer, Bundle
  <1>3. Chunks \subseteq Int /\ \A n \in Chunks : Numbered(n) \in TSN
    <2>1. Chunks \subseteq Int
      BY ReceiveAssumption DEF Chunks
    <2> QED  BY <1>1, <2>1, SerialTypes, TSNIsInteger DEF Numbered
  <1>4. [bu EXCEPT !.sack.fresh = FALSE] \in Bundle
    <2>1. [bu.sack EXCEPT !.fresh = FALSE] \in SACK
      BY <1>1 DEF Bundle, SACK
    <2>2. [bu EXCEPT !.sack = [bu.sack EXCEPT !.fresh = FALSE]] \in Bundle
      BY <1>1, <2>1 DEF Bundle
    <2> QED  BY <2>2
  <1>5. CASE BeginDatagram
    <2>1. [bu EXCEPT !.got_send_request = FALSE] \in Bundle
      BY <1>1 DEF Bundle
    <2> QED  BY <1>1, <1>2, <1>5, <2>1 DEF BeginDatagram
  <1>6. ASSUME NEW n \in Chunks, DataChunk(n)
        PROVE  TypeOK'
    <2> DEFINE tsn == Numbered(n)
               dropped == closing \/ (After(tsn, rxc.highest) /\ Window(queued) = 0)
               result == IF dropped THEN [buffer |-> rxc, new |-> FALSE] ELSE Receive(rxc, tsn)
    <2>1. result.buffer \in Buffer /\ result.new \in BOOLEAN
      BY <1>1, <1>3, ReceiveKeepsTypes
    <2>2. /\ rxc' = [result.buffer EXCEPT !.contains_valid_sack = FALSE, !.sack.fresh = FALSE]
          /\ hasData' = TRUE /\ unanswered' = TRUE
          /\ bu' = [bu EXCEPT !.sack.fresh = FALSE]
          /\ handed' = IF result.new THEN [handed EXCEPT ![n] = @ + 1] ELSE handed
          /\ queued' = IF result.new THEN queued + 1 ELSE queued
          /\ UNCHANGED <<phase, closing, base, skipped, told>>
      BY <1>6 DEF DataChunk
    <2> HIDE DEF result
    <2>3. rxc' \in Buffer
      BY <2>1, <2>2, SmallSteps
    <2>4. handed' \in [Chunks -> Nat]
      BY <1>1, <2>2
    <2> QED  BY <1>1, <1>2, <1>4, <2>2, <2>3, <2>4
  <1>7. ASSUME NEW n \in Chunks, ForwardTSN(n)
        PROVE  TypeOK'
    <2>1. Advance(rxc, Numbered(n)) \in Buffer
      BY <1>1, <1>3, AdvanceTypes
    <2>2. rxc' \in Buffer
      BY <1>7, <2>1, SmallSteps DEF ForwardTSN
    <2> QED  BY <1>1, <1>2, <1>4, <1>7, <2>2 DEF ForwardTSN
  <1>8. CASE ForwardTSNDone
    <2>1. queued' \in Nat
      BY <1>1, <1>8 DEF ForwardTSNDone
    <2>2. rxc' \in Buffer
      BY <1>1, <1>8, <2>1, Processed DEF ForwardTSNDone
    <2> QED  BY <1>1, <1>2, <1>4, <1>8, <2>1, <2>2 DEF ForwardTSNDone
  <1>9. CASE RestartReceiveControl
    <2>1. RestartTSN \in TSN
      BY ReceiveAssumption
    <2>2. rxc' \in Buffer /\ rxc'.sack \in SACK
      BY <1>9, <2>1, SmallSteps DEF RestartReceiveControl
    <2>3. bu' \in Bundle
      BY <1>1, <1>9, <2>2 DEF RestartReceiveControl, Bundle
    <2> QED  BY <1>1, <1>2, <1>9, <2>1, <2>2, <2>3 DEF RestartReceiveControl
  <1>10. CASE EndChunks
    <2> DEFINE r == AllChunksProcessed(rxc, queued, hasData)
               p == Prepared(r, queued)
    <2>1. r \in Buffer /\ p \in Buffer /\ Put(p) \in Buffer /\ p.sack \in SACK
      BY <1>1, Processed, PreparedFields, SmallSteps
    <2>2. CASE ~ hasData
      <3>1. Unlock(r, bu)
        BY <1>10, <2>2 DEF EndChunks
      <3> HIDE DEF r
      <3>2. Types(rxc', bu', told', unanswered') /\ phase' = "idle"
        BY <2>1, <3>1, UnlockTypes
      <3> QED  BY <1>1, <1>2, <1>10, <3>2 DEF EndChunks
    <2>3. CASE hasData
      <3> HIDE DEF p
      <3>1. /\ phase' = "notifying" /\ UNCHANGED <<told, unanswered>>
            /\ \/ /\ rxc' = Put(p)
                  /\ bu' = [sack |-> p.sack, sack_in_buffer |-> TRUE, got_send_request |-> TRUE]
               \/ rxc' = p /\ UNCHANGED bu
        BY <1>10, <2>3 DEF EndChunks, p
      <3>2. [sack |-> p.sack, sack_in_buffer |-> TRUE, got_send_request |-> TRUE] \in Bundle
        BY <2>1 DEF Bundle
      <3>3. rxc' \in Buffer /\ bu' \in Bundle
        BY <1>1, <2>1, <3>1, <3>2
      <3> QED  BY <1>1, <1>2, <1>10, <3>1, <3>3 DEF EndChunks
    <2> QED  BY <2>2, <2>3
  <1>11. CASE EndDatagram
    <2>1. Types(rxc', bu', told', unanswered') /\ phase' = "idle"
      BY <1>1, <1>11, UnlockTypes DEF EndDatagram
    <2> QED  BY <1>1, <1>2, <1>11, <2>1 DEF EndDatagram
  <1>12. CASE SackTimer
    <2>1. Prepared([rxc EXCEPT !.timer_running = FALSE], queued) \in Buffer
      BY <1>1, SmallSteps, PreparedFields
    <2>2. Types(rxc', bu', told', unanswered')
      BY <1>12, <2>1, ForcedTypes DEF SackTimer
    <2> QED  BY <1>1, <1>2, <1>12, <2>2 DEF SackTimer
  <1>13. CASE SendData
    <2>1. Prepared(rxc, queued) \in Buffer
      BY <1>1, PreparedFields
    <2>2. Types(rxc', bu', told', unanswered')
      BY <1>13, <2>1, ForcedTypes DEF SendData
    <2> QED  BY <1>1, <1>2, <1>13, <2>2 DEF SendData
  <1>14. ASSUME NEW k \in 1..MaxRead, Read(k)
         PROVE  TypeOK'
    <2> DEFINE left == queued - k
               r == AllChunksProcessed(rxc, left, FALSE)
               p == Prepared(r, left)
               opens == queued <= MyRwnd /\ MyRwnd - queued < 2 /\ MyRwnd - left >= 2
    <2>1. left \in Nat /\ queued' = left
      BY <1>1, <1>14, ReceiveAssumption DEF Read
    <2>2. r \in Buffer
      BY <1>1, <2>1, Processed
    <2>3. p \in Buffer
      BY <2>1, <2>2, PreparedFields
    <2>4. p.sack \in SACK /\ Put(p) \in Buffer
      BY <2>3, SmallSteps
    <2>5. UNCHANGED <<phase, hasData, closing, base, handed, skipped>>
      BY <1>14 DEF Read
    <2>6. CASE opens /\ phase = "idle"
      <3>1. ForceSack(p)
        BY <1>14, <2>6 DEF Read
      <3> HIDE DEF p
      <3>2. Types(rxc', bu', told', unanswered')
        BY <2>3, <3>1, ForcedTypes
      <3> QED  BY <1>1, <1>2, <2>1, <2>5, <3>2
    <2>7. CASE opens /\ phase # "idle"
      <3>1. /\ rxc' = StopSackTimer(Put(p))
            /\ bu' = [sack |-> p.sack, sack_in_buffer |-> TRUE, got_send_request |-> TRUE]
            /\ UNCHANGED <<told, unanswered>>
        BY <1>14, <2>7 DEF Read
      <3> HIDE DEF p
      <3>2. StopSackTimer(Put(p)) \in Buffer
        BY <2>4, SmallSteps
      <3>3. rxc' \in Buffer
        BY <3>1, <3>2
      <3>4. bu' \in Bundle
        BY <2>4, <3>1 DEF Bundle
      <3> QED  BY <1>1, <1>2, <2>1, <2>5, <3>1, <3>3, <3>4
    <2>8. CASE ~ opens
      <3>1. rxc' = [r EXCEPT !.timer_running = TRUE] /\ UNCHANGED <<bu, told, unanswered>>
        BY <1>14, <2>8 DEF Read
      <3> HIDE DEF r
      <3>2. rxc' \in Buffer
        BY <2>2, <3>1, SmallSteps
      <3> QED  BY <1>1, <1>2, <2>1, <2>5, <3>1, <3>2
    <2> QED  BY <2>6, <2>7, <2>8
  <1>15. CASE Close
    BY <1>1, <1>2, <1>15 DEF Close
  <1>16. CASE UNCHANGED vars
    BY <1>1, <1>2, <1>16 DEF vars
  <1> QED
    BY <1>5, <1>6, <1>7, <1>8, <1>9, <1>10, <1>11, <1>12, <1>13, <1>14, <1>15, <1>16 DEF Next

\* A new receive control has the types.
LEMMA InitialTypes == Init => TypeOK
  <1> SUFFICES ASSUME Init
               PROVE  TypeOK
    OBVIOUS
  <1>1. InitialTSN \in TSN
    BY ReceiveAssumption
  <1>2. rxc \in Buffer /\ told \in SACK
    BY <1>1, SmallSteps DEF Init
  <1>3. bu \in Bundle
    BY <1>2 DEF Init, Bundle
  <1>4. handed \in [Chunks -> Nat]
    BY DEF Init
  <1> QED  BY <1>1, <1>2, <1>3, <1>4 DEF Init, TypeOK, Buffer, Bundle

\* The buffer of receive control, the SACK in the bundling buffer and the SACK
\* sent are well formed: every TSN is one, no fragment is looked up
\* beyond the list (rxc_update_fragments, rxc_process_forward_tsn), the window
\* is at most my_rwnd, and the queue length is never negative.
THEOREM ReceiveTypes == Spec => []TypeOK
  BY InitialTypes, TypesAreKept, PTL DEF Spec

-----------------------------------------------------------------------------
(* DATA is answered *)

\* The peer waits for an answer; and a SACK leaves when the sender is unlocked.
Owed == unanswered /\ told.fresh
Leaving == bu.sack_in_buffer /\ bu.got_send_request

(* Between datagrams, and while the control chunks of one are handled, the  *)
(* SACK timer runs for what is owed, or a SACK is about to leave; at the    *)
(* end of a datagram with DATA the timer is relied on only without gaps.    *)
AnswerInv ==
  /\ TypeOK
  /\ phase = "idle" /\ Owed => rxc.timer_running /\ (hasData => rxc.frag_list = <<>>)
  /\ phase = "chunks" /\ ~ hasData /\ Owed => rxc.timer_running \/ Leaving
  /\ phase = "notifying" /\ Owed => Leaving \/ (rxc.timer_running /\ rxc.frag_list = <<>>)

\* A SACK that is due at the end of a datagram with DATA is one that leaves;
\* one that is not due leaves the timer running and there are no gaps.
LEMMA DueWithGaps ==
  ASSUME NEW r \in Buffer, NEW q \in Nat
  PROVE  LET p == Prepared(AllChunksProcessed(r, q, TRUE), q)
         IN  p.timer_running /\ (~ SackIsDue(p) => p.frag_list = <<>>)
  <1> DEFINE a == AllChunksProcessed(r, q, TRUE)
             p == Prepared(a, q)
  <1>1. a \in Buffer /\ a.timer_running /\ a.datagrams_received # -1
    BY Processed
  <1> HIDE DEF a
  <1>2. /\ p \in Buffer /\ p.timer_running /\ p.frag_list = a.frag_list
        /\ p.datagrams_received = a.datagrams_received
        /\ p.sack_flag = IF a.frag_list = <<>> THEN 2 ELSE 1
    BY <1>1, PreparedFields
  <1> HIDE DEF p
  <1>3. p.frag_list # <<>> => SackIsDue(p)
    BY <1>1, <1>2 DEF SackIsDue, Buffer
  <1>4. p.timer_running /\ (~ SackIsDue(p) => p.frag_list = <<>>)
    BY <1>2, <1>3
  <1> QED  BY <1>4 DEF p, a

\* No step loses an answer: an action that stops the SACK timer sends a SACK or
\* leaves one to be sent when the sender is unlocked.
LEMMA AnswerIsKept == AnswerInv /\ [Next]_vars => AnswerInv'
  <1> SUFFICES ASSUME AnswerInv, [Next]_vars
               PROVE  AnswerInv'
    OBVIOUS
  <1>1. TypeOK /\ TypeOK'
    BY TypesAreKept DEF AnswerInv
  <1>2. rxc \in Buffer /\ bu \in Bundle /\ queued \in Nat /\ hasData \in BOOLEAN
    BY <1>1 DEF TypeOK, Buffer, Bundle
  <1>3. CASE BeginDatagram
    BY <1>1, <1>3 DEF BeginDatagram, AnswerInv, Owed
  <1>4. ASSUME NEW n \in Chunks, DataChunk(n)
        PROVE  AnswerInv'
    <2>1. phase' = "chunks" /\ hasData'
      BY <1>4 DEF DataChunk
    <2> QED  BY <1>1, <2>1 DEF AnswerInv
  <1>5. ASSUME NEW n \in Chunks, ForwardTSN(n)
        PROVE  AnswerInv'
    <2>1. phase' = "forwarding"
      BY <1>5 DEF ForwardTSN
    <2> QED  BY <1>1, <2>1 DEF AnswerInv
  <1>6. CASE ForwardTSNDone
    <2>1. phase' = "chunks" /\ queued' \in Nat /\ rxc' = AllChunksProcessed(rxc, queued', TRUE)
      BY <1>2, <1>6 DEF ForwardTSNDone
    <2>2. rxc'.timer_running
      BY <1>2, <2>1, Processed
    <2> QED  BY <1>1, <2>1, <2>2 DEF AnswerInv
  <1>7. CASE RestartReceiveControl
    BY <1>1, <1>7 DEF RestartReceiveControl, AnswerInv, Owed
  <1>8. CASE EndChunks
    <2>1. CASE ~ hasData
      <3> DEFINE r == AllChunksProcessed(rxc, queued, hasData)
      <3>1. r \in Buffer /\ (rxc.timer_running => r.timer_running)
        BY <1>2, Processed
      <3>2. phase = "chunks" /\ hasData' = hasData /\ Unlock(r, bu)
        BY <1>8, <2>1 DEF EndChunks
      <3> HIDE DEF r
      <3>3. /\ phase' = "idle"
            /\ ~ Owed' \/ (~ Leaving /\ rxc' = r /\ Owed' = Owed)
        BY <1>1, <3>1, <3>2, UnlockTypes DEF Owed, Leaving
      <3>4. Owed' => rxc'.timer_running
        BY <2>1, <3>1, <3>2, <3>3 DEF AnswerInv
      <3> QED  BY <1>1, <2>1, <3>2, <3>3, <3>4 DEF AnswerInv
    <2>2. CASE hasData
      <3> DEFINE p == Prepared(AllChunksProcessed(rxc, queued, TRUE), queued)
      <3>1. p.timer_running /\ (~ SackIsDue(p) => p.frag_list = <<>>)
        BY <1>2, DueWithGaps
      <3>2. hasData = TRUE
        BY <1>2, <2>2
      <3>3. /\ phase' = "notifying"
            /\ IF SackIsDue(p)
               THEN /\ rxc' = Put(p)
                    /\ bu' = [sack |-> p.sack, sack_in_buffer |-> TRUE, got_send_request |-> TRUE]
               ELSE rxc' = p /\ UNCHANGED bu
        BY <1>8, <3>2 DEF EndChunks
      <3> HIDE DEF p
      <3>4. Leaving' \/ (rxc'.timer_running /\ rxc'.frag_list = <<>>)
        BY <3>1, <3>3 DEF Leaving
      <3> QED  BY <1>1, <3>3, <3>4 DEF AnswerInv
    <2> QED  BY <2>1, <2>2
  <1>9. CASE EndDatagram
    <2>1. phase = "notifying" /\ hasData' = hasData /\ Unlock(rxc, bu)
      BY <1>9 DEF EndDatagram
    <2>2. /\ phase' = "idle"
          /\ ~ Owed' \/ (~ Leaving /\ rxc' = rxc /\ Owed' = Owed)
      BY <1>1, <1>2, <2>1, UnlockTypes DEF Owed, Leaving
    <2> QED  BY <1>1, <2>1, <2>2 DEF AnswerInv
  <1>10. CASE SackTimer
    <2>1. Prepared([rxc EXCEPT !.timer_running = FALSE], queued) \in Buffer
      BY <1>2, SmallSteps, PreparedFields
    <2>2. phase = "idle" /\ phase' = "idle"
      BY <1>10 DEF SackTimer
    <2>3. ~ Owed'
      BY <1>1, <1>10, <2>1, <2>2, ForcedTypes DEF SackTimer, Owed
    <2> QED  BY <1>1, <2>2, <2>3 DEF AnswerInv
  <1>11. CASE SendData
    <2>1. Prepared(rxc, queued) \in Buffer
      BY <1>2, PreparedFields
    <2>2. ForceSack(Prepared(rxc, queued)) /\ phase' = phase
      BY <1>11 DEF SendData
    <2>3. /\ phase = "idle" => ~ Owed'
          /\ phase # "idle" => Leaving'
      BY <1>1, <2>1, <2>2, ForcedTypes DEF Owed, Leaving
    <2> QED  BY <1>1, <2>2, <2>3 DEF AnswerInv
  <1>12. ASSUME NEW k \in 1..MaxRead, Read(k)
         PROVE  AnswerInv'
    <2> DEFINE left == queued - k
               r == AllChunksProcessed(rxc, left, FALSE)
               p == Prepared(r, left)
               opens == queued <= MyRwnd /\ MyRwnd - queued < 2 /\ MyRwnd - left >= 2
    <2>1. left \in Nat
      BY <1>2, <1>12, ReceiveAssumption DEF Read
    <2>2. r \in Buffer /\ r.frag_list = rxc.frag_list
      BY <1>2, <2>1, Processed
    <2>3. p \in Buffer
      BY <2>1, <2>2, PreparedFields
    <2>4. UNCHANGED <<phase, hasData>>
      BY <1>12 DEF Read
    <2>5. CASE opens /\ phase = "idle"
      <3>1. ForceSack(p)
        BY <1>12, <2>5 DEF Read
      <3> HIDE DEF p
      <3>2. ~ Owed'
        BY <1>1, <2>3, <2>5, <3>1, ForcedTypes DEF Owed
      <3> QED  BY <1>1, <2>4, <2>5, <3>2 DEF AnswerInv
    <2>6. CASE opens /\ phase # "idle"
      <3>1. bu' = [sack |-> p.sack, sack_in_buffer |-> TRUE, got_send_request |-> TRUE]
        BY <1>12, <2>6 DEF Read
      <3> HIDE DEF p
      <3>2. Leaving'
        BY <3>1 DEF Leaving
      <3> QED  BY <1>1, <2>4, <2>6, <3>2 DEF AnswerInv
    <2>7. CASE ~ opens
      <3>1. rxc' = [r EXCEPT !.timer_running = TRUE] /\ UNCHANGED <<bu, told, unanswered>>
        BY <1>12, <2>7 DEF Read
      <3> HIDE DEF r
      <3>2. rxc'.timer_running /\ rxc'.frag_list = rxc.frag_list
        BY <2>2, <3>1 DEF Buffer
      <3>3. Owed' = Owed /\ Leaving' = Leaving
        BY <3>1 DEF Owed, Leaving
      <3> QED  BY <1>1, <2>4, <3>2, <3>3 DEF AnswerInv
    <2> QED  BY <2>5, <2>6, <2>7
  <1>13. CASE Close
    BY <1>1, <1>13 DEF Close, AnswerInv, Owed, Leaving
  <1>14. CASE UNCHANGED vars
    BY <1>1, <1>14 DEF vars, AnswerInv, Owed, Leaving
  <1> QED
    BY <1>3, <1>4, <1>5, <1>6, <1>7, <1>8, <1>9, <1>10, <1>11, <1>12, <1>13, <1>14 DEF Next

\* The association never forgets to answer: when no datagram is being handled
\* and DATA or a FORWARD TSN has come after the last SACK was built, the SACK
\* timer runs; and if there are gaps the SACK went out with the datagram.
THEOREM AnswersAreSent == Spec => []DataIsAnswered
  <1>1. Init => AnswerInv
    <2>1. Init => TypeOK
      BY InitialTypes
    <2> QED  BY <2>1 DEF Init, AnswerInv, Owed
  <1>2. AnswerInv => DataIsAnswered
    BY DEF AnswerInv, DataIsAnswered, Owed
  <1> QED  BY <1>1, <1>2, AnswerIsKept, PTL DEF Spec

-----------------------------------------------------------------------------
(* The window opens *)

\* A read that takes the queue from more than my_rwnd to two units below it: my_rwnd - oldQueueLen
\* wraps (line 789), so that no SACK is built at once, and in a notification the one
\* in the buffer, which says that the window is closed, leaves and stops the timer.
ReadWraps == queued > MyRwnd /\ MyRwnd - queued' >= 2 /\ \E k \in 1..MaxRead : Read(k)

\* A SACK that tells of a closed window, and a window below
\* the two units from which a read counts as opening it.
Closed(sack) == sack.fresh /\ sack.rwnd = 0
Low(q) == MyRwnd - q < 2

\* The SACK kept tells the window as it is, unless it is marked as out of date.
Truthful(r, q) == r.contains_valid_sack => r.sack.rwnd = Window(q)

(* A SACK in the buffer is about to leave.  As long as the peer has been    *)
(* told of a closed window, or will be, the window is below two units, or   *)
(* the timer runs, or another SACK leaves.                                  *)
WindowInv ==
  /\ TypeOK
  /\ Truthful(rxc, queued)
  /\ bu.sack_in_buffer => phase # "idle" /\ bu.got_send_request
  /\ bu.sack_in_buffer /\ Closed(bu.sack) => Low(queued)
  /\ Closed(told) => Low(queued) \/ rxc.timer_running \/ bu.sack_in_buffer

\* A closed window is one below two units.
LEMMA ClosedIsLow ==
  \A q \in Nat : Window(q) = 0 => Low(q)
  BY ReceiveAssumption DEF Window, Low

\* A SACK that is built, or that is still true, tells the window as it is.
LEMMA SacksAreTrue ==
  ASSUME NEW r \in Buffer, NEW q \in Nat
  PROVE  /\ \A d \in BOOLEAN : /\ AllChunksProcessed(r, q, d).sack.rwnd = Window(q)
                               /\ Truthful(AllChunksProcessed(r, q, d), q)
         /\ Truthful(r, q) => /\ Prepared(r, q).sack.rwnd = Window(q)
                              /\ Truthful(Prepared(r, q), q)
  <1>1. ASSUME NEW d \in BOOLEAN
        PROVE  AllChunksProcessed(r, q, d).sack.rwnd = Window(q)
    BY DEF AllChunksProcessed, Report, Buffer
  <1>2. ASSUME Truthful(r, q)
        PROVE  Prepared(r, q).sack.rwnd = Window(q)
    <2> DEFINE s == IF r.contains_valid_sack THEN r ELSE AllChunksProcessed(r, q, FALSE)
    <2>1. s \in Buffer /\ s.sack.rwnd = Window(q)
      BY <1>1, <1>2, Processed DEF Truthful
    <2>2. Prepared(r, q) = [s EXCEPT !.sack_flag = IF r.frag_list = <<>> THEN 2 ELSE 1]
      BY DEF Prepared
    <2> HIDE DEF s
    <2> QED  BY <2>1, <2>2 DEF Buffer
  <1> QED  BY <1>1, <1>2 DEF Truthful

\* Putting a SACK into the buffer and stopping or starting the timer leave the SACK that is kept.
LEMMA SackIsKept ==
  ASSUME NEW r \in Buffer
  PROVE  /\ StopSackTimer(Put(r)) \in Buffer /\ StopSackTimer(r) \in Buffer
         /\ \A q : Truthful(r, q) => /\ Truthful(Put(r), q) /\ Truthful(StopSackTimer(r), q)
                                     /\ Truthful(StopSackTimer(Put(r)), q)
                                     /\ Truthful([r EXCEPT !.timer_running = TRUE], q)
  BY SmallSteps DEF Put, StopSackTimer, Truthful, Buffer

\* Entering a TSN into the list changes ctsna and the list, and leaves the timer alone.
LEMMA UpdateKeepsTimer ==
  ASSUME NEW r \in Buffer, NEW tsn
  PROVE  UpdateFragments(r, tsn).timer_running = r.timer_running
  <1> DEFINE frags == r.frag_list
             new == [start_tsn |-> tsn, stop_tsn |-> tsn]
             hits == {j \in DOMAIN frags : Between(GapStart(r, j), tsn, GapStop(r, j))}
             i == Min(hits)
             gapsize == Plus(Minus(GapStop(r, i), GapStart(r, i)), 1)
             next == Plus(r.ctsna, 1)
  <1>2. CASE hits = {}
    <2> DEFINE longer == [frags EXCEPT ![Len(frags)].stop_tsn = tsn]
               more == Append(frags, new)
    <2>1. UpdateFragments(r, tsn) \in
            {[r EXCEPT !.ctsna = tsn], [r EXCEPT !.frag_list = longer],
             [r EXCEPT !.frag_list = more]}
      BY <1>2 DEF UpdateFragments
    <2> HIDE DEF longer, more
    <2> QED  BY <2>1 DEF Buffer
  <1>3. CASE hits # {}
    <2> DEFINE first == [frags EXCEPT ![i].start_tsn = tsn]
               second == [frags EXCEPT ![i - 1].stop_tsn = tsn]
               third == InsertAt(frags, SortedPlace(r, tsn), new)
               stop == frags[i].stop_tsn
               fourth == RemoveAt(frags, i)
               fifth ==
                 RemoveAt(ReplaceAt(frags, i, [frags[i] EXCEPT !.start_tsn = frags[i - 1].start_tsn]),
                          i - 1)
    <2>1. UpdateFragments(r, tsn) \in
            {[r EXCEPT !.frag_list = first], [r EXCEPT !.ctsna = tsn],
             [r EXCEPT !.frag_list = second], [r EXCEPT !.frag_list = third],
             [r EXCEPT !.ctsna = stop, !.frag_list = fourth], [r EXCEPT !.frag_list = fifth]}
      BY <1>3 DEF UpdateFragments
    <2> HIDE DEF i, new, first, second, third, stop, fourth, fifth
    <2> QED  BY <2>1 DEF Buffer
  <1> QED  BY <1>2, <1>3

\* Receiving a chunk leaves the timer alone.
LEMMA TimerIsKept ==
  ASSUME NEW r \in Buffer, NEW tsn \in TSN
  PROVE  Receive(r, tsn).buffer.timer_running = r.timer_running
  <1> DEFINE higher == [r EXCEPT !.highest = tsn]
  <1>1. higher \in Buffer /\ higher.timer_running = r.timer_running
        /\ [r EXCEPT !.lowest = tsn].timer_running = r.timer_running
    BY DEF Buffer
  <1> HIDE DEF higher
  <1>2. ASSUME NEW s \in Buffer, NEW t \in TSN
        PROVE  BubbleUp(UpdateFragments(s, t)).timer_running = s.timer_running
    <2>1. UpdateFragments(s, t) \in Buffer /\ UpdateFragments(s, t).timer_running = s.timer_running
      BY UpdateTypes, UpdateKeepsTimer
    <2>2. \A b \in Buffer : BubbleUp(b).timer_running = b.timer_running
      BY DEF BubbleUp, Buffer
    <2> QED  BY <2>1, <2>2
  <1>3. /\ BubbleUp(UpdateFragments(r, tsn)).timer_running = r.timer_running
        /\ BubbleUp(UpdateFragments(higher, tsn)).timer_running = r.timer_running
    BY <1>1, <1>2
  <1> QED  BY <1>1, <1>3 DEF Receive, higher

\* What WindowInv says, of the values after a step.
WindowIs(r, b, t, p, q) ==
  /\ Truthful(r, q)
  /\ b.sack_in_buffer => p # "idle" /\ b.got_send_request
  /\ b.sack_in_buffer /\ Closed(b.sack) => Low(q)
  /\ Closed(t) => Low(q) \/ r.timer_running \/ b.sack_in_buffer

\* A SACK that tells the window as it is may be sent, or be put into the buffer.
LEMMA ForcedWindow ==
  ASSUME TypeOK, NEW r \in Buffer, NEW q \in Nat, r.sack.rwnd = Window(q), Truthful(r, q),
         ForceSack(r)
  PROVE  WindowIs(rxc', bu', told', phase, q)
  <1>1. Closed(r.sack) => Low(q)
    BY ClosedIsLow DEF Closed
  <1>2. Truthful(Put(r), q) /\ Truthful(StopSackTimer(Put(r)), q)
    BY SackIsKept
  <1>3. CASE phase = "idle"
    <2>1. rxc' = StopSackTimer(Put(r)) /\ Transmit(r.sack)
      BY <1>3 DEF ForceSack
    <2> QED  BY <1>1, <1>2, <1>3, <2>1 DEF Transmit, WindowIs
  <1>4. CASE phase # "idle"
    <2>1. /\ rxc' = Put(r)
          /\ bu' = [sack |-> r.sack, sack_in_buffer |-> TRUE, got_send_request |-> TRUE]
      BY <1>4 DEF ForceSack
    <2> QED  BY <1>1, <1>2, <1>4, <2>1 DEF WindowIs
  <1> QED  BY <1>3, <1>4

\* What leaves when the sender is unlocked tells of a closed window only if it is one.
LEMMA UnlockedWindow ==
  ASSUME WindowInv, NEW r \in Buffer, Truthful(r, queued),
         rxc.timer_running => r.timer_running, Unlock(r, bu)
  PROVE  WindowIs(rxc', bu', told', phase', queued)
  <1>1. Truthful(StopSackTimer(r), queued) /\ bu \in Bundle
    BY SackIsKept DEF WindowInv, TypeOK, Bundle
  <1>2. CASE bu.got_send_request /\ bu.sack_in_buffer
    <2>1. rxc' = StopSackTimer(r) /\ Transmit(bu.sack)
      BY <1>2 DEF Unlock
    <2> QED  BY <1>1, <1>2, <2>1 DEF Transmit, WindowIs, WindowInv
  <1>3. CASE ~ (bu.got_send_request /\ bu.sack_in_buffer)
    <2>1. /\ rxc' = r /\ bu' = [bu EXCEPT !.got_send_request = FALSE]
          /\ UNCHANGED told
      BY <1>3 DEF Unlock
    <2>2. ~ bu.sack_in_buffer
      BY <1>3 DEF WindowInv
    <2>3. bu'.sack_in_buffer = bu.sack_in_buffer
      BY <1>1, <2>1 DEF Bundle
    <2> QED  BY <1>1, <2>1, <2>2, <2>3 DEF WindowIs, WindowInv
  <1> QED  BY <1>2, <1>3

\* No step loses the update of the window, unless it is a read that wraps.
LEMMA WindowIsKept == WindowInv /\ [Next]_vars /\ ~ ReadWraps => WindowInv'
  <1> SUFFICES ASSUME WindowInv, [Next]_vars, ~ ReadWraps
               PROVE  WindowInv'
    OBVIOUS
  <1>1. TypeOK /\ TypeOK'
    BY TypesAreKept DEF WindowInv
  <1>2. /\ rxc \in Buffer /\ bu \in Bundle /\ queued \in Nat /\ hasData \in BOOLEAN
        /\ WindowIs(rxc, bu, told, phase, queued) /\ MyRwnd \in Nat \ {0}
    BY <1>1, ReceiveAssumption DEF TypeOK, Buffer, Bundle, WindowInv, WindowIs
  <1>3. WindowIs(rxc', bu', told', phase', queued') => WindowInv'
    BY <1>1 DEF WindowIs, WindowInv
  <1>4. [bu EXCEPT !.sack.fresh = FALSE].sack_in_buffer = bu.sack_in_buffer
        /\ [bu EXCEPT !.sack.fresh = FALSE].got_send_request = bu.got_send_request
        /\ ~ Closed([bu EXCEPT !.sack.fresh = FALSE].sack)
    BY <1>2 DEF Bundle, SACK, Closed
  <1>5. CASE BeginDatagram
    <2>1. ~ bu.sack_in_buffer /\ bu'.sack_in_buffer = bu.sack_in_buffer
      BY <1>2, <1>5 DEF BeginDatagram, WindowIs, Bundle
    <2>2. UNCHANGED <<rxc, told, queued>>
      BY <1>5 DEF BeginDatagram
    <2> QED  BY <1>2, <1>3, <2>1, <2>2 DEF WindowIs
  <1>6. ASSUME NEW n \in Chunks, DataChunk(n)
        PROVE  WindowInv'
    <2> DEFINE tsn == Numbered(n)
               dropped == closing \/ (After(tsn, rxc.highest) /\ Window(queued) = 0)
               result == IF dropped THEN [buffer |-> rxc, new |-> FALSE] ELSE Receive(rxc, tsn)
    <2>1. /\ rxc' = [result.buffer EXCEPT !.contains_valid_sack = FALSE, !.sack.fresh = FALSE]
          /\ bu' = [bu EXCEPT !.sack.fresh = FALSE]
          /\ queued' = IF result.new THEN queued + 1 ELSE queued
          /\ UNCHANGED <<phase, told>> /\ phase = "chunks"
      BY <1>6 DEF DataChunk
    <2>2. tsn \in TSN
      <3>1. base \in TSN /\ Chunks \subseteq Int
        BY <1>1, ReceiveAssumption DEF TypeOK, Chunks
      <3> QED  BY <3>1, SerialTypes, TSNIsInteger DEF Numbered
    <2> HIDE DEF tsn
    <2>3. result.buffer \in Buffer /\ result.buffer.timer_running = rxc.timer_running
      BY <1>2, <2>2, ReceiveKeepsTypes, TimerIsKept
    <2> HIDE DEF result
    <2>4. rxc'.contains_valid_sack = FALSE /\ rxc'.timer_running = rxc.timer_running
      BY <2>1, <2>3 DEF Buffer
    <2>5. Low(queued) => Low(queued')
      BY <1>2, <2>1 DEF Low
    <2> QED  BY <1>2, <1>3, <1>4, <2>1, <2>4, <2>5 DEF WindowIs, Truthful
  <1>7. ASSUME NEW n \in Chunks, ForwardTSN(n)
        PROVE  WindowInv'
    <2>1. /\ rxc' = [Advance(rxc, Numbered(n)) EXCEPT !.sack.fresh = FALSE]
          /\ bu' = [bu EXCEPT !.sack.fresh = FALSE]
          /\ UNCHANGED <<queued, told>> /\ phase' # "idle" /\ phase # "idle"
      BY <1>7 DEF ForwardTSN
    <2>2. /\ Advance(rxc, Numbered(n)).contains_valid_sack = rxc.contains_valid_sack
          /\ Advance(rxc, Numbered(n)).sack = rxc.sack
          /\ Advance(rxc, Numbered(n)).timer_running = rxc.timer_running
          /\ Advance(rxc, Numbered(n)) \in Buffer
      <3>1. Numbered(n) \in TSN
        <4>1. base \in TSN /\ Chunks \subseteq Int
          BY <1>1, ReceiveAssumption DEF TypeOK, Chunks
        <4> QED  BY <4>1, SerialTypes, TSNIsInteger DEF Numbered
      <3>2. ASSUME NEW t, NEW fs
            PROVE  LET a == [rxc EXCEPT !.ctsna = t, !.frag_list = fs]
                   IN  /\ a.contains_valid_sack = rxc.contains_valid_sack
                       /\ a.sack = rxc.sack /\ a.timer_running = rxc.timer_running
        BY SMTT(30), <1>2 DEF Buffer
      <3>3. \E t, fs : Advance(rxc, Numbered(n)) = [rxc EXCEPT !.ctsna = t, !.frag_list = fs]
        BY DEF Advance
      <3>4. PICK t, fs : Advance(rxc, Numbered(n)) = [rxc EXCEPT !.ctsna = t, !.frag_list = fs]
        BY <3>3
      <3> QED  BY <1>2, <3>1, <3>2, <3>4, AdvanceTypes
    <2>3. /\ rxc'.contains_valid_sack = rxc.contains_valid_sack
          /\ rxc'.sack.rwnd = rxc.sack.rwnd /\ rxc'.timer_running = rxc.timer_running
      BY <1>2, <2>1, <2>2 DEF Buffer, SACK
    <2> QED  BY <1>2, <1>3, <1>4, <2>1, <2>3 DEF WindowIs, Truthful
  <1>8. CASE ForwardTSNDone
    <2>1. /\ phase' = "chunks" /\ queued' \in Nat
          /\ rxc' = AllChunksProcessed(rxc, queued', TRUE)
          /\ bu' = [bu EXCEPT !.sack.fresh = FALSE]
      BY <1>2, <1>8 DEF ForwardTSNDone
    <2>2. rxc'.timer_running /\ Truthful(rxc', queued')
      BY <1>2, <2>1, Processed, SacksAreTrue
    <2> QED  BY <1>2, <1>3, <1>4, <2>1, <2>2 DEF WindowIs
  <1>9. CASE RestartReceiveControl
    <2>1. /\ rxc' = Initial(RestartTSN) /\ told' = rxc'.sack /\ bu' = [bu EXCEPT !.sack = told']
          /\ queued' = 0 /\ ~ bu.sack_in_buffer
      BY <1>9 DEF RestartReceiveControl
    <2>2. rxc'.sack.rwnd = Window(0) /\ rxc'.contains_valid_sack = FALSE
      BY <2>1 DEF Initial
    <2>3. Closed(told') => Low(0)
      BY <2>1, <2>2, ClosedIsLow DEF Closed
    <2>4. ~ bu'.sack_in_buffer
      BY <1>2, <2>1 DEF Bundle
    <2> QED  BY <1>3, <2>1, <2>2, <2>3, <2>4 DEF WindowIs, Truthful
  <1>10. CASE EndChunks
    <2> DEFINE r == AllChunksProcessed(rxc, queued, hasData)
               p == Prepared(r, queued)
    <2>1. /\ r \in Buffer /\ (rxc.timer_running => r.timer_running) /\ Truthful(r, queued)
      BY <1>2, Processed, SacksAreTrue
    <2>2. UNCHANGED queued /\ phase # "idle"
      BY <1>10 DEF EndChunks
    <2>3. CASE ~ hasData
      <3>1. Unlock(r, bu)
        BY <1>10, <2>3 DEF EndChunks
      <3> HIDE DEF r
      <3> QED  BY <1>3, <2>1, <2>2, <3>1, UnlockedWindow
    <2>4. CASE hasData
      <3>1. /\ phase' = "notifying" /\ UNCHANGED told
            /\ \/ /\ rxc' = Put(p)
                  /\ bu' = [sack |-> p.sack, sack_in_buffer |-> TRUE, got_send_request |-> TRUE]
               \/ rxc' = p /\ UNCHANGED bu
        BY <1>10, <2>4 DEF EndChunks
      <3> HIDE DEF r
      <3>2. /\ p \in Buffer /\ p.timer_running = r.timer_running
            /\ p.sack.rwnd = Window(queued) /\ Truthful(p, queued)
        BY <1>2, <2>1, PreparedFields, SacksAreTrue
      <3> HIDE DEF p
      <3>3. /\ Truthful(Put(p), queued)
            /\ Closed(p.sack) => Low(queued)
        BY <1>2, <3>2, SackIsKept, ClosedIsLow DEF Closed
      <3> QED  BY <1>2, <1>3, <2>1, <2>2, <3>1, <3>2, <3>3 DEF WindowIs
    <2> QED  BY <2>3, <2>4
  <1>11. CASE EndDatagram
    <2>1. Unlock(rxc, bu) /\ UNCHANGED queued /\ Truthful(rxc, queued)
      BY <1>2, <1>11 DEF EndDatagram, WindowIs
    <2> QED  BY <1>2, <1>3, <2>1, UnlockedWindow
  <1>12. CASE SackTimer
    <2> DEFINE r == [rxc EXCEPT !.timer_running = FALSE]
    <2>1. r \in Buffer /\ Truthful(r, queued)
      BY <1>2, SmallSteps DEF WindowIs, Truthful, Buffer
    <2>2. ForceSack(Prepared(r, queued)) /\ UNCHANGED <<phase, queued>>
      BY <1>12 DEF SackTimer
    <2> HIDE DEF r
    <2>3. /\ Prepared(r, queued) \in Buffer /\ Prepared(r, queued).sack.rwnd = Window(queued)
          /\ Truthful(Prepared(r, queued), queued)
      BY <1>2, <2>1, PreparedFields, SacksAreTrue
    <2> QED  BY <1>1, <1>2, <1>3, <2>2, <2>3, ForcedWindow
  <1>13. CASE SendData
    <2>1. ForceSack(Prepared(rxc, queued)) /\ UNCHANGED <<phase, queued>>
      BY <1>13 DEF SendData
    <2>2. /\ Prepared(rxc, queued) \in Buffer /\ Prepared(rxc, queued).sack.rwnd = Window(queued)
          /\ Truthful(Prepared(rxc, queued), queued)
      BY <1>2, PreparedFields, SacksAreTrue DEF WindowIs
    <2> QED  BY <1>1, <1>2, <1>3, <2>1, <2>2, ForcedWindow
  <1>14. ASSUME NEW k \in 1..MaxRead, Read(k)
         PROVE  WindowInv'
    <2> DEFINE left == queued - k
               r == AllChunksProcessed(rxc, left, FALSE)
               p == Prepared(r, left)
               opens == queued <= MyRwnd /\ MyRwnd - queued < 2 /\ MyRwnd - left >= 2
    <2>1. left \in Nat /\ queued' = left /\ UNCHANGED phase
      BY <1>2, <1>14, ReceiveAssumption DEF Read
    <2>2. r \in Buffer /\ Truthful(r, left)
      BY <1>2, <2>1, Processed, SacksAreTrue
    <2>3. p \in Buffer /\ p.sack.rwnd = Window(left) /\ Truthful(p, left)
      BY <2>1, <2>2, PreparedFields, SacksAreTrue
    <2>4. CASE opens /\ phase = "idle"
      <3>1. ForceSack(p)
        BY <1>14, <2>4 DEF Read
      <3> HIDE DEF p, left
      <3> QED  BY <1>1, <1>3, <2>1, <2>3, <3>1, ForcedWindow
    <2>5. CASE opens /\ phase # "idle"
      <3>1. /\ rxc' = StopSackTimer(Put(p))
            /\ bu' = [sack |-> p.sack, sack_in_buffer |-> TRUE, got_send_request |-> TRUE]
            /\ UNCHANGED told
        BY <1>14, <2>5 DEF Read
      <3> HIDE DEF p, left
      <3>2. Truthful(StopSackTimer(Put(p)), left) /\ (Closed(p.sack) => Low(left))
        BY <2>1, <2>3, SackIsKept, ClosedIsLow DEF Closed
      <3> QED  BY <1>3, <2>1, <2>5, <3>1, <3>2 DEF WindowIs
    <2>6. CASE ~ opens
      <3>1. rxc' = [r EXCEPT !.timer_running = TRUE] /\ UNCHANGED <<bu, told>>
        BY <1>14, <2>6 DEF Read
      <3>2. Low(queued) => Low(left)
        <4>1. ~ (queued > MyRwnd /\ MyRwnd - left >= 2)
          BY <1>14, <2>1 DEF ReadWraps
        <4> QED  BY <1>2, <2>1, <2>6, <4>1 DEF Low
      <3> HIDE DEF r, left
      <3>3. Truthful(rxc', left) /\ rxc'.timer_running
        BY <2>2, <3>1, SackIsKept DEF Buffer
      <3> QED  BY <1>2, <1>3, <2>1, <3>1, <3>2, <3>3 DEF WindowIs
    <2> QED  BY <2>4, <2>5, <2>6
  <1>15. CASE Close
    BY <1>2, <1>3, <1>15 DEF Close
  <1>16. CASE UNCHANGED vars
    BY <1>2, <1>3, <1>16 DEF vars
  <1> QED
    BY <1>5, <1>6, <1>7, <1>8, <1>9, <1>10, <1>11, <1>12, <1>13, <1>14, <1>15, <1>16 DEF Next

\* A peer that was told of a closed window hears of it when the window opens, for
\* any window and messages of any size, but for one reason that the code gives:
\* a read that wraps the difference of rxc_start_sack_timer.
THEOREM WindowsReopen == Init /\ [][Next /\ ~ ReadWraps]_vars => []WindowOpens
  <1>1. Init => WindowInv
    <2> SUFFICES ASSUME Init PROVE WindowInv
      OBVIOUS
    <2>1. TypeOK
      BY InitialTypes
    <2>2. /\ rxc.contains_valid_sack = FALSE /\ told.rwnd = Window(0) /\ queued = 0
          /\ bu.sack_in_buffer = FALSE
      BY DEF Init, Initial
    <2> QED  BY <2>1, <2>2, ClosedIsLow DEF WindowInv, Truthful, Closed
  <1>2. WindowInv /\ [Next /\ ~ ReadWraps]_vars => WindowInv'
    <2>1. WindowInv /\ UNCHANGED vars => WindowInv'
      <3> SUFFICES ASSUME WindowInv, UNCHANGED vars PROVE WindowInv'
        OBVIOUS
      <3>1. UNCHANGED <<rxc, bu, told, phase, queued>>
        BY DEF vars
      <3>2. TypeOK'
        BY TypesAreKept DEF WindowInv
      <3> QED  BY <3>1, <3>2 DEF WindowInv
    <2> QED  BY <2>1, WindowIsKept
  <1>3. WindowInv => WindowOpens
    <2> SUFFICES ASSUME WindowInv, phase = "idle", told.rwnd = 0, told.fresh, Window(queued) > 1
                 PROVE  rxc.timer_running
      BY DEF WindowOpens
    <2>1. queued \in Nat /\ ~ bu.sack_in_buffer /\ Closed(told)
      BY DEF WindowInv, TypeOK, Closed
    <2>2. ~ Low(queued)
      BY <2>1, ReceiveAssumption DEF Low, Window
    <2> QED  BY <2>1, <2>2 DEF WindowInv
  <1> QED  BY <1>1, <1>2, <1>3, PTL

-----------------------------------------------------------------------------
(* Serial numbers within a window *)

\* What a remainder is, up to one modulus below and above.
LEMMA ModIsLinear ==
  ASSUME NEW x \in Int
  PROVE  /\ 0 <= x /\ x < Modulus => x % Modulus = x
         /\ -Modulus <= x /\ x < 0 => x % Modulus = x + Modulus
         /\ Modulus <= x /\ x < 2 * Modulus => x % Modulus = x - Modulus
  <1> DEFINE q == x \div Modulus
             m == x % Modulus
  <1>1. Modulus \in Nat /\ Modulus > 3
    BY ModulusAssumption
  <1>2. q \in Int /\ m \in 0..(Modulus - 1) /\ x = Modulus * q + m
    BY <1>1
  <1> HIDE DEF q, m
  <1>3. /\ q >= 1 => Modulus * q >= Modulus
        /\ q >= 2 => Modulus * q >= 2 * Modulus
        /\ q <= -1 => Modulus * q <= -Modulus
        /\ q <= -2 => Modulus * q <= -(2 * Modulus)
    <2>1. q >= 1 => Modulus * q >= Modulus
      BY <1>1, <1>2
    <2>2. q >= 2 => Modulus * q >= 2 * Modulus
      BY <1>1, <1>2
    <2>3. q <= -1 => Modulus * q <= -Modulus
      BY <1>1, <1>2
    <2>4. q <= -2 => Modulus * q <= -(2 * Modulus)
      BY <1>1, <1>2
    <2> QED  BY <2>1, <2>2, <2>3, <2>4
  <1>4. ASSUME 0 <= x, x < Modulus PROVE m = x
    <2>1. q = 0
      BY <1>1, <1>2, <1>3, <1>4
    <2> QED  BY <1>1, <1>2, <2>1
  <1>5. ASSUME -Modulus <= x, x < 0 PROVE m = x + Modulus
    <2>1. q = -1
      BY <1>1, <1>2, <1>3, <1>5
    <2> QED  BY <1>1, <1>2, <2>1
  <1>6. ASSUME Modulus <= x, x < 2 * Modulus PROVE m = x - Modulus
    <2>1. q = 1
      BY <1>1, <1>2, <1>3, <1>6
    <2> QED  BY <1>1, <1>2, <2>1
  <1> QED  BY <1>4, <1>5, <1>6 DEF m

\* A TSN stands for a chunk, or for the one before the first: its position.
LEMMA PositionOf ==
  ASSUME base \in TSN, NEW t \in TSN
  PROVE  /\ Position(t) \in 0..(Modulus - 1)
         /\ Position(t) = IF t >= base - 1 /\ t - (base - 1) < Modulus THEN t - (base - 1)
                          ELSE IF t >= base - 1 THEN t - (base - 1) - Modulus
                          ELSE t - (base - 1) + Modulus
  <1>1. /\ Modulus \in Nat /\ Modulus > 3 /\ base \in 0..(Modulus - 1) /\ t \in 0..(Modulus - 1)
    BY ModulusAssumption DEF TSN
  <1> DEFINE x == t - (base - 1)
  <1>2. x \in Int /\ -Modulus <= x /\ x < 2 * Modulus
    BY <1>1
  <1> HIDE DEF x
  <1>3. x % Modulus = IF x < 0 THEN x + Modulus ELSE IF x < Modulus THEN x ELSE x - Modulus
    BY <1>1, <1>2, ModIsLinear
  <1>4. Position(t) = x % Modulus
    BY DEF Position, Minus, x
  <1> QED  BY <1>1, <1>2, <1>3, <1>4 DEF x

\* The difference of two TSNs is that of their positions, around the circle.
LEMMA Differences ==
  ASSUME base \in TSN, NEW s \in TSN, NEW t \in TSN
  PROVE  /\ Position(s) \in 0..(Modulus - 1) /\ Position(t) \in 0..(Modulus - 1)
         /\ Minus(s, t) = IF Position(s) >= Position(t) THEN Position(s) - Position(t)
                          ELSE Position(s) - Position(t) + Modulus
         /\ s = t <=> Position(s) = Position(t)
  <1>1. /\ Modulus \in Nat /\ Modulus > 3
        /\ base \in 0..(Modulus - 1) /\ s \in 0..(Modulus - 1) /\ t \in 0..(Modulus - 1)
    BY ModulusAssumption DEF TSN
  <1> DEFINE x == s - t
             p == Position(s)
             q == Position(t)
  <1>2. x \in Int /\ -Modulus <= x /\ x < Modulus
    BY <1>1
  <1> HIDE DEF x
  <1>3. x % Modulus = IF x < 0 THEN x + Modulus ELSE x
    BY <1>1, <1>2, ModIsLinear
  <1>4. Minus(s, t) = x % Modulus
    BY DEF Minus, x
  <1>5. /\ p \in 0..(Modulus - 1)
        /\ p = IF s >= base - 1 /\ s - (base - 1) < Modulus THEN s - (base - 1)
               ELSE IF s >= base - 1 THEN s - (base - 1) - Modulus
               ELSE s - (base - 1) + Modulus
    BY PositionOf
  <1>6. /\ q \in 0..(Modulus - 1)
        /\ q = IF t >= base - 1 /\ t - (base - 1) < Modulus THEN t - (base - 1)
               ELSE IF t >= base - 1 THEN t - (base - 1) - Modulus
               ELSE t - (base - 1) + Modulus
    BY PositionOf
  <1> HIDE DEF p, q
  <1>7. /\ Minus(s, t) = IF p >= q THEN p - q ELSE p - q + Modulus
        /\ s = t <=> p = q
    BY <1>1, <1>2, <1>3, <1>4, <1>5, <1>6 DEF x
  <1> QED  BY <1>5, <1>6, <1>7 DEF p, q

\* The TSN of a chunk has its number as position, and the next and the last TSN
\* the next and the last number.
LEMMA Neighbours ==
  ASSUME base \in TSN
  PROVE  /\ \A n \in 0..(Modulus - 1) : Numbered(n) \in TSN /\ Position(Numbered(n)) = n
         /\ \A t \in TSN : /\ Plus(t, 1) \in TSN /\ Minus(t, 1) \in TSN
                           /\ Position(t) + 1 < Modulus => Position(Plus(t, 1)) = Position(t) + 1
                           /\ Position(t) > 0 => Position(Minus(t, 1)) = Position(t) - 1
  <1>1. Modulus \in Nat /\ Modulus > 3 /\ base \in 0..(Modulus - 1)
    BY ModulusAssumption DEF TSN
  <1>2. ASSUME NEW n \in 0..(Modulus - 1)
        PROVE  Numbered(n) \in TSN /\ Position(Numbered(n)) = n
    <2> DEFINE x == base + (n - 1)
               y == Numbered(n)
    <2>1. x \in Int /\ -Modulus <= x /\ x < 2 * Modulus
      BY <1>1
    <2>2. y = x % Modulus
      BY DEF Numbered, Plus
    <2> HIDE DEF x
    <2>3. y = IF x < 0 THEN x + Modulus ELSE IF x < Modulus THEN x ELSE x - Modulus
      BY <1>1, <2>1, <2>2, ModIsLinear
    <2>4. y \in TSN
      BY <1>1, <2>1, <2>3 DEF TSN
    <2> HIDE DEF y
    <2>5. Position(y) = IF y >= base - 1 /\ y - (base - 1) < Modulus THEN y - (base - 1)
                        ELSE IF y >= base - 1 THEN y - (base - 1) - Modulus
                        ELSE y - (base - 1) + Modulus
      BY <2>4, PositionOf
    <2>6. Position(y) = n
      BY <1>1, <2>1, <2>3, <2>5 DEF x
    <2> QED  BY <2>4, <2>6 DEF y
  <1>3. ASSUME NEW t \in TSN
        PROVE  /\ Plus(t, 1) \in TSN /\ Minus(t, 1) \in TSN
               /\ Position(t) + 1 < Modulus => Position(Plus(t, 1)) = Position(t) + 1
               /\ Position(t) > 0 => Position(Minus(t, 1)) = Position(t) - 1
    <2> DEFINE y == Plus(t, 1)
               z == Minus(t, 1)
    <2>1. t \in 0..(Modulus - 1) /\ t + 1 \in Int /\ t - 1 \in Int
      BY <1>1 DEF TSN
    <2>2. /\ y = IF t + 1 < Modulus THEN t + 1 ELSE t + 1 - Modulus
          /\ z = IF t - 1 < 0 THEN t - 1 + Modulus ELSE t - 1
      BY <1>1, <2>1, ModIsLinear DEF Plus, Minus
    <2>3. y \in TSN /\ z \in TSN
      BY <1>1, <2>1, <2>2 DEF TSN
    <2> HIDE DEF y, z
    <2>4. \A u \in {t, y, z} :
            Position(u) = IF u >= base - 1 /\ u - (base - 1) < Modulus THEN u - (base - 1)
                          ELSE IF u >= base - 1 THEN u - (base - 1) - Modulus
                          ELSE u - (base - 1) + Modulus
      BY <2>3, PositionOf
    <2>5. /\ Position(t) + 1 < Modulus => Position(y) = Position(t) + 1
          /\ Position(t) > 0 => Position(z) = Position(t) - 1
      BY <1>1, <2>1, <2>2, <2>3, <2>4
    <2> QED  BY <2>3, <2>5 DEF y, z
  <1> QED  BY <1>2, <1>3

\* Within half of the serial numbers, before() and after() compare positions.
LEMMA Compare ==
  ASSUME base \in TSN, NEW s \in TSN, NEW t \in TSN
  PROVE  /\ 2 * (Position(s) - Position(t)) < Modulus /\ 2 * (Position(t) - Position(s)) <= Modulus
              => (Before(s, t) <=> Position(s) < Position(t))
         /\ 2 * (Position(s) - Position(t)) <= Modulus /\ 2 * (Position(t) - Position(s)) < Modulus
              => (After(s, t) <=> Position(t) < Position(s))
  <1>1. Modulus \in Nat /\ Modulus > 3 /\ Modulus % 2 = 0
    BY ModulusAssumption
  <1> DEFINE half == Modulus \div 2
  <1>2. half \in Nat /\ 2 * half = Modulus
    BY <1>1
  <1> HIDE DEF half
  <1>3. /\ Position(s) \in 0..(Modulus - 1) /\ Position(t) \in 0..(Modulus - 1)
        /\ Minus(s, t) = IF Position(s) >= Position(t) THEN Position(s) - Position(t)
                         ELSE Position(s) - Position(t) + Modulus
        /\ Minus(t, s) = IF Position(t) >= Position(s) THEN Position(t) - Position(s)
                         ELSE Position(t) - Position(s) + Modulus
    BY Differences
  <1>4. (Before(s, t) <=> Minus(s, t) >= half) /\ (After(s, t) <=> Minus(t, s) >= half)
    BY DEF Before, After, half
  <1> QED  BY <1>1, <1>2, <1>3, <1>4

\* Between two TSNs in order lie those whose positions do.
LEMMA Betweens ==
  ASSUME base \in TSN, NEW s \in TSN, NEW t \in TSN, NEW u \in TSN, Position(s) <= Position(u)
  PROVE  Between(s, t, u) <=> Position(s) <= Position(t) /\ Position(t) <= Position(u)
  <1>1. Modulus \in Nat /\ Modulus > 3
    BY ModulusAssumption
  <1>2. /\ Position(s) \in 0..(Modulus - 1) /\ Position(t) \in 0..(Modulus - 1)
        /\ Position(u) \in 0..(Modulus - 1)
        /\ Minus(t, s) = IF Position(t) >= Position(s) THEN Position(t) - Position(s)
                         ELSE Position(t) - Position(s) + Modulus
        /\ Minus(u, s) = IF Position(u) >= Position(s) THEN Position(u) - Position(s)
                         ELSE Position(u) - Position(s) + Modulus
    BY Differences
  <1> QED  BY <1>1, <1>2 DEF Between

-----------------------------------------------------------------------------
(* Lists of fragments *)

\* The chunks that a list of fragments stands for.
Start(fs, i) == Position(fs[i].start_tsn)
Stop(fs, i) == Position(fs[i].stop_tsn)
HeldIn(fs) == {n \in Chunks : \E i \in 1..Len(fs) : Start(fs, i) <= n /\ n <= Stop(fs, i)}

(* The fragments lie in order beyond a point and up to another, and no two  *)
(* of them touch.                                                           *)
InOrder(point, fs, top) ==
  /\ \A i \in 1..Len(fs) :
       point + 1 < Start(fs, i) /\ Start(fs, i) <= Stop(fs, i) /\ Stop(fs, i) <= top
  /\ \A i, j \in 1..Len(fs) : i < j => Stop(fs, i) + 1 < Start(fs, j)

\* Where the gap behind the p-th fragment begins: after this chunk.
Edge(point, fs, p) == IF p = 0 THEN point ELSE Stop(fs, p)

\* The ends of fragments are chunks.
LEMMA Ends ==
  ASSUME base \in TSN, NEW fs \in Seq(Fragment)
  PROVE  /\ Len(fs) \in Nat
         /\ \A i \in 1..Len(fs) :
              /\ fs[i] \in Fragment /\ fs[i].start_tsn \in TSN /\ fs[i].stop_tsn \in TSN
              /\ Start(fs, i) \in 0..(Modulus - 1) /\ Stop(fs, i) \in 0..(Modulus - 1)
  <1>1. Len(fs) \in Nat
    BY LenProperties
  <1>2. ASSUME NEW i \in 1..Len(fs)
        PROVE  /\ fs[i] \in Fragment /\ fs[i].start_tsn \in TSN /\ fs[i].stop_tsn \in TSN
               /\ Start(fs, i) \in 0..(Modulus - 1) /\ Stop(fs, i) \in 0..(Modulus - 1)
    <2>1. fs[i] \in Fragment /\ fs[i].start_tsn \in TSN /\ fs[i].stop_tsn \in TSN
      BY <1>1, FragmentEnds
    <2> QED  BY <2>1, PositionOf DEF Start, Stop
  <1> QED  BY <1>1, <1>2

\* A list with one fragment in place of those between the p-th and the q-th.
IsSpliced(fs, p, q, f, new) ==
  /\ new \in Seq(Fragment) /\ Len(new) = p + Len(fs) + 2 - q
  /\ \A j \in 1..p : new[j] = fs[j]
  /\ new[p + 1] = f
  /\ \A j \in (p + 2)..Len(new) : new[j] = fs[j + q - p - 2]

\* The changes of the list put one fragment in place of none, one or two.
LEMMA Edits ==
  ASSUME NEW fs \in Seq(Fragment), NEW f \in Fragment
  PROVE  /\ IsSpliced(fs, Len(fs), Len(fs) + 1, f, Append(fs, f))
         /\ \A i \in 1..(Len(fs) + 1) : IsSpliced(fs, i - 1, i, f, InsertAt(fs, i, f))
         /\ \A i \in 1..Len(fs) : IsSpliced(fs, i - 1, i + 1, f, [fs EXCEPT ![i] = f])
         /\ \A i \in 2..Len(fs) :
              IsSpliced(fs, i - 2, i + 1, f, RemoveAt(ReplaceAt(fs, i, f), i - 1))
  <1> DEFINE len == Len(fs)
  <1>1. len \in Nat /\ \A j \in 1..len : fs[j] \in Fragment
    BY LenProperties, ElementOfSeq
  <1>2. IsSpliced(fs, len, len + 1, f, Append(fs, f))
    <2>1. /\ Append(fs, f) \in Seq(Fragment) /\ Len(Append(fs, f)) = len + 1
          /\ \A j \in 1..len : Append(fs, f)[j] = fs[j]
          /\ Append(fs, f)[len + 1] = f
      BY AppendProperties
    <2> HIDE DEF len
    <2>2. (len + 2)..(len + 1) = {} /\ len + 1 = len + Len(fs) + 2 - (len + 1)
      BY <1>1 DEF len
    <2> QED  BY <2>1, <2>2 DEF IsSpliced
  <1>3. ASSUME NEW i \in 1..(len + 1)
        PROVE  IsSpliced(fs, i - 1, i, f, InsertAt(fs, i, f))
    <2> DEFINE front == SubSeq(fs, 1, i - 1)
               back == SubSeq(fs, i, len)
               new == (front \o <<f>>) \o back
    <2>1. i - 1 \in 0..len /\ i \in Int
      BY <1>1
    <2>2. /\ front \in Seq(Fragment) /\ Len(front) = i - 1
          /\ \A j \in 1..(i - 1) : front[j] = fs[j]
      BY <1>1, <2>1, SubSeqProperties
    <2>3. /\ back \in Seq(Fragment) /\ Len(back) = len - i + 1
          /\ \A j \in 1..(len - i + 1) : back[j] = fs[i + j - 1]
      BY <1>1, <2>1, SubSeqProperties
    <2>4. InsertAt(fs, i, f) = new
      BY DEF InsertAt
    <2>5. <<f>> \in Seq(Fragment) /\ Len(<<f>>) = 1 /\ <<f>>[1] = f
      OBVIOUS
    <2> HIDE DEF front, back, len
    <2> DEFINE head == front \o <<f>>
    <2>6. /\ head \in Seq(Fragment) /\ Len(head) = i
          /\ \A j \in 1..(i - 1) : head[j] = fs[j]
          /\ head[i] = f
      <3>1. /\ head \in Seq(Fragment) /\ Len(head) = (i - 1) + 1
            /\ \A j \in 1..((i - 1) + 1) : head[j] = IF j <= i - 1 THEN front[j] ELSE <<f>>[j - (i - 1)]
        BY <2>2, <2>5, ConcatProperties
      <3> HIDE DEF head
      <3> QED  BY <2>1, <2>2, <2>5, <3>1
    <2>7. /\ new \in Seq(Fragment) /\ Len(new) = i + (len - i + 1)
          /\ \A j \in 1..(i + (len - i + 1)) : new[j] = IF j <= i THEN head[j] ELSE back[j - i]
      <3> HIDE DEF head
      <3>1. /\ head \o back \in Seq(Fragment) /\ Len(head \o back) = Len(head) + Len(back)
            /\ \A j \in 1..(Len(head) + Len(back)) :
                 (head \o back)[j] = IF j <= Len(head) THEN head[j] ELSE back[j - Len(head)]
        BY <2>3, <2>6, ConcatProperties
      <3>2. new = head \o back
        BY DEF head
      <3> HIDE DEF new
      <3>3. Len(head) = i /\ Len(back) = len - i + 1
        BY <2>3, <2>6
      <3> QED  BY <3>1, <3>2, <3>3
    <2> HIDE DEF head, new
    <2>8. Len(new) = (i - 1) + len + 2 - i
      BY <1>1, <2>1, <2>7
    <2>9. (\A j \in 1..(i - 1) : new[j] = fs[j]) /\ new[(i - 1) + 1] = f
      BY <1>1, <2>1, <2>6, <2>7
    <2>10. ASSUME NEW j \in ((i - 1) + 2)..Len(new)
           PROVE  new[j] = fs[j + i - (i - 1) - 2]
      <3>1. /\ j - i \in 1..(len - i + 1) /\ j \in 1..(i + (len - i + 1)) /\ ~ (j <= i)
            /\ i + (j - i) - 1 = j + i - (i - 1) - 2
        BY <1>1, <2>1, <2>7
      <3>2. new[j] = back[j - i] /\ back[j - i] = fs[i + (j - i) - 1]
        BY <2>3, <2>7, <3>1
      <3> QED  BY <3>1, <3>2
    <2> QED  BY <2>4, <2>7, <2>8, <2>9, <2>10 DEF IsSpliced, len
  <1>4. ASSUME NEW i \in 1..len
        PROVE  IsSpliced(fs, i - 1, i + 1, f, [fs EXCEPT ![i] = f])
    <2> DEFINE new == [fs EXCEPT ![i] = f]
    <2>1. /\ new \in Seq(Fragment) /\ Len(new) = len
          /\ \A j \in 1..len : new[j] = IF j = i THEN f ELSE fs[j]
      BY ExceptSeq
    <2> HIDE DEF new, len
    <2>2. /\ Len(new) = (i - 1) + len + 2 - (i + 1)
          /\ \A j \in 1..(i - 1) : new[j] = fs[j]
          /\ new[(i - 1) + 1] = f
      BY <1>1, <2>1
    <2>3. ASSUME NEW j \in ((i - 1) + 2)..Len(new)
          PROVE  new[j] = fs[j + (i + 1) - (i - 1) - 2]
      <3>1. j \in 1..len /\ j # i /\ j + (i + 1) - (i - 1) - 2 = j
        BY <1>1, <2>1
      <3> QED  BY <2>1, <3>1
    <2> QED  BY <2>1, <2>2, <2>3 DEF IsSpliced, new, len
  <1>5. ASSUME NEW i \in 2..len
        PROVE  IsSpliced(fs, i - 2, i + 1, f, RemoveAt(ReplaceAt(fs, i, f), i - 1))
    <2> DEFINE put == [fs EXCEPT ![i] = f]
               front == SubSeq(put, 1, (i - 1) - 1)
               back == SubSeq(put, (i - 1) + 1, Len(put))
               new == front \o back
    <2>1. RemoveAt(ReplaceAt(fs, i, f), i - 1) = new
      BY DEF RemoveAt, ReplaceAt
    <2>2. /\ put \in Seq(Fragment) /\ Len(put) = len
          /\ \A j \in 1..len : put[j] = IF j = i THEN f ELSE fs[j]
      <3>1. i \in 1..Len(fs)
        BY <1>1
      <3> QED  BY <3>1, ExceptSeq
    <2>3. \A j \in 1..len : put[j] \in Fragment
      BY <2>2, ElementOfSeq
    <2> HIDE DEF put, len
    <2>4. /\ (i - 1) - 1 \in Int /\ (i - 1) + 1 \in Int /\ Len(put) \in Int
          /\ \A j \in 1..((i - 1) - 1) : j \in 1..len
          /\ \A j \in ((i - 1) + 1)..Len(put) : j \in 1..len
      BY <1>1, <2>2
    <2>5. /\ front \in Seq(Fragment)
          /\ Len(front) = IF 1 <= (i - 1) - 1 THEN (i - 1) - 1 - 1 + 1 ELSE 0
          /\ \A j \in 1..((i - 1) - 1 - 1 + 1) : front[j] = put[1 + j - 1]
      BY <2>3, <2>4, SubSeqProperties
    <2>6. /\ back \in Seq(Fragment)
          /\ Len(back) = IF (i - 1) + 1 <= Len(put) THEN Len(put) - ((i - 1) + 1) + 1 ELSE 0
          /\ \A j \in 1..(Len(put) - ((i - 1) + 1) + 1) : back[j] = put[((i - 1) + 1) + j - 1]
      BY <2>3, <2>4, SubSeqProperties
    <2> HIDE DEF front, back
    <2>7. Len(front) = i - 2 /\ Len(back) = len - i + 1
      BY <1>1, <2>2, <2>5, <2>6
    <2>8. /\ new \in Seq(Fragment) /\ Len(new) = (i - 2) + (len - i + 1)
          /\ \A j \in 1..((i - 2) + (len - i + 1)) :
               new[j] = IF j <= i - 2 THEN front[j] ELSE back[j - (i - 2)]
      BY SMTT(30), <2>5, <2>6, <2>7, ConcatProperties
    <2> HIDE DEF new
    <2>9. Len(new) = (i - 2) + len + 2 - (i + 1)
      BY <1>1, <2>8
    <2>10. ASSUME NEW j \in 1..(i - 2)
           PROVE  new[j] = fs[j]
      <3>1. /\ j \in 1..((i - 1) - 1 - 1 + 1) /\ j \in 1..((i - 2) + (len - i + 1)) /\ j <= i - 2
            /\ 1 + j - 1 = j /\ j \in 1..len /\ j # i
        BY <1>1
      <3>2. new[j] = front[j] /\ front[j] = put[j]
        BY <2>5, <2>8, <3>1
      <3> QED  BY <2>2, <3>1, <3>2
    <2>11. ASSUME NEW j \in ((i - 2) + 1)..Len(new)
           PROVE  /\ j + 1 \in i..len
                  /\ new[j] = put[j + 1]
      <3>1. /\ j \in 1..((i - 2) + (len - i + 1)) /\ ~ (j <= i - 2)
            /\ j - (i - 2) \in 1..(Len(put) - ((i - 1) + 1) + 1)
            /\ ((i - 1) + 1) + (j - (i - 2)) - 1 = j + 1 /\ j + 1 \in i..len
        BY <1>1, <2>2, <2>8
      <3>2. new[j] = back[j - (i - 2)] /\ back[j - (i - 2)] = put[j + 1]
        BY <2>6, <2>8, <3>1
      <3> QED  BY <3>1, <3>2
    <2>12. new[(i - 2) + 1] = f
      <3>1. (i - 2) + 1 \in ((i - 2) + 1)..Len(new) /\ ((i - 2) + 1) + 1 = i /\ i \in 1..len
        BY <1>1, <2>8
      <3> QED  BY <2>2, <2>11, <3>1
    <2>13. ASSUME NEW j \in ((i - 2) + 2)..Len(new)
           PROVE  new[j] = fs[j + (i + 1) - (i - 2) - 2]
      <3>1. /\ j \in ((i - 2) + 1)..Len(new) /\ j + 1 \in 1..len /\ j + 1 # i
            /\ j + (i + 1) - (i - 2) - 2 = j + 1
        BY <1>1, <2>8
      <3> QED  BY <2>2, <2>11, <3>1
    <2> QED  BY <2>1, <2>8, <2>9, <2>10, <2>12, <2>13 DEF IsSpliced, len
  <1> QED  BY <1>2, <1>3, <1>4, <1>5

\* A fragment that covers those it replaces, without touching its neighbours.
LEMMA Spliced ==
  ASSUME base \in TSN, NEW fs \in Seq(Fragment), NEW point \in Int, NEW top \in Int,
         InOrder(point, fs, top),
         NEW p \in 0..Len(fs), NEW q \in (p + 1)..(Len(fs) + 1),
         NEW f \in Fragment, NEW new, IsSpliced(fs, p, q, f, new),
         Edge(point, fs, p) + 1 < Position(f.start_tsn),
         Position(f.start_tsn) <= Position(f.stop_tsn), Position(f.stop_tsn) <= top,
         q <= Len(fs) => Position(f.stop_tsn) + 1 < Start(fs, q),
         \A j \in (p + 1)..(q - 1) :
           Position(f.start_tsn) <= Start(fs, j) /\ Stop(fs, j) <= Position(f.stop_tsn)
  PROVE  /\ InOrder(point, new, top)
         /\ HeldIn(new) = HeldIn(fs) \cup
              {n \in Chunks : Position(f.start_tsn) <= n /\ n <= Position(f.stop_tsn)}
  <1> DEFINE a == Position(f.start_tsn)
             z == Position(f.stop_tsn)
             len == Len(fs)
             off == q - p - 2
  <1>1. /\ len \in Nat /\ Len(new) \in Nat /\ p \in 0..len /\ q \in Int /\ off \in Int
        /\ p + 1 <= q /\ q <= len + 1 /\ off = q - p - 2 /\ Len(new) = len - off
    BY SMTT(30), Ends DEF IsSpliced
  <1>2. a \in Int /\ z \in Int
    <2>1. f.start_tsn \in TSN /\ f.stop_tsn \in TSN
      BY DEF Fragment
    <2> QED  BY <2>1, PositionOf
  <1>3. /\ \A j \in 1..len : Start(fs, j) \in Int /\ Stop(fs, j) \in Int
        /\ \A j \in 1..len :
             point + 1 < Start(fs, j) /\ Start(fs, j) <= Stop(fs, j) /\ Stop(fs, j) <= top
        /\ \A j, k \in 1..len : j < k => Stop(fs, j) + 1 < Start(fs, k)
    BY Ends DEF InOrder
  <1>4. /\ \A j \in 1..p : Start(new, j) = Start(fs, j) /\ Stop(new, j) = Stop(fs, j)
        /\ Start(new, p + 1) = a /\ Stop(new, p + 1) = z
        /\ \A j \in (p + 2)..Len(new) :
             Start(new, j) = Start(fs, j + off) /\ Stop(new, j) = Stop(fs, j + off)
    <2>1. \A j \in (p + 2)..Len(new) : new[j] = fs[j + off]
      <3> SUFFICES ASSUME NEW j \in (p + 2)..Len(new)
                   PROVE  new[j] = fs[j + off]
        OBVIOUS
      <3>1. j + q - p - 2 = j + off
        BY <1>1
      <3> QED  BY <3>1 DEF IsSpliced
    <2> HIDE DEF off
    <2> QED  BY <2>1 DEF IsSpliced, Start, Stop
  <1>5. /\ \A j \in (p + 1)..(q - 1) : a <= Start(fs, j) /\ Stop(fs, j) <= z
        /\ q <= len => z + 1 < Start(fs, q)
        /\ a <= z /\ z <= top /\ Edge(point, fs, p) + 1 < a
    OBVIOUS
  <1> HIDE DEF a, z, off, len
  <1>6. point + 1 < a /\ \A j \in 1..p : Stop(fs, j) + 1 < a
    <2>1. CASE p = 0
      BY <1>5, <2>1 DEF Edge
    <2>2. CASE p # 0
      <3>1. p \in 1..len /\ Stop(fs, p) + 1 < a
        BY <1>1, <1>5, <2>2 DEF Edge
      <3>2. ASSUME NEW j \in 1..p, j # p PROVE Stop(fs, j) + 1 < a
        <4>1. j \in 1..len /\ j < p
          BY SMTT(30), <1>1, <3>2
        <4>2. Stop(fs, j) + 1 < Start(fs, p) /\ Start(fs, p) <= Stop(fs, p)
          BY <1>3, <3>1, <4>1
        <4> QED  BY <1>2, <1>3, <3>1, <4>1, <4>2
      <3>3. point + 1 < a
        <4>1. point + 1 < Start(fs, p) /\ Start(fs, p) <= Stop(fs, p)
          BY <1>3, <3>1
        <4> QED  BY <1>2, <1>3, <3>1, <4>1
      <3> QED  BY <3>1, <3>2, <3>3
    <2> QED  BY <2>1, <2>2
  <1>7. \A j \in q..len : z + 1 < Start(fs, j)
    <2> SUFFICES ASSUME NEW j \in q..len
                 PROVE  z + 1 < Start(fs, j)
      OBVIOUS
    <2>1. q \in 1..len /\ j \in 1..len /\ z + 1 < Start(fs, q)
      BY <1>1, <1>5
    <2>2. CASE j = q
      BY <2>1, <2>2
    <2>3. CASE j # q
      <3>1. Stop(fs, q) + 1 < Start(fs, j) /\ Start(fs, q) <= Stop(fs, q)
        BY <1>1, <1>3, <2>1, <2>3
      <3> QED  BY <1>2, <1>3, <2>1, <3>1
    <2> QED  BY <2>2, <2>3
  <1>8. \A j \in 1..Len(new) :
          \/ j \in 1..p /\ j \in 1..len
          \/ j = p + 1
          \/ j \in (p + 2)..Len(new) /\ j + off \in q..len /\ j + off \in 1..len
    <2> SUFFICES ASSUME NEW j \in 1..Len(new)
                 PROVE  \/ j \in 1..p /\ j \in 1..len
                        \/ j = p + 1
                        \/ j \in (p + 2)..Len(new) /\ j + off \in q..len /\ j + off \in 1..len
      OBVIOUS
    <2>1. j \in Int /\ 1 <= j /\ j <= len - off /\ p \in Int /\ 0 <= p /\ p <= len
      BY <1>1
    <2>2. CASE j <= p
      BY <1>1, <2>1, <2>2
    <2>3. CASE j > p + 1
      <3>1. q <= j + off /\ j + off <= len /\ 1 <= q
        BY <1>1, <2>1, <2>3
      <3> QED  BY <1>1, <2>1, <2>3, <3>1
    <2> QED  BY <2>1, <2>2, <2>3
  <1>9. ASSUME NEW j \in 1..Len(new)
        PROVE  point + 1 < Start(new, j) /\ Start(new, j) <= Stop(new, j) /\ Stop(new, j) <= top
    <2>1. CASE j \in 1..p /\ j \in 1..len
      BY <1>3, <1>4, <2>1
    <2>2. CASE j = p + 1
      BY <1>4, <1>5, <1>6, <2>2
    <2>3. CASE j \in (p + 2)..Len(new) /\ j + off \in 1..len
      BY <1>3, <1>4, <2>3
    <2> QED  BY <1>8, <2>1, <2>2, <2>3
  <1>10. ASSUME NEW j \in 1..Len(new), NEW k \in 1..Len(new), j < k
         PROVE  Stop(new, j) + 1 < Start(new, k)
    <2>1. CASE j \in 1..p /\ j \in 1..len
      <3>1. CASE k \in 1..p /\ k \in 1..len
        BY <1>3, <1>4, <1>10, <2>1, <3>1
      <3>2. CASE k = p + 1
        BY <1>4, <1>6, <2>1, <3>2
      <3>3. CASE k \in (p + 2)..Len(new) /\ k + off \in q..len /\ k + off \in 1..len
        <4>1. j <= p /\ q <= k + off /\ p < q
          BY <1>1, <2>1, <3>3
        <4>2. j < k + off
          BY <1>1, <2>1, <3>3, <4>1
        <4> QED  BY <1>3, <1>4, <2>1, <3>3, <4>2
      <3> QED  BY <1>8, <3>1, <3>2, <3>3
    <2>2. CASE j = p + 1
      <3>1. k \in (p + 2)..Len(new) /\ k + off \in q..len
        <4>1. ~ (k \in 1..p) /\ k # p + 1
          BY <1>1, <1>10, <2>2
        <4> QED  BY <1>8, <4>1
      <3> QED  BY <1>4, <1>7, <2>2, <3>1
    <2>3. CASE j \in (p + 2)..Len(new) /\ j + off \in 1..len
      <3>1. k \in (p + 2)..Len(new) /\ k + off \in 1..len
        <4>1. ~ (k \in 1..p) /\ k # p + 1
          BY <1>1, <1>10, <2>3
        <4> QED  BY <1>8, <4>1
      <3>2. j + off < k + off
        BY <1>1, <1>10
      <3> QED  BY <1>3, <1>4, <2>3, <3>1, <3>2
    <2> QED  BY <1>8, <2>1, <2>2, <2>3
  <1>11. HeldIn(new) = HeldIn(fs) \cup {n \in Chunks : a <= n /\ n <= z}
    <2>1. ASSUME NEW n \in HeldIn(new)
          PROVE  n \in HeldIn(fs) \cup {m \in Chunks : a <= m /\ m <= z}
      <3>1. n \in Chunks /\ \E j \in 1..Len(new) : Start(new, j) <= n /\ n <= Stop(new, j)
        BY <2>1 DEF HeldIn
      <3>2. PICK j \in 1..Len(new) : Start(new, j) <= n /\ n <= Stop(new, j)
        BY <3>1
      <3>3. CASE j \in 1..p /\ j \in 1..len
        BY <1>4, <3>1, <3>2, <3>3 DEF HeldIn, len
      <3>4. CASE j = p + 1
        BY <1>4, <3>1, <3>2, <3>4
      <3>5. CASE j \in (p + 2)..Len(new) /\ j + off \in 1..len
        BY <1>4, <3>1, <3>2, <3>5 DEF HeldIn, len
      <3> QED  BY <1>8, <3>3, <3>4, <3>5
    <2>2. ASSUME NEW n \in HeldIn(fs)
          PROVE  n \in HeldIn(new) \cup {m \in Chunks : a <= m /\ m <= z}
      <3>1. n \in Chunks /\ \E j \in 1..len : Start(fs, j) <= n /\ n <= Stop(fs, j)
        BY <2>2 DEF HeldIn, len
      <3>2. PICK j \in 1..len : Start(fs, j) <= n /\ n <= Stop(fs, j)
        BY <3>1
      <3>3. CASE j <= p
        <4>1. j \in 1..p /\ j \in 1..Len(new)
          BY SMTT(30), <1>1, <3>3
        <4> QED  BY <1>4, <3>1, <3>2, <4>1 DEF HeldIn
      <3>4. CASE p < j /\ j < q
        <4>0. j \in Int /\ p \in Int /\ q \in Int /\ p < j /\ j < q
          BY <1>1, <3>4
        <4>1. j \in (p + 1)..(q - 1)
          BY <4>0
        <4>2. a <= Start(fs, j) /\ Stop(fs, j) <= z
          BY <1>5, <4>1
        <4>3. n \in Int
          BY <3>1, ReceiveAssumption DEF Chunks
        <4>4. a <= n /\ n <= z
          BY <1>2, <1>3, <3>2, <4>2, <4>3
        <4> QED  BY <3>1, <4>4
      <3>5. CASE q <= j
        <4> DEFINE k == j - off
        <4>1. k \in (p + 2)..Len(new) /\ k \in 1..Len(new) /\ k + off = j
          BY SMTT(30), <1>1, <3>5
        <4> HIDE DEF k
        <4> QED  BY <1>4, <3>1, <3>2, <4>1 DEF HeldIn
      <3>6. j <= p \/ (p < j /\ j < q) \/ q <= j
        BY <1>1
      <3> QED  BY <3>3, <3>4, <3>5, <3>6
    <2>3. ASSUME NEW n \in Chunks, a <= n, n <= z
          PROVE  n \in HeldIn(new)
      <3>1. p + 1 \in 1..Len(new)
        BY <1>1
      <3> QED  BY <1>4, <2>3, <3>1 DEF HeldIn
    <2>4. \A n \in {m \in Chunks : a <= m /\ m <= z} : n \in HeldIn(new)
      BY <2>3
    <2> QED  BY <2>1, <2>2, <2>4
  <1> QED  BY <1>9, <1>10, <1>11 DEF InOrder, a, z

\* The fragments up to the k-th are dropped when the point moves beyond them.
LEMMA Dropped ==
  ASSUME base \in TSN, NEW fs \in Seq(Fragment), NEW point \in Int, NEW top \in Int,
         InOrder(point, fs, top), NEW k \in 0..Len(fs), NEW far \in Int,
         k # 0 => Stop(fs, k) <= far, k < Len(fs) => far + 1 < Start(fs, k + 1)
  PROVE  /\ SubSeq(fs, k + 1, Len(fs)) \in Seq(Fragment)
         /\ InOrder(far, SubSeq(fs, k + 1, Len(fs)), top)
         /\ HeldIn(SubSeq(fs, k + 1, Len(fs))) = {n \in HeldIn(fs) : n > far}
  <1> DEFINE new == SubSeq(fs, k + 1, Len(fs))
             len == Len(fs)
  <1>1. len \in Nat /\ k \in 0..len /\ \A j \in 1..len : fs[j] \in Fragment
    BY LenProperties, ElementOfSeq
  <1>2. /\ new \in Seq(Fragment) /\ Len(new) = len - k
        /\ \A j \in 1..(len - k) : new[j] = fs[j + k]
    <2> HIDE DEF len
    <2>1. k + 1 \in Int /\ len \in Int /\ \A j \in (k + 1)..len : fs[j] \in Fragment
      BY <1>1
    <2> DEFINE rest == SubSeq(fs, k + 1, len)
    <2>2. /\ rest \in Seq(Fragment)
          /\ Len(rest) = IF k + 1 <= len THEN len - (k + 1) + 1 ELSE 0
          /\ \A j \in 1..(len - (k + 1) + 1) : rest[j] = fs[(k + 1) + j - 1]
      BY <2>1, SubSeqProperties
    <2>3. new = rest
      BY DEF len
    <2> HIDE DEF rest, new
    <2>4. Len(rest) = len - k
      BY <1>1, <2>2
    <2>5. ASSUME NEW j \in 1..(len - k) PROVE rest[j] = fs[j + k]
      <3>1. j \in 1..(len - (k + 1) + 1) /\ (k + 1) + j - 1 = j + k
        BY <1>1
      <3> QED  BY <2>2, <3>1
    <2> QED  BY <2>2, <2>3, <2>4, <2>5
  <1>3. /\ \A j \in 1..len : Start(fs, j) \in Int /\ Stop(fs, j) \in Int
        /\ \A j \in 1..len : Start(fs, j) <= Stop(fs, j) /\ Stop(fs, j) <= top
        /\ \A j, i \in 1..len : j < i => Stop(fs, j) + 1 < Start(fs, i)
    BY Ends DEF InOrder
  <1>4. (k # 0 => Stop(fs, k) <= far) /\ (k < len => far + 1 < Start(fs, k + 1))
    OBVIOUS
  <1> HIDE DEF new, len
  <1>5. \A j \in 1..Len(new) :
          j + k \in (k + 1)..len /\ j + k \in 1..len
            /\ Start(new, j) = Start(fs, j + k) /\ Stop(new, j) = Stop(fs, j + k)
    <2> SUFFICES ASSUME NEW j \in 1..Len(new)
                 PROVE  /\ j + k \in (k + 1)..len /\ j + k \in 1..len
                        /\ Start(new, j) = Start(fs, j + k) /\ Stop(new, j) = Stop(fs, j + k)
      OBVIOUS
    <2>1. j \in 1..(len - k) /\ j + k \in (k + 1)..len /\ j + k \in 1..len
      BY <1>1, <1>2
    <2>2. new[j] = fs[j + k]
      BY <1>2, <2>1
    <2> QED  BY <2>1, <2>2 DEF Start, Stop
  <1>6. \A j \in (k + 1)..len : far + 1 < Start(fs, j)
    <2> SUFFICES ASSUME NEW j \in (k + 1)..len
                 PROVE  far + 1 < Start(fs, j)
      OBVIOUS
    <2>1. k + 1 \in 1..len /\ j \in 1..len /\ far + 1 < Start(fs, k + 1)
      BY <1>1, <1>4
    <2>2. CASE j = k + 1
      BY <2>1, <2>2
    <2>3. CASE j # k + 1
      <3>1. Stop(fs, k + 1) + 1 < Start(fs, j) /\ Start(fs, k + 1) <= Stop(fs, k + 1)
        BY <1>1, <1>3, <2>1, <2>3
      <3> QED  BY <1>3, <2>1, <3>1
    <2> QED  BY <2>2, <2>3
  <1>7. \A j \in 1..k : j \in 1..len /\ Stop(fs, j) <= far
    <2> SUFFICES ASSUME NEW j \in 1..k
                 PROVE  j \in 1..len /\ Stop(fs, j) <= far
      OBVIOUS
    <2>1. k \in 1..len /\ j \in 1..len /\ Stop(fs, k) <= far
      BY <1>1, <1>4
    <2>2. CASE j = k
      BY <2>1, <2>2
    <2>3. CASE j # k
      <3>1. Stop(fs, j) + 1 < Start(fs, k) /\ Start(fs, k) <= Stop(fs, k)
        BY <1>1, <1>3, <2>1, <2>3
      <3> QED  BY <1>3, <2>1, <3>1
    <2> QED  BY <2>2, <2>3
  <1>8. InOrder(far, new, top)
    <2>1. \A j \in 1..Len(new) :
            far + 1 < Start(new, j) /\ Start(new, j) <= Stop(new, j) /\ Stop(new, j) <= top
      BY <1>3, <1>5, <1>6
    <2>2. ASSUME NEW j \in 1..Len(new), NEW i \in 1..Len(new), j < i
          PROVE  Stop(new, j) + 1 < Start(new, i)
      <3>1. j + k < i + k
        BY <1>1, <1>2, <2>2
      <3> QED  BY <1>3, <1>5, <3>1
    <2> QED  BY <2>1, <2>2 DEF InOrder
  <1>9. Chunks \subseteq Int
    BY DEF Chunks
  <1>10. ASSUME NEW n \in Chunks
         PROVE  (\E j \in 1..Len(new) : Start(new, j) <= n /\ n <= Stop(new, j))
                  <=> (n > far /\ \E j \in 1..len : Start(fs, j) <= n /\ n <= Stop(fs, j))
    <2>1. ASSUME NEW j \in 1..Len(new), Start(new, j) <= n, n <= Stop(new, j)
          PROVE  n > far /\ \E i \in 1..len : Start(fs, i) <= n /\ n <= Stop(fs, i)
      <3>1. j + k \in 1..len /\ Start(fs, j + k) <= n /\ n <= Stop(fs, j + k)
        BY <1>5, <2>1
      <3>2. far + 1 < Start(fs, j + k) /\ Start(fs, j + k) \in Int
        BY <1>3, <1>5, <1>6
      <3> QED  BY <1>9, <3>1, <3>2
    <2>2. ASSUME n > far, NEW j \in 1..len, Start(fs, j) <= n, n <= Stop(fs, j)
          PROVE  \E i \in 1..Len(new) : Start(new, i) <= n /\ n <= Stop(new, i)
      <3>1. ~ (j \in 1..k)
        BY <1>3, <1>7, <1>9, <2>2
      <3> DEFINE i == j - k
      <3>2. i \in 1..Len(new) /\ i + k = j
        BY <1>1, <1>2, <3>1
      <3> HIDE DEF i
      <3>3. Start(new, i) = Start(fs, j) /\ Stop(new, i) = Stop(fs, j)
        BY <1>5, <3>2
      <3> QED  BY <2>2, <3>2, <3>3
    <2> QED  BY <2>1, <2>2
  <1>11. HeldIn(new) = {n \in HeldIn(fs) : n > far}
    BY <1>10 DEF HeldIn, len
  <1> QED  BY <1>2, <1>8, <1>11 DEF new

-----------------------------------------------------------------------------
(* Gaps *)

Point(r) == Position(r.ctsna)

\* The gaps between fragments in order, and where a chunk beyond the point lies: in a fragment,
\* in the gap before one, or behind the last.
LEMMA Gaps ==
  ASSUME base \in TSN, NEW r \in Buffer, NEW top \in Int, top + 1 < Modulus,
         Point(r) <= top, InOrder(Point(r), r.frag_list, top)
  PROVE  /\ \A i \in 1..(Len(r.frag_list) + 1) :
              /\ Edge(Point(r), r.frag_list, i - 1) \in 0..top
              /\ GapStart(r, i) \in TSN
              /\ Position(GapStart(r, i)) = Edge(Point(r), r.frag_list, i - 1) + 1
         /\ \A i \in 1..Len(r.frag_list) :
              /\ GapStop(r, i) \in TSN
              /\ Position(GapStop(r, i)) = Start(r.frag_list, i) - 1
              /\ Edge(Point(r), r.frag_list, i - 1) + 1 < Start(r.frag_list, i)
  <1> DEFINE fs == r.frag_list
             len == Len(fs)
  <1>1. /\ fs \in Seq(Fragment) /\ r.ctsna \in TSN /\ Point(r) \in 0..(Modulus - 1)
        /\ Modulus \in Nat
    BY PositionOf, ModulusAssumption DEF Buffer, Point
  <1>2. /\ len \in Nat
        /\ \A i \in 1..len : /\ fs[i].start_tsn \in TSN /\ fs[i].stop_tsn \in TSN
                             /\ Start(fs, i) \in 0..(Modulus - 1) /\ Stop(fs, i) \in 0..(Modulus - 1)
    BY <1>1, Ends
  <1>3. /\ \A i \in 1..len : Point(r) + 1 < Start(fs, i) /\ Stop(fs, i) <= top
        /\ \A i, j \in 1..len : i < j => Stop(fs, i) + 1 < Start(fs, j)
    BY DEF InOrder
  <1> HIDE DEF fs, len
  <1>4. ASSUME NEW i \in 1..(len + 1)
        PROVE  /\ Edge(Point(r), fs, i - 1) \in 0..top
               /\ GapStart(r, i) \in TSN
               /\ Position(GapStart(r, i)) = Edge(Point(r), fs, i - 1) + 1
    <2> DEFINE t == IF i = 1 THEN r.ctsna ELSE fs[i - 1].stop_tsn
    <2>1. t \in TSN /\ Position(t) = Edge(Point(r), fs, i - 1) /\ Position(t) \in 0..top
      <3>1. CASE i = 1
        BY <1>1, <3>1 DEF Edge, Point
      <3>2. CASE i # 1
        <4>1. i - 1 \in 1..len /\ i - 1 # 0
          BY <1>2, <3>2
        <4>2. t = fs[i - 1].stop_tsn /\ Stop(fs, i - 1) \in 0..top
          BY <1>1, <1>2, <1>3, <3>2, <4>1
        <4> QED  BY <1>2, <4>1, <4>2 DEF Edge, Stop
      <3> QED  BY <3>1, <3>2
    <2>2. GapStart(r, i) = Plus(t, 1)
      BY DEF GapStart, fs
    <2> HIDE DEF t
    <2>3. Position(t) + 1 < Modulus
      BY <1>1, <2>1
    <2> QED  BY <2>1, <2>2, <2>3, Neighbours
  <1>5. ASSUME NEW i \in 1..len
        PROVE  /\ GapStop(r, i) \in TSN
               /\ Position(GapStop(r, i)) = Start(fs, i) - 1
               /\ Edge(Point(r), fs, i - 1) + 1 < Start(fs, i)
    <2>1. Position(fs[i].start_tsn) = Start(fs, i) /\ fs[i].start_tsn \in TSN /\ Start(fs, i) > 0
      BY SMTT(30), <1>1, <1>2, <1>3 DEF Start
    <2>2. GapStop(r, i) = Minus(fs[i].start_tsn, 1)
      BY DEF GapStop, fs
    <2>3. Edge(Point(r), fs, i - 1) + 1 < Start(fs, i)
      <3>1. CASE i = 1
        BY <1>3, <3>1 DEF Edge
      <3>2. CASE i # 1
        <4>1. i - 1 \in 1..len /\ i - 1 < i /\ i - 1 # 0
          BY <1>2, <3>2
        <4> QED  BY <1>3, <4>1 DEF Edge
      <3> QED  BY <3>1, <3>2
    <2> QED  BY <2>1, <2>2, <2>3, Neighbours
  <1> QED  BY <1>4, <1>5 DEF fs, len

(* The fragments of a buffer lie in order, up to a chunk that is less than *)
(* half of the serial numbers beyond its point.                            *)
Sound(r, top) ==
  /\ r \in Buffer /\ InOrder(Point(r), r.frag_list, top)
  /\ Point(r) <= top /\ top + 1 < Modulus /\ 2 * (top - Point(r)) < Modulus

\* The gap in which a chunk lies decides where its fragment is put.
LEMMA PlaceOfGap ==
  ASSUME base \in TSN, NEW top \in Int, NEW r, Sound(r, top), NEW tsn \in TSN,
         Point(r) < Position(tsn), Position(tsn) <= top,
         NEW i \in 1..Len(r.frag_list),
         Edge(Point(r), r.frag_list, i - 1) < Position(tsn),
         Position(tsn) < Start(r.frag_list, i)
  PROVE  SortedPlace(r, tsn) = i
  <1> DEFINE fs == r.frag_list
             len == Len(fs)
             n == Position(tsn)
             follows(f) == /\ After(tsn, f.start_tsn) /\ After(tsn, f.stop_tsn)
                           /\ ~ (Before(tsn, f.start_tsn) /\ Before(tsn, f.stop_tsn))
             S == {j \in DOMAIN fs : ~ follows(fs[j])} \cup {len + 1}
  <1>1. /\ r \in Buffer /\ fs \in Seq(Fragment) /\ len \in Nat /\ DOMAIN fs = 1..len
        /\ n \in Int /\ Point(r) \in Int /\ Modulus \in Nat /\ 2 * (top - Point(r)) < Modulus
        /\ Point(r) < n /\ n <= top
    <2>1. r \in Buffer
      BY DEF Sound
    <2>2. r.ctsna \in TSN /\ fs \in Seq(Fragment) /\ len \in Nat /\ DOMAIN fs = 1..len
      BY <2>1, GapTypes
    <2> QED  BY <2>1, <2>2, PositionOf, ModulusAssumption DEF Sound, Point
  <1>2. /\ \A j \in 1..len : /\ fs[j].start_tsn \in TSN /\ fs[j].stop_tsn \in TSN
                             /\ Start(fs, j) \in Int /\ Stop(fs, j) \in Int
                             /\ Point(r) < Start(fs, j) /\ Start(fs, j) <= Stop(fs, j)
                             /\ Stop(fs, j) <= top
        /\ \A j, k \in 1..len : j < k => Stop(fs, j) + 1 < Start(fs, k)
    <2>1. \A j \in 1..len : /\ fs[j].start_tsn \in TSN /\ fs[j].stop_tsn \in TSN
                            /\ Start(fs, j) \in Int /\ Stop(fs, j) \in Int
      BY SMTT(30), <1>1, Ends
    <2>2. /\ \A j \in 1..len : /\ Point(r) + 1 < Start(fs, j) /\ Start(fs, j) <= Stop(fs, j)
                               /\ Stop(fs, j) <= top
          /\ \A j, k \in 1..len : j < k => Stop(fs, j) + 1 < Start(fs, k)
      BY DEF Sound, InOrder
    <2>3. \A j \in 1..len : Point(r) < Start(fs, j)
      <3> HIDE DEF fs, len
      <3> QED  BY <1>1, <2>1, <2>2
    <2> QED  BY <2>1, <2>2, <2>3
  <1>3. Edge(Point(r), fs, i - 1) < n /\ n < Start(fs, i) /\ i \in 1..len
    OBVIOUS
  <1>4. SortedPlace(r, tsn) = Min(S)
    BY DEF SortedPlace
  <1> HIDE DEF fs, len
  <1>5. ASSUME NEW j \in 1..len
        PROVE  follows(fs[j]) <=> Stop(fs, j) < n /\ Start(fs, j) < n
    <2>0. /\ Start(fs, j) \in Int /\ Stop(fs, j) \in Int
          /\ Point(r) < Start(fs, j) /\ Start(fs, j) <= top
          /\ Point(r) < Stop(fs, j) /\ Stop(fs, j) <= top
      <3> HIDE DEF n
      <3> QED  BY SMTT(30), <1>1, <1>2
    <2>1. /\ 2 * (n - Start(fs, j)) < Modulus /\ 2 * (Start(fs, j) - n) < Modulus
          /\ 2 * (n - Stop(fs, j)) < Modulus /\ 2 * (Stop(fs, j) - n) < Modulus
          /\ 2 * (n - Start(fs, j)) <= Modulus /\ 2 * (Start(fs, j) - n) <= Modulus
          /\ 2 * (n - Stop(fs, j)) <= Modulus /\ 2 * (Stop(fs, j) - n) <= Modulus
      <3> DEFINE a == Start(fs, j)
                 z == Stop(fs, j)
                 p == Point(r)
      <3>1. /\ a \in Int /\ z \in Int /\ p \in Int /\ n \in Int /\ top \in Int /\ Modulus \in Int
            /\ p < a /\ a <= top /\ p < z /\ z <= top /\ p < n /\ n <= top
            /\ 2 * (top - p) < Modulus
        BY <1>1, <2>0
      <3> HIDE DEF a, z, p, n
      <3>2. /\ n - a < top - p /\ a - n < top - p /\ n - z < top - p /\ z - n < top - p
        BY <3>1
      <3>3. /\ 2 * (n - a) < Modulus /\ 2 * (a - n) < Modulus
            /\ 2 * (n - a) <= Modulus /\ 2 * (a - n) <= Modulus
        BY <3>1, <3>2
      <3>4. /\ 2 * (n - z) < Modulus /\ 2 * (z - n) < Modulus
            /\ 2 * (n - z) <= Modulus /\ 2 * (z - n) <= Modulus
        BY <3>1, <3>2
      <3> QED  BY <3>3, <3>4 DEF a, z
    <2>2. /\ Before(tsn, fs[j].start_tsn) <=> n < Start(fs, j)
          /\ After(tsn, fs[j].start_tsn) <=> Start(fs, j) < n
          /\ Before(tsn, fs[j].stop_tsn) <=> n < Stop(fs, j)
          /\ After(tsn, fs[j].stop_tsn) <=> Stop(fs, j) < n
      BY <1>2, <2>1, Compare DEF Start, Stop
    <2> HIDE DEF n
    <2> QED  BY <1>1, <1>2, <2>2
  <1> HIDE DEF follows, n
  <1>6. i \in S
    BY <1>1, <1>3, <1>5, <1>2
  <1>7. \A j \in S : i <= j
    <2> SUFFICES ASSUME NEW j \in S, j < i
                 PROVE  FALSE
      BY <1>1, <1>3
    <2>1. j \in 1..len /\ ~ follows(fs[j]) /\ i \in Int
      BY <1>1, <1>3
    <2>2. Stop(fs, j) < n
      <3>1. i - 1 \in 1..len /\ i - 1 # 0 /\ Stop(fs, i - 1) < n
        <4>1. i - 1 \in 1..len /\ i - 1 # 0
          BY <1>1, <1>3, <2>1
        <4> QED  BY <1>3, <4>1 DEF Edge
      <3>2. CASE j = i - 1
        BY <3>1, <3>2
      <3>3. CASE j # i - 1
        <4>1. j < i - 1
          BY <2>1, <3>3
        <4>2. Stop(fs, j) + 1 < Start(fs, i - 1) /\ Start(fs, i - 1) <= Stop(fs, i - 1)
          BY <1>2, <2>1, <3>1, <4>1
        <4> QED  BY SMTT(30), <1>1, <1>2, <2>1, <3>1, <4>2
      <3> QED  BY <3>2, <3>3
    <2>3. Start(fs, j) < n
      BY <1>1, <1>2, <2>1, <2>2
    <2> QED  BY <1>5, <2>1, <2>2, <2>3
  <1>8. Min(S) = i
    <2>1. S \in SUBSET Nat
      BY <1>1
    <2> HIDE DEF S
    <2>2. Min(S) \in S
      BY <1>6, <2>1, MinIsElement
    <2>3. \E x \in S : \A y \in S : x <= y
      BY <1>6, <1>7
    <2>4. \A y \in S : Min(S) <= y
      BY <2>3 DEF Min
    <2>5. Min(S) <= i /\ i <= Min(S)
      BY <1>6, <1>7, <2>2, <2>4
    <2>6. Min(S) \in Int /\ i \in Int
      <3>1. Min(S) \in Nat /\ i \in Nat
        BY <1>6, <2>1, <2>2
      <3> QED  BY <3>1
    <2> QED  BY <2>5, <2>6
  <1> QED  BY <1>4, <1>8

-----------------------------------------------------------------------------
(* Entering a chunk *)

(* A buffer with another point and another list, and another highest TSN. *)
WithList(r, t, fs) == [r EXCEPT !.ctsna = t, !.frag_list = fs]
WithHighest(r, h, t, fs) == [r EXCEPT !.highest = h, !.ctsna = t, !.frag_list = fs]

(* What a point and a list of fragments stand for, when the n-th chunk has  *)
(* been entered into a buffer.                                              *)
Entered(r, n, top, t, fs) ==
  /\ t \in TSN /\ fs \in Seq(Fragment)
  /\ Point(r) <= Position(t) /\ Position(t) <= top
  /\ InOrder(Position(t), fs, top)
  /\ \A m \in Chunks : m <= Position(t) \/ m \in HeldIn(fs)
                         <=> m <= Point(r) \/ m \in HeldIn(r.frag_list) \/ m = n

\* One fragment that takes the n-th chunk up, between the p-th and the q-th.
LEMMA TakenUp ==
  ASSUME base \in TSN, NEW top \in Int, NEW r, Sound(r, top),
         NEW n \in Chunks, NEW p \in 0..Len(r.frag_list),
         NEW q \in (p + 1)..(Len(r.frag_list) + 1), NEW a \in TSN, NEW z \in TSN,
         Edge(Point(r), r.frag_list, p) + 1 < Position(a),
         Position(a) <= n, n <= Position(z), Position(z) <= top,
         q <= Len(r.frag_list) => Position(z) + 1 < Start(r.frag_list, q),
         \A j \in (p + 1)..(q - 1) :
           Position(a) <= Start(r.frag_list, j) /\ Stop(r.frag_list, j) <= Position(z),
         \A m \in Chunks : Position(a) <= m /\ m <= Position(z) /\ m # n
           => \E j \in (p + 1)..(q - 1) :
                Start(r.frag_list, j) <= m /\ m <= Stop(r.frag_list, j),
         NEW new, IsSpliced(r.frag_list, p, q, [start_tsn |-> a, stop_tsn |-> z], new)
  PROVE  Entered(r, n, top, r.ctsna, new)
  <1> DEFINE fs == r.frag_list
             f == [start_tsn |-> a, stop_tsn |-> z]
  <1>1. /\ r \in Buffer /\ fs \in Seq(Fragment) /\ r.ctsna \in TSN /\ InOrder(Point(r), fs, top)
        /\ Point(r) <= top /\ Len(fs) \in Nat
    BY GapTypes DEF Sound, Buffer
  <1>2. Point(r) \in Int /\ Position(a) \in Int /\ Position(z) \in Int /\ n \in Int
    BY <1>1, PositionOf DEF Point, Chunks
  <1>3. f \in Fragment /\ f.start_tsn = a /\ f.stop_tsn = z /\ Position(a) <= Position(z)
    BY <1>2 DEF Fragment
  <1> HIDE DEF f
  <1>4. /\ IsSpliced(fs, p, q, f, new)
        /\ Edge(Point(r), fs, p) + 1 < Position(f.start_tsn)
        /\ Position(f.start_tsn) <= Position(f.stop_tsn) /\ Position(f.stop_tsn) <= top
        /\ q <= Len(fs) => Position(f.stop_tsn) + 1 < Start(fs, q)
        /\ \A j \in (p + 1)..(q - 1) :
             Position(f.start_tsn) <= Start(fs, j) /\ Stop(fs, j) <= Position(f.stop_tsn)
        /\ p \in 0..Len(fs) /\ q \in (p + 1)..(Len(fs) + 1)
    BY <1>3 DEF f
  <1>5. /\ InOrder(Point(r), new, top)
        /\ HeldIn(new) = HeldIn(fs) \cup {m \in Chunks : Position(a) <= m /\ m <= Position(z)}
    <2> HIDE DEF fs
    <2>1. /\ InOrder(Point(r), new, top)
          /\ HeldIn(new) = HeldIn(fs) \cup
               {m \in Chunks : Position(f.start_tsn) <= m /\ m <= Position(f.stop_tsn)}
      BY SMTT(30), <1>1, <1>2, <1>3, <1>4, Spliced
    <2> QED  BY <1>3, <2>1
  <1>6. new \in Seq(Fragment)
    BY <1>4 DEF IsSpliced
  <1>7. ASSUME NEW m \in Chunks, Position(a) <= m, m <= Position(z), m # n
        PROVE  m \in HeldIn(fs)
    <2>1. PICK j \in (p + 1)..(q - 1) : Start(fs, j) <= m /\ m <= Stop(fs, j)
      BY <1>7
    <2>2. j \in 1..Len(fs)
      BY <1>1
    <2> QED  BY <2>1, <2>2 DEF HeldIn
  <1>8. ASSUME NEW m \in Chunks
        PROVE  m \in HeldIn(new) <=> m \in HeldIn(fs) \/ m = n
    <2>1. m \in HeldIn(new) <=> m \in HeldIn(fs) \/ (Position(a) <= m /\ m <= Position(z))
      BY <1>5
    <2>2. Position(a) <= n /\ n <= Position(z)
      OBVIOUS
    <2> QED  BY <1>7, <2>1, <2>2
  <1> QED  BY <1>1, <1>2, <1>5, <1>6, <1>8 DEF Entered, Point

\* A point moved to the n-th chunk or over the first fragment.
LEMMA MovedOver ==
  ASSUME base \in TSN, NEW top \in Int, NEW r, Sound(r, top),
         NEW n \in Chunks, Point(r) + 1 = n, n <= top,
         NEW k \in 0..Len(r.frag_list), k <= 1,
         NEW t \in TSN, k = 0 => Position(t) = n,
         k = 1 => Start(r.frag_list, 1) = n + 1 /\ Position(t) = Stop(r.frag_list, 1),
         k < Len(r.frag_list) => Position(t) + 1 < Start(r.frag_list, k + 1)
  PROVE  Entered(r, n, top, t, SubSeq(r.frag_list, k + 1, Len(r.frag_list)))
  <1> DEFINE fs == r.frag_list
             new == SubSeq(fs, k + 1, Len(fs))
  <1>1. /\ r \in Buffer /\ fs \in Seq(Fragment) /\ r.ctsna \in TSN /\ InOrder(Point(r), fs, top)
        /\ Len(fs) \in Nat
    BY GapTypes DEF Sound, Buffer
  <1>2. Point(r) \in Int /\ Position(t) \in Int /\ n \in Int /\ Chunks \subseteq Int
    BY <1>1, PositionOf DEF Point, Chunks
  <1>3. \A j \in 1..Len(fs) :
          /\ Start(fs, j) \in Int /\ Stop(fs, j) \in Int /\ Point(r) + 1 < Start(fs, j)
          /\ Start(fs, j) <= Stop(fs, j) /\ Stop(fs, j) <= top
    BY SMTT(30), <1>1, Ends DEF InOrder
  <1>4. k = 0 \/ (k = 1 /\ 1 \in 1..Len(fs))
    BY <1>1
  <1>5. n <= Position(t) /\ Position(t) <= top
    BY <1>2, <1>3, <1>4
  <1>6. k # 0 => Stop(fs, k) <= Position(t)
    BY <1>2, <1>3, <1>4
  <1>7. /\ new \in Seq(Fragment) /\ InOrder(Position(t), new, top)
        /\ HeldIn(new) = {m \in HeldIn(fs) : m > Position(t)}
    <2>1. k \in 0..Len(fs) /\ (k < Len(fs) => Position(t) + 1 < Start(fs, k + 1))
      OBVIOUS
    <2> HIDE DEF fs
    <2> DEFINE point == Point(r)
               far == Position(t)
    <2>2. point \in Int /\ far \in Int /\ InOrder(point, fs, top)
      BY <1>1, <1>2
    <2>3. (k # 0 => Stop(fs, k) <= far) /\ (k < Len(fs) => far + 1 < Start(fs, k + 1))
      BY <1>6, <2>1
    <2> HIDE DEF point, far
    <2>4. /\ SubSeq(fs, k + 1, Len(fs)) \in Seq(Fragment)
          /\ InOrder(far, SubSeq(fs, k + 1, Len(fs)), top)
          /\ HeldIn(SubSeq(fs, k + 1, Len(fs))) = {m \in HeldIn(fs) : m > far}
      BY <1>1, <2>1, <2>2, <2>3, Dropped
    <2> QED  BY <2>4 DEF far
  <1>8. ASSUME NEW m \in Chunks, m <= Position(t)
        PROVE  m <= Point(r) \/ m \in HeldIn(fs) \/ m = n
    <2>1. CASE k = 0
      BY <1>2, <1>8, <2>1
    <2>2. CASE k = 1
      <3>1. m > n => Start(fs, 1) <= m /\ m <= Stop(fs, 1)
        BY <1>2, <1>8, <2>2
      <3>2. m > n => m \in HeldIn(fs)
        BY <1>4, <2>2, <3>1 DEF HeldIn
      <3> QED  BY <1>2, <3>2
    <2> QED  BY <1>4, <2>1, <2>2
  <1>9. ASSUME NEW m \in Chunks, m <= Point(r) \/ m = n
        PROVE  m <= Position(t)
    BY <1>2, <1>5, <1>9
  <1>10. Point(r) <= Position(t)
    BY <1>2, <1>5
  <1> HIDE DEF new
  <1>11. ASSUME NEW m \in Chunks
         PROVE  m <= Position(t) \/ m \in HeldIn(new) <=> m <= Point(r) \/ m \in HeldIn(fs) \/ m = n
    <2>1. m \in HeldIn(new) <=> m \in HeldIn(fs) /\ m > Position(t)
      BY <1>7
    <2> QED  BY <1>2, <1>8, <1>9, <2>1
  <1> QED  BY <1>5, <1>7, <1>10, <1>11 DEF Entered, new

\* A list without nothing, or without its first element.
LEMMA Rests ==
  ASSUME NEW fs \in Seq(Fragment)
  PROVE  SubSeq(fs, 1, Len(fs)) = fs /\ RemoveAt(fs, 1) = SubSeq(fs, 2, Len(fs))
  <1>1. Len(fs) \in Nat /\ \A j \in 1..Len(fs) : fs[j] \in Fragment
    BY LenProperties, ElementOfSeq
  <1>2. SubSeq(fs, 1, Len(fs)) = fs
    <2> DEFINE s == SubSeq(fs, 1, Len(fs))
    <2>1. /\ s \in Seq(Fragment) /\ Len(s) = IF 1 <= Len(fs) THEN Len(fs) - 1 + 1 ELSE 0
          /\ \A j \in 1..(Len(fs) - 1 + 1) : s[j] = fs[1 + j - 1]
      BY <1>1, SubSeqProperties
    <2> HIDE DEF s
    <2>2. Len(s) = Len(fs) /\ \A j \in 1..Len(s) : s[j] = fs[j]
      <3>1. Len(s) = Len(fs)
        BY <1>1, <2>1
      <3>2. \A j \in 1..Len(s) : j \in 1..(Len(fs) - 1 + 1) /\ 1 + j - 1 = j
        BY <1>1, <3>1
      <3> QED  BY <2>1, <3>1, <3>2
    <2>3. s = fs
      BY <2>1, <2>2, SeqEqual
    <2> QED  BY <2>3 DEF s
  <1>3. RemoveAt(fs, 1) = SubSeq(fs, 2, Len(fs))
    <2>1. SubSeq(fs, 2, Len(fs)) \in Seq(Fragment)
      BY <1>1, SubSeqProperties
    <2>2. SubSeq(fs, 1, 1 - 1) = << >>
      BY SubSeqEmpty
    <2>3. RemoveAt(fs, 1) = SubSeq(fs, 1, 1 - 1) \o SubSeq(fs, 1 + 1, Len(fs))
      BY DEF RemoveAt
    <2>4. << >> \o SubSeq(fs, 2, Len(fs)) = SubSeq(fs, 2, Len(fs))
      BY <2>1, ConcatEmptySeq
    <2> QED  BY <2>2, <2>3, <2>4
  <1> QED  BY <1>2, <1>3

\* A change of one field, or within the list, as a change of the point and the list.
LEMMA BothFields ==
  ASSUME NEW r \in Buffer
  PROVE  /\ \A t : [r EXCEPT !.ctsna = t] = [r EXCEPT !.ctsna = t, !.frag_list = r.frag_list]
         /\ \A fs : [r EXCEPT !.frag_list = fs] = [r EXCEPT !.ctsna = r.ctsna, !.frag_list = fs]
  BY DEF Buffer

\* A list of which one fragment's start or stop is moved.
StartMoved(fs, i, tsn) == [fs EXCEPT ![i].start_tsn = tsn]
StopMoved(fs, i, tsn) == [fs EXCEPT ![i].stop_tsn = tsn]

\* A fragment of which one end is moved takes its place.
LEMMA MovedEnds ==
  ASSUME NEW fs \in Seq(Fragment), NEW i \in 1..Len(fs), NEW tsn \in TSN
  PROVE  /\ IsSpliced(fs, i - 1, i + 1, [start_tsn |-> tsn, stop_tsn |-> fs[i].stop_tsn],
                      StartMoved(fs, i, tsn))
         /\ IsSpliced(fs, i - 1, i + 1, [start_tsn |-> fs[i].start_tsn, stop_tsn |-> tsn],
                      StopMoved(fs, i, tsn))
  <1> DEFINE f == [start_tsn |-> tsn, stop_tsn |-> fs[i].stop_tsn]
             g == [start_tsn |-> fs[i].start_tsn, stop_tsn |-> tsn]
  <1>1. fs[i] \in Fragment /\ f \in Fragment /\ g \in Fragment
    BY FragmentEnds DEF Fragment
  <1>2. [fs[i] EXCEPT !.start_tsn = tsn] = f /\ [fs[i] EXCEPT !.stop_tsn = tsn] = g
    BY <1>1 DEF Fragment
  <1>3. /\ StartMoved(fs, i, tsn) = [fs EXCEPT ![i] = [fs[i] EXCEPT !.start_tsn = tsn]]
        /\ StopMoved(fs, i, tsn) = [fs EXCEPT ![i] = [fs[i] EXCEPT !.stop_tsn = tsn]]
    BY DEF StartMoved, StopMoved
  <1> HIDE DEF f, g
  <1>4. /\ IsSpliced(fs, i - 1, i + 1, f, [fs EXCEPT ![i] = f])
        /\ IsSpliced(fs, i - 1, i + 1, g, [fs EXCEPT ![i] = g])
    BY <1>1, Edits
  <1>5. /\ IsSpliced(fs, i - 1, i + 1, f, StartMoved(fs, i, tsn))
        /\ IsSpliced(fs, i - 1, i + 1, g, StopMoved(fs, i, tsn))
    BY <1>2, <1>3, <1>4
  <1> QED  BY <1>5 DEF f, g

\* A chunk that has not come lies in a gap between fragments or behind all of them.
LEMMA InAGap ==
  ASSUME base \in TSN, NEW top \in Int, NEW r, Sound(r, top),
         NEW n \in Chunks, Point(r) < n, n \notin HeldIn(r.frag_list),
         \A i \in 1..Len(r.frag_list) :
           ~ (Edge(Point(r), r.frag_list, i - 1) < n /\ n < Start(r.frag_list, i))
  PROVE  Edge(Point(r), r.frag_list, Len(r.frag_list)) < n
  <1> DEFINE fs == r.frag_list
             len == Len(fs)
  <1>1. /\ fs \in Seq(Fragment) /\ len \in Nat /\ n \in Int
        /\ \A j \in 1..len : Start(fs, j) \in Int /\ Stop(fs, j) \in Int
    BY GapTypes, Ends DEF Sound, Chunks
  <1>2. \A i \in 1..len : ~ (Start(fs, i) <= n /\ n <= Stop(fs, i))
    BY DEF HeldIn
  <1> HIDE DEF fs, len
  <1> DEFINE J == {j \in 1..len : n <= Stop(fs, j)}
  <1>3. ASSUME J # {} PROVE FALSE
    <2>1. J \in SUBSET Nat
      BY <1>1
    <2>2. \E x \in J : \A y \in J : ~ (<<y, x>> \in OpToRel(<, Nat))
      <3> HIDE DEF J
      <3> QED  BY <1>3, <2>1, NatLessThanWellFounded, WFMin
    <2>3. PICK j \in J : \A y \in J : ~ (<<y, j>> \in OpToRel(<, Nat))
      BY <2>2
    <2>4. j \in 1..len /\ n <= Stop(fs, j) /\ n < Start(fs, j)
      <3>1. j \in 1..len /\ n <= Stop(fs, j)
        BY <2>3
      <3>2. ~ (Start(fs, j) <= n) /\ Start(fs, j) \in Int
        BY <1>1, <1>2, <3>1
      <3> QED  BY <1>1, <3>1, <3>2
    <2>5. Edge(Point(r), fs, j - 1) < n
      <3>1. CASE j = 1
        BY <3>1 DEF Edge
      <3>2. CASE j # 1
        <4>1. j - 1 \in 1..len /\ j - 1 # 0 /\ j - 1 < j
          BY <1>1, <2>4, <3>2
        <4>2. j - 1 \notin J
          <5> HIDE DEF J
          <5>1. j \in Nat /\ j - 1 \in Nat
            BY <1>1, <2>4, <4>1
          <5> QED  BY <2>3, <4>1, <5>1 DEF OpToRel
        <4>3. Stop(fs, j - 1) < n
          BY <1>1, <4>1, <4>2
        <4> QED  BY <4>1, <4>3 DEF Edge
      <3> QED  BY <3>1, <3>2
    <2> QED  BY <2>4, <2>5 DEF fs, len
  <1>4. CASE len = 0
    BY <1>4 DEF Edge, fs, len
  <1>5. CASE len # 0
    <2>1. len \in 1..len
      BY <1>1, <1>5
    <2>2. Stop(fs, len) < n
      BY <1>1, <1>3, <2>1
    <2> QED  BY <1>5, <2>2 DEF Edge, fs, len
  <1> QED  BY <1>4, <1>5

\* A chunk that has not come is entered (rxc_update_fragments): the point and the fragments
\* stand for what they stood for before, and the chunk.
LEMMA UpdateView ==
  ASSUME base \in TSN, NEW top \in Int, NEW r, Sound(r, top),
         NEW n \in Chunks, Point(r) < n, n <= top, n \notin HeldIn(r.frag_list)
  PROVE  \E t \in TSN, fs \in Seq(Fragment) :
           /\ Entered(r, n, top, t, fs)
           /\ UpdateFragments(r, Numbered(n)) = WithList(r, t, fs)
  <1> DEFINE tsn == Numbered(n)
             frags == r.frag_list
             len == Len(frags)
             point == Point(r)
             edge(j) == Edge(Point(r), frags, j - 1)
             start(j) == Start(frags, j)
             stop(j) == Stop(frags, j)
             new == [start_tsn |-> tsn, stop_tsn |-> tsn]
             hits == {j \in DOMAIN frags : Between(GapStart(r, j), tsn, GapStop(r, j))}
             i == Min(hits)
             gapsize == Plus(Minus(GapStop(r, i), GapStart(r, i)), 1)
             wide == gapsize > 1
             next == Plus(r.ctsna, 1)
             result == UpdateFragments(r, tsn)
  <1>1. /\ r \in Buffer /\ r.ctsna \in TSN /\ frags \in Seq(Fragment) /\ len \in Nat
        /\ DOMAIN frags = 1..len /\ point \in Int /\ Modulus \in Nat /\ n \in Int
        /\ InOrder(Point(r), frags, top) /\ top + 1 < Modulus /\ point < n /\ n <= top
        /\ point <= top /\ n \in 0..(Modulus - 1)
    <2>1. r \in Buffer /\ InOrder(Point(r), frags, top) /\ top + 1 < Modulus /\ Point(r) <= top
      BY DEF Sound
    <2>2. r.ctsna \in TSN /\ frags \in Seq(Fragment) /\ len \in Nat /\ DOMAIN frags = 1..len
      BY <2>1, GapTypes
    <2>3. point \in Int /\ Modulus \in Nat /\ n \in Int /\ n >= 1
      BY <2>2, PositionOf, ModulusAssumption DEF Point, Chunks
    <2> QED  BY <2>1, <2>2, <2>3
  <1>2. tsn \in TSN /\ Position(tsn) = n
    BY <1>1, Neighbours
  <1>3. /\ \A j \in 1..len :
             /\ frags[j] \in Fragment /\ frags[j].start_tsn \in TSN /\ frags[j].stop_tsn \in TSN
             /\ start(j) \in Int /\ stop(j) \in Int
             /\ point + 1 < start(j) /\ start(j) <= stop(j) /\ stop(j) <= top
        /\ \A j, k \in 1..len : j < k => stop(j) + 1 < start(k)
    BY SMTT(30), <1>1, Ends DEF InOrder
  <1>4. /\ \A j \in 1..(len + 1) : /\ edge(j) \in Int /\ edge(j) >= 0 /\ GapStart(r, j) \in TSN
                                   /\ Position(GapStart(r, j)) = edge(j) + 1
        /\ \A j \in 1..len : /\ GapStop(r, j) \in TSN /\ Position(GapStop(r, j)) = start(j) - 1
                             /\ edge(j) + 1 < start(j)
    BY <1>1, Gaps
  <1>5. /\ \A j \in 1..(len + 1) : tsn = GapStart(r, j) <=> n = edge(j) + 1
        /\ \A j \in 1..len : tsn = GapStop(r, j) <=> n = start(j) - 1
    BY <1>2, <1>4, Differences
  <1>6. next \in TSN /\ Position(next) = point + 1 /\ (tsn = next <=> n = point + 1)
    <2>1. next \in TSN /\ Position(next) = point + 1
      BY <1>1, Neighbours DEF Point
    <2> QED  BY <1>2, <2>1, Differences
  <1>7. edge(1) = point /\ \A j \in 1..(len + 1) : j # 1 => edge(j) = stop(j - 1) /\ j - 1 \in 1..len
    BY <1>1 DEF Edge
  <1>8. ASSUME NEW j \in 1..len
        PROVE  j \in hits <=> edge(j) < n /\ n < start(j)
    <2>1. Between(GapStart(r, j), tsn, GapStop(r, j)) <=> edge(j) + 1 <= n /\ n <= start(j) - 1
      <3>1. /\ GapStart(r, j) \in TSN /\ GapStop(r, j) \in TSN
            /\ Position(GapStart(r, j)) = edge(j) + 1 /\ Position(GapStop(r, j)) = start(j) - 1
            /\ edge(j) + 1 <= start(j) - 1
        <4> HIDE DEF edge, start
        <4> QED  BY <1>1, <1>3, <1>4
      <3> QED  BY <1>2, <3>1, Betweens
    <2> HIDE DEF edge, start
    <2> QED  BY SMTT(30), <1>1, <1>3, <1>4, <2>1
  <1>9. hits \subseteq 1..len
    BY <1>1
  <1>10. \A t, fs : Entered(r, n, top, t, fs) => t \in TSN /\ fs \in Seq(Fragment)
    BY DEF Entered
  <1>11. /\ SubSeq(frags, 0 + 1, len) = frags
         /\ RemoveAt(frags, 1) = SubSeq(frags, 1 + 1, len)
    BY <1>1, Rests
  <1>12. ASSUME hits = {}
         PROVE  \E t, fs : Entered(r, n, top, t, fs) /\ result = WithList(r, t, fs)
    <2>1. Edge(Point(r), frags, len) < n
      <3>1. \A j \in 1..len : ~ (edge(j) < n /\ n < start(j))
        <4> HIDE DEF edge, start, hits
        <4> QED  BY <1>8, <1>12
      <3> QED  BY <1>1, <3>1, InAGap
    <2>2. /\ len + 1 \in 1..(len + 1) /\ (len + 1) - 1 = len
          /\ tsn = GapStart(r, len + 1) <=> n = Edge(Point(r), frags, len) + 1
          /\ len = 0 => Edge(Point(r), frags, len) = point
          /\ len # 0 => /\ len \in 1..len /\ len - 1 \in 0..len
                        /\ Edge(Point(r), frags, len) = Stop(frags, len)
      <3>1. len + 1 \in 1..(len + 1) /\ (len + 1) - 1 = len
        BY <1>1
      <3>2. tsn = GapStart(r, len + 1) <=> n = edge(len + 1) + 1
        BY <1>5, <3>1
      <3>3. len # 0 => len \in 1..len /\ len - 1 \in 0..len
        BY <1>1
      <3> QED  BY <3>1, <3>2, <3>3 DEF Edge
    <2>3. result = IF tsn = next /\ tsn = GapStart(r, len + 1) THEN [r EXCEPT !.ctsna = tsn]
                   ELSE IF tsn = GapStart(r, len + 1) THEN [r EXCEPT !.frag_list[len].stop_tsn = tsn]
                   ELSE [r EXCEPT !.frag_list = Append(@, new)]
      BY <1>12 DEF UpdateFragments
    <2>4. CASE tsn = next /\ tsn = GapStart(r, len + 1)
      <3>1. n = point + 1 /\ len = 0
        <4>1. n = point + 1 /\ n = Edge(Point(r), frags, len) + 1
          BY <1>6, <2>2, <2>4
        <4>2. ASSUME len # 0 PROVE FALSE
          <5>1. point + 1 < start(len) /\ start(len) <= stop(len)
            BY <1>3, <2>2, <4>2
          <5>2. start(len) \in Int /\ stop(len) \in Int /\ stop(len) = point
            BY SMTT(30), <1>1, <1>3, <2>2, <4>1, <4>2
          <5> HIDE DEF point, start, stop
          <5> QED  BY <1>1, <5>1, <5>2
        <4> QED  BY <4>1, <4>2
      <3>2. Entered(r, n, top, tsn, SubSeq(frags, 0 + 1, len))
        <4>1. 0 \in 0..len /\ 0 <= 1 /\ ~ (0 < len) /\ 0 # 1 /\ Point(r) + 1 = n
          BY <1>1, <3>1
        <4> HIDE DEF tsn
        <4> QED  BY <1>1, <1>2, <4>1, MovedOver
      <3>3. result = [r EXCEPT !.ctsna = tsn, !.frag_list = frags]
        <4>1. result = [r EXCEPT !.ctsna = tsn]
          BY <2>3, <2>4
        <4> HIDE DEF result, tsn
        <4> QED  BY <1>1, <4>1, BothFields
      <3> HIDE DEF result, tsn, frags
      <3> QED  BY <1>11, <3>2, <3>3 DEF WithList
    <2>5. CASE tsn # next /\ tsn = GapStart(r, len + 1)
      <3>1. len # 0 /\ n = Stop(frags, len) + 1
        BY <1>6, <2>2, <2>5
      <3> DEFINE f == [start_tsn |-> frags[len].start_tsn, stop_tsn |-> tsn]
                 longer == StopMoved(frags, len, tsn)
      <3>2. IsSpliced(frags, len - 1, len + 1, f, longer)
        <4>1. len \in 1..len
          BY <2>2, <3>1
        <4> HIDE DEF tsn
        <4> QED  BY <1>1, <1>2, <4>1, MovedEnds
      <3>3. /\ len - 1 \in 0..len /\ len + 1 \in ((len - 1) + 1)..(len + 1)
            /\ frags[len].start_tsn \in TSN
            /\ Edge(Point(r), frags, len - 1) + 1 < Position(frags[len].start_tsn)
            /\ Position(frags[len].start_tsn) <= n /\ n <= Position(tsn) /\ Position(tsn) <= top
            /\ ~ (len + 1 <= len)
            /\ \A j \in ((len - 1) + 1)..((len + 1) - 1) : j = len
        <4>1. /\ edge(len) + 1 < start(len) /\ frags[len].start_tsn \in TSN
              /\ start(len) <= stop(len) /\ start(len) \in Int /\ stop(len) \in Int
          BY <1>3, <1>4, <2>2, <3>1
        <4>2. start(len) <= n
          BY <1>1, <3>1, <4>1
        <4>3. len - 1 \in 0..len /\ len + 1 \in ((len - 1) + 1)..(len + 1) /\ ~ (len + 1 <= len)
              /\ \A j \in ((len - 1) + 1)..((len + 1) - 1) : j = len
          BY <1>1, <2>2, <3>1
        <4> HIDE DEF tsn
        <4> QED  BY <1>1, <1>2, <4>1, <4>2, <4>3 DEF Start
      <3>4. ASSUME NEW m \in Chunks, Position(frags[len].start_tsn) <= m, m <= Position(tsn), m # n
            PROVE  \E j \in ((len - 1) + 1)..((len + 1) - 1) : Start(frags, j) <= m /\ m <= Stop(frags, j)
        <4>1. len \in ((len - 1) + 1)..((len + 1) - 1) /\ m \in Int /\ Stop(frags, len) \in Int
          BY SMTT(30), <1>1, <1>3, <2>2, <3>1 DEF Chunks
        <4>2. Start(frags, len) <= m /\ m <= Stop(frags, len)
          BY <1>1, <1>2, <3>1, <3>4, <4>1 DEF Start
        <4> QED  BY <4>1, <4>2
      <3>5. \A j \in ((len - 1) + 1)..((len + 1) - 1) :
              Position(frags[len].start_tsn) <= Start(frags, j) /\ Stop(frags, j) <= Position(tsn)
        <4>1. /\ Position(frags[len].start_tsn) <= Start(frags, len)
              /\ Stop(frags, len) <= Position(tsn)
          <5>1. start(len) \in Int /\ stop(len) \in Int /\ len \in 1..len
            BY <1>3, <2>2, <3>1
          <5>2. Position(frags[len].start_tsn) = start(len) /\ Position(tsn) = stop(len) + 1
            BY <1>2, <3>1 DEF Start
          <5> HIDE DEF tsn
          <5> QED  BY <5>1, <5>2
        <4> QED  BY <3>3, <4>1
      <3>6. Entered(r, n, top, r.ctsna, longer)
        <4> HIDE DEF tsn, longer
        <4> DEFINE p == len - 1
                   q == len + 1
                   a == frags[len].start_tsn
        <4>1. /\ p \in 0..len /\ q \in (p + 1)..(len + 1) /\ a \in TSN
              /\ Edge(Point(r), frags, p) + 1 < Position(a)
              /\ Position(a) <= n /\ n <= Position(tsn) /\ Position(tsn) <= top
              /\ (q <= len => Position(tsn) + 1 < Start(frags, q))
              /\ IsSpliced(frags, p, q, [start_tsn |-> a, stop_tsn |-> tsn], longer)
          BY <3>2, <3>3
        <4>2. /\ \A j \in (p + 1)..(q - 1) :
                   Position(a) <= Start(frags, j) /\ Stop(frags, j) <= Position(tsn)
              /\ \A m \in Chunks : Position(a) <= m /\ m <= Position(tsn) /\ m # n
                   => \E j \in (p + 1)..(q - 1) : Start(frags, j) <= m /\ m <= Stop(frags, j)
          BY <3>4, <3>5
        <4> HIDE DEF p, q, a
        <4> QED  BY <1>2, <4>1, <4>2, TakenUp
      <3>7. result = [r EXCEPT !.ctsna = r.ctsna, !.frag_list = longer]
        <4>1. result = [r EXCEPT !.frag_list[len].stop_tsn = tsn]
          BY <2>3, <2>5
        <4>2. [frags EXCEPT ![len].stop_tsn = tsn] = longer
          BY DEF StopMoved
        <4>3. [r EXCEPT !.frag_list[len].stop_tsn = tsn]
                = [r EXCEPT !.frag_list = [frags EXCEPT ![len].stop_tsn = tsn]]
          OBVIOUS
        <4>4. result = [r EXCEPT !.frag_list = longer]
          BY <4>1, <4>2, <4>3
        <4> HIDE DEF result, longer
        <4> QED  BY <1>1, <4>4, BothFields
      <3> HIDE DEF result, longer
      <3> QED  BY <3>6, <3>7 DEF WithList
    <2>6. CASE tsn # GapStart(r, len + 1)
      <3> DEFINE more == Append(frags, new)
      <3>1. IsSpliced(frags, len, len + 1, new, more)
        <4>1. new \in Fragment
          BY <1>2 DEF Fragment
        <4> HIDE DEF new
        <4> QED  BY <1>1, <4>1, Edits
      <3>2. /\ len \in 0..len /\ len + 1 \in (len + 1)..(len + 1) /\ ~ (len + 1 <= len)
            /\ (len + 1)..((len + 1) - 1) = {}
        BY <1>1
      <3>3. Edge(Point(r), frags, len) + 1 < Position(tsn)
        <4>1. Edge(Point(r), frags, len) \in Int
          BY <1>4, <2>2
        <4>2. n # Edge(Point(r), frags, len) + 1
          BY <2>2, <2>6
        <4> QED  BY <1>1, <1>2, <2>1, <4>1, <4>2
      <3>4. \A m \in Chunks : ~ (Position(tsn) <= m /\ m <= Position(tsn) /\ m # n)
        BY <1>1, <1>2 DEF Chunks
      <3>5. Entered(r, n, top, r.ctsna, more)
        <4> HIDE DEF tsn, more
        <4> DEFINE p == len
                   q == len + 1
        <4>1. /\ p \in 0..len /\ q \in (p + 1)..(len + 1)
              /\ Edge(Point(r), frags, p) + 1 < Position(tsn)
              /\ Position(tsn) <= n /\ n <= Position(tsn) /\ Position(tsn) <= top
              /\ (q <= len => Position(tsn) + 1 < Start(frags, q))
              /\ IsSpliced(frags, p, q, [start_tsn |-> tsn, stop_tsn |-> tsn], more)
          BY <1>1, <1>2, <3>1, <3>2, <3>3
        <4>2. /\ \A j \in (p + 1)..(q - 1) :
                   Position(tsn) <= Start(frags, j) /\ Stop(frags, j) <= Position(tsn)
              /\ \A m \in Chunks : Position(tsn) <= m /\ m <= Position(tsn) /\ m # n
                   => \E j \in (p + 1)..(q - 1) : Start(frags, j) <= m /\ m <= Stop(frags, j)
          BY <3>2, <3>4
        <4> HIDE DEF p, q
        <4> QED  BY <1>2, <4>1, <4>2, TakenUp
      <3>6. result = [r EXCEPT !.ctsna = r.ctsna, !.frag_list = more]
        <4>1. result = [r EXCEPT !.frag_list = more]
          BY <2>3, <2>6
        <4> HIDE DEF result, more
        <4> QED  BY <1>1, <4>1, BothFields
      <3> HIDE DEF result, more
      <3> QED  BY <3>5, <3>6 DEF WithList
    <2> QED  BY <2>4, <2>5, <2>6
  <1>13. ASSUME hits # {}
         PROVE  \E t, fs : Entered(r, n, top, t, fs) /\ result = WithList(r, t, fs)
    <2>1. i \in hits /\ i \in 1..len
      <3>1. hits \in SUBSET Nat
        BY <1>1, <1>9
      <3> HIDE DEF hits
      <3> QED  BY <1>9, <1>13, <3>1, MinIsElement
    <2> HIDE DEF i
    <2>2. /\ edge(i) < n /\ n < start(i) /\ edge(i) \in Int /\ start(i) \in Int /\ stop(i) \in Int
          /\ i \in Int /\ 1 <= i /\ i <= len /\ i \in 1..(len + 1)
          /\ start(i) <= stop(i) /\ stop(i) <= top
      <3> HIDE DEF hits, edge, start, stop
      <3> QED  BY <1>1, <1>3, <1>4, <1>8, <2>1
    <2>3. /\ wide <=> start(i) > edge(i) + 2
          /\ tsn = GapStart(r, i) <=> n = edge(i) + 1
          /\ tsn = GapStop(r, i) <=> n = start(i) - 1
      <3> DEFINE s == GapStart(r, i)
                 e == GapStop(r, i)
      <3>1. /\ s \in TSN /\ e \in TSN /\ Position(s) = edge(i) + 1 /\ Position(e) = start(i) - 1
            /\ edge(i) >= 0
        BY <1>4, <2>1, <2>2
      <3> HIDE DEF edge, start, stop, s, e
      <3>2. Minus(e, s) = start(i) - edge(i) - 2
        <4>1. Minus(e, s) = IF Position(e) >= Position(s) THEN Position(e) - Position(s)
                            ELSE Position(e) - Position(s) + Modulus
          BY <3>1, Differences
        <4>2. start(i) - 1 >= edge(i) + 1
          BY <1>1, <2>2
        <4>3. Minus(e, s) = (start(i) - 1) - (edge(i) + 1)
          BY <3>1, <4>1, <4>2
        <4> QED  BY <2>2, <4>3
      <3>3. gapsize = start(i) - edge(i) - 1
        <4> DEFINE x == start(i) - edge(i) - 1
        <4>1. x \in Int /\ 0 <= x /\ x < Modulus /\ (start(i) - edge(i) - 2) + 1 = x
          BY SMTT(30), <1>1, <2>2, <3>1
        <4> HIDE DEF x
        <4>2. gapsize = x % Modulus
          BY <3>2, <4>1 DEF Plus, s, e
        <4>3. x % Modulus = x
          BY <4>1, ModIsLinear
        <4> QED  BY <4>2, <4>3 DEF x
      <3> HIDE DEF gapsize
      <3> QED  BY SMTT(30), <1>5, <2>1, <2>2, <3>3 DEF edge, start
    <2>4. /\ i = 1 => edge(i) = point
          /\ i # 1 => /\ edge(i) = stop(i - 1) /\ i - 1 \in 1..len /\ i - 1 # 0
                      /\ start(i - 1) \in Int /\ stop(i - 1) \in Int
                      /\ start(i - 1) <= stop(i - 1) /\ point < stop(i - 1)
                      /\ edge(i - 1) + 1 < start(i - 1)
      <3>1. i # 1 => edge(i) = stop(i - 1) /\ i - 1 \in 1..len /\ i - 1 # 0
        BY <1>7, <2>2
      <3>2. i = 1 => edge(i) = point
        BY <1>7
      <3> HIDE DEF edge, start, stop, point
      <3>3. i # 1 => /\ start(i - 1) \in Int /\ stop(i - 1) \in Int
                     /\ start(i - 1) <= stop(i - 1) /\ point + 1 < start(i - 1)
                     /\ edge(i - 1) + 1 < start(i - 1)
        BY <1>3, <1>4, <3>1
      <3> QED  BY <1>1, <3>1, <3>2, <3>3
    <2>5. result =
             IF wide /\ tsn = GapStop(r, i)
             THEN [r EXCEPT !.frag_list[i].start_tsn = tsn]
             ELSE IF wide /\ tsn = GapStart(r, i)
             THEN IF tsn = next THEN [r EXCEPT !.ctsna = tsn]
                                ELSE [r EXCEPT !.frag_list[i - 1].stop_tsn = tsn]
             ELSE IF wide
             THEN [r EXCEPT !.frag_list = InsertAt(@, SortedPlace(r, tsn), new)]
             ELSE IF GapStart(r, i) = next
             THEN [r EXCEPT !.ctsna = frags[i].stop_tsn, !.frag_list = RemoveAt(@, i)]
             ELSE [r EXCEPT !.frag_list =
                     RemoveAt(ReplaceAt(@, i, [frags[i] EXCEPT !.start_tsn = frags[i - 1].start_tsn]),
                              i - 1)]
      BY <1>13 DEF UpdateFragments, i
    <2> HIDE DEF wide
    \* It continues the fragment behind it.
    <2>6. CASE wide /\ tsn = GapStop(r, i)
      <3> DEFINE moved == StartMoved(frags, i, tsn)
      <3>1. n = start(i) - 1 /\ start(i) > edge(i) + 2
        BY <2>3, <2>6
      <3>2. result = [r EXCEPT !.ctsna = r.ctsna, !.frag_list = moved]
        <4>1. result = [r EXCEPT !.frag_list[i].start_tsn = tsn]
          BY <2>5, <2>6
        <4>2. result = [r EXCEPT !.frag_list = moved]
          BY <4>1 DEF StartMoved
        <4> HIDE DEF result, moved
        <4> QED  BY <1>1, <4>2, BothFields
      <3>3. Entered(r, n, top, r.ctsna, moved)
        <4> DEFINE p == i - 1
                   q == i + 1
                   z == frags[i].stop_tsn
        <4>1. IsSpliced(frags, p, q, [start_tsn |-> tsn, stop_tsn |-> z], moved)
          <5> HIDE DEF tsn
          <5> QED  BY <1>1, <1>2, <2>1, MovedEnds
        <4>2. z \in TSN /\ Position(z) = stop(i)
          BY <1>3, <2>1 DEF Stop
        <4>3. /\ p \in 0..len /\ q \in (p + 1)..(len + 1) /\ i \in (p + 1)..(q - 1)
              /\ \A j \in (p + 1)..(q - 1) : j = i
              /\ q <= len => q \in 1..len /\ i < q
          <5>1. i \in Int /\ len \in Int /\ 1 <= i /\ i <= len
            BY <1>1, <2>2
          <5> HIDE DEF len
          <5>2. p \in 0..len /\ q \in (p + 1)..(len + 1) /\ i \in (p + 1)..(q - 1)
            BY <5>1
          <5>3. \A j \in (p + 1)..(q - 1) : j = i
            BY <5>1
          <5>4. q <= len => q \in 1..len /\ i < q
            BY <5>1
          <5> QED  BY <5>2, <5>3, <5>4
        <4>4. q <= len => stop(i) + 1 < Start(frags, q)
          BY <1>3, <2>1, <4>3
        <4>5. Edge(Point(r), frags, p) = edge(i) /\ Start(frags, i) = start(i) /\ Stop(frags, i) = stop(i)
          OBVIOUS
        <4> HIDE DEF p, q, z, tsn, moved, start, stop, edge
        <4>6. /\ Edge(Point(r), frags, p) + 1 < Position(tsn)
              /\ Position(tsn) <= n /\ n <= Position(z) /\ Position(z) <= top
              /\ (q <= len => Position(z) + 1 < Start(frags, q))
          BY <1>1, <1>2, <2>2, <3>1, <4>2, <4>4, <4>5
        <4>7. Position(tsn) <= Start(frags, i) /\ Stop(frags, i) <= Position(z)
          BY <1>2, <2>2, <3>1, <4>2, <4>5
        <4>8. \A j \in (p + 1)..(q - 1) :
                Position(tsn) <= Start(frags, j) /\ Stop(frags, j) <= Position(z)
          BY <4>3, <4>7
        <4>9. ASSUME NEW m \in Chunks, Position(tsn) <= m, m <= Position(z), m # n
              PROVE  \E j \in (p + 1)..(q - 1) : Start(frags, j) <= m /\ m <= Stop(frags, j)
          <5>1. m \in Int
            BY DEF Chunks
          <5>2. Start(frags, i) <= m /\ m <= Stop(frags, i)
            BY <1>1, <1>2, <2>2, <3>1, <4>2, <4>5, <4>9, <5>1
          <5> QED  BY <4>3, <5>2
        <4> QED  BY <1>2, <4>1, <4>2, <4>3, <4>6, <4>8, <4>9, TakenUp
      <3> HIDE DEF result, moved
      <3> QED  BY <3>2, <3>3 DEF WithList
    \* It continues the point.
    <2>7. CASE wide /\ tsn # GapStop(r, i) /\ tsn = GapStart(r, i) /\ tsn = next
      <3>1. /\ n = edge(i) + 1 /\ n = point + 1 /\ n # start(i) - 1
        BY <1>6, <2>3, <2>7
      <3>2. i = 1 /\ n + 1 < start(1)
        <4> HIDE DEF edge, start, stop, point
        <4>1. i = 1
          BY <1>1, <2>4, <3>1
        <4> QED  BY <1>1, <2>2, <3>1, <4>1
      <3>3. Entered(r, n, top, tsn, SubSeq(frags, 0 + 1, len))
        <4>1. /\ 0 \in 0..len /\ 0 <= 1 /\ 0 # 1 /\ Point(r) + 1 = n
              /\ (0 < len => Position(tsn) + 1 < Start(frags, 0 + 1))
          BY <1>1, <1>2, <3>1, <3>2
        <4> HIDE DEF tsn
        <4> DEFINE k == 0
        <4>2. /\ k \in 0..len /\ k <= 1 /\ k # 1 /\ Point(r) + 1 = n /\ k = 0
              /\ (k < len => Position(tsn) + 1 < Start(frags, k + 1))
          BY <4>1
        <4>3. k = 0
          OBVIOUS
        <4> HIDE DEF k
        <4>4. Entered(r, n, top, tsn, SubSeq(frags, k + 1, len))
          BY <1>1, <1>2, <4>2, MovedOver
        <4> QED  BY <4>3, <4>4
      <3>4. result = [r EXCEPT !.ctsna = tsn, !.frag_list = frags]
        <4>1. result = [r EXCEPT !.ctsna = tsn]
          BY <2>5, <2>7
        <4> HIDE DEF result, tsn
        <4> QED  BY <1>1, <4>1, BothFields
      <3> HIDE DEF result, tsn, frags
      <3> QED  BY <1>11, <3>3, <3>4 DEF WithList
    \* It continues the fragment before it.
    <2>8. CASE wide /\ tsn # GapStop(r, i) /\ tsn = GapStart(r, i) /\ tsn # next
      <3> DEFINE moved == StopMoved(frags, i - 1, tsn)
      <3>1. n = edge(i) + 1 /\ n # point + 1 /\ n # start(i) - 1
        BY <1>6, <2>3, <2>8
      <3>2. i # 1 /\ n = stop(i - 1) + 1 /\ n + 1 < start(i)
        <4> HIDE DEF edge, start, stop, point
        <4>1. i # 1
          BY <2>4, <3>1
        <4> QED  BY SMTT(30), <1>1, <2>2, <2>4, <3>1, <4>1
      <3>3. result = [r EXCEPT !.ctsna = r.ctsna, !.frag_list = moved]
        <4>1. result = [r EXCEPT !.frag_list[i - 1].stop_tsn = tsn]
          BY <2>5, <2>8
        <4>2. result = [r EXCEPT !.frag_list = moved]
          BY <4>1 DEF StopMoved
        <4> HIDE DEF result, moved
        <4> QED  BY <1>1, <4>2, BothFields
      <3>4. Entered(r, n, top, r.ctsna, moved)
        <4> DEFINE h == i - 1
                   p == h - 1
                   q == h + 1
                   a == frags[h].start_tsn
        <4>0. h \in 1..len
          BY <2>4, <3>2
        <4>1. IsSpliced(frags, p, q, [start_tsn |-> a, stop_tsn |-> tsn], moved)
          <5> HIDE DEF tsn
          <5> QED  BY <1>1, <1>2, <4>0, MovedEnds
        <4>2. a \in TSN /\ Position(a) = start(h)
          BY <1>3, <4>0 DEF Start
        <4>3. /\ p \in 0..len /\ q \in (p + 1)..(len + 1) /\ h \in (p + 1)..(q - 1)
              /\ \A j \in (p + 1)..(q - 1) : j = h
              /\ q = i
          BY <1>1, <2>2, <4>0
        <4>4. /\ Edge(Point(r), frags, p) = edge(h) /\ Start(frags, h) = start(h)
              /\ Stop(frags, h) = stop(h) /\ stop(h) = stop(i - 1) /\ start(h) = start(i - 1)
              /\ edge(h) = edge(i - 1) /\ Start(frags, i) = start(i)
          OBVIOUS
        <4> HIDE DEF h, p, q, a, tsn, moved, start, stop, edge
        <4>5. /\ edge(h) + 1 < start(h) /\ start(h) <= stop(h) /\ n = stop(h) + 1
              /\ start(h) \in Int /\ stop(h) \in Int
          BY <2>4, <3>2, <4>4
        <4>6. /\ Edge(Point(r), frags, p) + 1 < Position(a)
              /\ Position(a) <= n /\ n <= Position(tsn) /\ Position(tsn) <= top
              /\ (q <= len => Position(tsn) + 1 < Start(frags, q))
          BY SMTT(30), <1>1, <1>2, <3>2, <4>2, <4>3, <4>4, <4>5
        <4>7. Position(a) <= Start(frags, h) /\ Stop(frags, h) <= Position(tsn)
          BY <1>2, <4>2, <4>4, <4>5
        <4>8. \A j \in (p + 1)..(q - 1) :
                Position(a) <= Start(frags, j) /\ Stop(frags, j) <= Position(tsn)
          BY <4>3, <4>7
        <4>9. ASSUME NEW m \in Chunks, Position(a) <= m, m <= Position(tsn), m # n
              PROVE  \E j \in (p + 1)..(q - 1) : Start(frags, j) <= m /\ m <= Stop(frags, j)
          <5>1. m \in Int
            BY DEF Chunks
          <5>2. Start(frags, h) <= m /\ m <= Stop(frags, h)
            BY <1>1, <1>2, <4>2, <4>4, <4>5, <4>9, <5>1
          <5> QED  BY <4>3, <5>2
        <4> QED  BY <1>2, <4>1, <4>2, <4>3, <4>6, <4>8, <4>9, TakenUp
      <3> HIDE DEF result, moved
      <3> QED  BY <3>3, <3>4 DEF WithList
    \* It is a fragment of its own.
    <2>9. CASE wide /\ tsn # GapStop(r, i) /\ tsn # GapStart(r, i)
      <3> DEFINE more == InsertAt(frags, i, new)
      <3>1. edge(i) + 1 < n /\ n + 1 < start(i)
        <4>1. n # edge(i) + 1 /\ n # start(i) - 1
          BY <2>3, <2>9
        <4> HIDE DEF edge, start
        <4> QED  BY SMTT(30), <1>1, <2>2, <4>1
      <3>2. result = [r EXCEPT !.ctsna = r.ctsna, !.frag_list = more]
        <4>1. SortedPlace(r, tsn) = i
          <5>1. /\ Point(r) < Position(tsn) /\ Position(tsn) <= top
                /\ Edge(Point(r), r.frag_list, i - 1) < Position(tsn)
                /\ Position(tsn) < Start(r.frag_list, i) /\ i \in 1..Len(r.frag_list)
            BY <1>1, <1>2, <2>1, <2>2
          <5> HIDE DEF tsn
          <5> QED  BY <1>2, <5>1, PlaceOfGap
        <4>2. result = [r EXCEPT !.frag_list = InsertAt(@, SortedPlace(r, tsn), new)]
          BY <2>5, <2>9
        <4>3. result = [r EXCEPT !.frag_list = more]
          BY <4>1, <4>2
        <4> HIDE DEF result, more
        <4> QED  BY <1>1, <4>3, BothFields
      <3>3. Entered(r, n, top, r.ctsna, more)
        <4> DEFINE p == i - 1
                   q == i
        <4>1. IsSpliced(frags, p, q, [start_tsn |-> tsn, stop_tsn |-> tsn], more)
          <5>1. new \in Fragment
            BY <1>2 DEF Fragment
          <5> HIDE DEF new
          <5>2. IsSpliced(frags, p, q, new, more)
            BY <1>1, <2>2, <5>1, Edits
          <5> QED  BY <5>2 DEF new
        <4>2. /\ p \in 0..len /\ q \in (p + 1)..(len + 1) /\ (p + 1)..(q - 1) = {}
          BY SMTT(30), <1>1, <2>2
        <4>3. /\ Edge(Point(r), frags, p) = edge(i) /\ Start(frags, q) = start(i)
          OBVIOUS
        <4> HIDE DEF p, q, tsn, more, start, edge
        <4>4. /\ Edge(Point(r), frags, p) + 1 < Position(tsn)
              /\ Position(tsn) <= n /\ n <= Position(tsn) /\ Position(tsn) <= top
              /\ (q <= len => Position(tsn) + 1 < Start(frags, q))
          BY <1>1, <1>2, <3>1, <4>3
        <4>5. /\ \A j \in (p + 1)..(q - 1) :
                   Position(tsn) <= Start(frags, j) /\ Stop(frags, j) <= Position(tsn)
              /\ \A m \in Chunks : ~ (Position(tsn) <= m /\ m <= Position(tsn) /\ m # n)
          BY SMTT(30), <1>1, <1>2, <4>2 DEF Chunks
        <4> QED  BY <1>2, <4>1, <4>2, <4>4, <4>5, TakenUp
      <3> HIDE DEF result, more
      <3> QED  BY <3>2, <3>3 DEF WithList
    \* It joins the point and the first fragment.
    <2>10. CASE ~ wide /\ GapStart(r, i) = next
      <3> DEFINE z == frags[1].stop_tsn
      <3>1. edge(i) = point /\ start(i) <= edge(i) + 2
        <4>1. edge(i) + 1 = point + 1
          BY <1>4, <1>6, <2>2, <2>10
        <4>2. ~ (start(i) > edge(i) + 2)
          BY <2>3, <2>10
        <4> HIDE DEF edge, start, point
        <4> QED  BY <1>1, <2>2, <4>1, <4>2
      <3>2. i = 1 /\ n = point + 1 /\ start(1) = n + 1
        <4> HIDE DEF edge, start, stop, point
        <4>1. i = 1
          BY <1>1, <2>4, <3>1
        <4> QED  BY <1>1, <2>2, <3>1, <4>1
      <3>3. Entered(r, n, top, z, SubSeq(frags, 1 + 1, len))
        <4>1. z \in TSN /\ Position(z) = stop(1) /\ 1 \in 0..len
          BY <1>1, <1>3, <2>1, <3>2 DEF Stop
        <4>2. 1 < len => stop(1) + 1 < start(2)
          <5>1. 1 < len => 1 \in 1..len /\ 2 \in 1..len /\ 1 < 2
            BY <1>1
          <5> HIDE DEF start, stop
          <5> QED  BY <1>3, <5>1
        <4> DEFINE k == 1
        <4>3. /\ k \in 0..len /\ k <= 1 /\ k # 0 /\ Point(r) + 1 = n
              /\ Start(frags, 1) = n + 1 /\ Position(z) = Stop(frags, 1)
              /\ (k < len => Position(z) + 1 < Start(frags, k + 1))
          BY <3>2, <4>1, <4>2
        <4>4. k = 1
          OBVIOUS
        <4> HIDE DEF k, z
        <4>5. Entered(r, n, top, z, SubSeq(frags, k + 1, len))
          BY <1>1, <4>1, <4>3, MovedOver
        <4> QED  BY <4>4, <4>5
      <3>4. result = [r EXCEPT !.ctsna = z, !.frag_list = RemoveAt(frags, 1)]
        BY <2>5, <2>10, <3>2
      <3> HIDE DEF result, z, frags
      <3> QED  BY <1>11, <3>3, <3>4 DEF WithList
    \* It joins two fragments.
    <2>11. CASE ~ wide /\ GapStart(r, i) # next
      <3> DEFINE h == i - 1
                 a == frags[h].start_tsn
                 z == frags[i].stop_tsn
                 joined == RemoveAt(ReplaceAt(frags, i, [start_tsn |-> a, stop_tsn |-> z]), h)
      <3>1. i # 1
        <4>1. next = GapStart(r, 1)
          BY <1>1, GapTypes
        <4> QED  BY <2>11, <4>1
      <3>2. /\ h \in 1..len /\ i \in 2..len /\ h < i /\ h = i - 1
            /\ a \in TSN /\ z \in TSN /\ Position(a) = start(h) /\ Position(z) = stop(i)
        <4>1. h \in 1..len /\ i \in 2..len /\ h < i
          BY <2>2, <2>4, <3>1
        <4> QED  BY <1>3, <2>1, <4>1 DEF Start, Stop
      <3>3. result = [r EXCEPT !.ctsna = r.ctsna, !.frag_list = joined]
        <4>1. [frags[i] EXCEPT !.start_tsn = frags[i - 1].start_tsn] = [start_tsn |-> a, stop_tsn |-> z]
          <5>1. frags[i] \in Fragment
            BY <1>3, <2>1
          <5> QED  BY <5>1 DEF Fragment
        <4>2. result = [r EXCEPT !.frag_list =
                          RemoveAt(ReplaceAt(@, i, [frags[i] EXCEPT !.start_tsn = frags[i - 1].start_tsn]),
                                   i - 1)]
          BY <2>5, <2>11
        <4>3. result = [r EXCEPT !.frag_list = joined]
          BY <4>1, <4>2
        <4> HIDE DEF result, joined
        <4> QED  BY <1>1, <4>3, BothFields
      <3>4. n = stop(h) + 1 /\ start(i) = n + 1
        <4>1. ~ (start(i) > edge(i) + 2) /\ edge(i) = stop(h)
          BY <2>3, <2>4, <2>11, <3>1
        <4> HIDE DEF edge, start, stop
        <4> QED  BY SMTT(30), <1>1, <2>2, <4>1
      <3>5. Entered(r, n, top, r.ctsna, joined)
        <4> DEFINE p == i - 2
                   q == i + 1
        <4>1. IsSpliced(frags, p, q, [start_tsn |-> a, stop_tsn |-> z], joined)
          <5> DEFINE f == [start_tsn |-> a, stop_tsn |-> z]
          <5>1. f \in Fragment
            BY <3>2 DEF Fragment
          <5> HIDE DEF f
          <5>2. IsSpliced(frags, p, q, f, RemoveAt(ReplaceAt(frags, i, f), i - 1))
            BY <1>1, <3>2, <5>1, Edits
          <5> QED  BY <5>2 DEF f
        <4>2. /\ p \in 0..len /\ q \in (p + 1)..(len + 1)
              /\ h \in (p + 1)..(q - 1) /\ i \in (p + 1)..(q - 1)
              /\ \A j \in (p + 1)..(q - 1) : j = h \/ j = i
              /\ q <= len => q \in 1..len /\ i < q
              /\ p = h - 1
          BY SMTT(30), <1>1, <2>2, <3>2
        <4>3. q <= len => stop(i) + 1 < Start(frags, q)
          BY <1>3, <2>1, <4>2
        <4>4. /\ edge(h) = Edge(Point(r), frags, p)
          BY <4>2
        <4>5. /\ edge(h) + 1 < start(h) /\ start(h) <= stop(h) /\ start(h) \in Int /\ stop(h) \in Int
          BY <2>4, <3>1
        <4>6. /\ \A j : Start(frags, j) = start(j) /\ Stop(frags, j) = stop(j)
          OBVIOUS
        <4> HIDE DEF h, p, q, a, z, joined, start, stop, edge
        <4>7. /\ Edge(Point(r), frags, p) + 1 < Position(a)
              /\ Position(a) <= n /\ n <= Position(z) /\ Position(z) <= top
              /\ (q <= len => Position(z) + 1 < Start(frags, q))
          BY SMTT(30), <1>1, <2>2, <3>2, <3>4, <4>3, <4>4, <4>5
        <4>8. /\ Position(a) <= Start(frags, h) /\ Stop(frags, h) <= Position(z)
              /\ Position(a) <= Start(frags, i) /\ Stop(frags, i) <= Position(z)
          BY SMTT(30), <1>1, <2>2, <3>2, <3>4, <4>5, <4>6
        <4>9. \A j \in (p + 1)..(q - 1) :
                Position(a) <= Start(frags, j) /\ Stop(frags, j) <= Position(z)
          BY <4>2, <4>8
        <4>10. ASSUME NEW m \in Chunks, Position(a) <= m, m <= Position(z), m # n
               PROVE  \E j \in (p + 1)..(q - 1) : Start(frags, j) <= m /\ m <= Stop(frags, j)
          <5>1. m \in Int
            BY DEF Chunks
          <5>2. \/ Start(frags, h) <= m /\ m <= Stop(frags, h)
                \/ Start(frags, i) <= m /\ m <= Stop(frags, i)
            <6>1. CASE m < n
              BY <1>1, <3>2, <3>4, <4>5, <4>6, <4>10, <5>1, <6>1
            <6>2. CASE m > n
              BY <1>1, <2>2, <3>2, <3>4, <4>6, <4>10, <5>1, <6>2
            <6> QED  BY <1>1, <4>10, <5>1, <6>1, <6>2
          <5> QED  BY <4>2, <5>2
        <4> QED  BY <3>2, <4>1, <4>2, <4>7, <4>9, <4>10, TakenUp
      <3> HIDE DEF result, joined
      <3> QED  BY <3>3, <3>5 DEF WithList
    <2> QED  BY <2>6, <2>7, <2>8, <2>9, <2>10, <2>11
  <1> HIDE DEF result
  <1>14. \E t \in TSN, fs \in Seq(Fragment) :
           Entered(r, n, top, t, fs) /\ result = WithList(r, t, fs)
    BY <1>10, <1>12, <1>13
  <1> QED  BY <1>14 DEF result

\* The point of a buffer whose fragments are in order stays where it is (rxc_bubbleup_ctsna).
LEMMA NothingToBubble ==
  ASSUME base \in TSN, NEW top \in Int, NEW r, Sound(r, top)
  PROVE  BubbleUp(r) = r
  <1> DEFINE fs == r.frag_list
             chained == {k \in 0..Len(fs) : \A i \in 1..k : fs[i].start_tsn = GapStart(r, i)}
             k == Max(chained)
  <1>1. /\ r \in Buffer /\ fs \in Seq(Fragment) /\ Len(fs) \in Nat
        /\ InOrder(Point(r), fs, top) /\ Point(r) <= top /\ top + 1 < Modulus
    BY GapTypes DEF Sound
  <1>2. ASSUME NEW j \in chained PROVE j = 0
    <2>1. j \in 0..Len(fs) /\ \A i \in 1..j : fs[i].start_tsn = GapStart(r, i)
      OBVIOUS
    <2>2. ASSUME j # 0 PROVE FALSE
      <3>1. 1 \in 1..j /\ 1 \in 1..Len(fs) /\ 1 \in 1..(Len(fs) + 1) /\ 1 - 1 = 0
        BY <1>1, <2>1, <2>2
      <3>2. Position(GapStart(r, 1)) = Edge(Point(r), fs, 0) + 1
        BY <1>1, <3>1, Gaps
      <3>3. Edge(Point(r), fs, 0) + 1 < Start(fs, 1) /\ Edge(Point(r), fs, 0) \in Int
        BY <1>1, <3>1, Gaps
      <3>4. fs[1].start_tsn = GapStart(r, 1)
        BY <2>1, <3>1
      <3> QED  BY <3>2, <3>3, <3>4 DEF Start
    <2> QED  BY <2>2
  <1>3. 0 \in chained
    BY <1>1
  <1>4. k = 0
    <2>1. chained \in SUBSET (0..Len(fs)) /\ chained # {}
      BY <1>3
    <2> HIDE DEF chained
    <2>2. Max(chained) \in chained
      BY <1>1, <2>1, MaxIsElement
    <2> QED  BY <1>2, <2>2
  <1>5. BubbleUp(r) = [r EXCEPT !.ctsna = IF k = 0 THEN @ ELSE r.frag_list[k].stop_tsn,
                                !.frag_list = SubSeq(@, k + 1, Len(@))]
    BY DEF BubbleUp
  <1> HIDE DEF k
  <1>6. BubbleUp(r) = [r EXCEPT !.ctsna = r.ctsna, !.frag_list = SubSeq(fs, 1, Len(fs))]
    BY <1>4, <1>5
  <1>7. SubSeq(fs, 1, Len(fs)) = fs
    BY <1>1, Rests
  <1> QED  BY <1>1, <1>6, <1>7 DEF Buffer

\* A chunk is a duplicate (rxc_chunk_is_duplicate) if the point has reached it or a fragment holds it.
LEMMA Duplicates ==
  ASSUME base \in TSN, NEW r \in Buffer, NEW n \in Chunks,
         InOrder(Point(r), r.frag_list, Position(r.highest)),
         2 * (Position(r.highest) - Point(r)) < Modulus,
         Position(r.lowest) <= Point(r), Position(r.lowest) <= n
  PROVE  ChunkIsDuplicate(r, Numbered(n)) <=> n <= Point(r) \/ n \in HeldIn(r.frag_list)
  <1> DEFINE tsn == Numbered(n)
             fs == r.frag_list
             len == Len(fs)
             high == Position(r.highest)
  <1>1. /\ r.ctsna \in TSN /\ r.lowest \in TSN /\ r.highest \in TSN /\ fs \in Seq(Fragment)
        /\ len \in Nat /\ DOMAIN fs = 1..len /\ n \in Int /\ n \in 0..(Modulus - 1)
        /\ high \in Int /\ Point(r) \in Int
    <2>1. r.ctsna \in TSN /\ r.lowest \in TSN /\ r.highest \in TSN /\ fs \in Seq(Fragment)
      BY DEF Buffer
    <2>2. high \in Int /\ Point(r) \in Int
      BY <2>1, PositionOf DEF Point
    <2>3. n \in Int /\ n \in 0..(Modulus - 1)
      BY ReceiveAssumption, ModulusAssumption DEF Chunks
    <2> QED  BY <2>1, <2>2, <2>3, LenProperties
  <1>2. tsn \in TSN /\ Position(tsn) = n
    BY <1>1, Neighbours
  <1>3. /\ \A j \in 1..len : /\ fs[j].start_tsn \in TSN /\ fs[j].stop_tsn \in TSN
                             /\ Start(fs, j) \in Int /\ Stop(fs, j) \in Int
                             /\ Point(r) + 1 < Start(fs, j) /\ Start(fs, j) <= Stop(fs, j)
                             /\ Stop(fs, j) <= high
        /\ \A i, j \in 1..len : i < j => Stop(fs, i) + 1 < Start(fs, j)
    <2>1. \A j \in 1..len : /\ fs[j].start_tsn \in TSN /\ fs[j].stop_tsn \in TSN
                            /\ Start(fs, j) \in Int /\ Stop(fs, j) \in Int
      BY <1>1, Ends
    <2> QED  BY <2>1 DEF InOrder
  <1>4. Between(r.lowest, tsn, r.ctsna) <=> n <= Point(r)
    BY <1>1, <1>2, Betweens DEF Point
  <1> HIDE DEF tsn
  <1>5. ASSUME NEW i \in 1..len
        PROVE  /\ Between(fs[i].start_tsn, tsn, fs[i].stop_tsn) <=> Start(fs, i) <= n /\ n <= Stop(fs, i)
               /\ Start(fs, i) <= n /\ n <= Stop(fs, i)
                    => /\ Between(r.ctsna, tsn, r.highest)
                       /\ \A j \in 1..(i - 1) : ~ After(fs[j].stop_tsn, tsn)
    <2>1. Between(fs[i].start_tsn, tsn, fs[i].stop_tsn) <=> Start(fs, i) <= n /\ n <= Stop(fs, i)
      <3>1. /\ fs[i].start_tsn \in TSN /\ fs[i].stop_tsn \in TSN
            /\ Position(fs[i].start_tsn) = Start(fs, i) /\ Position(fs[i].stop_tsn) = Stop(fs, i)
            /\ Start(fs, i) <= Stop(fs, i)
        BY <1>3 DEF Start, Stop
      <3> QED  BY <1>2, <3>1, Betweens
    <2>2. ASSUME Start(fs, i) <= n, n <= Stop(fs, i)
          PROVE  Between(r.ctsna, tsn, r.highest)
      <3>1. Point(r) <= n /\ n <= high /\ Point(r) <= high
        BY <1>1, <1>3, <2>2
      <3> QED  BY <1>1, <1>2, <3>1, Betweens DEF Point
    <2>3. ASSUME Start(fs, i) <= n, n <= Stop(fs, i), NEW j \in 1..(i - 1)
          PROVE  ~ After(fs[j].stop_tsn, tsn)
      <3>1. j \in 1..len /\ j < i
        BY <1>1
      <3>2. /\ fs[j].stop_tsn \in TSN /\ Position(fs[j].stop_tsn) = Stop(fs, j)
            /\ Point(r) < Stop(fs, j) /\ Stop(fs, j) < n /\ n <= high /\ Stop(fs, j) \in Int
        <4>1. Stop(fs, j) + 1 < Start(fs, i)
          BY <1>3, <3>1
        <4>2. Point(r) + 1 < Start(fs, j) /\ Start(fs, j) <= Stop(fs, j)
          BY <1>3, <3>1
        <4>3. fs[j].stop_tsn \in TSN /\ Position(fs[j].stop_tsn) = Stop(fs, j)
          BY <1>3, <3>1 DEF Stop
        <4> HIDE DEF high
        <4>4. Stop(fs, j) \in Int /\ Start(fs, j) \in Int /\ Start(fs, i) \in Int
          BY <1>3, <3>1
        <4>5. Stop(fs, i) \in Int /\ Stop(fs, i) <= high
          BY <1>3
        <4> QED  BY <1>1, <2>3, <4>1, <4>2, <4>3, <4>4, <4>5
      <3> DEFINE s == Stop(fs, j)
                 p == Point(r)
      <3>3. /\ s \in Int /\ p \in Int /\ high \in Int /\ n \in Int /\ Modulus \in Int
            /\ p < s /\ s < n /\ n <= high /\ 2 * (high - p) < Modulus
        BY <1>1, <3>2, ModulusAssumption
      <3> HIDE DEF s, p, high
      <3>4. n - s < high - p /\ s - n < 0 /\ 0 <= high - p
        BY <3>3
      <3>5. 2 * (s - n) <= Modulus /\ 2 * (n - s) < Modulus /\ ~ (n < s)
        BY <3>3, <3>4
      <3> QED  BY <1>2, <3>2, <3>5, Compare DEF s
    <2> QED  BY <2>1, <2>2, <2>3
  <1>6. ChunkIsDuplicate(r, tsn)
          <=> \/ Between(r.lowest, tsn, r.ctsna)
              \/ /\ Between(r.ctsna, tsn, r.highest)
                 /\ \E i \in 1..len :
                      /\ Between(fs[i].start_tsn, tsn, fs[i].stop_tsn)
                      /\ \A j \in 1..(i - 1) : ~ After(fs[j].stop_tsn, tsn)
    BY <1>1 DEF ChunkIsDuplicate
  <1> HIDE DEF fs, len
  <1>7. n \in HeldIn(fs) <=> \E i \in 1..len : Start(fs, i) <= n /\ n <= Stop(fs, i)
    BY DEF HeldIn, len
  <1>8. ASSUME n \in HeldIn(fs) PROVE ChunkIsDuplicate(r, tsn)
    <2>1. PICK i \in 1..len : Start(fs, i) <= n /\ n <= Stop(fs, i)
      BY <1>7, <1>8
    <2>2. /\ Between(fs[i].start_tsn, tsn, fs[i].stop_tsn) /\ Between(r.ctsna, tsn, r.highest)
          /\ \A j \in 1..(i - 1) : ~ After(fs[j].stop_tsn, tsn)
      BY <1>5, <2>1
    <2> QED  BY <1>6, <2>2
  <1>9. ASSUME ChunkIsDuplicate(r, tsn), ~ (n <= Point(r)) PROVE n \in HeldIn(fs)
    BY <1>4, <1>5, <1>6, <1>7, <1>9
  <1> QED  BY <1>4, <1>6, <1>8, <1>9 DEF tsn, fs

-----------------------------------------------------------------------------
(* Receiving a chunk, giving chunks up, reporting *)

(* The TSN of a chunk and those of a buffer can be compared. *)
Comparable(r, n) ==
  /\ Position(r.lowest) <= Point(r)
  /\ Point(r) + 1 < Modulus /\ Position(r.highest) + 1 < Modulus /\ n + 1 < Modulus
  /\ 2 * (Position(r.highest) - Point(r)) < Modulus /\ 2 * (n - Point(r)) < Modulus
  /\ 2 * (n - Position(r.lowest)) < Modulus /\ 2 * (Position(r.lowest) - n) < Modulus
  /\ 2 * (n - Position(r.highest)) <= Modulus /\ 2 * (Position(r.highest) - n) < Modulus

\* A chunk that has come or was given up leaves the buffer as it is, up to lowest; any other is
\* entered and moves highest, unless it comes late and below the point (rxc_data_chunk_rx).
LEMMA ReceiveView ==
  ASSUME base \in TSN, NEW r \in Buffer, NEW n \in Chunks, Comparable(r, n),
         InOrder(Point(r), r.frag_list, Position(r.highest)),
         n <= Point(r) => n <= Position(r.highest)
  PROVE  /\ n <= Point(r) \/ n \in HeldIn(r.frag_list)
              => /\ Receive(r, Numbered(n)).new = FALSE
                 /\ \/ Receive(r, Numbered(n)).buffer = r
                    \/ /\ n < Position(r.lowest)
                       /\ Receive(r, Numbered(n)).buffer = [r EXCEPT !.lowest = Numbered(n)]
         /\ ~ (n <= Point(r) \/ n \in HeldIn(r.frag_list))
              => /\ Receive(r, Numbered(n)).new = TRUE
                 /\ \E h \in TSN, t \in TSN, fs \in Seq(Fragment) :
                      /\ \/ n <= Position(r.highest) /\ h = r.highest
                         \/ Position(r.highest) < n /\ Position(h) = n
                      /\ Entered(r, n, Position(h), t, fs)
                      /\ Receive(r, Numbered(n)).buffer = WithHighest(r, h, t, fs)
  <1> DEFINE tsn == Numbered(n)
             high == Position(r.highest)
             result == Receive(r, tsn)
  <1>1. /\ r.ctsna \in TSN /\ r.lowest \in TSN /\ r.highest \in TSN
        /\ r.frag_list \in Seq(Fragment) /\ n \in Int /\ n \in 0..(Modulus - 1)
        /\ high \in Int /\ Point(r) \in Int /\ Position(r.lowest) \in Int /\ Modulus \in Nat
    <2>1. r.ctsna \in TSN /\ r.lowest \in TSN /\ r.highest \in TSN /\ r.frag_list \in Seq(Fragment)
      BY DEF Buffer
    <2>2. high \in Int /\ Point(r) \in Int /\ Position(r.lowest) \in Int
      BY <2>1, PositionOf DEF Point
    <2>3. n \in Int /\ n \in 0..(Modulus - 1)
      BY ReceiveAssumption, ModulusAssumption DEF Chunks
    <2> QED  BY <2>1, <2>2, <2>3, ModulusAssumption
  <1>2. tsn \in TSN /\ Position(tsn) = n
    BY <1>1, Neighbours
  <1>3. /\ Before(tsn, r.lowest) <=> n < Position(r.lowest)
        /\ After(tsn, r.highest) <=> high < n
    <2>1. /\ 2 * (n - Position(r.lowest)) < Modulus /\ 2 * (Position(r.lowest) - n) <= Modulus
          /\ 2 * (n - high) <= Modulus /\ 2 * (high - n) < Modulus
      <3>1. /\ 2 * (n - Position(r.lowest)) < Modulus /\ 2 * (Position(r.lowest) - n) < Modulus
            /\ 2 * (n - high) <= Modulus /\ 2 * (high - n) < Modulus
        BY DEF Comparable
      <3> HIDE DEF high
      <3>2. 2 * (Position(r.lowest) - n) <= Modulus
        BY <1>1, <3>1
      <3> QED  BY <3>1, <3>2
    <2> HIDE DEF tsn
    <2> QED  BY <1>1, <1>2, <2>1, Compare
  <1>4. \A j \in 1..Len(r.frag_list) :
          /\ Start(r.frag_list, j) \in Int /\ Stop(r.frag_list, j) \in Int
          /\ Point(r) + 1 < Start(r.frag_list, j) /\ Start(r.frag_list, j) <= Stop(r.frag_list, j)
          /\ Stop(r.frag_list, j) <= high
    BY <1>1, Ends DEF InOrder
  <1>5. n \in HeldIn(r.frag_list) => Point(r) < n /\ n <= high
    <2>1. ASSUME n \in HeldIn(r.frag_list) PROVE Point(r) < n /\ n <= high
      <3>1. PICK j \in 1..Len(r.frag_list) : Start(r.frag_list, j) <= n /\ n <= Stop(r.frag_list, j)
        BY <2>1 DEF HeldIn
      <3> HIDE DEF high
      <3> QED  BY <1>1, <1>4, <3>1
    <2> QED  BY <2>1
  <1>6. ASSUME n <= Point(r) \/ n \in HeldIn(r.frag_list)
        PROVE  /\ result.new = FALSE
               /\ result.buffer = r \/ (n < Position(r.lowest) /\ result.buffer = [r EXCEPT !.lowest = tsn])
    <2>1. ~ After(tsn, r.highest)
      <3>1. n <= high
        BY <1>5, <1>6
      <3> HIDE DEF high, tsn
      <3> QED  BY <1>1, <1>3, <3>1
    <2>2. ~ Before(tsn, r.lowest) => ChunkIsDuplicate(r, tsn)
      <3>1. ASSUME ~ Before(tsn, r.lowest) PROVE ChunkIsDuplicate(r, tsn)
        <4>1. Position(r.lowest) <= n
          BY <1>1, <1>3, <3>1
        <4> QED  BY <1>6, <4>1, Duplicates DEF Comparable
      <3> QED  BY <3>1
    <2>3. CASE Before(tsn, r.lowest)
      <3>1. result = [buffer |-> [r EXCEPT !.lowest = tsn], new |-> FALSE]
        BY <2>3 DEF Receive
      <3> HIDE DEF result, tsn
      <3> QED  BY <1>3, <2>3, <3>1
    <2>4. CASE ~ Before(tsn, r.lowest)
      <3>1. result = [buffer |-> r, new |-> FALSE]
        BY <2>1, <2>2, <2>4 DEF Receive
      <3> HIDE DEF result, tsn
      <3> QED  BY <3>1
    <2> QED  BY <2>3, <2>4
  <1>7. ASSUME ~ (n <= Point(r) \/ n \in HeldIn(r.frag_list))
        PROVE  /\ result.new = TRUE
               /\ \E h \in TSN, t \in TSN, fs \in Seq(Fragment) :
                    /\ (n <= high /\ h = r.highest) \/ (high < n /\ Position(h) = n)
                    /\ Entered(r, n, Position(h), t, fs)
                    /\ result.buffer = WithHighest(r, h, t, fs)
    <2>1. Point(r) < n /\ Position(r.lowest) <= n /\ ~ Before(tsn, r.lowest)
      <3>1. Point(r) < n /\ Position(r.lowest) <= Point(r)
        BY <1>1, <1>7 DEF Comparable
      <3> QED  BY <1>1, <1>3, <3>1
    <2> DEFINE h == IF high < n THEN tsn ELSE r.highest
               s == [r EXCEPT !.highest = h]
    <2>2. h \in TSN /\ s \in Buffer /\ Position(h) \in Int /\ n <= Position(h)
      <3>1. h \in TSN /\ Position(h) \in Int /\ n <= Position(h)
        <4> HIDE DEF tsn
        <4> QED  BY <1>1, <1>2
      <3> HIDE DEF h
      <3> QED  BY <3>1, BufferFields
    <2>3. result = [buffer |-> BubbleUp(UpdateFragments(s, tsn)), new |-> TRUE]
      <3>1. CASE high < n
        BY <1>3, <2>1, <3>1 DEF Receive
      <3>2. CASE ~ (high < n)
        <4>1. ~ ChunkIsDuplicate(r, tsn)
          BY <1>7, <2>1, Duplicates DEF Comparable
        <4>2. ~ After(tsn, r.highest)
          BY <1>3, <3>2
        <4>3. result = [buffer |-> BubbleUp(UpdateFragments(r, tsn)), new |-> TRUE]
          BY <2>1, <4>1, <4>2 DEF Receive
        <4>4. s = r
          BY <3>2 DEF Buffer
        <4> HIDE DEF result, tsn, s
        <4> QED  BY <4>3, <4>4
      <3> QED  BY <3>1, <3>2
    <2>4. s.ctsna = r.ctsna /\ s.frag_list = r.frag_list /\ s.highest = h
      BY DEF Buffer
    <2>5. (n <= high /\ h = r.highest) \/ (high < n /\ Position(h) = n)
      <3>1. CASE high < n
        BY <1>2, <3>1
      <3>2. CASE ~ (high < n)
        <4> HIDE DEF high, tsn
        <4> QED  BY <1>1, <3>2
      <3> QED  BY <3>1, <3>2
    <2>6. \A t, fs : WithList(s, t, fs) = WithHighest(r, h, t, fs)
      <3> HIDE DEF h
      <3> QED  BY DEF Buffer, WithList, WithHighest
    <2> HIDE DEF h, s, tsn, result
    <2>7. Sound(s, Position(h))
      <3>1. InOrder(Point(r), r.frag_list, Position(h))
        <4>1. high <= Position(h)
          BY <1>1, <2>2, <2>5
        <4> HIDE DEF high
        <4>2. \A j \in 1..Len(r.frag_list) : Stop(r.frag_list, j) <= Position(h)
          BY <1>1, <1>4, <2>2, <4>1
        <4> QED  BY <4>2 DEF InOrder
      <3>2. Position(h) + 1 < Modulus /\ 2 * (Position(h) - Point(r)) < Modulus
        BY <1>1, <2>5 DEF Comparable
      <3> QED  BY <1>1, <2>1, <2>2, <2>4, <3>1, <3>2 DEF Sound, Point
    <2>8. PICK t \in TSN, fs \in Seq(Fragment) :
            /\ Entered(s, n, Position(h), t, fs)
            /\ UpdateFragments(s, Numbered(n)) = WithList(s, t, fs)
      <3>1. Point(s) < n /\ n \notin HeldIn(s.frag_list)
        BY <1>7, <2>1, <2>4 DEF Point
      <3> QED  BY <2>2, <2>7, <3>1, UpdateView
    <2>9. Entered(r, n, Position(h), t, fs)
      BY <2>4, <2>8 DEF Entered, Point
    <2> DEFINE u == WithList(s, t, fs)
    <2>10. u \in Buffer /\ u.ctsna = t /\ u.frag_list = fs
      BY <2>2, <2>8 DEF Buffer, WithList
    <2> HIDE DEF u
    <2>11. Sound(u, Position(h))
      <3>1. /\ Point(r) <= Position(t) /\ Position(t) <= Position(h) /\ InOrder(Position(t), fs, Position(h))
        BY <2>9 DEF Entered
      <3>2. Position(h) + 1 < Modulus /\ 2 * (Position(h) - Point(r)) < Modulus
        BY <2>4, <2>7 DEF Sound, Point
      <3>3. Position(t) \in Int
        BY PositionOf
      <3>4. 2 * (Position(h) - Position(t)) < Modulus
        BY <1>1, <2>2, <3>1, <3>2, <3>3
      <3> QED  BY <2>10, <3>1, <3>2, <3>4 DEF Sound, Point
    <2>12. BubbleUp(u) = u
      BY <2>2, <2>11, NothingToBubble
    <2>13. result.new = TRUE /\ result.buffer = u
      <3>1. result = [buffer |-> BubbleUp(u), new |-> TRUE]
        BY <2>3, <2>8 DEF u, tsn
      <3> QED  BY <2>12, <3>1
    <2>14. result.buffer = WithHighest(r, h, t, fs)
      BY <2>6, <2>13 DEF u
    <2> QED  BY <2>2, <2>5, <2>9, <2>13, <2>14
  <1> HIDE DEF result
  <1>8. result = Receive(r, Numbered(n))
    BY DEF result
  <1> QED  BY <1>6, <1>7, <1>8

\* A set of numbers with a bound has a largest element.
LEMMA LargestExists ==
  ASSUME NEW n \in Nat, NEW S \in SUBSET (0..n), S # {}
  PROVE  \E x \in S : \A y \in S : x >= y
  <1> DEFINE T == {n - x : x \in S}
  <1>0. \A x \in S : x \in Nat /\ n - x \in Nat
    OBVIOUS
  <1>1. T \in SUBSET Nat /\ T # {}
    BY <1>0
  <1>2. PICK t \in T : \A y \in T : ~ (<<y, t>> \in OpToRel(<, Nat))
    BY <1>1, NatLessThanWellFounded, WFMin
  <1>3. PICK x \in S : t = n - x
    OBVIOUS
  <1>4. \A y \in S : ~ (n - y < n - x)
    BY <1>1, <1>2, <1>3 DEF OpToRel
  <1>5. \A y \in S : x >= y
    BY <1>0, <1>4
  <1> QED  BY <1>5

\* The point moves to the last chunk given up, or over the fragment that this one touches, and the
\* fragments up to there are dropped (rxc_process_forward_tsn).
LEMMA AdvanceView ==
  ASSUME base \in TSN, NEW top \in Int, NEW r, Sound(r, top), NEW high \in Int,
         InOrder(Point(r), r.frag_list, high), high <= top,
         NEW tsn \in TSN, Point(r) < Position(tsn), Position(tsn) <= top
  PROVE  \E t \in TSN, fs \in Seq(Fragment) :
           /\ Advance(r, tsn) = WithList(r, t, fs)
           /\ Position(tsn) <= Position(t) /\ (t = tsn \/ Position(t) <= high)
           /\ InOrder(Position(t), fs, high)
           /\ \A m \in Chunks : m <= Position(t) \/ m \in HeldIn(fs)
                                  <=> m <= Position(tsn) \/ m \in HeldIn(r.frag_list)
  <1> DEFINE frags == r.frag_list
             len == Len(frags)
             n == Position(tsn)
             touches(f) == /\ ~ Before(tsn, Minus(f.start_tsn, 1))
                           /\ Between(Minus(f.start_tsn, 1), tsn, f.stop_tsn)
             passed(f) == ~ Before(tsn, Minus(f.start_tsn, 1)) /\ ~ touches(f)
             ks == {j \in 0..Len(frags) : \A i \in 1..j : passed(frags[i])}
             k == Max(ks)
             joins == k < Len(frags) /\ touches(frags[k + 1])
             t == IF joins THEN frags[k + 1].stop_tsn ELSE tsn
             from == IF joins THEN k + 2 ELSE k + 1
             fs == SubSeq(frags, from, Len(frags))
  <1>1. /\ r \in Buffer /\ r.ctsna \in TSN /\ frags \in Seq(Fragment) /\ len \in Nat
        /\ Point(r) \in Int /\ n \in Int /\ Modulus \in Nat /\ Point(r) >= 0
        /\ Point(r) < n /\ n <= top /\ top + 1 < Modulus /\ 2 * (top - Point(r)) < Modulus
    <2>1. r \in Buffer /\ top + 1 < Modulus /\ 2 * (top - Point(r)) < Modulus
      BY DEF Sound
    <2>2. r.ctsna \in TSN /\ frags \in Seq(Fragment) /\ len \in Nat
      BY <2>1, GapTypes
    <2>3. n \in 0..(Modulus - 1) /\ Point(r) \in 0..(Modulus - 1) /\ Modulus \in Nat
      BY <2>2, PositionOf, ModulusAssumption DEF Point
    <2> HIDE DEF n
    <2>4. Point(r) < n /\ n <= top
      BY DEF n
    <2> QED  BY <2>1, <2>2, <2>3, <2>4
  <1>2. /\ \A j \in 1..len : /\ frags[j].start_tsn \in TSN /\ frags[j].stop_tsn \in TSN
                             /\ Start(frags, j) \in Int /\ Stop(frags, j) \in Int
                             /\ Point(r) + 1 < Start(frags, j) /\ Start(frags, j) <= Stop(frags, j)
                             /\ Stop(frags, j) <= high
        /\ \A i, j \in 1..len : i < j => Stop(frags, i) + 1 < Start(frags, j)
    <2>1. \A j \in 1..len : /\ frags[j].start_tsn \in TSN /\ frags[j].stop_tsn \in TSN
                            /\ Start(frags, j) \in Int /\ Stop(frags, j) \in Int
      BY SMTT(30), <1>1, Ends
    <2> QED  BY <2>1 DEF InOrder
  <1>3. ASSUME NEW j \in 1..len
        PROVE  /\ touches(frags[j]) <=> Start(frags, j) - 1 <= n /\ n <= Stop(frags, j)
               /\ passed(frags[j]) <=> Stop(frags, j) < n
    <2> DEFINE s == Minus(frags[j].start_tsn, 1)
               x == Start(frags, j)
               y == Stop(frags, j)
               p == Point(r)
    <2>1. /\ x \in Int /\ y \in Int /\ p \in Int /\ p + 1 < x /\ x <= y /\ y <= high
          /\ frags[j].start_tsn \in TSN /\ frags[j].stop_tsn \in TSN
          /\ Position(frags[j].start_tsn) = x /\ Position(frags[j].stop_tsn) = y
      BY <1>1, <1>2 DEF Start, Stop
    <2> HIDE DEF x, y
    <2>2. s \in TSN /\ Position(s) = x - 1
      BY SMTT(30), <1>1, <2>1, Neighbours
    <2> HIDE DEF s, p, n
    <2>3. 2 * (n - (x - 1)) < Modulus /\ 2 * ((x - 1) - n) <= Modulus
      <3>1. /\ p < n /\ n <= top /\ 2 * (top - p) < Modulus
        BY <1>1 DEF p
      <3>2. n - (x - 1) < top - p
        BY <1>1, <2>1, <3>1
      <3>3. (x - 1) - n < top - p
        <4>1. high <= top /\ high \in Int /\ top \in Int
          OBVIOUS
        <4> QED  BY <1>1, <2>1, <3>1, <4>1
      <3> DEFINE a == n - (x - 1)
                 b == (x - 1) - n
                 c == top - p
      <3>4. a \in Int /\ b \in Int /\ c \in Int /\ a < c /\ b < c /\ 2 * c < Modulus
        BY <1>1, <2>1, <3>1, <3>2, <3>3
      <3> HIDE DEF a, b, c
      <3>5. 2 * a < Modulus /\ 2 * b <= Modulus
        BY <1>1, <3>4
      <3> QED  BY <3>5 DEF a, b
    <2>4. Before(tsn, s) <=> n < x - 1
      BY <2>2, <2>3, Compare DEF n
    <2>5. Between(s, tsn, frags[j].stop_tsn) <=> x - 1 <= n /\ n <= y
      <3>1. Position(s) <= Position(frags[j].stop_tsn)
        BY <2>1, <2>2
      <3>2. Between(s, tsn, frags[j].stop_tsn)
              <=> Position(s) <= Position(tsn) /\ Position(tsn) <= Position(frags[j].stop_tsn)
        BY <2>1, <2>2, <3>1, Betweens
      <3> QED  BY <2>1, <2>2, <3>2 DEF n
    <2>6. touches(frags[j]) <=> ~ Before(tsn, s) /\ Between(s, tsn, frags[j].stop_tsn)
      BY DEF s
    <2>7. passed(frags[j]) <=> ~ Before(tsn, s) /\ ~ touches(frags[j])
      BY DEF s
    <2> HIDE DEF touches, passed
    <2>8. /\ touches(frags[j]) <=> x - 1 <= n /\ n <= y
          /\ passed(frags[j]) <=> y < n
      BY <1>1, <2>1, <2>4, <2>5, <2>6, <2>7
    <2> QED  BY <2>8 DEF x, y
  <1>4. Advance(r, tsn) = WithList(r, t, fs)
    BY DEF Advance, WithList
  <1> HIDE DEF touches, passed, n, len
  <1>5. /\ k \in 0..len /\ \A i \in 1..k : Stop(frags, i) < n
        /\ k < len => ~ (Stop(frags, k + 1) < n)
    <2>1. 0 \in ks /\ ks \in SUBSET (0..len)
      BY <1>1 DEF len
    <2>2. k \in ks
      <3> HIDE DEF ks
      <3> QED  BY <1>1, <2>1, MaxIsElement
    <2>3. \A j \in ks : j <= k
      <3> HIDE DEF ks
      <3>1. \E x \in ks : \A y \in ks : x >= y
        <4>1. \A x \in ks : x \in Int
          BY <1>1, <2>1
        <4>2. len \in Nat /\ ks \in SUBSET (0..len) /\ ks # {}
          BY <1>1, <2>1
        <4> HIDE DEF len
        <4> QED  BY <4>2, LargestExists
      <3>2. \A j \in ks : k >= j
        BY <3>1 DEF Max
      <3>3. \A j \in 0..len : j \in Int
        BY <1>1
      <3> HIDE DEF k, len
      <3>4. k \in 0..len /\ ks \subseteq 0..len
        BY <2>1, <2>2
      <3> QED  BY <3>2, <3>3, <3>4
    <2>4. k \in 0..len /\ \A i \in 1..k : passed(frags[i])
      BY <2>2 DEF len
    <2>5. \A i \in 1..k : Stop(frags, i) < n
      <3> SUFFICES ASSUME NEW i \in 1..k
                   PROVE  Stop(frags, i) < n
        OBVIOUS
      <3>1. i \in 1..len /\ passed(frags[i])
        BY <1>1, <2>4
      <3> QED  BY <1>3, <3>1
    <2>6. ASSUME k < len, Stop(frags, k + 1) < n
          PROVE  FALSE
      <3>1. k + 1 \in 1..len /\ k + 1 \in 0..len
        BY <1>1, <2>4, <2>6
      <3>2. passed(frags[k + 1])
        BY <1>3, <2>6, <3>1
      <3>3. \A i \in 1..(k + 1) : i \in 1..k \/ i = k + 1
        BY SMTT(30), <1>1, <2>4
      <3>4. k + 1 \in ks
        BY <2>4, <3>1, <3>2, <3>3 DEF len
      <3> HIDE DEF ks, k
      <3>5. k \in Int /\ k + 1 <= k
        BY <1>1, <2>3, <2>4, <3>4
      <3> QED  BY <3>5
    <2> QED  BY <2>4, <2>5, <2>6
  <1> HIDE DEF k
  <1>6. joins <=> k < len /\ Start(frags, k + 1) - 1 <= n /\ n <= Stop(frags, k + 1)
    <2>1. k < len => k + 1 \in 1..len
      BY <1>1, <1>5
    <2> QED  BY <1>3, <2>1 DEF len
  <1> DEFINE d == IF joins THEN k + 1 ELSE k
             far == Position(t)
  <1>7. /\ t \in TSN /\ far \in Int /\ d \in 0..len /\ d + 1 = from
        /\ n <= far /\ (t = tsn \/ far <= high) /\ Point(r) <= far
        /\ d # 0 => Stop(frags, d) <= far
        /\ d < len => far + 1 < Start(frags, d + 1)
        /\ \A m \in Int : n < m /\ m <= far
             => \E j \in 1..len : Start(frags, j) <= m /\ m <= Stop(frags, j)
    <2>1. CASE joins
      <3>1. /\ k + 1 \in 1..len /\ t = frags[k + 1].stop_tsn /\ d = k + 1 /\ from = k + 2
            /\ Start(frags, k + 1) - 1 <= n /\ n <= Stop(frags, k + 1)
        BY <1>1, <1>5, <1>6, <2>1
      <3>2. t \in TSN /\ far = Stop(frags, k + 1) /\ far \in Int /\ far <= high
            /\ Start(frags, k + 1) \in Int
        BY <1>2, <3>1 DEF Stop
      <3>3. d + 1 = from /\ d \in 0..len
        BY SMTT(30), <1>1, <1>5, <3>1
      <3>4. ASSUME d < len PROVE far + 1 < Start(frags, d + 1)
        <4>1. d \in 1..len /\ d + 1 \in 1..len /\ d < d + 1
          BY SMTT(30), <1>1, <3>1, <3>4
        <4> QED  BY <1>2, <3>1, <3>2, <4>1
      <3> HIDE DEF t, far, d, from
      <3>5. n <= far /\ Point(r) <= far
        BY <1>1, <3>1, <3>2
      <3>6. d # 0 => Stop(frags, d) <= far
        BY <3>1, <3>2
      <3>7. ASSUME NEW m \in Int, n < m, m <= far
            PROVE  \E j \in 1..len : Start(frags, j) <= m /\ m <= Stop(frags, j)
        <4>1. Start(frags, k + 1) <= m /\ m <= Stop(frags, k + 1)
          BY SMTT(30), <1>1, <3>1, <3>2, <3>7
        <4> QED  BY <3>1, <4>1
      <3> QED  BY <3>2, <3>3, <3>4, <3>5, <3>6, <3>7
    <2>2. CASE ~ joins
      <3>1. t = tsn /\ d = k /\ from = k + 1 /\ far = n
        BY <2>2 DEF n
      <3> HIDE DEF t, far, d, from
      <3>2. far \in Int /\ d \in 0..len /\ d + 1 = from /\ n <= far /\ Point(r) <= far
        BY <1>1, <1>5, <3>1
      <3>3. ASSUME d # 0 PROVE Stop(frags, d) <= far
        <4>1. d \in 1..k /\ d \in 1..len
          BY <1>1, <1>5, <3>1, <3>3
        <4>2. Stop(frags, d) < n /\ Stop(frags, d) \in Int
          BY <1>2, <1>5, <4>1
        <4> QED  BY <1>1, <3>1, <4>2
      <3>4. ASSUME d < len PROVE far + 1 < Start(frags, d + 1)
        <4>1. d + 1 \in 1..len /\ k < len
          BY <1>1, <1>5, <3>1, <3>4
        <4>2. /\ ~ (Stop(frags, d + 1) < n)
              /\ ~ (Start(frags, d + 1) - 1 <= n /\ n <= Stop(frags, d + 1))
          BY <1>5, <1>6, <2>2, <3>1, <4>1
        <4>3. Start(frags, d + 1) \in Int /\ Stop(frags, d + 1) \in Int
          BY <1>2, <4>1
        <4> QED  BY <1>1, <3>1, <4>2, <4>3
      <3>5. \A m \in Int : ~ (n < m /\ m <= far)
        BY <1>1, <3>1
      <3> QED  BY <3>1, <3>2, <3>3, <3>4, <3>5
    <2> QED  BY <2>1, <2>2
  <1> HIDE DEF d, far, t
  <1>8. /\ fs \in Seq(Fragment) /\ InOrder(far, fs, high)
        /\ HeldIn(fs) = {m \in HeldIn(frags) : m > far}
    <2>1. fs = SubSeq(frags, d + 1, Len(frags))
      BY <1>7
    <2>2. d \in 0..Len(frags) /\ (d < Len(frags) => far + 1 < Start(frags, d + 1))
      BY <1>7 DEF len
    <2> HIDE DEF frags, fs, from
    <2>3. InOrder(Point(r), frags, high)
      BY DEF frags
    <2> DEFINE p == Point(r)
    <2>4. p \in Int /\ InOrder(p, frags, high)
      BY <1>1, <2>3
    <2> HIDE DEF p
    <2>5. /\ SubSeq(frags, d + 1, Len(frags)) \in Seq(Fragment)
          /\ InOrder(far, SubSeq(frags, d + 1, Len(frags)), high)
          /\ HeldIn(SubSeq(frags, d + 1, Len(frags))) = {m \in HeldIn(frags) : m > far}
      BY <1>1, <1>7, <2>2, <2>4, Dropped
    <2> QED  BY <2>1, <2>5
  <1> HIDE DEF fs
  <1>9. ASSUME NEW m \in Chunks
        PROVE  m <= far \/ m \in HeldIn(fs) <=> m <= n \/ m \in HeldIn(frags)
    <2>1. m \in Int
      BY DEF Chunks
    <2>2. m \in HeldIn(fs) <=> m \in HeldIn(frags) /\ m > far
      BY <1>8
    <2>3. n < m /\ m <= far => m \in HeldIn(frags)
      BY <1>7, <2>1 DEF HeldIn, len
    <2> QED  BY <1>1, <1>7, <2>1, <2>2, <2>3
  <1> QED  BY <1>4, <1>7, <1>8, <1>9 DEF far, n

-----------------------------------------------------------------------------
(* The invariant *)

High(r) == Position(r.highest)
Bottom(r) == Position(r.lowest)

(* The chunks a SACK tells of: up to its point, and in its gap blocks. *)
Told(sack) == Position(sack.ctsna)
Reported(sack) ==
  {n \in Chunks : \E i \in DOMAIN sack.gaps :
     n - Told(sack) \in sack.gaps[i][1]..sack.gaps[i][2]}

(* The buffer holds what was handed on, h, or given up, s.  Beyond highest   *)
(* nothing has come, and only a FORWARD TSN moves the point there.          *)
Agrees(r, h, s) ==
  /\ Point(r) <= LastChunk /\ High(r) <= LastChunk /\ Point(r) <= High(r) + MaxGivenUp
  /\ InOrder(Point(r), r.frag_list, High(r))
  /\ s <= Point(r) /\ (High(r) < Point(r) => Point(r) = s)
  /\ \A n \in Chunks : /\ h[n] > 0 => n <= High(r)
                       /\ n <= Point(r) => n <= s \/ h[n] > 0
                       /\ n > Point(r) => (n \in HeldIn(r.frag_list) <=> h[n] > 0)

(* All TSNs are near the point that the peer was told of, so that they can  *)
(* be compared.                                                             *)
InWindow(r, t) ==
  /\ Told(t) <= Point(r) /\ Point(r) <= Told(t) + PeerWindow /\ High(r) <= Told(t) + PeerWindow
  /\ Told(t) - MaxAge < Bottom(r) /\ Bottom(r) <= Point(r)

(* A SACK is not ahead of what has come, and no older than the last one sent. *)
Honest(sack, r, t) ==
  /\ Told(t) <= Told(sack) /\ Told(sack) <= Point(r)
  /\ \A n \in Reported(sack) : n <= Point(r) \/ n \in HeldIn(r.frag_list)

(* A SACK in the bundling buffer leaves when the datagram is done, and is   *)
(* no newer than the last one built.                                        *)
Leaves(b, r, t, p) ==
  b.sack_in_buffer => /\ b.got_send_request /\ p # "idle" /\ Honest(b.sack, r, t)
                      /\ Told(b.sack) <= Told(r.sack) /\ Told(b.sack) - MaxAge < Bottom(r)

Ready(r, t, h, s) ==
  r \in Buffer /\ t \in SACK /\ Agrees(r, h, s) /\ InWindow(r, t) /\ Honest(r.sack, r, t)

Views(r, b, t, p, h, s) == Ready(r, t, h, s) /\ b \in Bundle /\ Leaves(b, r, t, p)

ReceiverInv == TypeOK /\ Views(rxc, bu, told, phase, handed, skipped)

\* What a buffer and a SACK stand for are numbers.
LEMMA Numbers ==
  ASSUME base \in TSN
  PROVE  /\ \A r \in Buffer : /\ Point(r) \in Int /\ High(r) \in Int /\ Bottom(r) \in Int
                              /\ r.sack \in SACK /\ Told(r.sack) \in Int
                              /\ r.ctsna \in TSN /\ r.frag_list \in Seq(Fragment)
         /\ \A s \in SACK : Told(s) \in Int /\ Told(s) >= 0
         /\ Chunks \subseteq Int /\ Modulus \in Nat /\ LastChunk \in Int
         /\ \A n \in Chunks : 1 <= n /\ n <= LastChunk /\ n \in 0..(Modulus - 1)
  <1>1. /\ Chunks \subseteq Int /\ Modulus \in Nat /\ LastChunk \in Int
        /\ \A n \in Chunks : 1 <= n /\ n <= LastChunk /\ n \in 0..(Modulus - 1)
    BY ReceiveAssumption, ModulusAssumption DEF Chunks
  <1>2. \A t \in TSN : Position(t) \in Int /\ Position(t) >= 0
    BY PositionOf
  <1>3. \A s \in SACK : Told(s) \in Int /\ Told(s) >= 0
    BY <1>2 DEF SACK, Told
  <1>4. \A r \in Buffer : /\ Point(r) \in Int /\ High(r) \in Int /\ Bottom(r) \in Int
                          /\ r.sack \in SACK /\ r.ctsna \in TSN /\ r.frag_list \in Seq(Fragment)
    BY <1>2 DEF Buffer, Point, High, Bottom
  <1> QED  BY <1>1, <1>3, <1>4

\* What the bounds mean for comparisons.
LEMMA Bounds ==
  /\ {LastChunk, PeerWindow, MaxAge, MaxGivenUp, MyRwnd} \subseteq Nat \ {0}
  /\ LastChunk + 1 < Modulus
  /\ 2 * (PeerWindow + MaxAge) <= Modulus /\ 2 * (PeerWindow + MaxGivenUp) <= Modulus
  BY ReceiveAssumption

-----------------------------------------------------------------------------
(* SACKs *)

\* A SACK built from a buffer tells of its point and of chunks it holds (rxc_all_chunks_processed).
LEMMA ReportView ==
  ASSUME base \in TSN, NEW r \in Buffer, NEW q \in Nat, NEW t \in SACK, NEW top \in Int,
         InOrder(Point(r), r.frag_list, top), Told(t) <= Point(r)
  PROVE  Report(r, q) \in SACK /\ Told(Report(r, q)) = Point(r) /\ Honest(Report(r, q), r, t)
  <1> DEFINE s == Report(r, q)
             fs == r.frag_list
             number == Min({Len(fs), MaxReports})
             offset(tsn) == Minus(tsn, r.ctsna)
             p == Point(r)
  <1>1. s \in SACK
    BY ReportTypes
  <1>2. fs \in Seq(Fragment) /\ Len(fs) \in Nat /\ r.ctsna \in TSN /\ p \in Int
    BY GapTypes, Numbers
  <1>3. number \in Nat /\ number <= Len(fs)
    <2>1. {Len(fs), MaxReports} \in SUBSET Nat /\ {Len(fs), MaxReports} # {} /\ MaxReports \in Nat
      BY <1>2, ReceiveAssumption
    <2>2. number \in {Len(fs), MaxReports}
      BY <2>1, MinIsElement
    <2>3. \A x \in {Len(fs), MaxReports} : number <= x
      <3>1. \E x \in {Len(fs), MaxReports} : \A y \in {Len(fs), MaxReports} : x <= y
        BY <1>2, <2>1
      <3> QED  BY <3>1 DEF Min
    <2> QED  BY <1>2, <2>1, <2>2, <2>3
  <1>4. /\ s.ctsna = r.ctsna
        /\ s.gaps = [i \in 1..number |-> <<offset(fs[i].start_tsn), offset(fs[i].stop_tsn)>>]
    BY DEF Report
  <1>5. Told(s) = p
    BY <1>4 DEF Told, Point
  <1> HIDE DEF number, s
  <1>6. ASSUME NEW i \in 1..number
        PROVE  offset(fs[i].start_tsn) = Start(fs, i) - p /\ offset(fs[i].stop_tsn) = Stop(fs, i) - p
    <2>1. /\ fs[i].start_tsn \in TSN /\ fs[i].stop_tsn \in TSN /\ i \in 1..Len(fs)
          /\ Start(fs, i) \in Int /\ Stop(fs, i) \in Int
      BY <1>2, <1>3, Ends
    <2>2. p + 1 < Start(fs, i) /\ Start(fs, i) <= Stop(fs, i)
      BY <2>1 DEF InOrder
    <2>3. /\ Minus(fs[i].start_tsn, r.ctsna)
               = IF Start(fs, i) >= p THEN Start(fs, i) - p ELSE Start(fs, i) - p + Modulus
          /\ Minus(fs[i].stop_tsn, r.ctsna)
               = IF Stop(fs, i) >= p THEN Stop(fs, i) - p ELSE Stop(fs, i) - p + Modulus
      BY <1>2, <2>1, Differences DEF Start, Stop, Point
    <2> HIDE DEF p
    <2> QED  BY <1>2, <2>1, <2>2, <2>3
  <1>7. ASSUME NEW n \in Reported(s)
        PROVE  n \in HeldIn(fs)
    <2>1. PICK i \in 1..number : n - p \in offset(fs[i].start_tsn)..offset(fs[i].stop_tsn)
      BY <1>4, <1>5 DEF Reported
    <2>2. n \in Chunks /\ n \in Int
      BY Numbers DEF Reported
    <2>3. i \in 1..Len(fs) /\ Start(fs, i) \in Int /\ Stop(fs, i) \in Int
      BY <1>2, <1>3, Ends
    <2>4. Start(fs, i) <= n /\ n <= Stop(fs, i)
      <3>1. n - p \in (Start(fs, i) - p)..(Stop(fs, i) - p)
        BY <1>6, <2>1
      <3> HIDE DEF p
      <3> QED  BY <1>2, <2>2, <2>3, <3>1
    <2> QED  BY <2>2, <2>3, <2>4 DEF HeldIn
  <1>8. Honest(s, r, t)
    <2>1. Told(s) <= Point(r)
      BY <1>2, <1>5
    <2> QED  BY <1>5, <1>7, <2>1 DEF Honest
  <1> QED  BY <1>1, <1>5, <1>8 DEF s

-----------------------------------------------------------------------------
(* Steps that leave the chunks as they are *)

(* Another SACK, no older than the one before, or a point up to which       *)
(* duplicates are counted.                                                  *)
Onward(r, r2) ==
  /\ r2 \in Buffer /\ r2.ctsna = r.ctsna /\ r2.highest = r.highest /\ r2.frag_list = r.frag_list
  /\ Bottom(r) <= Bottom(r2) /\ Bottom(r2) <= Point(r)
  /\ Told(r.sack) <= Told(r2.sack)

\* The flags, the timer and the counters of a buffer have no part in what it stands for.
LEMMA OnwardKeeps ==
  ASSUME base \in TSN, NEW r, NEW r2, NEW t, NEW h, NEW s, Ready(r, t, h, s), Onward(r, r2),
         Honest(r2.sack, r, t)
  PROVE  /\ Ready(r2, t, h, s)
         /\ \A b \in Bundle : \A p : Leaves(b, r, t, p) => Leaves(b, r2, t, p)
  <1>1. /\ Point(r2) = Point(r) /\ High(r2) = High(r) /\ r2.frag_list = r.frag_list
        /\ r \in Buffer /\ r2 \in Buffer /\ t \in SACK
    BY DEF Onward, Point, High, Ready
  <1>2. /\ Point(r) \in Int /\ Bottom(r) \in Int /\ Bottom(r2) \in Int /\ Told(t) \in Int
        /\ Told(r.sack) \in Int /\ Told(r2.sack) \in Int /\ MaxAge \in Int
    BY <1>1, Numbers, Bounds
  <1>3. /\ Bottom(r) <= Bottom(r2) /\ Bottom(r2) <= Point(r) /\ Told(r.sack) <= Told(r2.sack)
    BY DEF Onward
  <1>4. Agrees(r2, h, s)
    BY <1>1 DEF Ready, Agrees
  <1>5. InWindow(r2, t)
    BY <1>1, <1>2, <1>3 DEF Ready, InWindow
  <1>6. Honest(r2.sack, r2, t)
    BY <1>1 DEF Honest
  <1>7. ASSUME NEW b \in Bundle, NEW p, Leaves(b, r, t, p)
        PROVE  Leaves(b, r2, t, p)
    <2>1. Told(b.sack) \in Int
      BY Numbers DEF Bundle
    <2>2. Honest(b.sack, r, t) => Honest(b.sack, r2, t)
      BY <1>1 DEF Honest
    <2> QED  BY <1>2, <1>3, <1>7, <2>1, <2>2 DEF Leaves
  <1> QED  BY <1>1, <1>4, <1>5, <1>6, <1>7 DEF Ready

\* A SACK that waits in the bundling buffer is no newer after a step onward.
LEMMA StillLeaves ==
  ASSUME base \in TSN, NEW r, NEW r2, NEW t, NEW h, NEW s, Ready(r, t, h, s), Onward(r, r2),
         Ready(r2, t, h, s), NEW b \in Bundle, NEW p, Leaves(b, r, t, p)
  PROVE  Leaves(b, r2, t, p)
  <1>1. Point(r2) = Point(r) /\ r2.frag_list = r.frag_list /\ Honest(r2.sack, r2, t)
    BY DEF Onward, Point, Ready
  <1>2. Honest(r2.sack, r, t)
    BY <1>1 DEF Honest
  <1> QED  BY <1>2, OnwardKeeps

\* Onward steps follow each other.
LEMMA OnwardTwice ==
  ASSUME base \in TSN, NEW r \in Buffer, NEW r2, NEW r3, Onward(r, r2), Onward(r2, r3)
  PROVE  Onward(r, r3)
  <1>1. r2 \in Buffer /\ r3 \in Buffer /\ Point(r2) = Point(r)
    BY DEF Onward, Point
  <1>2. /\ Bottom(r) \in Int /\ Bottom(r2) \in Int /\ Bottom(r3) \in Int
        /\ Told(r.sack) \in Int /\ Told(r2.sack) \in Int /\ Told(r3.sack) \in Int
    BY <1>1, Numbers
  <1>3. Bottom(r) <= Bottom(r3) /\ Bottom(r3) <= Point(r) /\ Told(r.sack) <= Told(r3.sack)
    BY <1>1, <1>2 DEF Onward
  <1> QED  BY <1>1, <1>3 DEF Onward

\* Building a SACK, with or without counting a datagram, is a step onward.
LEMMA BuildView ==
  ASSUME base \in TSN, NEW r, NEW t, NEW h, NEW s, Ready(r, t, h, s),
         NEW q \in Nat, NEW d \in BOOLEAN
  PROVE  /\ Onward(r, AllChunksProcessed(r, q, d)) /\ Ready(AllChunksProcessed(r, q, d), t, h, s)
         /\ Onward(r, Prepared(r, q)) /\ Ready(Prepared(r, q), t, h, s)
  <1> DEFINE a == AllChunksProcessed(r, q, d)
             f == AllChunksProcessed(r, q, FALSE)
             v == Prepared(r, q)
  <1>1. r \in Buffer /\ t \in SACK /\ InOrder(Point(r), r.frag_list, High(r)) /\ Told(t) <= Point(r)
    BY DEF Ready, Agrees, InWindow
  <1>2. /\ Point(r) \in Int /\ High(r) \in Int /\ Bottom(r) \in Int /\ Told(r.sack) \in Int
    BY <1>1, Numbers
  <1>3. Told(Report(r, q)) = Point(r) /\ Honest(Report(r, q), r, t) /\ Report(r, q) \in SACK
    BY <1>1, <1>2, ReportView
  <1>4. Bottom(r) <= Point(r) /\ Told(r.sack) <= Point(r) /\ Honest(r.sack, r, t)
    BY DEF Ready, InWindow, Honest
  <1>5. a \in Buffer /\ f \in Buffer /\ v \in Buffer
    BY <1>1, Processed, PreparedFields
  <1>6. ASSUME NEW e \in BOOLEAN
        PROVE  /\ AllChunksProcessed(r, q, e).ctsna = r.ctsna
               /\ AllChunksProcessed(r, q, e).highest = r.highest
               /\ AllChunksProcessed(r, q, e).frag_list = r.frag_list
               /\ AllChunksProcessed(r, q, e).lowest = r.lowest
               /\ AllChunksProcessed(r, q, e).sack = Report(r, q)
    BY <1>1 DEF AllChunksProcessed, Buffer
  <1>7. Onward(r, a) /\ Honest(a.sack, r, t)
    <2>1. /\ a.ctsna = r.ctsna /\ a.highest = r.highest /\ a.frag_list = r.frag_list
          /\ a.lowest = r.lowest /\ a.sack = Report(r, q)
      BY <1>6
    <2> HIDE DEF a
    <2>2. Bottom(a) = Bottom(r)
      BY <2>1 DEF Bottom
    <2> QED  BY <1>2, <1>3, <1>4, <1>5, <2>1, <2>2 DEF Onward
  <1>8. Onward(r, v) /\ Honest(v.sack, r, t)
    <2>1. /\ v.ctsna = r.ctsna /\ v.highest = r.highest /\ v.frag_list = r.frag_list
          /\ v.lowest = r.lowest /\ (v.sack = Report(r, q) \/ v.sack = r.sack)
      <3> DEFINE w == IF r.contains_valid_sack THEN r ELSE f
      <3>1. /\ f.ctsna = r.ctsna /\ f.highest = r.highest /\ f.frag_list = r.frag_list
            /\ f.lowest = r.lowest /\ f.sack = Report(r, q)
        BY <1>6
      <3>2. v = [w EXCEPT !.sack_flag = IF r.frag_list = <<>> THEN 2 ELSE 1]
        BY DEF Prepared
      <3> HIDE DEF f, v
      <3>3. /\ w \in Buffer /\ w.ctsna = r.ctsna /\ w.highest = r.highest
            /\ w.frag_list = r.frag_list /\ w.lowest = r.lowest
            /\ (w.sack = Report(r, q) \/ w.sack = r.sack)
        BY <1>1, <1>5, <3>1
      <3> HIDE DEF w
      <3> QED  BY <3>2, <3>3 DEF Buffer
    <2> HIDE DEF v
    <2>2. Bottom(v) = Bottom(r)
      BY <2>1 DEF Bottom
    <2> QED  BY <1>2, <1>3, <1>4, <1>5, <2>1, <2>2 DEF Onward
  <1> HIDE DEF a, v
  <1>9. Ready(a, t, h, s) /\ Ready(v, t, h, s)
    BY <1>7, <1>8, OnwardKeeps
  <1> QED  BY <1>7, <1>8, <1>9 DEF a, v

\* Setting the timer, and putting a SACK into the bundling buffer, are steps onward.
LEMMA TimerView ==
  ASSUME base \in TSN, NEW r, NEW t, NEW h, NEW s, Ready(r, t, h, s)
  PROVE  /\ \A x \in BOOLEAN : LET r2 == [r EXCEPT !.timer_running = x]
                               IN  Onward(r, r2) /\ r2.sack = r.sack /\ Ready(r2, t, h, s)
         /\ Onward(r, Put(r)) /\ Put(r).sack = r.sack /\ Ready(Put(r), t, h, s)
         /\ Bottom(Put(r)) = Point(r)
  <1>1. /\ r \in Buffer /\ Honest(r.sack, r, t) /\ Bottom(r) <= Point(r)
        /\ Bottom(r) \in Int /\ Point(r) \in Int /\ Told(r.sack) \in Int
    BY Numbers DEF Ready, InWindow
  <1>2. ASSUME NEW x \in BOOLEAN
        PROVE  LET r2 == [r EXCEPT !.timer_running = x]
               IN  Onward(r, r2) /\ r2.sack = r.sack /\ Ready(r2, t, h, s)
    <2> DEFINE r2 == [r EXCEPT !.timer_running = x]
    <2>1. /\ r2 \in Buffer /\ r2.ctsna = r.ctsna /\ r2.highest = r.highest
          /\ r2.frag_list = r.frag_list /\ r2.lowest = r.lowest /\ r2.sack = r.sack
      BY <1>1 DEF Buffer
    <2> HIDE DEF r2
    <2>2. Bottom(r2) = Bottom(r)
      BY <2>1 DEF Bottom
    <2>3. Onward(r, r2)
      BY <1>1, <2>1, <2>2 DEF Onward
    <2>4. Ready(r2, t, h, s)
      BY <1>1, <2>1, <2>3, OnwardKeeps
    <2> QED  BY <2>1, <2>3, <2>4 DEF r2
  <1>3. /\ Onward(r, Put(r)) /\ Put(r).sack = r.sack /\ Ready(Put(r), t, h, s)
        /\ Bottom(Put(r)) = Point(r)
    <2> DEFINE r2 == Put(r)
    <2>1. /\ r2 \in Buffer /\ r2.ctsna = r.ctsna /\ r2.highest = r.highest
          /\ r2.frag_list = r.frag_list /\ r2.lowest = r.ctsna /\ r2.sack = r.sack
      BY <1>1 DEF Buffer, Put
    <2> HIDE DEF r2
    <2>2. Bottom(r2) = Point(r)
      BY <2>1 DEF Bottom, Point
    <2>3. Onward(r, r2)
      BY <1>1, <2>1, <2>2 DEF Onward
    <2>4. Ready(r2, t, h, s)
      BY <1>1, <2>1, <2>3, OnwardKeeps
    <2> QED  BY <2>1, <2>2, <2>3, <2>4 DEF r2
  <1> QED  BY <1>2, <1>3

\* A SACK that leaves is the one the window starts from (bu_sendAllChunks): nothing waits then.
LEMMA SentView ==
  ASSUME base \in TSN, NEW r, NEW t, NEW h, NEW s, Ready(r, t, h, s),
         NEW sack \in SACK, Honest(sack, r, t), Told(sack) <= Told(r.sack),
         Told(sack) - MaxAge < Bottom(r), Transmit(sack), NEW p
  PROVE  Views(r, bu', told', p, h, s)
  <1>1. /\ told' = sack
        /\ bu' = [sack |-> sack, sack_in_buffer |-> FALSE, got_send_request |-> FALSE]
    BY DEF Transmit
  <1>2. bu' \in Bundle /\ ~ bu'.sack_in_buffer
    BY <1>1 DEF Bundle
  <1>3. /\ r \in Buffer /\ t \in SACK /\ Point(r) \in Int /\ High(r) \in Int /\ Bottom(r) \in Int
        /\ Told(t) \in Int /\ Told(sack) \in Int /\ Told(r.sack) \in Int
        /\ PeerWindow \in Int /\ MaxAge \in Int
    BY Numbers, Bounds DEF Ready
  <1>4. InWindow(r, sack)
    BY <1>3 DEF Ready, InWindow, Honest
  <1>5. Honest(r.sack, r, sack)
    BY DEF Ready, Honest
  <1>6. Ready(r, sack, h, s)
    BY <1>4, <1>5 DEF Ready
  <1> QED  BY <1>1, <1>2, <1>6 DEF Views, Leaves

\* Forcing a SACK sends it, or leaves it in the bundling buffer (rxc_create_sack).
LEMMA ForcedView ==
  ASSUME base \in TSN, NEW r, NEW h, NEW s, Ready(r, told, h, s), ForceSack(r),
         phase' = phase
  PROVE  /\ Views(rxc', bu', told', phase', h, s) /\ Onward(r, rxc')
         /\ told' = told \/ Honest(told', r, told)
  <1> DEFINE put == Put(r)
             stopped == StopSackTimer(put)
  <1>1. /\ Onward(r, put) /\ put.sack = r.sack /\ Ready(put, told, h, s) /\ Bottom(put) = Point(r)
        /\ r \in Buffer /\ told \in SACK /\ r.sack \in SACK
    BY TimerView, Numbers DEF Ready
  <1>2. Onward(put, stopped) /\ stopped.sack = put.sack /\ Ready(stopped, told, h, s)
    BY <1>1, TimerView DEF StopSackTimer
  <1> HIDE DEF put, stopped
  <1>3. Onward(r, stopped) /\ Bottom(stopped) \in Int /\ Bottom(put) \in Int /\ put \in Buffer
    BY <1>1, <1>2, OnwardTwice, Numbers DEF Ready
  <1>4. Bottom(stopped) >= Point(r) /\ Point(r) \in Int /\ Told(r.sack) \in Int /\ MaxAge \in Nat \ {0}
    BY <1>1, <1>2, <1>3, Numbers, Bounds DEF Onward
  <1>5. Told(r.sack) <= Point(r) /\ Honest(r.sack, r, told)
    BY DEF Ready, Honest
  <1>6. CASE phase = "idle"
    <2>1. rxc' = stopped /\ Transmit(r.sack)
      BY <1>6 DEF ForceSack, put, stopped
    <2>2. stopped.sack = r.sack /\ Honest(r.sack, stopped, told)
      BY <1>1, <1>2 DEF Ready
    <2>3. Told(r.sack) - MaxAge < Bottom(stopped) /\ Told(r.sack) <= Told(stopped.sack)
      BY <1>3, <1>4, <1>5, <2>2
    <2>4. Views(stopped, bu', told', phase', h, s)
      BY <1>1, <1>2, <2>1, <2>2, <2>3, SentView
    <2>5. told' = r.sack
      BY <2>1 DEF Transmit
    <2> QED  BY <1>3, <1>5, <2>1, <2>4, <2>5
  <1>7. CASE phase # "idle"
    <2>1. /\ rxc' = put /\ told' = told
          /\ bu' = [sack |-> r.sack, sack_in_buffer |-> TRUE, got_send_request |-> TRUE]
      BY <1>7 DEF ForceSack, put
    <2>2. /\ bu' \in Bundle /\ bu'.sack = r.sack /\ bu'.got_send_request
      BY <1>1, <2>1 DEF Bundle
    <2>3. Honest(r.sack, put, told)
      BY <1>1 DEF Ready
    <2>4. Told(r.sack) <= Told(put.sack) /\ Told(r.sack) - MaxAge < Bottom(put)
      BY <1>1, <1>4, <1>5
    <2>5. Leaves(bu', put, told, phase')
      BY <1>7, <2>2, <2>3, <2>4 DEF Leaves
    <2> QED  BY <1>1, <2>1, <2>2, <2>5 DEF Views
  <1> QED  BY <1>6, <1>7

\* Unlocking the sender sends the SACK that waits (bu_unlock_sender).
LEMMA UnlockedView ==
  ASSUME base \in TSN, NEW r, NEW h, NEW s, Ready(r, told, h, s), bu \in Bundle,
         Leaves(bu, r, told, phase), Unlock(r, bu)
  PROVE  /\ Views(rxc', bu', told', phase', h, s) /\ Onward(r, rxc')
         /\ told' = told \/ Honest(told', r, told)
  <1> DEFINE stopped == StopSackTimer(r)
  <1>1. Onward(r, stopped) /\ stopped.sack = r.sack /\ Ready(stopped, told, h, s) /\ r \in Buffer
    BY TimerView DEF StopSackTimer, Ready
  <1> HIDE DEF stopped
  <1>2. CASE bu.sack_in_buffer
    <2>1. /\ bu.got_send_request /\ Honest(bu.sack, r, told) /\ Told(bu.sack) <= Told(r.sack)
          /\ Told(bu.sack) - MaxAge < Bottom(r) /\ bu.sack \in SACK
      BY <1>2 DEF Leaves, Bundle
    <2>2. rxc' = stopped /\ Transmit(bu.sack)
      BY <1>2, <2>1 DEF Unlock, stopped
    <2>3. /\ Honest(bu.sack, stopped, told) /\ Told(bu.sack) <= Told(stopped.sack)
          /\ Told(bu.sack) - MaxAge < Bottom(stopped)
      <3>1. Leaves(bu, stopped, told, phase)
        BY <1>1, OnwardKeeps DEF Ready
      <3> QED  BY <1>2, <3>1 DEF Leaves
    <2>4. Views(stopped, bu', told', phase', h, s)
      BY <1>1, <2>1, <2>2, <2>3, SentView
    <2>5. told' = bu.sack
      BY <2>2 DEF Transmit
    <2> QED  BY <1>1, <2>1, <2>2, <2>4, <2>5
  <1>3. CASE ~ bu.sack_in_buffer
    <2>1. rxc' = r /\ bu' = [bu EXCEPT !.got_send_request = FALSE] /\ told' = told
      BY <1>3 DEF Unlock
    <2>2. bu' \in Bundle /\ ~ bu'.sack_in_buffer
      BY <1>3, <2>1 DEF Bundle
    <2>3. Onward(r, r)
      <3>1. Bottom(r) \in Int /\ Told(r.sack) \in Int /\ Bottom(r) <= Point(r)
        BY <1>1, Numbers DEF Ready, InWindow
      <3> QED  BY <1>1, <3>1 DEF Onward
    <2> QED  BY <2>1, <2>2, <2>3 DEF Views, Leaves
  <1> QED  BY <1>2, <1>3

-----------------------------------------------------------------------------
(* Steps that change which chunks have come *)

\* What a SACK tells is its point and its gap blocks.
LEMMA SameSack ==
  ASSUME NEW a, NEW b, b.ctsna = a.ctsna, b.gaps = a.gaps
  PROVE  Told(b) = Told(a) /\ Reported(b) = Reported(a)
  <1>1. Told(b) = Told(a)
    BY DEF Told
  <1> QED  BY <1>1 DEF Reported

\* A SACK built before a chunk came stays one, and tells what it told.
LEMMA StaleSack ==
  /\ \A u \in Buffer :
       /\ [u EXCEPT !.contains_valid_sack = FALSE, !.sack.fresh = FALSE].sack
            = [u.sack EXCEPT !.fresh = FALSE]
       /\ [u EXCEPT !.sack.fresh = FALSE].sack = [u.sack EXCEPT !.fresh = FALSE]
  /\ \A b \in Bundle :
       /\ [b EXCEPT !.sack.fresh = FALSE].sack = [b.sack EXCEPT !.fresh = FALSE]
       /\ [b EXCEPT !.sack.fresh = FALSE] \in Bundle
       /\ [b EXCEPT !.sack.fresh = FALSE].sack_in_buffer = b.sack_in_buffer
       /\ [b EXCEPT !.sack.fresh = FALSE].got_send_request = b.got_send_request
  /\ \A a \in SACK :
       LET b == [a EXCEPT !.fresh = FALSE]
       IN  b \in SACK /\ Told(b) = Told(a) /\ Reported(b) = Reported(a)
  <1>1. ASSUME NEW u \in Buffer
        PROVE  /\ [u EXCEPT !.contains_valid_sack = FALSE, !.sack.fresh = FALSE].sack
                    = [u.sack EXCEPT !.fresh = FALSE]
               /\ [u EXCEPT !.sack.fresh = FALSE].sack = [u.sack EXCEPT !.fresh = FALSE]
    BY DEF Buffer
  <1>2. ASSUME NEW a \in SACK
        PROVE  LET b == [a EXCEPT !.fresh = FALSE]
               IN  b \in SACK /\ Told(b) = Told(a) /\ Reported(b) = Reported(a)
    <2> DEFINE b == [a EXCEPT !.fresh = FALSE]
    <2>1. b \in SACK /\ b.ctsna = a.ctsna /\ b.gaps = a.gaps
      BY DEF SACK
    <2> HIDE DEF b
    <2>2. b \in SACK /\ Told(b) = Told(a) /\ Reported(b) = Reported(a)
      BY <2>1, SameSack
    <2> QED  BY <2>2 DEF b
  <1>3. ASSUME NEW b \in Bundle
        PROVE  /\ [b EXCEPT !.sack.fresh = FALSE].sack = [b.sack EXCEPT !.fresh = FALSE]
               /\ [b EXCEPT !.sack.fresh = FALSE] \in Bundle
               /\ [b EXCEPT !.sack.fresh = FALSE].sack_in_buffer = b.sack_in_buffer
               /\ [b EXCEPT !.sack.fresh = FALSE].got_send_request = b.got_send_request
    <2>1. b.sack \in SACK
      BY DEF Bundle
    <2>2. [b.sack EXCEPT !.fresh = FALSE] \in SACK
      BY <2>1 DEF SACK
    <2> QED  BY <2>2 DEF Bundle
  <1> QED  BY <1>1, <1>2, <1>3

(* A buffer that holds all that another held, and a SACK that is the other's *)
(* but for its age.                                                          *)
Grown(r, r2) ==
  /\ r2 \in Buffer
  /\ Point(r) <= Point(r2) /\ High(r) <= High(r2)
  /\ \A n \in Chunks : n <= Point(r) \/ n \in HeldIn(r.frag_list)
                         => n <= Point(r2) \/ n \in HeldIn(r2.frag_list)
  /\ r2.sack = r.sack \/ r2.sack = [r.sack EXCEPT !.fresh = FALSE]

\* What is in a SACK is still there when more has come.
LEMMA GrownKeeps ==
  ASSUME base \in TSN, NEW r, NEW r2, NEW t, NEW h, NEW s, NEW h2, NEW s2,
         Ready(r, t, h, s), Grown(r, r2), Agrees(r2, h2, s2), InWindow(r2, t)
  PROVE  /\ Ready(r2, t, h2, s2)
         /\ \A b \in Bundle, b2 \in Bundle : \A p :
              /\ Leaves(b, r, t, p)
              /\ b2.sack = b.sack \/ b2.sack = [b.sack EXCEPT !.fresh = FALSE]
              /\ b2.sack_in_buffer = b.sack_in_buffer /\ b2.got_send_request = b.got_send_request
              /\ b.sack_in_buffer => Told(b.sack) - MaxAge < Bottom(r2)
              => Leaves(b2, r2, t, p)
  <1>1. /\ r \in Buffer /\ t \in SACK /\ r2 \in Buffer /\ r.sack \in SACK
        /\ Point(r) \in Int /\ Point(r2) \in Int
    BY Numbers DEF Ready, Grown
  <1>2. Told(r2.sack) = Told(r.sack) /\ Reported(r2.sack) = Reported(r.sack)
    BY <1>1, StaleSack DEF Grown
  <1>3. ASSUME NEW a \in SACK, NEW c \in SACK, Told(c) = Told(a), Reported(c) = Reported(a),
               Honest(a, r, t)
        PROVE  Honest(c, r2, t)
    <2>1. Told(a) \in Int /\ Point(r) <= Point(r2) /\ Told(a) <= Point(r)
      BY <1>3, Numbers DEF Grown, Honest
    <2>2. Told(t) <= Told(c) /\ Told(c) <= Point(r2)
      BY <1>1, <1>3, <2>1 DEF Honest
    <2>3. ASSUME NEW n \in Reported(c)
          PROVE  n <= Point(r2) \/ n \in HeldIn(r2.frag_list)
      <3>1. n \in Chunks
        BY DEF Reported
      <3>2. n <= Point(r) \/ n \in HeldIn(r.frag_list)
        BY <1>3 DEF Honest
      <3> QED  BY <3>1, <3>2 DEF Grown
    <2> QED  BY <2>2, <2>3 DEF Honest
  <1>4. r2.sack \in SACK
    BY <1>1, Numbers
  <1>5. Ready(r2, t, h2, s2)
    BY <1>1, <1>2, <1>3, <1>4 DEF Ready
  <1>6. ASSUME NEW b \in Bundle, NEW b2 \in Bundle, NEW p, Leaves(b, r, t, p),
               b2.sack = b.sack \/ b2.sack = [b.sack EXCEPT !.fresh = FALSE],
               b2.sack_in_buffer = b.sack_in_buffer, b2.got_send_request = b.got_send_request,
               b.sack_in_buffer => Told(b.sack) - MaxAge < Bottom(r2)
        PROVE  Leaves(b2, r2, t, p)
    <2>1. b.sack \in SACK /\ b2.sack \in SACK
      BY DEF Bundle
    <2>2. Told(b2.sack) = Told(b.sack) /\ Reported(b2.sack) = Reported(b.sack)
      BY <1>6, <2>1, StaleSack
    <2>3. Honest(b.sack, r, t) => Honest(b2.sack, r2, t)
      BY <1>3, <2>1, <2>2
    <2> QED  BY <1>2, <1>6, <2>2, <2>3 DEF Leaves
  <1> QED  BY <1>5, <1>6

\* A chunk in the window can be compared with what the buffer holds.
LEMMA Near ==
  ASSUME base \in TSN, NEW r, NEW t, NEW h, NEW s, Ready(r, t, h, s), NEW n \in Chunks,
         n > Point(r) - MaxAge, n <= Told(t) + PeerWindow
  PROVE  Comparable(r, n)
  <1>1. /\ Point(r) \in Int /\ High(r) \in Int /\ Bottom(r) \in Int /\ Told(t) \in Int
        /\ n \in Int /\ Modulus \in Int /\ LastChunk \in Int /\ n <= LastChunk
    BY Numbers DEF Ready
  <1>2. /\ PeerWindow \in Int /\ MaxAge \in Int /\ MaxGivenUp \in Int /\ LastChunk + 1 < Modulus
        /\ PeerWindow >= 1 /\ MaxAge >= 1 /\ MaxGivenUp >= 1
        /\ 2 * (PeerWindow + MaxAge) <= Modulus /\ 2 * (PeerWindow + MaxGivenUp) <= Modulus
    BY Bounds
  <1>3. /\ Point(r) <= LastChunk /\ High(r) <= LastChunk /\ Point(r) <= High(r) + MaxGivenUp
        /\ Told(t) <= Point(r) /\ High(r) <= Told(t) + PeerWindow
        /\ Told(t) - MaxAge < Bottom(r) /\ Bottom(r) <= Point(r)
    BY DEF Ready, Agrees, InWindow
  <1>4. ASSUME NEW x \in Int, NEW y \in Int, x < y, 2 * y <= Modulus
        PROVE  2 * x < Modulus
    BY <1>1, <1>4
  <1>5. 2 * (High(r) - Point(r)) < Modulus
    BY <1>1, <1>2, <1>3, <1>4
  <1>6. 2 * (n - Point(r)) < Modulus
    BY <1>1, <1>2, <1>3, <1>4
  <1>7. 2 * (n - Bottom(r)) < Modulus
    BY <1>1, <1>2, <1>3, <1>4
  <1>8. 2 * (Bottom(r) - n) < Modulus
    BY <1>1, <1>2, <1>3, <1>4
  <1>9. 2 * (n - High(r)) <= Modulus
    BY <1>1, <1>2, <1>3
  <1>10. 2 * (High(r) - n) < Modulus
    BY <1>1, <1>2, <1>3, <1>4
  <1>11. Point(r) + 1 < Modulus /\ High(r) + 1 < Modulus /\ n + 1 < Modulus
    BY <1>1, <1>2, <1>3
  <1> QED  BY <1>3, <1>5, <1>6, <1>7, <1>8, <1>9, <1>10, <1>11 DEF Comparable, High, Bottom

\* Nothing in the list is below the point.
LEMMA HeldBeyond ==
  ASSUME base \in TSN, NEW fs \in Seq(Fragment), NEW point \in Int, NEW top \in Int,
         InOrder(point, fs, top)
  PROVE  \A n \in HeldIn(fs) : n \in Chunks /\ point + 1 < n /\ n <= top
  <1> SUFFICES ASSUME NEW n \in HeldIn(fs)
               PROVE  n \in Chunks /\ point + 1 < n /\ n <= top
    OBVIOUS
  <1>1. n \in Chunks /\ n \in Int
    BY Numbers DEF HeldIn
  <1>2. PICK i \in 1..Len(fs) : Start(fs, i) <= n /\ n <= Stop(fs, i)
    BY DEF HeldIn
  <1>3. Start(fs, i) \in Int /\ Stop(fs, i) \in Int
    BY Ends
  <1>4. point + 1 < Start(fs, i) /\ Stop(fs, i) <= top
    BY DEF InOrder
  <1> QED  BY <1>1, <1>2, <1>3, <1>4

\* A chunk entered into the buffer is one more that has come.
LEMMA EnteredView ==
  ASSUME base \in TSN, NEW r, NEW t, NEW h \in [Chunks -> Nat], NEW s \in Nat, Ready(r, t, h, s),
         NEW n \in Chunks, n <= Told(t) + PeerWindow,
         ~ (n <= Point(r) \/ n \in HeldIn(r.frag_list)),
         NEW r2 \in Buffer, Entered(r, n, High(r2), r2.ctsna, r2.frag_list),
         \/ n <= High(r) /\ r2.highest = r.highest
         \/ High(r) < n /\ High(r2) = n,
         r2.lowest = r.lowest, NEW h2, \A m \in Chunks : h2[m] > 0 <=> h[m] > 0 \/ m = n
  PROVE  /\ Agrees(r2, h2, s) /\ InWindow(r2, t)
         /\ Point(r) <= Point(r2) /\ High(r) <= High(r2)
         /\ \A m \in Chunks : m <= Point(r2) \/ m \in HeldIn(r2.frag_list)
                                <=> m <= Point(r) \/ m \in HeldIn(r.frag_list) \/ m = n
  <1> DEFINE fs == r2.frag_list
             held(m) == m \in HeldIn(r.frag_list)
             held2(m) == m \in HeldIn(r2.frag_list)
  <1>1. /\ Point(r) \in Int /\ High(r) \in Int /\ Point(r2) \in Int /\ High(r2) \in Int
        /\ n \in Int /\ n <= LastChunk /\ LastChunk \in Int /\ Told(t) \in Int /\ Bottom(r) \in Int
        /\ PeerWindow \in Int /\ MaxGivenUp \in Nat /\ Chunks \subseteq Int
        /\ r2.frag_list \in Seq(Fragment)
    BY Numbers, Bounds DEF Ready
  <1>2. /\ Point(r) <= Point(r2) /\ Point(r2) <= High(r2) /\ InOrder(Point(r2), fs, High(r2))
        /\ \A m \in Chunks : m <= Point(r2) \/ held2(m) <=> m <= Point(r) \/ held(m) \/ m = n
    BY DEF Entered, Point
  <1>3. /\ High(r) <= High(r2) /\ n <= High(r2) /\ (High(r2) = High(r) \/ High(r2) = n)
    <2>1. CASE n <= High(r) /\ r2.highest = r.highest
      BY <1>1, <2>1 DEF High
    <2>2. CASE High(r) < n /\ High(r2) = n
      BY <1>1, <2>2
    <2> QED  BY <2>1, <2>2
  <1>4. /\ Point(r) <= LastChunk /\ High(r) <= LastChunk
        /\ s <= Point(r) /\ (High(r) < Point(r) => Point(r) = s)
        /\ \A m \in Chunks : /\ h[m] > 0 => m <= High(r)
                             /\ m <= Point(r) => m <= s \/ h[m] > 0
                             /\ m > Point(r) => (held(m) <=> h[m] > 0)
        /\ Told(t) <= Point(r) /\ Point(r) <= Told(t) + PeerWindow
        /\ High(r) <= Told(t) + PeerWindow
        /\ Told(t) - MaxAge < Bottom(r) /\ Bottom(r) <= Point(r)
    BY DEF Ready, Agrees, InWindow
  <1>5. \A m \in Chunks : h2[m] > 0 <=> h[m] > 0 \/ m = n
    OBVIOUS
  <1>6. \A m \in Chunks : held(m) => m > Point(r)
    <2>1. r.frag_list \in Seq(Fragment) /\ InOrder(Point(r), r.frag_list, High(r))
      BY Numbers DEF Ready, Agrees
    <2> DEFINE p == Point(r)
               q == High(r)
               gs == r.frag_list
    <2>2. p \in Int /\ q \in Int /\ InOrder(p, gs, q) /\ gs \in Seq(Fragment)
      BY <1>1, <2>1
    <2> HIDE DEF p, q, gs
    <2>3. \A m \in HeldIn(gs) : p + 1 < m
      BY <2>2, HeldBeyond
    <2> QED  BY <1>1, <2>2, <2>3 DEF p, gs
  <1>7. \A m \in Chunks : held2(m) => m > Point(r2)
    <2> DEFINE p == Point(r2)
               q == High(r2)
               gs == r2.frag_list
    <2>2. p \in Int /\ q \in Int /\ InOrder(p, gs, q) /\ gs \in Seq(Fragment)
      BY <1>1, <1>2
    <2> HIDE DEF p, q, gs
    <2>3. \A m \in HeldIn(gs) : p + 1 < m
      BY <2>2, HeldBeyond
    <2> QED  BY <1>1, <2>2, <2>3 DEF p, gs
  <1>8. ASSUME NEW m \in Chunks
        PROVE  /\ h2[m] > 0 => m <= High(r2)
               /\ m <= Point(r2) => m <= s \/ h2[m] > 0
               /\ m > Point(r2) => (held2(m) <=> h2[m] > 0)
    <2>1. /\ h2[m] > 0 <=> h[m] > 0 \/ m = n
          /\ m <= Point(r2) \/ held2(m) <=> m <= Point(r) \/ held(m) \/ m = n
          /\ h[m] > 0 => m <= High(r)
          /\ m <= Point(r) => m <= s \/ h[m] > 0
          /\ m > Point(r) => (held(m) <=> h[m] > 0)
          /\ held2(m) => m > Point(r2)
          /\ m \in Int
      BY <1>1, <1>2, <1>4, <1>5, <1>7
    <2> HIDE DEF held, held2
    <2>2. h2[m] > 0 => m <= High(r2)
      BY <1>1, <1>3, <2>1
    <2>3. m <= Point(r2) => m <= s \/ h2[m] > 0
      BY <1>1, <2>1
    <2>4. m > Point(r2) => (held2(m) <=> h2[m] > 0)
      BY <1>1, <1>2, <2>1
    <2> QED  BY <2>2, <2>3, <2>4
  <1>9. /\ Point(r2) <= LastChunk /\ High(r2) <= LastChunk /\ Point(r2) <= High(r2) + MaxGivenUp
        /\ High(r2) <= Told(t) + PeerWindow /\ Point(r2) <= Told(t) + PeerWindow
        /\ Told(t) <= Point(r2) /\ ~ (High(r2) < Point(r2)) /\ Bottom(r) <= Point(r2)
    BY SMTT(30), <1>1, <1>2, <1>3, <1>4
  <1>10. s <= Point(r2)
    BY <1>1, <1>2, <1>4
  <1>11. Agrees(r2, h2, s)
    BY <1>2, <1>8, <1>9, <1>10 DEF Agrees
  <1>12. InWindow(r2, t)
    <2>1. Bottom(r2) = Bottom(r)
      BY DEF Bottom
    <2> QED  BY <1>4, <1>9, <2>1 DEF InWindow
  <1> QED  BY <1>2, <1>3, <1>11, <1>12

\* A chunk that comes is entered if it is new, and else moves lowest at most; what was reported
\* stays true (rxc_data_chunk_rx).
LEMMA DataView ==
  ASSUME TypeOK, Views(rxc, bu, told, phase, handed, skipped), ~ Overtaking,
         NEW n \in Chunks, DataChunk(n)
  PROVE  /\ Views(rxc', bu', told', phase', handed', skipped')
         /\ \/ /\ handed' = handed /\ rxc'.ctsna = rxc.ctsna /\ rxc'.frag_list = rxc.frag_list
               /\ closing \/ n <= Point(rxc) \/ n \in HeldIn(rxc.frag_list)
                  \/ (High(rxc) < n /\ Window(queued) = 0)
            \/ /\ ~ (n <= Point(rxc) \/ n \in HeldIn(rxc.frag_list))
               /\ handed' = [handed EXCEPT ![n] = @ + 1]
               /\ Point(rxc) <= Point(rxc')
               /\ \A m \in Chunks : m <= Point(rxc') \/ m \in HeldIn(rxc'.frag_list)
                                      <=> m <= Point(rxc) \/ m \in HeldIn(rxc.frag_list) \/ m = n
  <1> DEFINE tsn == Numbered(n)
             dropped == closing \/ (After(tsn, rxc.highest) /\ Window(queued) = 0)
             result == IF dropped THEN [buffer |-> rxc, new |-> FALSE] ELSE Receive(rxc, tsn)
             r == result.buffer
             old == n <= Point(rxc) \/ n \in HeldIn(rxc.frag_list)
             r2 == [r EXCEPT !.contains_valid_sack = FALSE, !.sack.fresh = FALSE]
             b2 == [bu EXCEPT !.sack.fresh = FALSE]
             ready == Ready(rxc, told, handed, skipped)
  <1>1. /\ base \in TSN /\ rxc \in Buffer /\ bu \in Bundle /\ told \in SACK
        /\ handed \in [Chunks -> Nat] /\ skipped \in Nat
        /\ ready /\ Leaves(bu, rxc, told, phase)
    <2>1. skipped \in Nat
      BY DEF TypeOK, Chunks
    <2> QED  BY <2>1 DEF TypeOK, Buffer, Bundle, Views
  <1>2. /\ n > Point(rxc) - MaxAge /\ n <= Told(told) + PeerWindow
        /\ n > skipped \/ handed[n] > 0
    BY DEF DataChunk, Deliverable, Point, Told
  <1>3. Comparable(rxc, n)
    BY <1>1, <1>2, Near
  <1>4. /\ rxc' = r2 /\ bu' = b2 /\ told' = told /\ phase' = phase /\ skipped' = skipped
        /\ handed' = IF result.new THEN [handed EXCEPT ![n] = @ + 1] ELSE handed
    BY DEF DataChunk
  <1>5. /\ Point(rxc) \in Int /\ High(rxc) \in Int /\ Bottom(rxc) \in Int /\ Told(told) \in Int
        /\ n \in Int /\ n \in 0..(Modulus - 1) /\ MaxAge \in Int /\ tsn \in TSN
        /\ Position(tsn) = n
    <2>1. n \in Int /\ n \in 0..(Modulus - 1) /\ MaxAge \in Int
      BY <1>1, Numbers, Bounds
    <2>2. tsn \in TSN /\ Position(tsn) = n
      BY <1>1, <2>1, Neighbours
    <2>3. /\ Point(rxc) \in Int /\ High(rxc) \in Int /\ Bottom(rxc) \in Int
          /\ Told(told) \in Int
      BY <1>1, Numbers
    <2> QED  BY <2>1, <2>2, <2>3
  <1>6. InOrder(Point(rxc), rxc.frag_list, Position(rxc.highest))
    BY <1>1 DEF Ready, Agrees, High
  <1>7. n <= Point(rxc) => n <= Position(rxc.highest)
    <2>1. /\ handed[n] > 0 => n <= High(rxc)
          /\ High(rxc) < Point(rxc) => Point(rxc) = skipped
      BY <1>1 DEF Ready, Agrees
    <2> QED  BY <1>2, <1>5, <2>1 DEF High
  <1>8. After(tsn, rxc.highest) <=> High(rxc) < n
    <2>1. /\ 2 * (n - Position(rxc.highest)) <= Modulus
          /\ 2 * (Position(rxc.highest) - n) < Modulus
      BY <1>3 DEF Comparable
    <2>2. rxc.highest \in TSN
      BY <1>1 DEF Buffer
    <2> QED  BY <1>1, <1>5, <2>1, <2>2, Compare DEF High
  <1>9. /\ dropped \/ old => /\ result.new = FALSE
                             /\ r = rxc \/ (n < Bottom(rxc) /\ r = [rxc EXCEPT !.lowest = tsn])
        /\ ~ dropped /\ ~ old
             => /\ result.new = TRUE
                /\ \E hi \in TSN, t \in TSN, fs \in Seq(Fragment) :
                     /\ \/ n <= High(rxc) /\ hi = rxc.highest
                        \/ High(rxc) < n /\ Position(hi) = n
                     /\ Entered(rxc, n, Position(hi), t, fs)
                     /\ r = WithHighest(rxc, hi, t, fs)
    <2>1. CASE dropped
      BY <2>1
    <2>2. CASE ~ dropped
      <3>1. result = Receive(rxc, tsn)
        BY <2>2
      <3> HIDE DEF result, dropped
      <3> QED  BY <1>1, <1>3, <1>6, <1>7, <2>2, <3>1, ReceiveView DEF High, Bottom
    <2> QED  BY <2>1, <2>2
  <1>10. dropped => closing \/ (High(rxc) < n /\ Window(queued) = 0)
    BY <1>8
  <1> HIDE DEF result, dropped
  <1>11. /\ b2 \in Bundle /\ b2.sack = [bu.sack EXCEPT !.fresh = FALSE]
         /\ b2.sack_in_buffer = bu.sack_in_buffer /\ b2.got_send_request = bu.got_send_request
    BY <1>1, StaleSack
  <1>12. ASSUME r \in Buffer, r.sack = rxc.sack
         PROVE  /\ r2 \in Buffer /\ r2.sack = [rxc.sack EXCEPT !.fresh = FALSE]
                /\ r2.ctsna = r.ctsna /\ r2.highest = r.highest /\ r2.frag_list = r.frag_list
                /\ r2.lowest = r.lowest
    <2>1. r2 \in Buffer
      <3> HIDE DEF r
      <3>1. [r.sack EXCEPT !.fresh = FALSE] \in SACK
        BY <1>12 DEF Buffer, SACK
      <3>2. [r EXCEPT !.contains_valid_sack = FALSE,
                      !.sack = [r.sack EXCEPT !.fresh = FALSE]] \in Buffer
        BY <1>12, <3>1 DEF Buffer
      <3> QED  BY <3>2
    <2>2. r2.sack = [rxc.sack EXCEPT !.fresh = FALSE]
      BY <1>12, StaleSack
    <2> HIDE DEF r
    <2> QED  BY <1>12, <2>1, <2>2 DEF Buffer
  <1> DEFINE near == bu.sack_in_buffer => Told(bu.sack) - MaxAge < Bottom(r2)
  <1>13. ASSUME NEW h2, r2 \in Buffer, Grown(rxc, r2), Agrees(r2, h2, skipped), InWindow(r2, told),
                near
         PROVE  Views(r2, b2, told, phase, h2, skipped)
    <2> HIDE DEF r2, b2
    <2>1. /\ Ready(r2, told, h2, skipped)
          /\ /\ Leaves(bu, rxc, told, phase)
             /\ b2.sack = bu.sack \/ b2.sack = [bu.sack EXCEPT !.fresh = FALSE]
             /\ b2.sack_in_buffer = bu.sack_in_buffer /\ b2.got_send_request = bu.got_send_request
             /\ bu.sack_in_buffer => Told(bu.sack) - MaxAge < Bottom(r2)
             => Leaves(b2, r2, told, phase)
      BY <1>1, <1>11, <1>13, GrownKeeps
    <2> QED  BY <1>1, <1>11, <1>13, <2>1 DEF Views
  <1> HIDE DEF b2
  <1>14. CASE dropped \/ old
    <2>1. r = rxc \/ (n < Bottom(rxc) /\ r = [rxc EXCEPT !.lowest = tsn])
      BY <1>9, <1>14
    <2>2. /\ r \in Buffer /\ r.sack = rxc.sack /\ r.ctsna = rxc.ctsna /\ r.highest = rxc.highest
          /\ r.frag_list = rxc.frag_list
          /\ r.lowest = rxc.lowest \/ (n < Bottom(rxc) /\ r.lowest = tsn)
      <3> HIDE DEF r, tsn
      <3> QED  BY <1>1, <1>5, <2>1 DEF Buffer
    <2> HIDE DEF r
    <2>3. /\ r2 \in Buffer /\ r2.sack = [rxc.sack EXCEPT !.fresh = FALSE]
          /\ r2.ctsna = rxc.ctsna /\ r2.highest = rxc.highest /\ r2.frag_list = rxc.frag_list
          /\ r2.lowest = r.lowest
      BY <1>12, <2>2
    <2> HIDE DEF r2, tsn
    <2>4. Point(r2) = Point(rxc) /\ High(r2) = High(rxc)
      BY <2>3 DEF Point, High
    <2>5. Bottom(r2) = Bottom(rxc) \/ (n < Bottom(rxc) /\ Bottom(r2) = n)
      BY <1>5, <2>2, <2>3 DEF Bottom
    <2>6. /\ Told(told) <= Point(rxc) /\ Told(told) - MaxAge < Bottom(rxc)
          /\ Bottom(rxc) <= Point(rxc)
      BY <1>1 DEF Ready, InWindow
    <2>7. Agrees(r2, handed, skipped)
      BY <1>1, <2>3, <2>4 DEF Ready, Agrees
    <2>8. Told(told) - MaxAge < Bottom(r2) /\ Bottom(r2) <= Point(rxc)
      BY <1>2, <1>5, <2>5, <2>6
    <2>9. InWindow(r2, told)
      BY <1>1, <2>4, <2>8 DEF Ready, InWindow
    <2>10. Grown(rxc, r2)
      BY <1>5, <2>3, <2>4 DEF Grown
    <2>11. near
      <3> SUFFICES ASSUME bu.sack_in_buffer
                   PROVE  Told(bu.sack) - MaxAge < Bottom(r2)
        OBVIOUS
      <3>1. Told(bu.sack) \in Int
        BY <1>1, Numbers DEF Bundle
      <3>2. Told(bu.sack) <= Point(rxc) /\ Told(bu.sack) - MaxAge < Bottom(rxc)
        BY <1>1 DEF Leaves, Honest
      <3> QED  BY <1>2, <1>5, <2>5, <3>1, <3>2
    <2>12. Views(r2, b2, told, phase, handed, skipped)
      BY <1>13, <2>3, <2>7, <2>9, <2>10, <2>11
    <2>13. handed' = handed
      BY <1>4, <1>9, <1>14
    <2> QED  BY <1>4, <1>10, <1>14, <2>3, <2>12, <2>13
  <1>15. CASE ~ dropped /\ ~ old
    <2>1. PICK hi \in TSN, t \in TSN, fs \in Seq(Fragment) :
            /\ \/ n <= High(rxc) /\ hi = rxc.highest
               \/ High(rxc) < n /\ Position(hi) = n
            /\ Entered(rxc, n, Position(hi), t, fs)
            /\ r = WithHighest(rxc, hi, t, fs)
      BY <1>9, <1>15
    <2>2. /\ r \in Buffer /\ r.sack = rxc.sack /\ r.ctsna = t /\ r.highest = hi
          /\ r.frag_list = fs /\ r.lowest = rxc.lowest
      <3> HIDE DEF r
      <3> QED  BY <1>1, <2>1 DEF Buffer, WithHighest
    <2> HIDE DEF r
    <2>3. /\ r2 \in Buffer /\ r2.sack = [rxc.sack EXCEPT !.fresh = FALSE]
          /\ r2.ctsna = t /\ r2.highest = hi /\ r2.frag_list = fs /\ r2.lowest = rxc.lowest
      BY <1>12, <2>2
    <2> HIDE DEF r2
    <2>4. /\ Entered(rxc, n, High(r2), r2.ctsna, r2.frag_list)
          /\ \/ n <= High(rxc) /\ r2.highest = rxc.highest
             \/ High(rxc) < n /\ High(r2) = n
      BY <2>1, <2>3 DEF High
    <2> DEFINE h2 == [handed EXCEPT ![n] = @ + 1]
    <2>5. \A m \in Chunks : h2[m] > 0 <=> handed[m] > 0 \/ m = n
      <3>1. \A m \in Chunks : h2[m] = IF m = n THEN handed[m] + 1 ELSE handed[m]
        BY <1>1
      <3>2. \A m \in Chunks : handed[m] \in Nat
        BY <1>1
      <3> HIDE DEF h2
      <3> QED  BY <3>1, <3>2
    <2> HIDE DEF h2
    <2>6. /\ Agrees(r2, h2, skipped) /\ InWindow(r2, told)
          /\ Point(rxc) <= Point(r2) /\ High(rxc) <= High(r2)
          /\ \A m \in Chunks : m <= Point(r2) \/ m \in HeldIn(r2.frag_list)
                                 <=> m <= Point(rxc) \/ m \in HeldIn(rxc.frag_list) \/ m = n
      BY SMTT(30), <1>1, <1>2, <1>15, <2>3, <2>4, <2>5, EnteredView
    <2>7. Grown(rxc, r2)
      BY <2>3, <2>6 DEF Grown
    <2>8. near
      <3>1. Bottom(r2) = Bottom(rxc)
        BY <2>3 DEF Bottom
      <3> QED  BY <1>1, <3>1 DEF Leaves
    <2>9. Views(r2, b2, told, phase, h2, skipped)
      BY <1>13, <2>3, <2>6, <2>7, <2>8
    <2>10. handed' = h2
      BY <1>4, <1>9, <1>15 DEF h2
    <2> QED  BY <1>4, <1>15, <2>6, <2>9, <2>10 DEF h2
  <1> QED  BY <1>14, <1>15

\* The point moved to what the peer gave up, or over the fragment behind it, is the end of what
\* has come or was given up.
LEMMA AdvancedView ==
  ASSUME base \in TSN, NEW r, NEW t, NEW h \in [Chunks -> Nat], NEW s \in Nat, Ready(r, t, h, s),
         NEW n \in Chunks, n <= Told(t) + PeerWindow, n <= High(r) + MaxGivenUp, Point(r) < n,
         NEW r2 \in Buffer, r2.highest = r.highest, r2.lowest = r.lowest,
         n <= Point(r2), Point(r2) = n \/ Point(r2) <= High(r),
         InOrder(Point(r2), r2.frag_list, High(r)),
         \A m \in Chunks : m <= Point(r2) \/ m \in HeldIn(r2.frag_list)
                             <=> m <= n \/ m \in HeldIn(r.frag_list)
  PROVE  Agrees(r2, h, n) /\ InWindow(r2, t) /\ High(r2) = High(r)
  <1> DEFINE held(m) == m \in HeldIn(r.frag_list)
             held2(m) == m \in HeldIn(r2.frag_list)
  <1>1. /\ Point(r) \in Int /\ High(r) \in Int /\ Point(r2) \in Int /\ High(r2) = High(r)
        /\ n \in Int /\ n <= LastChunk /\ LastChunk \in Int /\ Told(t) \in Int
        /\ Bottom(r) \in Int /\ Bottom(r2) = Bottom(r)
        /\ PeerWindow \in Int /\ MaxGivenUp \in Nat /\ Chunks \subseteq Int
        /\ r.frag_list \in Seq(Fragment) /\ r2.frag_list \in Seq(Fragment)
    <2>1. High(r2) = High(r) /\ Bottom(r2) = Bottom(r)
      BY DEF High, Bottom
    <2> QED  BY <2>1, Numbers, Bounds DEF Ready
  <1>0. /\ n <= Told(t) + PeerWindow /\ n <= High(r) + MaxGivenUp /\ Point(r) < n
        /\ n <= Point(r2) /\ (Point(r2) = n \/ Point(r2) <= High(r))
    OBVIOUS
  <1>2. /\ Point(r) <= LastChunk /\ High(r) <= LastChunk /\ InOrder(Point(r), r.frag_list, High(r))
        /\ \A m \in Chunks : /\ h[m] > 0 => m <= High(r)
                             /\ m <= Point(r) => m <= s \/ h[m] > 0
                             /\ m > Point(r) => (held(m) <=> h[m] > 0)
        /\ s <= Point(r)
        /\ Told(t) <= Point(r) /\ Point(r) <= Told(t) + PeerWindow
        /\ High(r) <= Told(t) + PeerWindow
        /\ Told(t) - MaxAge < Bottom(r) /\ Bottom(r) <= Point(r)
    BY DEF Ready, Agrees, InWindow
  <1>3. \A m \in Chunks : held(m) => m > Point(r)
    <2> DEFINE p == Point(r)
               q == High(r)
               gs == r.frag_list
    <2>2. p \in Int /\ q \in Int /\ InOrder(p, gs, q) /\ gs \in Seq(Fragment)
      BY <1>1, <1>2
    <2> HIDE DEF p, q, gs
    <2>3. \A m \in HeldIn(gs) : p + 1 < m
      BY <2>2, HeldBeyond
    <2> QED  BY <1>1, <2>2, <2>3 DEF p, gs
  <1>4. \A m \in Chunks : held2(m) => m > Point(r2)
    <2> DEFINE p == Point(r2)
               q == High(r)
               gs == r2.frag_list
    <2>2. p \in Int /\ q \in Int /\ InOrder(p, gs, q) /\ gs \in Seq(Fragment)
      BY <1>1
    <2> HIDE DEF p, q, gs
    <2>3. \A m \in HeldIn(gs) : p + 1 < m
      BY <2>2, HeldBeyond
    <2> QED  BY <1>1, <2>2, <2>3 DEF p, gs
  <1>5. ASSUME NEW m \in Chunks
        PROVE  /\ h[m] > 0 => m <= High(r2)
               /\ m <= Point(r2) => m <= n \/ h[m] > 0
               /\ m > Point(r2) => (held2(m) <=> h[m] > 0)
    <2>1. /\ m <= Point(r2) \/ held2(m) <=> m <= n \/ held(m)
          /\ h[m] > 0 => m <= High(r)
          /\ m > Point(r) => (held(m) <=> h[m] > 0)
          /\ held(m) => m > Point(r)
          /\ m \in Int
      BY <1>1, <1>2, <1>3
    <2> HIDE DEF held, held2
    <2>2. m <= Point(r2) => m <= n \/ h[m] > 0
      BY <1>1, <2>1
    <2>3. m > Point(r2) => (held2(m) <=> h[m] > 0)
      <3>1. m > Point(r2) => m > Point(r) /\ ~ (m <= n)
        <4> DEFINE a == Point(r2)
                   b == Point(r)
        <4>1. a \in Int /\ b \in Int /\ m \in Int /\ n \in Int /\ b < n /\ n <= a
          BY <1>0, <1>1, <2>1
        <4> HIDE DEF a, b
        <4>2. m > a => m > b /\ ~ (m <= n)
          BY <4>1
        <4> QED  BY <4>2 DEF a, b
      <3> QED  BY <1>1, <2>1, <3>1
    <2> QED  BY <1>1, <2>1, <2>2, <2>3
  <1>6. /\ Point(r2) <= LastChunk /\ Point(r2) <= High(r2) + MaxGivenUp
        /\ Point(r2) <= Told(t) + PeerWindow /\ Told(t) <= Point(r2) /\ Bottom(r) <= Point(r2)
        /\ High(r2) < Point(r2) => Point(r2) = n
    <2> DEFINE a == Point(r2)
               b == Point(r)
               c == High(r)
               d == Told(t)
    <2>1. /\ a \in Int /\ b \in Int /\ c \in Int /\ d \in Int /\ n <= d + PeerWindow
          /\ n <= c + MaxGivenUp /\ b < n /\ n <= a /\ (a = n \/ a <= c)
          /\ b <= LastChunk /\ c <= LastChunk /\ d <= b /\ c <= d + PeerWindow /\ Bottom(r) <= b
          /\ n \in Int /\ n <= LastChunk /\ LastChunk \in Int /\ PeerWindow \in Int
          /\ MaxGivenUp \in Nat /\ Bottom(r) \in Int
      BY <1>0, <1>1, <1>2
    <2> HIDE DEF a, b, c, d
    <2>2. /\ a <= LastChunk /\ a <= c + MaxGivenUp /\ a <= d + PeerWindow /\ d <= a
          /\ Bottom(r) <= a /\ (c < a => a = n)
      <3>1. CASE a = n
        BY <2>1, <3>1
      <3>2. CASE a <= c
        BY <2>1, <3>2
      <3> QED  BY <2>1, <3>1, <3>2
    <2> QED  BY <1>1, <2>2 DEF a, c, d
  <1>7. Agrees(r2, h, n)
    BY <1>1, <1>2, <1>5, <1>6 DEF Agrees
  <1>8. InWindow(r2, t)
    BY <1>1, <1>2, <1>6 DEF InWindow
  <1> QED  BY <1>1, <1>7, <1>8

\* A FORWARD TSN moves the point over what the peer gave up (rxc_process_forward_tsn).
LEMMA ForwardView ==
  ASSUME TypeOK, Views(rxc, bu, told, phase, handed, skipped), NEW n \in Chunks, ForwardTSN(n)
  PROVE  /\ Views(rxc', bu', told', phase', handed', skipped')
         /\ Point(rxc) < n /\ n <= Point(rxc')
         /\ \A m \in Chunks : m <= Point(rxc') \/ m \in HeldIn(rxc'.frag_list)
                                <=> m <= n \/ m \in HeldIn(rxc.frag_list)
  <1> DEFINE tsn == Numbered(n)
             high == High(rxc)
             top == IF high < n THEN n ELSE high
             r == Advance(rxc, tsn)
             r2 == [r EXCEPT !.sack.fresh = FALSE]
             b2 == [bu EXCEPT !.sack.fresh = FALSE]
  <1>1. /\ base \in TSN /\ rxc \in Buffer /\ bu \in Bundle /\ told \in SACK
        /\ handed \in [Chunks -> Nat] /\ skipped \in Nat
        /\ Ready(rxc, told, handed, skipped) /\ Leaves(bu, rxc, told, phase)
    <2>1. skipped \in Nat
      BY DEF TypeOK, Chunks
    <2> QED  BY <2>1 DEF TypeOK, Buffer, Bundle, Views
  <1>2. /\ n <= high + MaxGivenUp /\ n > Point(rxc) - MaxAge /\ n <= Told(told) + PeerWindow
        /\ ~ After(rxc.ctsna, tsn) /\ tsn # rxc.ctsna
        /\ rxc' = r2 /\ bu' = b2 /\ told' = told /\ handed' = handed /\ skipped' = n
        /\ phase = "chunks" /\ phase' = "forwarding"
    BY DEF ForwardTSN, Point, Told, High
  <1>3. Comparable(rxc, n)
    BY <1>1, <1>2, Near
  <1>4. /\ Point(rxc) \in Int /\ high \in Int /\ n \in Int /\ n \in 0..(Modulus - 1)
        /\ tsn \in TSN /\ Position(tsn) = n /\ rxc.ctsna \in TSN /\ MaxAge \in Int
        /\ Modulus \in Int
    <2>1. n \in Int /\ n \in 0..(Modulus - 1) /\ MaxAge \in Int /\ Modulus \in Int
      BY <1>1, Numbers, Bounds
    <2>2. tsn \in TSN /\ Position(tsn) = n
      BY <1>1, <2>1, Neighbours
    <2>3. Point(rxc) \in Int /\ high \in Int /\ rxc.ctsna \in TSN
      BY <1>1, Numbers
    <2> QED  BY <2>1, <2>2, <2>3
  <1> HIDE DEF tsn, high
  <1>5. Point(rxc) < n
    <2>1. 2 * (Point(rxc) - n) <= Modulus /\ 2 * (n - Point(rxc)) < Modulus
      <3>1. 2 * (n - Point(rxc)) < Modulus
        BY <1>3 DEF Comparable
      <3>2. Point(rxc) - n < MaxAge
        BY <1>2, <1>4
      <3>3. MaxAge \in Nat /\ 2 * MaxAge <= Modulus
        BY <1>4, Bounds
      <3> QED  BY <1>4, <3>1, <3>2, <3>3
    <2>2. After(rxc.ctsna, tsn) <=> n < Point(rxc)
      BY <1>1, <1>4, <2>1, Compare DEF Point
    <2>3. n # Point(rxc)
      BY <1>1, <1>2, <1>4, Differences DEF Point
    <2> QED  BY <1>2, <1>4, <2>2, <2>3
  <1>6. Sound(rxc, top) /\ InOrder(Point(rxc), rxc.frag_list, high) /\ high <= top /\ n <= top
        /\ top \in Int
    <2>1. InOrder(Point(rxc), rxc.frag_list, high)
      BY <1>1 DEF Ready, Agrees, high
    <2>2. top \in Int /\ high <= top /\ n <= top /\ Point(rxc) <= top /\ (top = n \/ top = high)
      BY <1>4, <1>5
    <2>3. top + 1 < Modulus /\ 2 * (top - Point(rxc)) < Modulus
      BY <1>3, <2>2 DEF Comparable, high, High
    <2> HIDE DEF top
    <2>4. InOrder(Point(rxc), rxc.frag_list, top)
      <3>1. \A i \in 1..Len(rxc.frag_list) : Stop(rxc.frag_list, i) \in Int
        BY <1>1, Numbers, Ends
      <3> QED  BY <1>4, <2>1, <2>2, <3>1 DEF InOrder
    <2> QED  BY <1>1, <2>1, <2>2, <2>3, <2>4 DEF Sound
  <1> HIDE DEF top
  <1>7. PICK t \in TSN, fs \in Seq(Fragment) :
          /\ r = WithList(rxc, t, fs)
          /\ Position(tsn) <= Position(t) /\ (t = tsn \/ Position(t) <= high)
          /\ InOrder(Position(t), fs, high)
          /\ \A m \in Chunks : m <= Position(t) \/ m \in HeldIn(fs)
                                 <=> m <= Position(tsn) \/ m \in HeldIn(rxc.frag_list)
    BY <1>1, <1>4, <1>5, <1>6, AdvanceView
  <1>8. /\ r \in Buffer /\ r.sack = rxc.sack /\ r.ctsna = t /\ r.highest = rxc.highest
        /\ r.frag_list = fs /\ r.lowest = rxc.lowest
    <2> HIDE DEF r
    <2> QED  BY <1>1, <1>7 DEF Buffer, WithList
  <1> HIDE DEF r
  <1>9. /\ r2 \in Buffer /\ r2.sack = [rxc.sack EXCEPT !.fresh = FALSE] /\ r2.ctsna = t
        /\ r2.highest = rxc.highest /\ r2.frag_list = fs /\ r2.lowest = rxc.lowest
    <2>1. [r.sack EXCEPT !.fresh = FALSE] \in SACK
      BY <1>8 DEF Buffer, SACK
    <2>2. [r EXCEPT !.sack = [r.sack EXCEPT !.fresh = FALSE]] \in Buffer
      BY <1>8, <2>1 DEF Buffer
    <2>3. r2.sack = [rxc.sack EXCEPT !.fresh = FALSE]
      BY <1>8, StaleSack
    <2> QED  BY <1>8, <2>2, <2>3 DEF Buffer
  <1>10. /\ b2 \in Bundle /\ b2.sack = [bu.sack EXCEPT !.fresh = FALSE]
         /\ b2.sack_in_buffer = bu.sack_in_buffer /\ b2.got_send_request = bu.got_send_request
    BY <1>1, StaleSack
  <1> HIDE DEF r2, b2
  <1>11. /\ Point(r2) \in Int /\ n <= Point(r2) /\ (Point(r2) = n \/ Point(r2) <= high)
         /\ InOrder(Point(r2), r2.frag_list, high)
         /\ \A m \in Chunks : m <= Point(r2) \/ m \in HeldIn(r2.frag_list)
                                <=> m <= n \/ m \in HeldIn(rxc.frag_list)
    <2>1. Point(r2) = Position(t)
      BY <1>9 DEF Point
    <2>2. Point(r2) \in Int
      BY <1>1, <1>9, Numbers
    <2> QED  BY <1>4, <1>7, <1>9, <2>1, <2>2
  <1>12. Agrees(r2, handed, n) /\ InWindow(r2, told) /\ High(r2) = High(rxc)
    BY <1>1, <1>2, <1>5, <1>9, <1>11, AdvancedView DEF high
  <1>13. Grown(rxc, r2)
    <2>1. \A m \in Chunks : m <= Point(rxc) => m <= n
      BY <1>1, <1>4, <1>5, Numbers
    <2>2. Point(rxc) <= Point(r2) /\ High(rxc) <= High(r2)
      BY <1>4, <1>5, <1>11, <1>12 DEF high
    <2> QED  BY <1>9, <1>11, <2>1, <2>2 DEF Grown
  <1>14. bu.sack_in_buffer => Told(bu.sack) - MaxAge < Bottom(r2)
    <2>1. Bottom(r2) = Bottom(rxc)
      BY <1>9 DEF Bottom
    <2> QED  BY <1>1, <2>1 DEF Leaves
  <1>15. Ready(r2, told, handed, n) /\ Leaves(b2, r2, told, phase)
    BY <1>1, <1>10, <1>12, <1>13, <1>14, GrownKeeps
  <1>16. Leaves(b2, r2, told, phase')
    BY <1>2, <1>15 DEF Leaves
  <1> QED  BY <1>2, <1>5, <1>10, <1>11, <1>15, <1>16 DEF Views

\* A new receive control holds nothing, and its peer was told of nothing.
Begun ==
  /\ base \in TSN /\ rxc = Initial(base) /\ told = rxc.sack
  /\ bu \in Bundle /\ ~ bu.sack_in_buffer
  /\ handed = [n \in Chunks |-> 0] /\ skipped = 0

LEMMA Begins ==
  Begun => /\ Views(rxc, bu, told, phase, handed, skipped)
           /\ Point(rxc) = 0 /\ HeldIn(rxc.frag_list) = {}
           /\ Told(told) = 0 /\ Reported(told) = {}
  <1> SUFFICES ASSUME Begun
               PROVE  /\ Views(rxc, bu, told, phase, handed, skipped)
                      /\ Point(rxc) = 0 /\ HeldIn(rxc.frag_list) = {}
                      /\ Told(told) = 0 /\ Reported(told) = {}
    OBVIOUS
  <1> DEFINE before == Minus(base, 1)
  <1>1. base \in TSN /\ rxc = Initial(base) /\ rxc \in Buffer /\ told = rxc.sack /\ told \in SACK
    <2>1. base \in TSN /\ rxc = Initial(base) /\ told = rxc.sack
      BY DEF Begun
    <2>2. rxc \in Buffer
      <3>1. Initial(base) \in Buffer
        BY <2>1, InitialBuffer
      <3> QED  BY <2>1, <3>1
    <2>3. rxc.sack \in SACK
      BY <2>2 DEF Buffer
    <2> QED  BY <2>1, <2>2, <2>3
  <1>2. before \in TSN /\ Position(before) = 0
    <2>1. Modulus \in Nat /\ Modulus > 3 /\ base \in 0..(Modulus - 1)
      BY <1>1, ModulusAssumption DEF TSN
    <2>2. before = IF base - 1 < 0 THEN base - 1 + Modulus ELSE base - 1
      BY <2>1, ModIsLinear DEF Minus
    <2>3. before \in TSN
      BY <2>1, <2>2 DEF TSN
    <2> HIDE DEF before
    <2>4. Position(before)
            = IF before >= base - 1 /\ before - (base - 1) < Modulus THEN before - (base - 1)
              ELSE IF before >= base - 1 THEN before - (base - 1) - Modulus
              ELSE before - (base - 1) + Modulus
      BY <1>1, <2>3, PositionOf
    <2>5. Position(before) = 0
      BY <2>1, <2>2, <2>4
    <2> QED  BY <2>3, <2>5
  <1>3. /\ rxc.ctsna = before /\ rxc.highest = before /\ rxc.lowest = before
        /\ rxc.frag_list = <<>> /\ told.ctsna = before /\ told.gaps = <<>>
    BY <1>1 DEF Initial
  <1> HIDE DEF before
  <1>4. /\ Point(rxc) = 0 /\ High(rxc) = 0 /\ Bottom(rxc) = 0 /\ Told(told) = 0
        /\ HeldIn(rxc.frag_list) = {} /\ Reported(told) = {}
    <2>1. HeldIn(rxc.frag_list) = {}
      BY <1>3 DEF HeldIn
    <2>2. Reported(told) = {}
      BY <1>3 DEF Reported
    <2> QED  BY <1>2, <1>3, <2>1, <2>2 DEF Point, High, Bottom, Told
  <1>5. Agrees(rxc, handed, skipped)
    <2>1. InOrder(Point(rxc), rxc.frag_list, High(rxc))
      BY <1>3 DEF InOrder
    <2>2. LastChunk \in Nat /\ MaxGivenUp \in Nat /\ \A n \in Chunks : n \in Int /\ 1 <= n
      BY <1>1, Numbers, Bounds
    <2>3. skipped = 0 /\ \A n \in Chunks : handed[n] = 0
      BY DEF Begun
    <2> QED  BY <1>4, <2>1, <2>2, <2>3 DEF Agrees
  <1>6. InWindow(rxc, told)
    BY <1>4, Bounds DEF InWindow
  <1>7. Honest(rxc.sack, rxc, told)
    BY <1>1, <1>4 DEF Honest
  <1> QED  BY <1>1, <1>4, <1>5, <1>6, <1>7 DEF Views, Ready, Leaves, Begun

\* Building and sending SACKs, reading, and the begin and the end of a datagram change nothing of
\* what has come; a SACK that leaves tells of nothing else.
LEMMA QuietSteps ==
  ASSUME TypeOK, Views(rxc, bu, told, phase, handed, skipped),
         \/ BeginDatagram \/ ForwardTSNDone \/ EndChunks \/ EndDatagram \/ SackTimer \/ SendData
         \/ (\E k \in 1..MaxRead : Read(k)) \/ Close \/ UNCHANGED vars
  PROVE  /\ Views(rxc', bu', told', phase', handed', skipped')
         /\ rxc'.ctsna = rxc.ctsna /\ rxc'.frag_list = rxc.frag_list
         /\ handed' = handed /\ base' = base
         /\ told' = told \/ Honest(told', rxc, told)
  <1> DEFINE done == /\ Views(rxc', bu', told', phase', handed', skipped')
                     /\ rxc'.ctsna = rxc.ctsna /\ rxc'.frag_list = rxc.frag_list
                     /\ handed' = handed /\ base' = base
                     /\ told' = told \/ Honest(told', rxc, told)
  <1>1. /\ base \in TSN /\ rxc \in Buffer /\ bu \in Bundle /\ told \in SACK
        /\ queued \in Nat /\ hasData \in BOOLEAN
        /\ Ready(rxc, told, handed, skipped) /\ Leaves(bu, rxc, told, phase)
    BY DEF TypeOK, Buffer, Bundle, Views
  <1>2. ASSUME NEW r, Onward(rxc, r), Onward(r, rxc'),
               Views(rxc', bu', told', phase', handed, skipped),
               told' = told \/ Honest(told', r, told),
               handed' = handed, skipped' = skipped, base' = base
        PROVE  done
    <2>1. rxc'.ctsna = rxc.ctsna /\ rxc'.frag_list = rxc.frag_list
      BY <1>2 DEF Onward
    <2>2. Honest(told', r, told) => Honest(told', rxc, told)
      BY <1>2 DEF Onward, Honest, Point
    <2> QED  BY <1>2, <2>1, <2>2
  <1>3. Onward(rxc, rxc)
    <2>1. Bottom(rxc) \in Int /\ Told(rxc.sack) \in Int /\ Bottom(rxc) <= Point(rxc)
      BY <1>1, Numbers DEF Ready, InWindow
    <2> QED  BY <1>1, <2>1 DEF Onward
  <1>4. ASSUME NEW r, Onward(rxc, r), Ready(r, told, handed, skipped), ForceSack(r),
               UNCHANGED <<phase, base, handed, skipped>>
        PROVE  done
    <2>1. /\ Views(rxc', bu', told', phase', handed, skipped) /\ Onward(r, rxc')
          /\ told' = told \/ Honest(told', r, told)
      BY <1>1, <1>4, ForcedView
    <2> QED  BY <1>2, <1>4, <2>1
  <1>5. ASSUME NEW r, Onward(rxc, r), Ready(r, told, handed, skipped), Unlock(r, bu),
               UNCHANGED <<base, handed, skipped>>
        PROVE  done
    <2>1. Leaves(bu, r, told, phase)
      BY <1>1, <1>5, StillLeaves
    <2>2. /\ Views(rxc', bu', told', phase', handed, skipped) /\ Onward(r, rxc')
          /\ told' = told \/ Honest(told', r, told)
      BY <1>1, <1>5, <2>1, UnlockedView
    <2> QED  BY <1>2, <1>5, <2>2
  \* A SACK that waits while the sender is locked
  <1>6. ASSUME NEW r, Onward(rxc, r), Ready(r, told, handed, skipped), rxc' = r,
               bu' \in Bundle, Leaves(bu', r, told, phase'), told' = told,
               UNCHANGED <<base, handed, skipped>>
        PROVE  done
    <2>1. Onward(r, rxc')
      <3>1. Bottom(r) \in Int /\ Told(r.sack) \in Int /\ Bottom(r) <= Point(r)
        BY <1>1, <1>6, Numbers DEF Ready, InWindow
      <3> QED  BY <1>6, <3>1 DEF Onward
    <2>2. Views(rxc', bu', told', phase', handed, skipped)
      BY <1>6 DEF Views
    <2> QED  BY <1>2, <1>6, <2>1, <2>2
  \* The SACK just built is put into the bundling buffer
  <1>7. ASSUME NEW r, Ready(r, told, handed, skipped), NEW x, Onward(Put(r), x),
               Ready(x, told, handed, skipped), x.sack = r.sack, phase' # "idle",
               bu' = [sack |-> r.sack, sack_in_buffer |-> TRUE, got_send_request |-> TRUE]
        PROVE  bu' \in Bundle /\ Leaves(bu', x, told, phase')
    <2>1. /\ r \in Buffer /\ x \in Buffer /\ r.sack \in SACK /\ Point(r) \in Int
          /\ Told(r.sack) \in Int /\ MaxAge \in Nat \ {0} /\ Told(r.sack) <= Point(r)
      BY <1>1, <1>7, Numbers, Bounds DEF Ready, Honest
    <2>2. /\ Bottom(Put(r)) = Point(r) /\ Bottom(x) \in Int /\ Bottom(Put(r)) <= Bottom(x)
      BY <1>1, <1>7, <2>1, TimerView, Numbers DEF Onward
    <2>3. Told(r.sack) - MaxAge < Bottom(x) /\ Told(r.sack) <= Told(x.sack)
      BY <1>7, <2>1, <2>2
    <2>4. Honest(r.sack, x, told)
      BY <1>7 DEF Ready
    <2>5. /\ bu' \in Bundle /\ bu'.sack = r.sack /\ bu'.got_send_request
      BY <1>7, <2>1 DEF Bundle
    <2> QED  BY <1>7, <2>3, <2>4, <2>5 DEF Leaves
  <1> SUFFICES done
    OBVIOUS
  <1> HIDE DEF done
  <1>8. CASE BeginDatagram
    <2>1. /\ phase = "idle" /\ rxc' = rxc /\ told' = told /\ UNCHANGED <<base, handed, skipped>>
          /\ bu' = [bu EXCEPT !.got_send_request = FALSE]
      BY <1>8 DEF BeginDatagram
    <2>2. bu' \in Bundle /\ ~ bu'.sack_in_buffer
      BY <1>1, <2>1 DEF Bundle, Leaves
    <2>3. Leaves(bu', rxc, told, phase')
      BY <2>2 DEF Leaves
    <2> QED  BY <1>1, <1>3, <1>6, <2>1, <2>2, <2>3
  <1>9. CASE ForwardTSNDone
    <2> DEFINE r == AllChunksProcessed(rxc, queued', TRUE)
    <2>1. /\ rxc' = r /\ told' = told /\ UNCHANGED <<base, handed, skipped>> /\ queued' \in Nat
          /\ bu' = [bu EXCEPT !.sack.fresh = FALSE] /\ phase' # "idle"
      BY <1>1, <1>9 DEF ForwardTSNDone
    <2>2. Onward(rxc, r) /\ Ready(r, told, handed, skipped)
      BY <1>1, <2>1, BuildView
    <2> HIDE DEF r
    <2> DEFINE b2 == [bu EXCEPT !.sack.fresh = FALSE]
    <2>3. /\ b2 \in Bundle /\ b2.sack = [bu.sack EXCEPT !.fresh = FALSE]
          /\ b2.sack_in_buffer = bu.sack_in_buffer /\ b2.got_send_request = bu.got_send_request
          /\ Told(b2.sack) = Told(bu.sack) /\ Reported(b2.sack) = Reported(bu.sack)
      <3>1. bu.sack \in SACK
        BY <1>1 DEF Bundle
      <3> QED  BY <1>1, <3>1, StaleSack
    <2> HIDE DEF b2
    <2>4. Leaves(bu, r, told, phase)
      BY <1>1, <2>2, StillLeaves
    <2>5. Leaves(b2, r, told, phase')
      BY <2>1, <2>3, <2>4 DEF Leaves, Honest
    <2>6. bu' = b2
      BY <2>1 DEF b2
    <2> QED  BY <1>6, <2>1, <2>2, <2>3, <2>5, <2>6
  <1>10. CASE EndChunks
    <2> DEFINE r == AllChunksProcessed(rxc, queued, hasData)
               p == Prepared(r, queued)
    <2>1. Onward(rxc, r) /\ Ready(r, told, handed, skipped)
      BY <1>1, BuildView
    <2>2. UNCHANGED <<base, handed, skipped>>
      BY <1>10 DEF EndChunks
    <2>3. CASE ~ hasData
      <3>1. Unlock(r, bu)
        BY <1>10, <2>3 DEF EndChunks
      <3> HIDE DEF r
      <3> QED  BY <1>5, <2>1, <2>2, <3>1
    <2>4. CASE hasData
      <3>1. /\ phase' = "notifying" /\ told' = told
            /\ \/ /\ rxc' = Put(p)
                  /\ bu' = [sack |-> p.sack, sack_in_buffer |-> TRUE, got_send_request |-> TRUE]
               \/ rxc' = p /\ bu' = bu
        BY <1>10, <2>4 DEF EndChunks
      <3> HIDE DEF r
      <3>2. Onward(r, p) /\ Ready(p, told, handed, skipped)
        BY <1>1, <2>1, BuildView
      <3> HIDE DEF p
      <3>3. Onward(rxc, p)
        BY <1>1, <2>1, <3>2, OnwardTwice
      <3>4. Onward(p, Put(p)) /\ Put(p).sack = p.sack /\ Ready(Put(p), told, handed, skipped)
        BY <1>1, <3>2, TimerView
      <3>5. CASE rxc' = p /\ bu' = bu
        <4>1. Leaves(bu, p, told, phase)
          BY <1>1, <3>3, <3>2, StillLeaves
        <4>2. Leaves(bu', p, told, phase')
          BY <3>1, <3>5, <4>1 DEF Leaves
        <4> QED  BY <1>1, <1>6, <2>2, <3>1, <3>2, <3>3, <3>5, <4>2
      <3>6. CASE /\ rxc' = Put(p)
                 /\ bu' = [sack |-> p.sack, sack_in_buffer |-> TRUE, got_send_request |-> TRUE]
        <4> DEFINE x == Put(p)
        <4>1. Onward(rxc, x) /\ x.sack = p.sack /\ Ready(x, told, handed, skipped) /\ rxc' = x
          BY <1>1, <3>3, <3>4, <3>6, OnwardTwice
        <4>2. Onward(Put(p), x)
          <5>1. Bottom(x) \in Int /\ Told(x.sack) \in Int /\ Bottom(x) <= Point(x) /\ x \in Buffer
            BY <1>1, <3>4, Numbers DEF Ready, InWindow
          <5> QED  BY <5>1 DEF Onward
        <4>3. bu' \in Bundle /\ Leaves(bu', x, told, phase')
          <5>1. phase' # "idle"
            BY <3>1
          <5> HIDE DEF x
          <5> QED  BY <1>7, <3>2, <3>6, <4>1, <4>2, <5>1
        <4> HIDE DEF x
        <4> QED  BY <1>6, <2>2, <3>1, <4>1, <4>3
      <3> QED  BY <3>1, <3>5, <3>6
    <2> QED  BY <2>3, <2>4
  <1>11. CASE EndDatagram
    <2>1. Unlock(rxc, bu) /\ UNCHANGED <<base, handed, skipped>>
      BY <1>11 DEF EndDatagram
    <2> QED  BY <1>1, <1>3, <1>5, <2>1
  <1>12. CASE SackTimer
    <2> DEFINE r == [rxc EXCEPT !.timer_running = FALSE]
               p == Prepared(r, queued)
    <2>1. ForceSack(p) /\ UNCHANGED <<phase, base, handed, skipped>>
      BY <1>12 DEF SackTimer
    <2>2. Onward(rxc, r) /\ Ready(r, told, handed, skipped)
      BY <1>1, TimerView
    <2> HIDE DEF r
    <2>3. Onward(r, p) /\ Ready(p, told, handed, skipped)
      BY <1>1, <2>2, BuildView
    <2> HIDE DEF p
    <2>4. Onward(rxc, p)
      BY <1>1, <2>2, <2>3, OnwardTwice
    <2> QED  BY <1>4, <2>1, <2>3, <2>4
  <1>13. CASE SendData
    <2> DEFINE p == Prepared(rxc, queued)
    <2>1. ForceSack(p) /\ UNCHANGED <<phase, base, handed, skipped>>
      BY <1>13 DEF SendData
    <2>2. Onward(rxc, p) /\ Ready(p, told, handed, skipped)
      BY <1>1, BuildView
    <2> HIDE DEF p
    <2> QED  BY <1>4, <2>1, <2>2
  <1>14. ASSUME NEW k \in 1..MaxRead, Read(k)
         PROVE  done
    <2> DEFINE left == queued - k
               r == AllChunksProcessed(rxc, left, FALSE)
               p == Prepared(r, left)
               opens == queued <= MyRwnd /\ MyRwnd - queued < 2 /\ MyRwnd - left >= 2
    <2>1. /\ left \in Nat /\ UNCHANGED <<phase, base, handed, skipped>>
          /\ phase \in {"idle", "forwarding", "notifying"}
      BY <1>1, <1>14, ReceiveAssumption DEF Read
    <2>2. CASE opens /\ phase = "idle"
      <3>1. ForceSack(p)
        BY <1>14, <2>2 DEF Read
      <3> HIDE DEF left
      <3>2. Onward(rxc, r) /\ Ready(r, told, handed, skipped)
        BY <1>1, <2>1, BuildView
      <3> HIDE DEF r
      <3>3. Onward(r, p) /\ Ready(p, told, handed, skipped)
        BY <1>1, <2>1, <3>2, BuildView
      <3> HIDE DEF p
      <3>4. Onward(rxc, p)
        BY <1>1, <3>2, <3>3, OnwardTwice
      <3> QED  BY <1>4, <2>1, <3>1, <3>3, <3>4
    <2>3. CASE opens /\ phase # "idle"
      <3>1. /\ rxc' = StopSackTimer(Put(p)) /\ told' = told
            /\ bu' = [sack |-> p.sack, sack_in_buffer |-> TRUE, got_send_request |-> TRUE]
        BY <1>14, <2>3 DEF Read
      <3> HIDE DEF left
      <3>2. Onward(rxc, r) /\ Ready(r, told, handed, skipped)
        BY <1>1, <2>1, BuildView
      <3> HIDE DEF r
      <3>3. Onward(r, p) /\ Ready(p, told, handed, skipped)
        BY <1>1, <2>1, <3>2, BuildView
      <3> HIDE DEF p
      <3>4. Onward(rxc, p)
        BY <1>1, <3>2, <3>3, OnwardTwice
      <3>5. Onward(p, Put(p)) /\ Put(p).sack = p.sack /\ Ready(Put(p), told, handed, skipped)
        BY <1>1, <3>3, TimerView
      <3> DEFINE y == Put(p)
                 x == StopSackTimer(y)
      <3>6. Onward(p, y) /\ y.sack = p.sack /\ Ready(y, told, handed, skipped)
        BY <3>5
      <3> HIDE DEF y
      <3>7. Onward(y, x) /\ x.sack = y.sack /\ Ready(x, told, handed, skipped)
        BY <1>1, <3>6, TimerView DEF StopSackTimer
      <3>8. rxc' = x /\ Onward(Put(p), x)
        BY <3>1, <3>7 DEF y
      <3> HIDE DEF x
      <3>9. Onward(rxc, y)
        BY <1>1, <3>4, <3>6, OnwardTwice
      <3>10. Onward(rxc, x)
        BY <1>1, <3>7, <3>9, OnwardTwice
      <3>11. bu' \in Bundle /\ Leaves(bu', x, told, phase')
        <4>1. x.sack = p.sack /\ phase' # "idle"
          BY <2>1, <2>3, <3>6, <3>7
        <4> QED  BY <1>7, <3>1, <3>3, <3>7, <3>8, <4>1
      <3> QED  BY <1>6, <2>1, <3>1, <3>7, <3>8, <3>10, <3>11
    <2>4. CASE ~ opens
      <3>1. rxc' = [r EXCEPT !.timer_running = TRUE] /\ told' = told /\ bu' = bu
        BY <1>14, <2>4 DEF Read
      <3> HIDE DEF left
      <3>2. Onward(rxc, r) /\ Ready(r, told, handed, skipped)
        BY <1>1, <2>1, BuildView
      <3> HIDE DEF r
      <3> DEFINE x == [r EXCEPT !.timer_running = TRUE]
      <3>3. Onward(r, x) /\ Ready(x, told, handed, skipped)
        BY <1>1, <3>2, TimerView
      <3>4. rxc' = x
        BY <3>1
      <3> HIDE DEF x
      <3>5. Onward(rxc, x)
        BY <1>1, <3>2, <3>3, OnwardTwice
      <3>6. Leaves(bu', x, told, phase')
        <4>1. Leaves(bu, x, told, phase)
          BY <1>1, <3>3, <3>5, StillLeaves
        <4> QED  BY <2>1, <3>1, <4>1
      <3> QED  BY <1>1, <1>6, <2>1, <3>1, <3>3, <3>4, <3>5, <3>6
    <2> QED  BY <2>2, <2>3, <2>4
  <1>15. CASE Close
    <2>1. rxc' = rxc /\ bu' = bu /\ told' = told /\ UNCHANGED <<phase, base, handed, skipped>>
      BY <1>15 DEF Close
    <2> QED  BY <1>1, <1>3, <1>6, <2>1
  <1>16. CASE UNCHANGED vars
    <2>1. rxc' = rxc /\ bu' = bu /\ told' = told /\ UNCHANGED <<phase, base, handed, skipped>>
      BY <1>16 DEF vars
    <2> QED  BY <1>1, <1>3, <1>6, <2>1
  <1> QED
    BY <1>8, <1>9, <1>10, <1>11, <1>12, <1>13, <1>14, <1>15, <1>16

-----------------------------------------------------------------------------
(* The invariant is kept *)

\* While the association is not restarted, a TSN stands for the same chunk.
LEMMA SameBase ==
  ASSUME base' = base
  PROVE  /\ Views(rxc', bu', told', phase', handed', skipped')
              => Views(rxc, bu, told, phase, handed, skipped)'
         /\ Point(rxc)' = Point(rxc') /\ HeldIn(rxc.frag_list)' = HeldIn(rxc'.frag_list)
         /\ Told(told)' = Told(told') /\ Reported(told)' = Reported(told')
  <1>1. Point(rxc)' = Point(rxc') /\ High(rxc)' = High(rxc') /\ Bottom(rxc)' = Bottom(rxc')
    BY DEF Point, High, Bottom, Position
  <1>2. HeldIn(rxc.frag_list)' = HeldIn(rxc'.frag_list)
    BY DEF HeldIn, Start, Stop, Position
  <1>3. /\ Told(told)' = Told(told') /\ Told(rxc.sack)' = Told(rxc'.sack)
        /\ Told(bu.sack)' = Told(bu'.sack)
    BY DEF Told, Position
  <1>4. /\ Reported(told)' = Reported(told') /\ Reported(rxc.sack)' = Reported(rxc'.sack)
        /\ Reported(bu.sack)' = Reported(bu'.sack)
    BY DEF Reported, Told, Position
  <1>5. InOrder(Point(rxc), rxc.frag_list, High(rxc))'
          <=> InOrder(Point(rxc'), rxc'.frag_list, High(rxc'))
    BY DEF InOrder, Start, Stop, Point, High, Position
  <1>6. Agrees(rxc', handed', skipped') => Agrees(rxc, handed, skipped)'
    BY <1>1, <1>2, <1>5 DEF Agrees
  <1>7. InWindow(rxc', told') => InWindow(rxc, told)'
    BY <1>1, <1>3 DEF InWindow
  <1>8. Honest(rxc'.sack, rxc', told') => Honest(rxc.sack, rxc, told)'
    BY <1>1, <1>2, <1>3, <1>4 DEF Honest
  <1>9. Honest(bu'.sack, rxc', told') => Honest(bu.sack, rxc, told)'
    BY <1>1, <1>2, <1>3, <1>4 DEF Honest
  <1>10. Leaves(bu', rxc', told', phase') => Leaves(bu, rxc, told, phase)'
    BY <1>1, <1>3, <1>9 DEF Leaves
  <1>11. Ready(rxc', told', handed', skipped') => Ready(rxc, told, handed, skipped)'
    BY <1>6, <1>7, <1>8 DEF Ready, Buffer, SACK
  <1>12. Views(rxc', bu', told', phase', handed', skipped')
           => Views(rxc, bu, told, phase, handed, skipped)'
    BY <1>10, <1>11 DEF Views, Bundle, SACK
  <1> QED  BY <1>1, <1>2, <1>3, <1>4, <1>12

\* Every step keeps the invariant, as long as no FORWARD TSN overtakes what it covers.
LEMMA ReceiverIsKept == ReceiverInv /\ [Next]_vars /\ ~ Overtaking => ReceiverInv'
  <1> SUFFICES ASSUME ReceiverInv, [Next]_vars, ~ Overtaking
               PROVE  ReceiverInv'
    OBVIOUS
  <1>1. TypeOK /\ TypeOK' /\ Views(rxc, bu, told, phase, handed, skipped)
    BY TypesAreKept DEF ReceiverInv
  <1>2. CASE RestartReceiveControl
    <2>1. Begun'
      <3>1. bu' \in Bundle
        BY <1>1 DEF TypeOK, Bundle
      <3>2. base' \in TSN
        BY <1>1 DEF TypeOK
      <3>3. bu'.sack_in_buffer = bu.sack_in_buffer
        BY <1>1, <1>2 DEF RestartReceiveControl, TypeOK
      <3> QED  BY <1>2, <3>1, <3>2, <3>3 DEF RestartReceiveControl, Begun
    <2>2. Views(rxc, bu, told, phase, handed, skipped)'
      BY <2>1, Begins, PTL
    <2> QED  BY <1>1, <2>2 DEF ReceiverInv
  <1>3. ASSUME base' = base, Views(rxc', bu', told', phase', handed', skipped')
        PROVE  ReceiverInv'
    BY <1>1, <1>3, SameBase DEF ReceiverInv
  <1>4. ASSUME NEW n \in Chunks, DataChunk(n)
        PROVE  ReceiverInv'
    <2>1. base' = base
      BY <1>4 DEF DataChunk
    <2>2. Views(rxc', bu', told', phase', handed', skipped')
      BY <1>1, <1>4, DataView
    <2> QED  BY <1>3, <2>1, <2>2
  <1>5. ASSUME NEW n \in Chunks, ForwardTSN(n)
        PROVE  ReceiverInv'
    <2>1. base' = base
      BY <1>5 DEF ForwardTSN
    <2>2. Views(rxc', bu', told', phase', handed', skipped')
      BY <1>1, <1>5, ForwardView
    <2> QED  BY <1>3, <2>1, <2>2
  <1>6. CASE \/ BeginDatagram \/ ForwardTSNDone \/ EndChunks \/ EndDatagram \/ SackTimer \/ SendData
             \/ (\E k \in 1..MaxRead : Read(k)) \/ Close \/ UNCHANGED vars
    BY <1>1, <1>3, <1>6, QuietSteps
  <1> QED  BY <1>2, <1>4, <1>5, <1>6 DEF Next

\* The invariant holds at the start.
LEMMA ReceiverBegins == Init => ReceiverInv
  <1> SUFFICES ASSUME Init
               PROVE  ReceiverInv
    OBVIOUS
  <1>1. TypeOK
    BY InitialTypes
  <1>2. Begun
    <2>1. bu \in Bundle /\ base \in TSN
      BY <1>1 DEF TypeOK, Bundle
    <2> QED  BY <2>1 DEF Init, Begun
  <1> QED  BY <1>1, <1>2, Begins DEF ReceiverInv

-----------------------------------------------------------------------------
(* The theorems *)

\* As long as no FORWARD TSN overtakes a chunk it covers, the invariant holds: for any width of the
\* serial numbers and any initial TSN the list of fragments stands for the chunks that have come,
\* all TSNs are close enough to be compared, and no SACK that is built, waits or was sent is ahead
\* of what has come.
THEOREM ReceiverInvariant ==
  ASSUME ~ Overtaking
  PROVE  Spec => []ReceiverInv
  <1>1. ReceiverInv /\ [Next]_vars => ReceiverInv'
    BY ReceiverIsKept
  <1> QED  BY <1>1, ReceiverBegins, PTL DEF Spec

\* What the invariant says of the lists, chunk by chunk.
LEMMA RunsOfChunks == ReceiverInv => FragmentsAreRuns
  <1> SUFFICES ASSUME ReceiverInv
               PROVE  FragmentsAreRuns
    OBVIOUS
  <1> DEFINE point == Point(rxc)
             fs == rxc.frag_list
             len == Len(fs)
             high == High(rxc)
             come == {n \in Chunks : n > point /\ handed[n] > 0}
             first(i) == Start(fs, i)
             last(i) == Stop(fs, i)
  <1>1. /\ base \in TSN /\ rxc \in Buffer /\ handed \in [Chunks -> Nat]
        /\ Agrees(rxc, handed, skipped)
    BY DEF ReceiverInv, TypeOK, Buffer, Views, Ready
  <1>2. /\ point \in Int /\ high \in Int /\ fs \in Seq(Fragment) /\ len \in Nat
        /\ DOMAIN fs = 1..len /\ Chunks = 1..LastChunk /\ LastChunk \in Int
        /\ point >= 0 /\ Chunks \subseteq Int
    <2>1. point >= 0
      BY <1>1, PositionOf DEF Buffer, Point
    <2> QED  BY <1>1, <2>1, Numbers, LenProperties DEF Chunks
  <1>3. /\ high <= LastChunk /\ InOrder(point, fs, high) /\ skipped <= point
        /\ \A n \in Chunks : /\ n <= point => n <= skipped \/ handed[n] > 0
                             /\ n > point => (n \in HeldIn(fs) <=> handed[n] > 0)
    BY <1>1 DEF Agrees
  <1>4. \A i \in 1..len : /\ first(i) \in Int /\ last(i) \in Int /\ point + 1 < first(i)
                          /\ first(i) <= last(i) /\ last(i) <= high
    BY <1>1, <1>2, <1>3, Ends DEF InOrder
  <1>5. \A i, j \in 1..len : i < j => last(i) + 1 < first(j)
    BY <1>3 DEF InOrder
  <1> HIDE DEF point, fs, len, high, first, last
  <1>6. HeldIn(fs) = {n \in Chunks : \E i \in 1..len : first(i) <= n /\ n <= last(i)}
    BY DEF HeldIn, first, last, len
  <1>7. come = HeldIn(fs)
    <2>1. \A n \in HeldIn(fs) : n \in Chunks /\ n > point
      BY <1>2, <1>4, <1>6
    <2> QED  BY <1>2, <1>3, <2>1
  <1> HIDE DEF come
  <1>8. ASSUME NEW n \in Chunks
        PROVE  (n <= point => Covered(n)) /\ (n = point + 1 => ~ Covered(n))
    <2>1. n <= point => Covered(n)
      BY <1>3 DEF Covered
    <2>2. ASSUME n = point + 1 PROVE ~ Covered(n)
      <3>1. n > point /\ ~ (n <= skipped)
        <4>1. skipped \in Int
          BY <1>2 DEF ReceiverInv, TypeOK
        <4> QED  BY <1>2, <1>3, <2>2, <4>1
      <3>2. n \notin HeldIn(fs)
        BY <1>2, <1>4, <1>6, <2>2
      <3> QED  BY <1>3, <3>1, <3>2 DEF Covered
    <2> QED  BY <2>1, <2>2
  <1>9. ASSUME NEW i \in 1..len
        PROVE  /\ first(i) <= last(i) /\ first(i)..last(i) \subseteq come
               /\ first(i) - 1 \notin come /\ last(i) + 1 \notin come
    <2>1. \A n \in first(i)..last(i) : n \in HeldIn(fs)
      <3> SUFFICES ASSUME NEW n \in first(i)..last(i)
                   PROVE  n \in HeldIn(fs)
        OBVIOUS
      <3>1. n \in Int /\ first(i) <= n /\ n <= last(i) /\ 1 <= n /\ n <= LastChunk
        BY <1>2, <1>3, <1>4
      <3> QED  BY <1>2, <1>6, <3>1
    <2>2. ASSUME NEW j \in 1..len, NEW n \in Int, first(j) <= n, n <= last(j)
          PROVE  n # first(i) - 1 /\ n # last(i) + 1
      <3>1. CASE j < i
        <4>1. last(j) + 1 < first(i)
          BY <1>5, <3>1
        <4> QED  BY <1>4, <2>2, <4>1
      <3>2. CASE i < j
        <4>1. last(i) + 1 < first(j)
          BY <1>5, <3>2
        <4> QED  BY <1>4, <2>2, <4>1
      <3>3. CASE i = j
        BY <1>4, <2>2, <3>3
      <3> QED  BY <1>2, <3>1, <3>2, <3>3
    <2>3. first(i) - 1 \notin HeldIn(fs) /\ last(i) + 1 \notin HeldIn(fs)
      BY <1>2, <1>6, <2>2
    <2> QED  BY <1>4, <1>7, <2>1, <2>3
  <1>10. ASSUME NEW i \in 1..len, NEW j \in 1..len, i < j PROVE last(i) < first(j)
    <2>1. last(i) + 1 < first(j)
      BY <1>5, <1>10
    <2> QED  BY <1>4, <2>1
  <1>11. \A n \in come : \E i \in 1..len : n \in first(i)..last(i)
    BY <1>2, <1>4, <1>6, <1>7
  <1> DEFINE list == DOMAIN rxc.frag_list
  <1>12. list = 1..len
    BY <1>2 DEF fs
  <1>13. /\ \A n \in Chunks : (n <= point => Covered(n)) /\ (n = point + 1 => ~ Covered(n))
         /\ \A i \in list : /\ first(i) <= last(i) /\ first(i)..last(i) \subseteq come
                            /\ first(i) - 1 \notin come /\ last(i) + 1 \notin come
         /\ \A i, j \in list : i < j => last(i) < first(j)
         /\ \A n \in come : \E i \in list : n \in first(i)..last(i)
    <2> HIDE DEF list
    <2> QED  BY <1>8, <1>9, <1>10, <1>11, <1>12
  <1> QED  BY <1>13 DEF FragmentsAreRuns, point, fs, come, first, last, list, Point, Start, Stop

\* The cumulative point is the last chunk up to which all have come or were given up, and the
\* fragments are, in order, the longest runs of chunks that have come beyond it, for any TSNs.
THEOREM FragmentsAlwaysRuns ==
  ASSUME ~ Overtaking
  PROVE  Spec => []FragmentsAreRuns
  BY ReceiverInvariant, RunsOfChunks, PTL

\* The cumulative TSN acknowledged never stands below a chunk that could be acknowledged with it
\* (rxc_bubbleup_ctsna).
THEOREM AlwaysTight ==
  ASSUME ~ Overtaking
  PROVE  Spec => []CumulativeIsTight
  <1>1. ReceiverInv => CumulativeIsTight
    <2> SUFFICES ASSUME ReceiverInv, NEW n \in Chunks, n = Position(rxc.ctsna) + 1
                 PROVE  handed[n] = 0
      BY DEF CumulativeIsTight
    <2>1. ~ (handed[n] > 0)
      BY RunsOfChunks DEF FragmentsAreRuns, Covered
    <2>2. handed[n] \in Nat
      BY DEF ReceiverInv, TypeOK
    <2> QED  BY <2>1, <2>2
  <1> QED  BY <1>1, ReceiverInvariant, PTL

\* A chunk that has not come is handed on once, unless the association is closing or the window is
\* closed and nothing beyond it has come: none is taken for a duplicate (rxc_data_chunk_rx).
THEOREM NewDataAlwaysTaken ==
  ASSUME ~ Overtaking
  PROVE  Spec => NewDataIsTaken
  <1> DEFINE Taken == \A n \in Chunks :
               DataChunk(n) /\ ~ closing /\ ~ Covered(n)
                 /\ (Window(queued) > 0 \/ \E m \in Chunks : m > n /\ handed[m] > 0)
               => handed'[n] = 1
  <1>1. ReceiverInv /\ [Next]_vars => [Taken]_vars
    <2> SUFFICES ASSUME ReceiverInv, NEW n \in Chunks, DataChunk(n), ~ closing, ~ Covered(n),
                        Window(queued) > 0 \/ \E m \in Chunks : m > n /\ handed[m] > 0
                 PROVE  handed'[n] = 1
      OBVIOUS
    <2>1. /\ TypeOK /\ Views(rxc, bu, told, phase, handed, skipped)
          /\ Agrees(rxc, handed, skipped) /\ rxc \in Buffer /\ base \in TSN
      BY DEF ReceiverInv, Views, Ready, TypeOK
    <2>2. /\ handed \in [Chunks -> Nat] /\ ~ (n <= skipped) /\ ~ (handed[n] > 0)
          /\ Point(rxc) \in Int /\ High(rxc) \in Int /\ Chunks \subseteq Int
      BY <2>1, Numbers DEF TypeOK, Covered
    <2>3. ~ (n <= Point(rxc)) /\ n \notin HeldIn(rxc.frag_list)
      <3>1. /\ n <= Point(rxc) => n <= skipped \/ handed[n] > 0
            /\ n > Point(rxc) => (n \in HeldIn(rxc.frag_list) <=> handed[n] > 0)
        BY <2>1 DEF Agrees
      <3> QED  BY <2>2, <3>1
    <2>4. ~ (High(rxc) < n /\ Window(queued) = 0)
      <3>1. \A m \in Chunks : handed[m] > 0 => m <= High(rxc)
        BY <2>1 DEF Agrees
      <3>2. Window(queued) = 0 => \E m \in Chunks : m > n /\ handed[m] > 0
        OBVIOUS
      <3> QED  BY <2>2, <3>1, <3>2
    <2>5. handed' = [handed EXCEPT ![n] = @ + 1]
      BY <2>1, <2>3, <2>4, DataView
    <2>6. handed[n] = 0
      BY <2>2
    <2> QED  BY <2>2, <2>5, <2>6
  <1>2. ReceiverInv /\ [Next]_vars => [\A n \in Chunks :
               DataChunk(n) /\ ~ closing /\ ~ Covered(n)
                 /\ (Window(queued) > 0 \/ \E m \in Chunks : m > n /\ handed[m] > 0)
               => handed'[n] = 1]_vars
    BY <1>1
  <1> QED  BY <1>2, ReceiverInvariant, PTL DEF Spec, NewDataIsTaken

-----------------------------------------------------------------------------
(* Refinement *)

\* What the abstract receiver's variables stand for.
Held ==
  {n \in Chunks : \E i \in DOMAIN rxc.frag_list :
     n \in Position(rxc.frag_list[i].start_tsn)..Position(rxc.frag_list[i].stop_tsn)}

(* What Settle of Receiver says of the point and the chunks after a step. *)
Settles(point, chunks, c, a) ==
  /\ c \in {point} \cup Chunks /\ c >= point
  /\ {i \in Chunks : i <= c} \ {i \in Chunks : i <= point} \subseteq chunks
  /\ c + 1 \notin chunks
  /\ a = {n \in chunks : n > c}

\* The fragments, as the runs of chunks that they are.
LEMMA HeldIsList == TypeOK => Held = HeldIn(rxc.frag_list)
  <1> SUFFICES ASSUME TypeOK
               PROVE  Held = HeldIn(rxc.frag_list)
    OBVIOUS
  <1> DEFINE fs == rxc.frag_list
  <1>1. base \in TSN /\ fs \in Seq(Fragment) /\ Chunks \subseteq Int
    BY Numbers DEF TypeOK
  <1>2. DOMAIN fs = 1..Len(fs) /\ \A i \in 1..Len(fs) : Start(fs, i) \in Int /\ Stop(fs, i) \in Int
    BY <1>1, LenProperties, Ends
  <1>3. Held = {n \in Chunks : \E i \in DOMAIN fs : n \in Start(fs, i)..Stop(fs, i)}
    BY DEF Held, Start, Stop
  <1> HIDE DEF fs
  <1>4. \A n \in Chunks : \A i \in 1..Len(fs) :
          n \in Start(fs, i)..Stop(fs, i) <=> Start(fs, i) <= n /\ n <= Stop(fs, i)
    BY <1>1, <1>2
  <1>5. HeldIn(fs) = {n \in Chunks : \E i \in 1..Len(fs) : n \in Start(fs, i)..Stop(fs, i)}
    BY <1>4 DEF HeldIn
  <1> QED  BY <1>2, <1>3, <1>5 DEF fs

\* The point has moved over what is contiguous, and no further.
LEMMA SettledView ==
  ASSUME base \in TSN, NEW point \in Int, 0 <= point, NEW chunks \in SUBSET Chunks,
         NEW c \in Int, point <= c, c <= LastChunk, NEW a \in SUBSET Chunks,
         \A n \in a : c + 1 < n,
         \A m \in Chunks : m <= c \/ m \in a <=> m <= point \/ m \in chunks
  PROVE  Settles(point, chunks, c, a)
  <1>1. Chunks = 1..LastChunk /\ LastChunk \in Int /\ Chunks \subseteq Int
    BY Numbers DEF Chunks
  <1>2. c \in {point} \cup Chunks
    BY <1>1
  <1>3. ASSUME NEW i \in Chunks, i <= c, ~ (i <= point) PROVE i \in chunks
    BY <1>3
  <1>4. ASSUME c + 1 \in chunks PROVE FALSE
    <2>1. c + 1 \in Chunks /\ ~ (c + 1 <= c)
      BY <1>4
    <2>2. c + 1 \in a
      BY <1>4, <2>1
    <2> QED  BY <2>2
  <1>5. \A n \in Chunks : n \in a <=> n \in chunks /\ n > c
    <2> SUFFICES ASSUME NEW n \in Chunks
                 PROVE  n \in a <=> n \in chunks /\ n > c
      OBVIOUS
    <2>1. n \in Int /\ (n \in a => n > c)
      BY <1>1
    <2>2. n <= c \/ n \in a <=> n <= point \/ n \in chunks
      OBVIOUS
    <2> QED  BY <2>1, <2>2
  <1>6. a = {n \in chunks : n > c}
    BY <1>5
  <1>7. {i \in Chunks : i <= c} \ {i \in Chunks : i <= point} \subseteq chunks
    BY <1>3
  <1> QED  BY <1>2, <1>4, <1>6, <1>7 DEF Settles

\* What has come, before and after a step, is within the chunks and beyond the point.
LEMMA HeldAbove ==
  ReceiverInv => /\ Point(rxc) \in Int /\ 0 <= Point(rxc) /\ Point(rxc) <= LastChunk
                 /\ Held = HeldIn(rxc.frag_list) /\ Held \in SUBSET Chunks
                 /\ \A n \in Held : Point(rxc) + 1 < n
                 /\ Told(told) \in Int /\ Told(told) <= Point(rxc)
  <1> SUFFICES ASSUME ReceiverInv
               PROVE  /\ Point(rxc) \in Int /\ 0 <= Point(rxc) /\ Point(rxc) <= LastChunk
                      /\ Held = HeldIn(rxc.frag_list) /\ Held \in SUBSET Chunks
                      /\ \A n \in Held : Point(rxc) + 1 < n
                      /\ Told(told) \in Int /\ Told(told) <= Point(rxc)
    OBVIOUS
  <1> DEFINE p == Point(rxc)
             q == High(rxc)
             fs == rxc.frag_list
  <1>1. /\ base \in TSN /\ rxc \in Buffer /\ told \in SACK /\ Held = HeldIn(fs)
        /\ p <= LastChunk /\ InOrder(p, fs, q) /\ Told(told) <= p
    BY HeldIsList DEF ReceiverInv, TypeOK, Views, Ready, Agrees, InWindow
  <1>2. p \in Int /\ q \in Int /\ fs \in Seq(Fragment) /\ Told(told) \in Int
    BY <1>1, Numbers
  <1>3. 0 <= p
    BY <1>1, PositionOf DEF Buffer, Point
  <1> HIDE DEF p, q, fs
  <1>4. \A n \in HeldIn(fs) : n \in Chunks /\ p + 1 < n
    BY <1>1, <1>2, HeldBeyond
  <1> QED  BY <1>1, <1>2, <1>3, <1>4 DEF p, fs

(* The steps of the abstract receiver, of what its variables stand for. *)
Accepts(n) ==
  /\ n > Point(rxc) /\ n \notin Held
  /\ handed' = [handed EXCEPT ![n] = @ + 1]
  /\ Settles(Point(rxc), Held \cup {n}, Point(rxc)', Held')
  /\ Told(told)' = Told(told) /\ Reported(told)' = Reported(told)

GivesUp(n) ==
  /\ n > Point(rxc)
  /\ Settles(n, Held, Point(rxc)', Held')
  /\ handed' = handed /\ Told(told)' = Told(told) /\ Reported(told)' = Reported(told)

Acknowledges ==
  /\ Told(told)' \in Told(told)..Point(rxc)
  /\ Reported(told)' \subseteq Held \cup {i \in Chunks : i <= Point(rxc)}
  /\ Point(rxc)' = Point(rxc) /\ Held' = Held /\ handed' = handed

Restarts ==
  /\ Point(rxc)' = 0 /\ Held' = {} /\ handed' = [n \in Chunks |-> 0]
  /\ Told(told)' = 0 /\ Reported(told)' = {}

Stays ==
  /\ Point(rxc)' = Point(rxc) /\ Held' = Held /\ handed' = handed
  /\ Told(told)' = Told(told) /\ Reported(told)' = Reported(told)

LEMMA PromiseSteps ==
  /\ \A n \in Chunks : (Accepts(n) => Promise!Next) /\ (GivesUp(n) => Promise!Next)
  /\ Acknowledges => Promise!Next
  /\ Restarts => Promise!Next
  /\ Stays => UNCHANGED Promise!vars
  <1>1. ASSUME NEW n \in Chunks, Accepts(n) PROVE Promise!Accept(n)
    BY <1>1 DEF Accepts, Settles, Promise!Accept, Promise!Settle, Promise!UpTo, Point, Held, Told,
                Reported
  <1>2. ASSUME NEW n \in Chunks, GivesUp(n) PROVE Promise!GiveUp(n)
    BY <1>2 DEF GivesUp, Settles, Promise!GiveUp, Promise!Settle, Promise!UpTo, Point, Held, Told,
                Reported
  <1>3. Acknowledges => Promise!Acknowledge
    BY DEF Acknowledges, Promise!Acknowledge, Promise!UpTo, Point, Held, Told, Reported
  <1>4. Restarts => Promise!Restart
    BY DEF Restarts, Promise!Restart, Point, Held, Told, Reported
  <1>5. Stays => UNCHANGED Promise!vars
    BY DEF Stays, Promise!vars, Point, Held, Told, Reported
  <1> QED  BY <1>1, <1>2, <1>3, <1>4, <1>5 DEF Promise!Next

\* Each step of receive control is a step of the abstract receiver, or none.
LEMMA ReceiverSteps ==
  ReceiverInv /\ ReceiverInv' /\ [Next]_vars /\ ~ Overtaking => [Promise!Next]_(Promise!vars)
  <1> DEFINE done == [Promise!Next]_(Promise!vars)
             p == Point(rxc)
             a == Held
  <1> SUFFICES ASSUME ReceiverInv, ReceiverInv', [Next]_vars, ~ Overtaking
               PROVE  done
    OBVIOUS
  <1>1. /\ TypeOK /\ Views(rxc, bu, told, phase, handed, skipped)
        /\ base \in TSN /\ Chunks \subseteq Int /\ Chunks = 1..LastChunk
    BY Numbers DEF ReceiverInv, TypeOK, Chunks
  <1>2. /\ p \in Int /\ 0 <= p /\ p <= LastChunk /\ a \in SUBSET Chunks
        /\ a = HeldIn(rxc.frag_list) /\ \A n \in a : p + 1 < n
        /\ Told(told) \in Int /\ Told(told) <= p
    BY HeldAbove
  <1>3. /\ p' \in Int /\ 0 <= p' /\ p' <= LastChunk /\ a' \in SUBSET Chunks
        /\ a' = HeldIn(rxc.frag_list)' /\ \A n \in a' : p' + 1 < n
        /\ Told(told)' \in Int
    <2>1. (/\ Point(rxc) \in Int /\ 0 <= Point(rxc) /\ Point(rxc) <= LastChunk
           /\ Held = HeldIn(rxc.frag_list) /\ Held \in SUBSET Chunks
           /\ \A n \in Held : Point(rxc) + 1 < n
           /\ Told(told) \in Int /\ Told(told) <= Point(rxc))'
      BY HeldAbove, PTL
    <2> QED  BY <2>1
  <1>4. ASSUME base' = base
        PROVE  /\ p' = Point(rxc') /\ a' = HeldIn(rxc'.frag_list)
               /\ Told(told)' = Told(told') /\ Reported(told)' = Reported(told')
    BY <1>3, <1>4, SameBase
  <1>5. ASSUME base' = base, told' = told
        PROVE  Told(told)' = Told(told) /\ Reported(told)' = Reported(told)
    BY <1>4, <1>5
  <1>6. ASSUME base' = base, rxc'.ctsna = rxc.ctsna, rxc'.frag_list = rxc.frag_list
        PROVE  p' = p /\ a' = a
    BY <1>2, <1>4, <1>6 DEF Point
  <1>7. /\ (\E n \in Chunks : Accepts(n) \/ GivesUp(n)) => done
        /\ Acknowledges \/ Restarts \/ Stays => done
    BY PromiseSteps
  <1> HIDE DEF done, p, a
  <1>8. ASSUME NEW n \in Chunks, DataChunk(n) PROVE done
    <2>1. base' = base /\ told' = told
      BY <1>8 DEF DataChunk
    <2>2. CASE handed' = handed /\ rxc'.ctsna = rxc.ctsna /\ rxc'.frag_list = rxc.frag_list
      BY <1>5, <1>6, <1>7, <2>1, <2>2 DEF Stays, p, a
    <2>3. CASE /\ ~ (n <= Point(rxc) \/ n \in HeldIn(rxc.frag_list))
               /\ handed' = [handed EXCEPT ![n] = @ + 1]
               /\ Point(rxc) <= Point(rxc')
               /\ \A m \in Chunks : m <= Point(rxc') \/ m \in HeldIn(rxc'.frag_list)
                                      <=> m <= Point(rxc) \/ m \in HeldIn(rxc.frag_list) \/ m = n
      <3>1. n \in Int /\ n > p /\ n \notin a /\ p <= p'
        BY <1>1, <1>2, <1>4, <2>1, <2>3 DEF p
      <3>2. \A m \in Chunks : m <= p' \/ m \in a' <=> m <= p \/ m \in a \cup {n}
        BY <1>2, <1>4, <2>1, <2>3 DEF p
      <3>3. a \cup {n} \in SUBSET Chunks
        BY <1>2
      <3>4. Settles(p, a \cup {n}, p', a')
        BY <1>1, <1>2, <1>3, <3>1, <3>2, <3>3, SettledView
      <3>5. Accepts(n)
        BY <1>5, <2>1, <2>3, <3>1, <3>4 DEF Accepts, p, a
      <3> QED  BY <1>7, <3>5
    <2> QED  BY <1>1, <1>8, <2>2, <2>3, DataView
  <1>9. ASSUME NEW n \in Chunks, ForwardTSN(n) PROVE done
    <2>1. base' = base /\ told' = told /\ handed' = handed
      BY <1>9 DEF ForwardTSN
    <2>2. /\ Point(rxc) < n /\ n <= Point(rxc')
          /\ \A m \in Chunks : m <= Point(rxc') \/ m \in HeldIn(rxc'.frag_list)
                                 <=> m <= n \/ m \in HeldIn(rxc.frag_list)
      BY <1>1, <1>9, ForwardView
    <2>3. n \in Int /\ 0 <= n /\ n > p /\ n <= p'
      BY <1>1, <1>2, <1>4, <2>1, <2>2 DEF p
    <2>4. \A m \in Chunks : m <= p' \/ m \in a' <=> m <= n \/ m \in a
      BY <1>2, <1>4, <2>1, <2>2
    <2>5. Settles(n, a, p', a')
      BY <1>1, <1>2, <1>3, <2>3, <2>4, SettledView
    <2>6. GivesUp(n)
      BY <1>5, <2>1, <2>3, <2>5 DEF GivesUp, p, a
    <2> QED  BY <1>7, <2>6
  <1>10. CASE RestartReceiveControl
    <2>1. Begun'
      <3>1. bu' \in Bundle /\ base' \in TSN
        BY TypesAreKept, <1>1 DEF TypeOK, Bundle
      <3>2. bu'.sack_in_buffer = bu.sack_in_buffer
        BY <1>1, <1>10 DEF RestartReceiveControl, TypeOK
      <3> QED  BY <1>10, <3>1, <3>2 DEF RestartReceiveControl, Begun
    <2>2. /\ Point(rxc)' = 0 /\ HeldIn(rxc.frag_list)' = {}
          /\ Told(told)' = 0 /\ Reported(told)' = {}
      <3>1. (/\ Views(rxc, bu, told, phase, handed, skipped)
             /\ Point(rxc) = 0 /\ HeldIn(rxc.frag_list) = {}
             /\ Told(told) = 0 /\ Reported(told) = {})'
        BY <2>1, Begins, PTL
      <3> QED  BY <3>1
    <2>3. handed' = [n \in Chunks |-> 0]
      BY <1>10 DEF RestartReceiveControl
    <2> QED  BY <1>3, <1>7, <2>2, <2>3 DEF Restarts, a
  <1>11. CASE \/ BeginDatagram \/ ForwardTSNDone \/ EndChunks \/ EndDatagram \/ SackTimer
              \/ SendData \/ (\E k \in 1..MaxRead : Read(k)) \/ Close \/ UNCHANGED vars
    <2>1. /\ rxc'.ctsna = rxc.ctsna /\ rxc'.frag_list = rxc.frag_list
          /\ handed' = handed /\ base' = base
          /\ told' = told \/ Honest(told', rxc, told)
      BY <1>1, <1>11, QuietSteps
    <2>2. p' = p /\ a' = a
      BY <1>6, <2>1
    <2>3. CASE told' = told
      BY <1>5, <1>7, <2>1, <2>2, <2>3 DEF Stays, p, a
    <2>4. CASE Honest(told', rxc, told)
      <3>1. /\ Told(told) <= Told(told)' /\ Told(told)' <= p
            /\ \A n \in Reported(told)' : n <= p \/ n \in a
        BY <1>2, <1>4, <2>1, <2>4 DEF Honest, p
      <3>2. Told(told)' \in Told(told)..p
        BY <1>2, <1>3, <3>1
      <3>3. Reported(told)' \subseteq Chunks
        BY <1>4, <2>1 DEF Reported
      <3>4. Reported(told)' \subseteq a \cup {i \in Chunks : i <= p}
        BY <3>1, <3>3
      <3> QED  BY <1>7, <2>1, <2>2, <3>2, <3>4 DEF Acknowledges, p, a
    <2> QED  BY <2>1, <2>3, <2>4
  <1> QED  BY <1>8, <1>9, <1>10, <1>11 DEF Next

\* It starts as the abstract receiver starts.
LEMMA PromiseBegins == Init => Promise!Init
  <1> SUFFICES ASSUME Init
               PROVE  Promise!Init
    OBVIOUS
  <1>1. TypeOK /\ Held = HeldIn(rxc.frag_list)
    BY InitialTypes, HeldIsList
  <1>2. Begun
    <2>1. bu \in Bundle /\ base \in TSN
      BY <1>1 DEF TypeOK, Bundle
    <2> QED  BY <2>1 DEF Init, Begun
  <1>3. Point(rxc) = 0 /\ Held = {} /\ Told(told) = 0 /\ Reported(told) = {}
    BY <1>1, <1>2, Begins
  <1> QED  BY <1>2, <1>3 DEF Promise!Init, Begun, Point, Held, Told, Reported

\* Receive control does what the abstract receiver promises: it hands each chunk to the stream
\* engine once per association, moves the cumulative point over what has come or was given up and
\* no further, and sends no SACK that tells of a chunk that has not come, or that is older than the
\* last one.
THEOREM ReceiverImplements ==
  ASSUME ~ Overtaking
  PROVE  Spec => Implements
  <1>1. ReceiverInv /\ ReceiverInv' /\ [Next]_vars => [Promise!Next]_(Promise!vars)
    BY ReceiverSteps
  <1> QED  BY <1>1, PromiseBegins, ReceiverInvariant, PTL DEF Spec, Implements, Promise!Spec
=============================================================================

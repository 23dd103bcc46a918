-------------------------- MODULE EventLoopProofs --------------------------
(***************************************************************************)
(* Theorems about EventLoop, for any descriptors, any finite number of     *)
(* owners of timers, any delays, and with timers that restart themselves   *)
(* or not: type correctness, NoStaleEvent, DueFirst and, where no timer is *)
(* restarted from its own callback, ArmedIsListed.                         *)
(***************************************************************************)
EXTENDS EventLoop, FiniteSetTheorems, SequenceTheorems, WellFoundedInduction, TLAPS

-----------------------------------------------------------------------------
(* The inductive invariant *)

(* A list of timers in order.  Its identifiers differ; those of the timers  *)
(* that may still go off are the ones their owners have; and there is one   *)
(* timer at most whose callback runs.                                       *)
Sound(list, h, a) ==
  /\ list \in Seq(AlarmTimer)
  /\ \A i, j \in DOMAIN list : i < j => list[i].left <= list[j].left
  /\ \A i, j \in DOMAIN list : list[i].id = list[j].id => i = j
  /\ \A i, j \in DOMAIN list : list[i].running /\ list[j].running => i = j
  /\ \A i \in DOMAIN list, k \in Owners : list[i].id = h[k] => list[i].owner = k
  /\ \A i \in DOMAIN list :
       list[i].running \/ (a[list[i].owner] # 0 /\ list[i].id = h[list[i].owner])

(* Every timer that is armed is on the list and still to go off. *)
Listed(list, h, a) ==
  \A k \in Owners : a[k] # 0 =>
    \E i \in DOMAIN list : list[i].id = h[k] /\ list[i].owner = k /\ ~list[i].running

(* No identifier is known to two owners. *)
Distinct(h) == \A j, k \in Owners : h[j] = h[k] /\ h[j] # 0 => j = k

Identifiers(h, a) == h \in [Owners -> {0} \cup Ids] /\ a \in [Owners -> 0..2] /\ Distinct(h)

Timers ==
  /\ Identifiers(held, armed)
  /\ Sound(timer_list, held, armed)
  /\ ~SelfRestart => Listed(timer_list, held, armed)
  /\ phase # "timer" => \A i \in DOMAIN timer_list : ~timer_list[i].running

(* An entry that was polled has seen every event select() found for its     *)
(* descriptor, and every entry has seen the events there are now.           *)
Entries ==
  /\ poll_fds \in Seq(Entry) /\ Len(poll_fds) <= NUM_FDS
  /\ \A i \in DOMAIN poll_fds :
       /\ poll_fds[i].fd \in ready \cup failed => poll_fds[i].seen
       /\ poll_fds[i].fd \in polling.input \cup polling.error =>
            poll_fds[i].new \/ poll_fds[i].seen
       /\ poll_fds[i].revents # {} => poll_fds[i].seen

Loop ==
  /\ ready \in SUBSET Descriptors /\ failed \in SUBSET Descriptors
  /\ phase \in Phases
  /\ polling \in [caller : Callers, asked : SUBSET Descriptors,
                  input : SUBSET Descriptors, error : SUBSET Descriptors]
  /\ at \in 1..(NUM_FDS + 1)
  /\ phase \in {"input", "callback"} => at <= NUM_FDS
  /\ called \in [fd : Descriptors, event : Events] \cup {NoCall}

EventInv == Timers /\ Entries /\ Loop

\* The invariant gives every variable its type.
LEMMA InvariantTypes == EventInv => TypeOK
  BY DEF EventInv, Timers, Entries, Loop, Identifiers, Sound, TypeOK

-----------------------------------------------------------------------------
(* Lists with one element less or more *)

\* A set of natural numbers has a least element, and Min is it.
LEMMA MinIsLeast ==
  ASSUME NEW S \in SUBSET Nat, S # {}
  PROVE  Min(S) \in S /\ \A y \in S : Min(S) <= y
  <1>1. PICK x \in S : \A y \in S : ~ (<<y, x>> \in OpToRel(<, Nat))
    BY NatLessThanWellFounded, WFMin
  <1>2. ASSUME NEW y \in S PROVE x =< y
    <2>1. x \in Nat /\ y \in Nat
      OBVIOUS
    <2>2. ~ (y < x)
      BY <1>1, <2>1 DEF OpToRel
    <2> QED  BY <2>1, <2>2
  <1> QED  BY <1>2 DEF Min

\* What is left when an element is removed.
LEMMA OneLess ==
  ASSUME NEW S, NEW list \in Seq(S), NEW m \in 1..Len(list)
  PROVE  LET r == RemoveAt(list, m)
         IN  /\ r \in Seq(S) /\ Len(r) = Len(list) - 1
             /\ \A i \in 1..(Len(list) - 1) : r[i] = list[IF i < m THEN i ELSE i + 1]
  <1> DEFINE front == SubSeq(list, 1, m - 1)
             back == SubSeq(list, m + 1, Len(list))
  <1>0. Len(list) \in Nat /\ m \in Nat /\ \A i \in 1..Len(list) : list[i] \in S
    BY LenProperties, ElementOfSeq
  <1>1. /\ front \in Seq(S) /\ Len(front) = m - 1
        /\ \A i \in 1..(m - 1) : front[i] = list[i]
    BY <1>0, SubSeqProperties
  <1>2. /\ back \in Seq(S) /\ Len(back) = Len(list) - m
        /\ \A i \in 1..(Len(list) - m) : back[i] = list[m + i]
    <2>1. m + 1 \in Int /\ Len(list) \in Int /\ \A i \in (m + 1)..Len(list) : list[i] \in S
      BY <1>0
    <2>2. /\ back \in Seq(S)
          /\ Len(back) = IF m + 1 <= Len(list) THEN Len(list) - (m + 1) + 1 ELSE 0
          /\ \A i \in 1 .. Len(list) - (m + 1) + 1 : back[i] = list[m + 1 + i - 1]
      BY <2>1, SubSeqProperties
    <2> QED  BY <1>0, <2>2
  <1> HIDE DEF front, back
  <1>3. /\ front \o back \in Seq(S) /\ Len(front \o back) = Len(list) - 1
        /\ \A i \in 1..(Len(list) - 1) :
             (front \o back)[i] = IF i <= m - 1 THEN front[i] ELSE back[i - (m - 1)]
    <2>1. /\ front \o back \in Seq(S) /\ Len(front \o back) = Len(front) + Len(back)
          /\ \A i \in 1..(Len(front) + Len(back)) :
               (front \o back)[i] = IF i <= Len(front) THEN front[i] ELSE back[i - Len(front)]
      BY <1>1, <1>2, ConcatProperties
    <2> QED  BY <1>0, <1>1, <1>2, <2>1
  <1>4. ASSUME NEW i \in 1..(Len(list) - 1)
        PROVE  (front \o back)[i] = list[IF i < m THEN i ELSE i + 1]
    <2>1. CASE i < m
      BY <1>0, <1>1, <1>3, <2>1
    <2>2. CASE ~(i < m)
      <3>1. i - (m - 1) \in 1..(Len(list) - m) /\ m + (i - (m - 1)) = i + 1 /\ ~(i <= m - 1)
        BY <1>0, <2>2
      <3> QED  BY <1>2, <1>3, <2>2, <3>1
    <2> QED  BY <2>1, <2>2
  <1> QED  BY <1>3, <1>4 DEF RemoveAt, front, back

\* The list with an element more.
LEMMA OneMore ==
  ASSUME NEW S, NEW list \in Seq(S), NEW m \in 1..(Len(list) + 1), NEW e \in S
  PROVE  LET r == InsertAt(list, m, e)
         IN  /\ r \in Seq(S) /\ Len(r) = Len(list) + 1
             /\ \A i \in 1..(Len(list) + 1) :
                  r[i] = IF i < m THEN list[i] ELSE IF i = m THEN e ELSE list[i - 1]
  <1> DEFINE front == SubSeq(list, 1, m - 1)
             back == SubSeq(list, m, Len(list))
             start == front \o <<e>>
  <1>0. Len(list) \in Nat /\ m \in Nat /\ \A i \in 1..Len(list) : list[i] \in S
    BY LenProperties, ElementOfSeq
  <1>1. /\ front \in Seq(S) /\ Len(front) = m - 1
        /\ \A i \in 1..(m - 1) : front[i] = list[i]
    BY <1>0, SubSeqProperties
  <1>2. /\ back \in Seq(S) /\ Len(back) = Len(list) + 1 - m
        /\ \A i \in 1..(Len(list) + 1 - m) : back[i] = list[m + i - 1]
    <2>1. m \in Int /\ Len(list) \in Int /\ \A i \in m..Len(list) : list[i] \in S
      BY <1>0
    <2>2. /\ back \in Seq(S)
          /\ Len(back) = IF m <= Len(list) THEN Len(list) - m + 1 ELSE 0
          /\ \A i \in 1 .. Len(list) - m + 1 : back[i] = list[m + i - 1]
      BY <2>1, SubSeqProperties
    <2> QED  BY <1>0, <2>2
  <1> HIDE DEF front, back
  <1>3. /\ start \in Seq(S) /\ Len(start) = m
        /\ \A i \in 1..m : start[i] = IF i < m THEN list[i] ELSE e
    <2>1. <<e>> \in Seq(S) /\ Len(<<e>>) = 1 /\ <<e>>[1] = e
      OBVIOUS
    <2>2. /\ start \in Seq(S) /\ Len(start) = Len(front) + Len(<<e>>)
          /\ \A i \in 1..(Len(front) + Len(<<e>>)) :
               start[i] = IF i <= Len(front) THEN front[i] ELSE <<e>>[i - Len(front)]
      BY <1>1, <2>1, ConcatProperties
    <2>3. ASSUME NEW i \in 1..m PROVE start[i] = IF i < m THEN list[i] ELSE e
      <3>1. CASE i < m
        BY <1>0, <1>1, <2>1, <2>2, <3>1
      <3>2. CASE i = m
        BY <1>0, <1>1, <2>1, <2>2, <3>2
      <3>3. i < m \/ i = m
        BY <1>0
      <3> QED  BY <3>1, <3>2, <3>3
    <2> QED  BY <1>0, <1>1, <2>1, <2>2, <2>3
  <1> HIDE DEF start
  <1>4. /\ start \o back \in Seq(S) /\ Len(start \o back) = Len(list) + 1
        /\ \A i \in 1..(Len(list) + 1) :
             (start \o back)[i] = IF i <= m THEN start[i] ELSE back[i - m]
    <2>1. /\ start \o back \in Seq(S) /\ Len(start \o back) = Len(start) + Len(back)
          /\ \A i \in 1..(Len(start) + Len(back)) :
               (start \o back)[i] = IF i <= Len(start) THEN start[i] ELSE back[i - Len(start)]
      BY <1>2, <1>3, ConcatProperties
    <2> QED  BY <1>0, <1>2, <1>3, <2>1
  <1>5. ASSUME NEW i \in 1..(Len(list) + 1)
        PROVE  (start \o back)[i] =
                 IF i < m THEN list[i] ELSE IF i = m THEN e ELSE list[i - 1]
    <2>1. CASE i <= m
      BY <1>0, <1>3, <1>4, <2>1
    <2>2. CASE ~(i <= m)
      <3>1. i - m \in 1..(Len(list) + 1 - m) /\ m + (i - m) - 1 = i - 1
            /\ ~(i < m) /\ i # m
        BY <1>0, <2>2
      <3> QED  BY <1>2, <1>4, <2>2, <3>1
    <2> QED  BY <2>1, <2>2
  <1> QED  BY <1>4, <1>5 DEF InsertAt, front, back, start

-----------------------------------------------------------------------------
(* The operators on the list of timers *)

(* A timer that is not on the list may be put on it. *)
Fits(item, list, h) ==
  /\ \A j \in Owners : h[j] # item.id
  /\ \A i \in DOMAIN list :
       /\ list[i].id # item.id
       /\ list[i].running \/ list[i].owner # item.owner
       /\ ~(list[i].running /\ item.running)

(* Every other timer that is armed is on the list. *)
ListedBut(k, list, h, a) ==
  \A j \in Owners \ {k} : a[j] # 0 =>
    \E i \in DOMAIN list : list[i].id = h[j] /\ list[i].owner = j /\ ~list[i].running

(* One owner was given an identifier, and its timer was armed. *)
Given(hk, ak, h, a, k, id) ==
  /\ hk \in [Owners -> {0} \cup Ids] /\ ak \in [Owners -> 0..2]
  /\ hk[k] = id /\ ak[k] # 0
  /\ \A j \in Owners \ {k} : hk[j] = h[j] /\ ak[j] = a[j]

\* Zero is no identifier.
LEMMA IdsAreNumbers == Ids \in SUBSET Nat /\ 0 \notin Ids
  <1>1. Cardinality(Owners) \in Nat
    BY EventLoopAssumption, FS_CardinalityType
  <1> QED  BY <1>1 DEF Ids

\* A timer that is removed leaves the others as they were.
LEMMA RemoveSound ==
  ASSUME NEW list, NEW h, NEW a, Sound(list, h, a), NEW m \in DOMAIN list
  PROVE  LET r == RemoveAt(list, m)
         IN  /\ Sound(r, h, a)
             /\ \A i \in DOMAIN r : \E j \in DOMAIN list \ {m} : r[i] = list[j]
             /\ \A j \in DOMAIN list \ {m} : \E i \in DOMAIN r : r[i] = list[j]
  <1> DEFINE r == RemoveAt(list, m)
             place(i) == IF i < m THEN i ELSE i + 1
  <1>0. list \in Seq(AlarmTimer)
    BY DEF Sound
  <1>1. Len(list) \in Nat /\ DOMAIN list = 1..Len(list) /\ m \in 1..Len(list)
    BY SMTT(30), <1>0, LenProperties
  <1>2. /\ r \in Seq(AlarmTimer) /\ Len(r) = Len(list) - 1
        /\ \A i \in 1..(Len(list) - 1) : r[i] = list[place(i)]
    BY <1>0, <1>1, OneLess
  <1>3. DOMAIN r = 1..(Len(list) - 1)
    BY <1>2, LenProperties
  <1> HIDE DEF r
  <1>4. ASSUME NEW i \in DOMAIN r
        PROVE  place(i) \in DOMAIN list /\ place(i) # m /\ r[i] = list[place(i)]
    BY <1>1, <1>2, <1>3
  <1>5. \A i, j \in DOMAIN r : /\ i < j <=> place(i) < place(j)
                               /\ i = j <=> place(i) = place(j)
    BY <1>1, <1>3
  <1> HIDE DEF place
  <1>6. Sound(r, h, a)
    <2>1. \A i, j \in DOMAIN r : i < j => r[i].left <= r[j].left
      BY <1>4, <1>5 DEF Sound
    <2>2. \A i, j \in DOMAIN r : r[i].id = r[j].id => i = j
      BY <1>4, <1>5 DEF Sound
    <2>3. \A i, j \in DOMAIN r : r[i].running /\ r[j].running => i = j
      BY <1>4, <1>5 DEF Sound
    <2>4. \A i \in DOMAIN r, k \in Owners : r[i].id = h[k] => r[i].owner = k
      BY <1>4 DEF Sound
    <2>5. \A i \in DOMAIN r : r[i].running \/ (a[r[i].owner] # 0 /\ r[i].id = h[r[i].owner])
      BY <1>4 DEF Sound
    <2> QED  BY <1>2, <2>1, <2>2, <2>3, <2>4, <2>5 DEF Sound
  <1>7. ASSUME NEW j \in DOMAIN list \ {m} PROVE \E i \in DOMAIN r : r[i] = list[j]
    <2>1. CASE j < m
      <3>1. j \in DOMAIN r /\ place(j) = j
        BY <1>1, <1>3, <2>1 DEF place
      <3> QED  BY <1>4, <3>1
    <2>2. CASE ~(j < m)
      <3>1. j - 1 \in DOMAIN r /\ place(j - 1) = j
        BY <1>1, <1>3, <2>2 DEF place
      <3> QED  BY <1>4, <3>1
    <2> QED  BY <2>1, <2>2
  <1> QED  BY <1>4, <1>6, <1>7 DEF r

\* The one timer of an owner that may still go off is removed, or another one is:
\* those of all other owners stay on the list.
LEMMA WithoutSound ==
  ASSUME NEW list, NEW h, NEW a, Sound(list, h, a), NEW which \in SUBSET DOMAIN list,
         \A i, j \in which : i = j
  PROVE  LET r == Without(list, which)
         IN  /\ Sound(r, h, a)
             /\ \A i \in DOMAIN r : \E j \in DOMAIN list \ which : r[i] = list[j]
             /\ \A j \in DOMAIN list \ which : \E i \in DOMAIN r : r[i] = list[j]
  <1>1. CASE which = {}
    BY <1>1 DEF Without
  <1>2. CASE which # {}
    <2>1. which \in SUBSET Nat
      <3>1. DOMAIN list = 1..Len(list) /\ Len(list) \in Nat
        BY LenProperties DEF Sound
      <3> QED  BY <3>1
    <2>2. Min(which) \in which /\ which = {Min(which)}
      BY <1>2, <2>1, MinIsLeast
    <2> DEFINE m == Min(which)
    <2>3. m \in DOMAIN list /\ Without(list, which) = RemoveAt(list, m) /\ which = {m}
      BY <1>2, <2>2 DEF Without
    <2> HIDE DEF m
    <2> QED  BY <2>3, RemoveSound
  <1> QED  BY <1>1, <1>2

\* A timer is put in its place: the list stays in order (g_list_insert_sorted).
LEMMA InsertSound ==
  ASSUME NEW list, NEW h, NEW a, Sound(list, h, a),
         NEW item \in AlarmTimer, NEW k \in Owners, item.owner = k, Fits(item, list, h),
         NEW hk, NEW ak, Given(hk, ak, h, a, k, item.id)
  PROVE  LET r == Insert(list, item)
         IN  /\ Sound(r, hk, ak)
             /\ \A i \in DOMAIN r : r[i] = item \/ \E j \in DOMAIN list : r[i] = list[j]
             /\ \A j \in DOMAIN list : \E i \in DOMAIN r : r[i] = list[j]
             /\ \E i \in DOMAIN r : r[i] = item
  <1> DEFINE r == Insert(list, item)
             later == {i \in DOMAIN list : list[i].left >= item.left}
             m == Min(later \cup {Len(list) + 1})
  <1>0. /\ list \in Seq(AlarmTimer)
        /\ \A j \in Owners : h[j] # item.id
        /\ \A i \in DOMAIN list :
             /\ list[i].id # item.id
             /\ list[i].running \/ list[i].owner # k
             /\ ~(list[i].running /\ item.running)
    BY DEF Sound, Fits
  <1>1. Len(list) \in Nat /\ DOMAIN list = 1..Len(list)
    BY <1>0, LenProperties
  <1>2. \A i \in DOMAIN list : list[i] \in AlarmTimer /\ list[i].left \in Int
    <2>1. \A i \in DOMAIN list : list[i] \in AlarmTimer
      BY <1>0, <1>1, ElementOfSeq
    <2> QED  BY <2>1 DEF AlarmTimer
  <1>3. item.left \in Int
    BY DEF AlarmTimer
  <1>4. /\ m \in 1..(Len(list) + 1)
        /\ \A i \in DOMAIN list : i < m => list[i].left < item.left
        /\ m \in DOMAIN list => item.left <= list[m].left
    <2>1. later \cup {Len(list) + 1} \in SUBSET Nat
      BY <1>1
    <2>2. m \in later \cup {Len(list) + 1} /\ \A y \in later : m <= y
      BY <2>1, MinIsLeast
    <2>3. ASSUME NEW i \in DOMAIN list, i < m PROVE list[i].left < item.left
      <3>1. i \in Nat /\ m \in Nat
        BY <1>1, <2>1, <2>2
      <3> HIDE DEF m
      <3>2. ~(list[i].left >= item.left)
        BY <2>2, <2>3, <3>1
      <3> QED  BY <1>2, <1>3, <3>2
    <2>4. m \in 1..(Len(list) + 1)
      <3>1. later \cup {Len(list) + 1} \in SUBSET (1..(Len(list) + 1))
        BY <1>1
      <3> QED  BY <2>2, <3>1
    <2>5. m \in DOMAIN list => m \in later
      BY <1>1, <2>2
    <2>6. m \in DOMAIN list => item.left <= list[m].left
      BY <1>2, <1>3, <2>5
    <2> QED  BY <2>3, <2>4, <2>6
  <1>5. r = InsertAt(list, m, item)
    BY DEF Insert
  <1> HIDE DEF m, later, r
  <1>6. /\ r \in Seq(AlarmTimer) /\ Len(r) = Len(list) + 1
        /\ \A i \in 1..(Len(list) + 1) :
             r[i] = IF i < m THEN list[i] ELSE IF i = m THEN item ELSE list[i - 1]
    <2> DEFINE q == InsertAt(list, m, item)
    <2>1. m \in 1..(Len(list) + 1)
      BY <1>4
    <2>2. /\ q \in Seq(AlarmTimer) /\ Len(q) = Len(list) + 1
          /\ \A i \in 1..(Len(list) + 1) :
               q[i] = IF i < m THEN list[i] ELSE IF i = m THEN item ELSE list[i - 1]
      BY <1>0, <2>1, OneMore
    <2> HIDE DEF q
    <2>3. r = q
      BY <1>5 DEF q
    <2> QED  BY <2>2, <2>3
  <1>7. DOMAIN r = 1..(Len(list) + 1)
    BY <1>6, LenProperties
  <1> DEFINE place(i) == IF i < m THEN i ELSE i - 1
  <1>8. m \in DOMAIN r /\ r[m] = item
    BY <1>1, <1>4, <1>6, <1>7
  <1>9. ASSUME NEW i \in DOMAIN r, i # m
        PROVE  place(i) \in DOMAIN list /\ r[i] = list[place(i)]
    BY <1>1, <1>4, <1>6, <1>7, <1>9
  <1>10. \A i, j \in DOMAIN r : i # m /\ j # m =>
           /\ i < j <=> place(i) < place(j)
           /\ i = j <=> place(i) = place(j)
    BY <1>1, <1>4, <1>7
  <1>11. \A i \in DOMAIN r : i \in Nat
    BY <1>1, <1>7
  <1>12. ASSUME NEW i \in DOMAIN r, i < m PROVE r[i].left <= item.left
    <2>1. i # m /\ place(i) = i
      BY <1>4, <1>11, <1>12
    <2> QED  BY <1>2, <1>3, <1>4, <1>9, <1>12, <2>1
  <1>13. ASSUME NEW i \in DOMAIN r, m < i PROVE item.left <= r[i].left
    <2>1. i # m /\ place(i) = i - 1 /\ i - 1 \in DOMAIN list /\ m \in DOMAIN list /\ m <= i - 1
      BY <1>1, <1>4, <1>7, <1>13
    <2>2. list[m].left <= list[i - 1].left
      <3>1. CASE m = i - 1
        BY <1>2, <2>1, <3>1
      <3>2. CASE m < i - 1
        BY <2>1, <3>2 DEF Sound
      <3> QED  BY <1>1, <2>1, <3>1, <3>2
    <2> QED  BY <1>2, <1>3, <1>4, <1>9, <2>1, <2>2
  <1> HIDE DEF place
  <1>14. Sound(r, hk, ak)
    <2>1. \A i, j \in DOMAIN r : i < j => r[i].left <= r[j].left
      <3> SUFFICES ASSUME NEW i \in DOMAIN r, NEW j \in DOMAIN r, i < j
                   PROVE  r[i].left <= r[j].left
        OBVIOUS
      <3>1. CASE i = m
        BY <1>8, <1>13, <3>1
      <3>2. CASE j = m
        BY <1>8, <1>12, <3>2
      <3>3. CASE i # m /\ j # m
        BY <1>9, <1>10, <3>3 DEF Sound
      <3> QED  BY <3>1, <3>2, <3>3
    <2>2. \A i, j \in DOMAIN r : r[i].id = r[j].id => i = j
      BY <1>0, <1>8, <1>9, <1>10 DEF Sound
    <2>3. \A i, j \in DOMAIN r : r[i].running /\ r[j].running => i = j
      BY <1>0, <1>8, <1>9, <1>10 DEF Sound
    <2>4. hk[k] = item.id /\ ak[k] # 0 /\ \A j \in Owners \ {k} : hk[j] = h[j] /\ ak[j] = a[j]
      BY DEF Given
    <2>5. \A i \in DOMAIN r, j \in Owners : r[i].id = hk[j] => r[i].owner = j
      BY <1>0, <1>8, <1>9, <2>4 DEF Sound
    <2>6. \A i \in DOMAIN r : r[i].running \/ (ak[r[i].owner] # 0 /\ r[i].id = hk[r[i].owner])
      <3> SUFFICES ASSUME NEW i \in DOMAIN r, ~r[i].running
                   PROVE  ak[r[i].owner] # 0 /\ r[i].id = hk[r[i].owner]
        OBVIOUS
      <3>1. CASE i = m
        BY <1>8, <2>4, <3>1
      <3>2. CASE i # m
        <4>1. place(i) \in DOMAIN list /\ r[i] = list[place(i)]
          BY <1>9, <3>2
        <4>2. r[i].owner \in Owners \ {k}
          BY <1>0, <1>2, <3>2, <4>1 DEF AlarmTimer
        <4>3. a[r[i].owner] # 0 /\ r[i].id = h[r[i].owner]
          BY <4>1 DEF Sound
        <4> QED  BY <2>4, <4>2, <4>3
      <3> QED  BY <3>1, <3>2
    <2> QED  BY <1>6, <2>1, <2>2, <2>3, <2>5, <2>6 DEF Sound
  <1>15. ASSUME NEW j \in DOMAIN list PROVE \E i \in DOMAIN r : r[i] = list[j]
    <2>1. CASE j < m
      <3>1. j \in DOMAIN r /\ j # m /\ place(j) = j
        BY <1>1, <1>4, <1>7, <2>1 DEF place
      <3> QED  BY <1>9, <3>1
    <2>2. CASE ~(j < m)
      <3>1. j + 1 \in DOMAIN r /\ j + 1 # m /\ place(j + 1) = j
        BY <1>1, <1>4, <1>7, <2>2 DEF place
      <3> QED  BY <1>9, <3>1
    <2> QED  BY <2>1, <2>2
  <1> QED  BY <1>8, <1>9, <1>14, <1>15 DEF r

\* There is always an identifier that nobody knows (tid++ in insert_item).
LEMMA NewIdIsNew ==
  ASSUME Timers, NEW k \in Owners
  PROVE  /\ NewId \in Ids
         /\ \A j \in Owners : held[j] # NewId
         /\ \A i \in DOMAIN timer_list : timer_list[i].id # NewId
  <1> DEFINE known == {held[j] : j \in Owners}
             listed == {timer_list[i].id : i \in DOMAIN timer_list}
             free == Ids \ (known \cup listed)
             n == Cardinality(Owners)
  <1>1. /\ IsFiniteSet(known) /\ Cardinality(known) <= n /\ n \in Nat
        /\ Cardinality(known) \in Nat
    <2>1. held \in Surjection(Owners, known)
      <3>1. held \in [Owners -> known]
        BY DEF Timers, Identifiers
      <3> QED  BY <3>1 DEF Surjection
    <2>2. IsFiniteSet(known) /\ Cardinality(known) <= n
      BY <2>1, EventLoopAssumption, FS_Surjection
    <2> QED  BY <2>2, EventLoopAssumption, FS_CardinalityType
  <1>2. n # 0
    BY EventLoopAssumption, FS_EmptySet
  <1>3. \A i \in DOMAIN timer_list :
          timer_list[i].owner \in Owners /\ (timer_list[i].running \/ timer_list[i].id \in known)
    <2>1. \A i \in DOMAIN timer_list : timer_list[i] \in AlarmTimer
      BY LenProperties, ElementOfSeq DEF Timers, Sound
    <2>2. \A i \in DOMAIN timer_list : timer_list[i].owner \in Owners
      BY <2>1 DEF AlarmTimer
    <2>3. \A i \in DOMAIN timer_list :
            timer_list[i].running \/ timer_list[i].id = held[timer_list[i].owner]
      BY DEF Timers, Sound
    <2> QED  BY <2>2, <2>3
  <1>4. PICK x : listed \subseteq known \cup {x}
    <2>1. CASE \E i \in DOMAIN timer_list : timer_list[i].running
      <3>1. PICK i \in DOMAIN timer_list : timer_list[i].running
        BY <2>1
      <3>2. \A j \in DOMAIN timer_list : timer_list[j].running => j = i
        BY <3>1 DEF Timers, Sound
      <3>3. listed \subseteq known \cup {timer_list[i].id}
        BY <1>3, <3>2
      <3> QED  BY <3>3
    <2>2. CASE ~\E i \in DOMAIN timer_list : timer_list[i].running
      <3>1. listed \subseteq known \cup {0}
        BY <1>3, <2>2
      <3> QED  BY <3>1
    <2> QED  BY <2>1, <2>2
  <1> HIDE DEF known, listed, n
  <1>5. free # {}
    <2> SUFFICES ASSUME free = {} PROVE FALSE
      OBVIOUS
    <2>1. Ids \subseteq known \cup {x}
      BY <1>4
    <2>2. /\ IsFiniteSet(known \cup {x}) /\ Cardinality(known \cup {x}) <= n + 1
          /\ Cardinality(known \cup {x}) \in Nat
      <3>1. /\ IsFiniteSet(known \cup {x})
            /\ Cardinality(known \cup {x}) =
                 IF x \in known THEN Cardinality(known) ELSE Cardinality(known) + 1
        BY <1>1, FS_AddElement
      <3> QED  BY <1>1, <3>1
    <2>3. Cardinality(Ids) = 2 * n + 1
      <3>1. Cardinality(1..(2 * n + 1)) = 2 * n + 1
        BY <1>1, FS_Interval
      <3> QED  BY <3>1 DEF Ids, n
    <2>4. Cardinality(Ids) <= Cardinality(known \cup {x})
      BY <2>1, <2>2, FS_Subset
    <2> QED  BY <1>1, <1>2, <2>2, <2>3, <2>4
  <1>6. NewId \in free
    <2>1. free \in SUBSET Nat
      BY IdsAreNumbers
    <2>2. NewId = Min(free)
      BY DEF NewId, known, listed
    <2> HIDE DEF free
    <2> QED  BY <1>5, <2>1, <2>2, MinIsLeast
  <1> QED  BY <1>6 DEF known, listed

-----------------------------------------------------------------------------
(* The steps of the timers *)

\* A step that leaves the timers alone, and does not leave a callback of one.
LEMMA TimersRest ==
  ASSUME Timers, UNCHANGED timerVars, phase = "timer" => phase' = "timer"
  PROVE  Timers'
  BY DEF Timers, Identifiers, Distinct, Sound, Listed, timerVars

\* A step that leaves the descriptors and the loop alone.
LEMMA EntriesRest ==
  ASSUME Entries, Loop, UNCHANGED <<poll_fds, ready, failed, dispatchVars>>
  PROVE  Entries' /\ Loop'
  BY DEF Entries, Loop, dispatchVars

\* The owner gets its new identifier, and its timer is armed.
LEMMA ArmedAgain ==
  ASSUME Timers, NEW k \in Owners, NEW id \in Ids
  PROVE  Given([held EXCEPT ![k] = id], Again(k), held, armed, k, id)
  BY DEF Again, Timers, Identifiers, Given

\* A timer of an owner that has none waiting is put on the list.
LEMMA SetAnew ==
  ASSUME NEW list, NEW h, NEW a, Identifiers(h, a), Sound(list, h, a),
         NEW item \in AlarmTimer, NEW k \in Owners, item.owner = k, Fits(item, list, h),
         NEW hk, NEW ak, Given(hk, ak, h, a, k, item.id)
  PROVE  LET r == Insert(list, item)
         IN  /\ Identifiers(hk, ak) /\ Sound(r, hk, ak)
             /\ ~item.running /\ ListedBut(k, list, h, a) => Listed(r, hk, ak)
             /\ \A i \in DOMAIN r : r[i] = item \/ \E j \in DOMAIN list : r[i] = list[j]
  <1> DEFINE r == Insert(list, item)
  <1>1. /\ Sound(r, hk, ak)
        /\ \A i \in DOMAIN r : r[i] = item \/ \E j \in DOMAIN list : r[i] = list[j]
        /\ \A j \in DOMAIN list : \E i \in DOMAIN r : r[i] = list[j]
        /\ \E i \in DOMAIN r : r[i] = item
    BY InsertSound
  <1> HIDE DEF r
  <1>2. Identifiers(hk, ak)
    BY DEF Identifiers, Distinct, Fits, Given
  <1>3. ASSUME ~item.running, ListedBut(k, list, h, a)
        PROVE  Listed(r, hk, ak)
    BY <1>1, <1>3 DEF Listed, ListedBut, Given
  <1> QED  BY <1>1, <1>2, <1>3 DEF r

\* The timers are as they should be after a step, if they are said so of their new values.
LEMMA TimersAfter ==
  ASSUME NEW list, NEW h, NEW a, timer_list' = list, held' = h, armed' = a,
         Identifiers(h, a), Sound(list, h, a), ~SelfRestart => Listed(list, h, a),
         phase' # "timer" => \A i \in DOMAIN list : ~list[i].running
  PROVE  Timers'
  <1>1. /\ Identifiers(held', armed') /\ Sound(timer_list', held', armed')
        /\ ~SelfRestart => Listed(timer_list', held', armed')
        /\ phase' # "timer" => \A i \in DOMAIN timer_list' : ~timer_list'[i].running
    OBVIOUS
  <1> QED  BY <1>1 DEF Timers, Identifiers, Distinct, Sound, Listed

\* adl_startMicroTimer puts a timer with an identifier nobody knows on the list.
LEMMA StartTimerStep ==
  ASSUME EventInv, NEW k \in Owners, NEW delay \in Delays, StartTimer(k, delay)
  PROVE  EventInv'
  <1> DEFINE id == NewId
             item == [owner |-> k, id |-> id, left |-> delay, running |-> FALSE]
             list == Insert(timer_list, item)
             h == [held EXCEPT ![k] = id]
             a == Again(k)
  <1>0. Timers
    BY DEF EventInv
  <1>1. /\ id \in Ids /\ \A j \in Owners : held[j] # id
        /\ \A i \in DOMAIN timer_list : timer_list[i].id # id
    BY <1>0, NewIdIsNew
  <1>3. timer_list' = list /\ held' = h /\ armed' = a /\ armed[k] = 0
    BY DEF StartTimer
  <1>4. UNCHANGED <<poll_fds, ready, failed, dispatchVars>>
    BY DEF StartTimer
  <1> HIDE DEF id
  <1>5. item \in AlarmTimer
    BY <1>1, EventLoopAssumption DEF AlarmTimer
  <1>6. /\ Identifiers(held, armed) /\ Sound(timer_list, held, armed)
        /\ ~SelfRestart => Listed(timer_list, held, armed)
    BY <1>0 DEF Timers
  <1>7. item.owner = k /\ item.id = id /\ ~item.running
    OBVIOUS
  <1> HIDE DEF item
  <1>8. Fits(item, timer_list, held)
    BY <1>1, <1>3, <1>6, <1>7 DEF Sound, Fits
  <1>9. ~SelfRestart => ListedBut(k, timer_list, held, armed)
    BY <1>6 DEF Listed, ListedBut
  <1>10. /\ Identifiers(h, a) /\ Sound(list, h, a)
         /\ ~SelfRestart => Listed(list, h, a)
         /\ \A i \in DOMAIN list : list[i] = item \/ \E j \in DOMAIN timer_list : list[i] = timer_list[j]
    <2>1. Given(h, a, held, armed, k, item.id)
      BY <1>0, <1>1, <1>7, ArmedAgain
    <2> HIDE DEF h, a
    <2> QED  BY <1>5, <1>6, <1>7, <1>8, <1>9, <2>1, SetAnew
  <1> HIDE DEF list, h, a
  <1>11. phase' # "timer" => \A i \in DOMAIN list : ~list[i].running
    BY <1>0, <1>4, <1>7, <1>10 DEF Timers, dispatchVars
  <1> QED  BY <1>3, <1>4, <1>10, <1>11, TimersAfter, EntriesRest DEF EventInv

\* adl_restartMicroTimer takes the timer off the list and puts it back with a new identifier.
LEMMA RestartTimerStep ==
  ASSUME EventInv, NEW k \in Owners, NEW delay \in Delays, RestartTimer(k, delay)
  PROVE  EventInv'
  <1>1. PICK m \in DOMAIN timer_list :
          /\ timer_list[m].id = held[k]
          /\ timer_list' = Insert(RemoveAt(timer_list, m),
                                  [timer_list[m] EXCEPT !.id = NewId, !.left = delay])
    BY DEF RestartTimer
  <1> DEFINE id == NewId
             old == timer_list[m]
             item == [old EXCEPT !.id = id, !.left = delay]
             rest == RemoveAt(timer_list, m)
             list == Insert(rest, item)
             h == [held EXCEPT ![k] = id]
             a == Again(k)
  <1>0. Timers
    BY DEF EventInv
  <1>2. /\ id \in Ids /\ \A j \in Owners : held[j] # id
        /\ \A i \in DOMAIN timer_list : timer_list[i].id # id
    BY <1>0, NewIdIsNew
  <1>3. /\ Identifiers(held, armed) /\ Sound(timer_list, held, armed)
        /\ ~SelfRestart => Listed(timer_list, held, armed)
    BY <1>0 DEF Timers
  <1>4. old \in AlarmTimer /\ old.owner = k /\ old.id = held[k]
    <2>1. old \in AlarmTimer
      BY <1>3, LenProperties, ElementOfSeq DEF Sound
    <2> QED  BY <1>1, <1>3, <2>1 DEF Sound
  <1>6. item \in AlarmTimer /\ item.owner = k /\ item.id = id /\ item.running = old.running
    <2>1. id \in Ids /\ delay \in Int
      BY <1>2, EventLoopAssumption
    <2> HIDE DEF old, id
    <2> QED  BY <1>4, <2>1 DEF AlarmTimer
  <1>7. timer_list' = list /\ held' = h /\ armed' = a
    BY <1>1 DEF RestartTimer
  <1>8. UNCHANGED <<poll_fds, ready, failed, dispatchVars>> /\ (Used(k) => SelfRestart)
    BY DEF RestartTimer
  <1>9. /\ Sound(rest, held, armed)
        /\ \A i \in DOMAIN rest : \E j \in DOMAIN timer_list \ {m} : rest[i] = timer_list[j]
        /\ \A j \in DOMAIN timer_list \ {m} : \E i \in DOMAIN rest : rest[i] = timer_list[j]
    BY <1>3, RemoveSound
  <1> HIDE DEF id, item, rest
  <1>10. Fits(item, rest, held)
    <2>1. ASSUME NEW j \in DOMAIN timer_list \ {m}
          PROVE  /\ timer_list[j].id # item.id
                 /\ timer_list[j].running \/ timer_list[j].owner # k
                 /\ ~(timer_list[j].running /\ item.running)
      BY <1>2, <1>3, <1>4, <1>6, <2>1 DEF Sound
    <2> QED  BY <1>2, <1>6, <1>9, <2>1 DEF Fits
  <1>11. ~SelfRestart => ListedBut(k, rest, held, armed)
    <2> SUFFICES ASSUME NEW j \in Owners \ {k}, ~SelfRestart, armed[j] # 0
                 PROVE  \E i \in DOMAIN rest :
                          rest[i].id = held[j] /\ rest[i].owner = j /\ ~rest[i].running
      BY DEF ListedBut
    <2>1. PICK i \in DOMAIN timer_list :
            timer_list[i].id = held[j] /\ timer_list[i].owner = j /\ ~timer_list[i].running
      BY <1>3 DEF Listed
    <2>2. i # m
      BY <1>4, <2>1
    <2> QED  BY <1>9, <2>1, <2>2
  <1>12. ~SelfRestart => ~item.running
    <2>1. old.running => CurrentTid = held[k]
      <3> SUFFICES ASSUME old.running PROVE CurrentTid = held[k]
        OBVIOUS
      <3>1. \A i \in DOMAIN timer_list : timer_list[i].running => i = m
        BY <1>3 DEF Sound
      <3> QED  BY <1>1, <3>1 DEF CurrentTid
    <2>2. held[k] # 0
      BY <1>4, IdsAreNumbers DEF AlarmTimer
    <2> QED  BY <1>6, <1>8, <2>1, <2>2 DEF Used
  <1>13. /\ Identifiers(h, a) /\ Sound(list, h, a)
         /\ ~SelfRestart => Listed(list, h, a)
         /\ \A i \in DOMAIN list : list[i] = item \/ \E j \in DOMAIN rest : list[i] = rest[j]
    <2>1. Given(h, a, held, armed, k, item.id)
      BY <1>0, <1>2, <1>6, ArmedAgain
    <2> HIDE DEF h, a
    <2> QED  BY <1>3, <1>6, <1>9, <1>10, <1>11, <1>12, <2>1, SetAnew
  <1> HIDE DEF list, h, a
  <1>14. phase' # "timer" => \A i \in DOMAIN list : ~list[i].running
    <2>1. phase # "timer" => \A i \in DOMAIN timer_list : ~timer_list[i].running
      BY <1>0 DEF Timers
    <2>2. phase # "timer" => ~item.running /\ \A i \in DOMAIN rest : ~rest[i].running
      BY <1>6, <1>9, <2>1
    <2> QED  BY <1>8, <1>13, <2>2 DEF dispatchVars
  <1> QED  BY <1>7, <1>8, <1>13, <1>14, TimersAfter, EntriesRest DEF EventInv

\* adl_stopTimer takes the timer off the list, if it is still there.
LEMMA StopTimerStep ==
  ASSUME EventInv, NEW k \in Owners, StopTimer(k)
  PROVE  EventInv'
  <1> DEFINE which == {i \in DOMAIN timer_list : timer_list[i].id = held[k]}
             list == Without(timer_list, which)
             h == [held EXCEPT ![k] = 0]
             a == [armed EXCEPT ![k] = 0]
  <1>1. Timers /\ held[k] # 0
    BY DEF EventInv, StopTimer
  <1>2. timer_list' = list /\ held' = h /\ armed' = a
    BY DEF StopTimer, RemoveItem
  <1>3. UNCHANGED <<poll_fds, ready, failed, dispatchVars>>
    BY DEF StopTimer
  <1>4. /\ Identifiers(held, armed) /\ Sound(timer_list, held, armed)
        /\ ~SelfRestart => Listed(timer_list, held, armed)
    BY <1>1 DEF Timers
  <1>5. /\ Sound(list, held, armed)
        /\ \A i \in DOMAIN list : \E j \in DOMAIN timer_list \ which : list[i] = timer_list[j]
        /\ \A j \in DOMAIN timer_list \ which : \E i \in DOMAIN list : list[i] = timer_list[j]
    <2>1. \A i, j \in which : i = j
      BY <1>4 DEF Sound
    <2> HIDE DEF which
    <2>2. which \in SUBSET DOMAIN timer_list
      BY DEF which
    <2> QED  BY <1>4, <2>1, <2>2, WithoutSound
  <1> HIDE DEF list
  <1>6. /\ h[k] = 0 /\ a[k] = 0 /\ \A j \in Owners \ {k} : h[j] = held[j] /\ a[j] = armed[j]
        /\ h \in [Owners -> {0} \cup Ids] /\ a \in [Owners -> 0..2]
    BY <1>4 DEF Identifiers
  <1> HIDE DEF h, a
  <1>7. Identifiers(h, a)
    BY <1>4, <1>6 DEF Identifiers, Distinct
  <1>8. \A i \in DOMAIN list : list[i].id # 0 /\ list[i].id # held[k] /\ list[i].owner \in Owners
    <2>1. \A i \in DOMAIN list : list[i] \in AlarmTimer
      BY <1>5, LenProperties, ElementOfSeq DEF Sound
    <2> QED  BY <1>5, <2>1, IdsAreNumbers DEF AlarmTimer
  <1>9. Sound(list, h, a)
    BY SMTT(30), <1>5, <1>6, <1>8 DEF Sound
  <1>10. ASSUME ~SelfRestart, NEW j \in Owners, a[j] # 0
         PROVE  \E i \in DOMAIN list : list[i].id = h[j] /\ list[i].owner = j /\ ~list[i].running
    <2>1. j # k /\ armed[j] # 0 /\ h[j] = held[j]
      BY <1>6, <1>10
    <2>2. PICK i \in DOMAIN timer_list :
            timer_list[i].id = held[j] /\ timer_list[i].owner = j /\ ~timer_list[i].running
      BY <1>4, <1>10, <2>1 DEF Listed
    <2>3. i \notin which
      BY <1>1, <1>4, <2>1, <2>2 DEF Identifiers, Distinct
    <2> QED  BY <1>5, <2>1, <2>2, <2>3
  <1>11. phase' # "timer" => \A i \in DOMAIN list : ~list[i].running
    BY <1>1, <1>3, <1>5 DEF Timers, dispatchVars
  <1> QED  BY <1>2, <1>3, <1>7, <1>9, <1>10, <1>11, TimersAfter, EntriesRest DEF EventInv, Listed

\* remove_timer takes the timer that went off from wherever it is on the list by now.
LEMMA TimerReturnsStep ==
  ASSUME EventInv, TimerReturns
  PROVE  EventInv'
  <1> DEFINE which == {i \in DOMAIN timer_list : timer_list[i].running}
             list == Without(timer_list, which)
  <1>1. /\ timer_list' = list /\ held' = held /\ armed' = armed
    BY DEF TimerReturns, RemoveTimer
  <1>2. /\ Identifiers(held, armed) /\ Sound(timer_list, held, armed)
        /\ ~SelfRestart => Listed(timer_list, held, armed)
    BY DEF EventInv, Timers
  <1>3. /\ Sound(list, held, armed)
        /\ \A i \in DOMAIN list : \E j \in DOMAIN timer_list \ which : list[i] = timer_list[j]
        /\ \A j \in DOMAIN timer_list \ which : \E i \in DOMAIN list : list[i] = timer_list[j]
    <2>1. \A i, j \in which : i = j
      BY <1>2 DEF Sound
    <2> HIDE DEF which
    <2>2. which \in SUBSET DOMAIN timer_list
      BY DEF which
    <2> QED  BY <1>2, <2>1, <2>2, WithoutSound
  <1> HIDE DEF list
  <1>4. ~SelfRestart => Listed(list, held, armed)
    <2> SUFFICES ASSUME ~SelfRestart, NEW k \in Owners, armed[k] # 0
                 PROVE  \E i \in DOMAIN list :
                          list[i].id = held[k] /\ list[i].owner = k /\ ~list[i].running
      BY DEF Listed
    <2>1. PICK i \in DOMAIN timer_list :
            timer_list[i].id = held[k] /\ timer_list[i].owner = k /\ ~timer_list[i].running
      BY <1>2 DEF Listed
    <2> QED  BY <1>3, <2>1
  <1>5. \A i \in DOMAIN list : ~list[i].running
    BY <1>3
  <1>6. Timers'
    BY <1>1, <1>2, <1>3, <1>4, <1>5, TimersAfter
  <1>7. Entries' /\ Loop'
    BY DEF EventInv, Entries, Loop, TimerReturns, Phases
  <1> QED  BY <1>6, <1>7 DEF EventInv

\* The larger of two integers
LEMMA LargerOfTwo ==
  ASSUME NEW a \in Int, NEW b \in Int
  PROVE  Max({a, b}) = IF a >= b THEN a ELSE b
  <1> DEFINE m == IF a >= b THEN a ELSE b
  <1>1. m \in {a, b} /\ \A y \in {a, b} : m >= y
    OBVIOUS
  <1>2. \A x \in {a, b} : (\A y \in {a, b} : x >= y) => x = m
    OBVIOUS
  <1> HIDE DEF m
  <1> QED  BY <1>1, <1>2 DEF Max, m

\* As time passes, what is due stays due and the order stays.
LEMMA TickStep ==
  ASSUME EventInv, Tick
  PROVE  EventInv'
  <1> DEFINE older(item) == [item EXCEPT !.left = Max({@ - 1, -1})]
             list == [i \in DOMAIN timer_list |-> older(timer_list[i])]
  <1>1. timer_list' = list /\ held' = held /\ armed' = armed
    BY DEF Tick
  <1>2. UNCHANGED <<poll_fds, ready, failed, dispatchVars>>
    BY DEF Tick
  <1>3. /\ Identifiers(held, armed) /\ Sound(timer_list, held, armed)
        /\ ~SelfRestart => Listed(timer_list, held, armed)
        /\ phase # "timer" => \A i \in DOMAIN timer_list : ~timer_list[i].running
    BY DEF EventInv, Timers
  <1>4. /\ Len(timer_list) \in Nat /\ DOMAIN timer_list = 1..Len(timer_list)
        /\ \A i \in DOMAIN timer_list : timer_list[i] \in AlarmTimer
    BY <1>3, LenProperties, ElementOfSeq DEF Sound
  <1>5. ASSUME NEW item \in AlarmTimer
        PROVE  /\ older(item) \in AlarmTimer
               /\ older(item).left = IF item.left - 1 >= -1 THEN item.left - 1 ELSE -1
               /\ older(item).id = item.id /\ older(item).owner = item.owner
               /\ older(item).running = item.running
    <2> DEFINE left == Max({item.left - 1, -1})
    <2>1. item.left \in Int
      BY DEF AlarmTimer
    <2>2. left = (IF item.left - 1 >= -1 THEN item.left - 1 ELSE -1)
      BY <2>1, LargerOfTwo
    <2>3. left \in Int
      BY <2>1, <2>2
    <2>4. older(item) = [item EXCEPT !.left = left]
      BY DEF AlarmTimer
    <2> HIDE DEF left, older
    <2> QED  BY <2>2, <2>3, <2>4 DEF AlarmTimer
  <1> HIDE DEF older
  <1>6. /\ list \in Seq(AlarmTimer) /\ DOMAIN list = DOMAIN timer_list
        /\ \A i \in DOMAIN timer_list : list[i] = older(timer_list[i])
    <2>1. \A i \in 1..Len(timer_list) : list[i] \in AlarmTimer
      BY <1>4, <1>5
    <2>2. list = [i \in 1..Len(timer_list) |-> list[i]]
      BY <1>4
    <2> QED  BY <1>4, <2>1, <2>2
  <1> HIDE DEF list
  <1>7. ASSUME NEW i \in DOMAIN list
        PROVE  /\ list[i].id = timer_list[i].id /\ list[i].owner = timer_list[i].owner
               /\ list[i].running = timer_list[i].running
               /\ timer_list[i].left \in Int
               /\ list[i].left = IF timer_list[i].left - 1 >= -1 THEN timer_list[i].left - 1 ELSE -1
    <2>1. timer_list[i] \in AlarmTimer /\ list[i] = older(timer_list[i])
      BY <1>4, <1>6
    <2> QED  BY <1>5, <2>1 DEF AlarmTimer
  <1>8. \A i, j \in DOMAIN list : i < j => list[i].left <= list[j].left
    <2> SUFFICES ASSUME NEW i \in DOMAIN list, NEW j \in DOMAIN list, i < j
                 PROVE  list[i].left <= list[j].left
      OBVIOUS
    <2>1. timer_list[i].left <= timer_list[j].left
      BY <1>3, <1>6 DEF Sound
    <2> QED  BY <1>7, <2>1
  <1>9. Sound(list, held, armed)
    BY SMTT(30), <1>3, <1>6, <1>7, <1>8 DEF Sound
  <1>10. Listed(timer_list, held, armed) => Listed(list, held, armed)
    BY <1>6, <1>7 DEF Listed
  <1>11. phase' # "timer" => \A i \in DOMAIN list : ~list[i].running
    BY <1>2, <1>3, <1>6, <1>7 DEF dispatchVars
  <1>12. Timers'
    BY <1>1, <1>3, <1>9, <1>10, <1>11, TimersAfter
  <1> QED  BY <1>2, <1>12, EntriesRest DEF EventInv

\* dispatch_timer takes the first timer of the list, and its callback runs.
LEMMA DispatchTimerGood ==
  ASSUME Timers, timer_list # <<>>, DispatchTimer, phase # "timer"
  PROVE  Timers'
  <1> DEFINE first == timer_list[1]
             item == [first EXCEPT !.running = TRUE]
             list == [timer_list EXCEPT ![1] = item]
             a == [armed EXCEPT ![first.owner] = 0]
  <1>1. timer_list' = list /\ held' = held /\ armed' = a /\ phase' = "timer"
    BY DEF DispatchTimer
  <1>2. /\ Identifiers(held, armed) /\ Sound(timer_list, held, armed)
        /\ ~SelfRestart => Listed(timer_list, held, armed)
        /\ \A i \in DOMAIN timer_list : ~timer_list[i].running
    BY DEF Timers
  <1>3. /\ Len(timer_list) \in Nat /\ DOMAIN timer_list = 1..Len(timer_list)
        /\ timer_list \in Seq(AlarmTimer)
        /\ 1 \in 1..Len(timer_list)
    BY <1>2, LenProperties, EmptySeq DEF Sound
  <1>4. first \in AlarmTimer
    BY <1>3, ElementOfSeq
  <1>5. /\ item \in AlarmTimer /\ item.id = first.id /\ item.left = first.left
        /\ item.owner = first.owner /\ item.running /\ first.owner \in Owners
    BY <1>4 DEF AlarmTimer
  <1> HIDE DEF item
  <1>6. /\ list \in Seq(AlarmTimer) /\ DOMAIN list = DOMAIN timer_list
        /\ list[1] = item /\ \A i \in DOMAIN list \ {1} : list[i] = timer_list[i]
    BY <1>3, <1>5, ExceptSeq, LenProperties
  <1> HIDE DEF list
  <1>7. \A i \in DOMAIN list :
          /\ list[i].id = timer_list[i].id /\ list[i].left = timer_list[i].left
          /\ list[i].owner = timer_list[i].owner
          /\ list[i].running <=> i = 1
    BY <1>2, <1>5, <1>6
  <1>8. /\ a[first.owner] = 0 /\ \A j \in Owners \ {first.owner} : a[j] = armed[j]
        /\ Identifiers(held, a)
    BY <1>2, <1>5 DEF Identifiers
  <1> HIDE DEF a
  <1>9. \A i \in DOMAIN list \ {1} : list[i].owner \in Owners \ {first.owner}
    <2>0. \A i \in DOMAIN list : list[i] \in AlarmTimer
      BY <1>6, LenProperties, ElementOfSeq
    <2>1. \A i \in DOMAIN list : list[i].owner \in Owners
      BY <2>0 DEF AlarmTimer
    <2> SUFFICES ASSUME NEW i \in DOMAIN list \ {1}, list[i].owner = first.owner PROVE FALSE
      BY <2>1
    <2>2. timer_list[i].id = held[first.owner] /\ first.id = held[first.owner]
      BY <1>2, <1>3, <1>6, <1>7 DEF Sound
    <2> QED  BY <1>2, <1>3, <1>6, <2>2 DEF Sound
  <1>10. Sound(list, held, a)
    BY <1>2, <1>6, <1>7, <1>8, <1>9 DEF Sound
  <1>11. Listed(timer_list, held, armed) => Listed(list, held, a)
    BY <1>3, <1>6, <1>7, <1>8 DEF Listed
  <1> QED  BY <1>1, <1>2, <1>8, <1>10, <1>11, TimersAfter

-----------------------------------------------------------------------------
(* The steps of the loop and of the descriptors *)

\* A list of entries of which each is mapped to an entry is one of the same length.
LEMMA MappedEntries ==
  ASSUME NEW list \in Seq(Entry), NEW image \in [DOMAIN list -> Entry]
  PROVE  image \in Seq(Entry) /\ Len(image) = Len(list) /\ DOMAIN image = DOMAIN list
  <1>1. Len(list) \in Nat /\ DOMAIN list = 1..Len(list)
    BY LenProperties
  <1>2. image = [i \in 1..Len(list) |-> image[i]] /\ \A i \in 1..Len(list) : image[i] \in Entry
    BY <1>1
  <1> QED  BY <1>1, <1>2

\* What the fields of the entries are.
LEMMA EntriesTyped ==
  ASSUME Entries
  PROVE  /\ Len(poll_fds) \in Nat /\ DOMAIN poll_fds = 1..Len(poll_fds)
         /\ \A i \in DOMAIN poll_fds :
              /\ poll_fds[i] \in Entry
              /\ poll_fds[i].fd \in Descriptors /\ poll_fds[i].revents \in SUBSET Events
              /\ poll_fds[i].new \in BOOLEAN /\ poll_fds[i].seen \in BOOLEAN
  <1>1. /\ Len(poll_fds) \in Nat /\ DOMAIN poll_fds = 1..Len(poll_fds)
        /\ \A i \in DOMAIN poll_fds : poll_fds[i] \in Entry
    BY LenProperties, ElementOfSeq DEF Entries
  <1> QED  BY <1>1 DEF Entry

\* A field of an entry takes a value of its type.
LEMMA SeenField ==
  ASSUME NEW e \in Entry, NEW b \in BOOLEAN, NEW x, x = [e EXCEPT !.seen = b]
  PROVE  /\ x \in Entry /\ x.seen = b /\ x.fd = e.fd
         /\ x.revents = e.revents /\ x.new = e.new
  BY DEF Entry

LEMMA NewField ==
  ASSUME NEW e \in Entry, NEW b \in BOOLEAN, NEW x, x = [e EXCEPT !.new = b]
  PROVE  /\ x \in Entry /\ x.new = b /\ x.fd = e.fd
         /\ x.revents = e.revents /\ x.seen = e.seen
  BY DEF Entry

\* The entries are as they should be after a step, if they are said so of their new values.
LEMMA EntriesAfter ==
  ASSUME NEW list, poll_fds' = list, list \in Seq(Entry), Len(list) <= NUM_FDS,
         \A i \in DOMAIN list :
           /\ list[i].fd \in ready' \cup failed' => list[i].seen
           /\ list[i].fd \in polling'.input \cup polling'.error => list[i].new \/ list[i].seen
           /\ list[i].revents # {} => list[i].seen
  PROVE  Entries'
  BY DEF Entries

\* A new entry is put behind the others (adl_register_fd_cb).
LEMMA RegisterStep ==
  ASSUME EventInv, NEW f \in Descriptors, Register(f)
  PROVE  EventInv'
  <1> DEFINE e == NewEntry(f)
             list == Append(poll_fds, e)
  <1>1. /\ poll_fds' = list /\ UNCHANGED <<ready, failed, dispatchVars, timerVars>>
        /\ Len(poll_fds) < NUM_FDS
    BY DEF Register
  <1>2. Timers /\ Entries /\ Loop /\ poll_fds \in Seq(Entry) /\ NUM_FDS \in Nat
    BY EventLoopAssumption DEF EventInv, Entries
  <1>3. /\ e \in Entry /\ e.fd = f /\ e.new /\ e.revents = {}
        /\ f \in ready \cup failed => e.seen
    <2> DEFINE seen == f \in ready \cup failed
    <2>1. e = [fd |-> f, revents |-> {}, new |-> TRUE, seen |-> seen]
      BY DEF NewEntry
    <2>2. seen \in BOOLEAN
      OBVIOUS
    <2>3. f \in ready \cup failed => seen
      OBVIOUS
    <2> HIDE DEF seen, e
    <2>4. e.fd = f /\ e.revents = {} /\ e.new = TRUE /\ e.seen = seen
      BY <2>1
    <2>5. e \in Entry
      BY <2>1, <2>2 DEF Entry
    <2> QED  BY <2>3, <2>4, <2>5
  <1> HIDE DEF e
  <1>4. /\ list \in Seq(Entry) /\ Len(list) = Len(poll_fds) + 1 /\ Len(poll_fds) \in Nat
        /\ list[Len(poll_fds) + 1] = e
        /\ \A i \in 1..Len(poll_fds) : list[i] = poll_fds[i]
    BY <1>2, <1>3, AppendProperties, LenProperties
  <1> HIDE DEF list
  <1>5. \A i \in DOMAIN list :
          (i \in DOMAIN poll_fds /\ list[i] = poll_fds[i]) \/ list[i] = e
    <2>1. DOMAIN list = 1..(Len(poll_fds) + 1) /\ DOMAIN poll_fds = 1..Len(poll_fds)
      BY <1>2, <1>4, LenProperties
    <2> QED  BY <1>4, <2>1
  <1>6. ASSUME NEW i \in DOMAIN list
        PROVE  /\ list[i].fd \in ready \cup failed => list[i].seen
               /\ list[i].fd \in polling.input \cup polling.error => list[i].new \/ list[i].seen
               /\ list[i].revents # {} => list[i].seen
    BY <1>2, <1>3, <1>5 DEF Entries
  <1>7. Entries'
    <2>1. ready' = ready /\ failed' = failed /\ polling' = polling
      BY <1>1 DEF dispatchVars
    <2>2. Len(list) <= NUM_FDS
      BY <1>1, <1>2, <1>4
    <2> QED  BY <1>1, <1>4, <1>6, <2>1, <2>2, EntriesAfter
  <1>8. Timers' /\ Loop'
    BY <1>1, <1>2, TimersRest DEF Loop, dispatchVars
  <1> QED  BY <1>7, <1>8 DEF EventInv

\* An entry is taken out and the others move up (adl_remove_poll_fd).
LEMMA UnregisterStep ==
  ASSUME EventInv, NEW f \in Descriptors, Unregister(f)
  PROVE  EventInv'
  <1> DEFINE which == {i \in DOMAIN poll_fds : poll_fds[i].fd = f}
             list == Without(poll_fds, which)
  <1>1. poll_fds' = list /\ UNCHANGED <<ready, failed, dispatchVars, timerVars>>
    BY DEF Unregister, RemovePollFd
  <1>2. Timers /\ Entries /\ Loop /\ poll_fds \in Seq(Entry) /\ NUM_FDS \in Nat
    BY EventLoopAssumption DEF EventInv, Entries
  <1>3. Len(poll_fds) \in Nat /\ DOMAIN poll_fds = 1..Len(poll_fds)
    BY <1>2, EntriesTyped
  <1>4. /\ list \in Seq(Entry) /\ Len(list) <= Len(poll_fds)
        /\ \A i \in DOMAIN list : \E j \in DOMAIN poll_fds : list[i] = poll_fds[j]
    <2>1. CASE which = {}
      BY <1>2, <1>3, <2>1 DEF Without
    <2>2. CASE which # {}
      <3> DEFINE m == Min(which)
      <3>1. which \in SUBSET (1..Len(poll_fds)) /\ which \in SUBSET Nat
        BY <1>3
      <3>2. list = RemoveAt(poll_fds, m)
        BY <2>2 DEF Without
      <3>3. m \in which
        BY <2>2, <3>1, MinIsLeast
      <3> HIDE DEF list, m, which
      <3>4. m \in 1..Len(poll_fds)
        BY <3>1, <3>3
      <3> DEFINE r == RemoveAt(poll_fds, m)
      <3>5. /\ r \in Seq(Entry) /\ Len(r) = Len(poll_fds) - 1
            /\ \A i \in 1..(Len(poll_fds) - 1) : r[i] = poll_fds[IF i < m THEN i ELSE i + 1]
        BY <1>2, <3>4, OneLess
      <3> HIDE DEF r
      <3>6. DOMAIN r = 1..(Len(poll_fds) - 1)
        BY <3>5, LenProperties
      <3>7. \A i \in DOMAIN r : \E j \in DOMAIN poll_fds : r[i] = poll_fds[j]
        <4> SUFFICES ASSUME NEW i \in DOMAIN r
                     PROVE  \E j \in DOMAIN poll_fds : r[i] = poll_fds[j]
          OBVIOUS
        <4>1. i \in DOMAIN poll_fds /\ i + 1 \in DOMAIN poll_fds
          BY <1>3, <3>6
        <4> QED  BY <3>5, <3>6, <4>1
      <3> QED  BY <1>3, <3>2, <3>5, <3>7 DEF r
    <2> QED  BY <2>1, <2>2
  <1> HIDE DEF list
  <1>5. Entries'
    <2>1. ready' = ready /\ failed' = failed /\ polling' = polling
      BY <1>1 DEF dispatchVars
    <2>2. ASSUME NEW i \in DOMAIN list
          PROVE  /\ list[i].fd \in ready \cup failed => list[i].seen
                 /\ list[i].fd \in polling.input \cup polling.error => list[i].new \/ list[i].seen
                 /\ list[i].revents # {} => list[i].seen
      BY <1>2, <1>4 DEF Entries
    <2>3. Len(list) \in Nat /\ Len(list) <= NUM_FDS
      BY <1>2, <1>3, <1>4, LenProperties DEF Entries
    <2> QED  BY <1>1, <1>4, <2>1, <2>2, <2>3, EntriesAfter
  <1>6. Timers' /\ Loop'
    BY <1>1, <1>2, TimersRest DEF Loop, dispatchVars
  <1> QED  BY <1>5, <1>6 DEF EventInv

\* Data or an error comes: every entry of the descriptor has seen it.
LEMMA SeenGood ==
  ASSUME Entries, Loop, NEW f \in Descriptors, poll_fds' = Seen(poll_fds, f),
         ready' \cup failed' = ready \cup failed \cup {f}, polling' = polling
  PROVE  Entries'
  <1> DEFINE list == Seen(poll_fds, f)
             marked(i) == poll_fds[i].seen \/ poll_fds[i].fd = f
  <1>1. /\ Len(poll_fds) \in Nat /\ DOMAIN poll_fds = 1..Len(poll_fds)
        /\ \A i \in DOMAIN poll_fds : poll_fds[i] \in Entry
    BY EntriesTyped
  <1>2. list = [i \in DOMAIN poll_fds |-> [poll_fds[i] EXCEPT !.seen = marked(i)]]
    BY DEF Seen
  <1>3. \A i \in DOMAIN poll_fds : list[i] = [poll_fds[i] EXCEPT !.seen = marked(i)]
    BY <1>2
  <1>4. \A i \in DOMAIN poll_fds : marked(i) \in BOOLEAN
    OBVIOUS
  <1>5. \A i \in DOMAIN poll_fds : poll_fds[i].seen \/ poll_fds[i].fd = f => marked(i)
    OBVIOUS
  <1> HIDE DEF list, marked
  <1>6. \A i \in DOMAIN poll_fds :
          /\ list[i] \in Entry /\ list[i].seen = marked(i) /\ list[i].fd = poll_fds[i].fd
          /\ list[i].revents = poll_fds[i].revents /\ list[i].new = poll_fds[i].new
    <2> SUFFICES ASSUME NEW i \in DOMAIN poll_fds
                 PROVE  /\ list[i] \in Entry /\ list[i].seen = marked(i)
                        /\ list[i].fd = poll_fds[i].fd
                        /\ list[i].revents = poll_fds[i].revents
                        /\ list[i].new = poll_fds[i].new
      OBVIOUS
    <2> DEFINE e == poll_fds[i]
               x == list[i]
               b == marked(i)
    <2>1. e \in Entry /\ b \in BOOLEAN /\ x = [e EXCEPT !.seen = b]
      BY <1>1, <1>3, <1>4
    <2> HIDE DEF e, x, b
    <2>2. /\ x \in Entry /\ x.seen = b /\ x.fd = e.fd
          /\ x.revents = e.revents /\ x.new = e.new
      BY <2>1, SeenField
    <2> QED  BY <2>2 DEF e, x, b
  <1>7. list \in Seq(Entry) /\ Len(list) = Len(poll_fds) /\ DOMAIN list = DOMAIN poll_fds
    <2>1. list \in [DOMAIN poll_fds -> Entry]
      BY <1>2, <1>6
    <2> QED  BY <2>1, MappedEntries DEF Entries
  <1>8. ASSUME NEW i \in DOMAIN list
        PROVE  /\ list[i].fd \in ready' \cup failed' => list[i].seen
               /\ list[i].fd \in polling.input \cup polling.error => list[i].new \/ list[i].seen
               /\ list[i].revents # {} => list[i].seen
    BY <1>5, <1>6, <1>7 DEF Entries
  <1>9. Len(list) <= NUM_FDS /\ poll_fds' = list
    BY <1>7 DEF Entries, list
  <1> QED  BY <1>7, <1>8, <1>9, EntriesAfter

LEMMA DataArrivesStep ==
  ASSUME EventInv, NEW f \in Descriptors, DataArrives(f) \/ Fails(f)
  PROVE  EventInv'
  <1>1. /\ poll_fds' = Seen(poll_fds, f) /\ UNCHANGED <<dispatchVars, timerVars>>
        /\ ready' \cup failed' = ready \cup failed \cup {f}
        /\ ready' \in SUBSET Descriptors /\ failed' \in SUBSET Descriptors
    BY DEF DataArrives, Fails, EventInv, Loop
  <1>2. Entries'
    BY <1>1, SeenGood DEF EventInv, dispatchVars
  <1>3. Timers' /\ Loop'
    BY <1>1, TimersRest DEF EventInv, Loop, dispatchVars
  <1> QED  BY <1>2, <1>3 DEF EventInv

\* Fewer descriptors have data or an error, or others are not looked at: what the entries have seen suffices.
LEMMA EntriesFewer ==
  ASSUME Entries, poll_fds' = poll_fds, ready' \subseteq ready, failed' \subseteq failed,
         polling'.input \cup polling'.error \subseteq
           polling.input \cup polling.error \cup ready \cup failed
  PROVE  Entries'
  BY DEF Entries

LEMMA ConsumeStep ==
  ASSUME EventInv, NEW f \in Descriptors, Consume(f)
  PROVE  EventInv'
  <1>1. /\ ready' = ready \ {f} /\ failed' = failed \ {f}
        /\ UNCHANGED <<poll_fds, dispatchVars, timerVars>>
    BY DEF Consume
  <1>2. Entries'
    BY <1>1, EntriesFewer DEF EventInv, dispatchVars
  <1>3. Timers' /\ Loop'
    BY <1>1, TimersRest DEF EventInv, Loop, dispatchVars
  <1> QED  BY <1>2, <1>3 DEF EventInv

\* Of what the entries have, their events are changed only, and those set are of descriptors
\* that were looked at and whose entries are not new.
LEMMA RevisedGood ==
  ASSUME Entries, NEW list, poll_fds' = list, ready' = ready, failed' = failed,
         polling'.input \cup polling'.error \subseteq polling.input \cup polling.error,
         NEW revents \in [DOMAIN poll_fds -> SUBSET Events],
         list = [i \in DOMAIN poll_fds |-> [poll_fds[i] EXCEPT !.revents = revents[i]]],
         \A i \in DOMAIN poll_fds : revents[i] # {} => poll_fds[i].seen
  PROVE  Entries'
  <1>1. /\ Len(poll_fds) \in Nat /\ DOMAIN poll_fds = 1..Len(poll_fds)
        /\ \A i \in DOMAIN poll_fds : poll_fds[i] \in Entry
    BY EntriesTyped
  <1>2. \A i \in DOMAIN poll_fds :
          /\ list[i] \in Entry /\ list[i].revents = revents[i] /\ list[i].fd = poll_fds[i].fd
          /\ list[i].new = poll_fds[i].new /\ list[i].seen = poll_fds[i].seen
    <2> SUFFICES ASSUME NEW i \in DOMAIN poll_fds
                 PROVE  /\ list[i] \in Entry /\ list[i].revents = revents[i]
                        /\ list[i].fd = poll_fds[i].fd
                        /\ list[i].new = poll_fds[i].new /\ list[i].seen = poll_fds[i].seen
      OBVIOUS
    <2> DEFINE e == poll_fds[i]
               x == list[i]
               s == revents[i]
    <2>1. e \in Entry /\ s \in SUBSET Events /\ x = [e EXCEPT !.revents = s]
      BY <1>1
    <2> HIDE DEF e, x, s
    <2>2. /\ x \in Entry /\ x.revents = s /\ x.fd = e.fd
          /\ x.new = e.new /\ x.seen = e.seen
      BY <2>1 DEF Entry
    <2> QED  BY <2>2 DEF e, x, s
  <1>3. list \in Seq(Entry) /\ Len(list) = Len(poll_fds) /\ DOMAIN list = DOMAIN poll_fds
    <2>1. list \in [DOMAIN poll_fds -> Entry]
      BY <1>2
    <2> QED  BY <2>1, MappedEntries DEF Entries
  <1>4. ASSUME NEW i \in DOMAIN list
        PROVE  /\ list[i].fd \in ready' \cup failed' => list[i].seen
               /\ list[i].fd \in polling'.input \cup polling'.error => list[i].new \/ list[i].seen
               /\ list[i].revents # {} => list[i].seen
    BY <1>2, <1>3 DEF Entries
  <1> QED  BY <1>3, <1>4, EntriesAfter DEF Entries

\* The loop leaves the list of entries as it is, and what it looks at does not grow.
LEMMA LoopRest ==
  ASSUME EventInv, UNCHANGED <<poll_fds, failed, timerVars>>, ready' \subseteq ready,
         polling' \in {polling, NoPoll}, phase # "timer", Loop'
  PROVE  EventInv'
  <1>1. Entries'
    <2>1. polling'.input \cup polling'.error \subseteq polling.input \cup polling.error
      BY DEF NoPoll
    <2> QED  BY <2>1, EntriesFewer DEF EventInv
  <1>2. Timers'
    BY TimersRest DEF EventInv
  <1> QED  BY <1>1, <1>2 DEF EventInv

\* The events of all entries are cleared.
LEMMA CleanEntries ==
  ASSUME Entries, poll_fds' = WithoutEvents(poll_fds), UNCHANGED <<ready, failed>>,
         polling' \in {polling, NoPoll}
  PROVE  Entries'
  <1> DEFINE none == [i \in DOMAIN poll_fds |-> {}]
             list == [i \in DOMAIN poll_fds |-> [poll_fds[i] EXCEPT !.revents = none[i]]]
  <1>1. none \in [DOMAIN poll_fds -> SUBSET Events] /\ \A i \in DOMAIN poll_fds : none[i] = {}
    OBVIOUS
  <1>2. poll_fds' = list
    BY DEF WithoutEvents
  <1>3. polling'.input \cup polling'.error \subseteq polling.input \cup polling.error
    BY DEF NoPoll
  <1>4. list = [i \in DOMAIN poll_fds |-> [poll_fds[i] EXCEPT !.revents = none[i]]]
    OBVIOUS
  <1> HIDE DEF none, list
  <1> QED  BY <1>1, <1>2, <1>3, <1>4, RevisedGood

\* The events of one entry are cleared.
LEMMA NextEntryGood ==
  ASSUME Entries, NextEntry, UNCHANGED <<ready, failed, polling>>
  PROVE  Entries'
  <1> DEFINE rest == [i \in DOMAIN poll_fds |-> IF i = at THEN {} ELSE poll_fds[i].revents]
             list == [i \in DOMAIN poll_fds |-> [poll_fds[i] EXCEPT !.revents = rest[i]]]
  <1>0. /\ \A i \in DOMAIN poll_fds : poll_fds[i] \in Entry /\ poll_fds[i].revents \in SUBSET Events
    BY EntriesTyped
  <1>1. /\ rest \in [DOMAIN poll_fds -> SUBSET Events]
        /\ \A i \in DOMAIN poll_fds : rest[i] # {} => poll_fds[i].seen
    BY <1>0 DEF Entries
  <1>2. poll_fds' = list
    <2>1. \A i \in DOMAIN poll_fds :
            [poll_fds[i] EXCEPT !.revents = rest[i]] =
              IF i = at THEN [poll_fds[i] EXCEPT !.revents = {}] ELSE poll_fds[i]
      <3> SUFFICES ASSUME NEW i \in DOMAIN poll_fds
                   PROVE  [poll_fds[i] EXCEPT !.revents = rest[i]] =
                            IF i = at THEN [poll_fds[i] EXCEPT !.revents = {}] ELSE poll_fds[i]
        OBVIOUS
      <3>1. CASE i = at
        BY <3>1
      <3>2. CASE i # at
        <4>1. rest[i] = poll_fds[i].revents
          BY <3>2
        <4> QED  BY <1>0, <3>2, <4>1 DEF Entry
      <3> QED  BY <3>1, <3>2
    <2> HIDE DEF rest
    <2> QED  BY <2>1 DEF NextEntry
  <1>3. list = [i \in DOMAIN poll_fds |-> [poll_fds[i] EXCEPT !.revents = rest[i]]]
    OBVIOUS
  <1>4. polling'.input \cup polling'.error \subseteq polling.input \cup polling.error
    OBVIOUS
  <1> HIDE DEF rest, list
  <1> QED  BY <1>1, <1>2, <1>3, <1>4, RevisedGood

\* extendedPoll starts: no entry is new any more, and no descriptor has been found.
LEMMA StartPollStep ==
  ASSUME EventInv, NEW caller \in Callers, StartPoll(caller)
  PROVE  EventInv'
  <1> DEFINE list == Polled(poll_fds)
             p == [caller |-> caller, asked |-> Registered, input |-> {}, error |-> {}]
  <1>1. /\ poll_fds' = list /\ polling' = p /\ phase = "out" /\ phase' = "select"
        /\ UNCHANGED <<ready, failed, at, called, timerVars>>
    BY DEF StartPoll
  <1>2. /\ Len(poll_fds) \in Nat /\ DOMAIN poll_fds = 1..Len(poll_fds)
        /\ \A i \in DOMAIN poll_fds : poll_fds[i] \in Entry /\ poll_fds[i].fd \in Descriptors
    BY EntriesTyped DEF EventInv
  <1>3. \A i \in DOMAIN poll_fds :
          /\ list[i] \in Entry /\ list[i].fd = poll_fds[i].fd
          /\ list[i].revents = poll_fds[i].revents /\ list[i].seen = poll_fds[i].seen
    <2> SUFFICES ASSUME NEW i \in DOMAIN poll_fds
                 PROVE  /\ list[i] \in Entry /\ list[i].fd = poll_fds[i].fd
                        /\ list[i].revents = poll_fds[i].revents /\ list[i].seen = poll_fds[i].seen
      OBVIOUS
    <2>1. list[i] = [poll_fds[i] EXCEPT !.new = FALSE]
      BY DEF Polled
    <2> HIDE DEF list
    <2> QED  BY <1>2, <2>1, NewField
  <1>4. list \in Seq(Entry) /\ Len(list) = Len(poll_fds) /\ DOMAIN list = DOMAIN poll_fds
    <2>1. list \in [DOMAIN poll_fds -> Entry]
      BY <1>3 DEF Polled
    <2> HIDE DEF list
    <2> QED  BY <2>1, MappedEntries DEF EventInv, Entries
  <1> HIDE DEF list
  <1>5. Entries'
    <2>1. polling'.input \cup polling'.error = {} /\ ready' = ready /\ failed' = failed
      BY <1>1
    <2>2. ASSUME NEW i \in DOMAIN list
          PROVE  /\ list[i].fd \in ready' \cup failed' => list[i].seen
                 /\ list[i].fd \in polling'.input \cup polling'.error => list[i].new \/ list[i].seen
                 /\ list[i].revents # {} => list[i].seen
      BY <1>3, <1>4, <2>1 DEF EventInv, Entries
    <2>3. Len(list) <= NUM_FDS /\ poll_fds' = list
      BY <1>1, <1>4 DEF EventInv, Entries
    <2> QED  BY <1>4, <2>2, <2>3, EntriesAfter
  <1>6. Loop'
    <2>1. Registered \in SUBSET Descriptors
      BY <1>2 DEF Registered
    <2>2. p \in [caller : Callers, asked : SUBSET Descriptors,
                 input : SUBSET Descriptors, error : SUBSET Descriptors]
      BY <2>1
    <2> HIDE DEF p
    <2> QED  BY <1>1, <2>2 DEF EventInv, Loop, Phases
  <1>7. Timers'
    BY <1>1, TimersRest DEF EventInv
  <1> QED  BY <1>5, <1>6, <1>7 DEF EventInv

\* select() returns: every registered descriptor it found has been seen to have an event.
LEMMA SelectReturnsStep ==
  ASSUME EventInv, SelectReturns
  PROVE  EventInv'
  <1>1. /\ polling' = [polling EXCEPT !.input = polling.asked \cap ready,
                                      !.error = polling.asked \cap failed]
        /\ phase = "select" /\ phase' = "returned"
        /\ UNCHANGED <<poll_fds, ready, failed, at, called, timerVars>>
    BY DEF SelectReturns
  <1>2. /\ polling'.input = polling.asked \cap ready /\ polling'.error = polling.asked \cap failed
        /\ polling' \in [caller : Callers, asked : SUBSET Descriptors,
                         input : SUBSET Descriptors, error : SUBSET Descriptors]
    BY <1>1 DEF EventInv, Loop
  <1>3. Entries'
    <2>1. polling'.input \cup polling'.error \subseteq
            polling.input \cup polling.error \cup ready \cup failed
      BY <1>2
    <2> QED  BY <1>1, <2>1, EntriesFewer DEF EventInv
  <1>4. Loop'
    BY <1>1, <1>2 DEF EventInv, Loop, Phases
  <1>5. Timers'
    BY <1>1, TimersRest DEF EventInv
  <1> QED  BY <1>3, <1>4, <1>5 DEF EventInv

LEMMA LeaveGood ==
  ASSUME Loop, Leave, ready' \in SUBSET Descriptors, failed' \in SUBSET Descriptors
  PROVE  Loop' /\ polling' = NoPoll
  <1>1. 1 \in 1..(NUM_FDS + 1)
    BY EventLoopAssumption
  <1> QED  BY <1>1 DEF Loop, Leave, NoPoll, Phases, Callers

\* A timer that is due is dispatched by the loop, outside or after select().
LEMMA DispatchTimerLoop ==
  ASSUME Loop, DispatchTimer, UNCHANGED <<ready, failed>>
  PROVE  Loop' /\ polling' = NoPoll
  <1>1. 1 \in 1..(NUM_FDS + 1)
    BY EventLoopAssumption
  <1> QED  BY <1>1 DEF Loop, DispatchTimer, NoPoll, Phases, Callers

LEMMA LoopTimerStep ==
  ASSUME EventInv, LoopTimer
  PROVE  EventInv'
  <1>1. /\ phase # "timer" /\ timer_list # <<>> /\ DispatchTimer
        /\ UNCHANGED <<poll_fds, ready, failed>>
    BY DEF LoopTimer, TimerIsDue
  <1>2. Timers'
    BY <1>1, DispatchTimerGood DEF EventInv
  <1>3. Loop' /\ polling' = NoPoll
    BY <1>1, DispatchTimerLoop DEF EventInv
  <1>4. Entries'
    <2>1. polling'.input \cup polling'.error = {}
      BY <1>3 DEF NoPoll
    <2> QED  BY <1>1, <2>1, EntriesFewer DEF EventInv
  <1> QED  BY <1>2, <1>3, <1>4 DEF EventInv

LEMMA SelectTimesOutStep ==
  ASSUME EventInv, SelectTimesOut
  PROVE  EventInv'
  <1>1. /\ phase # "timer" /\ poll_fds' = WithoutEvents(poll_fds) /\ UNCHANGED <<ready, failed>>
        /\ \/ timer_list # <<>> /\ DispatchTimer
           \/ Leave /\ UNCHANGED timerVars
    BY DEF SelectTimesOut, TimerIsDue
  <1>2. Timers'
    BY <1>1, DispatchTimerGood, TimersRest DEF EventInv
  <1>3. Loop' /\ polling' = NoPoll
    <2>1. ready' \in SUBSET Descriptors /\ failed' \in SUBSET Descriptors
      BY <1>1 DEF EventInv, Loop
    <2> QED  BY <1>1, <2>1, DispatchTimerLoop, LeaveGood DEF EventInv
  <1>4. Entries'
    BY <1>1, <1>3, CleanEntries DEF EventInv
  <1> QED  BY <1>2, <1>3, <1>4 DEF EventInv

LEMMA SelectFailsStep ==
  ASSUME EventInv, SelectFails
  PROVE  EventInv'
  <1>1. /\ phase # "timer" /\ poll_fds' = WithoutEvents(poll_fds) /\ Leave
        /\ UNCHANGED <<ready, failed, timerVars>>
    BY DEF SelectFails
  <1>2. Timers'
    BY <1>1, TimersRest DEF EventInv
  <1>3. Loop' /\ polling' = NoPoll
    BY <1>1, LeaveGood DEF EventInv, Loop
  <1>4. Entries'
    BY <1>1, <1>3, CleanEntries DEF EventInv
  <1> QED  BY <1>2, <1>3, <1>4 DEF EventInv

\* extendedPoll has the lock again: a descriptor whose entry is new gets no event.
LEMMA PollReturnsStep ==
  ASSUME EventInv, PollReturns
  PROVE  EventInv'
  <1> DEFINE revents == [i \in DOMAIN poll_fds |-> Found(poll_fds[i].fd)]
             list == [i \in DOMAIN poll_fds |-> [poll_fds[i] EXCEPT !.revents = revents[i]]]
  <1>1. /\ phase = "returned" /\ phase' = "entry" /\ at' = 1
        /\ poll_fds' = [i \in DOMAIN poll_fds |->
                          [poll_fds[i] EXCEPT !.revents = Found(poll_fds[i].fd)]]
        /\ UNCHANGED <<ready, failed, polling, called, timerVars>>
    BY DEF PollReturns
  <1>2. \A i \in DOMAIN poll_fds : revents[i] = Found(poll_fds[i].fd)
    OBVIOUS
  <1>3. \A i \in DOMAIN poll_fds : revents[i] \in SUBSET Events
    BY <1>2 DEF Found, Events
  <1>4. revents \in [DOMAIN poll_fds -> SUBSET Events]
    BY <1>3
  <1>5. \A i \in DOMAIN poll_fds : revents[i] # {} => poll_fds[i].seen
    <2> SUFFICES ASSUME NEW i \in DOMAIN poll_fds, revents[i] # {} PROVE poll_fds[i].seen
      OBVIOUS
    <2>1. ~poll_fds[i].new /\ poll_fds[i].fd \in polling.input \cup polling.error
      BY <1>2 DEF Found
    <2> QED  BY <2>1 DEF EventInv, Entries
  <1>6. poll_fds' = list
    BY <1>1
  <1>7. list = [i \in DOMAIN poll_fds |-> [poll_fds[i] EXCEPT !.revents = revents[i]]]
    OBVIOUS
  <1> HIDE DEF revents, list
  <1>8. Entries'
    BY <1>1, <1>4, <1>5, <1>6, <1>7, RevisedGood DEF EventInv
  <1>9. Loop'
    <2>1. 1 \in 1..(NUM_FDS + 1)
      BY EventLoopAssumption
    <2> QED  BY <1>1, <2>1 DEF EventInv, Loop, Phases
  <1>10. Timers'
    BY <1>1, TimersRest DEF EventInv
  <1> QED  BY <1>8, <1>9, <1>10 DEF EventInv

\* dispatch_event goes on to the next entry: its index stays within the table and one beyond.
LEMMA NextEntryStep ==
  ASSUME EventInv, NextEntry, UNCHANGED <<ready, failed, polling, timerVars>>,
         called' \in {called, NoCall}, phase # "timer", at <= NUM_FDS
  PROVE  EventInv'
  <1>1. phase' = "entry" /\ at' = at + 1
    BY DEF NextEntry
  <1>2. at' \in 1..(NUM_FDS + 1)
    BY <1>1, EventLoopAssumption DEF EventInv, Loop
  <1>3. Loop'
    BY <1>1, <1>2 DEF EventInv, Loop, Phases
  <1>4. Entries'
    BY NextEntryGood DEF EventInv
  <1>5. Timers'
    BY TimersRest DEF EventInv
  <1> QED  BY <1>3, <1>4, <1>5 DEF EventInv

\* The callback of the entry is called.
LEMMA CallStep ==
  ASSUME EventInv, NEW event \in Events, Call(event), at \in DOMAIN poll_fds,
         UNCHANGED <<failed, polling, timerVars>>, ready' \subseteq ready, phase # "timer"
  PROVE  EventInv'
  <1>1. at <= NUM_FDS /\ poll_fds[at].fd \in Descriptors
    <2>1. /\ Len(poll_fds) \in Nat /\ DOMAIN poll_fds = 1..Len(poll_fds)
          /\ poll_fds[at].fd \in Descriptors
      BY EntriesTyped DEF EventInv
    <2> QED  BY <2>1, EventLoopAssumption DEF EventInv, Entries
  <1>2. called' \in [fd : Descriptors, event : Events] /\ phase' = "callback"
        /\ UNCHANGED <<poll_fds, at>>
    BY <1>1 DEF Call
  <1>3. Loop'
    BY <1>1, <1>2 DEF EventInv, Loop, Phases
  <1> QED  BY <1>2, <1>3, LoopRest

LEMMA DispatchStep ==
  ASSUME EventInv, Dispatch
  PROVE  EventInv'
  <1>1. /\ phase = "entry" /\ at \in DOMAIN poll_fds
        /\ UNCHANGED <<ready, failed, polling, timerVars>>
    BY DEF Dispatch
  <1>2. at <= NUM_FDS
    <2>1. /\ Len(poll_fds) \in Nat /\ DOMAIN poll_fds = 1..Len(poll_fds)
      BY EntriesTyped DEF EventInv
    <2> QED  BY <1>1, <2>1, EventLoopAssumption DEF EventInv, Entries
  <1>3. CASE Call("POLLERR")
    BY <1>1, <1>3, CallStep DEF Events
  <1>4. CASE NextEntry /\ UNCHANGED called
    BY <1>1, <1>2, <1>4, NextEntryStep
  <1>5. CASE phase' = "input" /\ UNCHANGED <<poll_fds, at, called>>
    <2>1. Loop'
      BY <1>1, <1>2, <1>5 DEF EventInv, Loop, Phases
    <2> QED  BY <1>1, <1>5, <2>1, LoopRest
  <1> QED  BY <1>3, <1>4, <1>5 DEF Dispatch

LEMMA DispatchInputStep ==
  ASSUME EventInv, DispatchInput
  PROVE  EventInv'
  <1>1. /\ phase = "input" /\ UNCHANGED <<ready, failed, polling, timerVars>>
        /\ \/ NextEntry /\ UNCHANGED called
           \/ InputReported /\ Call("POLLIN")
    BY DEF DispatchInput
  <1>2. at <= NUM_FDS
    BY <1>1 DEF EventInv, Loop
  <1>3. CASE NextEntry /\ UNCHANGED called
    BY <1>1, <1>2, <1>3, NextEntryStep
  <1>4. CASE InputReported /\ Call("POLLIN")
    BY <1>1, <1>4, CallStep DEF Events, InputReported
  <1> QED  BY <1>1, <1>3, <1>4

LEMMA ReceiveStep ==
  ASSUME EventInv, NEW f \in Descriptors, ReceivePacket(f) \/ ReceiveNothing(f)
  PROVE  EventInv'
  <1>1. /\ phase = "input" /\ at \in DOMAIN poll_fds /\ UNCHANGED <<failed, timerVars>>
        /\ ready' \subseteq ready
    BY DEF ReceivePacket, ReceiveNothing, Receive, InputReported
  <1>2. CASE ReceivePacket(f)
    BY <1>1, <1>2, CallStep DEF Events, ReceivePacket
  <1>3. CASE ReceiveNothing(f)
    <2>1. Leave /\ UNCHANGED poll_fds
      BY <1>3 DEF ReceiveNothing
    <2>2. ready' \in SUBSET Descriptors /\ failed' \in SUBSET Descriptors
      BY <1>1 DEF EventInv, Loop
    <2>3. Loop' /\ polling' = NoPoll
      BY <2>1, <2>2, LeaveGood DEF EventInv
    <2> QED  BY <1>1, <2>1, <2>3, LoopRest
  <1> QED  BY <1>2, <1>3

LEMMA CallbackReturnsStep ==
  ASSUME EventInv, CallbackReturns
  PROVE  EventInv'
  <1>1. /\ phase = "callback" /\ called' = NoCall
        /\ UNCHANGED <<ready, failed, polling, timerVars>>
        /\ (phase' = "input" /\ UNCHANGED <<poll_fds, at>>) \/ NextEntry
    BY DEF CallbackReturns
  <1>2. at <= NUM_FDS
    BY <1>1 DEF EventInv, Loop
  <1>3. CASE phase' = "input" /\ UNCHANGED <<poll_fds, at>>
    <2>1. Loop'
      BY <1>1, <1>2, <1>3 DEF EventInv, Loop, Phases
    <2> QED  BY <1>1, <1>3, <2>1, LoopRest
  <1>4. CASE NextEntry
    BY <1>1, <1>2, <1>4, NextEntryStep
  <1> QED  BY <1>1, <1>3, <1>4

LEMMA DispatchEndsStep ==
  ASSUME EventInv, DispatchEnds
  PROVE  EventInv'
  <1>1. phase # "timer" /\ Leave /\ UNCHANGED <<poll_fds, ready, failed, timerVars>>
    BY DEF DispatchEnds
  <1>2. Loop' /\ polling' = NoPoll
    BY <1>1, LeaveGood DEF EventInv, Loop
  <1> QED  BY <1>1, <1>2, LoopRest

-----------------------------------------------------------------------------
(* The theorems *)

LEMMA EventInit == Init => EventInv
  <1> SUFFICES ASSUME Init PROVE EventInv
    OBVIOUS
  <1>1. Timers
    <2>1. held \in [Owners -> {0} \cup Ids] /\ armed \in [Owners -> 0..2]
      BY DEF Init
    <2>2. \A k \in Owners : held[k] = 0 /\ armed[k] = 0
      BY DEF Init
    <2>3. timer_list = <<>> /\ timer_list \in Seq(AlarmTimer) /\ DOMAIN timer_list = {}
      BY DEF Init
    <2> QED  BY <2>1, <2>2, <2>3 DEF Timers, Identifiers, Distinct, Sound, Listed
  <1>2. Entries
    <2>1. /\ poll_fds \in Seq(Entry) /\ Len(poll_fds) = 0 /\ DOMAIN poll_fds = {}
      BY DEF Init
    <2> QED  BY <2>1, EventLoopAssumption DEF Entries
  <1>3. Loop
    <2>1. 1 \in 1..(NUM_FDS + 1)
      BY EventLoopAssumption
    <2> QED  BY <2>1 DEF Init, Loop, Phases, NoPoll, Callers
  <1> QED  BY <1>1, <1>2, <1>3 DEF EventInv

\* Every step keeps the invariant.
LEMMA EventStep == EventInv /\ [Next]_vars => EventInv'
  <1> SUFFICES ASSUME EventInv, [Next]_vars PROVE EventInv'
    OBVIOUS
  <1>1. ASSUME NEW k \in Owners, StopTimer(k) PROVE EventInv'
    BY <1>1, StopTimerStep
  <1>2. ASSUME NEW k \in Owners, NEW delay \in Delays,
               StartTimer(k, delay) \/ RestartTimer(k, delay)
        PROVE  EventInv'
    BY <1>2, StartTimerStep, RestartTimerStep
  <1>3. ASSUME NEW f \in Descriptors, Register(f) \/ Unregister(f) \/ Consume(f)
        PROVE  EventInv'
    BY <1>3, RegisterStep, UnregisterStep, ConsumeStep
  <1>4. ASSUME NEW f \in Descriptors, DataArrives(f) \/ Fails(f)
        PROVE  EventInv'
    BY <1>4, DataArrivesStep
  <1>5. ASSUME NEW f \in Descriptors, ReceivePacket(f) \/ ReceiveNothing(f)
        PROVE  EventInv'
    BY <1>5, ReceiveStep
  <1>6. ASSUME NEW caller \in Callers, StartPoll(caller) PROVE EventInv'
    BY <1>6, StartPollStep
  <1>7. CASE SelectReturns
    BY <1>7, SelectReturnsStep
  <1>8. CASE SelectTimesOut
    BY <1>8, SelectTimesOutStep
  <1>9. CASE SelectFails
    BY <1>9, SelectFailsStep
  <1>10. CASE PollReturns
    BY <1>10, PollReturnsStep
  <1>11. CASE Dispatch
    BY <1>11, DispatchStep
  <1>12. CASE DispatchInput
    BY <1>12, DispatchInputStep
  <1>13. CASE CallbackReturns
    BY <1>13, CallbackReturnsStep
  <1>14. CASE DispatchEnds
    BY <1>14, DispatchEndsStep
  <1>15. CASE LoopTimer
    BY <1>15, LoopTimerStep
  <1>16. CASE TimerReturns
    BY <1>16, TimerReturnsStep
  <1>17. CASE Tick
    BY <1>17, TickStep
  <1>18. CASE UNCHANGED vars
    BY <1>18, TimersRest, EntriesRest DEF EventInv, vars, timerVars, dispatchVars
  <1> QED  BY <1>1, <1>2, <1>3, <1>4, <1>5, <1>6, <1>7, <1>8, <1>9, <1>10, <1>11, <1>12,
              <1>13, <1>14, <1>15, <1>16, <1>17, <1>18 DEF Next

\* The inductive invariant holds in every reachable state.
THEOREM EventInvariant == Spec => []EventInv
  BY EventInit, EventStep, PTL DEF Spec

\* The table of descriptors, the list of timers and the variables of the loop have their
\* types: no entry beyond NUM_FDS, and no index beyond the table (poll_fds, timer_list).
THEOREM EventTypes == Spec => []TypeOK
  BY EventInvariant, InvariantTypes, PTL

\* No callback runs for an event from before its descriptor was registered (extendedPoll).
THEOREM NeverStale == Spec => []NoStaleEvent
  <1>1. EventInv => NoStaleEvent
    BY DEF EventInv, Entries, NoStaleEvent
  <1> QED  BY <1>1, EventInvariant, PTL

\* The timer that is due first is the head of the list (g_list_insert_sorted).
THEOREM AlwaysDueFirst == Spec => []DueFirst
  <1>1. EventInv => DueFirst
    BY DEF EventInv, Timers, Sound, DueFirst
  <1> QED  BY <1>1, EventInvariant, PTL

\* If no timer is restarted from its own callback, an armed timer is on the list under the
\* identifier its owner has: none is lost when another one returns or is stopped.
THEOREM ArmedAlwaysListed == Spec => [](~SelfRestart => ArmedIsListed)
  <1>1. EventInv => (~SelfRestart => ArmedIsListed)
    BY DEF EventInv, Timers, Listed, ArmedIsListed
  <1> QED  BY <1>1, EventInvariant, PTL
=============================================================================

------------------------- MODULE DistributionProofs -------------------------
(***************************************************************************)
(* Theorems about Distribution, for any hosts that share no address, any   *)
(* finite number of cells and ports, and stacks of any depth: type         *)
(* correctness, LiveIsFound, and, each where the one thing the code is not *)
(* up to does not happen, CurrentIsRight, OwnIsDelivered and               *)
(* ListenersServed.                                                        *)
(***************************************************************************)
EXTENDS Distribution, FiniteSetTheorems, SequenceTheorems, WellFoundedInduction, TLAPS

-----------------------------------------------------------------------------
(* The inductive invariant *)

(* What is in memory is in the list, once, in the order of the IDs; and of  *)
(* those with the same ID only the first may be alive.                      *)
ListSound ==
  /\ \A i, j \in DOMAIN AssociationList : AssociationList[i] = AssociationList[j] => i = j
  /\ \A c \in Cells : c \in Listed <=> assocs[c] # NoAssoc
  /\ \A i, j \in DOMAIN AssociationList : i < j =>
       LET c == AssociationList[i]
           d == AssociationList[j]
       IN  assocs[c].id <= assocs[d].id /\ (assocs[c].id = assocs[d].id => assocs[d].deleted)

(* No two instances have the same port, and none goes as long as it has *)
(* associations.                                                        *)
InstancesSound ==
  /\ portsSeized = {instances[n].port : n \in Registered}
  /\ \A m, n \in Registered : instances[m].port = instances[n].port => m = n
  /\ \A c \in Listed : assocs[c].name \in Registered

UsersOf(f) == {n \in Registered : f \in UsedFamilies(instances[n])}

(* The users of a family are the instances that use it, and while there are *)
(* any its socket is polled.                                                *)
UsersCounted ==
  \A f \in Families :
    users[f] = Cardinality(UsersOf(f)) /\ (UsersOf(f) # {} => f \in polled)

SamePorts(c, d) ==
  assocs[c].remotePort = assocs[d].remotePort /\ LocalPort(c) = LocalPort(d)

(* Between a port of this end and one of a host there is one association. *)
HostsApart ==
  \A c, d \in Live : c # d /\ SamePorts(c, d) =>
    \A h \in Hosts : assocs[c].addresses \cap h = {} \/ assocs[d].addresses \cap h = {}

Busy(frame) == frame.kind \in LibraryKinds /\ ~frame.done

(* The pointers are right for an association. *)
Serves(cur, inst, c, A) ==
  A[c] # NoAssoc /\ cur = c /\ (A[c].deleted \/ inst = A[c].name)

(* Every frame that works on an association, or will after its callback, has *)
(* the right pointers now, or gets them back when the frame above it is left; *)
(* the first frame gives back none.                                           *)
Nested(st, cur, inst, A) ==
  /\ st = <<>> => cur = NULL /\ inst = NULL
  /\ st # <<>> => st[1].oldAssoc = NULL /\ st[1].oldInstance = NULL
  /\ \A k \in 1..Len(st) : Busy(st[k]) \/ st[k].kind = "up" =>
       IF k = Len(st) THEN Serves(cur, inst, st[k].assoc, A)
       ELSE Serves(st[k + 1].oldAssoc, st[k + 1].oldInstance, st[k].assoc, A)
  /\ \A k \in 1..Len(st) : st[k].kind = "up" =>
       k > 1 /\ Busy(st[k - 1]) /\ st[k - 1].assoc = st[k].assoc

Base == TypeOK /\ ListSound /\ InstancesSound

Careful == Habits \cap {"delete in use", "primary early"} = {}

DistributionInv ==
  /\ Base
  /\ "unregister in use" \notin Habits => UsersCounted
  /\ "second address" \notin Habits => HostsApart
  /\ Careful => Nested(stack, current, instance, assocs)

-----------------------------------------------------------------------------
(* Numbers, and lists with one element less or more *)

\* A set of natural numbers has a least element, and Min is it.
LEMMA MinIsLeast ==
  ASSUME NEW S \in SUBSET Nat, S # {}
  PROVE  Min(S) \in S /\ \A y \in S : Min(S) <= y
  <1>1. PICK x \in S : \A y \in S : ~ (<<y, x>> \in OpToRel(<, Nat))
    BY NatLessThanWellFounded, WFMin
  <1>2. ASSUME NEW y \in S PROVE x =< y
    <2>1. x \in Nat /\ y \in Nat
      OBVIOUS
    <2>2. ~ (y < x)
      BY <1>1, <2>1 DEF OpToRel
    <2> QED  BY <2>1, <2>2
  <1> QED  BY <1>2 DEF Min

\* The greater of a number and one.
LEMMA MaxWithOne ==
  ASSUME NEW a \in Nat
  PROVE  Max({a, 1}) = IF a >= 1 THEN a ELSE 1
  <1> DEFINE m == IF a >= 1 THEN a ELSE 1
  <1>1. m \in {a, 1} /\ \A y \in {a, 1} : m >= y
    OBVIOUS
  <1>2. Max({a, 1}) \in {a, 1} /\ \A y \in {a, 1} : Max({a, 1}) >= y
    BY <1>1 DEF Max
  <1> QED  BY <1>1, <1>2

\* What a remainder is, below the modulus and up to twice as much.
LEMMA ModWraps ==
  ASSUME NEW M \in Nat \ {0}, NEW x \in Nat, x < 2 * M
  PROVE  x % M = IF x < M THEN x ELSE x - M
  <1> DEFINE q == x \div M
             m == x % M
  <1>1. q \in Int /\ m \in 0..(M - 1) /\ x = M * q + m
    OBVIOUS
  <1> HIDE DEF q, m
  <1>2. (q >= 1 => M * q >= M) /\ (q >= 2 => M * q >= 2 * M) /\ (q <= -1 => M * q <= -M)
    <2>1. q >= 1 => M * q >= M
      BY <1>1
    <2>2. q >= 2 => M * q >= 2 * M
      BY <1>1
    <2>3. q <= -1 => M * q <= -M
      BY <1>1
    <2> QED  BY <2>1, <2>2, <2>3
  <1>3. CASE x < M
    <2>1. q = 0
      BY <1>1, <1>2, <1>3
    <2> QED  BY <1>1, <1>3, <2>1 DEF m
  <1>4. CASE ~(x < M)
    <2>1. q = 1
      BY <1>1, <1>2, <1>4
    <2> QED  BY <1>1, <1>4, <2>1 DEF m
  <1> QED  BY <1>3, <1>4

\* Whoever counts up and around passes every number, and so finds one that is
\* free if there is one.
LEMMA CountingFinds ==
  ASSUME NEW M \in Nat \ {0}, NEW s \in 0..(M - 1), NEW Free, NEW free \in 1..M, free \in Free,
         NEW K \in SUBSET (0..(M - 1)),
         \A k \in 0..(M - 1) : k \in K <=> ((s + k) % M) + 1 \in Free
  PROVE  ((s + Min(K)) % M) + 1 \in 1..M /\ ((s + Min(K)) % M) + 1 \in Free
  <1> DEFINE k == IF free - 1 >= s THEN free - 1 - s ELSE free - 1 - s + M
  <1>1. k \in 0..(M - 1)
    OBVIOUS
  <1>2. s + k \in Nat /\ s + k < 2 * M
        /\ (s + k < M => s + k = free - 1) /\ (~(s + k < M) => s + k - M = free - 1)
    BY <1>1
  <1> HIDE DEF k
  <1>3. (s + k) % M = free - 1
    <2> DEFINE x == s + k
    <2>1. x \in Nat /\ x < 2 * M
      BY <1>2
    <2>2. (x < M => x = free - 1) /\ (~(x < M) => x - M = free - 1)
      BY <1>1, <1>2
    <2> HIDE DEF x
    <2>3. x % M = IF x < M THEN x ELSE x - M
      BY <2>1, ModWraps
    <2>4. x % M = free - 1
      BY <2>2, <2>3
    <2> QED  BY <2>4 DEF x
  <1>4. k \in K
    <2>1. ((s + k) % M) + 1 = free
      BY <1>3
    <2> QED  BY <1>1, <2>1
  <1>5. Min(K) \in K
    <2>1. K \in SUBSET Nat /\ K # {}
      BY <1>4
    <2> QED  BY <2>1, MinIsLeast
  <1>6. Min(K) \in 0..(M - 1)
    BY <1>5
  <1> HIDE DEF k
  <1>7. s + Min(K) \in Nat
    BY <1>6
  <1>8. (s + Min(K)) % M \in 0..(M - 1)
    <2> DEFINE x == s + Min(K)
    <2>1. x \in Nat /\ M \in Nat /\ M > 0
      BY <1>7
    <2> HIDE DEF x
    <2>2. x % M \in 0..(M - 1)
      BY <2>1
    <2> QED  BY <2>2 DEF x
  <1>9. ((s + Min(K)) % M) + 1 \in Free
    BY <1>5, <1>6
  <1>10. ((s + Min(K)) % M) + 1 \in 1..M
    BY <1>8
  <1> QED  BY <1>9, <1>10

\* What is left when an element is removed.
LEMMA OneLess ==
  ASSUME NEW S, NEW list \in Seq(S), NEW m \in 1..Len(list)
  PROVE  LET r == RemoveAt(list, m)
         IN  /\ r \in Seq(S) /\ Len(r) = Len(list) - 1
             /\ \A i \in 1..(Len(list) - 1) : r[i] = list[IF i < m THEN i ELSE i + 1]
  <1> DEFINE front == SubSeq(list, 1, m - 1)
             back == SubSeq(list, m + 1, Len(list))
  <1>0. Len(list) \in Nat /\ m \in Nat /\ \A i \in 1..Len(list) : list[i] \in S
    BY LenProperties, ElementOfSeq
  <1>1. /\ front \in Seq(S) /\ Len(front) = m - 1
        /\ \A i \in 1..(m - 1) : front[i] = list[i]
    BY <1>0, SubSeqProperties
  <1>2. /\ back \in Seq(S) /\ Len(back) = Len(list) - m
        /\ \A i \in 1..(Len(list) - m) : back[i] = list[m + i]
    <2>1. m + 1 \in Int /\ Len(list) \in Int /\ \A i \in (m + 1)..Len(list) : list[i] \in S
      BY <1>0
    <2>2. /\ back \in Seq(S)
          /\ Len(back) = IF m + 1 <= Len(list) THEN Len(list) - (m + 1) + 1 ELSE 0
          /\ \A i \in 1 .. Len(list) - (m + 1) + 1 : back[i] = list[m + 1 + i - 1]
      BY <2>1, SubSeqProperties
    <2> QED  BY <1>0, <2>2
  <1> HIDE DEF front, back
  <1>3. /\ front \o back \in Seq(S) /\ Len(front \o back) = Len(list) - 1
        /\ \A i \in 1..(Len(list) - 1) :
             (front \o back)[i] = IF i <= m - 1 THEN front[i] ELSE back[i - (m - 1)]
    <2>1. /\ front \o back \in Seq(S) /\ Len(front \o back) = Len(front) + Len(back)
          /\ \A i \in 1..(Len(front) + Len(back)) :
               (front \o back)[i] = IF i <= Len(front) THEN front[i] ELSE back[i - Len(front)]
      BY <1>1, <1>2, ConcatProperties
    <2> QED  BY <1>0, <1>1, <1>2, <2>1
  <1>4. ASSUME NEW i \in 1..(Len(list) - 1)
        PROVE  (front \o back)[i] = list[IF i < m THEN i ELSE i + 1]
    <2>1. CASE i < m
      BY <1>0, <1>1, <1>3, <2>1
    <2>2. CASE ~(i < m)
      <3>1. i - (m - 1) \in 1..(Len(list) - m) /\ m + (i - (m - 1)) = i + 1 /\ ~(i <= m - 1)
        BY <1>0, <2>2
      <3> QED  BY <1>2, <1>3, <2>2, <3>1
    <2> QED  BY <2>1, <2>2
  <1> QED  BY <1>3, <1>4 DEF RemoveAt, front, back

\* The list with an element more.
LEMMA OneMore ==
  ASSUME NEW S, NEW list \in Seq(S), NEW m \in 1..(Len(list) + 1), NEW e \in S
  PROVE  LET r == InsertAt(list, m, e)
         IN  /\ r \in Seq(S) /\ Len(r) = Len(list) + 1
             /\ \A i \in 1..(Len(list) + 1) :
                  r[i] = IF i < m THEN list[i] ELSE IF i = m THEN e ELSE list[i - 1]
  <1> DEFINE front == SubSeq(list, 1, m - 1)
             back == SubSeq(list, m, Len(list))
             start == front \o <<e>>
  <1>0. Len(list) \in Nat /\ m \in Nat /\ \A i \in 1..Len(list) : list[i] \in S
    BY LenProperties, ElementOfSeq
  <1>1. /\ front \in Seq(S) /\ Len(front) = m - 1
        /\ \A i \in 1..(m - 1) : front[i] = list[i]
    BY <1>0, SubSeqProperties
  <1>2. /\ back \in Seq(S) /\ Len(back) = Len(list) + 1 - m
        /\ \A i \in 1..(Len(list) + 1 - m) : back[i] = list[m + i - 1]
    <2>1. m \in Int /\ Len(list) \in Int /\ \A i \in m..Len(list) : list[i] \in S
      BY <1>0
    <2>2. /\ back \in Seq(S)
          /\ Len(back) = IF m <= Len(list) THEN Len(list) - m + 1 ELSE 0
          /\ \A i \in 1 .. Len(list) - m + 1 : back[i] = list[m + i - 1]
      BY <2>1, SubSeqProperties
    <2> QED  BY <1>0, <2>2
  <1> HIDE DEF front, back
  <1>3. /\ start \in Seq(S) /\ Len(start) = m
        /\ \A i \in 1..m : start[i] = IF i < m THEN list[i] ELSE e
    <2>1. <<e>> \in Seq(S) /\ Len(<<e>>) = 1 /\ <<e>>[1] = e
      OBVIOUS
    <2>2. /\ start \in Seq(S) /\ Len(start) = Len(front) + Len(<<e>>)
          /\ \A i \in 1..(Len(front) + Len(<<e>>)) :
               start[i] = IF i <= Len(front) THEN front[i] ELSE <<e>>[i - Len(front)]
      BY <1>1, <2>1, ConcatProperties
    <2>3. ASSUME NEW i \in 1..m PROVE start[i] = IF i < m THEN list[i] ELSE e
      <3>1. CASE i < m
        BY <1>0, <1>1, <2>1, <2>2, <3>1
      <3>2. CASE i = m
        BY <1>0, <1>1, <2>1, <2>2, <3>2
      <3>3. i < m \/ i = m
        BY <1>0
      <3> QED  BY <3>1, <3>2, <3>3
    <2> QED  BY <1>0, <1>1, <2>1, <2>2, <2>3
  <1> HIDE DEF start
  <1>4. /\ start \o back \in Seq(S) /\ Len(start \o back) = Len(list) + 1
        /\ \A i \in 1..(Len(list) + 1) :
             (start \o back)[i] = IF i <= m THEN start[i] ELSE back[i - m]
    <2>1. /\ start \o back \in Seq(S) /\ Len(start \o back) = Len(start) + Len(back)
          /\ \A i \in 1..(Len(start) + Len(back)) :
               (start \o back)[i] = IF i <= Len(start) THEN start[i] ELSE back[i - Len(start)]
      BY <1>2, <1>3, ConcatProperties
    <2> QED  BY <1>0, <1>2, <1>3, <2>1
  <1>5. ASSUME NEW i \in 1..(Len(list) + 1)
        PROVE  (start \o back)[i] =
                 IF i < m THEN list[i] ELSE IF i = m THEN e ELSE list[i - 1]
    <2>1. CASE i <= m
      BY <1>0, <1>3, <1>4, <2>1
    <2>2. CASE ~(i <= m)
      <3>1. i - m \in 1..(Len(list) + 1 - m) /\ m + (i - m) - 1 = i - 1
            /\ ~(i < m) /\ i # m
        BY <1>0, <2>2
      <3> QED  BY <1>2, <1>4, <2>2, <3>1
    <2> QED  BY <2>1, <2>2
  <1> QED  BY <1>4, <1>5 DEF InsertAt, front, back, start

-----------------------------------------------------------------------------
(* Finding an association *)

\* The first of those looked for is found, or there is none.
LEMMA FindFirst ==
  ASSUME AssociationList \in Seq(Cells), NEW S
  PROVE  \/ Find(S) = NULL /\ \A k \in DOMAIN AssociationList : AssociationList[k] \notin S
         \/ \E k \in DOMAIN AssociationList :
              /\ Find(S) = AssociationList[k] /\ AssociationList[k] \in S \cap Listed
              /\ Find(S) # NULL
              /\ \A j \in DOMAIN AssociationList : j < k => AssociationList[j] \notin S
  <1> DEFINE places == {k \in DOMAIN AssociationList : AssociationList[k] \in S}
  <1>1. DOMAIN AssociationList = 1..Len(AssociationList) /\ Len(AssociationList) \in Nat
        /\ \A k \in DOMAIN AssociationList : AssociationList[k] \in Cells
    BY LenProperties, ElementOfSeq
  <1>2. CASE places = {}
    BY <1>2 DEF Find
  <1>3. CASE places # {}
    <2>1. places \in SUBSET Nat
      BY <1>1
    <2>2. Min(places) \in places /\ \A y \in places : Min(places) <= y
      BY <1>3, <2>1, MinIsLeast
    <2>3. Find(S) = AssociationList[Min(places)]
      BY <1>3 DEF Find
    <2>4. AssociationList[Min(places)] \in Listed /\ AssociationList[Min(places)] # NULL
      <3>1. Min(places) \in DOMAIN AssociationList
        BY <2>2
      <3>2. AssociationList[Min(places)] \in Listed
        BY <3>1 DEF Listed, ToSet
      <3>3. NULL \notin Cells
        BY DistributionAssumption
      <3> QED  BY <1>1, <3>1, <3>2, <3>3
    <2>5. ASSUME NEW j \in DOMAIN AssociationList, j < Min(places), AssociationList[j] \in S
          PROVE  FALSE
      <3>1. j \in places
        BY <2>5
      <3>2. Min(places) <= j /\ Min(places) \in Nat /\ j \in Nat
        BY <2>1, <2>2, <3>1
      <3> QED  BY <2>5, <3>2
    <2> QED  BY <2>2, <2>3, <2>4, <2>5
  <1> QED  BY <1>2, <1>3

\* What is found is listed, and one of those looked for.
LEMMA FindWhat ==
  ASSUME AssociationList \in Seq(Cells), NEW S
  PROVE  /\ Find(S) # NULL => Find(S) \in S \cap Listed
         /\ Find(S) = NULL => S \cap Listed = {}
  BY FindFirst DEF Listed, ToSet

\* What retrieveAssociation finds.
LEMMA RetrieveWhat ==
  ASSUME TypeOK, ListSound, NEW id
  PROVE  /\ RetrieveForced(id) # NULL =>
              RetrieveForced(id) \in Listed /\ assocs[RetrieveForced(id)].id = id
         /\ Retrieve(id) # NULL => Retrieve(id) \in Live /\ assocs[Retrieve(id)].id = id
         /\ Retrieve(id) = NULL => \A c \in Live : assocs[c].id # id
  <1> DEFINE S == {c \in Listed : assocs[c].id = id}
  <1>1. AssociationList \in Seq(Cells)
    BY DEF TypeOK
  <1>2. RetrieveForced(id) = Find(S)
    BY DEF RetrieveForced
  <1>3. \/ Find(S) = NULL /\ \A k \in DOMAIN AssociationList : AssociationList[k] \notin S
        \/ \E k \in DOMAIN AssociationList :
             /\ Find(S) = AssociationList[k] /\ AssociationList[k] \in S \cap Listed
             /\ Find(S) # NULL
             /\ \A j \in DOMAIN AssociationList : j < k => AssociationList[j] \notin S
    BY <1>1, FindFirst
  <1>4. ASSUME NEW c \in Live, assocs[c].id = id PROVE Retrieve(id) = c
    <2>1. PICK i \in DOMAIN AssociationList : AssociationList[i] = c
      BY <1>4 DEF Live, Listed, ToSet
    <2>2. AssociationList[i] \in S
      BY <1>4, <2>1 DEF Live
    <2>3. PICK k \in DOMAIN AssociationList :
             /\ Find(S) = AssociationList[k] /\ AssociationList[k] \in S \cap Listed
             /\ Find(S) # NULL
             /\ \A j \in DOMAIN AssociationList : j < k => AssociationList[j] \notin S
      BY <1>3, <2>2
    <2>4. i \in Int /\ k \in Int
      BY <1>1, LenProperties
    <2>5. ~(i < k)
      BY <2>2, <2>3
    <2>6. ~(k < i)
      <3>1. assocs[AssociationList[k]].id = assocs[AssociationList[i]].id
        BY <1>4, <2>1, <2>3
      <3>2. ~assocs[AssociationList[i]].deleted
        BY <1>4, <2>1 DEF Live
      <3> QED  BY <3>1, <3>2 DEF ListSound
    <2>7. Find(S) = c
      BY <2>1, <2>3, <2>4, <2>5, <2>6
    <2> QED  BY <1>2, <1>4, <2>3, <2>7 DEF Retrieve, Live
  <1>5. Find(S) # NULL => Find(S) \in S \cap Listed
    BY <1>3
  <1>6. Retrieve(id) = NULL => \A c \in Live : assocs[c].id # id
    <2>1. \A c \in Live : c # NULL
      <3>1. \A c \in Listed : c \in Cells
        BY <1>1, LenProperties, ElementOfSeq DEF Listed, ToSet
      <3>2. NULL \notin Cells
        BY DistributionAssumption
      <3> QED  BY <3>1, <3>2 DEF Live
    <2> QED  BY <1>4, <2>1
  <1> QED  BY <1>2, <1>5, <1>6 DEF Retrieve, Live

\* Every association that is alive is found under its ID.
LEMMA InvariantFinds == TypeOK /\ ListSound => LiveIsFound
  <1> SUFFICES ASSUME TypeOK, ListSound, NEW c \in Live
               PROVE  Retrieve(assocs[c].id) = c
    BY DEF LiveIsFound
  <1>1. AssociationList \in Seq(Cells)
    BY DEF TypeOK
  <1>2. Retrieve(assocs[c].id) \in Live /\ assocs[Retrieve(assocs[c].id)].id = assocs[c].id
    BY RetrieveWhat
  <1> DEFINE d == Retrieve(assocs[c].id)
  <1>3. PICK i, j \in DOMAIN AssociationList : AssociationList[i] = c /\ AssociationList[j] = d
    BY <1>2 DEF Live, Listed, ToSet
  <1>4. i \in Int /\ j \in Int
    BY <1>1, LenProperties
  <1>5. ~(i < j) /\ ~(j < i)
    BY <1>2, <1>3 DEF ListSound, Live
  <1> QED  BY <1>3, <1>4, <1>5


\* An element that occurs once is removed from where it is.
LEMMA RemoveOnce ==
  ASSUME NEW S, NEW list \in Seq(S), NEW m \in DOMAIN list,
         \A i, j \in DOMAIN list : list[i] = list[j] => i = j
  PROVE  RemoveFirst(list, list[m]) = RemoveAt(list, m)
  <1> DEFINE I == {i \in 1..Len(list) : list[i] = list[m]}
  <1>1. DOMAIN list = 1..Len(list) /\ Len(list) \in Nat
    BY LenProperties
  <1>2. I = {m}
    BY <1>1
  <1>3. Min(I) = m
    <2>1. I \in SUBSET Nat /\ I # {}
      BY <1>1, <1>2
    <2>2. Min(I) \in I
      BY <2>1, MinIsLeast
    <2> QED  BY <1>2, <2>2
  <1>4. SelectInSeq(list, LAMBDA v : v = list[m]) = m
    BY <1>2, <1>3 DEF SelectInSeq
  <1>5. \E i \in 1..Len(list) : list[i] = list[m]
    BY <1>1
  <1> QED  BY <1>4, <1>5 DEF RemoveFirst


-----------------------------------------------------------------------------
(* What happens to the list of associations *)

(* An association is written to: its addresses become some of those of the *)
(* hosts it had addresses of, or it is marked as deleted.                  *)
Updated(c) ==
  /\ assocs' \in [Cells -> Assoc \cup {NoAssoc}]
  /\ \A d \in Cells \ {c} : assocs'[d] = assocs[d]
  /\ assocs'[c] \in Assoc
  /\ assocs'[c].id = assocs[c].id /\ assocs'[c].name = assocs[c].name
  /\ assocs'[c].remotePort = assocs[c].remotePort
  /\ assocs[c].deleted => assocs'[c].deleted
  /\ \A h \in Hosts : assocs'[c].addresses \cap h # {} => assocs[c].addresses \cap h # {}
  /\ UNCHANGED <<AssociationList, nextId>>

\* What is listed is in memory.
LEMMA ListedAre ==
  ASSUME TypeOK, ListSound, NEW c \in Listed
  PROVE  c \in Cells /\ c # NULL /\ assocs[c] \in Assoc
  <1>1. c \in Cells
    BY LenProperties, ElementOfSeq DEF TypeOK, Listed, ToSet
  <1>2. assocs[c] # NoAssoc
    BY <1>1 DEF ListSound
  <1> QED  BY <1>1, <1>2, DistributionAssumption DEF TypeOK

\* No association that is alive has the ID that is given next.
LEMMA UnusedIdFree ==
  ASSUME TypeOK, ListSound
  PROVE  UnusedId \in Ids /\ \A c \in Live : assocs[c].id # UnusedId
  <1> DEFINE Free == {id \in Ids : Retrieve(id) = NULL}
             K == {k \in 0..(MaxId - 1) : Retrieve(Ahead(k)) = NULL}
             s == Max({nextId, 1}) - 1
  <1>0. /\ Cardinality(Cells) \in Nat /\ MaxId \in Nat \ {0} /\ Cardinality(Cells) < MaxId
        /\ IsFiniteSet(Cells)
    <2>1. IsFiniteSet(Cells) /\ MaxId \in Nat /\ Cardinality(Cells) < MaxId
      BY DistributionAssumption
    <2>2. Cardinality(Cells) \in Nat
      BY <2>1, FS_CardinalityType
    <2> QED  BY <2>1, <2>2
  <1>1. Free # {}
    <2> SUFFICES ASSUME \A id \in Ids : Retrieve(id) # NULL PROVE FALSE
      OBVIOUS
    <2> DEFINE f == [id \in Ids |-> Retrieve(id)]
    <2>1. \A id \in Ids : Retrieve(id) \in Cells /\ assocs[Retrieve(id)].id = id
      BY RetrieveWhat, ListedAre DEF Live
    <2>2. f \in [Ids -> Cells]
      BY <2>1
    <2>3. IsFiniteSet(Ids) /\ Cardinality(Ids) = MaxId
      BY <1>0, FS_Interval DEF Ids
    <2>4. \A x, y \in Ids : f[x] = f[y] => x = y
      BY <2>1
    <2> HIDE DEF f
    <2>5. \E x, y \in Ids : x # y /\ f[x] = f[y]
      BY <1>0, <2>2, <2>3, FS_PigeonHole
    <2> QED  BY <2>4, <2>5
  <1>2. s \in 0..(MaxId - 1)
    <2>1. nextId \in 0..MaxId /\ nextId \in Nat
      BY <1>0 DEF TypeOK
    <2>2. Max({nextId, 1}) = IF nextId >= 1 THEN nextId ELSE 1
      BY <2>1, MaxWithOne
    <2> QED  BY <1>0, <2>1, <2>2
  <1>3. \A k : Ahead(k) = ((s + k) % MaxId) + 1
    BY DEF Ahead
  <1>4. \A k \in 0..(MaxId - 1) : Ahead(k) \in Ids
    <2> TAKE k \in 0..(MaxId - 1)
    <2> DEFINE x == s + k
    <2>1. x \in Nat /\ MaxId \in Nat /\ MaxId > 0
      BY <1>0, <1>2
    <2> HIDE DEF x
    <2>2. x % MaxId \in 0..(MaxId - 1)
      BY <2>1
    <2>3. (x % MaxId) + 1 \in 1..MaxId
      BY <2>1, <2>2
    <2> QED  BY <1>3, <2>3 DEF x, Ids
  <1>5. \A k \in 0..(MaxId - 1) : k \in K <=> ((s + k) % MaxId) + 1 \in Free
    BY <1>3, <1>4
  <1>6. K \in SUBSET (0..(MaxId - 1))
    OBVIOUS
  <1>7. PICK free \in Ids : free \in Free
    BY <1>1
  <1>8. UnusedId = ((s + Min(K)) % MaxId) + 1
    BY <1>3 DEF UnusedId
  <1> HIDE DEF Free, K, s
  <1>9. UnusedId \in 1..MaxId /\ UnusedId \in Free
    BY <1>0, <1>2, <1>5, <1>6, <1>7, <1>8, CountingFinds DEF Ids
  <1> QED  BY <1>9, RetrieveWhat DEF Free, Ids

\* An association that is written to.
LEMMA UpdateSound ==
  ASSUME TypeOK, ListSound, NEW c \in Listed, Updated(c)
  PROVE  ListSound' /\ Listed' = Listed
  <1>1. Listed' = Listed
    BY DEF Updated, Listed
  <1>2. c \in Cells /\ assocs[c] # NoAssoc
    BY ListedAre DEF ListSound
  <1>3. assocs'[c] # NoAssoc
    <2>1. assocs'[c].id \in Ids
      BY DEF Updated, Assoc
    <2> QED  BY <2>1 DEF NoAssoc, Ids
  <1>4. \A d \in Cells : d \in Listed' <=> assocs'[d] # NoAssoc
    BY <1>1, <1>2, <1>3 DEF Updated, ListSound
  <1>5. \A d \in Cells :
          assocs'[d].id = assocs[d].id /\ (assocs[d].deleted => assocs'[d].deleted)
    BY DEF Updated
  <1>6. \A i \in DOMAIN AssociationList : AssociationList[i] \in Cells
    BY LenProperties, ElementOfSeq DEF TypeOK
  <1>7. AssociationList' = AssociationList
    BY DEF Updated
  <1> QED  BY <1>1, <1>4, <1>5, <1>6, <1>7 DEF ListSound

\* An association that is freed.
LEMMA RemoveSound ==
  ASSUME TypeOK, ListSound, NEW c \in Listed, RemoveData(c)
  PROVE  /\ ListSound' /\ Listed' = Listed \ {c}
         /\ AssociationList' \in Seq(Cells) /\ assocs' \in [Cells -> Assoc \cup {NoAssoc}]
         /\ assocs'[c] = NoAssoc /\ \A d \in Cells \ {c} : assocs'[d] = assocs[d]
  <1> DEFINE list == AssociationList
             r == AssociationList'
  <1>1. list \in Seq(Cells) /\ DOMAIN list = 1..Len(list) /\ Len(list) \in Nat
    BY LenProperties DEF TypeOK
  <1>2. PICK m \in 1..Len(list) : list[m] = c
    BY <1>1 DEF Listed, ToSet
  <1>3. r = RemoveAt(list, m)
    BY SMTT(30), <1>1, <1>2, RemoveOnce DEF RemoveData, ListSound
  <1>4. /\ r \in Seq(Cells) /\ Len(r) = Len(list) - 1
        /\ \A i \in 1..(Len(list) - 1) : r[i] = list[IF i < m THEN i ELSE i + 1]
    BY <1>1, <1>3, OneLess
  <1>5. c \in Cells
    BY ListedAre
  <1>6. /\ assocs' \in [Cells -> Assoc \cup {NoAssoc}]
        /\ assocs'[c] = NoAssoc /\ \A d \in Cells \ {c} : assocs'[d] = assocs[d]
    BY <1>5 DEF RemoveData, TypeOK
  <1>7. DOMAIN r = 1..(Len(list) - 1)
    BY <1>4, LenProperties
  <1> DEFINE old(i) == IF i < m THEN i ELSE i + 1
  <1>8. \A i \in DOMAIN r : old(i) \in DOMAIN list /\ old(i) # m /\ r[i] = list[old(i)]
    BY <1>1, <1>2, <1>4, <1>7
  <1>9. \A i, j \in DOMAIN r : (i < j => old(i) < old(j)) /\ (old(i) = old(j) => i = j)
    BY <1>1, <1>2, <1>7
  <1>10. \A i \in DOMAIN list \ {m} : \E j \in DOMAIN r : old(j) = i
    <2> TAKE i \in DOMAIN list \ {m}
    <2>1. (IF i < m THEN i ELSE i - 1) \in DOMAIN r /\ old(IF i < m THEN i ELSE i - 1) = i
      BY <1>1, <1>2, <1>7
    <2> QED  BY <2>1
  <1>11. \A i, j \in DOMAIN list : list[i] = list[j] => i = j
    BY DEF ListSound
  <1> HIDE DEF old, r
  <1>12. ToSet(r) = ToSet(list) \ {c}
    <2>1. ASSUME NEW i \in DOMAIN r PROVE r[i] \in ToSet(list) \ {c}
      BY <1>2, <1>1, <1>8, <1>11 DEF ToSet
    <2>2. ASSUME NEW d \in ToSet(list) \ {c} PROVE d \in ToSet(r)
      <3>1. PICK i \in DOMAIN list : list[i] = d
        BY DEF ToSet
      <3>2. PICK j \in DOMAIN r : old(j) = i
        BY <1>2, <1>10, <3>1
      <3> QED  BY <1>8, <3>1, <3>2 DEF ToSet
    <2> QED  BY <2>1, <2>2 DEF ToSet
  <1>13. \A d \in Cells : d \in ToSet(r) <=> assocs'[d] # NoAssoc
    BY <1>6, <1>12 DEF ListSound, Listed
  <1>14. \A i, j \in DOMAIN r : r[i] = r[j] => i = j
    BY <1>8, <1>9, <1>11
  <1>15. \A i \in DOMAIN r : r[i] \in Cells \ {c}
    BY <1>1, <1>2, <1>8, <1>11, ElementOfSeq
  <1>16. ASSUME NEW i \in DOMAIN r, NEW j \in DOMAIN r, i < j
         PROVE  /\ assocs'[r[i]].id <= assocs'[r[j]].id
                /\ assocs'[r[i]].id = assocs'[r[j]].id => assocs'[r[j]].deleted
    <2>1. old(i) < old(j) /\ old(i) \in DOMAIN list /\ old(j) \in DOMAIN list
      BY <1>8, <1>9, <1>16
    <2>2. /\ assocs[list[old(i)]].id <= assocs[list[old(j)]].id
          /\ assocs[list[old(i)]].id = assocs[list[old(j)]].id => assocs[list[old(j)]].deleted
      BY <2>1 DEF ListSound
    <2> QED  BY <1>6, <1>8, <1>15, <2>2
  <1>17. ListSound'
    BY <1>13, <1>14, <1>16 DEF ListSound, Listed, r
  <1> QED  BY <1>4, <1>6, <1>12, <1>17 DEF r, Listed


\* An association that is made.
LEMMA NewSound ==
  ASSUME TypeOK, ListSound, NEW c \in Cells, NEW n \in Names, NEW addresses \in SUBSET Remotes,
         NEW port \in RemotePorts, NEW state \in States,
         NewAssociation(c, n, addresses, port, state)
  PROVE  /\ ListSound' /\ Listed' = Listed \cup {c} /\ c \notin Listed
         /\ AssociationList' \in Seq(Cells) /\ assocs' \in [Cells -> Assoc \cup {NoAssoc}]
         /\ nextId' \in 0..MaxId
         /\ assocs[c] = NoAssoc /\ \A d \in Cells \ {c} : assocs'[d] = assocs[d]
         /\ assocs'[c] # NoAssoc /\ assocs'[c].name = n /\ assocs'[c].remotePort = port
         /\ assocs'[c].addresses = addresses /\ ~assocs'[c].deleted
  <1> DEFINE list == AssociationList
             r == AssociationList'
             new == [id |-> UnusedId, name |-> n, remotePort |-> port,
                     addresses |-> addresses, state |-> state, deleted |-> FALSE]
  <1>1. list \in Seq(Cells) /\ DOMAIN list = 1..Len(list) /\ Len(list) \in Nat
        /\ \A i \in DOMAIN list : list[i] \in Cells
    <2>1. list \in Seq(Cells)
      BY DEF TypeOK
    <2> QED  BY <2>1, LenProperties, ElementOfSeq
  <1>2. UnusedId \in Ids /\ \A d \in Live : assocs[d].id # UnusedId
    BY UnusedIdFree
  <1>3. new \in Assoc /\ new # NoAssoc
    <2>1. new \in Assoc
      BY <1>2 DEF Assoc
    <2>2. new.id # 0
      BY <1>2 DEF Ids
    <2> QED  BY <2>1, <2>2 DEF NoAssoc
  <1>4. /\ assocs' \in [Cells -> Assoc \cup {NoAssoc}]
        /\ assocs[c] = NoAssoc /\ assocs'[c] = new
        /\ \A d \in Cells \ {c} : assocs'[d] = assocs[d]
    <2>1. assocs' = [assocs EXCEPT ![c] = new] /\ assocs[c] = NoAssoc
      BY DEF NewAssociation
    <2> HIDE DEF new
    <2> QED  BY <1>3, <2>1 DEF TypeOK
  <1>5. nextId' \in 0..MaxId
    <2>0. MaxId \in Nat
      BY DistributionAssumption
    <2>1. UnusedId + 1 \in Nat /\ MaxId + 1 \in Nat /\ MaxId + 1 > 0
      BY <1>2, <2>0 DEF Ids
    <2>2. (UnusedId + 1) % (MaxId + 1) \in 0..((MaxId + 1) - 1)
      <3> DEFINE x == UnusedId + 1
                 M == MaxId + 1
      <3> HIDE DEF x, M
      <3>1. x \in Nat /\ M \in Nat /\ M > 0
        BY <2>1 DEF x, M
      <3>2. x % M \in 0..(M - 1)
        BY <3>1
      <3> QED  BY <3>2 DEF x, M
    <2>3. 0..((MaxId + 1) - 1) = 0..MaxId
      BY <2>0
    <2> QED  BY <2>2, <2>3 DEF NewAssociation
  <1>6. c \notin Listed
    BY <1>4 DEF ListSound
  <1> DEFINE behind == {k \in DOMAIN list : assocs[list[k]].id >= UnusedId}
             m == Min(behind \cup {Len(list) + 1})
  <1>7. m \in behind \cup {Len(list) + 1} /\ \A y \in behind \cup {Len(list) + 1} : m <= y
    <2>1. behind \cup {Len(list) + 1} \in SUBSET Nat /\ behind \cup {Len(list) + 1} # {}
      BY <1>1
    <2> QED  BY <2>1, MinIsLeast
  <1>8. m \in 1..(Len(list) + 1)
    BY <1>1, <1>7
  <1>9. r = InsertAt(list, m, c)
    BY DEF NewAssociation, InsertSorted
  <1> HIDE DEF m
  <1>10. /\ r \in Seq(Cells) /\ Len(r) = Len(list) + 1
         /\ \A i \in 1..(Len(list) + 1) :
              r[i] = IF i < m THEN list[i] ELSE IF i = m THEN c ELSE list[i - 1]
    <2> HIDE DEF list, r
    <2>1. /\ InsertAt(list, m, c) \in Seq(Cells) /\ Len(InsertAt(list, m, c)) = Len(list) + 1
          /\ \A i \in 1..(Len(list) + 1) : InsertAt(list, m, c)[i] =
               IF i < m THEN list[i] ELSE IF i = m THEN c ELSE list[i - 1]
      BY <1>1, <1>8, OneMore
    <2> QED  BY <1>9, <2>1
  <1>11. DOMAIN r = 1..(Len(list) + 1)
    BY <1>10, LenProperties
  <1>12. \A i \in DOMAIN list : assocs[list[i]].id \in Ids /\ list[i] \in Listed
    <2>1. \A i \in DOMAIN list : list[i] \in Listed
      BY DEF Listed, ToSet
    <2> QED  BY <2>1, ListedAre DEF Assoc
  <1>13. \A i \in DOMAIN list : i < m => assocs[list[i]].id < UnusedId
    <2> SUFFICES ASSUME NEW i \in DOMAIN list, i < m, ~(assocs[list[i]].id < UnusedId)
                 PROVE  FALSE
      OBVIOUS
    <2>1. i \in behind
      BY <1>2, <1>12 DEF Ids
    <2> QED  BY <1>1, <1>7, <1>8, <2>1
  <1>14. \A i \in DOMAIN list : i >= m =>
           /\ UnusedId <= assocs[list[i]].id
           /\ UnusedId = assocs[list[i]].id => assocs[list[i]].deleted
    <2> SUFFICES ASSUME NEW i \in DOMAIN list, i >= m
                 PROVE  /\ UnusedId <= assocs[list[i]].id
                        /\ UnusedId = assocs[list[i]].id => assocs[list[i]].deleted
      OBVIOUS
    <2>1. m \in behind /\ m \in DOMAIN list
      BY <1>1, <1>7, <1>8
    <2>2. assocs[list[m]].id <= assocs[list[i]].id
      <3>1. CASE m = i
        BY <1>12, <2>1, <3>1 DEF Ids
      <3>2. CASE m < i
        BY <2>1, <3>2 DEF ListSound
      <3> QED  BY <1>1, <1>8, <3>1, <3>2
    <2>3. UnusedId <= assocs[list[i]].id
      BY <1>2, <1>12, <2>1, <2>2 DEF Ids
    <2>4. UnusedId = assocs[list[i]].id => assocs[list[i]].deleted
      BY <1>2, <1>12 DEF Live
    <2> QED  BY <2>3, <2>4
  <1> DEFINE old(i) == IF i < m THEN i ELSE i - 1
  <1>15. r[m] = c /\ m \in DOMAIN r
    BY <1>1, <1>8, <1>10, <1>11
  <1>16. \A i \in DOMAIN r \ {m} : old(i) \in DOMAIN list /\ r[i] = list[old(i)]
    BY <1>1, <1>8, <1>10, <1>11
  <1>17. \A i, j \in DOMAIN r \ {m} : (i < j => old(i) < old(j)) /\ (old(i) = old(j) => i = j)
    BY <1>1, <1>8, <1>11
  <1>18. \A i \in DOMAIN r \ {m} : (i < m => old(i) < m) /\ (i > m => old(i) >= m)
    BY <1>1, <1>8, <1>11
  <1>19. \A i \in DOMAIN list : \E j \in DOMAIN r \ {m} : old(j) = i
    <2> TAKE i \in DOMAIN list
    <2>1. /\ (IF i < m THEN i ELSE i + 1) \in DOMAIN r \ {m}
          /\ old(IF i < m THEN i ELSE i + 1) = i
      BY <1>1, <1>8, <1>11
    <2> QED  BY <2>1
  <1> HIDE DEF old, r, new
  <1>20. ToSet(r) = ToSet(list) \cup {c}
    <2>1. ASSUME NEW i \in DOMAIN r PROVE r[i] \in ToSet(list) \cup {c}
      BY <1>15, <1>16 DEF ToSet
    <2>2. ASSUME NEW d \in ToSet(list) \cup {c} PROVE d \in ToSet(r)
      <3>1. CASE d = c
        BY <1>15, <3>1 DEF ToSet
      <3>2. CASE d # c
        <4>1. PICK i \in DOMAIN list : list[i] = d
          BY <3>2 DEF ToSet
        <4>2. PICK j \in DOMAIN r \ {m} : old(j) = i
          BY <1>19
        <4> QED  BY <1>16, <4>1, <4>2 DEF ToSet
      <3> QED  BY <3>1, <3>2
    <2> QED  BY <2>1, <2>2 DEF ToSet
  <1>21. \A d \in Cells : d \in ToSet(r) <=> assocs'[d] # NoAssoc
    BY <1>3, <1>4, <1>20 DEF ListSound, Listed
  <1>22. \A i \in DOMAIN list : list[i] # c
    BY <1>6, <1>12
  <1>23. \A i, j \in DOMAIN r : r[i] = r[j] => i = j
    BY <1>15, <1>16, <1>17, <1>22 DEF ListSound
  <1>24. \A i \in DOMAIN r \ {m} : assocs'[r[i]] = assocs[list[old(i)]]
    BY <1>1, <1>4, <1>16, <1>22
  <1>25. assocs'[r[m]].id = UnusedId
    BY <1>4, <1>15 DEF new
  <1>26. ASSUME NEW i \in DOMAIN r, NEW j \in DOMAIN r, i < j
         PROVE  /\ assocs'[r[i]].id <= assocs'[r[j]].id
                /\ assocs'[r[i]].id = assocs'[r[j]].id => assocs'[r[j]].deleted
    <2>0. i \in Int /\ j \in Int /\ m \in Int
      BY <1>1, <1>8, <1>11
    <2>1. CASE i # m /\ j # m
      <3>1. old(i) < old(j) /\ old(i) \in DOMAIN list /\ old(j) \in DOMAIN list
        BY <1>16, <1>17, <1>26, <2>1
      <3>2. /\ assocs[list[old(i)]].id <= assocs[list[old(j)]].id
            /\ assocs[list[old(i)]].id = assocs[list[old(j)]].id => assocs[list[old(j)]].deleted
        BY <3>1 DEF ListSound
      <3> QED  BY <1>24, <2>1, <3>2
    <2>2. CASE i = m
      <3>1. j # m /\ j > m
        BY <1>26, <2>0, <2>2
      <3>2. old(j) >= m /\ old(j) \in DOMAIN list
        BY <1>16, <1>18, <3>1
      <3> QED  BY <1>14, <1>24, <1>25, <2>2, <3>1, <3>2
    <2>3. CASE j = m
      <3>1. i # m /\ i < m
        BY <1>26, <2>0, <2>3
      <3>2. old(i) < m /\ old(i) \in DOMAIN list
        BY <1>16, <1>18, <3>1
      <3>3. assocs[list[old(i)]].id < UnusedId
        BY <1>13, <3>2
      <3>4. assocs[list[old(i)]].id \in Int /\ UnusedId \in Int
        BY <1>2, <1>12, <3>2 DEF Ids
      <3>5. assocs[list[old(i)]].id <= UnusedId /\ assocs[list[old(i)]].id # UnusedId
        BY <3>3, <3>4
      <3> QED  BY <1>24, <1>25, <2>3, <3>1, <3>5
    <2> QED  BY <2>1, <2>2, <2>3
  <1>27. ListSound'
    BY <1>21, <1>23, <1>26 DEF ListSound, Listed, r
  <1> QED  BY <1>3, <1>4, <1>5, <1>6, <1>10, <1>20, <1>27 DEF r, new, Listed


-----------------------------------------------------------------------------
(* What happens to the instances *)

\* What is registered is an instance.
LEMMA RegisteredAre ==
  ASSUME TypeOK
  PROVE  /\ Registered \in SUBSET Names /\ IsFiniteSet(Names)
         /\ \A n \in Registered : instances[n] \in Instance
         /\ \A i \in Instance : i # NoInstance /\ UsedFamilies(i) \subseteq Families
  <1>1. ASSUME NEW i \in Instance PROVE i # NoInstance
    <2>1. "any" \in DOMAIN i
      BY DEF Instance
    <2>2. "any" \notin DOMAIN NoInstance
      BY DEF NoInstance
    <2> QED  BY <2>1, <2>2
  <1>2. \A i : UsedFamilies(i) \subseteq Families
    BY DEF UsedFamilies, Families
  <1>3. Registered \in SUBSET Names /\ \A n \in Registered : instances[n] \in Instance
    BY DEF Registered, TypeOK
  <1>4. IsFiniteSet(Names)
    <2>1. MaxName \in Nat \ {0}
      BY DistributionAssumption
    <2>2. 1 \in Int /\ MaxName \in Int
      BY <2>1
    <2> QED  BY <2>2, FS_Interval DEF Names
  <1> QED  BY <1>1, <1>2, <1>3, <1>4

\* While a port is free there is a name that is not in use, and it is found.
LEMMA UnusedNameFree ==
  ASSUME TypeOK, InstancesSound, NEW port \in Ports, port \notin portsSeized
  PROVE  UnusedName \in Names /\ UnusedName \notin Registered
  <1> DEFINE Free == Names \ Registered
             K == {k \in 0..(MaxName - 1) :
                     ((Max({lastName, 1}) - 1 + k) % MaxName) + 1 \notin Registered}
             s == Max({lastName, 1}) - 1
  <1>0. MaxName \in Nat \ {0} /\ IsFiniteSet(Ports) /\ Cardinality(Ports) <= MaxName
    BY DistributionAssumption
  <1>1. Free # {}
    <2> SUFFICES ASSUME Names \subseteq Registered PROVE FALSE
      OBVIOUS
    <2> DEFINE f == [n \in Names |-> instances[n].port]
    <2>1. /\ IsFiniteSet(Ports \ {port}) /\ Cardinality(Ports \ {port}) = Cardinality(Ports) - 1
          /\ Cardinality(Ports) \in Nat
      BY <1>0, FS_RemoveElement, FS_CardinalityType
    <2>2. portsSeized \in SUBSET (Ports \ {port})
      BY DEF TypeOK
    <2>3. IsFiniteSet(portsSeized) /\ Cardinality(portsSeized) <= Cardinality(Ports \ {port})
      BY <2>1, <2>2, FS_Subset
    <2>4. Cardinality(portsSeized) \in Nat
      BY <2>3, FS_CardinalityType
    <2>5. IsFiniteSet(Names) /\ Cardinality(Names) = MaxName
      BY <1>0, FS_Interval DEF Names
    <2>6. Cardinality(portsSeized) < Cardinality(Names)
      BY <1>0, <2>1, <2>3, <2>4, <2>5
    <2>7. f \in [Names -> portsSeized]
      BY DEF InstancesSound
    <2>8. \A x, y \in Names : f[x] = f[y] => x = y
      BY DEF InstancesSound
    <2> HIDE DEF f
    <2>9. \E x, y \in Names : x # y /\ f[x] = f[y]
      BY <2>3, <2>5, <2>6, <2>7, FS_PigeonHole
    <2> QED  BY <2>8, <2>9
  <1>2. s \in 0..(MaxName - 1)
    <2>1. lastName \in 0..MaxName /\ lastName \in Nat
      BY <1>0 DEF TypeOK
    <2>2. Max({lastName, 1}) = IF lastName >= 1 THEN lastName ELSE 1
      BY <2>1, MaxWithOne
    <2> QED  BY <1>0, <2>1, <2>2
  <1>4. \A k \in 0..(MaxName - 1) : ((s + k) % MaxName) + 1 \in Names
    <2> TAKE k \in 0..(MaxName - 1)
    <2> DEFINE x == s + k
    <2>1. x \in Nat /\ MaxName \in Nat /\ MaxName > 0
      BY <1>0, <1>2
    <2> HIDE DEF x
    <2>2. x % MaxName \in 0..(MaxName - 1)
      BY <2>1
    <2>3. (x % MaxName) + 1 \in 1..MaxName
      BY <2>1, <2>2
    <2> QED  BY <2>3 DEF x, Names
  <1>5. \A k \in 0..(MaxName - 1) : k \in K <=> ((s + k) % MaxName) + 1 \in Free
    BY <1>4
  <1>6. K \in SUBSET (0..(MaxName - 1))
    OBVIOUS
  <1>7. PICK free \in Names : free \in Free
    BY <1>1
  <1>8. UnusedName = ((s + Min(K)) % MaxName) + 1
    BY DEF UnusedName
  <1> HIDE DEF Free, K, s
  <1>9. UnusedName \in 1..MaxName /\ UnusedName \in Free
    BY <1>0, <1>2, <1>5, <1>6, <1>7, <1>8, CountingFinds DEF Names
  <1> QED  BY <1>9 DEF Free, Names

\* How the users of families are counted.
LEMMA CountingUsers ==
  ASSUME TypeOK, NEW i, NEW by \in Int
  PROVE  /\ CountUsers(i, by) \in [Families -> Int]
         /\ \A f \in Families :
              CountUsers(i, by)[f] = IF f \in UsedFamilies(i) THEN users[f] + by ELSE users[f]
  BY DEF TypeOK, CountUsers

\* An instance that is registered.
LEMMA RegisterSound ==
  ASSUME Base, NEW i \in Offers, RegisterInstance(i)
  PROVE  /\ instances' \in [Names -> Instance \cup {NoInstance}] /\ lastName' \in 0..MaxName
         /\ portsSeized' \subseteq Ports /\ polled' \subseteq Families
         /\ users' \in [Families -> Int]
         /\ InstancesSound' /\ (UsersCounted => UsersCounted')
         /\ \A c \in Listed : LocalPort(c)' = LocalPort(c)
  <1> DEFINE u == UnusedName
  <1>0. TypeOK /\ InstancesSound /\ ListSound /\ i \in Instance
    BY OffersAssumption DEF Base
  <1>1. i.port \in Ports /\ i.port \notin portsSeized
    BY <1>0 DEF RegisterInstance, Instance
  <1>2. u \in Names /\ u \notin Registered
    BY <1>0, <1>1, UnusedNameFree
  <1>3. /\ Registered \in SUBSET Names /\ IsFiniteSet(Names)
        /\ \A n \in Registered : instances[n] \in Instance
        /\ i # NoInstance /\ UsedFamilies(i) \subseteq Families
    BY <1>0, RegisteredAre
  <1>4. instances' = [instances EXCEPT ![u] = i]
    BY DEF RegisterInstance
  <1> HIDE DEF u
  <1>5. /\ instances' \in [Names -> Instance \cup {NoInstance}]
        /\ instances'[u] = i /\ \A n \in Names \ {u} : instances'[n] = instances[n]
    BY <1>0, <1>2, <1>4 DEF TypeOK
  <1>6. Registered' = Registered \cup {u}
    BY <1>2, <1>3, <1>5 DEF Registered
  <1>7. lastName' \in 0..MaxName
    <2> DEFINE x == UnusedName + 1
               M == MaxName + 1
    <2>1. x \in Nat /\ M \in Nat /\ M > 0 /\ M - 1 = MaxName
      <3>1. MaxName \in Nat \ {0}
        BY DistributionAssumption
      <3>2. UnusedName \in Nat
        BY <1>2, <3>1 DEF Names, u
      <3> QED  BY <3>1, <3>2
    <2>2. lastName' = x % M
      BY DEF RegisterInstance
    <2> HIDE DEF x, M
    <2>3. x % M \in 0..(M - 1)
      BY <2>1
    <2> QED  BY <2>1, <2>2, <2>3
  <1>8. portsSeized' = portsSeized \cup {i.port} /\ polled' = polled \cup UsedFamilies(i)
    BY DEF RegisterInstance
  <1>9. /\ users' \in [Families -> Int]
        /\ \A f \in Families :
             users'[f] = IF f \in UsedFamilies(i) THEN users[f] + 1 ELSE users[f]
    <2>1. users' = CountUsers(i, 1)
      BY DEF RegisterInstance
    <2> QED  BY <1>0, <2>1, CountingUsers
  <1>10. UNCHANGED <<assocs, AssociationList>>
    BY DEF RegisterInstance, assocVars
  <1>11. Listed' = Listed
    BY <1>10 DEF Listed
  <1>12. \A c \in Listed : assocs[c].name \in Registered
    BY <1>0 DEF InstancesSound
  <1>13. \A c \in Listed : LocalPort(c)' = LocalPort(c)
    BY <1>2, <1>3, <1>5, <1>10, <1>12 DEF LocalPort
  <1>14. InstancesSound'
    <2>1. portsSeized' = {instances'[n].port : n \in Registered'}
      <3>1. portsSeized = {instances[n].port : n \in Registered}
        BY <1>0 DEF InstancesSound
      <3>2. {instances'[n].port : n \in Registered'} =
              {instances[n].port : n \in Registered} \cup {i.port}
        BY <1>2, <1>3, <1>5, <1>6
      <3> QED  BY <1>8, <3>1, <3>2
    <2>2. \A m, n \in Registered' : instances'[m].port = instances'[n].port => m = n
      <3>1. \A n \in Registered : instances[n].port # i.port
        BY <1>0, <1>1 DEF InstancesSound
      <3>2. \A m, n \in Registered : instances[m].port = instances[n].port => m = n
        BY <1>0 DEF InstancesSound
      <3> QED  BY <1>2, <1>3, <1>5, <1>6, <3>1, <3>2
    <2>3. \A c \in Listed' : assocs'[c].name \in Registered'
      BY <1>6, <1>10, <1>11, <1>12
    <2> QED  BY <2>1, <2>2, <2>3 DEF InstancesSound
  <1>15. ASSUME UsersCounted PROVE UsersCounted'
    <2> SUFFICES ASSUME NEW f \in Families
                 PROVE  users'[f] = Cardinality(UsersOf(f)') /\ (UsersOf(f)' # {} => f \in polled')
      BY DEF UsersCounted
    <2>1. users[f] = Cardinality(UsersOf(f)) /\ (UsersOf(f) # {} => f \in polled)
      BY <1>15 DEF UsersCounted
    <2>2. UsersOf(f) \in SUBSET Names /\ u \notin UsersOf(f)
      BY <1>2, <1>3 DEF UsersOf
    <2>3. IsFiniteSet(UsersOf(f))
      BY <1>3, <2>2, FS_Subset
    <2>4. UsersOf(f)' = IF f \in UsedFamilies(i) THEN UsersOf(f) \cup {u} ELSE UsersOf(f)
      BY <1>2, <1>3, <1>5, <1>6 DEF UsersOf
    <2>5. Cardinality(UsersOf(f) \cup {u}) = Cardinality(UsersOf(f)) + 1
      BY <2>2, <2>3, FS_AddElement
    <2> QED  BY <1>8, <1>9, <2>1, <2>4, <2>5
  <1>16. portsSeized' \subseteq Ports /\ polled' \subseteq Families
    BY <1>0, <1>1, <1>3, <1>8 DEF TypeOK
  <1> QED  BY <1>5, <1>7, <1>9, <1>13, <1>14, <1>15, <1>16

\* An instance that is unregistered, or one that is in use and is not.
LEMMA UnregisterSound ==
  ASSUME Base, NEW n \in Names, UnregisterInstance(n)
  PROVE  /\ instances' \in [Names -> Instance \cup {NoInstance}]
         /\ portsSeized' \subseteq Ports /\ polled' \subseteq Families
         /\ users' \in [Families -> Int]
         /\ InstancesSound'
         /\ "unregister in use" \notin Habits /\ UsersCounted => UsersCounted'
         /\ \A c \in Listed : LocalPort(c)' = LocalPort(c)
  <1>0. TypeOK /\ InstancesSound /\ ListSound /\ n \in Registered
    BY DEF Base, UnregisterInstance
  <1>1. /\ users' \in [Families -> Int]
        /\ \A f \in Families :
             users'[f] = IF f \in UsedFamilies(instances[n]) THEN users[f] - 1 ELSE users[f]
    <2>1. users' = CountUsers(instances[n], -1)
      BY DEF UnregisterInstance
    <2>2. /\ CountUsers(instances[n], -1) \in [Families -> Int]
          /\ \A f \in Families : CountUsers(instances[n], -1)[f] =
               IF f \in UsedFamilies(instances[n]) THEN users[f] + (-1) ELSE users[f]
      BY <1>0, CountingUsers
    <2>3. \A f \in Families : users[f] \in Int
      BY <1>0 DEF TypeOK
    <2> QED  BY <2>1, <2>2, <2>3
  <1>2. UNCHANGED <<assocs, AssociationList>>
    BY DEF UnregisterInstance, assocVars
  <1>3. Listed' = Listed
    BY <1>2 DEF Listed
  <1>4. CASE InUse(n)
    <2>1. "unregister in use" \in Habits /\ UNCHANGED <<instances, portsSeized, polled>>
      BY <1>4 DEF UnregisterInstance
    <2>2. Registered' = Registered
      BY <2>1 DEF Registered
    <2>3. InstancesSound'
      BY <1>0, <1>2, <1>3, <2>1, <2>2 DEF InstancesSound
    <2>4. \A c \in Listed : LocalPort(c)' = LocalPort(c)
      BY <1>2, <2>1 DEF LocalPort
    <2> QED  BY <1>0, <1>1, <2>1, <2>3, <2>4 DEF TypeOK
  <1>5. CASE ~InUse(n)
    <2>1. /\ polled' = {f \in polled : users'[f] # 0}
          /\ portsSeized' = portsSeized \ {instances[n].port}
          /\ instances' = [instances EXCEPT ![n] = NoInstance]
      BY <1>5 DEF UnregisterInstance, StillPolled
    <2>2. /\ instances' \in [Names -> Instance \cup {NoInstance}]
          /\ instances'[n] = NoInstance /\ \A m \in Names \ {n} : instances'[m] = instances[m]
      BY <1>0, <2>1 DEF TypeOK
    <2>3. /\ Registered \in SUBSET Names /\ IsFiniteSet(Names)
      BY <1>0, RegisteredAre
    <2>4. Registered' = Registered \ {n}
      BY <2>2, <2>3 DEF Registered
    <2>5. \A c \in Listed : assocs[c].name \in Registered \ {n}
      BY <1>0, <1>5 DEF InstancesSound, InUse
    <2>6. \A c \in Listed : LocalPort(c)' = LocalPort(c)
      BY <1>2, <2>2, <2>3, <2>5 DEF LocalPort
    <2>7. InstancesSound'
      <3>1. portsSeized' = {instances'[m].port : m \in Registered'}
        <4>1. portsSeized = {instances[m].port : m \in Registered}
          BY <1>0 DEF InstancesSound
        <4>2. \A m \in Registered \ {n} : instances[m].port # instances[n].port
          BY <1>0 DEF InstancesSound
        <4>3. {instances'[m].port : m \in Registered'} =
                {instances[m].port : m \in Registered \ {n}}
          BY <2>2, <2>3, <2>4
        <4> QED  BY <1>0, <2>1, <4>1, <4>2, <4>3
      <3>2. \A l, m \in Registered' : instances'[l].port = instances'[m].port => l = m
        <4>1. \A l, m \in Registered : instances[l].port = instances[m].port => l = m
          BY <1>0 DEF InstancesSound
        <4> QED  BY <2>2, <2>3, <2>4, <4>1
      <3>3. \A c \in Listed' : assocs'[c].name \in Registered'
        BY <1>2, <1>3, <2>4, <2>5
      <3> QED  BY <3>1, <3>2, <3>3 DEF InstancesSound
    <2>8. ASSUME UsersCounted PROVE UsersCounted'
      <3> SUFFICES ASSUME NEW f \in Families
                   PROVE  users'[f] = Cardinality(UsersOf(f)') /\ (UsersOf(f)' # {} => f \in polled')
        BY DEF UsersCounted
      <3>1. users[f] = Cardinality(UsersOf(f)) /\ (UsersOf(f) # {} => f \in polled)
        BY <2>8 DEF UsersCounted
      <3>2. UsersOf(f) \in SUBSET Names
        BY <2>3 DEF UsersOf
      <3>3. IsFiniteSet(UsersOf(f))
        BY <2>3, <3>2, FS_Subset
      <3>4. UsersOf(f)' = UsersOf(f) \ {n}
        BY <2>2, <2>3, <2>4 DEF UsersOf
      <3>5. n \in UsersOf(f) <=> f \in UsedFamilies(instances[n])
        BY <1>0 DEF UsersOf
      <3>6. /\ IsFiniteSet(UsersOf(f) \ {n})
            /\ Cardinality(UsersOf(f) \ {n}) =
                 IF n \in UsersOf(f) THEN Cardinality(UsersOf(f)) - 1 ELSE Cardinality(UsersOf(f))
        BY <3>3, FS_RemoveElement
      <3>7. users'[f] = Cardinality(UsersOf(f)')
        BY <1>1, <3>1, <3>4, <3>5, <3>6
      <3>8. ASSUME UsersOf(f)' # {} PROVE f \in polled'
        <4>1. Cardinality(UsersOf(f)') # 0
          BY <3>4, <3>6, <3>8, FS_EmptySet
        <4> QED  BY <2>1, <3>1, <3>4, <3>7, <3>8, <4>1
      <3> QED  BY <3>7, <3>8
    <2>9. portsSeized' \subseteq Ports /\ polled' \subseteq Families
      BY <1>0, <2>1 DEF TypeOK
    <2> QED  BY <1>1, <2>2, <2>6, <2>7, <2>8, <2>9
  <1> QED  BY <1>4, <1>5


-----------------------------------------------------------------------------
(* What happens to the pointers *)

Needs(frame) == Busy(frame) \/ frame.kind = "up"

\* Whatever is entered, from whatever is running.
LEMMA PushNested ==
  ASSUME NEW st \in Seq(Frame), NEW cur, NEW inst, NEW A, Nested(st, cur, inst, A),
         NEW f \in Frame, f.oldAssoc = cur, f.oldInstance = inst, NEW c, NEW n,
         Needs(f) => Serves(c, n, f.assoc, A),
         f.kind = "up" => st # <<>> /\ Busy(st[Len(st)]) /\ st[Len(st)].assoc = f.assoc
  PROVE  Nested(Append(st, f), c, n, A)
  <1> DEFINE t == Append(st, f)
  <1>1. /\ t \in Seq(Frame) /\ t # <<>> /\ Len(t) = Len(st) + 1
        /\ \A k \in 1..Len(st) : t[k] = st[k]
        /\ t[Len(st) + 1] = f
    BY AppendProperties
  <1>2. Len(st) \in Nat /\ (st = <<>> <=> Len(st) = 0)
    BY LenProperties, EmptySeq
  <1> HIDE DEF t
  <1>3. t[1].oldAssoc = NULL /\ t[1].oldInstance = NULL
    <2>1. CASE st = <<>>
      BY <1>1, <1>2, <2>1 DEF Nested
    <2>2. CASE st # <<>>
      <3>1. 1 \in 1..Len(st)
        BY <1>2, <2>2
      <3> QED  BY <1>1, <2>2, <3>1 DEF Nested
    <2> QED  BY <2>1, <2>2
  <1>4. ASSUME NEW k \in 1..Len(t), Needs(t[k])
        PROVE  IF k = Len(t) THEN Serves(c, n, t[k].assoc, A)
               ELSE Serves(t[k + 1].oldAssoc, t[k + 1].oldInstance, t[k].assoc, A)
    <2>1. CASE k = Len(t)
      BY <1>1, <1>4, <2>1
    <2>2. CASE k = Len(st)
      <3>1. k \in 1..Len(st) /\ k # Len(t) /\ k + 1 = Len(st) + 1
        BY <1>1, <1>2, <2>2
      <3>2. Needs(st[k])
        BY <1>1, <1>4, <3>1
      <3>3. Serves(cur, inst, st[k].assoc, A)
        BY <2>2, <3>1, <3>2 DEF Nested, Needs
      <3>4. Serves(t[k + 1].oldAssoc, t[k + 1].oldInstance, t[k].assoc, A)
        BY <1>1, <3>1, <3>3
      <3> QED  BY <3>1, <3>4
    <2>3. CASE k # Len(t) /\ k # Len(st)
      <3>1. k \in 1..Len(st) /\ k + 1 \in 1..Len(st)
        BY <1>1, <1>2, <2>3
      <3>2. Needs(st[k])
        BY <1>1, <1>4, <3>1
      <3>3. Serves(st[k + 1].oldAssoc, st[k + 1].oldInstance, st[k].assoc, A)
        BY <2>3, <3>1, <3>2 DEF Nested, Needs
      <3>4. t[k] = st[k] /\ t[k + 1] = st[k + 1]
        BY <1>1, <3>1
      <3> QED  BY <2>3, <3>3, <3>4
    <2> QED  BY <2>1, <2>2, <2>3
  <1>5. ASSUME NEW k \in 1..Len(t), t[k].kind = "up"
        PROVE  k > 1 /\ Busy(t[k - 1]) /\ t[k - 1].assoc = t[k].assoc
    <2>1. CASE k = Len(t)
      <3>1. t[k] = f /\ st # <<>>
        BY <1>1, <1>5, <2>1
      <3>2. Busy(st[Len(st)]) /\ st[Len(st)].assoc = f.assoc
        BY <1>5, <3>1
      <3>3. k - 1 = Len(st) /\ k > 1 /\ k - 1 \in 1..Len(st)
        BY <1>1, <1>2, <2>1, <3>1
      <3> QED  BY <1>1, <3>1, <3>2, <3>3
    <2>2. CASE k # Len(t)
      <3>1. k \in 1..Len(st)
        BY <1>1, <1>2, <2>2
      <3>2. k > 1 /\ Busy(st[k - 1]) /\ st[k - 1].assoc = st[k].assoc
        BY <1>1, <1>5, <3>1 DEF Nested
      <3>3. k - 1 \in 1..Len(st)
        BY <1>2, <3>1, <3>2
      <3> QED  BY <1>1, <3>1, <3>2, <3>3
    <2> QED  BY <2>1, <2>2
  <1> QED  BY <1>1, <1>3, <1>4, <1>5 DEF Nested, Needs, t

\* What is left gives the pointers back to what is below.
LEMMA PopNested ==
  ASSUME NEW st \in Seq(Frame), st # <<>>, NEW cur, NEW inst, NEW A, Nested(st, cur, inst, A)
  PROVE  /\ Front(st) \in Seq(Frame)
         /\ Nested(Front(st), st[Len(st)].oldAssoc, st[Len(st)].oldInstance, A)
  <1> DEFINE t == Front(st)
             top == st[Len(st)]
  <1>1. Len(st) \in Nat \ {0} /\ \A k \in 1..Len(st) : st[k] \in Frame
    BY LenProperties, EmptySeq, ElementOfSeq
  <1>2. /\ t \in Seq(Frame) /\ Len(t) = Len(st) - 1
        /\ \A k \in 1..(Len(st) - 1) : t[k] = st[k]
    <2>1. 1 \in Int /\ Len(st) - 1 \in Int /\ \A k \in 1..(Len(st) - 1) : st[k] \in Frame
      BY <1>1
    <2>2. /\ SubSeq(st, 1, Len(st) - 1) \in Seq(Frame)
          /\ Len(SubSeq(st, 1, Len(st) - 1)) =
               IF 1 <= Len(st) - 1 THEN (Len(st) - 1) - 1 + 1 ELSE 0
          /\ \A k \in 1..((Len(st) - 1) - 1 + 1) :
               SubSeq(st, 1, Len(st) - 1)[k] = st[1 + k - 1]
      BY <2>1, SubSeqProperties
    <2>3. t = SubSeq(st, 1, Len(st) - 1)
      BY DEF Front
    <2> HIDE DEF t
    <2>4. Len(t) = Len(st) - 1
      <3>1. \A n \in Nat : (IF 1 <= n THEN n - 1 + 1 ELSE 0) = n
        OBVIOUS
      <3>2. Len(st) - 1 \in Nat
        BY <1>1
      <3> QED  BY <2>2, <2>3, <3>1, <3>2
    <2>5. \A k \in 1..(Len(st) - 1) : t[k] = st[k]
      <3> TAKE k \in 1..(Len(st) - 1)
      <3>1. k \in 1..((Len(st) - 1) - 1 + 1) /\ 1 + k - 1 = k
        BY <1>1
      <3> QED  BY <2>2, <2>3, <3>1
    <2> QED  BY <2>2, <2>3, <2>4, <2>5
  <1>3. t = <<>> <=> Len(t) = 0
    BY <1>2, EmptySeq
  <1> HIDE DEF t
  <1>4. t = <<>> => top.oldAssoc = NULL /\ top.oldInstance = NULL
    <2>1. SUFFICES ASSUME t = <<>> PROVE Len(st) = 1
      BY DEF Nested
    <2> QED  BY <1>1, <1>2, <1>3, <2>1
  <1>5. t # <<>> => t[1].oldAssoc = NULL /\ t[1].oldInstance = NULL
    <2> SUFFICES ASSUME t # <<>> PROVE t[1] = st[1]
      BY DEF Nested
    <2>1. 1 \in 1..(Len(st) - 1)
      BY <1>1, <1>2, <1>3
    <2> QED  BY <1>2, <2>1
  <1>6. ASSUME NEW k \in 1..Len(t), Needs(t[k])
        PROVE  IF k = Len(t) THEN Serves(top.oldAssoc, top.oldInstance, t[k].assoc, A)
               ELSE Serves(t[k + 1].oldAssoc, t[k + 1].oldInstance, t[k].assoc, A)
    <2>1. k \in 1..Len(st) /\ k # Len(st) /\ t[k] = st[k]
      BY <1>1, <1>2
    <2>2. Serves(st[k + 1].oldAssoc, st[k + 1].oldInstance, st[k].assoc, A)
      BY <1>6, <2>1 DEF Nested, Needs
    <2>3. CASE k = Len(t)
      <3>1. k + 1 = Len(st)
        BY <1>1, <1>2, <2>3
      <3> QED  BY <2>1, <2>2, <2>3, <3>1
    <2>4. CASE k # Len(t)
      <3>1. k + 1 \in 1..(Len(st) - 1)
        BY <1>1, <1>2, <2>4
      <3>2. t[k + 1] = st[k + 1]
        BY <1>2, <3>1
      <3> QED  BY <2>1, <2>2, <2>4, <3>2
    <2> QED  BY <2>3, <2>4
  <1>7. ASSUME NEW k \in 1..Len(t), t[k].kind = "up"
        PROVE  k > 1 /\ Busy(t[k - 1]) /\ t[k - 1].assoc = t[k].assoc
    <2>1. k \in 1..Len(st) /\ t[k] = st[k]
      BY <1>1, <1>2
    <2>2. k > 1 /\ Busy(st[k - 1]) /\ st[k - 1].assoc = st[k].assoc
      BY <1>7, <2>1 DEF Nested
    <2>3. k - 1 \in 1..(Len(st) - 1)
      BY <1>1, <1>2, <2>2
    <2> QED  BY <1>2, <2>1, <2>2, <2>3
  <1> QED  BY <1>2, <1>4, <1>5, <1>6, <1>7 DEF Nested, Needs, t

\* The top frame becomes another that needs no more.
LEMMA ChangeNested ==
  ASSUME NEW st \in Seq(Frame), NEW t \in Seq(Frame), st # <<>>, Len(t) = Len(st),
         \A k \in 1..(Len(st) - 1) : t[k] = st[k],
         t[Len(st)].assoc = st[Len(st)].assoc,
         t[Len(st)].oldAssoc = st[Len(st)].oldAssoc,
         t[Len(st)].oldInstance = st[Len(st)].oldInstance,
         t[Len(st)].kind # "up", Busy(t[Len(st)]) => Needs(st[Len(st)]),
         NEW cur, NEW inst, NEW A, Nested(st, cur, inst, A)
  PROVE  Nested(t, cur, inst, A)
  <1>1. Len(st) \in Nat \ {0} /\ t # <<>>
    BY LenProperties, EmptySeq
  <1>2. \A k \in 1..Len(st) : /\ t[k].oldAssoc = st[k].oldAssoc
                              /\ t[k].oldInstance = st[k].oldInstance
                              /\ t[k].assoc = st[k].assoc
                              /\ Needs(t[k]) => Needs(st[k])
    <2> TAKE k \in 1..Len(st)
    <2>1. CASE k = Len(st)
      BY <2>1 DEF Needs
    <2>2. CASE k # Len(st)
      <3>1. k \in 1..(Len(st) - 1)
        BY <1>1, <2>2
      <3> QED  BY <3>1
    <2> QED  BY <2>1, <2>2
  <1>3. t[1].oldAssoc = NULL /\ t[1].oldInstance = NULL
    <2>1. 1 \in 1..Len(st)
      BY <1>1
    <2> QED  BY <1>2, <2>1 DEF Nested
  <1>4. ASSUME NEW k \in 1..Len(t), Needs(t[k])
        PROVE  IF k = Len(t) THEN Serves(cur, inst, t[k].assoc, A)
               ELSE Serves(t[k + 1].oldAssoc, t[k + 1].oldInstance, t[k].assoc, A)
    <2>1. IF k = Len(st) THEN Serves(cur, inst, st[k].assoc, A)
          ELSE Serves(st[k + 1].oldAssoc, st[k + 1].oldInstance, st[k].assoc, A)
      BY <1>2, <1>4 DEF Nested, Needs
    <2>2. k # Len(st) => k + 1 \in 1..Len(st)
      BY <1>1
    <2> QED  BY <1>2, <2>1, <2>2
  <1>5. ASSUME NEW k \in 1..Len(t), t[k].kind = "up"
        PROVE  k > 1 /\ Busy(t[k - 1]) /\ t[k - 1].assoc = t[k].assoc
    <2>1. k # Len(st) /\ k \in 1..(Len(st) - 1)
      BY <1>1, <1>5
    <2>2. k > 1 /\ Busy(st[k - 1]) /\ st[k - 1].assoc = st[k].assoc
      BY <1>5, <2>1 DEF Nested
    <2>3. k - 1 \in 1..(Len(st) - 1)
      BY <1>1, <2>1, <2>2
    <2> QED  BY <2>1, <2>2, <2>3
  <1> QED  BY <1>1, <1>3, <1>4, <1>5 DEF Nested, Needs

\* The associations that are worked on stay.
LEMMA KeepNested ==
  ASSUME NEW st \in Seq(Frame), NEW cur, NEW inst, NEW A, NEW B, Nested(st, cur, inst, A),
         \A k \in 1..Len(st) : Needs(st[k]) =>
           LET c == st[k].assoc
           IN  A[c] # NoAssoc =>
                 B[c] # NoAssoc /\ B[c].name = A[c].name /\ (A[c].deleted => B[c].deleted)
  PROVE  Nested(st, cur, inst, B)
  <1>1. ASSUME NEW k \in 1..Len(st), Needs(st[k]), NEW c, NEW n, Serves(c, n, st[k].assoc, A)
        PROVE  Serves(c, n, st[k].assoc, B)
    BY <1>1 DEF Serves
  <1> QED  BY <1>1 DEF Nested, Needs

\* While the ULP runs, and is not told of a new association, the pointers may
\* be anything.
LEMMA ForgetNested ==
  ASSUME NEW st \in Seq(Frame), NEW cur, NEW inst, NEW A, Nested(st, cur, inst, A),
         st # <<>>, ~Needs(st[Len(st)]), NEW c, NEW n
  PROVE  Nested(st, c, n, A)
  <1>1. \A k \in 1..Len(st) : Needs(st[k]) => k # Len(st)
    OBVIOUS
  <1> QED  BY <1>1 DEF Nested, Needs

\* A frame with a callback for a new association has one below that works on it.
LEMMA NeedsBusy ==
  ASSUME NEW st \in Seq(Frame), NEW cur, NEW inst, NEW A, Nested(st, cur, inst, A),
         NEW k \in 1..Len(st), Needs(st[k])
  PROVE  \E j \in 1..Len(st) : Busy(st[j]) /\ st[j].assoc = st[k].assoc
  <1>1. CASE Busy(st[k])
    BY <1>1
  <1>2. CASE st[k].kind = "up"
    <2>1. k > 1 /\ Busy(st[k - 1]) /\ st[k - 1].assoc = st[k].assoc
      BY <1>2 DEF Nested
    <2>2. k - 1 \in 1..Len(st)
      BY <2>1, LenProperties
    <2> QED  BY <2>1, <2>2
  <1> QED  BY <1>1, <1>2 DEF Needs


-----------------------------------------------------------------------------
(* What a step does to the lists, apart from what it does to the pointers *)

DataTyped ==
  /\ instances \in [Names -> Instance \cup {NoInstance}] /\ lastName \in 0..MaxName
  /\ portsSeized \subseteq Ports
  /\ users \in [Families -> Int] /\ polled \subseteq Families
  /\ assocs \in [Cells -> Assoc \cup {NoAssoc}]
  /\ AssociationList \in Seq(Cells) /\ nextId \in 0..MaxId

PointersTyped ==
  /\ current \in Cells \cup {NULL} /\ instance \in Names \cup {NULL}
  /\ lastFrom \in Remotes \cup {NULL}
  /\ stack \in Seq(Frame) /\ strayed \in BOOLEAN

DataSound ==
  /\ DataTyped /\ ListSound /\ InstancesSound
  /\ "unregister in use" \notin Habits => UsersCounted
  /\ "second address" \notin Habits => HostsApart

(* No association is freed or moved to another instance, and none that is *)
(* deleted comes alive again.                                             *)
Kept ==
  \A c \in Cells : assocs[c] # NoAssoc =>
    /\ assocs'[c] # NoAssoc /\ assocs'[c].name = assocs[c].name
    /\ assocs[c].deleted => assocs'[c].deleted

\* The invariant is one of the data and one of the pointers.
LEMMA InvariantParts ==
  /\ DistributionInv <=>
       DataSound /\ PointersTyped /\ (Careful => Nested(stack, current, instance, assocs))
  /\ DistributionInv => TypeOK /\ ListSound /\ InstancesSound /\ Base
  BY DEF DistributionInv, Base, TypeOK, DataTyped, PointersTyped, DataSound

\* Associations that have no more addresses and ports than before are apart.
LEMMA ApartKept ==
  ASSUME HostsApart,
         \A c \in Live' :
           /\ c \in Live /\ assocs'[c].remotePort = assocs[c].remotePort
           /\ LocalPort(c)' = LocalPort(c)
           /\ \A h \in Hosts : assocs'[c].addresses \cap h # {} => assocs[c].addresses \cap h # {}
  PROVE  HostsApart'
  <1> SUFFICES ASSUME NEW c \in Live', NEW d \in Live', c # d, SamePorts(c, d)', NEW h \in Hosts
               PROVE  assocs'[c].addresses \cap h = {} \/ assocs'[d].addresses \cap h = {}
    BY DEF HostsApart
  <1>1. SamePorts(c, d)
    BY DEF SamePorts
  <1>2. assocs[c].addresses \cap h = {} \/ assocs[d].addresses \cap h = {}
    BY <1>1 DEF HostsApart
  <1> QED  BY <1>2

\* A step that leaves them alone.
LEMMA DataUnchanged ==
  ASSUME DataSound, UNCHANGED <<instanceVars, assocVars>>
  PROVE  DataSound' /\ Kept
  <1>1. /\ instances' = instances /\ lastName' = lastName /\ portsSeized' = portsSeized
        /\ users' = users /\ polled' = polled
        /\ assocs' = assocs /\ AssociationList' = AssociationList /\ nextId' = nextId
    BY DEF instanceVars, assocVars
  <1>2. Registered' = Registered /\ Listed' = Listed /\ Live' = Live
    BY <1>1 DEF Registered, Listed, Live
  <1>3. \A c : LocalPort(c)' = LocalPort(c)
    BY <1>1 DEF LocalPort
  <1>4. \A f : UsersOf(f)' = UsersOf(f)
    BY <1>1, <1>2 DEF UsersOf
  <1>5. DataTyped'
    BY <1>1 DEF DataSound, DataTyped
  <1>6. ListSound'
    BY <1>1, <1>2 DEF DataSound, ListSound
  <1>7. InstancesSound'
    BY <1>1, <1>2 DEF DataSound, InstancesSound
  <1>8. UsersCounted => UsersCounted'
    BY <1>1, <1>4 DEF UsersCounted
  <1>9. HostsApart => HostsApart'
    BY <1>1, <1>2, <1>3, ApartKept
  <1>10. Kept
    BY <1>1 DEF Kept
  <1> QED  BY <1>5, <1>6, <1>7, <1>8, <1>9, <1>10 DEF DataSound

\* The port of an association that is kept, as long as its instance is.
LEMMA LocalPortKept ==
  ASSUME NEW c, assocs'[c].name = assocs[c].name, instances' = instances
  PROVE  LocalPort(c)' = LocalPort(c)
  BY DEF LocalPort

\* An association that is written to.
LEMMA DataUpdated ==
  ASSUME TypeOK, DataSound, NEW c \in Listed, Updated(c), UNCHANGED instanceVars
  PROVE  DataSound' /\ Kept
  <1>1. /\ instances' = instances /\ lastName' = lastName /\ portsSeized' = portsSeized
        /\ users' = users /\ polled' = polled
    BY DEF instanceVars
  <1>2. ListSound /\ InstancesSound
    BY DEF DataSound
  <1>3. ListSound' /\ Listed' = Listed
    BY <1>2, UpdateSound
  <1>4. c \in Cells /\ assocs[c] \in Assoc
    BY <1>2, ListedAre
  <1>5. \A d \in Cells : /\ assocs'[d].name = assocs[d].name
                         /\ assocs'[d].remotePort = assocs[d].remotePort
                         /\ assocs[d].deleted => assocs'[d].deleted
                         /\ \A h \in Hosts : assocs'[d].addresses \cap h # {} =>
                                               assocs[d].addresses \cap h # {}
    BY DEF Updated
  <1>6. \A d \in Listed : d \in Cells
    BY <1>2, ListedAre
  <1>7. Registered' = Registered
    BY <1>1 DEF Registered
  <1>8. DataTyped'
    BY <1>1 DEF DataSound, DataTyped, Updated
  <1>9. InstancesSound'
    BY <1>1, <1>2, <1>3, <1>5, <1>6, <1>7 DEF InstancesSound
  <1>10. UsersCounted => UsersCounted'
    <2>1. \A f : UsersOf(f)' = UsersOf(f)
      BY <1>1, <1>7 DEF UsersOf
    <2> QED  BY <1>1, <2>1 DEF UsersCounted
  <1>11. HostsApart => HostsApart'
    <2>1. \A d \in Live' : d \in Live /\ d \in Cells
      BY <1>3, <1>5, <1>6 DEF Live
    <2>2. \A d \in Live' : LocalPort(d)' = LocalPort(d)
      BY <1>1, <1>5, <2>1, LocalPortKept
    <2> QED  BY <1>5, <2>1, <2>2, ApartKept
  <1>12. Kept
    BY <1>2, <1>3, <1>5 DEF Kept, ListSound
  <1> QED  BY <1>3, <1>8, <1>9, <1>10, <1>11, <1>12 DEF DataSound

\* An association that is freed; the others stay.
LEMMA DataRemoved ==
  ASSUME TypeOK, DataSound, NEW c \in Listed, RemoveData(c), UNCHANGED <<instanceVars, nextId>>
  PROVE  DataSound' /\ \A d \in Cells \ {c} : assocs'[d] = assocs[d]
  <1>1. /\ instances' = instances /\ lastName' = lastName /\ portsSeized' = portsSeized
        /\ users' = users /\ polled' = polled /\ nextId' = nextId
    BY DEF instanceVars
  <1>2. ListSound /\ InstancesSound
    BY DEF DataSound
  <1>3. /\ ListSound' /\ Listed' = Listed \ {c}
        /\ AssociationList' \in Seq(Cells) /\ assocs' \in [Cells -> Assoc \cup {NoAssoc}]
        /\ \A d \in Cells \ {c} : assocs'[d] = assocs[d]
    BY <1>2, RemoveSound
  <1>4. \A d \in Listed : d \in Cells
    BY <1>2, ListedAre
  <1>5. Registered' = Registered
    BY <1>1 DEF Registered
  <1>6. DataTyped'
    BY <1>1, <1>3 DEF DataSound, DataTyped
  <1>7. InstancesSound'
    BY <1>1, <1>2, <1>3, <1>4, <1>5 DEF InstancesSound
  <1>8. UsersCounted => UsersCounted'
    <2>1. \A f : UsersOf(f)' = UsersOf(f)
      BY <1>1, <1>5 DEF UsersOf
    <2> QED  BY <1>1, <2>1 DEF UsersCounted
  <1>9. HostsApart => HostsApart'
    <2>1. \A d \in Live' : d \in Live /\ assocs'[d] = assocs[d]
      BY <1>3, <1>4 DEF Live
    <2>2. \A d \in Live' : LocalPort(d)' = LocalPort(d)
      BY <1>1, <2>1, LocalPortKept
    <2> QED  BY <2>1, <2>2, ApartKept
  <1> QED  BY <1>3, <1>6, <1>7, <1>8, <1>9 DEF DataSound

\* An association that is made with a host there was none with.
LEMMA DataNew ==
  ASSUME TypeOK, DataSound, NEW c \in Cells, NEW n \in Registered,
         NEW host \in Hosts, NEW addresses \in SUBSET host,
         NEW port \in RemotePorts, NEW state \in States, Stranger(n, host, port),
         NewAssociation(c, n, addresses, port, state), UNCHANGED instanceVars
  PROVE  /\ DataSound' /\ Kept /\ assocs[c] = NoAssoc
         /\ assocs'[c] # NoAssoc /\ assocs'[c].name = n
  <1>1. /\ instances' = instances /\ lastName' = lastName /\ portsSeized' = portsSeized
        /\ users' = users /\ polled' = polled
    BY DEF instanceVars
  <1>2. ListSound /\ InstancesSound
    BY DEF DataSound
  <1>3. n \in Names /\ addresses \in SUBSET Remotes
    BY DEF Registered, Remotes
  <1>4. /\ ListSound' /\ Listed' = Listed \cup {c} /\ c \notin Listed
        /\ AssociationList' \in Seq(Cells) /\ assocs' \in [Cells -> Assoc \cup {NoAssoc}]
        /\ nextId' \in 0..MaxId
        /\ assocs[c] = NoAssoc /\ \A d \in Cells \ {c} : assocs'[d] = assocs[d]
        /\ assocs'[c] # NoAssoc /\ assocs'[c].name = n /\ assocs'[c].remotePort = port
        /\ assocs'[c].addresses = addresses /\ ~assocs'[c].deleted
    BY <1>2, <1>3, NewSound
  <1>5. \A d \in Listed : d \in Cells \ {c}
    BY <1>2, <1>4, ListedAre
  <1>6. Registered' = Registered
    BY <1>1 DEF Registered
  <1>7. DataTyped'
    BY <1>1, <1>4 DEF DataSound, DataTyped
  <1>8. InstancesSound'
    BY <1>1, <1>2, <1>4, <1>5, <1>6 DEF InstancesSound
  <1>9. UsersCounted => UsersCounted'
    <2>1. \A f : UsersOf(f)' = UsersOf(f)
      BY <1>1, <1>6 DEF UsersOf
    <2> QED  BY <1>1, <2>1 DEF UsersCounted
  <1>10. ASSUME "second address" \notin Habits, HostsApart PROVE HostsApart'
    <2>1. \A d \in Listed : ~EqualAssociations(d, host, port, instances[n].port)
      BY <1>10 DEF Stranger, IsNew
    <2>2. \A d \in Live' \ {c} : d \in Live /\ assocs'[d] = assocs[d]
      BY <1>4, <1>5 DEF Live
    <2>3. \A d \in Live' \ {c} : LocalPort(d)' = LocalPort(d)
      BY <1>1, <2>2, LocalPortKept
    <2>4. LocalPort(c)' = instances[n].port
      BY <1>1, <1>4 DEF LocalPort
    <2>5. ASSUME NEW d \in Live' \ {c}, SamePorts(c, d)', NEW h \in Hosts
          PROVE  assocs'[c].addresses \cap h = {} \/ assocs'[d].addresses \cap h = {}
      <3>1. assocs[d].remotePort = port /\ LocalPort(d) = instances[n].port
        BY <1>4, <2>2, <2>3, <2>4, <2>5 DEF SamePorts
      <3>2. assocs[d].addresses \cap host = {}
        BY <2>1, <2>2, <3>1 DEF EqualAssociations, Live
      <3>3. CASE h = host
        BY <2>2, <3>2, <3>3
      <3>4. CASE h # host
        BY <1>4, <3>4, DistributionAssumption
      <3> QED  BY <3>3, <3>4
    <2> SUFFICES ASSUME NEW d \in Live', NEW e \in Live', d # e, SamePorts(d, e)', NEW h \in Hosts
                 PROVE  assocs'[d].addresses \cap h = {} \/ assocs'[e].addresses \cap h = {}
      BY DEF HostsApart
    <2>6. CASE d = c
      BY <2>5, <2>6
    <2>7. CASE e = c
      <3>1. SamePorts(c, d)'
        BY <2>7 DEF SamePorts
      <3> QED  BY <2>5, <2>7, <3>1
    <2>8. CASE d # c /\ e # c
      <3>1. SamePorts(d, e)
        BY <2>2, <2>3, <2>8 DEF SamePorts
      <3> QED  BY <1>10, <2>2, <2>8, <3>1 DEF HostsApart
    <2> QED  BY <2>6, <2>7, <2>8
  <1>11. Kept
    BY <1>4 DEF Kept
  <1> QED  BY <1>4, <1>7, <1>8, <1>9, <1>10, <1>11 DEF DataSound


-----------------------------------------------------------------------------
(* Entering and leaving *)

\* The invariant, of the next state.
LEMMA InvariantNext ==
  ASSUME DataSound', PointersTyped', Careful => Nested(stack', current', instance', assocs')
  PROVE  DistributionInv'
  BY DEF DistributionInv, Base, TypeOK, DataTyped, PointersTyped, DataSound

\* The frames work on associations.
LEMMA FramesAre ==
  ASSUME PointersTyped
  PROVE  /\ Len(stack) \in Nat /\ (stack = <<>> <=> Len(stack) = 0)
         /\ stack # <<>> => Len(stack) \in 1..Len(stack)
         /\ \A k \in 1..Len(stack) :
              /\ stack[k] \in Frame /\ stack[k].assoc \in Cells
              /\ stack[k].oldAssoc \in Cells \cup {NULL}
              /\ stack[k].oldInstance \in Names \cup {NULL}
  <1>1. stack \in Seq(Frame)
    BY DEF PointersTyped
  <1>2. /\ Len(stack) \in Nat /\ (stack = <<>> <=> Len(stack) = 0)
        /\ \A k \in 1..Len(stack) : stack[k] \in Frame
    BY <1>1, LenProperties, EmptySeq, ElementOfSeq
  <1>3. \A f \in Frame : /\ f.assoc \in Cells /\ f.oldAssoc \in Cells \cup {NULL}
                         /\ f.oldInstance \in Names \cup {NULL}
    BY DEF Frame
  <1>4. stack # <<>> => Len(stack) \in 1..Len(stack)
    BY <1>2
  <1> QED  BY <1>2, <1>3, <1>4

\* What NewFrame makes.
LEMMA NewFrameIs ==
  ASSUME PointersTyped, NEW kind \in LibraryKinds \cup CallbackKinds, NEW c \in Cells,
         NEW may \in SUBSET CallbackKinds
  PROVE  /\ NewFrame(kind, c, may) \in Frame
         /\ NewFrame(kind, c, may).kind = kind /\ NewFrame(kind, c, may).assoc = c
         /\ NewFrame(kind, c, may).oldAssoc = current
         /\ NewFrame(kind, c, may).oldInstance = instance
         /\ ~NewFrame(kind, c, may).done
  BY DEF PointersTyped, Frame, NewFrame

\* The pointers stay right while the associations are kept.
LEMMA KeptNested ==
  ASSUME NEW st \in Seq(Frame), Kept, NEW cur, NEW inst, Nested(st, cur, inst, assocs)
  PROVE  Nested(st, cur, inst, assocs')
  <1>1. \A k \in 1..Len(st) : st[k].assoc \in Cells
    <2>1. \A f \in Frame : f.assoc \in Cells
      BY DEF Frame
    <2> QED  BY <2>1, ElementOfSeq
  <1>2. \A k \in 1..Len(st) : Needs(st[k]) =>
          LET c == st[k].assoc
          IN  assocs[c] # NoAssoc =>
                /\ assocs'[c] # NoAssoc /\ assocs'[c].name = assocs[c].name
                /\ assocs[c].deleted => assocs'[c].deleted
    BY <1>1 DEF Kept
  <1> QED  BY <1>2, KeepNested

\* A step that enters something, from the stack as it was or, when what is on
\* top of it is done, as that leaves it.
LEMMA PushInv ==
  ASSUME DataSound', Kept,
         NEW st \in Seq(Frame), Careful => Nested(st, current, instance, assocs),
         NEW f \in Frame, stack' = Append(st, f),
         f.oldAssoc = current, f.oldInstance = instance,
         current' \in Cells \cup {NULL}, instance' \in Names \cup {NULL},
         lastFrom' \in Remotes \cup {NULL}, strayed' \in BOOLEAN,
         Careful /\ Needs(f) => Serves(current', instance', f.assoc, assocs'),
         Careful /\ f.kind = "up" =>
           st # <<>> /\ Busy(st[Len(st)]) /\ st[Len(st)].assoc = f.assoc
  PROVE  DistributionInv'
  <1>3. PointersTyped'
    BY AppendProperties DEF PointersTyped
  <1>4. ASSUME Careful PROVE Nested(stack', current', instance', assocs')
    <2>1. Nested(st, current, instance, assocs')
      BY <1>4, KeptNested
    <2>2. f.kind = "up" => st # <<>> /\ Busy(st[Len(st)]) /\ st[Len(st)].assoc = f.assoc
      BY <1>4
    <2> DEFINE cur == current'
               inst == instance'
               A == assocs'
    <2> HIDE DEF cur, inst, A
    <2>3. Needs(f) => Serves(cur, inst, f.assoc, A)
      BY <1>4 DEF cur, inst, A
    <2>4. Nested(st, current, instance, A)
      BY <2>1 DEF A
    <2>5. Nested(Append(st, f), cur, inst, A)
      BY <2>2, <2>3, <2>4, PushNested
    <2> QED  BY <2>5 DEF cur, inst, A
  <1> QED  BY <1>3, <1>4, InvariantNext

\* A step that leaves the pointers alone, and keeps the associations.
LEMMA StayInv ==
  ASSUME DistributionInv, DataSound', Kept, UNCHANGED <<globals, stack>>, strayed' \in BOOLEAN
  PROVE  DistributionInv'
  <1>1. PointersTyped /\ (Careful => Nested(stack, current, instance, assocs))
    BY InvariantParts
  <1>2. current' = current /\ instance' = instance /\ lastFrom' = lastFrom /\ stack' = stack
    BY DEF globals
  <1>3. PointersTyped'
    BY <1>1, <1>2 DEF PointersTyped
  <1>4. Careful => Nested(stack', current', instance', assocs')
    BY <1>1, <1>2, KeptNested DEF PointersTyped
  <1> QED  BY <1>3, <1>4, InvariantNext

\* A step that leaves the top frame and puts the pointers back.
LEMMA PopInv ==
  ASSUME DistributionInv, UNCHANGED <<instanceVars, assocVars, lastFrom, strayed>>,
         stack # <<>>, stack' = Front(stack),
         current' = Top.oldAssoc, instance' = Top.oldInstance
  PROVE  DistributionInv'
  <1>1. /\ PointersTyped /\ DataSound
        /\ Careful => Nested(stack, current, instance, assocs)
    BY InvariantParts
  <1>2. DataSound' /\ assocs' = assocs
    BY <1>1, DataUnchanged DEF assocVars
  <1>3. stack \in Seq(Frame)
    BY <1>1 DEF PointersTyped
  <1>4. Top = stack[Len(stack)]
    BY DEF Top, Last
  <1>5. Top.oldAssoc \in Cells \cup {NULL} /\ Top.oldInstance \in Names \cup {NULL}
    BY <1>1, <1>4, FramesAre
  <1>6. Front(stack) \in Seq(Frame)
    <2>1. \A k \in 1..(Len(stack) - 1) : stack[k] \in Frame
      BY <1>1, FramesAre
    <2>2. 1 \in Int /\ Len(stack) - 1 \in Int
      BY <1>1, FramesAre
    <2> QED  BY <2>1, <2>2, SubSeqProperties DEF Front
  <1>7. PointersTyped'
    BY <1>1, <1>5, <1>6 DEF PointersTyped
  <1>8. ASSUME Careful PROVE Nested(stack', current', instance', assocs')
    <2>1. Nested(Front(stack), stack[Len(stack)].oldAssoc, stack[Len(stack)].oldInstance, assocs)
      BY <1>1, <1>3, <1>8, PopNested
    <2> QED  BY <1>2, <1>4, <2>1
  <1> QED  BY <1>2, <1>7, <1>8, InvariantNext


-----------------------------------------------------------------------------
(* The steps of the ULP *)

\* A step that only changes what is registered.
LEMMA InstancesInv ==
  ASSUME DistributionInv, UNCHANGED <<assocVars, globals, stack, strayed>>,
         instances' \in [Names -> Instance \cup {NoInstance}], lastName' \in 0..MaxName,
         portsSeized' \subseteq Ports, polled' \subseteq Families,
         users' \in [Families -> Int],
         InstancesSound', "unregister in use" \notin Habits => UsersCounted',
         \A c \in Listed : LocalPort(c)' = LocalPort(c)
  PROVE  DistributionInv'
  <1>1. DataSound /\ PointersTyped
    BY InvariantParts
  <1>2. assocs' = assocs /\ AssociationList' = AssociationList /\ nextId' = nextId
    BY DEF assocVars
  <1>3. Listed' = Listed /\ Live' = Live
    BY <1>2 DEF Listed, Live
  <1>4. DataTyped'
    BY <1>1, <1>2 DEF DataSound, DataTyped
  <1>5. ListSound'
    BY <1>1, <1>2, <1>3 DEF DataSound, ListSound
  <1>6. HostsApart => HostsApart'
    BY <1>2, <1>3, ApartKept DEF Live
  <1>7. DataSound'
    BY <1>1, <1>4, <1>5, <1>6 DEF DataSound
  <1>8. Kept
    BY <1>2 DEF Kept
  <1>9. strayed' \in BOOLEAN
    BY <1>1 DEF PointersTyped
  <1> QED  BY <1>7, <1>8, <1>9, StayInv

\* sctp_registerInstance
LEMMA RegisterInv ==
  ASSUME DistributionInv, NEW i \in Offers, RegisterInstance(i)
  PROVE  DistributionInv'
  <1>1. Base /\ DataSound
    BY InvariantParts
  <1>2. /\ instances' \in [Names -> Instance \cup {NoInstance}] /\ lastName' \in 0..MaxName
        /\ portsSeized' \subseteq Ports /\ polled' \subseteq Families
        /\ users' \in [Families -> Int]
        /\ InstancesSound' /\ (UsersCounted => UsersCounted')
        /\ \A c \in Listed : LocalPort(c)' = LocalPort(c)
    BY <1>1, RegisterSound
  <1>3. UNCHANGED <<assocVars, globals, stack, strayed>>
    BY DEF RegisterInstance
  <1>4. "unregister in use" \notin Habits => UsersCounted'
    BY <1>1, <1>2 DEF DataSound
  <1> QED  BY <1>2, <1>3, <1>4, InstancesInv

\* sctp_unregisterInstance
LEMMA UnregisterInv ==
  ASSUME DistributionInv, NEW n \in Names, UnregisterInstance(n)
  PROVE  DistributionInv'
  <1>1. Base /\ DataSound
    BY InvariantParts
  <1>2. /\ instances' \in [Names -> Instance \cup {NoInstance}]
        /\ portsSeized' \subseteq Ports /\ polled' \subseteq Families
        /\ users' \in [Families -> Int]
        /\ InstancesSound'
        /\ "unregister in use" \notin Habits /\ UsersCounted => UsersCounted'
        /\ \A c \in Listed : LocalPort(c)' = LocalPort(c)
    BY <1>1, UnregisterSound
  <1>3. UNCHANGED <<assocVars, globals, stack, strayed>> /\ lastName' \in 0..MaxName
    BY <1>1 DEF UnregisterInstance, DataSound, DataTyped
  <1>4. "unregister in use" \notin Habits => UsersCounted'
    BY <1>1, <1>2 DEF DataSound
  <1> QED  BY <1>2, <1>3, <1>4, InstancesInv

\* sctp_associate
LEMMA AssociateInv ==
  ASSUME DistributionInv, NEW c \in Cells, NEW n \in Names, NEW addresses, NEW port \in RemotePorts,
         Associate(c, n, addresses, port)
  PROVE  DistributionInv'
  <1>1. TypeOK /\ DataSound /\ PointersTyped
    BY InvariantParts
  <1>2. PICK host \in Hosts : addresses \subseteq host /\ Stranger(n, host, port)
    BY DEF Associate
  <1>3. n \in Registered /\ NewAssociation(c, n, addresses, port, "cookie_wait")
    BY DEF Associate
  <1>4. UNCHANGED <<instanceVars, globals, stack, strayed>>
    BY DEF Associate
  <1>5. DataSound' /\ Kept
    BY <1>1, <1>2, <1>3, <1>4, DataNew DEF States
  <1> QED  BY <1>1, <1>4, <1>5, StayInv DEF PointersTyped

\* sctp_deleteAssociation
LEMMA DeleteInv ==
  ASSUME DistributionInv, NEW id \in Ids, DeleteAssociation(id)
  PROVE  DistributionInv'
  <1> DEFINE c == RetrieveForced(id)
  <1>1. /\ TypeOK /\ ListSound /\ DataSound /\ PointersTyped
        /\ Careful => Nested(stack, current, instance, assocs)
    BY InvariantParts
  <1>2. /\ UlpRuns /\ c # NULL /\ (AtWork(c) => "delete in use" \in Habits)
        /\ IF assocs[c].deleted THEN RemoveData(c) ELSE UNCHANGED <<assocs, AssociationList>>
        /\ current' = NULL
        /\ UNCHANGED <<instanceVars, nextId, instance, lastFrom, stack, strayed>>
    BY DEF DeleteAssociation
  <1>3. c \in Listed
    BY <1>1, <1>2, RetrieveWhat
  <1> HIDE DEF c
  <1>4. DataSound' /\ \A d \in Cells \ {c} : assocs'[d] = assocs[d]
    <2>1. CASE assocs[c].deleted
      BY <1>1, <1>2, <1>3, <2>1, DataRemoved
    <2>2. CASE ~assocs[c].deleted
      BY <1>1, <1>2, <2>2, DataUnchanged DEF assocVars
    <2> QED  BY <2>1, <2>2
  <1>5. PointersTyped'
    BY <1>1, <1>2 DEF PointersTyped
  <1>6. ASSUME Careful PROVE Nested(stack', current', instance', assocs')
    <2>1. ~AtWork(c) /\ Nested(stack, current, instance, assocs)
      BY <1>1, <1>2, <1>6 DEF Careful
    <2>2. stack \in Seq(Frame) /\ DOMAIN stack = 1..Len(stack)
      BY <1>1, LenProperties DEF PointersTyped
    <2>3. ASSUME NEW k \in 1..Len(stack), Needs(stack[k]) PROVE stack[k].assoc \in Cells \ {c}
      <3>1. PICK j \in 1..Len(stack) : Busy(stack[j]) /\ stack[j].assoc = stack[k].assoc
        BY <2>1, <2>2, <2>3, NeedsBusy
      <3>2. stack[j].assoc # c
        BY <2>1, <2>2, <3>1 DEF AtWork, Busy
      <3> QED  BY <1>1, <3>1, <3>2, FramesAre
    <2> DEFINE A == assocs'
    <2>4. \A k \in 1..Len(stack) : Needs(stack[k]) =>
            LET d == stack[k].assoc
            IN  assocs[d] # NoAssoc =>
                  A[d] # NoAssoc /\ A[d].name = assocs[d].name /\ (assocs[d].deleted => A[d].deleted)
      BY <1>4, <2>3
    <2> HIDE DEF A
    <2>5. Nested(stack, current, instance, A)
      BY <2>1, <2>2, <2>4, KeepNested
    <2>6. CASE stack = <<>>
      <3>1. current = NULL
        BY <2>5, <2>6 DEF Nested
      <3> QED  BY <1>2, <2>5, <3>1 DEF A
    <2>7. CASE stack # <<>>
      <3>1. Top = stack[Len(stack)] /\ Top.kind \in CallbackKinds /\ Top.kind # "up"
        BY <1>2, <2>1, <2>7 DEF UlpRuns, AtWork, Top, Last
      <3>2. ~Needs(stack[Len(stack)])
        BY <3>1 DEF Needs, Busy, CallbackKinds, LibraryKinds
      <3>3. Nested(stack, NULL, instance, A)
        BY <2>2, <2>5, <2>7, <3>2, ForgetNested
      <3> QED  BY <1>2, <3>3 DEF A
    <2> QED  BY <2>6, <2>7
  <1> QED  BY <1>4, <1>5, <1>6, InvariantNext

\* A function that works on an association.
LEMMA EnterInv ==
  ASSUME DistributionInv, NEW c \in Listed, NEW may \in SUBSET CallbackKinds, Enter(c, may),
         DataSound', Kept, strayed' \in BOOLEAN
  PROVE  DistributionInv'
  <1> DEFINE f == NewFrame("call", c, may)
  <1>1. /\ TypeOK /\ ListSound /\ PointersTyped
        /\ Careful => Nested(stack, current, instance, assocs)
    BY InvariantParts
  <1>2. c \in Cells /\ assocs[c] \in Assoc /\ assocs[c] # NoAssoc
    BY <1>1, ListedAre DEF ListSound
  <1>3. /\ stack' = Append(stack, f) /\ current' = c /\ instance' = assocs[c].name
        /\ lastFrom' = lastFrom
    BY DEF Enter
  <1>4. /\ f \in Frame /\ f.kind = "call" /\ f.assoc = c
        /\ f.oldAssoc = current /\ f.oldInstance = instance
    BY <1>1, <1>2, NewFrameIs DEF LibraryKinds
  <1> HIDE DEF f
  <1>5. Serves(current', instance', f.assoc, assocs')
    BY <1>2, <1>3, <1>4 DEF Serves, Kept
  <1>6. current' \in Cells \cup {NULL} /\ instance' \in Names \cup {NULL}
    BY <1>2, <1>3 DEF Assoc
  <1>7. stack \in Seq(Frame) /\ lastFrom' \in Remotes \cup {NULL} /\ f.kind # "up"
    BY <1>1, <1>3, <1>4 DEF PointersTyped
  <1> QED  BY <1>1, <1>3, <1>4, <1>5, <1>6, <1>7, PushInv

\* The functions that leave the associations as they are.
LEMMA CallInv ==
  ASSUME DistributionInv, NEW c, c = NULL \/ c \in Listed, NEW may \in SUBSET CallbackKinds,
         Enter(c, may), UNCHANGED <<assocs, strayed>>
  PROVE  DistributionInv'
  <1>1. DataSound /\ PointersTyped
    BY InvariantParts
  <1>2. c \in Listed
    BY DEF Enter
  <1>3. UNCHANGED <<instanceVars, assocVars>>
    BY DEF Enter, assocVars
  <1>4. DataSound' /\ Kept
    BY <1>1, <1>3, DataUnchanged
  <1>5. strayed' \in BOOLEAN
    BY <1>1 DEF PointersTyped
  <1> QED  BY <1>2, <1>4, <1>5, EnterInv


\* An association that is marked as deleted, or is in another state.
LEMMA Marked ==
  ASSUME TypeOK, ListSound, NEW c \in Listed, NEW s \in States,
         \/ assocs' = [assocs EXCEPT ![c].deleted = TRUE]
         \/ assocs' = [assocs EXCEPT ![c].state = s],
         UNCHANGED <<AssociationList, nextId>>
  PROVE  Updated(c)
  <1>1. c \in Cells /\ assocs[c] \in Assoc
    BY ListedAre
  <1>2. assocs \in [Cells -> Assoc \cup {NoAssoc}]
    BY DEF TypeOK
  <1>3. \A a \in Assoc :
          /\ [a EXCEPT !.deleted = TRUE] \in Assoc /\ [a EXCEPT !.state = s] \in Assoc
          /\ [a EXCEPT !.deleted = TRUE].id = a.id /\ [a EXCEPT !.state = s].id = a.id
          /\ [a EXCEPT !.deleted = TRUE].name = a.name /\ [a EXCEPT !.state = s].name = a.name
          /\ [a EXCEPT !.deleted = TRUE].remotePort = a.remotePort
          /\ [a EXCEPT !.state = s].remotePort = a.remotePort
          /\ [a EXCEPT !.deleted = TRUE].addresses = a.addresses
          /\ [a EXCEPT !.state = s].addresses = a.addresses
          /\ [a EXCEPT !.deleted = TRUE].deleted = TRUE
          /\ [a EXCEPT !.state = s].deleted = a.deleted
    BY DEF Assoc
  <1>4. /\ assocs' \in [Cells -> Assoc \cup {NoAssoc}]
        /\ \A d \in Cells \ {c} : assocs'[d] = assocs[d]
        /\ \/ assocs'[c] = [assocs[c] EXCEPT !.deleted = TRUE]
           \/ assocs'[c] = [assocs[c] EXCEPT !.state = s]
    <2>1. CASE assocs' = [assocs EXCEPT ![c].deleted = TRUE]
      BY <1>1, <1>2, <1>3, <2>1
    <2>2. CASE assocs' = [assocs EXCEPT ![c].state = s]
      BY <1>1, <1>2, <1>3, <2>2
    <2> QED  BY <2>1, <2>2
  <1>5. /\ assocs'[c] \in Assoc
        /\ assocs'[c].id = assocs[c].id /\ assocs'[c].name = assocs[c].name
        /\ assocs'[c].remotePort = assocs[c].remotePort
        /\ assocs'[c].addresses = assocs[c].addresses
        /\ assocs'[c].deleted \in {TRUE, assocs[c].deleted}
    <2> DEFINE a == assocs[c]
               b == assocs'[c]
    <2>1. a \in Assoc /\ (b = [a EXCEPT !.deleted = TRUE] \/ b = [a EXCEPT !.state = s])
      BY <1>1, <1>4
    <2> HIDE DEF a, b
    <2>2. /\ b \in Assoc /\ b.id = a.id /\ b.name = a.name /\ b.remotePort = a.remotePort
          /\ b.addresses = a.addresses /\ b.deleted \in {TRUE, a.deleted}
      BY <1>3, <2>1
    <2> QED  BY <2>2 DEF a, b
  <1> QED  BY <1>1, <1>4, <1>5 DEF Updated

\* sctp_shutdown
LEMMA ShutdownInv ==
  ASSUME DistributionInv, NEW id \in Ids, Shutdown(id)
  PROVE  DistributionInv'
  <1> DEFINE c == Retrieve(id)
  <1>1. TypeOK /\ ListSound /\ DataSound /\ PointersTyped
    BY InvariantParts
  <1>2. /\ Enter(c, {}) /\ assocs' = [assocs EXCEPT ![c].state = "closing"]
        /\ strayed' = Strays(c)
    BY DEF Shutdown
  <1>3. c \in Listed
    BY <1>1, <1>2, RetrieveWhat DEF Enter, Live
  <1> HIDE DEF c
  <1>4. UNCHANGED <<AssociationList, nextId, instanceVars>>
    BY <1>2 DEF Enter
  <1>5. Updated(c)
    BY <1>1, <1>2, <1>3, <1>4, Marked DEF States
  <1>6. DataSound' /\ Kept
    BY <1>1, <1>3, <1>4, <1>5, DataUpdated
  <1>7. strayed' \in BOOLEAN
    BY <1>1, <1>2 DEF Strays, PointersTyped
  <1> QED  BY <1>2, <1>3, <1>6, <1>7, EnterInv

\* Two frames on top of a stack.
LEMMA TwoAppended ==
  ASSUME NEW S, NEW s \in Seq(S), NEW a \in S, NEW b \in S
  PROVE  s \o <<a, b>> = Append(Append(s, a), b)
  <1> DEFINE t == Append(s, a)
             u == Append(t, b)
             v == s \o <<a, b>>
  <1>1. /\ t \in Seq(S) /\ Len(t) = Len(s) + 1
        /\ \A i \in 1..Len(s) : t[i] = s[i]
        /\ t[Len(s) + 1] = a
    BY AppendProperties
  <1>2. /\ u \in Seq(S) /\ Len(u) = Len(t) + 1
        /\ \A i \in 1..Len(t) : u[i] = t[i]
        /\ u[Len(t) + 1] = b
    BY <1>1, AppendProperties
  <1>3. <<a, b>> \in Seq(S) /\ Len(<<a, b>>) = 2 /\ <<a, b>>[1] = a /\ <<a, b>>[2] = b
    OBVIOUS
  <1>4. /\ v \in Seq(S) /\ Len(v) = Len(s) + Len(<<a, b>>)
        /\ \A i \in 1..(Len(s) + Len(<<a, b>>)) :
             v[i] = IF i <= Len(s) THEN s[i] ELSE <<a, b>>[i - Len(s)]
    BY <1>3, ConcatProperties
  <1>5. Len(s) \in Nat
    BY LenProperties
  <1> HIDE DEF t, u, v
  <1>6. Len(u) = Len(v) /\ Len(u) = Len(s) + 2
    BY <1>1, <1>2, <1>3, <1>4, <1>5
  <1>7. \A i \in 1..Len(u) : u[i] = v[i]
    <2> TAKE i \in 1..Len(u)
    <2>1. CASE i <= Len(s)
      <3>1. i \in 1..Len(s) /\ i \in 1..Len(t) /\ i \in 1..(Len(s) + Len(<<a, b>>))
        BY <1>1, <1>3, <1>5, <1>6, <2>1
      <3> QED  BY <1>1, <1>2, <1>4, <2>1, <3>1
    <2>2. CASE i = Len(s) + 1
      <3>1. i \in 1..Len(t) /\ i \in 1..(Len(s) + Len(<<a, b>>)) /\ ~(i <= Len(s)) /\ i - Len(s) = 1
        BY <1>1, <1>3, <1>5, <2>2
      <3> QED  BY <1>1, <1>2, <1>3, <1>4, <2>2, <3>1
    <2>3. CASE i = Len(s) + 2
      <3>1. i = Len(t) + 1 /\ i \in 1..(Len(s) + Len(<<a, b>>)) /\ ~(i <= Len(s)) /\ i - Len(s) = 2
        BY <1>1, <1>3, <1>5, <2>3
      <3> QED  BY <1>2, <1>3, <1>4, <3>1
    <2> QED  BY <1>5, <1>6, <2>1, <2>2, <2>3
  <1>8. u = v
    BY <1>2, <1>4, <1>6, <1>7, SeqEqual
  <1> QED  BY <1>8 DEF t, u, v

\* sctp_abort
LEMMA AbortInv ==
  ASSUME DistributionInv, NEW id \in Ids, Abort(id)
  PROVE  DistributionInv'
  <1> DEFINE c == Retrieve(id)
             new == NewFrame("call", c, {})
             call == [new EXCEPT !.done = TRUE]
             newer == NewFrame("end", c, {})
             end == [newer EXCEPT !.oldAssoc = c, !.oldInstance = assocs[c].name]
  <1>1. /\ TypeOK /\ ListSound /\ DataSound /\ PointersTyped
        /\ Careful => Nested(stack, current, instance, assocs)
    BY InvariantParts
  <1>2. /\ c # NULL /\ assocs' = [assocs EXCEPT ![c].deleted = TRUE]
        /\ stack' = stack \o <<call, end>>
        /\ current' = c /\ instance' = assocs[c].name /\ strayed' = Strays(c)
        /\ UNCHANGED <<instanceVars, AssociationList, nextId, lastFrom>>
    BY DEF Abort
  <1>3. c \in Listed
    BY <1>1, <1>2, RetrieveWhat DEF Live
  <1> HIDE DEF c
  <1>4. c \in Cells /\ assocs[c] \in Assoc
    BY <1>1, <1>3, ListedAre
  <1>5. assocs[c].name \in Names
    BY <1>4 DEF Assoc
  <1>6. DataSound' /\ Kept
    <2>1. Updated(c)
      BY <1>1, <1>2, <1>3, Marked DEF States
    <2> QED  BY <1>1, <1>2, <1>3, <2>1, DataUpdated
  <1>7. /\ new \in Frame /\ new.kind = "call" /\ new.oldAssoc = current
        /\ new.oldInstance = instance
        /\ newer \in Frame /\ newer.kind = "end"
    BY <1>1, <1>4, NewFrameIs DEF LibraryKinds, CallbackKinds
  <1> HIDE DEF new, newer
  <1>8. /\ call \in Frame /\ call.kind = "call" /\ call.done /\ call.oldAssoc = current
        /\ call.oldInstance = instance
    BY <1>7 DEF Frame
  <1>9. end \in Frame /\ end.kind = "end" /\ end.oldAssoc = c /\ end.oldInstance = assocs[c].name
    BY <1>4, <1>5, <1>7 DEF Frame
  <1> HIDE DEF call, end
  <1>10. ~Needs(call) /\ ~Needs(end) /\ call.kind # "up" /\ end.kind # "up"
    BY <1>8, <1>9 DEF Needs, Busy, LibraryKinds
  <1>11. stack \in Seq(Frame)
    BY <1>1 DEF PointersTyped
  <1>12. /\ stack' = Append(Append(stack, call), end) /\ Append(stack, call) \in Seq(Frame)
         /\ stack' \in Seq(Frame)
    BY <1>2, <1>8, <1>9, <1>11, TwoAppended, AppendProperties
  <1>13. PointersTyped'
    BY <1>1, <1>2, <1>4, <1>5, <1>12 DEF PointersTyped, Strays
  <1>14. ASSUME Careful PROVE Nested(stack', current', instance', assocs')
    <2> DEFINE A == assocs'
               n == assocs[c].name
               t == Append(stack, call)
    <2>1. Nested(stack, current, instance, A)
      BY <1>1, <1>6, <1>11, <1>14, KeptNested
    <2>2. t \in Seq(Frame)
      BY <1>12
    <2> HIDE DEF A, n
    <2>3. Nested(t, c, n, A)
      BY <1>8, <1>10, <1>11, <2>1, PushNested
    <2>4. end.oldAssoc = c /\ end.oldInstance = n
      BY <1>9 DEF n
    <2> HIDE DEF t
    <2>5. Nested(Append(t, end), c, n, A)
      BY <1>9, <1>10, <2>2, <2>3, <2>4, PushNested
    <2> QED  BY <1>2, <1>12, <2>5 DEF t, A, n
  <1> QED  BY <1>6, <1>13, <1>14, InvariantNext

\* sctp_setPrimary, with or without the pointers put back
LEMMA SetPrimaryInv ==
  ASSUME DistributionInv, NEW id \in Ids, SetPrimary(id)
  PROVE  DistributionInv'
  <1> DEFINE c == Retrieve(id)
  <1>1. TypeOK /\ ListSound /\ DataSound /\ PointersTyped
    BY InvariantParts
  <1>2. c = NULL \/ c \in Listed
    BY <1>1, RetrieveWhat DEF Live
  <1>3. UNCHANGED <<assocs, strayed>>
    BY DEF SetPrimary
  <1>4. CASE Enter(c, {})
    BY <1>2, <1>3, <1>4, CallInv
  <1>5. CASE ~Enter(c, {})
    <2>1. /\ "primary early" \in Habits /\ c # NULL /\ current' = c
          /\ UNCHANGED <<instanceVars, AssociationList, nextId, instance, lastFrom, stack>>
      BY <1>5 DEF SetPrimary
    <2> HIDE DEF c
    <2>2. c \in Cells
      BY <1>1, <1>2, <2>1, ListedAre
    <2>3. DataSound'
      BY <1>1, <1>3, <2>1, DataUnchanged DEF assocVars
    <2>4. PointersTyped'
      BY <1>1, <1>3, <2>1, <2>2 DEF PointersTyped
    <2> QED  BY <2>1, <2>3, <2>4, InvariantNext DEF Careful
  <1> QED  BY <1>4, <1>5

\* sctp_receiveUnsent
LEMMA ReceiveUnsentInv ==
  ASSUME DistributionInv, NEW id \in Ids, ReceiveUnsent(id)
  PROVE  DistributionInv'
  <1> DEFINE c == RetrieveForced(id)
             f == NewFrame("call", c, {})
  <1>1. /\ TypeOK /\ ListSound /\ DataSound /\ PointersTyped
        /\ Careful => Nested(stack, current, instance, assocs)
    BY InvariantParts
  <1>2. /\ c # NULL /\ assocs[c].deleted /\ stack' = Append(stack, f) /\ current' = c
        /\ UNCHANGED <<instanceVars, assocVars, instance, lastFrom, strayed>>
    BY DEF ReceiveUnsent
  <1>3. c \in Listed
    BY <1>1, <1>2, RetrieveWhat
  <1> HIDE DEF c
  <1>4. c \in Cells /\ assocs[c] # NoAssoc
    BY <1>1, <1>3, ListedAre DEF ListSound
  <1>5. DataSound' /\ Kept /\ assocs' = assocs
    BY <1>1, <1>2, DataUnchanged DEF assocVars
  <1>6. /\ f \in Frame /\ f.kind = "call" /\ f.assoc = c
        /\ f.oldAssoc = current /\ f.oldInstance = instance
    BY <1>1, <1>4, NewFrameIs DEF LibraryKinds
  <1> HIDE DEF f
  <1>7. Serves(current', instance', f.assoc, assocs')
    BY <1>2, <1>4, <1>5, <1>6 DEF Serves
  <1>8. /\ stack \in Seq(Frame) /\ lastFrom' \in Remotes \cup {NULL} /\ strayed' \in BOOLEAN
        /\ current' \in Cells \cup {NULL} /\ instance' \in Names \cup {NULL} /\ f.kind # "up"
    BY <1>1, <1>2, <1>4, <1>6 DEF PointersTyped
  <1> QED  BY <1>1, <1>2, <1>5, <1>6, <1>7, <1>8, PushInv


-----------------------------------------------------------------------------
(* Events *)

\* An event that is taken up, with or without a new association.
LEMMA EventInv ==
  ASSUME DistributionInv, stack = <<>>, DataSound', Kept, NEW c \in Cells, assocs'[c] # NoAssoc,
         NEW may \in SUBSET CallbackKinds, StartEvent(c, may),
         lastFrom' \in Remotes \cup {NULL}, strayed' \in BOOLEAN
  PROVE  DistributionInv'
  <1> DEFINE f == NewFrame("event", c, may)
  <1>1. PointersTyped /\ (Careful => Nested(stack, current, instance, assocs))
    BY InvariantParts
  <1>2. stack' = <<f>> /\ current' = c /\ instance' = assocs'[c].name
    BY DEF StartEvent
  <1>3. /\ f \in Frame /\ f.kind = "event" /\ f.assoc = c
        /\ f.oldAssoc = current /\ f.oldInstance = instance
    BY <1>1, NewFrameIs DEF LibraryKinds
  <1> HIDE DEF f
  <1>4. stack' = Append(stack, f)
    BY <1>2
  <1>5. Serves(current', instance', f.assoc, assocs')
    BY <1>2, <1>3 DEF Serves
  <1>6. current' \in Cells \cup {NULL} /\ instance' \in Names \cup {NULL}
    <2>1. assocs'[c] \in Assoc
      BY DEF DataSound, DataTyped
    <2> QED  BY <1>2, <2>1 DEF Assoc
  <1>7. stack \in Seq(Frame) /\ f.kind # "up"
    BY <1>1, <1>3 DEF PointersTyped
  <1> QED  BY <1>1, <1>3, <1>4, <1>5, <1>6, <1>7, PushInv

\* A timer
LEMMA TimerInv ==
  ASSUME DistributionInv, NEW c \in Cells, Timer(c)
  PROVE  DistributionInv'
  <1>1. TypeOK /\ ListSound /\ DataSound /\ PointersTyped
    BY InvariantParts
  <1>2. /\ stack = <<>> /\ c \in Listed /\ StartEvent(c, {"note", "end"})
        /\ UNCHANGED <<instanceVars, assocVars, lastFrom, strayed>>
    BY DEF Timer, Live
  <1>3. DataSound' /\ Kept /\ assocs' = assocs
    BY <1>1, <1>2, DataUnchanged DEF assocVars
  <1>4. assocs'[c] # NoAssoc
    BY <1>1, <1>2, <1>3 DEF ListSound
  <1>5. lastFrom' \in Remotes \cup {NULL} /\ strayed' \in BOOLEAN
    BY <1>1, <1>2 DEF PointersTyped
  <1>6. {"note", "end"} \in SUBSET CallbackKinds
    BY DEF CallbackKinds
  <1> QED  BY <1>2, <1>3, <1>4, <1>5, <1>6, EventInv

\* The host that has an address, and no other has it.
LEMMA TheHost ==
  ASSUME NEW from \in Remotes
  PROVE  LET host == CHOOSE h \in Hosts : from \in h
         IN  host \in Hosts /\ from \in host /\ \A h \in Hosts : from \in h => h = host
  <1> DEFINE host == CHOOSE h \in Hosts : from \in h
  <1>1. \E h \in Hosts : from \in h
    BY DEF Remotes
  <1>2. host \in Hosts /\ from \in host
    BY <1>1
  <1> HIDE DEF host
  <1>3. \A h \in Hosts : from \in h => h = host
    BY <1>2, DistributionAssumption
  <1> QED  BY <1>2, <1>3 DEF host

\* An association that is found has an address of the host of the sender.
LEMMA FoundMeets ==
  ASSUME TypeOK, ListSound, NEW p, p.from \in Remotes, Found(p) # NULL,
         p.listed # NULL => \E host \in Hosts : {p.from, p.listed} \subseteq host
  PROVE  /\ Found(p) \in Live
         /\ assocs[Found(p)].addresses \cap (CHOOSE h \in Hosts : p.from \in h) # {}
  <1> DEFINE host == CHOOSE h \in Hosts : p.from \in h
  <1>1. host \in Hosts /\ p.from \in host /\ \A h \in Hosts : p.from \in h => h = host
    BY TheHost
  <1>2. \A from, fromPort, toPort :
          RetrieveByTransportAddress(from, fromPort, toPort) # NULL =>
            /\ RetrieveByTransportAddress(from, fromPort, toPort) \in Live
            /\ from \in assocs[RetrieveByTransportAddress(from, fromPort, toPort)].addresses
    <2> TAKE from, fromPort, toPort
    <2> DEFINE S == {c \in Listed : EqualAssociations(c, {from}, fromPort, toPort)}
    <2>1. AssociationList \in Seq(Cells)
      BY DEF TypeOK
    <2>2. \A c \in S : c \in Live /\ from \in assocs[c].addresses
      BY DEF EqualAssociations, Live
    <2>3. RetrieveByTransportAddress(from, fromPort, toPort) = Find(S)
      BY DEF RetrieveByTransportAddress
    <2> HIDE DEF S
    <2>4. Find(S) # NULL => Find(S) \in S
      BY <2>1, FindWhat
    <2> QED  BY <2>2, <2>3, <2>4
  <1> HIDE DEF host
  <1>3. CASE BySource(p) # NULL
    <2>1. Found(p) = BySource(p)
      BY <1>3 DEF Found
    <2>2. Found(p) \in Live /\ p.from \in assocs[Found(p)].addresses
      BY <1>2, <1>3, <2>1 DEF BySource
    <2> QED  BY <1>1, <2>2 DEF host
  <1>4. CASE BySource(p) = NULL
    <2>1. p.listed # NULL /\ Found(p) = RetrieveByTransportAddress(p.listed, p.fromPort, p.toPort)
      BY <1>4 DEF Found
    <2>2. Found(p) \in Live /\ p.listed \in assocs[Found(p)].addresses
      BY <1>2, <2>1
    <2>3. p.listed \in host
      BY <1>1, <2>1
    <2> QED  BY <2>2, <2>3 DEF host
  <1> QED  BY <1>3, <1>4

\* The addresses that an association gets are of a host it had addresses of.
LEMMA ToldUpdates ==
  ASSUME TypeOK, ListSound, NEW c \in Listed, NEW from \in Remotes, NEW told \in Told(from),
         NEW s \in States, assocs[c].addresses \cap (CHOOSE h \in Hosts : from \in h) # {},
         assocs' = [assocs EXCEPT ![c].addresses = told, ![c].state = s],
         UNCHANGED <<AssociationList, nextId>>
  PROVE  Updated(c)
  <1> DEFINE host == CHOOSE h \in Hosts : from \in h
  <1>1. host \in Hosts /\ from \in host
    BY TheHost
  <1>2. told \subseteq host
    BY DEF Told
  <1>3. assocs[c].addresses \cap host # {}
    OBVIOUS
  <1> HIDE DEF host
  <1>4. \A h \in Hosts : told \cap h # {} => assocs[c].addresses \cap h # {}
    <2> SUFFICES ASSUME NEW h \in Hosts, told \cap h # {} PROVE h = host
      BY <1>3
    <2>1. h \cap host # {}
      BY <1>2
    <2> QED  BY <1>1, <2>1, DistributionAssumption
  <1>5. told \in SUBSET Remotes
    BY <1>1, <1>2 DEF Remotes
  <1>6. c \in Cells /\ assocs[c] \in Assoc
    BY ListedAre
  <1>7. assocs \in [Cells -> Assoc \cup {NoAssoc}]
    BY DEF TypeOK
  <1>8. /\ \A d \in Cells \ {c} : assocs'[d] = assocs[d]
        /\ assocs'[c] = [[assocs[c] EXCEPT !.addresses = told] EXCEPT !.state = s]
        /\ assocs' = [assocs EXCEPT ![c] = assocs'[c]]
    BY <1>6, <1>7
  <1>9. \A a \in Assoc :
          LET b == [[a EXCEPT !.addresses = told] EXCEPT !.state = s]
          IN  /\ b \in Assoc /\ b.id = a.id /\ b.name = a.name /\ b.remotePort = a.remotePort
              /\ b.addresses = told /\ b.deleted = a.deleted
    BY <1>5 DEF Assoc
  <1>10. assocs' \in [Cells -> Assoc \cup {NoAssoc}]
    BY <1>6, <1>7, <1>8, <1>9
  <1>11. /\ assocs'[c] \in Assoc /\ assocs'[c].id = assocs[c].id
         /\ assocs'[c].name = assocs[c].name /\ assocs'[c].remotePort = assocs[c].remotePort
         /\ assocs'[c].addresses = told /\ assocs'[c].deleted = assocs[c].deleted
    <2> DEFINE a == assocs[c]
               b == assocs'[c]
    <2>1. a \in Assoc /\ b = [[a EXCEPT !.addresses = told] EXCEPT !.state = s]
      BY <1>6, <1>8
    <2> HIDE DEF a, b
    <2>2. /\ b \in Assoc /\ b.id = a.id /\ b.name = a.name /\ b.remotePort = a.remotePort
          /\ b.addresses = told /\ b.deleted = a.deleted
      BY <1>9, <2>1
    <2> QED  BY <2>2 DEF a, b
  <1> QED  BY <1>4, <1>8, <1>10, <1>11 DEF Updated

\* A datagram for an association
LEMMA HandleInv ==
  ASSUME DistributionInv, NEW p, p.from \in Remotes, stack = <<>>,
         Found(p) # NULL, Handle(p, Found(p)),
         p.listed # NULL => \E host \in Hosts : {p.from, p.listed} \subseteq host,
         lastFrom' = p.from, UNCHANGED <<instanceVars, strayed>>
  PROVE  DistributionInv'
  <1> DEFINE c == Found(p)
  <1>1. TypeOK /\ ListSound /\ DataSound /\ PointersTyped
    BY InvariantParts
  <1>2. c \in Listed /\ assocs[c].addresses \cap (CHOOSE h \in Hosts : p.from \in h) # {}
    BY <1>1, FoundMeets DEF Live
  <1>3. /\ UNCHANGED <<AssociationList, nextId>>
        /\ StartEvent(c, MayCall(p.chunks, assocs[c].state))
        /\ \/ \E told \in Told(p.from) :
                assocs' = [assocs EXCEPT ![c].addresses = told, ![c].state = "cookie_echoed"]
           \/ \E told \in Told(p.from) :
                assocs' = [assocs EXCEPT ![c].addresses = told, ![c].state = "established"]
           \/ assocs' = [assocs EXCEPT ![c].state = "established"]
           \/ UNCHANGED assocs
    BY DEF Handle
  <1> HIDE DEF c
  <1>4. {"cookie_echoed", "established"} \subseteq States
    BY DEF States
  <1>5. DataSound' /\ Kept
    <2>1. CASE Updated(c)
      BY <1>1, <1>2, <2>1, DataUpdated
    <2>2. CASE UNCHANGED assocs
      BY <1>1, <1>3, <2>2, DataUnchanged DEF assocVars
    <2>3. ASSUME NEW told \in Told(p.from),
                 assocs' = [assocs EXCEPT ![c].addresses = told, ![c].state = "cookie_echoed"]
          PROVE  Updated(c)
      BY <1>1, <1>2, <1>3, <1>4, <2>3, ToldUpdates
    <2>4. ASSUME NEW told \in Told(p.from),
                 assocs' = [assocs EXCEPT ![c].addresses = told, ![c].state = "established"]
          PROVE  Updated(c)
      BY <1>1, <1>2, <1>3, <1>4, <2>4, ToldUpdates
    <2>5. ASSUME assocs' = [assocs EXCEPT ![c].state = "established"] PROVE Updated(c)
      BY <1>1, <1>2, <1>3, <1>4, <2>5, Marked
    <2> QED  BY <1>3, <2>1, <2>2, <2>3, <2>4, <2>5
  <1>6. c \in Cells /\ assocs'[c] # NoAssoc
    BY <1>1, <1>2, <1>5, ListedAre DEF Kept, ListSound
  <1>7. MayCall(p.chunks, assocs[c].state) \in SUBSET CallbackKinds
    BY DEF MayCall, CallbackKinds
  <1>8. lastFrom' \in Remotes \cup {NULL} /\ strayed' \in BOOLEAN
    BY <1>1 DEF PointersTyped
  <1> QED  BY <1>3, <1>5, <1>6, <1>7, <1>8, EventInv

\* Whoever is accepted is accepted by an instance.
LEMMA AcceptedBy ==
  ASSUME NEW p, Found(p) = NULL, Verdict(p) = "deliver"
  PROVE  FoundInstance(p) \in Registered
  <1>1. BySource(p) = NULL
    BY DEF Found
  <1>2. OutOfTheBlue(p) = "deliver"
    BY DEF Verdict
  <1>3. FoundInstance(p) # NULL
    BY <1>2 DEF OutOfTheBlue
  <1>4. FoundInstance(p) = InstanceFor(p.toPort, p.to)
    BY <1>1 DEF FoundInstance
  <1> QED  BY <1>3, <1>4 DEF InstanceFor

\* A datagram of a new peer
LEMMA AcceptInv ==
  ASSUME DistributionInv, NEW p, p.from \in Remotes, p.fromPort \in RemotePorts, stack = <<>>,
         Found(p) = NULL, Verdict(p) = "deliver", NEW c \in Cells, Accept(p, c),
         lastFrom' = p.from, UNCHANGED <<instanceVars, strayed>>
  PROVE  DistributionInv'
  <1> DEFINE host == CHOOSE h \in Hosts : p.from \in h
             n == FoundInstance(p)
  <1>1. TypeOK /\ DataSound /\ PointersTyped
    BY InvariantParts
  <1>2. n \in Registered
    BY AcceptedBy
  <1>3. host \in Hosts
    BY TheHost
  <1>4. PICK told \in Told(p.from) :
          NewAssociation(c, n, told, p.fromPort, "established")
    BY DEF Accept
  <1>5. told \in SUBSET host
    BY DEF Told
  <1>6. Stranger(n, host, p.fromPort) /\ StartEvent(c, MayCall(p.chunks, "established"))
    BY DEF Accept
  <1> HIDE DEF host, n
  <1>7. DataSound' /\ Kept /\ assocs'[c] # NoAssoc
    BY <1>1, <1>2, <1>3, <1>4, <1>5, <1>6, DataNew DEF States
  <1>8. MayCall(p.chunks, "established") \in SUBSET CallbackKinds
    BY DEF MayCall, CallbackKinds
  <1>9. lastFrom' \in Remotes \cup {NULL} /\ strayed' \in BOOLEAN
    BY <1>1 DEF PointersTyped
  <1> QED  BY <1>6, <1>7, <1>8, <1>9, EventInv

\* mdi_receiveMessage
LEMMA ReceiveInv ==
  ASSUME DistributionInv, stack = <<>>, NEW p \in Sent, ReceiveMessage(p)
  PROVE  DistributionInv'
  <1>1. p.from \in Remotes /\ p.fromPort \in RemotePorts
    BY DEF Sent, Datagrams
  <1>2. /\ p.listed # NULL => \E host \in Hosts : {p.from, p.listed} \subseteq host
        /\ Verdict(p) = "deliver" /\ lastFrom' = p.from /\ UNCHANGED <<instanceVars, strayed>>
    BY DEF ReceiveMessage
  <1>3. CASE Found(p) # NULL
    <2>1. Handle(p, Found(p))
      BY <1>3 DEF ReceiveMessage
    <2> QED  BY <1>1, <1>2, <1>3, <2>1, HandleInv
  <1>4. CASE Found(p) = NULL
    <2>1. PICK c \in Cells : Accept(p, c)
      BY <1>4 DEF ReceiveMessage
    <2> QED  BY <1>1, <1>2, <1>4, <2>1, AcceptInv
  <1> QED  BY <1>3, <1>4


-----------------------------------------------------------------------------
(* Callbacks, and the ends of functions and events *)

\* The association that is worked on is marked as deleted; if it is not there
\* any more there is nothing to mark.
LEMMA DeleteKeeps ==
  ASSUME TypeOK, ListSound, DataSound, current \in Cells, DeleteCurrent,
         UNCHANGED <<instanceVars, AssociationList, nextId>>
  PROVE  DataSound' /\ Kept
  <1>1. CASE current \in Listed
    <2>1. Updated(current)
      BY <1>1, Marked DEF DeleteCurrent, States
    <2> QED  BY <1>1, <2>1, DataUpdated
  <1>2. CASE current \notin Listed
    <2>1. assocs[current] = NoAssoc /\ assocs \in [Cells -> Assoc \cup {NoAssoc}]
      BY <1>2 DEF ListSound, TypeOK
    <2>2. [NoAssoc EXCEPT !.deleted = TRUE] = NoAssoc
      BY DEF NoAssoc
    <2>3. assocs' = assocs
      BY <2>1, <2>2 DEF DeleteCurrent
    <2> QED  BY <2>3, DataUnchanged DEF assocVars
  <1> QED  BY <1>1, <1>2

\* The frame on top becomes another.
LEMMA TopChanges ==
  ASSUME PointersTyped, stack # <<>>, NEW frame \in Frame
  PROVE  LET t == [stack EXCEPT ![Len(stack)] = frame]
         IN  /\ t \in Seq(Frame) /\ Len(t) = Len(stack) /\ t # <<>>
             /\ t[Len(stack)] = frame /\ \A k \in 1..(Len(stack) - 1) : t[k] = stack[k]
  <1> DEFINE t == [stack EXCEPT ![Len(stack)] = frame]
  <1>1. stack \in Seq(Frame) /\ Len(stack) \in Nat /\ Len(stack) \in 1..Len(stack)
    BY FramesAre DEF PointersTyped
  <1>2. /\ t \in Seq(Frame) /\ Len(t) = Len(stack)
        /\ \A k \in 1..Len(stack) : t[k] = IF k = Len(stack) THEN frame ELSE stack[k]
    BY <1>1, ExceptSeq
  <1> HIDE DEF t
  <1>3. \A k \in 1..(Len(stack) - 1) : k \in 1..Len(stack) /\ k # Len(stack)
    BY <1>1
  <1>4. t # <<>>
    BY <1>1, <1>2, EmptySeq
  <1> QED  BY <1>1, <1>2, <1>3, <1>4 DEF t

\* The callbacks
LEMMA NotifInv ==
  ASSUME DistributionInv, NEW kind \in CallbackKinds, Notif(kind)
  PROVE  DistributionInv'
  <1> DEFINE f == NewFrame(kind, current, {})
  <1>1. /\ TypeOK /\ ListSound /\ DataSound /\ PointersTyped
        /\ Careful => Nested(stack, current, instance, assocs)
    BY InvariantParts
  <1>2. /\ stack # <<>> /\ Top.kind \in LibraryKinds /\ ~Top.done /\ current # NULL
        /\ UNCHANGED <<instanceVars, AssociationList, nextId, globals, strayed>>
    BY DEF Notif, Working, LibraryRuns
  <1>3. /\ stack \in Seq(Frame) /\ Len(stack) \in 1..Len(stack)
        /\ stack[Len(stack)] \in Frame /\ Top = stack[Len(stack)]
    BY <1>1, <1>2, FramesAre DEF PointersTyped, Top, Last
  <1>4. current \in Cells
    BY <1>1, <1>2 DEF PointersTyped
  <1>5. /\ f \in Frame /\ f.kind = kind /\ f.assoc = current
        /\ f.oldAssoc = current /\ f.oldInstance = instance
    BY <1>1, <1>4, NewFrameIs
  <1>6. Busy(stack[Len(stack)])
    BY <1>2, <1>3 DEF Busy
  <1>7. Careful => Serves(current, instance, stack[Len(stack)].assoc, assocs)
    BY <1>1, <1>3, <1>6 DEF Nested
  <1>8. /\ current' = current /\ instance' = instance
        /\ current' \in Cells \cup {NULL} /\ instance' \in Names \cup {NULL}
        /\ lastFrom' \in Remotes \cup {NULL} /\ strayed' \in BOOLEAN
    BY <1>1, <1>2 DEF globals, PointersTyped
  <1> HIDE DEF f
  <1>9. CASE kind # "end"
    <2>1. stack' = Append(stack, f) /\ assocs' = assocs
      BY <1>9 DEF Notif, f
    <2>2. DataSound' /\ Kept
      BY <1>1, <1>2, <2>1, DataUnchanged DEF assocVars
    <2>3. Careful => Serves(current', instance', f.assoc, assocs')
      BY <1>5, <1>7, <1>8, <2>1 DEF Serves
    <2>4. Careful => stack[Len(stack)].assoc = f.assoc
      BY <1>5, <1>7 DEF Serves
    <2> QED  BY <1>1, <1>2, <1>3, <1>5, <1>6, <1>8, <2>1, <2>2, <2>3, <2>4, PushInv
  <1>10. CASE kind = "end"
    <2> DEFINE top == stack[Len(stack)]
               done == [top EXCEPT !.done = TRUE]
               st == [stack EXCEPT ![Len(stack)] = done]
    <2>1. stack' = Append(Done(stack), f) /\ DeleteCurrent
      BY <1>10 DEF Notif, f
    <2>2. DataSound' /\ Kept
      BY <1>1, <1>2, <1>4, <2>1, DeleteKeeps
    <2>3. Done(stack) = st
      BY DEF Done
    <2>4. /\ done \in Frame /\ done.kind = top.kind /\ done.assoc = top.assoc /\ done.done
          /\ done.oldAssoc = top.oldAssoc /\ done.oldInstance = top.oldInstance
      BY <1>3 DEF Frame
    <2>5. done.kind # "up" /\ ~Busy(done)
      BY <1>2, <1>3, <2>4 DEF Busy, LibraryKinds
    <2> HIDE DEF done
    <2>6. /\ st \in Seq(Frame) /\ Len(st) = Len(stack) /\ st # <<>>
          /\ st[Len(stack)] = done /\ \A k \in 1..(Len(stack) - 1) : st[k] = stack[k]
      BY <1>1, <1>2, <2>4, TopChanges
    <2> HIDE DEF st
    <2>7. Careful => Nested(st, current, instance, assocs)
      BY <1>1, <1>2, <1>3, <2>4, <2>5, <2>6, ChangeNested
    <2>8. ~Needs(f) /\ f.kind # "up"
      BY <1>5, <1>10 DEF Needs, Busy, LibraryKinds
    <2> QED  BY <1>5, <1>8, <2>1, <2>2, <2>3, <2>6, <2>7, <2>8, PushInv
  <1> QED  BY <1>9, <1>10

\* A callback that returns
LEMMA NotifReturnsInv == DistributionInv /\ NotifReturns => DistributionInv'
  <1> SUFFICES ASSUME DistributionInv, NotifReturns PROVE DistributionInv'
    OBVIOUS
  <1>1. /\ DataSound /\ PointersTyped
        /\ Careful => Nested(stack, current, instance, assocs)
    BY InvariantParts
  <1>2. stack # <<>> /\ UNCHANGED <<instanceVars, assocVars, lastFrom, strayed>>
    BY DEF NotifReturns
  <1>3. CASE Top.kind = "up"
    <2> DEFINE top == stack[Len(stack)]
               upped == [top EXCEPT !.kind = "upped", !.may = {"note"}]
               t == [stack EXCEPT ![Len(stack)] = upped]
    <2>1. stack' = t /\ UNCHANGED <<current, instance>>
      BY <1>3 DEF NotifReturns
    <2>2. /\ stack \in Seq(Frame) /\ Len(stack) \in 1..Len(stack)
          /\ top \in Frame /\ top.kind = "up"
      BY <1>1, <1>2, <1>3, FramesAre DEF PointersTyped, Top, Last
    <2>3. /\ upped \in Frame /\ upped.kind = "upped" /\ upped.assoc = top.assoc
          /\ upped.oldAssoc = top.oldAssoc /\ upped.oldInstance = top.oldInstance
      <3>1. "upped" \in LibraryKinds \cup CallbackKinds /\ {"note"} \in SUBSET CallbackKinds
        BY DEF LibraryKinds, CallbackKinds
      <3> HIDE DEF top
      <3> QED  BY <2>2, <3>1 DEF Frame
    <2> HIDE DEF upped
    <2>4. /\ t \in Seq(Frame) /\ Len(t) = Len(stack) /\ t # <<>>
          /\ t[Len(stack)] = upped /\ \A k \in 1..(Len(stack) - 1) : t[k] = stack[k]
      BY <1>1, <1>2, <2>3, TopChanges
    <2> HIDE DEF t
    <2>5. Needs(top)
      BY <2>2 DEF Needs
    <2>6. Careful => Nested(t, current, instance, assocs)
      BY <1>1, <1>2, <2>2, <2>3, <2>4, <2>5, ChangeNested
    <2>7. DataSound' /\ assocs' = assocs
      BY <1>1, <1>2, DataUnchanged DEF assocVars
    <2>8. PointersTyped'
      BY <1>1, <1>2, <2>1, <2>4 DEF PointersTyped
    <2>9. Careful => Nested(stack', current', instance', assocs')
      BY <2>1, <2>6, <2>7
    <2> QED  BY <2>7, <2>8, <2>9, InvariantNext
  <1>4. CASE Top.kind # "up"
    BY <1>2, <1>4, PopInv DEF NotifReturns
  <1> QED  BY <1>3, <1>4

\* A function that is left
LEMMA LeaveInv == DistributionInv /\ Leave => DistributionInv'
  BY PopInv DEF Leave, LibraryRuns

\* An event that is done with
LEMMA EndEventInv == DistributionInv /\ EndEvent => DistributionInv'
  <1> SUFFICES ASSUME DistributionInv, EndEvent PROVE DistributionInv'
    OBVIOUS
  <1>1. DataSound /\ PointersTyped
    BY InvariantParts
  <1>2. /\ stack' = <<>> /\ current' = NULL /\ instance' = NULL /\ lastFrom' = NULL
        /\ UNCHANGED <<instanceVars, assocVars, strayed>>
    BY DEF EndEvent
  <1>3. DataSound'
    BY <1>1, <1>2, DataUnchanged
  <1>4. <<>> \in Seq(Frame) /\ Len(<<>>) = 0
    BY EmptySeq
  <1>5. PointersTyped'
    BY <1>1, <1>2, <1>4 DEF PointersTyped
  <1>6. Nested(stack', current', instance', assocs')
    BY <1>2, <1>4 DEF Nested
  <1> QED  BY <1>3, <1>5, <1>6, InvariantNext


-----------------------------------------------------------------------------
(* The theorems *)

\* Nothing is registered at first, and nothing runs.
LEMMA InitInv == Init => DistributionInv
  <1> SUFFICES ASSUME Init PROVE DistributionInv
    OBVIOUS
  <1>0. MaxName \in Nat \ {0} /\ MaxId \in Nat
    BY DistributionAssumption
  <1>1. MaxId # 0 /\ 1 \in 0..MaxId /\ 1 \in 0..MaxName
    <2>1. IsFiniteSet(Cells) /\ Cardinality(Cells) < MaxId
      BY DistributionAssumption
    <2>2. Cardinality(Cells) \in Nat
      BY <2>1, FS_CardinalityType
    <2> QED  BY <1>0, <2>1, <2>2
  <1>2. <<>> \in Seq(Cells) /\ <<>> \in Seq(Frame) /\ Len(<<>>) = 0 /\ DOMAIN <<>> = {}
    BY EmptySeq
  <1>3. Listed = {} /\ Registered = {} /\ Live = {}
    BY <1>2 DEF Init, Listed, ToSet, Registered, Live
  <1>4. DataTyped
    BY <1>1, <1>2 DEF Init, DataTyped
  <1>5. ListSound
    BY <1>2, <1>3 DEF Init, ListSound
  <1>6. InstancesSound
    BY <1>3 DEF Init, InstancesSound
  <1>7. UsersCounted
    <2>1. \A f : UsersOf(f) = {}
      BY <1>3 DEF UsersOf
    <2>2. Cardinality({}) = 0
      BY FS_EmptySet
    <2> QED  BY <2>1, <2>2 DEF Init, UsersCounted
  <1>8. HostsApart
    BY <1>3 DEF HostsApart
  <1>9. PointersTyped
    BY <1>2 DEF Init, PointersTyped
  <1>10. Nested(stack, current, instance, assocs)
    BY <1>2 DEF Init, Nested
  <1> QED  BY <1>4, <1>5, <1>6, <1>7, <1>8, <1>9, <1>10, InvariantParts DEF DataSound

\* Every step keeps the invariant.
LEMMA StepInv == DistributionInv /\ [Next]_vars => DistributionInv'
  <1> SUFFICES ASSUME DistributionInv, [Next]_vars PROVE DistributionInv'
    OBVIOUS
  <1>0. TypeOK /\ ListSound /\ DataSound /\ PointersTyped
    BY InvariantParts
  <1>a. \A id : (Retrieve(id) = NULL \/ Retrieve(id) \in Listed)
             /\ (RetrieveForced(id) = NULL \/ RetrieveForced(id) \in Listed)
    BY <1>0, RetrieveWhat DEF Live
  <1>b. {} \in SUBSET CallbackKinds /\ {"note"} \in SUBSET CallbackKinds
    BY DEF CallbackKinds
  <1>1. ASSUME NEW i \in Offers, RegisterInstance(i) PROVE DistributionInv'
    BY <1>1, RegisterInv
  <1>2. ASSUME NEW n \in Names, UnregisterInstance(n) PROVE DistributionInv'
    BY <1>2, UnregisterInv
  <1>3. ASSUME NEW n \in Names, NEW c \in Cells, NEW addresses, NEW port \in RemotePorts,
               Associate(c, n, addresses, port)
        PROVE  DistributionInv'
    BY <1>3, AssociateInv
  <1>4. ASSUME NEW id \in Ids,
               \/ DeleteAssociation(id) \/ Send(id) \/ ReceiveFrom(id) \/ ReceiveUnsent(id)
               \/ Abort(id) \/ Shutdown(id) \/ SetPrimary(id) \/ GetInstanceID(id)
               \/ ChangePath(id) \/ GetPathStatus(id) \/ AssocStatus(id)
        PROVE  DistributionInv'
    <2>1. CASE DeleteAssociation(id)
      BY <2>1, DeleteInv
    <2>2. CASE Send(id)
      BY <1>a, <1>b, <2>2, CallInv DEF Send
    <2>3. CASE ReceiveFrom(id)
      BY <1>a, <1>b, <2>3, CallInv DEF ReceiveFrom
    <2>4. CASE ReceiveUnsent(id)
      BY <2>4, ReceiveUnsentInv
    <2>5. CASE Abort(id)
      BY <2>5, AbortInv
    <2>6. CASE Shutdown(id)
      BY <2>6, ShutdownInv
    <2>7. CASE SetPrimary(id)
      BY <2>7, SetPrimaryInv
    <2>8. CASE GetInstanceID(id)
      BY <1>a, <1>b, <2>8, CallInv DEF GetInstanceID
    <2>9. CASE ChangePath(id)
      BY <1>a, <1>b, <2>9, CallInv DEF ChangePath
    <2>10. CASE GetPathStatus(id)
      BY <1>a, <1>b, <2>10, CallInv DEF GetPathStatus
    <2>11. CASE AssocStatus(id)
      BY <1>a, <1>b, <2>11, CallInv DEF AssocStatus
    <2> QED  BY <1>4, <2>1, <2>2, <2>3, <2>4, <2>5, <2>6, <2>7, <2>8, <2>9, <2>10, <2>11
  <1>5. ASSUME NEW c \in Cells, Timer(c) PROVE DistributionInv'
    BY <1>5, TimerInv
  <1>6. ASSUME stack = <<>>, NEW p \in Sent, ReceiveMessage(p) PROVE DistributionInv'
    BY <1>6, ReceiveInv
  <1>7. ASSUME NEW kind \in CallbackKinds, Notif(kind) PROVE DistributionInv'
    BY <1>7, NotifInv
  <1>8. ASSUME NotifReturns \/ Leave \/ EndEvent PROVE DistributionInv'
    BY <1>8, NotifReturnsInv, LeaveInv, EndEventInv
  <1>9. CASE UNCHANGED vars
    <2>1. UNCHANGED <<instanceVars, assocVars>> /\ UNCHANGED <<globals, stack, strayed>>
      BY <1>9 DEF vars
    <2>2. DataSound' /\ Kept
      BY <1>0, <2>1, DataUnchanged
    <2> QED  BY <1>0, <2>1, <2>2, StayInv DEF PointersTyped
  <1> QED  BY <1>1, <1>2, <1>3, <1>4, <1>5, <1>6, <1>7, <1>8, <1>9 DEF Next

\* DistributionInv holds always.
THEOREM DistributionInvariant == Spec => []DistributionInv
  <1> QED  BY InitInv, StepInv, PTL DEF Spec

\* Every variable has its type, whatever a ULP or a peer may do.
THEOREM TypeCorrect == Spec => []TypeOK
  <1>1. DistributionInv => TypeOK
    BY InvariantParts
  <1> QED  BY <1>1, DistributionInvariant, PTL

\* An ID that the ULP was given means its association until that is deleted,
\* whatever a ULP or a peer may do.
THEOREM LiveAlwaysFound == Spec => []LiveIsFound
  <1>1. DistributionInv => LiveIsFound
    BY InvariantParts, InvariantFinds
  <1> QED  BY <1>1, DistributionInvariant, PTL

\* The pointers are right, whatever callbacks call whatever functions, as long
\* as no ULP deletes an association that is worked on, and none sets the
\* primary path before the association is established.
THEOREM CurrentAlwaysRight ==
  ASSUME "delete in use" \notin Habits, "primary early" \notin Habits
  PROVE  Spec => []CurrentIsRight
  <1>1. Careful
    BY DEF Careful
  <1>2. ASSUME DistributionInv PROVE CurrentIsRight
    <2>1. PointersTyped /\ Nested(stack, current, instance, assocs)
      BY <1>1, <1>2, InvariantParts
    <2>2. stack = <<>> => current = NULL /\ instance = NULL
      BY <2>1 DEF Nested
    <2>3. ASSUME Working
          PROVE  /\ assocs[Top.assoc] # NoAssoc /\ current = Top.assoc
                 /\ assocs[current].deleted \/ instance = assocs[current].name
      <3>1. stack # <<>> /\ Top = stack[Len(stack)] /\ Busy(Top)
        BY <2>3 DEF Working, LibraryRuns, Top, Last, Busy
      <3>2. Len(stack) \in 1..Len(stack)
        BY <2>1, <3>1, FramesAre
      <3>3. Serves(current, instance, Top.assoc, assocs)
        BY <2>1, <3>1, <3>2 DEF Nested
      <3> QED  BY <3>3 DEF Serves
    <2> QED  BY <2>2, <2>3 DEF CurrentIsRight
  <1> QED  BY <1>2, DistributionInvariant, PTL

\* What a peer sends to its association reaches it, as long as no second
\* association with the same host is begun over another of its addresses.
THEOREM OwnAlwaysDelivered ==
  ASSUME "second address" \notin Habits
  PROVE  Spec => []OwnIsDelivered
  <1>1. ASSUME DistributionInv PROVE OwnIsDelivered
    <2>1. TypeOK /\ ListSound /\ InstancesSound /\ HostsApart
      BY <1>1, InvariantParts DEF DataSound
    <2> SUFFICES ASSUME NEW c \in Live, NEW from \in assocs[c].addresses,
                        NEW to \in OwnAddresses(instances[assocs[c].name])
                 PROVE  LET p == [from |-> from, fromPort |-> assocs[c].remotePort, to |-> to,
                                  toPort |-> LocalPort(c), tag |-> LocalTag(c),
                                  chunks |-> {"DATA"}, listed |-> NULL]
                        IN  Verdict(p) = "deliver" /\ Found(p) = c
      BY DEF OwnIsDelivered
    <2> DEFINE p == [from |-> from, fromPort |-> assocs[c].remotePort, to |-> to,
                     toPort |-> LocalPort(c), tag |-> LocalTag(c), chunks |-> {"DATA"},
                     listed |-> NULL]
               S == {d \in Listed :
                       EqualAssociations(d, {from}, assocs[c].remotePort, LocalPort(c))}
    <2>2. c \in Listed /\ c # NULL /\ assocs[c] \in Assoc /\ ~assocs[c].deleted
      BY <2>1, ListedAre DEF Live
    <2>3. c \in S
      BY <2>2 DEF EqualAssociations
    <2>4. PICK h \in Hosts : from \in h
      BY <2>2 DEF Assoc, Remotes
    <2>5. ASSUME NEW d \in S PROVE d = c
      <3>1. /\ d \in Live /\ SamePorts(c, d) /\ from \in assocs[d].addresses
        BY <2>5 DEF EqualAssociations, SamePorts, Live
      <3> QED  BY <2>1, <2>4, <3>1 DEF HostsApart
    <2>6. Find(S) = c
      <3>1. AssociationList \in Seq(Cells)
        BY <2>1 DEF TypeOK
      <3> HIDE DEF S
      <3>2. /\ Find(S) # NULL => Find(S) \in S \cap Listed
            /\ Find(S) = NULL => S \cap Listed = {}
        BY <3>1, FindWhat
      <3> QED  BY <2>2, <2>3, <2>5, <3>2
    <2>7. /\ p.from = from /\ p.fromPort = assocs[c].remotePort /\ p.to = to
          /\ p.toPort = LocalPort(c) /\ p.tag = LocalTag(c) /\ p.chunks = {"DATA"}
      OBVIOUS
    <2> HIDE DEF p
    <2>8. BySource(p) = c
      BY <2>6, <2>7 DEF BySource, RetrieveByTransportAddress
    <2>9. Found(p) = c /\ FoundInstance(p) = assocs[c].name
      BY <2>2, <2>8 DEF Found, FoundInstance
    <2>10. DestinationOkay(p)
      BY <2>7, <2>9 DEF DestinationOkay
    <2>11. ~Bundled(p)
      BY <2>7 DEF Bundled
    <2>12. InTheBlue(p, c) = "deliver"
      BY <2>7 DEF InTheBlue
    <2> QED  BY <2>2, <2>9, <2>10, <2>11, <2>12 DEF Verdict, p
  <1> QED  BY <1>1, DistributionInvariant, PTL

\* A datagram with one chunk is not bundled wrongly.
LEMMA OneChunk ==
  ASSUME NEW p, NEW kind, p.chunks = {kind}
  PROVE  ~Bundled(p)
  <1>1. Cardinality({kind}) = 1
    BY FS_Singleton
  <1>2. ~(Cardinality({kind}) > 1)
    BY <1>1
  <1> QED  BY <1>2 DEF Bundled

\* As long as an instance is registered it is listened for, and an INIT that
\* is sent to it is passed on, if no ULP unregisters an instance in use.
THEOREM ListenersAlwaysServed ==
  ASSUME "unregister in use" \notin Habits
  PROVE  Spec => []ListenersServed
  <1>1. ASSUME DistributionInv PROVE ListenersServed
    <2>1. TypeOK /\ ListSound /\ InstancesSound /\ UsersCounted
      BY <1>1, InvariantParts DEF DataSound
    <2>2. portsSeized = {instances[n].port : n \in Registered}
      BY <2>1 DEF InstancesSound
    <2>3. ASSUME NEW n \in Registered, NEW m \in Registered \ {n}
          PROVE  instances[m].port # instances[n].port
      BY <2>1 DEF InstancesSound
    <2>4. ASSUME NEW n \in Registered PROVE UsedFamilies(instances[n]) \subseteq polled
      <3>1. UsedFamilies(instances[n]) \subseteq Families
        BY <2>1, RegisteredAre
      <3> QED  BY <2>1, <3>1 DEF UsersCounted, UsersOf
    <2>5. ASSUME NEW n \in Registered, NEW from \in Remotes, NEW port \in RemotePorts,
                 NEW to \in OwnAddresses(instances[n])
          PROVE  Verdict([from |-> from, fromPort |-> port, to |-> to,
                          toPort |-> instances[n].port, tag |-> NoTag, chunks |-> {"INIT"},
                          listed |-> NULL]) = "deliver"
      <3> DEFINE p == [from |-> from, fromPort |-> port, to |-> to,
                       toPort |-> instances[n].port, tag |-> NoTag, chunks |-> {"INIT"},
                       listed |-> NULL]
                 c == BySource(p)
      <3>1. /\ p.from = from /\ p.fromPort = port /\ p.to = to /\ p.listed = NULL
            /\ p.toPort = instances[n].port /\ p.tag = NoTag /\ p.chunks = {"INIT"}
        OBVIOUS
      <3> HIDE DEF p
      <3>2. ~Bundled(p)
        BY <3>1, OneChunk
      <3>3. Found(p) = c
        BY <3>1 DEF Found
      <3>4. CASE c # NULL
        <4>1. c \in Listed /\ LocalPort(c) = instances[n].port
          <5> DEFINE S == {d \in Listed :
                             EqualAssociations(d, {from}, port, instances[n].port)}
          <5>1. AssociationList \in Seq(Cells)
            BY <2>1 DEF TypeOK
          <5>2. c = Find(S)
            BY <3>1 DEF BySource, RetrieveByTransportAddress
          <5>3. \A d \in S : d \in Listed /\ LocalPort(d) = instances[n].port
            BY DEF EqualAssociations
          <5> HIDE DEF S, c
          <5>4. c \in S
            BY <3>4, <5>1, <5>2, FindWhat
          <5> QED  BY <5>3, <5>4
        <4>2. assocs[c].name = n
          BY <2>1, <4>1 DEF InstancesSound, LocalPort
        <4>3. FoundInstance(p) = n
          BY <3>4, <4>2 DEF FoundInstance
        <4>4. DestinationOkay(p)
          BY <3>1, <4>3 DEF DestinationOkay
        <4>5. InTheBlue(p, c) = "deliver"
          BY <3>1 DEF InTheBlue
        <4> QED  BY <3>2, <3>3, <3>4, <4>4, <4>5 DEF Verdict, p
      <3>5. CASE c = NULL
        <4>1. HasAddress(instances[n], instances[n].port, to)
          <5>1. instances[n] \in Instance
            BY <2>1, RegisteredAre
          <5> QED  BY <5>1 DEF HasAddress, OwnAddresses, Instance
        <4>2. \A m \in Registered : HasAddress(instances[m], instances[n].port, to) => m = n
          BY <2>3 DEF HasAddress
        <4>3. InstanceFor(instances[n].port, to) = n
          BY <4>1, <4>2 DEF InstanceFor
        <4>4. FoundInstance(p) = n
          BY <3>1, <3>5, <4>3 DEF FoundInstance
        <4>5. DestinationOkay(p)
          BY <3>1, <4>4 DEF DestinationOkay
        <4>6. n # NULL
          BY DistributionAssumption DEF Registered, Names
        <4>7. OutOfTheBlue(p) = "deliver"
          BY <3>1, <4>4, <4>6 DEF OutOfTheBlue
        <4> QED  BY <3>2, <3>3, <3>5, <4>5, <4>7 DEF Verdict, p
      <3> QED  BY <3>4, <3>5
    <2> QED  BY <2>2, <2>3, <2>4, <2>5 DEF ListenersServed
  <1> QED  BY <1>1, DistributionInvariant, PTL
=============================================================================

---------------------------- MODULE BundlingProofs ----------------------------
(***************************************************************************)
(* Theorems about Bundling, for all lengths of chunks, any number of them  *)
(* and of paths: type correctness, PacketFits, NothingHeldBack and         *)
(* NoStaleAddress.  One inductive invariant carries them.  A buffer is     *)
(* Good when a packet of it fits and an empty one remembers nothing; it is *)
(* Calm when what it holds for the ULP or the peer has been asked to be    *)
(* sent.  Only between the last chunk of a datagram and its end may the    *)
(* association's buffer hold a SACK nobody has asked for yet.              *)
(***************************************************************************)
EXTENDS Bundling, TLAPS

Fits(b) == ~b.tooLong /\ Header + b.ctrl + b.sack + b.data <= Limit

Aligned(b) == b.ctrl % 4 = 0 /\ b.sack % 4 = 0 /\ b.data % 4 = 0

Blank(b) == Empty(b) => b.address = NULL /\ ~b.owed

\* Typed, never too long, in steps of four bytes, and without memory when it is empty.
Good(b) == b \in Buffer /\ Fits(b) /\ Aligned(b) /\ Blank(b)

Asked(b) == b.locked /\ b.requested

Calm(b) == Asked(b) \/ (~b.owed /\ b.sack = 0 /\ b.data = 0)

Association == buffers["association"]

\* A SACK is in the buffer, and rbu_rcvDatagram has not asked for it yet.
Awaiting == phase = "notifications" /\ sendIt

\* The loop only waits for a FORWARD TSN that is there.
Counted == left \in 0..MaxChunks /\ forward \in Forwards /\ (forward # "none" => left > 0)

Sound ==
  /\ Counted
  /\ \A o \in Owners : Good(buffers[o])
  /\ Awaiting \/ Calm(Association)
  /\ Awaiting => current = "association" /\ (Association.locked => ~Empty(Association))
  /\ Association.locked => phase # "idle" /\ current = "association"
  /\ phase = "idle" => current = "global"

\* The inductive invariant.
BundlingInv == TypeOK /\ Sound

-----------------------------------------------------------------------------
(* Lengths *)

\* A chunk is padded by less than four bytes, to a multiple of four.
LEMMA PaddedSize ==
  ASSUME NEW size \in Nat
  PROVE  /\ Padded(size) \in Nat /\ Padded(size) % 4 = 0
         /\ size <= Padded(size) /\ Padded(size) < size + 4
  BY DEF Padded

\* What fits before padding fits after it, as all limits are multiples of four.
LEMMA PaddedFits ==
  ASSUME NEW length \in Nat, NEW size \in Nat, length % 4 = 0, length + size <= MaxPDU
  PROVE  length + Padded(size) <= MaxPDU
  <1>1. MaxPDU \in Nat /\ MaxPDU % 4 = 0
    BY BundlingAssumption
  <1>2. PICK l \in Int : length = 4 * l
    <2>1. length = 4 * (length \div 4)
      OBVIOUS
    <2>2. length \div 4 \in Int
      OBVIOUS
    <2> QED  BY <2>1, <2>2
  <1>3. PICK p \in Int : MaxPDU = 4 * p
    <2>1. MaxPDU = 4 * (MaxPDU \div 4)
      BY <1>1
    <2>2. MaxPDU \div 4 \in Int
      BY <1>1
    <2> QED  BY <2>1, <2>2
  <1>4. PICK q \in Int : Padded(size) = 4 * q
    BY DEF Padded
  <1>5. 4 * (l + q) < 4 * p + 4
    <2>1. Padded(size) < size + 4
      BY PaddedSize
    <2> QED  BY <1>2, <1>3, <1>4, <2>1
  <1>6. l + q <= p
    BY <1>5
  <1> QED  BY <1>2, <1>3, <1>4, <1>6

-----------------------------------------------------------------------------
(* A buffer *)

LEMMA NewBufferGood ==
  /\ Good(NewBuffer) /\ Calm(NewBuffer) /\ ~NewBuffer.locked /\ ~NewBuffer.tooLong
  BY BundlingAssumption DEF NewBuffer, Good, Fits, Aligned, Blank, Calm, Buffer, Empty

\* An empty buffer is good if it remembers nothing.
LEMMA EmptyIsGood ==
  ASSUME NEW b \in Buffer, b.ctrl = 0, b.sack = 0, b.data = 0, ~b.tooLong,
         b.address = NULL, ~b.owed
  PROVE  Good(b) /\ Empty(b) /\ Calm(b)
  <1>1. Fits(b)
    BY BundlingAssumption DEF Fits, Buffer
  <1>2. Aligned(b)
    BY DEF Aligned
  <1> QED  BY <1>1, <1>2 DEF Good, Blank, Calm, Empty

LEMMA EmptyMeansZero ==
  ASSUME NEW b \in Buffer
  PROVE  Empty(b) <=> b.ctrl = 0 /\ b.sack = 0 /\ b.data = 0
  BY DEF Empty, Buffer

\* A packet leaves: the buffer is empty, and as locked as before.
LEMMA TransmitGood ==
  ASSUME NEW b \in Buffer, Good(b)
  PROVE  LET t == Transmit(b)
         IN  /\ Good(t) /\ Empty(t) /\ Calm(t) /\ t.locked = b.locked
             /\ t.ctrl = 0 /\ t.sack = 0 /\ t.data = 0
  <1>1. CASE Empty(b)
    <2>1. Transmit(b) = b
      BY <1>1 DEF Transmit
    <2>2. b.ctrl = 0 /\ b.sack = 0 /\ b.data = 0
      BY <1>1, EmptyMeansZero
    <2> QED  BY <1>1, <2>1, <2>2 DEF Good, Blank, Calm
  <1>2. CASE ~Empty(b)
    <2>1. ~b.tooLong /\ ~(Header + b.ctrl + b.sack + b.data > Limit)
      BY BundlingAssumption DEF Good, Fits, Buffer
    <2> DEFINE t == [b EXCEPT !.ctrl = 0, !.sack = 0, !.data = 0, !.requested = FALSE,
                              !.address = NULL, !.owed = FALSE,
                              !.sackTimer = b.sackTimer /\ b.sack = 0, !.tooLong = FALSE]
    <2>2. Transmit(b) = t
      BY <1>2, <2>1 DEF Transmit, Reset, Buffer
    <2>3. /\ t \in Buffer /\ t.locked = b.locked /\ t.ctrl = 0 /\ t.sack = 0 /\ t.data = 0
          /\ ~t.tooLong /\ t.address = NULL /\ ~t.owed
      BY DEF Buffer
    <2>4. Good(t) /\ Empty(t) /\ Calm(t)
      BY <2>3, EmptyIsGood
    <2> QED  BY <2>2, <2>3, <2>4
  <1> QED  BY <1>1, <1>2

\* A request: the buffer is sent, or the request is noted.  An address is only noted for a
\* packet that has something in it.
LEMMA SendAllChunksGood ==
  ASSUME NEW b \in Buffer, Good(b), NEW path \in Paths \cup {NULL},
         path = NULL \/ ~Empty(b) \/ ~b.locked
  PROVE  LET s == SendAllChunks(b, path)
         IN  /\ Good(s) /\ Calm(s) /\ s.locked = b.locked
             /\ b.locked => (Empty(s) <=> Empty(b))
  <1>1. CASE ~b.locked
    BY <1>1, TransmitGood DEF SendAllChunks
  <1>2. CASE b.locked
    <2> DEFINE s == [b EXCEPT !.requested = TRUE, !.owed = ~Empty(b),
                              !.address = IF path # NULL THEN path ELSE b.address]
    <2>1. SendAllChunks(b, path) = s
      BY <1>2 DEF SendAllChunks
    <2>2. /\ s \in Buffer /\ s.locked = b.locked /\ s.requested /\ s.tooLong = b.tooLong
          /\ s.ctrl = b.ctrl /\ s.sack = b.sack /\ s.data = b.data
          /\ s.owed = ~Empty(b)
          /\ s.address = IF path # NULL THEN path ELSE b.address
      BY DEF Buffer
    <2>3. Fits(s) /\ Aligned(s) /\ (Empty(s) <=> Empty(b))
      BY <2>2 DEF Good, Fits, Aligned, Empty
    <2>4. Blank(s)
      BY <1>2, <2>2, <2>3 DEF Good, Blank
    <2>5. Calm(s)
      BY <1>2, <2>2 DEF Calm, Asked
    <2> QED  BY <2>1, <2>2, <2>3, <2>4, <2>5 DEF Good
  <1> QED  BY <1>1, <1>2

\* Room is made: the chunk fits behind what is left.
LEMMA MakeRoomGood ==
  ASSUME NEW b \in Buffer, Good(b), NEW size \in Nat, NEW path \in Paths \cup {NULL}
  PROVE  LET r == MakeRoom(b, size, path)
         IN  /\ r \in Buffer /\ ~r.tooLong /\ r.locked = b.locked /\ Aligned(r)
             /\ \/ r.ctrl = 0 /\ r.sack = 0 /\ r.data = 0
                \/ /\ size < MaxPDU
                   /\ r.ctrl = b.ctrl /\ r.sack = b.sack /\ r.data = b.data
             /\ Calm(b) => Calm(r)
  <1> DEFINE r == MakeRoom(b, size, path)
  <1>1. CASE size >= MaxPDU
    <2>1. r = Transmit(b)
      BY <1>1 DEF MakeRoom
    <2> QED  BY <2>1, TransmitGood DEF Good, Fits
  <1>2. CASE size < MaxPDU
    <2> DEFINE n == [b EXCEPT !.address = IF path # NULL THEN path ELSE b.address]
    <2>1. r = n
      BY <1>2, BundlingAssumption DEF MakeRoom, Buffer
    <2>2. /\ n \in Buffer /\ n.tooLong = b.tooLong /\ n.locked = b.locked
          /\ n.ctrl = b.ctrl /\ n.sack = b.sack /\ n.data = b.data
          /\ n.requested = b.requested /\ n.owed = b.owed
      BY DEF Buffer
    <2>3. ~n.tooLong /\ Aligned(n) /\ (Calm(b) => Calm(n))
      BY <2>2 DEF Good, Fits, Aligned, Calm, Asked
    <2> QED  BY <1>2, <2>1, <2>2, <2>3
  <1> QED  BY <1>1, <1>2, BundlingAssumption

\* What the length of a packet is, and that it is a multiple of four.
LEMMA SizeOfPacket ==
  ASSUME NEW b \in Buffer, Good(b)
  PROVE  /\ TotalSize(b) \in Nat /\ TotalSize(b) % 4 = 0
         /\ TotalSize(b) = Header + b.ctrl + b.sack + b.data
         /\ SackSize(b) \in Nat /\ SackSize(b) = Header + b.ctrl + b.data
  <1>1. b.ctrl \in Nat /\ b.sack \in Nat /\ b.data \in Nat /\ Header \in Nat
    BY BundlingAssumption DEF Buffer
  <1>2. b.ctrl % 4 = 0 /\ b.sack % 4 = 0 /\ b.data % 4 = 0 /\ Header % 4 = 0
    BY BundlingAssumption DEF Good, Aligned
  <1>3. (Header + b.ctrl + b.sack + b.data) % 4 = 0
    BY <1>1, <1>2
  <1> QED  BY <1>1, <1>3 DEF TotalSize, SackSize

\* A padded chunk alone fits into a packet.
LEMMA ChunkFits ==
  ASSUME NEW size \in 1..MaxPDU
  PROVE  /\ size \in Nat /\ Padded(size) \in Nat /\ Padded(size) % 4 = 0
         /\ 0 < Padded(size) /\ Padded(size) <= MaxPDU
  <1>1. size \in Nat /\ 0 < size /\ 0 + size <= MaxPDU /\ MaxPDU \in Nat
    BY BundlingAssumption
  <1>2. 0 + Padded(size) <= MaxPDU
    BY <1>1, PaddedFits
  <1> QED  BY <1>1, <1>2, PaddedSize

\* With its padding, and with what is left after room was made for it, it fits too.
LEMMA RoomForChunk ==
  ASSUME NEW b \in Buffer, Good(b), NEW size \in 1..MaxPDU, NEW r \in Buffer,
         \/ r.ctrl = 0 /\ r.sack = 0 /\ r.data = 0
         \/ /\ TotalSize(b) + size < MaxPDU
            /\ r.ctrl = b.ctrl /\ r.sack = b.sack /\ r.data = b.data
  PROVE  Header + r.ctrl + r.sack + r.data + Padded(size) <= Limit
  <1>1. /\ TotalSize(b) \in Nat /\ TotalSize(b) % 4 = 0 /\ size \in Nat
        /\ TotalSize(b) = Header + b.ctrl + b.sack + b.data
        /\ Padded(size) \in Nat /\ Padded(size) <= MaxPDU
        /\ Header \in Nat /\ MaxPDU \in Nat /\ Limit \in Nat /\ MaxPDU + Header <= Limit
    BY SizeOfPacket, ChunkFits, BundlingAssumption
  <1>2. CASE r.ctrl = 0 /\ r.sack = 0 /\ r.data = 0
    BY <1>1, <1>2
  <1>3. CASE /\ TotalSize(b) + size < MaxPDU
             /\ r.ctrl = b.ctrl /\ r.sack = b.sack /\ r.data = b.data
    <2>1. TotalSize(b) + Padded(size) <= MaxPDU
      BY <1>1, <1>3, PaddedFits
    <2> QED  BY <1>1, <1>3, <2>1
  <1> QED  BY <1>2, <1>3

\* bu_put_Ctrl_Chunk
LEMMA PutCtrlGood ==
  ASSUME NEW b \in Buffer, Good(b), NEW size \in 1..MaxPDU, NEW path \in Paths \cup {NULL}
  PROVE  LET p == PutCtrl(b, size, path)
         IN  Good(p) /\ ~Empty(p) /\ p.locked = b.locked /\ (Calm(b) => Calm(p))
  <1> DEFINE r == MakeRoom(b, TotalSize(b) + size, path)
             p == [r EXCEPT !.ctrl = r.ctrl + Padded(size)]
  <1>1. /\ TotalSize(b) \in Nat /\ TotalSize(b) % 4 = 0 /\ size \in Nat
        /\ Padded(size) \in Nat /\ Padded(size) % 4 = 0
        /\ 0 < Padded(size) /\ Padded(size) <= MaxPDU
    BY SizeOfPacket, ChunkFits
  <1>2. /\ r \in Buffer /\ ~r.tooLong /\ r.locked = b.locked /\ Aligned(r)
        /\ \/ r.ctrl = 0 /\ r.sack = 0 /\ r.data = 0
           \/ /\ TotalSize(b) + size < MaxPDU
              /\ r.ctrl = b.ctrl /\ r.sack = b.sack /\ r.data = b.data
        /\ Calm(b) => Calm(r)
    BY <1>1, MakeRoomGood
  <1>3. /\ p \in Buffer /\ p.ctrl = r.ctrl + Padded(size) /\ p.sack = r.sack
        /\ p.data = r.data /\ p.tooLong = r.tooLong /\ p.locked = r.locked
        /\ p.requested = r.requested /\ p.owed = r.owed
    <2>1. r \in Buffer /\ r.ctrl + Padded(size) \in Nat
      BY <1>1, <1>2 DEF Buffer
    <2> HIDE DEF r
    <2> QED  BY <2>1 DEF Buffer
  <1>4. Fits(p)
    <2>1. Header + r.ctrl + r.sack + r.data + Padded(size) <= Limit
      BY <1>2, RoomForChunk
    <2>2. /\ r.ctrl \in Nat /\ r.sack \in Nat /\ r.data \in Nat /\ Header \in Nat /\ Limit \in Nat
      BY <1>2, BundlingAssumption DEF Buffer
    <2>3. Header + p.ctrl + p.sack + p.data <= Limit
      BY <1>1, <1>3, <2>1, <2>2
    <2> QED  BY <1>2, <1>3, <2>3 DEF Fits
  <1>5. Aligned(p)
    <2>1. r.ctrl \in Nat /\ r.ctrl % 4 = 0
      BY <1>2 DEF Aligned, Buffer
    <2>2. (r.ctrl + Padded(size)) % 4 = 0
      BY <1>1, <2>1
    <2> QED  BY <1>2, <1>3, <2>2 DEF Aligned
  <1>6. ~Empty(p)
    BY <1>1, <1>2, <1>3, EmptyMeansZero DEF Buffer
  <1>7. PutCtrl(b, size, path) = p
    BY DEF PutCtrl
  <1>8. Calm(b) => Calm(p)
    BY <1>2, <1>3 DEF Calm, Asked
  <1> QED  BY <1>2, <1>3, <1>4, <1>5, <1>6, <1>7, <1>8 DEF Good, Blank

\* bu_put_SACK_Chunk
LEMMA PutSackGood ==
  ASSUME NEW b \in Buffer, Good(b), NEW size \in SackSizes, NEW path \in Paths \cup {NULL}
  PROVE  LET p == PutSack(b, size, path)
         IN  Good(p) /\ ~Empty(p) /\ p.locked = b.locked
  <1> DEFINE r == MakeRoom(b, SackSize(b) + size, path)
             p == [r EXCEPT !.sack = size]
  <1>1. /\ SackSize(b) \in Nat /\ SackSize(b) = Header + b.ctrl + b.data
        /\ size \in 1..MaxPDU /\ size \in Nat /\ size % 4 = 0
        /\ Header \in Nat /\ MaxPDU \in Nat /\ Limit \in Nat /\ MaxPDU + Header <= Limit
    BY SizeOfPacket, BundlingAssumption
  <1>2. /\ r \in Buffer /\ ~r.tooLong /\ r.locked = b.locked /\ Aligned(r)
        /\ \/ r.ctrl = 0 /\ r.sack = 0 /\ r.data = 0
           \/ /\ SackSize(b) + size < MaxPDU
              /\ r.ctrl = b.ctrl /\ r.sack = b.sack /\ r.data = b.data
    BY <1>1, MakeRoomGood
  <1>3. /\ p \in Buffer /\ p.sack = size /\ p.ctrl = r.ctrl /\ p.data = r.data
        /\ p.tooLong = r.tooLong /\ p.locked = r.locked
    BY <1>1, <1>2 DEF Buffer
  <1>4. Header + r.ctrl + size + r.data <= Limit
    <2>1. b.ctrl \in Nat /\ b.data \in Nat
      BY DEF Buffer
    <2> QED  BY <1>1, <1>2, <2>1
  <1>5. Fits(p) /\ Aligned(p)
    BY <1>1, <1>2, <1>3, <1>4 DEF Fits, Aligned
  <1>6. ~Empty(p)
    <2>1. p \in Buffer /\ p.sack # 0
      BY <1>1, <1>3
    <2> HIDE DEF p
    <2> QED  BY <2>1, EmptyMeansZero
  <1>7. PutSack(b, size, path) = p
    BY DEF PutSack
  <1> QED  BY <1>2, <1>3, <1>5, <1>6, <1>7 DEF Good, Blank

\* bu_put_Data_Chunk
LEMMA PutDataGood ==
  ASSUME NEW b \in Buffer, Good(b), NEW size \in 1..MaxPDU, NEW sackSize \in SackSizes,
         NEW path \in Paths \cup {NULL}
  PROVE  LET p == PutData(b, size, sackSize, path)
         IN  Good(p) /\ ~Empty(p) /\ p.locked = b.locked
  <1> DEFINE r == MakeRoom(b, TotalSize(b) + size, path)
             d == [r EXCEPT !.data = r.data + Padded(size)]
  <1>1. /\ TotalSize(b) \in Nat /\ size \in Nat
        /\ Padded(size) \in Nat /\ Padded(size) % 4 = 0 /\ 0 < Padded(size)
    BY SizeOfPacket, ChunkFits
  <1>2. /\ r \in Buffer /\ ~r.tooLong /\ r.locked = b.locked /\ Aligned(r)
        /\ \/ r.ctrl = 0 /\ r.sack = 0 /\ r.data = 0
           \/ /\ TotalSize(b) + size < MaxPDU
              /\ r.ctrl = b.ctrl /\ r.sack = b.sack /\ r.data = b.data
    BY <1>1, MakeRoomGood
  <1>3. /\ d \in Buffer /\ d.data = r.data + Padded(size) /\ d.sack = r.sack
        /\ d.ctrl = r.ctrl /\ d.tooLong = r.tooLong /\ d.locked = r.locked
    <2>1. r \in Buffer /\ r.data + Padded(size) \in Nat
      BY <1>1, <1>2 DEF Buffer
    <2> HIDE DEF r
    <2> QED  BY <2>1 DEF Buffer
  <1>4. Fits(d)
    <2>1. Header + r.ctrl + r.sack + r.data + Padded(size) <= Limit
      BY <1>2, RoomForChunk
    <2>2. /\ r.ctrl \in Nat /\ r.sack \in Nat /\ r.data \in Nat /\ Header \in Nat /\ Limit \in Nat
      BY <1>2, BundlingAssumption DEF Buffer
    <2>3. Header + d.ctrl + d.sack + d.data <= Limit
      BY <1>1, <1>3, <2>1, <2>2
    <2> QED  BY <1>2, <1>3, <2>3 DEF Fits
  <1>5. Aligned(d)
    <2>1. r.data \in Nat /\ r.data % 4 = 0
      BY <1>2 DEF Aligned, Buffer
    <2>2. (r.data + Padded(size)) % 4 = 0
      BY <1>1, <2>1
    <2> QED  BY <1>2, <1>3, <2>2 DEF Aligned
  <1>6. ~Empty(d)
    BY <1>1, <1>2, <1>3, EmptyMeansZero DEF Buffer
  <1>7. Good(d)
    BY <1>3, <1>4, <1>5, <1>6 DEF Good, Blank
  <1>8. PutData(b, size, sackSize, path) = IF d.sackTimer THEN PutSack(d, sackSize, path) ELSE d
    BY DEF PutData
  <1> HIDE DEF d
  <1> QED  BY <1>2, <1>3, <1>6, <1>7, <1>8, PutSackGood

\* A flag of a good buffer is written.
LEMMA FlagsGood ==
  ASSUME NEW b \in Buffer, Good(b), NEW c \in Buffer,
         c.ctrl = b.ctrl, c.sack = b.sack, c.data = b.data, c.address = b.address,
         c.owed = b.owed, c.tooLong = b.tooLong
  PROVE  Good(c) /\ (Empty(c) <=> Empty(b))
  BY DEF Good, Fits, Aligned, Blank, Empty

\* bu_lock_sender
LEMMA LockGood ==
  ASSUME NEW b \in Buffer, Good(b)
  PROVE  /\ Good(Lock(b)) /\ Lock(b).locked
         /\ ~b.locked /\ Calm(b) => Calm(Lock(b))
  <1> DEFINE l == [b EXCEPT !.locked = TRUE, !.requested = FALSE]
  <1>1. /\ l \in Buffer /\ l.locked /\ ~l.requested
        /\ l.ctrl = b.ctrl /\ l.sack = b.sack /\ l.data = b.data /\ l.address = b.address
        /\ l.owed = b.owed /\ l.tooLong = b.tooLong
    BY DEF Buffer
  <1>2. Good(l)
    BY <1>1, FlagsGood
  <1> QED  BY <1>1, <1>2 DEF Lock, Calm, Asked

\* bu_unlock_sender: what was asked for is sent.
LEMMA UnlockGood ==
  ASSUME NEW b \in Buffer, Good(b), NEW path \in Paths \cup {NULL}
  PROVE  LET u == Unlock(b, path)
         IN  Good(u) /\ ~u.locked /\ (Calm(b) => Calm(u))
  <1> DEFINE u == [b EXCEPT !.locked = FALSE]
  <1>1. /\ u \in Buffer /\ ~u.locked /\ u.requested = b.requested
        /\ u.ctrl = b.ctrl /\ u.sack = b.sack /\ u.data = b.data /\ u.address = b.address
        /\ u.owed = b.owed /\ u.tooLong = b.tooLong
    BY DEF Buffer
  <1>2. Good(u)
    BY <1>1, FlagsGood
  <1>3. CASE b.requested
    <2>1. Unlock(b, path) = SendAllChunks(u, path)
      BY <1>3 DEF Unlock
    <2> QED  BY <1>1, <1>2, <2>1, SendAllChunksGood
  <1>4. CASE ~b.requested
    <2>1. Unlock(b, path) = u
      BY <1>4 DEF Unlock
    <2> QED  BY <1>1, <1>2, <1>4, <2>1 DEF Calm, Asked
  <1> QED  BY <1>3, <1>4

LEMMA SendCtrlGood ==
  ASSUME NEW b \in Buffer, Good(b), NEW size \in CtrlSizes, NEW path \in Paths \cup {NULL}
  PROVE  LET s == SendCtrl(b, size, path)
         IN  Good(s) /\ Calm(s) /\ s.locked = b.locked /\ (s.locked => ~Empty(s))
  <1> DEFINE p == PutCtrl(b, size, path)
  <1>1. size \in 1..MaxPDU
    BY BundlingAssumption
  <1>2. p \in Buffer /\ Good(p) /\ ~Empty(p) /\ p.locked = b.locked
    BY <1>1, PutCtrlGood DEF Good
  <1>3. SendCtrl(b, size, path) = SendAllChunks(p, path)
    BY DEF SendCtrl
  <1> HIDE DEF p
  <1> QED  BY <1>2, <1>3, SendAllChunksGood

LEMMA SendCtrlNowGood ==
  ASSUME NEW b \in Buffer, Good(b), NEW size \in CtrlSizes, NEW path \in Paths \cup {NULL}
  PROVE  LET s == SendCtrlNow(b, size, path)
         IN  Good(s) /\ Calm(s) /\ ~s.locked
  <1> DEFINE c == SendCtrl(b, size, path)
  <1>1. c \in Buffer /\ Good(c) /\ Calm(c)
    BY SendCtrlGood DEF Good
  <1>2. SendCtrlNow(b, size, path) = Unlock(c, path)
    BY DEF SendCtrlNow
  <1> HIDE DEF c
  <1> QED  BY <1>1, <1>2, UnlockGood

-----------------------------------------------------------------------------
(* The inductive invariant *)

LEMMA InitSound == Init => BundlingInv
  <1> SUFFICES ASSUME Init PROVE BundlingInv
    OBVIOUS
  <1>1. NewBuffer \in Buffer
    BY NewBufferGood DEF Good
  <1>2. TypeOK
    <2>1. buffers \in [Owners -> Buffer]
      BY <1>1 DEF Init
    <2>2. left \in 0..MaxChunks
      BY BundlingAssumption DEF Init
    <2> QED  BY <2>1, <2>2 DEF Init, TypeOK, Owners, Phases, Forwards
  <1>3. \A o \in Owners : buffers[o] = NewBuffer
    BY DEF Init
  <1>4. Sound
    BY <1>2, <1>3, NewBufferGood DEF Init, TypeOK, Sound, Counted, Awaiting, Association, Owners
  <1> QED  BY <1>2, <1>4 DEF BundlingInv

\* What is known of the buffers in any state.
LEMMA BuffersKnown ==
  ASSUME BundlingInv
  PROVE  /\ buffers \in [Owners -> Buffer]
         /\ \A o \in Owners : buffers[o] \in Buffer /\ Good(buffers[o])
         /\ Association \in Buffer /\ Good(Association)
         /\ current \in Owners /\ buffer \in Buffer /\ Good(buffer)
         /\ from \in Paths \cup {NULL} /\ NULL \in Paths \cup {NULL}
  BY DEF BundlingInv, TypeOK, Sound, Association, Owners, buffer

\* The ULP or a timer has put something into the association's buffer.
LEMMA AssociationStep ==
  ASSUME BundlingInv, NEW b \in Buffer, Good(b), AssociationBecomes(b),
         b.locked = Association.locked,
         Awaiting \/ Calm(b),
         Awaiting /\ b.locked => ~Empty(b)
  PROVE  BundlingInv'
  <1>1. UNCHANGED <<alive, current, phase, left, forward, from, dataSeen, sendIt>>
    BY DEF AssociationBecomes, datagram
  <1>2. /\ buffers' = [buffers EXCEPT !["association"] = b]
        /\ buffers \in [Owners -> Buffer]
    BY DEF AssociationBecomes, BundlingInv, TypeOK
  <1>3. /\ buffers' \in [Owners -> Buffer]
        /\ Association' = b /\ buffers'["global"] = buffers["global"]
    BY <1>2 DEF Owners, Association
  <1>4. TypeOK'
    BY <1>1, <1>3 DEF BundlingInv, TypeOK
  <1>5. \A o \in Owners : Good(buffers'[o])
    BY <1>3 DEF BundlingInv, Sound, Owners, Association
  <1>6. Awaiting' <=> Awaiting
    BY <1>1 DEF Awaiting
  <1>7. Sound'
    BY <1>1, <1>3, <1>5, <1>6 DEF BundlingInv, Sound, Counted
  <1> QED  BY <1>4, <1>7 DEF BundlingInv

\* A chunk of the datagram was handled, and the next one comes.
LEMMA ChunkStep ==
  ASSUME BundlingInv, NEW b \in Buffer, Good(b), BufferBecomes(b),
         phase = "chunks", phase' = "chunks",
         current = "association" => Calm(b),
         b.locked => buffer.locked,
         UNCHANGED current, alive' \in BOOLEAN,
         Counted', from' \in Paths,
         dataSeen' \in BOOLEAN, sendIt' \in BOOLEAN
  PROVE  BundlingInv'
  <1>1. /\ buffers' = [buffers EXCEPT ![current] = b]
        /\ buffers \in [Owners -> Buffer] /\ current \in Owners
    BY DEF BufferBecomes, BundlingInv, TypeOK
  <1>2. /\ buffers' \in [Owners -> Buffer]
        /\ \A o \in Owners : buffers'[o] = IF o = current THEN b ELSE buffers[o]
    BY <1>1
  <1>3. TypeOK'
    BY <1>1, <1>2 DEF BundlingInv, TypeOK, Counted, Phases
  <1>4. \A o \in Owners : Good(buffers'[o])
    BY <1>2 DEF BundlingInv, Sound
  <1>5. ~Awaiting /\ ~Awaiting'
    BY DEF Awaiting
  <1>6. CASE current = "association"
    <2>1. Association' = b /\ Association = buffer
      BY <1>2, <1>6 DEF Association, Owners, buffer
    <2> QED  BY <1>3, <1>4, <1>5, <1>6, <2>1 DEF BundlingInv, Sound
  <1>7. CASE current # "association"
    <2>1. Association' = Association
      BY <1>2, <1>7 DEF Association, Owners
    <2> QED  BY <1>3, <1>4, <1>5, <1>7, <2>1 DEF BundlingInv, Sound
  <1> QED  BY <1>6, <1>7

\* The association is removed, after a packet b: its buffer is like a new one.
LEMMA RemovedBuffers ==
  ASSUME BundlingInv, NEW b \in Buffer, Good(b), Removed(b)
  PROVE  /\ buffers' \in [Owners -> Buffer] /\ alive' = FALSE
         /\ Calm(Association') /\ ~Association'.locked
         /\ \A o \in Owners : Good(buffers'[o])
  <1> DEFINE n == [NewBuffer EXCEPT !.tooLong = b.tooLong]
  <1>1. ~b.tooLong /\ b.tooLong \in BOOLEAN
    BY DEF Good, Fits, Buffer
  <1>2. /\ n \in Buffer /\ n.ctrl = 0 /\ n.sack = 0 /\ n.data = 0 /\ ~n.tooLong
        /\ n.address = NULL /\ ~n.owed /\ ~n.locked
    BY <1>1 DEF NewBuffer, Buffer
  <1>3. Good(n) /\ Calm(n)
    BY <1>2, EmptyIsGood
  <1>4. buffers' = [buffers EXCEPT !["association"] = n] /\ alive' = FALSE
    BY DEF Removed
  <1>5. buffers \in [Owners -> Buffer] /\ \A o \in Owners : Good(buffers[o])
    BY DEF BundlingInv, TypeOK, Sound
  <1> HIDE DEF n
  <1>6. /\ buffers' \in [Owners -> Buffer] /\ Association' = n
        /\ buffers'["global"] = buffers["global"]
    BY <1>2, <1>4, <1>5 DEF Owners, Association
  <1>7. \A o \in Owners : Good(buffers'[o])
    BY <1>3, <1>5, <1>6 DEF Owners, Association
  <1> QED  BY <1>2, <1>3, <1>4, <1>6, <1>7

\* Afterwards the global buffer is in use.
LEMMA RemovedStep ==
  ASSUME BundlingInv, NEW b \in Buffer, Good(b), Removed(b),
         current' = "global", phase' \in {"idle", "chunks"},
         Counted', from' \in Paths,
         dataSeen' \in BOOLEAN, sendIt' \in BOOLEAN
  PROVE  BundlingInv'
  <1>1. /\ buffers' \in [Owners -> Buffer] /\ alive' = FALSE
        /\ Calm(Association') /\ ~Association'.locked
        /\ \A o \in Owners : Good(buffers'[o])
    BY RemovedBuffers
  <1>2. TypeOK'
    BY <1>1 DEF TypeOK, Counted, Owners, Phases
  <1>3. ~Awaiting'
    BY DEF Awaiting
  <1>4. Sound'
    BY <1>1, <1>3 DEF Sound
  <1> QED  BY <1>2, <1>4 DEF BundlingInv

\* However many chunks are left, the next may be a FORWARD TSN or not.
LEMMA ChunksLeftTypes ==
  ASSUME NEW n \in 0..MaxChunks, ChunksLeft(n)
  PROVE  Counted'
  <1> QED  BY DEF ChunksLeft, Counted, Forwards

\* The variables of the loop after a chunk.
LEMMA NextChunkTypes ==
  ASSUME BundlingInv, NextChunk
  PROVE  /\ phase = "chunks" /\ phase' = "chunks"
         /\ Counted'
         /\ from' \in Paths /\ from' = from /\ sendIt' \in BOOLEAN
  <1>1. left - 1 \in 0..MaxChunks
    BY BundlingAssumption DEF NextChunk, AtChunk, BundlingInv, TypeOK
  <1>2. Counted'
    BY <1>1, ChunksLeftTypes DEF NextChunk
  <1> QED  BY <1>2 DEF NextChunk, AtChunk, BundlingInv, TypeOK

\* rbu_rcvDatagram returns: buffer b, which its loop leaves, is unlocked and sent.
LEMMA ClosingStep ==
  ASSUME BundlingInv, NEW b \in Buffer, Good(b), BufferBecomes(Unlock(b, from)),
         current = "association" => Calm(b), Awaiting => current = "association",
         phase' = "idle", current' = "global", Counted',
         UNCHANGED <<alive, from, dataSeen, sendIt>>
  PROVE  BundlingInv'
  <1> DEFINE u == Unlock(b, from)
  <1>1. u \in Buffer /\ Good(u) /\ ~u.locked /\ (Calm(b) => Calm(u))
    BY BuffersKnown, UnlockGood DEF Good
  <1>2. buffers' = [buffers EXCEPT ![current] = u]
    BY DEF BufferBecomes
  <1> HIDE DEF u
  <1>3. /\ buffers' \in [Owners -> Buffer]
        /\ \A o \in Owners : buffers'[o] = IF o = current THEN u ELSE buffers[o]
    BY <1>1, <1>2, BuffersKnown
  <1>4. \A o \in Owners : Good(buffers'[o])
    BY <1>1, <1>3, BuffersKnown
  <1>5. TypeOK'
    BY <1>3 DEF BundlingInv, TypeOK, Counted, Owners, Phases
  <1>6. ~Awaiting'
    BY DEF Awaiting
  <1>7. Calm(Association') /\ ~Association'.locked
    <2>1. CASE current = "association"
      BY <1>1, <1>3, <2>1 DEF Association, Owners
    <2>2. CASE current # "association"
      BY <1>3, <2>2 DEF Association, Owners, BundlingInv, Sound
    <2> QED  BY <2>1, <2>2
  <1> QED  BY <1>4, <1>5, <1>6, <1>7 DEF BundlingInv, Sound

\* In the loop, the association's buffer is calm when it is in use.
LEMMA CalmInLoop ==
  ASSUME BundlingInv, phase = "chunks", current = "association"
  PROVE  buffer = Association /\ Calm(buffer)
  BY DEF BundlingInv, Sound, Awaiting, Association, buffer

-----------------------------------------------------------------------------
(* The actions of the loop *)

LEMMA ReceiveDatagramStep ==
  ASSUME BundlingInv, NEW n \in 1..MaxChunks, NEW path \in Paths, ReceiveDatagram(n, path)
  PROVE  BundlingInv'
  <1>1. /\ phase = "idle" /\ phase' = "chunks" /\ ChunksLeft(n) /\ from' = path
        /\ dataSeen' = FALSE /\ sendIt' = FALSE /\ alive' = alive
        /\ current' \in {"global"} \cup (IF alive THEN {"association"} ELSE {})
        /\ buffers' = [buffers EXCEPT ![current'] = Lock(buffers[current'])]
    BY DEF ReceiveDatagram
  <1>2. Counted'
    BY <1>1, ChunksLeftTypes, BundlingAssumption
  <1>3. current' \in Owners
    BY <1>1 DEF Owners
  <1>4. ~Association.locked /\ Calm(Association) /\ ~Awaiting /\ ~Awaiting'
    BY <1>1 DEF BundlingInv, Sound, Awaiting
  <1>5. Lock(buffers[current']) \in Buffer /\ Good(Lock(buffers[current']))
    BY <1>3, BuffersKnown, LockGood DEF Good
  <1>6. /\ buffers' \in [Owners -> Buffer]
        /\ \A o \in Owners :
             buffers'[o] = IF o = current' THEN Lock(buffers[current']) ELSE buffers[o]
    BY <1>1, <1>3, <1>5, BuffersKnown
  <1>7. \A o \in Owners : Good(buffers'[o])
    BY <1>5, <1>6, BuffersKnown
  <1>8. TypeOK'
    BY <1>1, <1>2, <1>3, <1>6 DEF BundlingInv, TypeOK, Counted, Phases
  <1>9. CASE current' = "association"
    <2>1. Association' = Lock(Association)
      BY <1>6, <1>9 DEF Association, Owners
    <2>2. Calm(Association')
      BY <1>4, <2>1, BuffersKnown, LockGood
    <2> QED  BY <1>1, <1>2, <1>4, <1>7, <1>8, <1>9, <2>2 DEF BundlingInv, Sound
  <1>10. CASE current' # "association"
    <2>1. Association' = Association
      BY <1>6, <1>10 DEF Association, Owners
    <2> QED  BY <1>1, <1>2, <1>4, <1>7, <1>8, <2>1 DEF BundlingInv, Sound
  <1> QED  BY <1>9, <1>10

\* A chunk that leaves the buffers alone
LEMMA NothingPutStep ==
  ASSUME BundlingInv, UNCHANGED <<buffers, alive, current>>,
         phase = "chunks", phase' = "chunks",
         Counted', from' \in Paths,
         dataSeen' \in BOOLEAN, sendIt' \in BOOLEAN
  PROVE  BundlingInv'
  <1>1. BufferBecomes(buffer)
    BY BuffersKnown DEF BufferBecomes, buffer
  <1>2. current = "association" => Calm(buffer)
    BY CalmInLoop
  <1>3. alive' \in BOOLEAN
    BY DEF BundlingInv, TypeOK
  <1> QED  BY <1>1, <1>2, <1>3, ChunkStep, BuffersKnown

\* A chunk that is answered
LEMMA AnsweredStep ==
  ASSUME BundlingInv, NEW size \in CtrlSizes, NEW path \in Paths \cup {NULL},
         BufferBecomes(SendCtrl(buffer, size, path)), UNCHANGED <<alive, current>>,
         phase = "chunks", phase' = "chunks",
         Counted', from' \in Paths,
         dataSeen' \in BOOLEAN, sendIt' \in BOOLEAN
  PROVE  BundlingInv'
  <1> DEFINE s == SendCtrl(buffer, size, path)
  <1>1. s \in Buffer /\ Good(s) /\ Calm(s) /\ s.locked = buffer.locked
    BY BuffersKnown, SendCtrlGood DEF Good
  <1>2. alive' \in BOOLEAN
    BY DEF BundlingInv, TypeOK
  <1>3. BufferBecomes(s)
    OBVIOUS
  <1> HIDE DEF s
  <1> QED  BY <1>1, <1>2, <1>3, ChunkStep

LEMMA DataChunkStep ==
  ASSUME BundlingInv, NEW size \in CtrlSizes, DataChunk(size)
  PROVE  BundlingInv'
  <1>1. NextChunk /\ dataSeen' = TRUE
    BY DEF DataChunk
  <1>2. /\ phase = "chunks" /\ phase' = "chunks"
        /\ Counted'
        /\ from' \in Paths /\ sendIt' \in BOOLEAN /\ dataSeen' \in BOOLEAN
    BY <1>1, NextChunkTypes
  <1>3. CASE UNCHANGED <<buffers, alive, current>>
    BY <1>2, <1>3, NothingPutStep
  <1>4. CASE /\ current = "association"
             /\ BufferBecomes(PutCtrl(buffer, size, NULL)) /\ UNCHANGED <<alive, current>>
    <2> DEFINE p == PutCtrl(buffer, size, NULL)
    <2>1. size \in 1..MaxPDU
      BY BundlingAssumption
    <2>2. Calm(buffer)
      BY <1>2, <1>4, CalmInLoop
    <2>3. p \in Buffer /\ Good(p) /\ Calm(p) /\ p.locked = buffer.locked
      BY <2>1, <2>2, BuffersKnown, PutCtrlGood DEF Good
    <2>4. BufferBecomes(p) /\ alive' \in BOOLEAN
      BY <1>4 DEF BundlingInv, TypeOK
    <2> HIDE DEF p
    <2> QED  BY <1>2, <1>4, <2>3, <2>4, ChunkStep
  <1>5. CASE ScuAbort(size)
    <2> DEFINE s == SendCtrlNow(buffer, size, NULL)
    <2>1. s \in Buffer /\ Good(s)
      BY BuffersKnown, SendCtrlNowGood DEF Good
    <2>2. Removed(s) /\ current' = "global"
      BY <1>5 DEF ScuAbort
    <2> HIDE DEF s
    <2> QED  BY <1>2, <2>1, <2>2, RemovedStep
  <1> QED  BY <1>3, <1>4, <1>5 DEF DataChunk

LEMMA SackChunkStep ==
  ASSUME BundlingInv, NEW size \in CtrlSizes \cup DataSizes, NEW sackSize \in SackSizes,
         NEW path \in Paths, SackChunk(size, sackSize, path)
  PROVE  BundlingInv'
  <1>1. NextChunk /\ UNCHANGED <<alive, current, dataSeen>>
    BY DEF SackChunk
  <1>2. /\ phase = "chunks" /\ phase' = "chunks"
        /\ Counted'
        /\ from' \in Paths /\ sendIt' \in BOOLEAN /\ dataSeen' \in BOOLEAN /\ alive' \in BOOLEAN
    BY <1>1, NextChunkTypes DEF BundlingInv, TypeOK
  <1>3. CASE /\ size \in DataSizes
             /\ BufferBecomes(SendAllChunks(PutData(buffer, size, sackSize, path), path))
    <2> DEFINE d == PutData(buffer, size, sackSize, path)
               s == SendAllChunks(d, path)
    <2>1. size \in 1..MaxPDU /\ path \in Paths \cup {NULL}
      BY <1>3, BundlingAssumption
    <2>2. d \in Buffer /\ Good(d) /\ ~Empty(d) /\ d.locked = buffer.locked
      BY <2>1, BuffersKnown, PutDataGood DEF Good
    <2> HIDE DEF d
    <2>3. s \in Buffer /\ Good(s) /\ Calm(s) /\ s.locked = d.locked
      BY <2>1, <2>2, SendAllChunksGood DEF Good
    <2>4. BufferBecomes(s)
      BY <1>3 DEF d
    <2> HIDE DEF s
    <2> QED  BY <1>1, <1>2, <2>2, <2>3, <2>4, ChunkStep
  <1>4. CASE size \in CtrlSizes /\ BufferBecomes(SendCtrl(buffer, size, NULL))
    BY <1>1, <1>2, <1>4, AnsweredStep
  <1>5. CASE BufferBecomes(SendAllChunks(buffer, NULL))
    <2> DEFINE s == SendAllChunks(buffer, NULL)
    <2>1. s \in Buffer /\ Good(s) /\ Calm(s) /\ s.locked = buffer.locked
      BY BuffersKnown, SendAllChunksGood DEF Good
    <2>2. BufferBecomes(s)
      BY <1>5
    <2> HIDE DEF s
    <2> QED  BY <1>1, <1>2, <2>1, <2>2, ChunkStep
  <1> QED  BY <1>3, <1>4, <1>5 DEF SackChunk

LEMMA HeartbeatChunkStep ==
  ASSUME BundlingInv, NEW size \in CtrlSizes, HeartbeatChunk(size)
  PROVE  BundlingInv'
  <1>1. /\ NextChunk /\ UNCHANGED <<alive, current, dataSeen>>
        /\ BufferBecomes(SendCtrl(buffer, size, from))
    BY DEF HeartbeatChunk
  <1>2. /\ phase = "chunks" /\ phase' = "chunks"
        /\ Counted'
        /\ from' \in Paths /\ sendIt' \in BOOLEAN /\ dataSeen' \in BOOLEAN
    BY <1>1, NextChunkTypes DEF BundlingInv, TypeOK
  <1> QED  BY <1>1, <1>2, AnsweredStep, BuffersKnown

\* The buffer is unlocked in the middle of the datagram.
LEMMA SetupChunkStep ==
  ASSUME BundlingInv, NEW size \in CtrlSizes, NEW path \in Paths \cup {NULL},
         SetupChunk(size, path)
  PROVE  BundlingInv'
  <1> DEFINE s == SendCtrlNow(buffer, size, path)
  <1>1. NextChunk /\ BufferBecomes(s) /\ UNCHANGED <<alive, current, dataSeen>>
    BY DEF SetupChunk
  <1>2. /\ phase = "chunks" /\ phase' = "chunks"
        /\ Counted'
        /\ from' \in Paths /\ sendIt' \in BOOLEAN /\ dataSeen' \in BOOLEAN /\ alive' \in BOOLEAN
    BY <1>1, NextChunkTypes DEF BundlingInv, TypeOK
  <1>3. s \in Buffer /\ Good(s) /\ Calm(s) /\ ~s.locked
    BY BuffersKnown, SendCtrlNowGood DEF Good
  <1> HIDE DEF s
  <1> QED  BY <1>1, <1>2, <1>3, ChunkStep

LEMMA CookieEchoChunkStep ==
  ASSUME BundlingInv, NEW size \in CtrlSizes, CookieEchoChunk(size)
  PROVE  BundlingInv'
  <1>1. NextChunk /\ UNCHANGED dataSeen /\ current = "global"
    BY DEF CookieEchoChunk
  <1>2. /\ phase = "chunks" /\ phase' = "chunks"
        /\ Counted'
        /\ from' \in Paths /\ sendIt' \in BOOLEAN /\ dataSeen' \in BOOLEAN
    BY <1>1, NextChunkTypes DEF BundlingInv, TypeOK
  <1>3. CASE BufferBecomes(SendCtrl(buffer, size, NULL)) /\ UNCHANGED <<alive, current>>
    BY <1>2, <1>3, AnsweredStep, BuffersKnown
  <1>4. CASE /\ alive' = TRUE /\ current' = "association"
             /\ buffers' = [buffers EXCEPT !["association"] =
                              SendCtrlNow(buffers["association"], size, NULL)]
    <2> DEFINE s == SendCtrlNow(Association, size, NULL)
    <2>1. s \in Buffer /\ Good(s) /\ Calm(s) /\ ~s.locked
      BY BuffersKnown, SendCtrlNowGood DEF Good
    <2>2. buffers' = [buffers EXCEPT !["association"] = s]
      BY <1>4 DEF Association
    <2> HIDE DEF s
    <2>3. /\ buffers' \in [Owners -> Buffer] /\ Association' = s
          /\ buffers'["global"] = buffers["global"]
      BY <2>1, <2>2, BuffersKnown DEF Owners, Association
    <2>4. \A o \in Owners : Good(buffers'[o])
      BY <2>1, <2>3, BuffersKnown DEF Owners, Association
    <2>5. TypeOK'
      BY <1>2, <1>4, <2>3 DEF TypeOK, Counted, Owners, Phases
    <2>6. ~Awaiting'
      BY <1>2 DEF Awaiting
    <2> QED  BY <1>2, <2>1, <2>3, <2>4, <2>5, <2>6 DEF BundlingInv, Sound
  <1> QED  BY <1>3, <1>4 DEF CookieEchoChunk

LEMMA RemovingChunkStep ==
  ASSUME BundlingInv, NEW size \in CtrlSizes, NEW answer \in BOOLEAN,
         RemovingChunk(size, answer)
  PROVE  BundlingInv'
  <1> DEFINE b == IF answer THEN SendCtrlNow(buffer, size, from) ELSE Unlock(buffer, from)
  <1>1. /\ Removed(b) /\ current' = "global" /\ phase' = "idle" /\ ChunksLeft(0)
        /\ UNCHANGED <<from, dataSeen, sendIt>>
    BY DEF RemovingChunk
  <1>2. b \in Buffer /\ Good(b)
    BY BuffersKnown, SendCtrlNowGood, UnlockGood DEF Good
  <1>3. 0 \in 0..MaxChunks
    BY BundlingAssumption
  <1>4. Counted'
    BY <1>1, <1>3, ChunksLeftTypes
  <1>5. from' \in Paths /\ dataSeen' \in BOOLEAN /\ sendIt' \in BOOLEAN
    BY <1>1 DEF BundlingInv, TypeOK
  <1> HIDE DEF b
  <1> QED  BY <1>1, <1>2, <1>4, <1>5, RemovedStep

LEMMA UnknownChunkStep ==
  ASSUME BundlingInv, NEW size \in CtrlSizes, NEW report \in BOOLEAN, NEW stop \in BOOLEAN,
         UnknownChunk(size, report, stop)
  PROVE  BundlingInv'
  <1>1. /\ AtChunk /\ ChunksLeft(IF stop THEN 0 ELSE left - 1)
        /\ UNCHANGED <<alive, current, phase, from, dataSeen, sendIt>>
    BY DEF UnknownChunk
  <1>2. (IF stop THEN 0 ELSE left - 1) \in 0..MaxChunks
    BY <1>1, BundlingAssumption DEF AtChunk, BundlingInv, TypeOK
  <1>3. /\ phase = "chunks" /\ phase' = "chunks"
        /\ Counted'
        /\ from' \in Paths /\ sendIt' \in BOOLEAN /\ dataSeen' \in BOOLEAN
    BY <1>1, <1>2, ChunksLeftTypes DEF AtChunk, BundlingInv, TypeOK
  <1>4. CASE report
    <2>1. BufferBecomes(SendCtrl(buffer, size, NULL))
      BY <1>4 DEF UnknownChunk
    <2> QED  BY <1>1, <1>3, <2>1, AnsweredStep, BuffersKnown
  <1>5. CASE ~report
    <2>1. UNCHANGED buffers
      BY <1>5 DEF UnknownChunk
    <2> QED  BY <1>1, <1>3, <2>1, NothingPutStep
  <1> QED  BY <1>4, <1>5

LEMMA ForwardTSNChunkStep ==
  ASSUME BundlingInv, ForwardTSNChunk
  PROVE  BundlingInv'
  <1>1. /\ phase = "chunks" /\ forward # "none" /\ Skip
        /\ UNCHANGED <<buffers, alive, current, phase, from, dataSeen, sendIt>>
    BY DEF ForwardTSNChunk
  <1>2. phase' = "chunks" /\ from' \in Paths /\ dataSeen' \in BOOLEAN /\ sendIt' \in BOOLEAN
    BY <1>1 DEF BundlingInv, TypeOK
  <1>3. CASE forward = "supported"
    <2>1. ChunksLeft(left - 1)
      BY <1>1, <1>3 DEF Skip
    <2>2. left - 1 \in 0..MaxChunks
      BY <1>1, <1>3, BundlingAssumption DEF BundlingInv, Sound, Counted
    <2>3. Counted'
      BY <2>1, <2>2, ChunksLeftTypes
    <2> QED  BY <1>1, <1>2, <2>3, NothingPutStep
  <1>4. CASE forward # "supported"
    <2>1. Counted'
      BY <1>1, <1>4 DEF Skip, BundlingInv, Sound, Counted
    <2> QED  BY <1>1, <1>2, <2>1, NothingPutStep
  <1> QED  BY <1>3, <1>4

LEMMA FaultyLengthStep ==
  ASSUME BundlingInv, FaultyLength
  PROVE  BundlingInv'
  <1>1. /\ phase = "chunks" /\ BufferBecomes(Unlock(buffer, from)) /\ ChunksLeft(0)
        /\ phase' = "idle" /\ current' = "global"
        /\ UNCHANGED <<alive, from, dataSeen, sendIt>>
    BY DEF FaultyLength, AtChunk
  <1>2. 0 \in 0..MaxChunks
    BY BundlingAssumption
  <1>3. Counted'
    BY <1>1, <1>2, ChunksLeftTypes
  <1>4. current = "association" => Calm(buffer)
    BY <1>1, CalmInLoop
  <1>5. ~Awaiting
    BY <1>1 DEF Awaiting
  <1> QED  BY <1>1, <1>3, <1>4, <1>5, BuffersKnown, ClosingStep

LEMMA EndChunksStep ==
  ASSUME BundlingInv, NEW sackSize \in SackSizes, NEW send \in BOOLEAN,
         EndChunks(sackSize, send)
  PROVE  BundlingInv'
  <1> DEFINE started == [buffer EXCEPT !.sackTimer =
                           buffer.sackTimer \/ (dataSeen /\ current = "association")]
             b == IF send THEN PutSack(started, sackSize, from) ELSE started
  <1>1. /\ phase = "chunks" /\ phase' = "notifications" /\ sendIt' = send
        /\ send => current = "association"
        /\ UNCHANGED <<alive, current, left, forward, from, dataSeen>>
    BY DEF EndChunks
  <1>2. buffers' = [buffers EXCEPT ![current] = b]
    BY DEF EndChunks, BufferBecomes
  <1>3. /\ started \in Buffer /\ started.locked = buffer.locked
        /\ started.ctrl = buffer.ctrl /\ started.sack = buffer.sack /\ started.data = buffer.data
        /\ started.address = buffer.address /\ started.owed = buffer.owed
        /\ started.tooLong = buffer.tooLong /\ started.requested = buffer.requested
    <2>1. buffer \in Buffer
      BY BuffersKnown
    <2>2. (buffer.sackTimer \/ (dataSeen /\ current = "association")) \in BOOLEAN
      OBVIOUS
    <2> QED  BY <2>1, <2>2 DEF Buffer
  <1>4. Good(started) /\ (Calm(buffer) => Calm(started))
    <2>1. Good(started)
      BY <1>3, BuffersKnown, FlagsGood
    <2> QED  BY <1>3, <2>1 DEF Calm, Asked
  <1> HIDE DEF started
  <1>5. b \in Buffer /\ Good(b) /\ b.locked = buffer.locked /\ (send => ~Empty(b))
    BY <1>3, <1>4, BuffersKnown, PutSackGood DEF Good
  <1>6. ~send => Calm(started) \/ current # "association"
    BY <1>1, <1>4, CalmInLoop
  <1>7. ~send => b = started
    OBVIOUS
  <1> HIDE DEF b
  <1>8. /\ buffers' \in [Owners -> Buffer]
        /\ \A o \in Owners : buffers'[o] = IF o = current THEN b ELSE buffers[o]
    BY <1>2, <1>5, BuffersKnown
  <1>9. \A o \in Owners : Good(buffers'[o])
    BY <1>5, <1>8, BuffersKnown
  <1>10. TypeOK' /\ Counted'
    BY <1>1, <1>8 DEF BundlingInv, TypeOK, Phases, Sound, Counted
  <1>11. Awaiting' <=> send
    BY <1>1 DEF Awaiting
  <1>12. CASE current = "association"
    <2>1. Association' = b /\ Association = buffer
      BY <1>8, <1>12 DEF Association, Owners, buffer
    <2> QED  BY <1>1, <1>5, <1>6, <1>7, <1>9, <1>10, <1>11, <1>12, <2>1 DEF BundlingInv, Sound
  <1>13. CASE current # "association"
    <2>1. Association' = Association
      BY <1>8, <1>13 DEF Association, Owners
    <2>2. Calm(Association) /\ ~Association.locked
      BY <1>1, <1>13 DEF BundlingInv, Sound, Awaiting
    <2> QED  BY <1>1, <1>9, <1>10, <1>11, <1>13, <2>1, <2>2 DEF BundlingInv, Sound
  <1> QED  BY <1>12, <1>13

LEMMA EndDatagramStep ==
  ASSUME BundlingInv, EndDatagram
  PROVE  BundlingInv'
  <1> DEFINE b == IF sendIt THEN SendAllChunks(buffer, from) ELSE buffer
  <1>1. /\ phase = "notifications" /\ BufferBecomes(Unlock(b, from))
        /\ phase' = "idle" /\ current' = "global"
        /\ UNCHANGED <<alive, left, forward, from, dataSeen, sendIt>>
    BY DEF EndDatagram
  <1>2. sendIt => /\ Awaiting /\ current = "association" /\ buffer = Association
                  /\ ~buffer.locked \/ ~Empty(buffer)
    BY <1>1 DEF BundlingInv, Sound, Awaiting, Association, buffer
  <1>3. b \in Buffer /\ Good(b) /\ (sendIt => Calm(b))
    BY <1>2, BuffersKnown, SendAllChunksGood DEF Good
  <1>4. ~sendIt => (current = "association" => Calm(b))
    BY <1>1 DEF BundlingInv, Sound, Awaiting, Association, buffer
  <1>5. Awaiting => sendIt /\ current = "association"
    BY <1>2 DEF Awaiting
  <1>6. Counted'
    BY <1>1 DEF BundlingInv, Sound, Counted
  <1> HIDE DEF b
  <1> QED  BY <1>1, <1>3, <1>4, <1>5, <1>6, ClosingStep

-----------------------------------------------------------------------------
(* The other actions *)

LEMMA SendDataStep ==
  ASSUME BundlingInv, NEW size \in DataSizes, NEW sackSize \in SackSizes, NEW path \in Paths,
         SendData(size, sackSize, path)
  PROVE  BundlingInv'
  <1> DEFINE d == PutData(Association, size, sackSize, path)
             s == SendAllChunks(d, path)
  <1>1. AssociationBecomes(s)
    BY DEF SendData, Association
  <1>2. size \in 1..MaxPDU /\ path \in Paths \cup {NULL}
    BY BundlingAssumption
  <1>3. d \in Buffer /\ Good(d) /\ ~Empty(d) /\ d.locked = Association.locked
    BY <1>2, BuffersKnown, PutDataGood DEF Good
  <1> HIDE DEF d
  <1>4. s \in Buffer /\ Good(s) /\ Calm(s) /\ s.locked = d.locked /\ (s.locked => ~Empty(s))
    BY <1>2, <1>3, SendAllChunksGood DEF Good
  <1> HIDE DEF s
  <1> QED  BY <1>1, <1>3, <1>4, AssociationStep

LEMMA SendControlStep ==
  ASSUME BundlingInv, NEW size \in CtrlSizes, NEW path \in Paths \cup {NULL},
         SendControl(size, path)
  PROVE  BundlingInv'
  <1> DEFINE s == SendCtrl(Association, size, path)
  <1>1. AssociationBecomes(s)
    BY DEF SendControl, Association
  <1>2. s \in Buffer /\ Good(s) /\ Calm(s) /\ s.locked = Association.locked
        /\ (s.locked => ~Empty(s))
    BY BuffersKnown, SendCtrlGood DEF Good
  <1> HIDE DEF s
  <1> QED  BY <1>1, <1>2, AssociationStep

\* A SACK is put into a buffer and sent.
LEMMA SackGood ==
  ASSUME NEW b \in Buffer, Good(b), NEW sackSize \in SackSizes, NEW path \in Paths
  PROVE  LET s == SendAllChunks(PutSack(b, sackSize, path), path)
         IN  Good(s) /\ Calm(s) /\ s.locked = b.locked /\ (s.locked => ~Empty(s))
  <1> DEFINE p == PutSack(b, sackSize, path)
  <1>1. path \in Paths \cup {NULL}
    OBVIOUS
  <1>2. p \in Buffer /\ Good(p) /\ ~Empty(p) /\ p.locked = b.locked
    BY <1>1, PutSackGood DEF Good
  <1> HIDE DEF p
  <1>3. LET s == SendAllChunks(p, path)
        IN  Good(s) /\ Calm(s) /\ s.locked = b.locked /\ (s.locked => ~Empty(s))
    BY <1>1, <1>2, SendAllChunksGood
  <1> QED  BY <1>3 DEF p

\* The SACK timer of a buffer is started or stopped.
LEMMA TimerGood ==
  ASSUME NEW b \in Buffer, Good(b), NEW running \in BOOLEAN
  PROVE  LET t == [b EXCEPT !.sackTimer = running]
         IN  Good(t) /\ (Calm(b) => Calm(t)) /\ t.locked = b.locked /\ (Empty(t) <=> Empty(b))
  <1> DEFINE t == [b EXCEPT !.sackTimer = running]
  <1>1. /\ t \in Buffer /\ t.locked = b.locked /\ t.requested = b.requested
        /\ t.ctrl = b.ctrl /\ t.sack = b.sack /\ t.data = b.data /\ t.address = b.address
        /\ t.owed = b.owed /\ t.tooLong = b.tooLong
    BY DEF Buffer
  <1>2. Good(t) /\ (Empty(t) <=> Empty(b))
    BY <1>1, FlagsGood
  <1> QED  BY <1>1, <1>2 DEF Calm, Asked

LEMMA SackTimerStep ==
  ASSUME BundlingInv, NEW sackSize \in SackSizes, NEW path \in Paths,
         SackTimer(sackSize, path)
  PROVE  BundlingInv'
  <1> DEFINE t == [Association EXCEPT !.sackTimer = FALSE]
             s == SendAllChunks(PutSack(t, sackSize, path), path)
  <1>1. AssociationBecomes(s)
    BY DEF SackTimer, Association
  <1>2. t \in Buffer /\ Good(t) /\ t.locked = Association.locked
    BY BuffersKnown, TimerGood DEF Good
  <1> HIDE DEF t
  <1>3. s \in Buffer /\ Good(s) /\ Calm(s) /\ s.locked = t.locked /\ (s.locked => ~Empty(s))
    BY <1>2, SackGood DEF Good
  <1> HIDE DEF s
  <1> QED  BY <1>1, <1>2, <1>3, AssociationStep

LEMMA UlpReadsStep ==
  ASSUME BundlingInv, NEW sackSize \in SackSizes, NEW path \in Paths,
         UlpReads(sackSize, path)
  PROVE  BundlingInv'
  <1> DEFINE s == SendAllChunks(PutSack(Association, sackSize, path), path)
             stopped == [s EXCEPT !.sackTimer = FALSE]
             started == [Association EXCEPT !.sackTimer = TRUE]
  <1>1. AssociationBecomes(stopped) \/ AssociationBecomes(started)
    BY DEF UlpReads, Association
  <1>2. CASE AssociationBecomes(stopped)
    <2>1. /\ s \in Buffer /\ Good(s) /\ Calm(s) /\ s.locked = Association.locked
          /\ s.locked => ~Empty(s)
      BY BuffersKnown, SackGood DEF Good
    <2> HIDE DEF s
    <2>2. /\ stopped \in Buffer /\ Good(stopped) /\ Calm(stopped) /\ stopped.locked = s.locked
          /\ Empty(stopped) <=> Empty(s)
      BY <2>1, TimerGood DEF Good
    <2> HIDE DEF stopped
    <2> QED  BY <1>2, <2>1, <2>2, AssociationStep
  <1>3. CASE AssociationBecomes(started)
    <2>1. /\ started \in Buffer /\ Good(started) /\ (Calm(Association) => Calm(started))
          /\ started.locked = Association.locked
          /\ Empty(started) <=> Empty(Association)
      BY BuffersKnown, TimerGood DEF Good
    <2>2. /\ Awaiting \/ Calm(Association)
          /\ Awaiting /\ Association.locked => ~Empty(Association)
      BY DEF BundlingInv, Sound
    <2> HIDE DEF started
    <2> QED  BY <1>3, <2>1, <2>2, AssociationStep
  <1> QED  BY <1>1, <1>2, <1>3

LEMMA AssociateStep ==
  ASSUME BundlingInv, NEW size \in CtrlSizes, NEW path \in Paths, Associate(size, path)
  PROVE  BundlingInv'
  <1> DEFINE s == SendCtrl(Association, size, path)
  <1>1. /\ phase = "idle" /\ alive' = TRUE /\ UNCHANGED <<current, datagram>>
        /\ buffers' = [buffers EXCEPT !["association"] = s]
    BY DEF Associate, Association
  <1>2. /\ s \in Buffer /\ Good(s) /\ Calm(s) /\ s.locked = Association.locked
        /\ s.locked => ~Empty(s)
    BY BuffersKnown, SendCtrlGood DEF Good
  <1> HIDE DEF s
  <1>3. UNCHANGED <<current, phase, left, forward, from, dataSeen, sendIt>>
    BY <1>1 DEF datagram
  <1>4. /\ buffers' \in [Owners -> Buffer] /\ Association' = s
        /\ buffers'["global"] = buffers["global"]
    BY <1>1, <1>2, BuffersKnown DEF Owners, Association
  <1>5. \A o \in Owners : Good(buffers'[o])
    BY <1>2, <1>4, BuffersKnown DEF Owners, Association
  <1>6. TypeOK' /\ Counted'
    BY <1>1, <1>3, <1>4 DEF BundlingInv, TypeOK, Sound, Counted
  <1>7. ~Awaiting'
    BY <1>1, <1>3 DEF Awaiting
  <1> QED  BY <1>1, <1>2, <1>3, <1>4, <1>5, <1>6, <1>7 DEF BundlingInv, Sound

LEMMA UlpAbortsStep ==
  ASSUME BundlingInv, NEW size \in CtrlSizes, UlpAborts(size)
  PROVE  BundlingInv'
  <1> DEFINE s == SendCtrlNow(Association, size, NULL)
  <1>1. phase = "idle" /\ Removed(s) /\ UNCHANGED <<current, datagram>>
    BY DEF UlpAborts, Association
  <1>2. s \in Buffer /\ Good(s)
    BY BuffersKnown, SendCtrlNowGood DEF Good
  <1>3. current' = "global" /\ phase' = "idle"
    BY <1>1 DEF datagram, BundlingInv, Sound
  <1>4. Counted' /\ from' \in Paths /\ dataSeen' \in BOOLEAN /\ sendIt' \in BOOLEAN
    BY <1>1 DEF datagram, BundlingInv, TypeOK, Sound, Counted
  <1> HIDE DEF s
  <1> QED  BY <1>1, <1>2, <1>3, <1>4, RemovedStep

LEMMA OutOfTheBlueStep ==
  ASSUME BundlingInv, NEW size \in CtrlSizes, OutOfTheBlue(size)
  PROVE  BundlingInv'
  <1> DEFINE p == PutCtrl(buffers["global"], size, NULL)
             u == Unlock(p, NULL)
             s == SendAllChunks(u, NULL)
  <1>1. /\ buffers' = [buffers EXCEPT !["global"] = s] /\ UNCHANGED <<alive, current, datagram>>
    BY DEF OutOfTheBlue
  <1>2. size \in 1..MaxPDU /\ buffers["global"] \in Buffer /\ Good(buffers["global"])
    BY BuffersKnown, BundlingAssumption DEF Owners
  <1>3. p \in Buffer /\ Good(p)
    BY <1>2, PutCtrlGood DEF Good
  <1> HIDE DEF p
  <1>4. u \in Buffer /\ Good(u)
    BY <1>3, UnlockGood DEF Good
  <1> HIDE DEF u
  <1>5. s \in Buffer /\ Good(s)
    BY <1>4, SendAllChunksGood DEF Good
  <1> HIDE DEF s
  <1>6. /\ buffers' \in [Owners -> Buffer] /\ Association' = Association
        /\ buffers'["global"] = s
    BY <1>1, <1>5, BuffersKnown DEF Owners, Association
  <1>7. \A o \in Owners : Good(buffers'[o])
    BY <1>5, <1>6, BuffersKnown DEF Owners, Association
  <1>8. UNCHANGED <<alive, current, phase, left, forward, from, dataSeen, sendIt>>
    BY <1>1 DEF datagram
  <1>9. TypeOK' /\ Counted' /\ (Awaiting' <=> Awaiting)
    BY <1>6, <1>8 DEF BundlingInv, TypeOK, Sound, Counted, Awaiting
  <1> QED  BY <1>6, <1>7, <1>8, <1>9 DEF BundlingInv, Sound

LEMMA StutteringStep ==
  ASSUME BundlingInv, UNCHANGED vars
  PROVE  BundlingInv'
  <1>1. UNCHANGED <<buffers, alive, current, phase, left, forward, from, dataSeen, sendIt>>
    BY DEF vars, datagram
  <1> QED  BY <1>1 DEF BundlingInv, TypeOK, Sound, Counted, Awaiting, Association

-----------------------------------------------------------------------------
(* The theorems *)

\* BundlingInv holds always: in every state of sbundling.c and rbundling.c the buffers are
\* good, and the association's is calm but for a SACK rbu_rcvDatagram is about to ask for.
THEOREM BundlingInvariant == Spec => []BundlingInv
  <1>1. Init => BundlingInv
    BY InitSound
  <1>2. BundlingInv /\ [Next]_vars => BundlingInv'
    <2> SUFFICES ASSUME BundlingInv, [Next]_vars PROVE BundlingInv'
      OBVIOUS
    <2>1. ASSUME Handle PROVE BundlingInv'
      BY <2>1, DataChunkStep, HeartbeatChunkStep, CookieEchoChunkStep, SetupChunkStep,
         RemovingChunkStep, UnknownChunkStep, SackChunkStep, ForwardTSNChunkStep,
         FaultyLengthStep, EndChunksStep, EndDatagramStep
         DEF Handle
    <2>2. ASSUME Other PROVE BundlingInv'
      BY <2>2, UlpAbortsStep, OutOfTheBlueStep, AssociateStep, SendControlStep,
         SackTimerStep, UlpReadsStep, SendDataStep
         DEF Other
    <2>3. ASSUME NEW n \in 1..MaxChunks, NEW path \in Paths, ReceiveDatagram(n, path)
          PROVE  BundlingInv'
      BY <2>3, ReceiveDatagramStep
    <2>4. CASE UNCHANGED vars
      BY <2>4, StutteringStep
    <2> QED  BY <2>1, <2>2, <2>3, <2>4 DEF Next
  <1> QED  BY <1>1, <1>2, PTL DEF Spec

\* The variables of bundling keep their types.
THEOREM TypeCorrect == Spec => []TypeOK
  <1>1. BundlingInv => TypeOK
    BY DEF BundlingInv
  <1> QED  BY <1>1, BundlingInvariant, PTL

\* PacketFits: bu_sendAllChunks never finds a packet that is too long (sbundling.c:456), for
\* all lengths of chunks up to MAX_SCTP_PDU and any number of chunks in a datagram.
THEOREM PacketAlwaysFits == Spec => []PacketFits
  <1>1. BundlingInv => PacketFits
    BY DEF BundlingInv, Sound, PacketFits, Good, Fits
  <1> QED  BY <1>1, BundlingInvariant, PTL

\* NothingHeldBack: when rbu_rcvDatagram has returned, on whatever way out of its loop, the
\* association's buffer is open, and no SACK, DATA or request is left in it.
THEOREM NothingIsHeldBack == Spec => []NothingHeldBack
  <1>1. ASSUME BundlingInv, phase = "idle"
        PROVE  /\ ~Association.locked /\ ~Association.owed
               /\ Association.sack = 0 /\ Association.data = 0
    <2>1. ~Awaiting /\ ~Association.locked
      BY <1>1 DEF BundlingInv, Sound, Awaiting
    <2> QED  BY <1>1, <2>1 DEF BundlingInv, Sound, Calm, Asked
  <1>2. BundlingInv => NothingHeldBack
    BY <1>1 DEF NothingHeldBack, Association
  <1> QED  BY <1>2, BundlingInvariant, PTL

\* NoStaleAddress: requested_destination is cleared with the packet it was asked for.
THEOREM NoAddressIsStale == Spec => []NoStaleAddress
  <1>1. BundlingInv => NoStaleAddress
    BY DEF BundlingInv, Sound, NoStaleAddress, Good, Blank
  <1> QED  BY <1>1, BundlingInvariant, PTL
=============================================================================

------------------------ MODULE PathManagementProofs ------------------------
(***************************************************************************)
(* Theorems about PathManagement, for any number of paths and any limits:  *)
(* type correctness, SomePathActive, WithinLimits and HeartbeatGoesOn.     *)
(* One inductive invariant carries them, because they need each other: a   *)
(* counter stays in its range only because no path that still counts has   *)
(* reached its limit.                                                      *)
(***************************************************************************)
EXTENDS PathManagement, TLAPS

Paths == [Path -> PathData]

\* The limits hold for every path that can still make errors, so also for those that are
\* not confirmed yet.
Counts(paths) ==
  \A p \in Path : paths[p].state # "INACTIVE" => paths[p].pathRetranscount < MaxPathRetransmissions

Beating(paths) ==
  \A p \in Path : paths[p].heartbeatEnabled => paths[p].hearbeatTimer

Sound ==
  /\ Active(pathData) # {}
  /\ peerRetranscount < MaxAssocRetransmissions
  /\ Counts(pathData)
  /\ Beating(pathData)

\* The inductive invariant.
PathInv == TypeOK /\ (assoc = "up" => Sound)

-----------------------------------------------------------------------------
(* Timers *)

\* A counter that is reset is within the limit, because no limit is zero.
LEMMA ZeroWithinLimits ==
  0 \in 0..MaxPathRetransmissions /\ 0 < MaxPathRetransmissions
  BY PathAssumption

\* A timer is started where none is known, or an orphan is left room for.
LEMMA StartTimerType ==
  ASSUME NEW r \in PathData, ~r.hearbeatTimer \/ r.orphans < MaxOrphans
  PROVE  /\ StartTimer(r) \in PathData
         /\ StartTimer(r).hearbeatTimer
         /\ StartTimer(r).state = r.state
         /\ StartTimer(r).pathRetranscount = r.pathRetranscount
  <1>1. CASE r.hearbeatTimer
    <2>1. r.orphans + 1 \in 0..MaxOrphans
      BY <1>1, PathAssumption DEF PathData
    <2>2. StartTimer(r) = [[r EXCEPT !.hearbeatTimer = TRUE] EXCEPT !.orphans = r.orphans + 1]
      BY <1>1 DEF StartTimer, PathData
    <2> QED  BY <2>1, <2>2 DEF PathData
  <1>2. CASE ~r.hearbeatTimer
    <2>1. StartTimer(r) = [r EXCEPT !.hearbeatTimer = TRUE]
      BY <1>2 DEF StartTimer, PathData
    <2> QED  BY <2>1 DEF PathData
  <1> QED  BY <1>1, <1>2

\* A timer that is stopped changes nothing else.
LEMMA StopTimerType ==
  ASSUME NEW r \in PathData
  PROVE  /\ StopTimer(r) \in PathData
         /\ ~StopTimer(r).hearbeatTimer
         /\ StopTimer(r).state = r.state
         /\ StopTimer(r).pathRetranscount = r.pathRetranscount
         /\ StopTimer(r).orphans = r.orphans
         /\ StopTimer(r).heartbeatEnabled = r.heartbeatEnabled
  BY DEF StopTimer, PathData

\* A path whose heartbeats are disabled waits for no timer.
LEMMA DisableHBType ==
  ASSUME NEW r \in PathData
  PROVE  /\ DisableHB(r) \in PathData
         /\ ~DisableHB(r).heartbeatEnabled
         /\ DisableHB(r).state = r.state
         /\ DisableHB(r).pathRetranscount = r.pathRetranscount
  BY StopTimerType DEF DisableHB, StopTimer, PathData

\* A fresh path is within its limit and has its timer.
LEMMA NewPathType ==
  ASSUME NEW p \in Path, NEW primary \in Path
  PROVE  /\ NewPath(p, primary) \in PathData
         /\ NewPath(p, primary).pathRetranscount = 0
         /\ NewPath(p, primary).hearbeatTimer
         /\ p = primary => NewPath(p, primary).state = "ACTIVE"
  BY PathAssumption DEF NewPath, PathData

\* Heartbeats of all paths disabled: states and counters are as they were.
LEMMA DisableAllType ==
  ASSUME NEW paths \in Paths
  PROVE  /\ DisableAll(paths) \in Paths
         /\ Active(DisableAll(paths)) = Active(paths)
         /\ Counts(paths) => Counts(DisableAll(paths))
         /\ Beating(DisableAll(paths))
  BY DisableHBType DEF DisableAll, Active, Counts, Beating, Paths

\* One path is replaced by another that is no worse.
LEMMA Replaced ==
  ASSUME NEW paths \in Paths, NEW p \in Path, NEW r \in PathData
  PROVE  LET new == [paths EXCEPT ![p] = r]
         IN  /\ new \in Paths
             /\ Counts(paths) /\ (r.state # "INACTIVE" => r.pathRetranscount < MaxPathRetransmissions)
                => Counts(new)
             /\ Active(paths) # {} /\ (paths[p].state = "ACTIVE" => r.state = "ACTIVE")
                => Active(new) # {}
             /\ Beating(paths) /\ (r.heartbeatEnabled => r.hearbeatTimer) => Beating(new)
  BY DEF Counts, Active, Beating, Paths

\* A chunk is sent over a path of the association.
LEMMA NextActivePathType ==
  ASSUME NEW paths, NEW start \in Path
  PROVE  NextActivePath(paths, start) \in Path
  <1> DEFINE after(k) == (start + k) % NumberOfPaths
             nearest == {k \in 1..NumberOfPaths :
                           /\ after(k) \in Active(paths)
                           /\ \A j \in 1..(k - 1) : after(j) \notin Active(paths)}
  <1>1. CASE nearest = {}
    BY <1>1 DEF NextActivePath
  <1>2. CASE nearest # {}
    <2>1. (CHOOSE k \in nearest : TRUE) \in nearest
      BY <1>2
    <2>2. after(CHOOSE k \in nearest : TRUE) \in Path
      BY <2>1 DEF Active
    <2> QED  BY <1>2, <2>2 DEF NextActivePath
  <1> QED  BY <1>1, <1>2

-----------------------------------------------------------------------------
(* Errors *)

\* One more error leaves counters in their range, and an association that is kept within
\* its limits and with an active path.  Timers are not touched.
LEMMA ErrorCounted ==
  ASSUME NEW paths \in Paths, NEW p \in Path, Counts(paths),
         peerRetranscount \in Nat, peerRetranscount < MaxAssocRetransmissions
  PROVE  LET h == HandleChunksRetransmitted(paths, p)
         IN  /\ h.paths \in Paths
             /\ h.peer \in 0..MaxAssocRetransmissions
             /\ h.lost \in BOOLEAN
             /\ ~h.lost => /\ h.peer < MaxAssocRetransmissions
                           /\ Counts(h.paths)
                           /\ Active(paths) # {} => Active(h.paths) # {}
             /\ \A q \in Path : /\ h.paths[q].heartbeatEnabled = paths[q].heartbeatEnabled
                                /\ h.paths[q].hearbeatTimer = paths[q].hearbeatTimer
                                /\ h.paths[q].orphans = paths[q].orphans
  <1> DEFINE peer == IF paths[p].state = "ACTIVE" THEN peerRetranscount + 1 ELSE peerRetranscount
             r == [paths[p] EXCEPT !.pathRetranscount = paths[p].pathRetranscount + 1]
             failed == r.pathRetranscount >= MaxPathRetransmissions
             f == [r EXCEPT !.state = "INACTIVE"]
             counted == [paths EXCEPT ![p] = r]
             marked == IF failed THEN [counted EXCEPT ![p] = f] ELSE counted
             h == HandleChunksRetransmitted(paths, p)
             same(q, x) == /\ x.heartbeatEnabled = paths[q].heartbeatEnabled
                           /\ x.hearbeatTimer = paths[q].hearbeatTimer
                           /\ x.orphans = paths[q].orphans
  <1>1. CASE paths[p].state = "INACTIVE"
    <2>1. h = [paths |-> paths, peer |-> peerRetranscount, lost |-> FALSE]
      BY <1>1 DEF HandleChunksRetransmitted
    <2> QED  BY <2>1, PathAssumption
  <1>2. CASE paths[p].state # "INACTIVE"
    <2>1. /\ paths[p] \in PathData
          /\ paths[p].pathRetranscount < MaxPathRetransmissions
      BY <1>2 DEF Counts, Paths
    <2>2. paths[p].pathRetranscount + 1 \in 0..MaxPathRetransmissions
      BY <2>1, PathAssumption DEF PathData
    <2>3. /\ r \in PathData
          /\ r.state = paths[p].state /\ same(p, r)
      BY <2>1, <2>2 DEF PathData
    <2>4. /\ f \in PathData
          /\ f.state = "INACTIVE" /\ same(p, f)
      BY <2>3 DEF PathData
    <2>5. h = IF peer >= MaxAssocRetransmissions
              THEN [paths |-> counted, peer |-> peer, lost |-> TRUE]
              ELSE [paths |-> marked, peer |-> peer, lost |-> failed /\ Active(marked) = {}]
      BY <1>2 DEF HandleChunksRetransmitted, Paths
    <2>6. peer \in 0..MaxAssocRetransmissions
      BY PathAssumption
    <2>7. failed \in BOOLEAN /\ (~failed => r.pathRetranscount < MaxPathRetransmissions)
      BY <2>3, PathAssumption DEF PathData
    <2> HIDE DEF r, f, failed, h, peer, same
    <2>8. counted \in Paths /\ marked \in Paths
      BY <2>3, <2>4 DEF Paths
    <2>9. /\ counted[p] = r
          /\ marked[p] = IF failed THEN f ELSE r
          /\ \A q \in Path \ {p} : counted[q] = paths[q] /\ marked[q] = paths[q]
      BY DEF Paths
    <2> HIDE DEF counted, marked
    <2>10. /\ h.paths \in {counted, marked}
           /\ h.peer = peer
           /\ h.lost \in BOOLEAN
           /\ ~h.lost => /\ ~(peer >= MaxAssocRetransmissions)
                         /\ h.paths = marked
                         /\ ~(failed /\ Active(marked) = {})
      BY <2>5, <2>7
    <2>11. ASSUME ~h.lost
           PROVE  /\ h.peer < MaxAssocRetransmissions
                  /\ Counts(h.paths)
                  /\ Active(paths) # {} => Active(h.paths) # {}
      <3>1. peer < MaxAssocRetransmissions
        BY <2>6, <2>10, <2>11, PathAssumption
      <3>2. Counts(marked)
        BY <2>4, <2>7, <2>9 DEF Counts
      <3>3. ~failed => Active(marked) = Active(paths)
        BY <2>3, <2>9 DEF Active
      <3> QED  BY <2>7, <2>10, <2>11, <3>1, <3>2, <3>3
    <2>12. \A q \in Path : same(q, h.paths[q])
      <3> SUFFICES ASSUME NEW q \in Path
                   PROVE  same(q, counted[q]) /\ same(q, marked[q])
        BY <2>10
      <3>1. CASE q = p
        BY <2>3, <2>4, <2>9, <3>1
      <3>2. CASE q # p
        BY <2>9, <3>2 DEF same
      <3> QED  BY <3>1, <3>2
    <2> QED  BY <2>6, <2>8, <2>10, <2>11, <2>12 DEF h, same
  <1> QED  BY <1>1, <1>2

\* The association ends: what is left is well-typed.
LEMMA LoseType ==
  ASSUME TypeOK, NEW paths \in Paths, Lose(paths),
         peerRetranscount' \in 0..MaxAssocRetransmissions
  PROVE  PathInv'
  BY DisableAllType DEF PathInv, TypeOK, Lose, Paths, Path

\* An association that stays up, with one path replaced by another that is no worse.
LEMMA KeptType ==
  ASSUME TypeOK, Sound, assoc = "up", assoc' = "up",
         NEW p \in Path, NEW r \in PathData, pathData' = [pathData EXCEPT ![p] = r],
         r.state # "INACTIVE" => r.pathRetranscount < MaxPathRetransmissions,
         pathData[p].state = "ACTIVE" => r.state = "ACTIVE",
         r.heartbeatEnabled => r.hearbeatTimer,
         peerRetranscount' \in {0, peerRetranscount}, primaryPath' \in Path,
         working' \subseteq Path, heartbeats' \subseteq Path, unacked' \subseteq Path
  PROVE  PathInv'
  <1>1. pathData' \in Paths
    BY Replaced DEF TypeOK, Paths
  <1>2. /\ Counts(pathData')
        /\ Active(pathData') # {}
        /\ Beating(pathData')
    BY Replaced DEF TypeOK, Paths, Sound
  <1>3. peerRetranscount' \in 0..MaxAssocRetransmissions /\ peerRetranscount' < MaxAssocRetransmissions
    BY PathAssumption DEF TypeOK, Sound
  <1>4. (Counts(pathData) /\ Active(pathData) # {} /\ Beating(pathData))'
    BY <1>2 DEF Counts, Active, Beating
  <1> QED  BY <1>1, <1>3, <1>4 DEF PathInv, TypeOK, Sound, Paths

-----------------------------------------------------------------------------
(* One lemma for each action that replaces a path or counts an error *)

\* Every way through pm_heartbeatTimer has started the timer again, or ended the association.
LEMMA HeartbeatTimerKeeps ==
  ASSUME PathInv, NEW p \in Path, HeartbeatTimer(p)
  PROVE  PathInv'
  <1> USE DEF Paths
  <1>1. TypeOK /\ Sound /\ assoc = "up"
    BY DEF PathInv, HeartbeatTimer
  <1>2. PICK r \in Expired(pathData[p]) :
          LET expired == [pathData EXCEPT ![p] = r]
              h == IF Unanswered(r) /\ r.state = "ACTIVE"
                   THEN HandleChunksRetransmitted(expired, p)
                   ELSE [paths |-> expired, peer |-> peerRetranscount, lost |-> FALSE]
              send == Idle(h.paths[p])
          IN  /\ peerRetranscount' = h.peer
              /\ IF h.lost
                 THEN Lose(h.paths)
                 ELSE /\ pathData' = [h.paths EXCEPT ![p] = NextInterval(h.paths[p], send)]
                      /\ heartbeats' = IF send /\ p \in working THEN heartbeats \cup {p}
                                       ELSE heartbeats
                      /\ UNCHANGED <<assoc, primaryPath, working, unacked>>
    BY DEF HeartbeatTimer
  <1> DEFINE expired == [pathData EXCEPT ![p] = r]
             h == IF Unanswered(r) /\ r.state = "ACTIVE"
                  THEN HandleChunksRetransmitted(expired, p)
                  ELSE [paths |-> expired, peer |-> peerRetranscount, lost |-> FALSE]
             send == Idle(h.paths[p])
             next == NextInterval(h.paths[p], send)
  <1>3. /\ r \in PathData
        /\ r.state = pathData[p].state
        /\ r.pathRetranscount = pathData[p].pathRetranscount
        /\ ~r.hearbeatTimer \/ r.orphans < MaxOrphans
    <2>1. pathData[p] \in PathData
      BY <1>1 DEF TypeOK
    <2>2. CASE pathData[p].hearbeatTimer /\ r = StopTimer(pathData[p])
      BY <2>1, <2>2, StopTimerType
    <2>3. CASE pathData[p].orphans > 0 /\ r = [pathData[p] EXCEPT !.orphans = pathData[p].orphans - 1]
      <3>1. pathData[p].orphans - 1 \in 0..MaxOrphans /\ pathData[p].orphans - 1 < MaxOrphans
        BY <2>1, <2>3, PathAssumption DEF PathData
      <3> QED  BY <2>1, <2>3, <3>1 DEF PathData
    <2> QED  BY <2>2, <2>3 DEF Expired
  <1>4. /\ expired \in Paths
        /\ Counts(expired)
        /\ Active(expired) # {}
        /\ expired[p] = r
        /\ \A q \in Path \ {p} : expired[q] = pathData[q]
    BY <1>1, <1>3, Replaced DEF TypeOK, Sound, Counts
  <1>5. /\ h.paths \in Paths
        /\ h.peer \in 0..MaxAssocRetransmissions
        /\ ~h.lost => /\ h.peer < MaxAssocRetransmissions
                      /\ Counts(h.paths)
                      /\ Active(h.paths) # {}
        /\ \A q \in Path : /\ h.paths[q].heartbeatEnabled = expired[q].heartbeatEnabled
                           /\ h.paths[q].hearbeatTimer = expired[q].hearbeatTimer
                           /\ h.paths[q].orphans = expired[q].orphans
    <2>1. peerRetranscount \in 0..MaxAssocRetransmissions /\ peerRetranscount < MaxAssocRetransmissions
      BY <1>1 DEF TypeOK, Sound
    <2>2. CASE Unanswered(r) /\ r.state = "ACTIVE"
      <3>1. h = HandleChunksRetransmitted(expired, p)
        BY <2>2
      <3>2. peerRetranscount \in Nat
        BY <2>1, PathAssumption
      <3> HIDE DEF h, expired
      <3> QED  BY <1>4, <2>1, <3>1, <3>2, ErrorCounted
    <2>3. CASE ~(Unanswered(r) /\ r.state = "ACTIVE")
      <3>1. h = [paths |-> expired, peer |-> peerRetranscount, lost |-> FALSE]
        BY <2>3
      <3> HIDE DEF h, expired
      <3> QED  BY <1>4, <2>1, <3>1
    <2> QED  BY <2>2, <2>3
  <1>6. CASE h.lost
    <2>1. Lose(h.paths) /\ peerRetranscount' = h.peer
      BY <1>2, <1>6
    <2> HIDE DEF h
    <2> QED  BY <1>1, <1>5, <2>1, LoseType
  <1>7. CASE ~h.lost
    <2>1. /\ peerRetranscount' = h.peer
          /\ pathData' = [h.paths EXCEPT ![p] = next]
          /\ heartbeats' = IF send /\ p \in working THEN heartbeats \cup {p} ELSE heartbeats
          /\ UNCHANGED <<assoc, primaryPath, working, unacked>>
      BY <1>2, <1>7
    <2>2. send \in BOOLEAN
      BY DEF Idle
    <2> DEFINE x == h.paths[p]
               flags == [x EXCEPT !.heartbeatSent = send, !.heartbeatAcked = FALSE,
                                  !.chunksAcked = FALSE]
    <2>3. /\ x \in PathData
          /\ ~x.hearbeatTimer \/ x.orphans < MaxOrphans
      BY <1>3, <1>4, <1>5
    <2> HIDE DEF send, x
    <2>4. /\ flags \in PathData
          /\ flags.state = x.state /\ flags.pathRetranscount = x.pathRetranscount
          /\ flags.hearbeatTimer = x.hearbeatTimer /\ flags.orphans = x.orphans
          /\ flags.heartbeatEnabled = x.heartbeatEnabled
      BY <2>2, <2>3 DEF PathData
    <2>5. NextInterval(x, send) = IF x.heartbeatEnabled
                                  THEN [StartTimer(flags) EXCEPT !.chunksSent = FALSE] ELSE flags
      BY DEF NextInterval
    <2> HIDE DEF flags
    <2>6. /\ StartTimer(flags) \in PathData
          /\ StartTimer(flags).hearbeatTimer
          /\ StartTimer(flags).state = x.state
          /\ StartTimer(flags).pathRetranscount = x.pathRetranscount
      BY <2>3, <2>4, StartTimerType
    <2>7. /\ NextInterval(x, send) \in PathData
          /\ NextInterval(x, send).state = x.state
          /\ NextInterval(x, send).pathRetranscount = x.pathRetranscount
          /\ NextInterval(x, send).heartbeatEnabled => NextInterval(x, send).hearbeatTimer
      <3>1. CASE x.heartbeatEnabled
        BY <2>5, <2>6, <3>1 DEF PathData
      <3>2. CASE ~x.heartbeatEnabled
        BY <2>4, <2>5, <3>2
      <3> QED  BY <3>1, <3>2
    <2>8. /\ next \in PathData
          /\ next.state = h.paths[p].state
          /\ next.pathRetranscount = h.paths[p].pathRetranscount
          /\ next.heartbeatEnabled => next.hearbeatTimer
      BY <2>7 DEF x
    <2> HIDE DEF next, h
    <2>9. /\ pathData' \in Paths
          /\ Counts(pathData')
          /\ Active(pathData') # {}
      <3>1. h.paths[p].state # "INACTIVE" => h.paths[p].pathRetranscount < MaxPathRetransmissions
        BY <1>5, <1>7 DEF Counts
      <3> QED  BY <1>5, <1>7, <2>1, <2>8, <3>1, Replaced
    <2>10. Beating(pathData')
      <3> SUFFICES ASSUME NEW q \in Path
                   PROVE  pathData'[q].heartbeatEnabled => pathData'[q].hearbeatTimer
        BY DEF Beating
      <3>1. CASE q = p
        BY <1>5, <2>1, <2>8, <3>1
      <3>2. CASE q # p
        <4>1. pathData'[q] = h.paths[q] /\ expired[q] = pathData[q]
          BY <1>4, <1>5, <2>1, <3>2
        <4> QED  BY <1>1, <1>5, <4>1 DEF Sound, Beating
      <3> QED  BY <3>1, <3>2
    <2>11. (Counts(pathData) /\ Active(pathData) # {} /\ Beating(pathData))'
      BY <2>9, <2>10 DEF Counts, Active, Beating
    <2> QED  BY <1>1, <1>5, <1>7, <2>1, <2>9, <2>11 DEF PathInv, TypeOK, Sound
  <1> QED  BY <1>6, <1>7

\* pm_heartbeatAck stops the timer of a path before it starts it, so that none is lost.
LEMMA HeartbeatAckKeeps ==
  ASSUME PathInv, NEW p \in Path, HeartbeatAck(p)
  PROVE  PathInv'
  <1> DEFINE r == pathData[p]
             revived == IF r.state = "ACTIVE" THEN r
                        ELSE [StartTimer(StopTimer(r)) EXCEPT !.state = "ACTIVE"]
             acked == [revived EXCEPT !.heartbeatAcked = TRUE]
             new == [acked EXCEPT !.pathRetranscount = 0]
  <1>1. /\ TypeOK /\ Sound /\ assoc = "up"
        /\ r \in PathData
        /\ r.heartbeatEnabled => r.hearbeatTimer
    BY DEF PathInv, HeartbeatAck, TypeOK, Sound, Beating
  <1>2. /\ pathData' = [[pathData EXCEPT ![p] = acked] EXCEPT ![p].pathRetranscount = 0]
        /\ peerRetranscount' = 0
        /\ heartbeats' \in {heartbeats, heartbeats \ {p}}
        /\ UNCHANGED <<assoc, primaryPath, working, unacked>>
    BY DEF HeartbeatAck, HandleChunksAcked
  <1>3. /\ revived \in PathData
        /\ revived.state = "ACTIVE"
        /\ revived.heartbeatEnabled => revived.hearbeatTimer
    <2>1. CASE r.state = "ACTIVE"
      BY <1>1, <2>1
    <2>2. CASE r.state # "ACTIVE"
      <3>1. StopTimer(r) \in PathData /\ ~StopTimer(r).hearbeatTimer
        BY <1>1, StopTimerType
      <3>2. StartTimer(StopTimer(r)) \in PathData /\ StartTimer(StopTimer(r)).hearbeatTimer
        BY <3>1, StartTimerType
      <3>3. revived = [StartTimer(StopTimer(r)) EXCEPT !.state = "ACTIVE"]
        BY <2>2
      <3> QED  BY <3>2, <3>3 DEF PathData
    <2> QED  BY <2>1, <2>2
  <1> HIDE DEF revived
  <1>4. /\ new \in PathData
        /\ new.state = "ACTIVE" /\ new.pathRetranscount = 0
        /\ new.heartbeatEnabled => new.hearbeatTimer
    BY <1>3, ZeroWithinLimits DEF PathData
  <1>5. pathData' = [pathData EXCEPT ![p] = new]
    BY <1>1, <1>2 DEF TypeOK
  <1> HIDE DEF new
  <1> QED  BY <1>1, <1>2, <1>4, <1>5, KeptType, ZeroWithinLimits DEF TypeOK

\* pm_chunksAcked resets counters of an active path, and leaves others alone.
LEMMA ChunksAckedKeeps ==
  ASSUME PathInv, NEW p \in Path, ChunksAcked(p)
  PROVE  PathInv'
  <1> DEFINE new == [pathData[p] EXCEPT !.chunksAcked = TRUE, !.pathRetranscount = 0]
  <1>1. /\ TypeOK /\ Sound /\ assoc = "up"
        /\ pathData[p] \in PathData
        /\ pathData[p].heartbeatEnabled => pathData[p].hearbeatTimer
    BY DEF PathInv, ChunksAcked, TypeOK, Sound, Beating
  <1>2. /\ unacked' \subseteq Path
        /\ UNCHANGED <<assoc, primaryPath, working, heartbeats>>
    BY <1>1 DEF ChunksAcked, TypeOK
  <1>3. CASE pathData[p].state = "ACTIVE"
    <2>1. pathData' = [pathData EXCEPT ![p] = new] /\ peerRetranscount' = 0
      BY <1>1, <1>3 DEF ChunksAcked, HandleChunksAcked, TypeOK
    <2>2. /\ new \in PathData
          /\ new.state = "ACTIVE" /\ new.pathRetranscount = 0
          /\ new.heartbeatEnabled => new.hearbeatTimer
      BY <1>1, <1>3, ZeroWithinLimits DEF PathData
    <2> HIDE DEF new
    <2> QED  BY <1>1, <1>2, <2>1, <2>2, KeptType, ZeroWithinLimits DEF TypeOK
  <1>4. CASE pathData[p].state # "ACTIVE"
    <2>1. UNCHANGED <<pathData, peerRetranscount>>
      BY <1>4 DEF ChunksAcked
    <2> QED  BY <1>1, <1>2, <2>1 DEF PathInv, TypeOK, Sound, Counts, Active, Beating
  <1> QED  BY <1>3, <1>4

\* fc_timer_cb_t3_timeout counts an error and sends the chunks over a path of the association.
LEMMA T3TimeoutKeeps ==
  ASSUME PathInv, NEW p \in Path, T3Timeout(p)
  PROVE  PathInv'
  <1> USE DEF Paths
  <1> DEFINE h == HandleChunksRetransmitted(pathData, p)
             q == NextActivePath(h.paths, p)
             new == [h.paths[q] EXCEPT !.chunksSent = TRUE]
  <1>1. /\ TypeOK /\ Sound /\ assoc = "up"
        /\ peerRetranscount \in Nat
    BY PathAssumption DEF PathInv, T3Timeout, TypeOK, Sound
  <1>2. /\ h.paths \in Paths
        /\ h.peer \in 0..MaxAssocRetransmissions
        /\ ~h.lost => /\ h.peer < MaxAssocRetransmissions
                      /\ Counts(h.paths)
                      /\ Active(h.paths) # {}
        /\ \A x \in Path : /\ h.paths[x].heartbeatEnabled = pathData[x].heartbeatEnabled
                           /\ h.paths[x].hearbeatTimer = pathData[x].hearbeatTimer
    BY <1>1, ErrorCounted DEF TypeOK, Sound
  <1>3. CASE h.lost
    <2>1. Lose(h.paths) /\ peerRetranscount' = h.peer
      BY <1>3 DEF T3Timeout
    <2> HIDE DEF h
    <2> QED  BY <1>1, <1>2, <2>1, LoseType
  <1>4. CASE ~h.lost
    <2>1. /\ peerRetranscount' = h.peer
          /\ pathData' = [h.paths EXCEPT ![q].chunksSent = TRUE]
          /\ unacked' = (unacked \ {p}) \cup {q}
          /\ UNCHANGED <<assoc, primaryPath, working, heartbeats>>
      BY <1>4 DEF T3Timeout
    <2>2. q \in Path
      BY NextActivePathType
    <2> HIDE DEF h, q
    <2>3. h.paths[q] \in PathData /\ Beating(h.paths)
      BY <1>1, <1>2, <2>2 DEF Sound, Beating
    <2>4. /\ new \in PathData
          /\ new.state = h.paths[q].state
          /\ new.pathRetranscount = h.paths[q].pathRetranscount
          /\ new.heartbeatEnabled => new.hearbeatTimer
      BY <2>2, <2>3 DEF PathData, Beating
    <2>5. pathData' = [h.paths EXCEPT ![q] = new]
      BY <1>2, <2>1
    <2> HIDE DEF new
    <2>6. h.paths[q].state # "INACTIVE" => h.paths[q].pathRetranscount < MaxPathRetransmissions
      BY <1>2, <1>4, <2>2 DEF Counts
    <2>7. /\ pathData' \in Paths
          /\ Counts(pathData')
          /\ Active(pathData') # {}
          /\ Beating(pathData')
      <3> HIDE DEF Paths
      <3> QED  BY <1>2, <1>4, <2>2, <2>3, <2>4, <2>5, <2>6, Replaced
    <2>8. (Counts(pathData) /\ Active(pathData) # {} /\ Beating(pathData))'
      BY <2>7 DEF Counts, Active, Beating
    <2> QED  BY <1>1, <1>2, <1>4, <2>1, <2>2, <2>7, <2>8 DEF PathInv, TypeOK, Sound
  <1> QED  BY <1>3, <1>4

\* pm_enableHB leaves a running timer behind every path it enables.
LEMMA EnableHBKeeps ==
  ASSUME PathInv, NEW p \in Path, EnableHB(p)
  PROVE  PathInv'
  <1> DEFINE r == pathData[p]
             fresh == [StartTimer(r) EXCEPT
                  !.heartbeatEnabled = TRUE, !.pathRetranscount = 0, !.heartbeatSent = FALSE,
                  !.heartbeatAcked = FALSE, !.chunksAcked = FALSE, !.chunksSent = FALSE]
             quiet == [r EXCEPT !.chunksSent = FALSE]
  <1>1. /\ TypeOK /\ Sound /\ assoc = "up"
        /\ r \in PathData
        /\ r.state # "INACTIVE" => r.pathRetranscount < MaxPathRetransmissions
        /\ r.heartbeatEnabled => r.hearbeatTimer
        /\ UNCHANGED <<assoc, primaryPath, working, heartbeats, unacked>>
    BY DEF PathInv, EnableHB, TypeOK, Sound, Beating, Counts
  <1>2. CASE r.heartbeatEnabled
    <2>1. pathData' = [pathData EXCEPT ![p] = quiet] /\ UNCHANGED peerRetranscount
      BY <1>1, <1>2 DEF EnableHB, TypeOK
    <2>2. /\ quiet \in PathData
          /\ quiet.state = r.state /\ quiet.pathRetranscount = r.pathRetranscount
          /\ quiet.heartbeatEnabled => quiet.hearbeatTimer
      BY <1>1 DEF PathData
    <2> HIDE DEF quiet
    <2> QED  BY <1>1, <2>1, <2>2, KeptType DEF TypeOK
  <1>3. CASE ~r.heartbeatEnabled
    <2>1. /\ fresh.orphans <= MaxOrphans
          /\ pathData' = [pathData EXCEPT ![p] = fresh]
          /\ peerRetranscount' = 0
      BY <1>3 DEF EnableHB
    <2>2. StartTimer(r).orphans = fresh.orphans
      BY <1>1 DEF StartTimer, PathData
    <2>3. ~r.hearbeatTimer \/ r.orphans < MaxOrphans
      BY <1>1, <2>1, <2>2, PathAssumption DEF StartTimer, PathData
    <2>4. /\ StartTimer(r) \in PathData
          /\ StartTimer(r).hearbeatTimer
          /\ StartTimer(r).state = r.state
      BY <1>1, <2>3, StartTimerType
    <2>5. /\ fresh \in PathData
          /\ fresh.state = r.state /\ fresh.pathRetranscount = 0
          /\ fresh.hearbeatTimer
      BY <2>4, ZeroWithinLimits DEF PathData
    <2> HIDE DEF fresh
    <2> QED  BY <1>1, <2>1, <2>5, KeptType, ZeroWithinLimits DEF TypeOK
  <1> QED  BY <1>2, <1>3

\* An association that stays up, with a path whose state, counter and timer are as before.
LEMMA FlagKeeps ==
  ASSUME PathInv, assoc = "up", assoc' = "up", NEW p \in Path, NEW r \in PathData,
         pathData' = [pathData EXCEPT ![p] = r],
         r.state = pathData[p].state, r.pathRetranscount = pathData[p].pathRetranscount,
         r.heartbeatEnabled => pathData[p].heartbeatEnabled /\ r.hearbeatTimer = pathData[p].hearbeatTimer,
         UNCHANGED peerRetranscount, primaryPath' \in Path,
         working' \subseteq Path, heartbeats' \subseteq Path, unacked' \subseteq Path
  PROVE  PathInv'
  <1>1. /\ TypeOK /\ Sound
        /\ pathData[p].state # "INACTIVE" => pathData[p].pathRetranscount < MaxPathRetransmissions
        /\ pathData[p].heartbeatEnabled => pathData[p].hearbeatTimer
    BY DEF PathInv, Sound, Counts, Beating
  <1> QED  BY <1>1, KeptType DEF TypeOK

-----------------------------------------------------------------------------
(* The invariant *)

\* Before the association is up it has nothing to keep.
LEMMA InitialPaths == Init => PathInv
  <1> SUFFICES ASSUME Init PROVE PathInv
    OBVIOUS
  <1>1. 0 \in Path
    BY PathAssumption DEF Path
  <1>2. pathData \in [Path -> PathData]
    BY <1>1, NewPathType, DisableHBType DEF Init
  <1> QED  BY <1>1, <1>2, PathAssumption DEF Init, PathInv, TypeOK

\* New paths are sound whichever of them is the primary one.
LEMMA FreshKeeps ==
  ASSUME PathInv, assoc' = "up", peerRetranscount' = 0, NEW primary \in Path,
         primaryPath' = primary, pathData' = [p \in Path |-> NewPath(p, primary)],
         working' \subseteq Path, heartbeats' \subseteq Path, unacked' \subseteq Path
  PROVE  PathInv'
  <1>1. /\ pathData' \in [Path -> PathData]
        /\ \A p \in Path : pathData'[p].pathRetranscount = 0 /\ pathData'[p].hearbeatTimer
        /\ pathData'[primary].state = "ACTIVE"
    BY NewPathType
  <1>2. (Counts(pathData) /\ Active(pathData) # {} /\ Beating(pathData))'
    BY <1>1, PathAssumption DEF Counts, Active, Beating
  <1> QED  BY <1>1, <1>2, PathAssumption DEF PathInv, TypeOK, Sound

\* The invariant is inductive: one case for each action of Next.
LEMMA PathStep == PathInv /\ [Next]_vars => PathInv'
  <1> SUFFICES ASSUME PathInv, [Next]_vars PROVE PathInv'
    OBVIOUS
  <1>1. TypeOK /\ (assoc = "up" => Sound)
    BY DEF PathInv
  <1>2. CASE CommunicationUp
    BY <1>1, <1>2, FreshKeeps DEF CommunicationUp, TypeOK
  <1>3. CASE Restart
    BY <1>1, <1>3, FreshKeeps DEF Restart, TypeOK
  <1>4. CASE End
    BY <1>1, <1>4, LoseType DEF End, TypeOK, Paths
  <1>5. CASE DisableAllHB
    <2>1. /\ pathData' \in Paths /\ Active(pathData') = Active(pathData)
          /\ (assoc = "up" => Counts(pathData')) /\ Beating(pathData')
      BY <1>1, <1>5, DisableAllType DEF DisableAllHB, TypeOK, Sound, Paths
    <2>2. /\ Active(pathData)' = Active(pathData')
          /\ Counts(pathData)' = Counts(pathData') /\ Beating(pathData)' = Beating(pathData')
      BY DEF Active, Counts, Beating
    <2> QED  BY <1>1, <1>5, <2>1, <2>2 DEF DisableAllHB, PathInv, TypeOK, Sound, Paths
  <1>6. CASE DeleteAssociation
    BY <1>1, <1>6, StopTimerType DEF DeleteAssociation, PathInv, TypeOK
  <1>7. CASE SendData
    <2>1. PICK wanted \in Path :
            LET p == IF wanted \in Active(pathData) THEN wanted
                     ELSE NextActivePath(pathData, wanted)
            IN  /\ pathData' = [pathData EXCEPT ![p].chunksSent = TRUE]
                /\ unacked' = unacked \cup {p}
      BY <1>7 DEF SendData
    <2> DEFINE p == IF wanted \in Active(pathData) THEN wanted ELSE NextActivePath(pathData, wanted)
               r == [pathData[p] EXCEPT !.chunksSent = TRUE]
    <2>2. p \in Path
      BY NextActivePathType
    <2>3. pathData' = [pathData EXCEPT ![p] = r] /\ unacked' = unacked \cup {p}
      BY <1>1, <2>1, <2>2 DEF TypeOK
    <2> HIDE DEF p
    <2>4. /\ r \in PathData
          /\ r.state = pathData[p].state /\ r.pathRetranscount = pathData[p].pathRetranscount
          /\ r.heartbeatEnabled = pathData[p].heartbeatEnabled
          /\ r.hearbeatTimer = pathData[p].hearbeatTimer
      BY <1>1, <2>2 DEF TypeOK, PathData
    <2> HIDE DEF r
    <2> QED  BY <1>1, <1>7, <2>2, <2>3, <2>4, FlagKeeps DEF SendData, TypeOK
  <1>8. ASSUME NEW p \in Path,
               \/ HeartbeatTimer(p) \/ TimerAfterEnd(p) \/ HeartbeatAck(p)
               \/ ChunksAcked(p) \/ T3Timeout(p)
               \/ EnableHB(p) \/ DisablePath(p) \/ DoHB(p) \/ SetPrimaryPath(p)
               \/ Fail(p) \/ Recover(p)
        PROVE  PathInv'
    <2>0. pathData[p] \in PathData
      BY <1>1 DEF TypeOK
    <2>1. CASE HeartbeatTimer(p)
      BY <2>1, HeartbeatTimerKeeps
    <2>2. CASE TimerAfterEnd(p)
      <3>1. PICK r \in Expired(pathData[p]) : pathData' = [pathData EXCEPT ![p] = r]
        BY <2>2 DEF TimerAfterEnd
      <3>2. r \in PathData
        BY <2>0, StopTimerType, PathAssumption DEF Expired, PathData
      <3>3. pathData' \in [Path -> PathData]
        BY <1>1, <3>1, <3>2 DEF TypeOK
      <3> QED  BY <1>1, <2>2, <3>3 DEF TimerAfterEnd, PathInv, TypeOK
    <2>3. CASE HeartbeatAck(p)
      BY <2>3, HeartbeatAckKeeps
    <2>4. CASE ChunksAcked(p)
      BY <2>4, ChunksAckedKeeps
    <2>5. CASE T3Timeout(p)
      BY <2>5, T3TimeoutKeeps
    <2>6. CASE EnableHB(p)
      BY <2>6, EnableHBKeeps
    <2>7. CASE DisablePath(p)
      BY <1>1, <2>0, <2>7, DisableHBType, FlagKeeps DEF DisablePath, TypeOK
    <2>8. CASE DoHB(p)
      <3> DEFINE r == [pathData[p] EXCEPT !.heartbeatSent = TRUE]
      <3>1. pathData' = [pathData EXCEPT ![p] = r]
        BY <1>1, <2>8 DEF DoHB, TypeOK
      <3>2. /\ r \in PathData
            /\ r.state = pathData[p].state /\ r.pathRetranscount = pathData[p].pathRetranscount
            /\ r.heartbeatEnabled = pathData[p].heartbeatEnabled
            /\ r.hearbeatTimer = pathData[p].hearbeatTimer
        BY <2>0 DEF PathData
      <3> HIDE DEF r
      <3> QED  BY <1>1, <2>8, <3>1, <3>2, FlagKeeps DEF DoHB, TypeOK
    <2>9. CASE SetPrimaryPath(p)
      <3> DEFINE r == [pathData[p] EXCEPT !.chunksSent = FALSE]
      <3>1. pathData' = [pathData EXCEPT ![p] = r]
        BY <1>1, <2>9 DEF SetPrimaryPath, TypeOK
      <3>2. /\ r \in PathData
            /\ r.state = pathData[p].state /\ r.pathRetranscount = pathData[p].pathRetranscount
            /\ r.heartbeatEnabled = pathData[p].heartbeatEnabled
            /\ r.hearbeatTimer = pathData[p].hearbeatTimer
        BY <2>0 DEF PathData
      <3> HIDE DEF r
      <3> QED  BY <1>1, <2>9, <3>1, <3>2, FlagKeeps DEF SetPrimaryPath, TypeOK
    <2>10. CASE Fail(p)
      BY <1>1, <2>10 DEF Fail, PathInv, TypeOK, Sound, Active, Counts, Beating
    <2>11. CASE Recover(p)
      BY <1>1, <2>11 DEF Recover, PathInv, TypeOK, Sound, Active, Counts, Beating
    <2> QED  BY <1>8, <2>1, <2>2, <2>3, <2>4, <2>5, <2>6, <2>7, <2>8, <2>9, <2>10, <2>11
  <1>9. CASE UNCHANGED vars
    BY <1>1, <1>9 DEF vars, PathInv, TypeOK, Sound, Active, Counts, Beating
  <1> QED  BY <1>2, <1>3, <1>4, <1>5, <1>6, <1>7, <1>8, <1>9 DEF Next

\* The invariant holds in every state the association can reach.
THEOREM PathInvariant == Spec => []PathInv
  BY InitialPaths, PathStep, PTL DEF Spec

\* Every variable keeps its type; in particular no counter passes its limit.
THEOREM PathTypes == Spec => []TypeOK
  <1>1. PathInv => TypeOK
    BY DEF PathInv
  <1> QED  BY <1>1, PathInvariant, PTL

\* Whatever fails, and whatever the ULP switches off, an association that is up has a path
\* its data can be sent on: handleChunksRetransmitted ends it with the last one.
THEOREM PathIsLeft == Spec => []SomePathActive
  <1>1. PathInv => SomePathActive
    BY DEF PathInv, Sound, SomePathActive
  <1> QED  BY <1>1, PathInvariant, PTL

\* No association and no active path is kept beyond its limit of errors.
THEOREM LimitsAreKept == Spec => []WithinLimits
  <1>1. PathInv => WithinLimits
    BY DEF PathInv, Sound, Counts, Active, WithinLimits
  <1> QED  BY <1>1, PathInvariant, PTL

\* The heartbeat of a path stops only when it is disabled.
THEOREM HeartbeatsGoOn == Spec => []HeartbeatGoesOn
  <1>1. PathInv => HeartbeatGoesOn
    BY DEF PathInv, Sound, Beating, HeartbeatGoesOn
  <1> QED  BY <1>1, PathInvariant, PTL
=============================================================================

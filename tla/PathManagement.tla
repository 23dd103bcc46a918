--------------------------- MODULE PathManagement ---------------------------
(***************************************************************************)
(* Path management of one association (sctp/pathmanagement.c): the state   *)
(* and the error counter of each path, the error counter of the peer, and  *)
(* the heartbeat timers.  Time is left out: a timer that runs may fire.    *)
(*                                                                         *)
(* Around it stands what calls it: the ULP, the T3 timer of flow control   *)
(* (fc_timer_cb_t3_timeout), the acknowledgements of reliable transfer,    *)
(* and a network whose paths fail and recover.  A chunk sent over a path   *)
(* that has failed is lost, and so is a heartbeat.                         *)
(***************************************************************************)
EXTENDS Naturals, Functions

CONSTANTS
  NumberOfPaths,           \* currentAssociation->noOfNetworks
  MaxPathRetransmissions,  \* maxPathRetransmissions
  MaxAssocRetransmissions, \* sci_getMaxAssocRetransmissions
  Calls,                   \* what the ULP does: "enable", "disable", "request", "primary"
  Restarts,                \* may the peer restart the association?
  MaxOrphans               \* bound: timers of a path whose identifier is lost

ASSUME PathAssumption ==
  /\ NumberOfPaths \in Nat \ {0} /\ MaxOrphans \in Nat
  /\ MaxPathRetransmissions \in Nat \ {0} /\ MaxAssocRetransmissions \in Nat \ {0}
  /\ Calls \subseteq {"enable", "disable", "request", "primary"} /\ Restarts \in BOOLEAN

VARIABLES
  assoc,             \* "setup": no paths yet; "up"; "deleted": marked; "freed"
  pathData,          \* one record per path
  peerRetranscount,  \* errors on active paths since the last acknowledgement
  primaryPath,
  working,           \* the paths that work
  heartbeats,        \* the paths with a heartbeat, or its acknowledgement, under way
  unacked            \* the paths with data under way, for which T3 runs

vars == <<assoc, pathData, peerRetranscount, primaryPath, working, heartbeats, unacked>>

Path == 0..(NumberOfPaths - 1)

PathData ==
  [state : {"ACTIVE", "INACTIVE", "UNCONFIRMED"},
   heartbeatEnabled : BOOLEAN,
   chunksAcked : BOOLEAN,      \* in this heartbeat interval
   chunksSent : BOOLEAN,
   heartbeatSent : BOOLEAN,
   heartbeatAcked : BOOLEAN,
   pathRetranscount : 0..MaxPathRetransmissions,
   hearbeatTimer : BOOLEAN,    \* the identifier stored is that of a timer in the list
   orphans : 0..MaxOrphans]    \* timers of this path in the list that are stored nowhere

TypeOK ==
  /\ assoc \in {"setup", "up", "deleted", "freed"}
  /\ pathData \in [Path -> PathData]
  /\ peerRetranscount \in 0..MaxAssocRetransmissions
  /\ primaryPath \in Path
  /\ working \subseteq Path /\ heartbeats \subseteq Path /\ unacked \subseteq Path

-----------------------------------------------------------------------------
(* Building blocks *)

\* adl_startTimer: the identifier overwrites what was stored.
StartTimer(r) ==
  [r EXCEPT !.hearbeatTimer = TRUE,
            !.orphans = IF r.hearbeatTimer THEN r.orphans + 1 ELSE r.orphans]

StopTimer(r) == [r EXCEPT !.hearbeatTimer = FALSE]

\* pm_setPaths: the primary path is active, the others have to be probed first.
NewPath(p, primary) ==
  [state |-> IF p = primary THEN "ACTIVE" ELSE "UNCONFIRMED",
   heartbeatEnabled |-> TRUE, chunksAcked |-> FALSE, chunksSent |-> FALSE,
   heartbeatSent |-> FALSE, heartbeatAcked |-> FALSE, pathRetranscount |-> 0,
   hearbeatTimer |-> TRUE, orphans |-> 0]

\* pm_disableHB
DisableHB(r) ==
  IF r.heartbeatEnabled THEN [StopTimer(r) EXCEPT !.heartbeatEnabled = FALSE] ELSE r

\* What mdi_deleteCurrentAssociation does to the paths.
DisableAll(paths) == [p \in Path |-> DisableHB(paths[p])]

Active(paths) == {p \in Path : paths[p].state = "ACTIVE"}

\* fc_getNextActivePath: the first active path after start, in a circle; start itself
\* is the last to be tried and what is returned if there is none.
NextActivePath(paths, start) ==
  LET after(k) == (start + k) % NumberOfPaths
      nearest == {k \in 1..NumberOfPaths :
                    /\ after(k) \in Active(paths)
                    /\ \A j \in 1..(k - 1) : after(j) \notin Active(paths)}
  IN  IF nearest = {} THEN start ELSE after(CHOOSE k \in nearest : TRUE)

\* It does not look for the paths that are left.
HandleChunksRetransmittedFault(paths, p) ==
  LET peer   == IF paths[p].state = "ACTIVE" THEN peerRetranscount + 1 ELSE peerRetranscount
      marked == [paths EXCEPT ![p].pathRetranscount = @ + 1, ![p].state =
                   IF paths[p].pathRetranscount + 1 >= MaxPathRetransmissions
                   THEN "INACTIVE" ELSE @]
  IN  IF paths[p].state = "INACTIVE"
      THEN [paths |-> paths, peer |-> peerRetranscount, lost |-> FALSE]
      ELSE [paths |-> marked, peer |-> peer, lost |-> peer >= MaxAssocRetransmissions]

\* One error too many is allowed.
HandleChunksRetransmittedLateFault(paths, p) ==
  LET peer    == IF paths[p].state = "ACTIVE" THEN peerRetranscount + 1 ELSE peerRetranscount
      counted == [paths EXCEPT ![p].pathRetranscount = @ + 1]
      marked  == IF counted[p].pathRetranscount > MaxPathRetransmissions
                 THEN [counted EXCEPT ![p].state = "INACTIVE"] ELSE counted
  IN  CASE paths[p].state = "INACTIVE" ->
             [paths |-> paths, peer |-> peerRetranscount, lost |-> FALSE]
        [] paths[p].state # "INACTIVE" /\ peer >= MaxAssocRetransmissions ->
             [paths |-> counted, peer |-> peer, lost |-> TRUE]
        [] OTHER ->
             [paths |-> marked, peer |-> peer, lost |-> Active(marked) = {}]

\* handleChunksRetransmitted: one more error on p, which counts for the peer if p is
\* active.  The association is lost if the peer has made too many, or if p was the last
\* path: one that is not active may exceed its limit only while another is.
HandleChunksRetransmitted(paths, p) ==
  LET peer    == IF paths[p].state = "ACTIVE" THEN peerRetranscount + 1 ELSE peerRetranscount
      counted == [paths EXCEPT ![p].pathRetranscount = @ + 1]
      failed  == counted[p].pathRetranscount >= MaxPathRetransmissions
      marked  == IF failed THEN [counted EXCEPT ![p].state = "INACTIVE"] ELSE counted
  IN  CASE paths[p].state = "INACTIVE" ->
             [paths |-> paths, peer |-> peerRetranscount, lost |-> FALSE]
        [] paths[p].state # "INACTIVE" /\ peer >= MaxAssocRetransmissions ->
             [paths |-> counted, peer |-> peer, lost |-> TRUE]
        [] OTHER ->
             [paths |-> marked, peer |-> peer, lost |-> failed /\ Active(marked) = {}]

\* The counter of the peer is not reset.
HandleChunksAckedFault(paths, p) ==
  /\ pathData' = [paths EXCEPT ![p].pathRetranscount = 0]
  /\ UNCHANGED peerRetranscount

\* handleChunksAcked, without the estimate of the round trip time.
HandleChunksAcked(paths, p) ==
  /\ pathData' = [paths EXCEPT ![p].pathRetranscount = 0]
  /\ peerRetranscount' = 0

\* mdi_deleteCurrentAssociation: marked, and no lookup finds it any more.
Lose(paths) ==
  /\ assoc' = "deleted"
  /\ pathData' = DisableAll(paths)
  /\ heartbeats' = {} /\ unacked' = {}
  /\ UNCHANGED <<primaryPath, working>>

-----------------------------------------------------------------------------
(* Life cycle *)

\* mdi_communicationUpNotif.
CommunicationUp ==
  /\ assoc = "setup"
  /\ \E primary \in Path :
       /\ primaryPath' = primary
       /\ pathData' = [p \in Path |-> NewPath(p, primary)]
  /\ assoc' = "up" /\ peerRetranscount' = 0
  /\ UNCHANGED <<working, heartbeats, unacked>>

\* mdi_restartAssociation replaces the path management.  A timer it does not know would
\* go on reading the old one: what then happens is not defined, and not modelled.
Restart ==
  /\ Restarts /\ assoc = "up" /\ \A p \in Path : pathData[p].orphans = 0
  /\ \E primary \in Path :
       /\ primaryPath' = primary
       /\ pathData' = [p \in Path |-> NewPath(p, primary)]
  /\ peerRetranscount' = 0 /\ unacked' = {}
  /\ UNCHANGED <<assoc, working, heartbeats>>

\* The association ends for a reason of its own.
End == assoc = "up" /\ Lose(pathData) /\ UNCHANGED peerRetranscount

\* pm_disableAllHB, when a shutdown starts.
DisableAllHB ==
  /\ assoc = "up" /\ "disable" \in Calls
  /\ pathData' = DisableAll(pathData)
  /\ UNCHANGED <<assoc, peerRetranscount, primaryPath, working, heartbeats, unacked>>

\* sctp_deleteAssociation and pm_deletePathman, which stops the timers it has stored.
DeleteAssociation ==
  /\ assoc = "deleted" /\ assoc' = "freed"
  /\ pathData' = [p \in Path |-> StopTimer(pathData[p])]
  /\ UNCHANGED <<peerRetranscount, primaryPath, working, heartbeats, unacked>>

-----------------------------------------------------------------------------
(* Heartbeats *)

Unanswered(r) == r.heartbeatSent /\ ~r.heartbeatAcked

\* The timer is not started again after an error.
NextIntervalFault(r, send) ==
  LET next == [r EXCEPT !.heartbeatSent = send, !.heartbeatAcked = FALSE,
                        !.chunksAcked = FALSE]
  IN  IF r.heartbeatEnabled /\ ~Unanswered(r)
      THEN [StartTimer(next) EXCEPT !.chunksSent = FALSE] ELSE next

\* The end of pm_heartbeatTimer: the flags of the interval that begins.
NextInterval(r, send) ==
  LET next == [r EXCEPT !.heartbeatSent = send, !.heartbeatAcked = FALSE,
                        !.chunksAcked = FALSE]
  IN  IF r.heartbeatEnabled
      THEN [StartTimer(next) EXCEPT !.chunksSent = FALSE] ELSE next

\* A path that is inactive is not probed.
IdleFault(r) ==
  ~r.chunksAcked /\ r.heartbeatEnabled /\ ~r.chunksSent /\ r.state # "INACTIVE"

Idle(r) == ~r.chunksAcked /\ r.heartbeatEnabled /\ ~r.chunksSent

\* dispatch_timer takes a timer of the path off the list: the one stored, or another.
Expired(r) ==
  (IF r.hearbeatTimer THEN {StopTimer(r)} ELSE {})
    \cup (IF r.orphans > 0 THEN {[r EXCEPT !.orphans = r.orphans - 1]} ELSE {})

\* pm_heartbeatTimer
HeartbeatTimer(p) ==
  /\ assoc = "up"
  /\ \E r \in Expired(pathData[p]) :
       LET expired == [pathData EXCEPT ![p] = r]
           h == IF Unanswered(r) /\ r.state = "ACTIVE"
                THEN HandleChunksRetransmitted(expired, p)
                ELSE [paths |-> expired, peer |-> peerRetranscount, lost |-> FALSE]
           send == Idle(h.paths[p])
       IN  /\ peerRetranscount' = h.peer
           /\ IF h.lost
              THEN Lose(h.paths)
              ELSE /\ pathData' = [h.paths EXCEPT ![p] = NextInterval(h.paths[p], send)]
                   /\ heartbeats' = IF send /\ p \in working THEN heartbeats \cup {p}
                                    ELSE heartbeats
                   /\ UNCHANGED <<assoc, primaryPath, working, unacked>>

\* The timer of an association that is marked finds none, and is not started again.
TimerAfterEnd(p) ==
  /\ assoc = "deleted"
  /\ \E r \in Expired(pathData[p]) : pathData' = [pathData EXCEPT ![p] = r]
  /\ UNCHANGED <<assoc, peerRetranscount, primaryPath, working, heartbeats, unacked>>

\* pm_heartbeatAck: an inactive or unconfirmed path becomes active, and its timer is
\* started anew, whether heartbeats are enabled or not.
HeartbeatAck(p) ==
  LET r == pathData[p]
      revived == IF r.state = "ACTIVE" THEN r
                 ELSE [StartTimer(StopTimer(r)) EXCEPT !.state = "ACTIVE"]
  IN  /\ assoc = "up" /\ p \in heartbeats /\ p \in working
      /\ HandleChunksAcked([pathData EXCEPT ![p] = [revived EXCEPT !.heartbeatAcked = TRUE]], p)
      /\ heartbeats' \in {heartbeats, heartbeats \ {p}}
      /\ UNCHANGED <<assoc, primaryPath, working, unacked>>

-----------------------------------------------------------------------------
(* Data *)

\* A chunk goes to the path the ULP names, or to the primary one, if that is active.
SendData ==
  /\ assoc = "up"
  /\ \E wanted \in Path :
       LET p == IF wanted \in Active(pathData) THEN wanted
                ELSE NextActivePath(pathData, wanted)
       IN  /\ pathData' = [pathData EXCEPT ![p].chunksSent = TRUE]
           /\ unacked' = unacked \cup {p}
  /\ UNCHANGED <<assoc, peerRetranscount, primaryPath, working, heartbeats>>

\* rtx_process_sack: p is the path the SACK came over, not that of the chunks.
ChunksAcked(p) ==
  /\ assoc = "up" /\ p \in working
  /\ \E paths \in SUBSET (unacked \cap working) : paths # {} /\ unacked' = unacked \ paths
  /\ IF pathData[p].state = "ACTIVE"
     THEN HandleChunksAcked([pathData EXCEPT ![p].chunksAcked = TRUE], p)
     ELSE UNCHANGED <<pathData, peerRetranscount>>
  /\ UNCHANGED <<assoc, primaryPath, working, heartbeats>>

\* fc_timer_cb_t3_timeout: pm_chunksRetransmitted, then the chunks are sent again.
T3Timeout(p) ==
  LET h == HandleChunksRetransmitted(pathData, p)
      q == NextActivePath(h.paths, p)
  IN  /\ assoc = "up" /\ p \in unacked
      /\ peerRetranscount' = h.peer
      /\ IF h.lost
         THEN Lose(h.paths)
         ELSE /\ pathData' = [h.paths EXCEPT ![q].chunksSent = TRUE]
              /\ unacked' = (unacked \ {p}) \cup {q}
              /\ UNCHANGED <<assoc, primaryPath, working, heartbeats>>

-----------------------------------------------------------------------------
(* Calls of the ULP *)

\* pm_enableHB.  With heartbeats disabled a timer is started and none is stopped.
EnableHB(p) ==
  LET r == pathData[p]
      fresh == [StartTimer(r) EXCEPT
                  !.heartbeatEnabled = TRUE, !.pathRetranscount = 0, !.heartbeatSent = FALSE,
                  !.heartbeatAcked = FALSE, !.chunksAcked = FALSE, !.chunksSent = FALSE]
  IN  /\ assoc = "up" /\ "enable" \in Calls
      /\ IF r.heartbeatEnabled
         THEN /\ pathData' = [pathData EXCEPT ![p].chunksSent = FALSE]
              /\ UNCHANGED peerRetranscount
         ELSE /\ fresh.orphans <= MaxOrphans
              /\ pathData' = [pathData EXCEPT ![p] = fresh]
              /\ peerRetranscount' = 0
      /\ UNCHANGED <<assoc, primaryPath, working, heartbeats, unacked>>

\* sctp_changeHeartBeat(.., FALSE, ..)
DisablePath(p) ==
  /\ assoc = "up" /\ "disable" \in Calls
  /\ pathData' = [pathData EXCEPT ![p] = DisableHB(pathData[p])]
  /\ UNCHANGED <<assoc, peerRetranscount, primaryPath, working, heartbeats, unacked>>

\* pm_doHB
DoHB(p) ==
  /\ assoc = "up" /\ "request" \in Calls
  /\ pathData' = [pathData EXCEPT ![p].heartbeatSent = TRUE]
  /\ heartbeats' = heartbeats \cup ({p} \cap working)
  /\ UNCHANGED <<assoc, peerRetranscount, primaryPath, working, unacked>>

\* pm_setPrimaryPath refuses a path that is not active.
SetPrimaryPath(p) ==
  /\ assoc = "up" /\ "primary" \in Calls /\ pathData[p].state = "ACTIVE"
  /\ primaryPath' = p
  /\ pathData' = [pathData EXCEPT ![p].chunksSent = FALSE]
  /\ UNCHANGED <<assoc, peerRetranscount, working, heartbeats, unacked>>

-----------------------------------------------------------------------------
(* Environment *)

Fail(p) ==
  /\ assoc = "up" /\ p \in working /\ working' = working \ {p}
  /\ heartbeats' = heartbeats \ {p}
  /\ UNCHANGED <<assoc, pathData, peerRetranscount, primaryPath, unacked>>

Recover(p) ==
  /\ assoc = "up" /\ p \notin working /\ working' = working \cup {p}
  /\ UNCHANGED <<assoc, pathData, peerRetranscount, primaryPath, heartbeats, unacked>>

-----------------------------------------------------------------------------
Init ==
  /\ assoc = "setup"
  /\ pathData = [p \in Path |-> DisableHB(NewPath(p, 0))]
  /\ peerRetranscount = 0
  /\ primaryPath = 0
  /\ working = Path /\ heartbeats = {} /\ unacked = {}

Next ==
  \/ CommunicationUp \/ Restart \/ End \/ DisableAllHB \/ DeleteAssociation \/ SendData
  \/ \E p \in Path :
       \/ HeartbeatTimer(p) \/ TimerAfterEnd(p) \/ HeartbeatAck(p)
       \/ ChunksAcked(p) \/ T3Timeout(p)
       \/ EnableHB(p) \/ DisablePath(p) \/ DoHB(p) \/ SetPrimaryPath(p)
       \/ Fail(p) \/ Recover(p)

Spec == Init /\ [][Next]_vars

\* Heartbeat timers fire, and T3 does for chunks that are lost; a heartbeat over a path
\* that works is answered.
FairSpec ==
  /\ Spec
  /\ \A p \in Path :
       /\ WF_vars(HeartbeatTimer(p))
       /\ WF_vars(p \notin working /\ T3Timeout(p))
       /\ WF_vars(HeartbeatAck(p))

-----------------------------------------------------------------------------
(* Properties *)

\* While the association is up there is a path to send on: the last active one takes the
\* association with it (line 222).
SomePathActive == assoc = "up" => Active(pathData) # {}

\* A path that is declared unreachable has failed as often as it may, and the association
\* is not kept beyond the limit of the peer.
WithinLimits ==
  assoc = "up" =>
    /\ peerRetranscount < MaxAssocRetransmissions
    /\ \A p \in Active(pathData) : pathData[p].pathRetranscount < MaxPathRetransmissions

\* The association is not given up for errors that an acknowledgement has made up for: the
\* counter of the peer never exceeds those of its paths together.
ErrorsCovered ==
  assoc = "up" => peerRetranscount <= SumFunction([p \in Path |-> pathData[p].pathRetranscount])

\* Where heartbeats are enabled the timer that sends them runs: every branch of the
\* callback has started it again, and adl_restartTimer finds it.
HeartbeatGoesOn ==
  assoc = "up" => \A p \in Path : pathData[p].heartbeatEnabled => pathData[p].hearbeatTimer

\* A path that has failed for good does not stay active, whatever is sent over it.
DeadPathIsFound ==
  \A p \in Path :
    <>[](assoc = "up" /\ p \notin working /\ pathData[p].heartbeatEnabled)
    => <>[](pathData[p].state # "ACTIVE")

\* A path that works again is found to be active, without any data sent over it.
WorkingPathIsFound ==
  \A p \in Path :
    <>[](assoc = "up" /\ p \in working /\ pathData[p].heartbeatEnabled)
    => []<>(pathData[p].state = "ACTIVE")
=============================================================================

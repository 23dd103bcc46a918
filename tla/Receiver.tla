------------------------------ MODULE Receiver ------------------------------
(***************************************************************************)
(* What receive control promises, without serial numbers, fragment lists   *)
(* or timers.  The peer numbers the chunks of an association 1, 2, ...     *)
(* Each is handed to the stream engine at most once; the cumulative point  *)
(* is the last number up to which every chunk has come or was given up by  *)
(* the peer; and a SACK tells of no chunk that has not come.               *)
(***************************************************************************)
EXTENDS Integers

CONSTANT Chunks     \* the numbers: 1..n for some n

VARIABLES
  cumulative,   \* every chunk up to this one has come or was given up
  above,        \* the chunks beyond it that have come
  handed,       \* how often each chunk was handed to the stream engine
  told,         \* the cumulative point in the last SACK
  gaps          \* the chunks reported beyond it

vars == <<cumulative, above, handed, told, gaps>>

UpTo(n) == {i \in Chunks : i <= n}

Init ==
  /\ cumulative = 0 /\ above = {}
  /\ handed = [n \in Chunks |-> 0]
  /\ told = 0 /\ gaps = {}

(* The point moves over what is contiguous, and no further. *)
Settle(point, chunks) ==
  /\ cumulative' \in {point} \cup Chunks
  /\ cumulative' >= point
  /\ UpTo(cumulative') \ UpTo(point) \subseteq chunks
  /\ cumulative' + 1 \notin chunks
  /\ above' = {n \in chunks : n > cumulative'}

Accept(n) ==
  /\ n > cumulative /\ n \notin above
  /\ handed' = [handed EXCEPT ![n] = @ + 1]
  /\ Settle(cumulative, above \cup {n})
  /\ UNCHANGED <<told, gaps>>

(* The peer may repeat a chunk it gave up; it is a duplicate then. *)
GiveUp(n) ==
  /\ n > cumulative
  /\ Settle(n, above)
  /\ UNCHANGED <<handed, told, gaps>>

(* A SACK may leave out gaps, for it has room for a few only, and may be    *)
(* older than the last chunk, but not older than the SACK before it.        *)
Acknowledge ==
  /\ told' \in told..cumulative
  /\ gaps' \subseteq above \cup UpTo(cumulative)
  /\ UNCHANGED <<cumulative, above, handed>>

Restart ==
  /\ cumulative' = 0 /\ above' = {}
  /\ handed' = [n \in Chunks |-> 0]
  /\ told' = 0 /\ gaps' = {}

Next ==
  \/ \E n \in Chunks : Accept(n) \/ GiveUp(n)
  \/ Acknowledge
  \/ Restart

Spec == Init /\ [][Next]_vars
=============================================================================

------------------------------ MODULE EventLoop ------------------------------
(***************************************************************************)
(* The event loop and the timers of the library (sctp/adaptation.c,        *)
(* sctp/timer_list.c).  One thread calls sctp_eventLoop or sctp_getEvents  *)
(* over and over: it dispatches the first timer if that is due, or polls   *)
(* the descriptors.  While it is outside or in select() the lock the ULP   *)
(* provides is free, and a second thread may register and unregister       *)
(* descriptors, read from them, and start, stop and restart timers.        *)
(* Callbacks may do the same; so may the second thread while               *)
(* sctp_getEvents dispatches, for it has released the lock by then.        *)
(*                                                                         *)
(* Time is in milliseconds and a timer's is counted from now on; -1 stands *)
(* for all the past.  2^32 timers are not started within the life of an    *)
(* identifier.  Memory is never short, and the clock is not set back.      *)
(***************************************************************************)
EXTENDS Integers, SequencesExt, FiniteSetsExt

CONSTANTS
  Descriptors,   \* all that may be registered
  Sockets,       \* those among them the library reads SCTP packets from
  NUM_FDS,
  Owners,        \* who starts timers, each at most one at a time
  Delays,        \* bound: the times timers are started with
  SelfRestart    \* may a timer be restarted from its own callback?

ASSUME EventLoopAssumption ==
  /\ Sockets \subseteq Descriptors /\ NUM_FDS \in Nat \ {0}
  /\ Delays \subseteq Nat /\ SelfRestart \in BOOLEAN
  /\ IsFiniteSet(Owners)

VARIABLES
  poll_fds,    \* the entries of poll_fds and event_callbacks in use
  ready,       \* the descriptors with data
  failed,      \* the descriptors with an error
  phase,       \* where the thread of the event loop is
  polling,     \* extendedPoll: the function it runs for, the sets of select()
  at,          \* i of dispatch_event
  called,      \* the descriptor whose callback runs, and for which event
  timer_list,
  held,        \* the identifier each owner has
  armed        \* is its timer to go off?  1 and 2 alternate when it is set anew

dispatchVars == <<phase, polling, at, called>>
timerVars == <<timer_list, held, armed>>
vars == <<poll_fds, ready, failed, dispatchVars, timerVars>>

Ids == 1..(2 * Cardinality(Owners) + 1)
Phases == {"out", "select", "returned", "entry", "input", "callback", "timer"}
Callers == {"eventLoop", "getEvents"}
Events == {"POLLIN", "POLLERR"}
NoPoll == [caller |-> "eventLoop", asked |-> {}, input |-> {}, error |-> {}]
NoCall == [fd |-> "none", event |-> "none"]

Entry ==
  [fd : Descriptors, revents : SUBSET Events,
   new : BOOLEAN,    \* its revision is the current one
   seen : BOOLEAN]   \* it had data or an error since it was registered

AlarmTimer ==
  [owner : Owners, id : Ids, left : Int,
   running : BOOLEAN]   \* dispatch_timer has a pointer to it

TypeOK ==
  /\ poll_fds \in Seq(Entry) /\ Len(poll_fds) <= NUM_FDS
  /\ {ready, failed} \subseteq SUBSET Descriptors
  /\ phase \in Phases
  /\ polling \in [caller : Callers, asked : SUBSET Descriptors,
                  input : SUBSET Descriptors, error : SUBSET Descriptors]
  /\ at \in 1..(NUM_FDS + 1)
  /\ called \in [fd : Descriptors, event : Events] \cup {NoCall}
  /\ timer_list \in Seq(AlarmTimer)
  /\ held \in [Owners -> {0} \cup Ids] /\ armed \in [Owners -> 0..2]

Init ==
  /\ poll_fds = <<>> /\ ready = {} /\ failed = {}
  /\ phase = "out" /\ at = 1 /\ called = NoCall
  /\ polling = NoPoll
  /\ timer_list = <<>> /\ held = [k \in Owners |-> 0] /\ armed = [k \in Owners |-> 0]

(* The second thread or a callback may call the library. *)
Unlocked ==
  \/ phase \in {"out", "select", "returned", "callback", "timer"}
  \/ phase \in {"entry", "input"} /\ polling.caller = "getEvents"

-----------------------------------------------------------------------------
(* Timers *)

(* Mutant: a timer is put in front of all others. *)
InsertFault(list, item) == <<item>> \o list

(* g_list_insert_sorted: in front of the timers due at the same time *)
Insert(list, item) ==
  LET later == {i \in DOMAIN list : list[i].left >= item.left}
  IN  InsertAt(list, Min(later \cup {Len(list) + 1}), item)

(* g_list_remove: the first of these items, if there is one *)
Without(list, which) == IF which = {} THEN list ELSE RemoveAt(list, Min(which))

(* Any identifier that is not known to anybody stands for tid++. *)
NewId == Min(Ids \ ({held[k] : k \in Owners} \cup {timer_list[i].id : i \in DOMAIN timer_list}))

CurrentTid ==
  IF \E i \in DOMAIN timer_list : timer_list[i].running
  THEN LET i == CHOOSE i \in DOMAIN timer_list : timer_list[i].running
       IN  timer_list[i].id
  ELSE 0

Again(k) == [armed EXCEPT ![k] = IF @ = 1 THEN 2 ELSE 1]

(* The timer whose callback runs just now *)
Used(k) == held[k] # 0 /\ held[k] = CurrentTid

(* adl_startMicroTimer *)
StartTimer(k, delay) ==
  /\ Unlocked
  /\ armed[k] = 0
  /\ timer_list' = Insert(timer_list, [owner |-> k, id |-> NewId, left |-> delay,
                                       running |-> FALSE])
  /\ held' = [held EXCEPT ![k] = NewId]
  /\ armed' = Again(k)
  /\ UNCHANGED <<poll_fds, ready, failed, dispatchVars>>

RemoveItem(id) == Without(timer_list, {i \in DOMAIN timer_list : timer_list[i].id = id})

(* adl_stopTimer: the timer that is dispatched just now is left alone. *)
StopTimer(k) ==
  /\ Unlocked
  /\ held[k] # 0 /\ ~Used(k)
  /\ timer_list' = RemoveItem(held[k])
  /\ held' = [held EXCEPT ![k] = 0]
  /\ armed' = [armed EXCEPT ![k] = 0]
  /\ UNCHANGED <<poll_fds, ready, failed, dispatchVars>>

(* adl_restartMicroTimer: the same item with a new identifier *)
RestartTimer(k, delay) ==
  /\ Unlocked
  /\ Used(k) => SelfRestart
  /\ \E i \in DOMAIN timer_list :
       /\ timer_list[i].id = held[k]
       /\ timer_list' = Insert(RemoveAt(timer_list, i),
                               [timer_list[i] EXCEPT !.id = NewId, !.left = delay])
  /\ held' = [held EXCEPT ![k] = NewId]
  /\ armed' = Again(k)
  /\ UNCHANGED <<poll_fds, ready, failed, dispatchVars>>

(* get_msecs_to_nexttimer *)
TimerIsDue == timer_list # <<>> /\ timer_list[1].left <= 0

(* dispatch_timer, up to the callback *)
DispatchTimer ==
  /\ timer_list' = [timer_list EXCEPT ![1].running = TRUE]
  /\ armed' = [armed EXCEPT ![timer_list[1].owner] = 0]
  /\ phase' = "timer" /\ polling' = NoPoll /\ at' = 1
  /\ UNCHANGED <<called, held>>

(* remove_timer: the item itself, wherever it is by now *)
RemoveTimer == Without(timer_list, {i \in DOMAIN timer_list : timer_list[i].running})

TimerReturns ==
  /\ phase = "timer"
  /\ timer_list' = RemoveTimer
  /\ phase' = "out"
  /\ UNCHANGED <<poll_fds, ready, failed, polling, at, called, held, armed>>

Tick ==
  /\ timer_list' = [i \in DOMAIN timer_list |->
                      [timer_list[i] EXCEPT !.left = Max({@ - 1, -1})]]
  /\ UNCHANGED <<poll_fds, ready, failed, dispatchVars, held, armed>>

-----------------------------------------------------------------------------
(* Descriptors *)

Registered == {poll_fds[i].fd : i \in DOMAIN poll_fds}

(* Mutant: a new entry does not have the revision of the poll under way. *)
NewEntryFault(f) ==
  [fd |-> f, revents |-> {}, new |-> FALSE, seen |-> f \in ready \cup failed]

(* assign_poll_fd *)
NewEntry(f) ==
  [fd |-> f, revents |-> {}, new |-> TRUE, seen |-> f \in ready \cup failed]

(* adl_register_fd_cb.  No descriptor is registered twice. *)
Register(f) ==
  /\ Unlocked
  /\ f \notin Registered /\ Len(poll_fds) < NUM_FDS
  /\ poll_fds' = Append(poll_fds, NewEntry(f))
  /\ UNCHANGED <<ready, failed, dispatchVars, timerVars>>

(* adl_remove_poll_fd: the entries behind it move up. *)
RemovePollFd(list, f) == Without(list, {i \in DOMAIN list : list[i].fd = f})

Unregister(f) ==
  /\ Unlocked /\ f \in Registered
  /\ poll_fds' = RemovePollFd(poll_fds, f)
  /\ UNCHANGED <<ready, failed, dispatchVars, timerVars>>

Seen(list, f) ==
  [i \in DOMAIN list |-> [list[i] EXCEPT !.seen = @ \/ list[i].fd = f]]

DataArrives(f) ==
  /\ f \notin ready
  /\ ready' = ready \cup {f} /\ poll_fds' = Seen(poll_fds, f)
  /\ UNCHANGED <<failed, dispatchVars, timerVars>>

Fails(f) ==
  /\ f \notin failed \cup Sockets
  /\ failed' = failed \cup {f} /\ poll_fds' = Seen(poll_fds, f)
  /\ UNCHANGED <<ready, dispatchVars, timerVars>>

(* A callback or the second thread reads all there is, or mends the error. *)
Consume(f) ==
  /\ Unlocked /\ f \in (ready \cup failed) \ Sockets
  /\ ready' = ready \ {f} /\ failed' = failed \ {f}
  /\ UNCHANGED <<poll_fds, dispatchVars, timerVars>>

-----------------------------------------------------------------------------
(* The event loop *)

(* adl_extendedEventLoop with a timer that is due *)
LoopTimer ==
  /\ phase = "out" /\ TimerIsDue
  /\ DispatchTimer
  /\ UNCHANGED <<poll_fds, ready, failed>>

(* The function returns, and its variables are gone. *)
Leave == phase' = "out" /\ polling' = NoPoll /\ at' = 1 /\ called' = NoCall

(* Mutant: the entries that are polled stay new. *)
PolledFault(list) == list

Polled(list) == [i \in DOMAIN list |-> [list[i] EXCEPT !.new = FALSE]]

(* extendedPoll up to select(); adl_extendedGetEvents leaves timers alone. *)
StartPoll(caller) ==
  /\ phase = "out" /\ poll_fds # <<>>
  /\ caller = "eventLoop" => ~TimerIsDue
  /\ poll_fds' = Polled(poll_fds)
  /\ polling' = [caller |-> caller, asked |-> Registered, input |-> {}, error |-> {}]
  /\ phase' = "select"
  /\ UNCHANGED <<ready, failed, at, called, timerVars>>

(* What select() finds may be gone before the lock is taken. *)
SelectReturns ==
  /\ phase = "select"
  /\ polling.asked \cap (ready \cup failed) # {}
  /\ polling' = [polling EXCEPT !.input = polling.asked \cap ready,
                                !.error = polling.asked \cap failed]
  /\ phase' = "returned"
  /\ UNCHANGED <<poll_fds, ready, failed, at, called, timerVars>>

WithoutEvents(list) == [i \in DOMAIN list |-> [list[i] EXCEPT !.revents = {}]]

(* The time is over: the event loop looks at the timers. *)
SelectTimesOut ==
  /\ phase = "select"
  /\ polling.asked \cap (ready \cup failed) = {}
  /\ poll_fds' = WithoutEvents(poll_fds)
  /\ UNCHANGED <<ready, failed>>
  /\ IF polling.caller = "eventLoop" /\ TimerIsDue THEN DispatchTimer
     ELSE Leave /\ UNCHANGED timerVars

(* A signal, or a descriptor that is closed *)
SelectFails ==
  /\ phase = "select"
  /\ poll_fds' = WithoutEvents(poll_fds)
  /\ Leave
  /\ UNCHANGED <<ready, failed, timerVars>>

(* extendedPoll with the lock again: a descriptor with a new entry is taken *)
(* out of what select() found.                                              *)
Found(f) ==
  IF \E i \in DOMAIN poll_fds : poll_fds[i].fd = f /\ poll_fds[i].new THEN {}
  ELSE (IF f \in polling.input THEN {"POLLIN"} ELSE {})
       \cup (IF f \in polling.error THEN {"POLLERR"} ELSE {})

PollReturns ==
  /\ phase = "returned"
  /\ poll_fds' = [i \in DOMAIN poll_fds |->
                    [poll_fds[i] EXCEPT !.revents = Found(poll_fds[i].fd)]]
  /\ phase' = "entry" /\ at' = 1
  /\ UNCHANGED <<ready, failed, polling, called, timerVars>>

(* dispatch_event: the next entry *)
NextEntry ==
  /\ phase' = "entry" /\ at' = at + 1
  /\ poll_fds' = [i \in DOMAIN poll_fds |->
                    IF i = at THEN [poll_fds[i] EXCEPT !.revents = {}] ELSE poll_fds[i]]

Call(event) ==
  /\ called' = [fd |-> poll_fds[at].fd, event |-> event]
  /\ phase' = "callback"
  /\ UNCHANGED <<poll_fds, at>>

(* The error is reported first; an entry without an event is passed over. *)
Dispatch ==
  /\ phase = "entry" /\ at \in DOMAIN poll_fds
  /\ IF "POLLERR" \in poll_fds[at].revents THEN Call("POLLERR")
     ELSE IF poll_fds[at].revents = {} THEN NextEntry /\ UNCHANGED called
     ELSE phase' = "input" /\ UNCHANGED <<poll_fds, at, called>>
  /\ UNCHANGED <<ready, failed, polling, timerVars>>

InputReported == at \in DOMAIN poll_fds /\ "POLLIN" \in poll_fds[at].revents

(* Then what arrived on the descriptor whose entry is there now. *)
DispatchInput ==
  /\ phase = "input"
  /\ \/ ~InputReported /\ NextEntry /\ UNCHANGED called
     \/ InputReported /\ poll_fds[at].fd \notin Sockets /\ Call("POLLIN")
  /\ UNCHANGED <<ready, failed, polling, timerVars>>

(* adl_receive_message, from a socket that holds further packets or not *)
Receive(f) ==
  /\ phase = "input" /\ InputReported /\ f \in Sockets /\ poll_fds[at].fd = f
  /\ \/ UNCHANGED ready
     \/ ready' = ready \ {f}
  /\ UNCHANGED <<failed, timerVars>>

ReceivePacket(f) == Receive(f) /\ Call("POLLIN") /\ UNCHANGED polling

(* The datagram is for another port (SCTP over UDP), or recv() failed: the *)
(* descriptors behind this one have to wait for the next poll.             *)
ReceiveNothing(f) ==
  /\ Receive(f)
  /\ Leave /\ UNCHANGED poll_fds

CallbackReturns ==
  /\ phase = "callback"
  /\ called' = NoCall
  /\ IF called.event = "POLLERR" THEN phase' = "input" /\ UNCHANGED <<poll_fds, at>>
     ELSE NextEntry
  /\ UNCHANGED <<ready, failed, polling, timerVars>>

DispatchEnds ==
  /\ phase = "entry" /\ at \notin DOMAIN poll_fds
  /\ Leave
  /\ UNCHANGED <<poll_fds, ready, failed, timerVars>>

-----------------------------------------------------------------------------
Next ==
  \/ \E k \in Owners :
       \/ StopTimer(k)
       \/ \E delay \in Delays : StartTimer(k, delay) \/ RestartTimer(k, delay)
  \/ \E f \in Descriptors :
       \/ Register(f) \/ Unregister(f)
       \/ DataArrives(f) \/ Fails(f) \/ Consume(f)
       \/ ReceivePacket(f) \/ ReceiveNothing(f)
  \/ \E caller \in Callers : StartPoll(caller)
  \/ SelectReturns \/ SelectTimesOut \/ SelectFails \/ PollReturns
  \/ Dispatch \/ DispatchInput \/ CallbackReturns \/ DispatchEnds
  \/ LoopTimer \/ TimerReturns \/ Tick

(* The ULP calls the event loop again and again, and does not only ask for *)
(* events; callbacks return; select() is not interrupted for ever, and not *)
(* every datagram a socket gets is foreign.                                *)
Fairness ==
  /\ SF_vars(LoopTimer) /\ WF_vars(TimerReturns) /\ WF_vars(Tick)
  /\ WF_vars(\E caller \in Callers : StartPoll(caller))
  /\ WF_vars(SelectReturns \/ SelectTimesOut \/ SelectFails) /\ SF_vars(SelectReturns)
  /\ WF_vars(PollReturns \/ Dispatch \/ DispatchInput \/ CallbackReturns \/ DispatchEnds)
  /\ \A f \in Sockets :
       WF_vars(ReceivePacket(f) \/ ReceiveNothing(f)) /\ SF_vars(ReceivePacket(f))

Spec == Init /\ [][Next]_vars /\ Fairness

-----------------------------------------------------------------------------
(* What the comment of extendedPoll promises: no callback runs for an event *)
(* of the time before its descriptor was registered, whoever removed it,    *)
(* emptied it and registered it again while select() ran or while events    *)
(* were dispatched.                                                         *)
NoStaleEvent ==
  \A i \in DOMAIN poll_fds : poll_fds[i].revents # {} => poll_fds[i].seen

(* A timer that was started is on the list under the identifier its owner *)
(* has, until it goes off, is stopped or is started anew.                 *)
ArmedIsListed ==
  \A k \in Owners : armed[k] # 0 =>
    \E i \in DOMAIN timer_list :
      /\ timer_list[i].id = held[k] /\ timer_list[i].owner = k
      /\ ~timer_list[i].running

(* The list stays in the order in which timers are due, whatever timers are *)
(* started and restarted during a callback; only its head is looked at.     *)
DueFirst ==
  \A i, j \in DOMAIN timer_list :
    i < j => timer_list[i].left <= timer_list[j].left

(* No owner keeps another timer waiting: each goes off, unless it is stopped *)
(* or restarted in time.                                                     *)
TimersFire ==
  \A k \in Owners, v \in {1, 2} : armed[k] = v ~> armed[k] # v

(* A descriptor that stays registered and readable is reported, whatever    *)
(* happens to the entries in front of it, if the loop gets to poll at all.  *)
EventsReported ==
  \A f \in Descriptors :
    (<>[](f \in Registered \cap ready) /\ []<>(phase = "select"))
      => []<>(called = [fd |-> f, event |-> "POLLIN"])
=============================================================================

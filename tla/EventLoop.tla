------------------------------ MODULE EventLoop ------------------------------
(***************************************************************************)
(* EventLoop: run_once polls, dispatches the events of the poll, fires the *)
(* timers that are due and runs the deferred callbacks.  Handlers call the *)
(* loop back while it is dispatching: they register and unregister         *)
(* descriptors, add and cancel timers, defer and stop.                     *)
(*                                                                         *)
(* The handlers here are any that keep to the discipline of the servers:   *)
(* a descriptor is unregistered and its handler's destruction, which       *)
(* closes the descriptor, is deferred.  The kernel gives out a number      *)
(* again once it is closed; epoch tells the users of a number apart.       *)
(*                                                                         *)
(* Times are relative to the clock: left is what remains until a timer's   *)
(* deadline, negative when it is overdue.                                  *)
(***************************************************************************)
EXTENDS Integers, Sequences, FiniteSets

CONSTANTS Fd,
          Delay,      \* delays of timers, in ticks
          Milli,      \* ticks in a millisecond, the unit of a poll's timeout
          Cap,        \* max_wait_ms of a run_once outside run()
          MaxLag,     \* bound on how late the loop can be
          MaxEvents,  \* kMaxEvents
          MaxTimers,  \* bound on the timers added
          MaxWork     \* bound on the calls handlers make

ASSUME LoopConstants ==
    /\ Delay \subseteq Nat \ {0} /\ Milli \in Nat \ {0}
    /\ {Cap, MaxLag, MaxEvents, MaxTimers, MaxWork} \subseteq Nat

VARIABLES registrations,     \* interest of each descriptor; {}: not registered
          open, epoch,       \* descriptors in use, and how often each was closed
          timers,            \* timers_: a set of [id, left, interval, repeat]
          cancelled_timers, next_timer_id,
          deferred,          \* descriptors whose handlers are to be destroyed
          running,
          at,                \* where run_once is
          wake,              \* time left until the poll's timeout, or Forever
          batch,             \* events of the poll that were not dispatched yet
          since,             \* time since fire_due_timers read the clock
          calling,           \* the handler that is running
          dead,              \* history: the timers that were cancelled
          work               \* how many calls handlers have made

fdVars == <<registrations, open, epoch, deferred>>
timerVars == <<timers, cancelled_timers, next_timer_id, dead>>
ctlVars == <<at, wake, batch, since, calling>>
loopVars == <<fdVars, timerVars, ctlVars, running, work>>

Interest == {"read", "write"}
Event == {"readable", "writable", "error"}
Timer == [id : Nat \ {0}, left : Int, interval : Delay, repeat : BOOLEAN]
Forever == -1
Left(t, n) == [id |-> t.id, left |-> n, interval |-> t.interval, repeat |-> t.repeat]
NoCall == [kind |-> "none"]
IoCall(e) == [kind |-> "io", event |-> e]
TimerCall(t) == [kind |-> "timer", timer |-> t]

LoopInit ==
    /\ open \in [Fd -> BOOLEAN] /\ epoch = [f \in Fd |-> 0]
    /\ registrations \in [Fd -> {{}, {"read"}}]
    /\ \A f \in Fd : registrations[f] # {} => open[f]
    /\ timers = {} /\ cancelled_timers = {} /\ next_timer_id = 1 /\ dead = {}
    /\ deferred = <<>> /\ running = TRUE
    /\ at = "top" /\ wake = 0 /\ batch = <<>> /\ since = 0 /\ calling = NoCall
    /\ work \in 0..MaxWork

-----------------------------------------------------------------------------
(* run_once.                                                               *)

Live == {t \in timers : t.id \notin cancelled_timers}
Earliest(ts) == {t \in ts : \A u \in ts : t.left <= u.left}

\* `gone` are cancelled timers popped from the head of the heap, which orders
\* equal deadlines anyhow: all before the first live timer.
CancelledHeads(gone) ==
    /\ gone \subseteq timers \ Live
    /\ \A t \in gone, u \in Live : t.left <= u.left
    /\ \A t \in (timers \ Live) \ gone : \E u \in Live : u.left <= t.left

\* compute_timeout_ms rounds up, so that the poll does not end early.
RoundUp(n) == ((n + Milli - 1) \div Milli) * Milli
Untimed(max_wait) == IF max_wait = Forever THEN Forever ELSE max_wait * Milli
Capped(n, max_wait) == IF max_wait # Forever /\ max_wait * Milli < n THEN max_wait * Milli ELSE n

\* Mutant: a deadline that has passed gives a negative, endless wait.
TimeoutPast(ts, max_wait) ==
    IF ts = {} THEN Untimed(max_wait)
    ELSE LET first == (CHOOSE t \in Earliest(ts) : TRUE).left
         IN IF first < 0 THEN Untimed(max_wait) ELSE Capped(RoundUp(first), max_wait)

Timeout(ts, max_wait) ==
    IF ts = {} THEN Untimed(max_wait)
    ELSE LET first == (CHOOSE t \in Earliest(ts) : TRUE).left
         IN IF first <= 0 THEN 0 ELSE Capped(RoundUp(first), max_wait)

\* run() polls without a cap; start and drain call run_once with one.
MaxWait == IF running THEN Forever ELSE Cap

BeginIteration ==
    /\ at = "top"
    /\ \E gone \in SUBSET (timers \ Live) :
          /\ CancelledHeads(gone)
          /\ timers' = timers \ gone
          /\ cancelled_timers' = cancelled_timers \ {t.id : t \in gone}
          /\ wake' = Timeout(timers \ gone, MaxWait)
    /\ at' = "poll"
    /\ UNCHANGED <<fdVars, next_timer_id, dead, batch, since, calling, running, work>>

\* backend_poll returns these events; none when the wait is over or interrupted.
\* Its other errors (EBADF, EINVAL, EFAULT) are of an epoll descriptor or a
\* buffer that the loop owns; they end run() and are left out.
Poll(events) ==
    /\ at = "poll"
    /\ at' = "io" /\ batch' = events /\ wake' = 0
    /\ UNCHANGED <<fdVars, timerVars, since, calling, running, work>>

\* The events a poll can report: of registered descriptors, each once.
Pollable == {f \in Fd : registrations[f] # {}}
Polled(events) ==
    /\ \A i \in DOMAIN events : /\ events[i].fd \in Pollable
                                /\ events[i].epoch = epoch[events[i].fd]
    /\ \A i, j \in DOMAIN events : events[i].fd = events[j].fd => i = j

\* Mutant: the registration is not looked at again.
DispatchUnchecked ==
    /\ at = "io" /\ calling = NoCall /\ batch # <<>>
    /\ batch' = Tail(batch)
    /\ calling' = IoCall(Head(batch))
    /\ UNCHANGED <<fdVars, timerVars, at, wake, since, running, work>>

\* dispatch_io: the event of a descriptor that was removed meanwhile is dropped.
Dispatch ==
    /\ at = "io" /\ calling = NoCall /\ batch # <<>>
    /\ batch' = Tail(batch)
    /\ calling' = IF registrations[Head(batch).fd] # {} THEN IoCall(Head(batch)) ELSE NoCall
    /\ UNCHANGED <<fdVars, timerVars, at, wake, since, running, work>>

EndOfBatch ==
    /\ at = "io" /\ calling = NoCall /\ batch = <<>>
    /\ at' = "timers" /\ since' = 0
    /\ UNCHANGED <<fdVars, timerVars, wake, batch, calling, running, work>>

\* Due by the clock as fire_due_timers read it.
Due == {t \in timers : t.left + since <= 0}

\* One turn of fire_due_timers with the head of the heap.
Fires(t) ==
    /\ timers' = timers \ {t}
    /\ IF t.id \in cancelled_timers
       THEN cancelled_timers' = cancelled_timers \ {t.id} /\ UNCHANGED calling
       ELSE calling' = TimerCall(t) /\ UNCHANGED cancelled_timers

FireTimer ==
    /\ at = "timers" /\ calling = NoCall
    /\ \E t \in Earliest(timers) : t \in Due /\ Fires(t)
    /\ UNCHANGED <<fdVars, next_timer_id, dead, at, wake, batch, since, running, work>>

\* Mutant: a repeating timer is scheduled again although its handler has
\* cancelled it.
TimerReturnsAgain(t) ==
    /\ timers' = IF t.repeat THEN timers \union {Left(t, t.interval - since)} ELSE timers
    /\ cancelled_timers' = cancelled_timers \ {t.id}

\* on_timer has returned: a repeating timer is scheduled again unless its
\* handler cancelled it.
TimerReturns(t) ==
    IF ~t.repeat THEN UNCHANGED <<timers, cancelled_timers>>
    ELSE IF t.id \in cancelled_timers
    THEN cancelled_timers' = cancelled_timers \ {t.id} /\ UNCHANGED timers
    ELSE /\ timers' = timers \union {Left(t, t.interval - since)}
         /\ UNCHANGED cancelled_timers

Return ==
    /\ calling # NoCall /\ calling' = NoCall
    /\ IF calling.kind = "timer" THEN TimerReturns(calling.timer)
                                 ELSE UNCHANGED <<timers, cancelled_timers>>
    /\ UNCHANGED <<fdVars, next_timer_id, dead, at, wake, batch, since, running, work>>

EndOfTimers ==
    /\ at = "timers" /\ calling = NoCall
    /\ \A t \in Earliest(timers) : t \notin Due
    /\ at' = "deferred" /\ since' = 0
    /\ UNCHANGED <<fdVars, timerVars, wake, batch, calling, running, work>>

Destroyed(f) == \E i \in DOMAIN deferred : deferred[i] = f

\* run_deferred: the handlers are destroyed and their descriptors closed.
RunDeferred ==
    /\ at = "deferred"
    /\ open' = [f \in Fd |-> open[f] /\ ~Destroyed(f)]
    /\ epoch' = [f \in Fd |-> IF Destroyed(f) THEN epoch[f] + 1 ELSE epoch[f]]
    /\ deferred' = <<>> /\ at' = "top"
    /\ UNCHANGED <<registrations, timerVars, wake, batch, since, calling, running, work>>

\* Time passes.
Tick ==
    /\ \A t \in timers : t.left > -MaxLag
    /\ at = "timers" => since < MaxLag
    /\ timers' = {Left(t, t.left - 1) : t \in timers}
    /\ since' = IF at = "timers" THEN since + 1 ELSE since
    /\ wake' = IF wake > 0 THEN wake - 1 ELSE wake
    /\ UNCHANGED <<fdVars, cancelled_timers, next_timer_id, dead, at, batch, calling, running, work>>

Iteration ==
    \/ BeginIteration \/ Dispatch \/ EndOfBatch \/ FireTimer \/ EndOfTimers \/ RunDeferred

-----------------------------------------------------------------------------
(* What a handler can do.                                                  *)

Calls == calling # NoCall /\ work < MaxWork /\ work' = work + 1

\* A handler for descriptor f, which the kernel has just opened, is added.
AddFd(f) ==
    /\ Calls /\ ~open[f]
    /\ registrations' = [registrations EXCEPT ![f] = {"read"}]
    /\ open' = [open EXCEPT ![f] = TRUE]
    /\ UNCHANGED <<epoch, deferred, timerVars, ctlVars, running>>

\* add, modify or remove, of a descriptor that stays open.
SetInterest(f, interest) ==
    /\ Calls /\ open[f] /\ ~Destroyed(f) /\ registrations[f] # interest
    /\ registrations' = [registrations EXCEPT ![f] = interest]
    /\ UNCHANGED <<open, epoch, deferred, timerVars, ctlVars, running>>

\* Mutant: the handler is destroyed, and the descriptor closed, at once.
RemovedAtOnce(f) ==
    /\ registrations' = [registrations EXCEPT ![f] = {}]
    /\ open' = [open EXCEPT ![f] = FALSE] /\ epoch' = [epoch EXCEPT ![f] = @ + 1]
    /\ UNCHANGED deferred

\* remove, and defer of the destruction.
Removed(f) ==
    /\ registrations' = [registrations EXCEPT ![f] = {}]
    /\ deferred' = Append(deferred, f)
    /\ UNCHANGED <<open, epoch>>

CloseFd(f) ==
    /\ Calls /\ registrations[f] # {}
    /\ Removed(f)
    /\ UNCHANGED <<timerVars, ctlVars, running>>

\* Delays are positive, as the options allow no others: fire_due_timers would
\* find a repeating timer of delay 0 due again for ever.
AddTimer(delay, repeat) ==
    /\ Calls /\ next_timer_id <= MaxTimers
    /\ timers' = timers \union {[id |-> next_timer_id, left |-> delay, interval |-> delay,
                                 repeat |-> repeat]}
    /\ next_timer_id' = next_timer_id + 1
    /\ UNCHANGED <<fdVars, cancelled_timers, dead, ctlVars, running>>

\* Also of a timer that has fired, or that was cancelled already.
CancelTimer(id) ==
    /\ Calls /\ id < next_timer_id
    /\ cancelled_timers' = cancelled_timers \union {id}
    /\ dead' = dead \union {id}
    /\ UNCHANGED <<fdVars, timers, next_timer_id, ctlVars, running>>

Stop ==
    /\ Calls /\ running
    /\ running' = FALSE
    /\ UNCHANGED <<fdVars, timerVars, ctlVars>>

HandlerCall ==
    \/ \E f \in Fd : AddFd(f) \/ CloseFd(f) \/ \E i \in SUBSET Interest : SetInterest(f, i)
    \/ \E d \in Delay, r \in BOOLEAN : AddTimer(d, r)
    \/ \E id \in 1..MaxTimers : CancelTimer(id)
    \/ Stop

Events == [fd : Fd, events : SUBSET Event \ {{}}, epoch : Nat]

LoopNext ==
    \/ Iteration \/ Tick \/ Return \/ HandlerCall
    \/ \E events \in Seq(Events) : Polled(events) /\ Len(events) <= MaxEvents /\ Poll(events)

LoopSpec == LoopInit /\ [][LoopNext]_loopVars

-----------------------------------------------------------------------------
(* Properties.                                                             *)

\* A cancelled timer does not fire: not when it was due already, not when it
\* repeats, not when its own handler cancelled it.
CancelledNeverFires ==
    [][calling'.kind = "timer" /\ calling' # calling => calling'.timer.id \notin dead]_loopVars

\* An event is handed to the handler that was registered when the poll reported
\* it: never to a later user of the same number, and never to a handler that an
\* earlier event of the batch has closed and that waits for its destruction.
EventsReachTheirHandler ==
    [][calling'.kind = "io" /\ calling' # calling =>
          LET e == calling'.event
          IN open[e.fd] /\ epoch[e.fd] = e.epoch /\ ~Destroyed(e.fd)]_loopVars

\* A timer that is due and not cancelled fires.
IsDue(id) == \E t \in Live : t.id = id /\ t.left <= 0
DueTimersFire ==
    \A id \in 1..MaxTimers : IsDue(id) ~> ~IsDue(id)
=============================================================================

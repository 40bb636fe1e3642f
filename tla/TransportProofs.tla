-------------------------- MODULE TransportProofs ---------------------------
(***************************************************************************)
(* What carries the server's work to its helpers, for every value of the   *)
(* bounds: the event loop, the outbox of the storage client, and the       *)
(* stream of the market-data feed.                                         *)
(***************************************************************************)
EXTENDS EventLoop, StorageOutbox, FeedStream, TLAPS

-----------------------------------------------------------------------------
(***************************************************************************)
(* For any descriptors, delays and bounds, and handlers that call the loop *)
(* back in any way: a cancelled timer does not fire, and an event reaches  *)
(* the handler that was registered when the poll reported it.              *)
(***************************************************************************)

Place == {"top", "poll", "io", "timers", "deferred"}
IoCalls == [kind : {"io"}, event : Events]
TimerCalls == [kind : {"timer"}, timer : Timer]

LoopTypeOK ==
    /\ registrations \in [Fd -> SUBSET Interest]
    /\ open \in [Fd -> BOOLEAN] /\ epoch \in [Fd -> Nat]
    /\ timers \subseteq Timer /\ cancelled_timers \subseteq Nat /\ dead \subseteq Nat
    /\ next_timer_id \in Nat \ {0}
    /\ deferred \in Seq(Fd) /\ batch \in Seq(Events)
    /\ at \in Place /\ since \in Nat
    /\ calling \in {NoCall} \union IoCalls \union TimerCalls

\* A timer that was cancelled is marked as long as it can still be found: in
\* the heap, or in the hand of fire_due_timers, which may schedule it again.
\* Ids are not reused, so taking a mark away touches one timer.
CancelInv ==
    /\ \A t \in timers : t.id < next_timer_id /\ (t.id \in dead => t.id \in cancelled_timers)
    /\ \A t, u \in timers : t.id = u.id => t = u
    /\ \A i \in dead : i < next_timer_id
    /\ calling.kind = "timer" =>
          /\ calling.timer.id < next_timer_id
          /\ calling.timer.id \in dead => calling.timer.id \in cancelled_timers
          /\ \A t \in timers : t.id # calling.timer.id

\* Descriptors are closed only between the deferred callbacks and the next
\* poll, when no event waits and no handler runs.
DispatchInv ==
    /\ \A f \in Fd : registrations[f] # {} => open[f]
    /\ \A i \in DOMAIN deferred : open[deferred[i]] /\ registrations[deferred[i]] = {}
    /\ at # "io" => batch = <<>>
    /\ \A i \in DOMAIN batch : batch[i].epoch = epoch[batch[i].fd]
    /\ at \in {"top", "poll", "deferred"} => calling = NoCall
    /\ calling.kind = "io" => /\ at = "io" /\ open[calling.event.fd]
                              /\ epoch[calling.event.fd] = calling.event.epoch

LoopInv == LoopTypeOK /\ CancelInv /\ DispatchInv

USE DEF NoCall, IoCall, TimerCall, Interest

\* The three parts of a handler's result are told apart by their kind.
LEMMA CallKinds ==
    ASSUME LoopTypeOK
    PROVE  /\ calling.kind \in {"none", "io", "timer"}
           /\ calling.kind = "io" => calling.event \in Events
           /\ calling.kind = "timer" => calling.timer \in Timer
           /\ calling = NoCall <=> calling.kind = "none"
BY DEF LoopTypeOK, IoCalls, TimerCalls, Events, Timer

\* The loop starts with nothing scheduled, deferred or dispatched.
LEMMA InitInv == LoopInit => LoopInv
BY LoopConstants DEF LoopInit, LoopInv, LoopTypeOK, CancelInv, DispatchInv, Place

\* compute_timeout_ms pops cancelled timers, and their marks with them.
LEMMA BeginStep == ASSUME LoopInv, BeginIteration PROVE LoopInv'
<1>1. LoopTypeOK'
  BY Zenon DEF LoopInv, LoopTypeOK, BeginIteration, fdVars, Place
<1>2. CancelInv'
  BY DEF LoopInv, LoopTypeOK, CancelInv, BeginIteration, Timer
<1>3. DispatchInv'
  BY Zenon DEF LoopInv, DispatchInv, BeginIteration, fdVars
<1>4. QED BY <1>1, <1>2, <1>3, Zenon DEF LoopInv

\* The poll reports registered descriptors under the epoch they have.
LEMMA PollStep ==
    ASSUME LoopInv, NEW events \in Seq(Events), Polled(events), Poll(events) PROVE LoopInv'
<1>1. LoopTypeOK'
  BY Zenon DEF LoopInv, LoopTypeOK, Poll, fdVars, timerVars, Place
<1>2. CancelInv'
  BY Zenon DEF LoopInv, CancelInv, Poll, timerVars
<1>3. DispatchInv'
  BY Zenon DEF LoopInv, DispatchInv, Poll, Polled, fdVars
<1>4. QED BY <1>1, <1>2, <1>3, Zenon DEF LoopInv

\* dispatch_io calls the handler that is registered for the event it takes.
LEMMA DispatchStep == ASSUME LoopInv, Dispatch PROVE LoopInv'
<1>1. /\ Head(batch) \in Events /\ Tail(batch) \in Seq(Events)
      /\ \A i \in DOMAIN Tail(batch) : i + 1 \in DOMAIN batch /\ Tail(batch)[i] = batch[i + 1]
      /\ 1 \in DOMAIN batch /\ Head(batch) = batch[1]
  BY DEF LoopInv, LoopTypeOK, Dispatch
<1>2. LoopTypeOK'
  BY <1>1, Zenon DEF LoopInv, LoopTypeOK, Dispatch, fdVars, timerVars, IoCalls
<1>3. CancelInv'
  BY Zenon DEF LoopInv, CancelInv, Dispatch, timerVars
<1>4. DispatchInv'
  <2>1. \A i \in DOMAIN Tail(batch) : Tail(batch)[i].epoch = epoch[Tail(batch)[i].fd]
    BY <1>1, Zenon DEF LoopInv, DispatchInv
  <2>2. Head(batch).fd \in Fd /\ Head(batch).epoch = epoch[Head(batch).fd]
    BY <1>1 DEF LoopInv, DispatchInv, Events
  <2>3. QED BY <2>1, <2>2, Zenon DEF LoopInv, DispatchInv, Dispatch, fdVars
<1>5. QED BY <1>2, <1>3, <1>4, Zenon DEF LoopInv

\* A timer is called from the heap only when it carries no mark.
LEMMA FireStep == ASSUME LoopInv, FireTimer PROVE LoopInv'
<1>1. PICK t \in Earliest(timers) : Fires(t)
  BY Zenon DEF FireTimer
<1>2. t \in timers /\ t \in Timer
  BY <1>1, Zenon DEF Earliest, LoopInv, LoopTypeOK
<1>3. LoopTypeOK'
  <2>1. TimerCall(t) \in TimerCalls
    BY <1>2, Zenon DEF TimerCalls
  <2>2. /\ timers' \subseteq Timer /\ cancelled_timers' \subseteq Nat
        /\ calling' \in {NoCall} \union IoCalls \union TimerCalls
    BY <1>1, <2>1, Zenon DEF LoopInv, LoopTypeOK, Fires
  <2>3. QED BY <2>2, Zenon DEF LoopInv, LoopTypeOK, FireTimer, fdVars
<1>4. CancelInv'
  BY <1>1, <1>2 DEF LoopInv, LoopTypeOK, CancelInv, FireTimer, Fires, Timer
<1>5. DispatchInv'
  BY <1>1 DEF LoopInv, DispatchInv, FireTimer, Fires, fdVars
<1>6. QED BY <1>3, <1>4, <1>5, Zenon DEF LoopInv

\* A repeating timer goes back to the heap only when its handler did not
\* cancel it.
LEMMA ReturnStep == ASSUME LoopInv, Return PROVE LoopInv'
<1> DEFINE t == calling.timer
           again == Left(t, t.interval - since)
<1>1. ASSUME calling.kind = "timer" PROVE t \in Timer /\ again \in Timer /\ again.id = t.id
  <2>1. t \in Timer
    BY <1>1, CallKinds, Zenon DEF LoopInv
  <2>2. t.interval - since \in Int
    <3>1. t.interval \in Delay /\ since \in Nat
      BY <2>1, Zenon DEF LoopInv, LoopTypeOK, Timer
    <3>2. \A d \in Delay : d \in Int
      BY LoopConstants
    <3>3. t.interval \in Int
      BY <3>1, <3>2, Zenon
    <3> HIDE DEF t
    <3>4. QED BY <3>1, <3>3
  <2>3. QED BY <2>1, <2>2, Zenon DEF Timer, Left
<1>2. \/ UNCHANGED <<timers, cancelled_timers>>
      \/ /\ calling.kind = "timer" /\ t.id \in cancelled_timers
         /\ cancelled_timers' = cancelled_timers \ {t.id} /\ timers' = timers
      \/ /\ calling.kind = "timer" /\ t.id \notin cancelled_timers
         /\ timers' = timers \union {again} /\ cancelled_timers' = cancelled_timers
  BY Zenon DEF Return, TimerReturns
<1>3. LoopTypeOK'
  BY <1>1, <1>2, Zenon DEF LoopInv, LoopTypeOK, Return, fdVars
<1>4. CancelInv'
  BY <1>1, <1>2, Zenon DEF LoopInv, LoopTypeOK, CancelInv, Return, Timer
<1>5. DispatchInv'
  BY Zenon DEF LoopInv, DispatchInv, Return, fdVars
<1>6. QED BY <1>3, <1>4, <1>5, Zenon DEF LoopInv

\* run_deferred closes descriptors while no event or handler refers to one.
LEMMA DeferredStep == ASSUME LoopInv, RunDeferred PROVE LoopInv'
<1>1. LoopTypeOK'
  BY DEF LoopInv, LoopTypeOK, RunDeferred, timerVars, Place
<1>2. CancelInv'
  BY Zenon DEF LoopInv, CancelInv, RunDeferred, timerVars
<1>3. DispatchInv'
  BY DEF LoopInv, LoopTypeOK, DispatchInv, RunDeferred, Destroyed
<1>4. QED BY <1>1, <1>2, <1>3, Zenon DEF LoopInv

\* The steps between the phases of run_once.
LEMMA PhaseStep == ASSUME LoopInv, EndOfBatch \/ EndOfTimers PROVE LoopInv'
<1>1. LoopTypeOK'
  <2>1. at' \in Place /\ since' \in Nat
    BY DEF EndOfBatch, EndOfTimers, Place
  <2>2. UNCHANGED <<fdVars, timerVars, batch, calling>>
    BY Zenon DEF EndOfBatch, EndOfTimers
  <2>3. QED BY <2>1, <2>2, Zenon DEF LoopInv, LoopTypeOK, fdVars, timerVars
<1>2. CancelInv'
  BY Zenon DEF LoopInv, CancelInv, EndOfBatch, EndOfTimers, timerVars
<1>3. DispatchInv'
  BY DEF LoopInv, DispatchInv, EndOfBatch, EndOfTimers, fdVars
<1>4. QED BY <1>1, <1>2, <1>3, Zenon DEF LoopInv

\* Time passes for every timer alike, and no id changes.
LEMMA TickStep == ASSUME LoopInv, Tick PROVE LoopInv'
<1>1. \A t \in timers : Left(t, t.left - 1) \in Timer /\ Left(t, t.left - 1).id = t.id
  BY DEF LoopInv, LoopTypeOK, Timer, Left
<1>2. LoopTypeOK'
  BY <1>1 DEF LoopInv, LoopTypeOK, Tick, fdVars
<1>3. CancelInv'
  BY <1>1 DEF LoopInv, CancelInv, Tick
<1>4. DispatchInv'
  BY Zenon DEF LoopInv, DispatchInv, Tick, fdVars
<1>5. QED BY <1>2, <1>3, <1>4, Zenon DEF LoopInv

\* Whatever a running handler calls: registrations change under the events
\* that wait, but no descriptor is closed.
LEMMA FdCallStep ==
    ASSUME LoopInv, NEW f \in Fd,
           AddFd(f) \/ CloseFd(f) \/ \E i \in SUBSET Interest : SetInterest(f, i)
    PROVE  LoopInv'
<1>1. CASE AddFd(f)
  BY <1>1 DEF LoopInv, LoopTypeOK, CancelInv, DispatchInv, AddFd, timerVars, ctlVars
<1>2. CASE CloseFd(f)
  BY <1>2, SMTT(30) DEF LoopInv, LoopTypeOK, CancelInv, DispatchInv, CloseFd, Removed, timerVars, ctlVars
<1>3. CASE \E i \in SUBSET Interest : SetInterest(f, i)
  BY <1>3 DEF LoopInv, LoopTypeOK, CancelInv, DispatchInv, SetInterest, Destroyed, timerVars, ctlVars
<1>4. QED BY <1>1, <1>2, <1>3, Zenon

\* A new timer has an id that no cancelled one had.
LEMMA TimerCallStep ==
    ASSUME LoopInv,
           \/ \E d \in Delay, r \in BOOLEAN : AddTimer(d, r)
           \/ \E id \in 1..MaxTimers : CancelTimer(id)
           \/ Stop
    PROVE  LoopInv'
<1>1. ASSUME NEW d \in Delay, NEW r \in BOOLEAN, AddTimer(d, r) PROVE LoopInv'
  <2>1. LoopTypeOK'
    <3> DEFINE new == [id |-> next_timer_id, left |-> d, interval |-> d, repeat |-> r]
    <3>1. d \in Nat /\ next_timer_id \in Nat \ {0}
      BY LoopConstants, Zenon DEF LoopInv, LoopTypeOK
    <3>2. new \in Timer
      BY <3>1 DEF Timer
    <3>3. timers' = timers \union {new} /\ next_timer_id' = next_timer_id + 1
      BY <1>1, Zenon DEF AddTimer
    <3>4. UNCHANGED <<fdVars, cancelled_timers, dead, ctlVars>>
      BY <1>1, Zenon DEF AddTimer
    <3> HIDE DEF new
    <3>5. timers' \subseteq Timer /\ next_timer_id' \in Nat \ {0}
      BY <3>1, <3>2, <3>3 DEF LoopInv, LoopTypeOK
    <3>6. QED BY <3>4, <3>5, Zenon DEF LoopInv, LoopTypeOK, fdVars, ctlVars
  <2>2. CancelInv'
    <3> DEFINE new == [id |-> next_timer_id, left |-> d, interval |-> d, repeat |-> r]
    <3>1. new.id = next_timer_id /\ timers' = timers \union {new} /\ next_timer_id' = next_timer_id + 1
          /\ UNCHANGED <<cancelled_timers, dead, calling>>
      BY <1>1, Zenon DEF AddTimer, ctlVars
    <3>2. /\ next_timer_id \in Nat /\ \A t \in timers : t.id \in Nat
          /\ calling.kind = "timer" => calling.timer.id \in Nat
      BY CallKinds, Zenon DEF LoopInv, LoopTypeOK, Timer
    <3> HIDE DEF new
    <3>3. QED BY <3>1, <3>2 DEF LoopInv, LoopTypeOK, CancelInv
  <2>3. DispatchInv'
    BY <1>1, Zenon DEF LoopInv, DispatchInv, AddTimer, fdVars, ctlVars
  <2>4. QED BY <2>1, <2>2, <2>3, Zenon DEF LoopInv
<1>2. ASSUME NEW id \in 1..MaxTimers, CancelTimer(id) PROVE LoopInv'
  <2>1. id \in Nat BY LoopConstants
  <2>2. QED BY <1>2, <2>1, Zenon DEF LoopInv, LoopTypeOK, CancelInv, DispatchInv, CancelTimer, fdVars, ctlVars
<1>3. CASE Stop
  BY <1>3, Zenon DEF LoopInv, LoopTypeOK, CancelInv, DispatchInv, Stop, fdVars, timerVars, ctlVars
<1>4. QED BY <1>1, <1>2, <1>3, Zenon

\* Every step of the loop, and every call a handler makes into it, preserves
\* the invariant.
LEMMA NextInv == ASSUME LoopInv, [LoopNext]_loopVars PROVE LoopInv'
<1>1. CASE UNCHANGED loopVars
  BY <1>1, Zenon DEF LoopInv, LoopTypeOK, CancelInv, DispatchInv, loopVars, fdVars, timerVars, ctlVars
<1>2. CASE LoopNext
  BY <1>2, BeginStep, PollStep, DispatchStep, FireStep, ReturnStep, DeferredStep, PhaseStep,
     TickStep, FdCallStep, TimerCallStep, Zenon DEF LoopNext, Iteration, HandlerCall
<1>3. QED BY <1>1, <1>2, Zenon

\* Throughout run(), cancelled timers are marked while they can still be found
\* and the events of a poll name descriptors that have not been closed since.
THEOREM LoopInvariant == LoopSpec => []LoopInv
BY InitInv, NextInv, PTL DEF LoopSpec

\* An event of a poll is handed to the handler it was reported for and to no
\* handler that was closed meanwhile, whatever the handlers dispatched before it
\* did (dispatch_io, run_deferred).
THEOREM EventsReach == LoopSpec => EventsReachTheirHandler
<1>1. ASSUME LoopInv, [LoopNext]_loopVars
      PROVE  [calling'.kind = "io" /\ calling' # calling =>
                 LET e == calling'.event
                 IN open[e.fd] /\ epoch[e.fd] = e.epoch /\ ~Destroyed(e.fd)]_loopVars
  <2> SUFFICES ASSUME calling'.kind = "io", calling' # calling
               PROVE  LET e == calling'.event
                      IN open[e.fd] /\ epoch[e.fd] = e.epoch /\ ~Destroyed(e.fd)
    BY Zenon
  <2>1. Dispatch
    BY <1>1 DEF LoopNext, Iteration, HandlerCall, BeginIteration, Poll, EndOfBatch, FireTimer,
       Fires, EndOfTimers, RunDeferred, Tick, Return, AddFd, CloseFd, SetInterest, AddTimer,
       CancelTimer, Stop, ctlVars, loopVars
  <2>2. 1 \in DOMAIN batch /\ batch[1] \in Events /\ Head(batch) = batch[1]
    BY <1>1, <2>1 DEF Dispatch, LoopInv, LoopTypeOK
  <2>3. calling' = IoCall(batch[1]) /\ registrations[batch[1].fd] # {}
    BY <2>1, <2>2, Zenon DEF Dispatch
  <2>4. calling'.event = batch[1] /\ batch[1].fd \in Fd
    BY <2>2, <2>3 DEF Events
  <2>5. open[batch[1].fd] /\ epoch[batch[1].fd] = batch[1].epoch /\ ~Destroyed(batch[1].fd)
    BY <1>1, <2>2, <2>3, <2>4, Zenon DEF LoopInv, DispatchInv, Destroyed
  <2>6. QED BY <2>4, <2>5, Zenon
<1>2. QED BY <1>1, LoopInvariant, PTL DEF LoopSpec, EventsReachTheirHandler

\* fire_due_timers calls only timers that cancel_timer was not called for.
THEOREM CancelledTimersStaySilent == LoopSpec => CancelledNeverFires
<1>1. ASSUME LoopInv, [LoopNext]_loopVars
      PROVE  [calling'.kind = "timer" /\ calling' # calling
                 => calling'.timer.id \notin dead]_loopVars
  <2> SUFFICES ASSUME calling'.kind = "timer", calling' # calling PROVE calling'.timer.id \notin dead
    BY Zenon
  <2>1. FireTimer
    BY <1>1 DEF LoopNext, Iteration, HandlerCall, BeginIteration, Poll, Dispatch, EndOfBatch,
       EndOfTimers, RunDeferred, Tick, Return, AddFd, CloseFd, SetInterest, AddTimer, CancelTimer,
       Stop, ctlVars, loopVars
  <2>2. PICK t \in Earliest(timers) : Fires(t)
    BY <2>1, Zenon DEF FireTimer
  <2>3. t \in timers /\ t.id \notin cancelled_timers /\ calling'.timer = t
    BY <2>2 DEF Fires, Earliest
  <2>4. QED BY <1>1, <2>3, Zenon DEF LoopInv, CancelInv
<1>2. QED BY <1>1, LoopInvariant, PTL DEF LoopSpec, CancelledNeverFires
-----------------------------------------------------------------------------
(***************************************************************************)
(* Proofs about StorageOutbox for every outbox size, every helper and any  *)
(* number of requests.  A commit answer speaks of ids the helper has seen; *)
(* that it never covers an entry the helper has not handled rests on the   *)
(* pipe being in order: every id still on the wire is above the watermark, *)
(* and an entry is either handled or on the wire while the helper lives.   *)
(***************************************************************************)

\* Every id anywhere was issued by send().
IdsAreIssued ==
    /\ \A n \in pending \union outbox \union reading : n < next_req_id
    /\ \A i \in 1..Len(replies) : replies[i].id < next_req_id
    /\ highest < next_req_id /\ confirmed < next_req_id

\* What the helper has not read is in order and above its watermark.
WireIsInOrder ==
    /\ \A i \in 1..Len(wire) : highest < wire[i].id /\ wire[i].id < next_req_id
    /\ \A i, j \in 1..Len(wire) : i < j => wire[i].id < wire[j].id

HandledIsNoted ==
    \A n \in handled : n <= highest

\* While the helper lives, an entry's report is handled or still on its way.
EntriesAreUnderWay ==
    alive => \A n \in outbox : n \in handled
                               \/ \E i \in 1..Len(wire) : wire[i] = [id |-> n, kind |-> "report"]

\* A watermark under way is at most the helper's and covers every entry older
\* than its commit.
MarksAreSound ==
    \A i \in 1..Len(replies) :
        /\ replies[i].mark <= highest
        /\ replies[i].mark > 0 => replies[i].kind = "commit"
        /\ replies[i].mark > 0 => \A n \in outbox : n <= replies[i].id => n <= replies[i].mark

GoneIsSilent ==
    /\ closed => ~alive
    /\ ~alive => Len(replies) = 0 /\ Len(wire) = 0

OutboxInv ==
    /\ OutboxTypeOK
    /\ IdsAreIssued
    /\ WireIsInOrder
    /\ HandledIsNoted
    /\ EntriesAreUnderWay
    /\ MarksAreSound
    /\ GoneIsSilent
    /\ CalledBackOnce
    /\ CommittedIsHandled
    /\ ConfirmedIsGone

\* OutboxTypeOK without its Boolean parts, for the arithmetic steps.
NumbersOK ==
    /\ next_req_id \in 1..(MaxRequests + 1)
    /\ pending \subseteq ReqId /\ outbox \subseteq ReqId /\ acked \subseteq outbox
    /\ wire \in Seq(Request) /\ reading \subseteq ReqId /\ replies \in Seq(Reply)
    /\ highest \in 0..MaxRequests /\ handled \subseteq ReqId /\ dropped \subseteq ReqId
    /\ confirmed \in 0..MaxRequests
    /\ fired \in [ReqId -> Nat]

\* The Boolean parts and the rest make up OutboxTypeOK, before and after a step.
LEMMA TypeSplit ==
    /\ OutboxTypeOK <=> NumbersOK /\ closed \in BOOLEAN /\ alive \in BOOLEAN
    /\ OutboxTypeOK' <=> NumbersOK' /\ closed' \in BOOLEAN /\ alive' \in BOOLEAN
  BY Zenon DEF OutboxTypeOK, NumbersOK

\* What the two queues hold.
LEMMA QueuesAreTyped ==
    ASSUME OutboxTypeOK
    PROVE  /\ wire \in Seq(Request) /\ replies \in Seq(Reply)
           /\ Len(wire) \in Nat /\ Len(replies) \in Nat
           /\ \A i \in 1..Len(wire) : wire[i] \in Request /\ wire[i].id \in Nat /\ wire[i].id \in ReqId
           /\ \A i \in 1..Len(replies) :
                  /\ replies[i] \in Reply /\ replies[i].id \in Nat /\ replies[i].id \in ReqId
                  /\ replies[i].mark \in Nat
  <1>1. wire \in Seq(Request) /\ replies \in Seq(Reply)
    BY Zenon DEF OutboxTypeOK
  <1>2. \A i \in 1..Len(wire) : wire[i] \in Request
    BY <1>1
  <1>3. \A i \in 1..Len(replies) : replies[i] \in Reply
    BY <1>1
  <1>4. \A m \in Request : m.id \in ReqId
    BY Zenon DEF Request
  <1>5. \A m \in Reply : m.id \in ReqId /\ m.mark \in 0..MaxRequests
    BY Zenon DEF Reply
  <1>6. ReqId \subseteq Nat /\ 0..MaxRequests \subseteq Nat
    BY OutboxConstants DEF ReqId
  <1>7. Len(wire) \in Nat /\ Len(replies) \in Nat
    BY <1>1
  <1> QED BY <1>1, <1>2, <1>3, <1>4, <1>5, <1>6, <1>7, Zenon

\* A client and a helper that have just started: nothing asked, nothing held.
LEMMA InitEstablishes == OutboxInit => OutboxInv
  <1> SUFFICES ASSUME OutboxInit PROVE OutboxInv
    BY Zenon
  <1>1. NumbersOK
    BY OutboxConstants DEF OutboxInit, NumbersOK, ReqId
  <1>2. closed \in BOOLEAN /\ alive \in BOOLEAN
    BY Zenon DEF OutboxInit
  <1>3. IdsAreIssued /\ WireIsInOrder /\ HandledIsNoted /\ EntriesAreUnderWay /\ MarksAreSound
    BY DEF OutboxInit, IdsAreIssued, WireIsInOrder, HandledIsNoted, EntriesAreUnderWay, MarksAreSound
  <1>4. GoneIsSilent
    BY Zenon DEF OutboxInit, GoneIsSilent
  <1>5. CalledBackOnce /\ CommittedIsHandled /\ ConfirmedIsGone
    BY OutboxConstants DEF OutboxInit, CalledBackOnce, CommittedIsHandled, ConfirmedIsGone, ReqId
  <1> QED BY <1>1, <1>2, <1>3, <1>4, <1>5, TypeSplit, Zenon DEF OutboxInv

\* A request, with or without an outbox entry of its own, keeps the invariant
\* on a live helper, on one whose death is noticed by the write, and on one
\* already closed.
LEMMA SendKeeps ==
    ASSUME OutboxInv, NEW kind \in Kind, Send(kind),
           \/ outbox' = outbox
           \/ kind = "report" /\ outbox' = outbox \union {next_req_id},
           UNCHANGED <<acked, dropped, confirmed>>
    PROVE  OutboxInv'
  <1> USE OutboxConstants
  <1>1. next_req_id \in ReqId /\ next_req_id' = next_req_id + 1
    BY DEF Send, OutboxInv, OutboxTypeOK, ReqId
  <1>2. UNCHANGED <<alive, reading, replies, highest, handled, acked, dropped, confirmed>>
    BY Zenon DEF Send
  <1>3. outbox \subseteq outbox' /\ outbox' \subseteq outbox \union {next_req_id}
    BY Zenon
  <1>t. NumbersOK
    BY TypeSplit, Zenon DEF OutboxInv
  <1>q. /\ \A i \in 1..Len(wire) : wire[i].id \in Nat
        /\ \A i \in 1..Len(replies) : replies[i].id \in Nat /\ replies[i].mark \in Nat
    BY QueuesAreTyped, Zenon DEF OutboxInv
  <1>4. CASE ~closed /\ alive
    <2> DEFINE m == [id |-> next_req_id, kind |-> kind]
    <2>1. /\ pending' = pending \union {next_req_id} /\ wire' = Append(wire, m)
          /\ UNCHANGED <<closed, fired>>
      BY <1>4, Zenon DEF Send
    <2>2. m \in Request /\ wire \in Seq(Request)
      BY <1>1, Zenon DEF OutboxInv, OutboxTypeOK, Request
    <2>3. /\ wire' \in Seq(Request) /\ Len(wire') = Len(wire) + 1 /\ wire'[Len(wire) + 1] = m
          /\ \A i \in 1..Len(wire) : wire'[i] = wire[i]
      BY <2>1, <2>2
    <2>4. OutboxTypeOK'
      <3>1. next_req_id' \in 1..(MaxRequests + 1)
        BY <1>1 DEF ReqId
      <3>2. /\ pending' \subseteq ReqId /\ outbox' \subseteq ReqId /\ acked' \subseteq outbox'
            /\ reading' \subseteq ReqId /\ handled' \subseteq ReqId /\ dropped' \subseteq ReqId
            /\ replies' \in Seq(Reply) /\ fired' \in [ReqId -> Nat]
            /\ highest' \in 0..MaxRequests /\ confirmed' \in 0..MaxRequests
        BY <1>1, <1>2, <1>3, <1>t, <2>1, Zenon DEF NumbersOK
      <3>3. NumbersOK'
        BY <2>3, <3>1, <3>2, Zenon DEF NumbersOK
      <3>4. closed' \in BOOLEAN /\ alive' \in BOOLEAN
        BY <1>2, <2>1, Zenon DEF OutboxInv, OutboxTypeOK
      <3> QED BY <3>3, <3>4, TypeSplit, Zenon
    <2>5. IdsAreIssued'
      BY <1>1, <1>2, <1>3, <1>t, <1>q, <2>1, SMTT(30) DEF OutboxInv, NumbersOK, IdsAreIssued, ReqId
    <2>6. WireIsInOrder'
      <3>1. m.id = next_req_id
        BY Zenon
      <3> HIDE DEF m
      <3>2. \A i \in 1..Len(wire') : highest < wire'[i].id /\ wire'[i].id < next_req_id'
        <4> SUFFICES ASSUME NEW i \in 1..Len(wire')
                     PROVE  highest < wire'[i].id /\ wire'[i].id < next_req_id'
          BY Zenon
        <4>1. highest \in Int /\ next_req_id \in Int /\ highest < next_req_id
          BY <1>t DEF OutboxInv, NumbersOK, IdsAreIssued
        <4>2. CASE i \in 1..Len(wire)
          BY <1>1, <1>q, <2>3, <4>1, <4>2 DEF OutboxInv, WireIsInOrder
        <4>3. CASE i = Len(wire) + 1
          BY <1>1, <2>3, <3>1, <4>1, <4>3
        <4> QED BY <2>2, <2>3, <4>2, <4>3
      <3>3. ASSUME NEW i \in 1..Len(wire'), NEW j \in 1..Len(wire'), i < j
            PROVE  wire'[i].id < wire'[j].id
        <4>1. i \in 1..Len(wire) /\ wire'[i] = wire[i]
          BY <2>2, <2>3, <3>3
        <4>2. CASE j \in 1..Len(wire)
          BY <2>3, <3>3, <4>1, <4>2, Zenon DEF OutboxInv, WireIsInOrder
        <4>3. CASE j = Len(wire) + 1
          BY <2>3, <3>1, <4>1, <4>3, Zenon DEF OutboxInv, WireIsInOrder
        <4> QED BY <2>2, <2>3, <4>2, <4>3
      <3> QED BY <1>2, <3>2, <3>3, Zenon DEF WireIsInOrder
    <2>7. EntriesAreUnderWay'
      <3> SUFFICES ASSUME NEW n \in outbox'
                   PROVE  n \in handled \/ \E i \in 1..Len(wire') : wire'[i] = [id |-> n, kind |-> "report"]
        BY <1>2, Zenon DEF EntriesAreUnderWay
      <3>1. CASE n \in outbox
        BY <1>4, <2>2, <2>3, <3>1 DEF OutboxInv, EntriesAreUnderWay
      <3>2. CASE n \notin outbox
        <4>1. n = next_req_id /\ kind = "report"
          BY <3>2, Zenon
        <4>2. Len(wire) + 1 \in 1..Len(wire') /\ wire'[Len(wire) + 1] = [id |-> n, kind |-> "report"]
          BY <2>2, <2>3, <4>1
        <4> QED BY <4>2, Zenon
      <3> QED BY <3>1, <3>2, Zenon
    <2>8. MarksAreSound'
      BY <1>1, <1>2, <1>3, <1>t, <1>q DEF OutboxInv, NumbersOK, MarksAreSound, IdsAreIssued, ReqId
    <2>9. HandledIsNoted' /\ GoneIsSilent' /\ CommittedIsHandled'
      BY <1>2, <1>4, <2>1, Zenon DEF OutboxInv, HandledIsNoted, GoneIsSilent, CommittedIsHandled
    <2>10. CalledBackOnce'
      BY <1>1, <2>1 DEF OutboxInv, OutboxTypeOK, CalledBackOnce, ReqId
    <2>11. ConfirmedIsGone'
      BY <1>1, <1>2, <1>3, Zenon DEF OutboxInv, OutboxTypeOK, ConfirmedIsGone, IdsAreIssued, ReqId
    <2> QED BY <2>4, <2>5, <2>6, <2>7, <2>8, <2>9, <2>10, <2>11, Zenon DEF OutboxInv
  <1>5. CASE closed \/ ~alive
    <2>1. ~alive /\ wire' = wire /\ closed' = TRUE
      <3>1. CASE closed
        BY <3>1, Zenon DEF Send, OutboxInv, GoneIsSilent, OutboxTypeOK
      <3>2. CASE ~closed /\ ~alive
        BY <3>2, Zenon DEF Send, FailAll
      <3> QED BY <1>5, <3>1, <3>2, Zenon
    <2>2. \/ /\ pending' = pending
             /\ fired' = [n \in ReqId |-> IF n \in {next_req_id} THEN fired[n] + 1 ELSE fired[n]]
          \/ /\ pending' = {}
             /\ fired' = [n \in ReqId |-> IF n \in pending \union {next_req_id} THEN fired[n] + 1 ELSE fired[n]]
      BY <1>5, Zenon DEF Send, FailAll, CallBack
    <2>p. pending' \subseteq pending
      BY <2>2, Zenon
    <2>f. fired' \in [ReqId -> Nat]
      BY <2>2, <1>t DEF NumbersOK
    <2>3. closed' \in BOOLEAN /\ alive' \in BOOLEAN
      BY <1>2, <2>1, Zenon DEF OutboxInv, OutboxTypeOK
    <2>4. OutboxTypeOK'
      <3>1. NumbersOK'
        BY <1>1, <1>2, <1>3, <1>t, <2>1, <2>p, <2>f DEF NumbersOK, ReqId
      <3> QED BY <2>3, <3>1, TypeSplit, Zenon
    <2>5. IdsAreIssued'
      BY <1>1, <1>2, <1>3, <1>t, <1>q, <2>p DEF OutboxInv, NumbersOK, IdsAreIssued, ReqId
    <2>6. CalledBackOnce'
      BY <1>1, <2>2, SMTT(30) DEF OutboxInv, OutboxTypeOK, CalledBackOnce, IdsAreIssued, ReqId
    <2>7. ConfirmedIsGone'
      BY <1>1, <1>2, <1>3, Zenon DEF OutboxInv, OutboxTypeOK, ConfirmedIsGone, IdsAreIssued, ReqId
    <2>8. WireIsInOrder' /\ MarksAreSound' /\ EntriesAreUnderWay'
      BY <1>2, <2>1 DEF OutboxInv, GoneIsSilent, WireIsInOrder, MarksAreSound, EntriesAreUnderWay
    <2>9. HandledIsNoted' /\ GoneIsSilent' /\ CommittedIsHandled'
      BY <1>2, <2>1, Zenon DEF OutboxInv, HandledIsNoted, GoneIsSilent, CommittedIsHandled
    <2> QED BY <2>4, <2>5, <2>6, <2>7, <2>8, <2>9, Zenon DEF OutboxInv
  <1> QED BY <1>4, <1>5, Zenon

\* What is left of a queue once its oldest entry is taken.
LEMMA TailFacts ==
    ASSUME NEW S, NEW s \in Seq(S), s # <<>>
    PROVE  /\ Tail(s) \in Seq(S) /\ Len(Tail(s)) = Len(s) - 1 /\ Len(s) \in Nat /\ Len(s) > 0
           /\ Head(s) = s[1] /\ 1 \in 1..Len(s)
           /\ \A i \in 1..Len(Tail(s)) : i + 1 \in 1..Len(s) /\ Tail(s)[i] = s[i + 1]
  OBVIOUS

\* What a queue holds once an entry is added.
LEMMA AppendFacts ==
    ASSUME NEW S, NEW s \in Seq(S), NEW e \in S
    PROVE  /\ Append(s, e) \in Seq(S) /\ Len(Append(s, e)) = Len(s) + 1 /\ Len(s) \in Nat
           /\ Append(s, e)[Len(s) + 1] = e
           /\ \A i \in 1..Len(s) : Append(s, e)[i] = s[i]
           /\ \A i \in 1..(Len(s) + 1) : i \in 1..Len(s) \/ i = Len(s) + 1
  OBVIOUS

\* The helper takes the oldest request off the wire; its watermark may rise to
\* that request's id but not beyond.
LEMMA TakeKeepsOrder ==
    ASSUME OutboxInv, wire # <<>>, wire' = Tail(wire), next_req_id' = next_req_id,
           highest' \in Nat, highest' <= Head(wire).id
    PROVE  /\ Head(wire) \in Request /\ Head(wire).id \in ReqId /\ Head(wire).id \in Nat
           /\ highest < Head(wire).id /\ Head(wire).id < next_req_id
           /\ wire' \in Seq(Request)
           /\ WireIsInOrder'
           /\ \A i \in 1..Len(wire) : i # 1 => i - 1 \in 1..Len(wire') /\ wire'[i - 1] = wire[i]
           /\ \A i \in 1..Len(wire) : i # 1 => Head(wire).id < wire[i].id
  <1> USE OutboxConstants
  <1>1. /\ wire \in Seq(Request)
        /\ \A i \in 1..Len(wire) : wire[i] \in Request /\ wire[i].id \in Nat /\ wire[i].id \in ReqId
    BY QueuesAreTyped, Zenon DEF OutboxInv
  <1>2. /\ wire' \in Seq(Request) /\ Len(wire') = Len(wire) - 1 /\ Len(wire) \in Nat
        /\ Head(wire) = wire[1] /\ 1 \in 1..Len(wire)
        /\ \A i \in 1..Len(wire') : i + 1 \in 1..Len(wire) /\ wire'[i] = wire[i + 1]
    BY <1>1, TailFacts, Zenon
  <1>3. /\ Head(wire) \in Request /\ Head(wire).id \in ReqId /\ Head(wire).id \in Nat
        /\ highest < Head(wire).id /\ Head(wire).id < next_req_id
    BY <1>1, <1>2, Zenon DEF OutboxInv, WireIsInOrder
  <1>4. \A i \in 1..Len(wire) : i # 1 => Head(wire).id < wire[i].id
    BY <1>2 DEF OutboxInv, WireIsInOrder
  <1>5. \A i \in 1..Len(wire') : highest' < wire'[i].id /\ wire'[i].id < next_req_id'
    <2> SUFFICES ASSUME NEW i \in 1..Len(wire')
                 PROVE  highest' < wire'[i].id /\ wire'[i].id < next_req_id'
      BY Zenon
    <2>1. i + 1 \in 1..Len(wire) /\ wire'[i] = wire[i + 1] /\ i + 1 # 1
      BY <1>2
    <2>2. Head(wire).id < wire[i + 1].id /\ wire[i + 1].id < next_req_id
      BY <1>4, <2>1, Zenon DEF OutboxInv, WireIsInOrder
    <2> QED BY <1>1, <1>3, <2>1, <2>2
  <1>6. \A i, j \in 1..Len(wire') : i < j => wire'[i].id < wire'[j].id
    <2> SUFFICES ASSUME NEW i \in 1..Len(wire'), NEW j \in 1..Len(wire'), i < j
                 PROVE  wire'[i].id < wire'[j].id
      BY Zenon
    <2>1. /\ i + 1 \in 1..Len(wire) /\ wire'[i] = wire[i + 1]
          /\ j + 1 \in 1..Len(wire) /\ wire'[j] = wire[j + 1] /\ i + 1 < j + 1
      BY <1>2
    <2> QED BY <2>1, Zenon DEF OutboxInv, WireIsInOrder
  <1>7. \A i \in 1..Len(wire) : i # 1 => i - 1 \in 1..Len(wire') /\ wire'[i - 1] = wire[i]
    <2> SUFFICES ASSUME NEW i \in 1..Len(wire), i # 1
                 PROVE  i - 1 \in 1..Len(wire') /\ wire'[i - 1] = wire[i]
      BY Zenon
    <2>1. i - 1 \in 1..Len(wire') /\ (i - 1) + 1 = i
      BY <1>2
    <2> QED BY <1>2, <2>1, Zenon
  <1> QED BY <1>2, <1>3, <1>4, <1>5, <1>6, <1>7, Zenon DEF WireIsInOrder

\* An answer added to the replies keeps them typed and sound.
LEMMA AnswerIsSound ==
    ASSUME OutboxInv, NEW rep \in Reply, replies' = Append(replies, rep),
           outbox' = outbox, next_req_id' = next_req_id,
           highest' \in Nat, highest <= highest', rep.mark <= highest', rep.id < next_req_id,
           rep.mark > 0 => rep.kind = "commit",
           rep.mark > 0 => \A n \in outbox : n <= rep.id => n <= rep.mark
    PROVE  /\ replies' \in Seq(Reply)
           /\ MarksAreSound'
           /\ \A i \in 1..Len(replies') : replies'[i].id < next_req_id
  <1>1. /\ replies \in Seq(Reply) /\ highest \in Nat
        /\ \A i \in 1..Len(replies) : replies[i].mark \in Nat
    BY QueuesAreTyped, OutboxConstants, SMTT(30) DEF OutboxInv, OutboxTypeOK
  <1>2. /\ replies' \in Seq(Reply) /\ Len(replies') = Len(replies) + 1
        /\ replies'[Len(replies) + 1] = rep
        /\ \A i \in 1..Len(replies) : replies'[i] = replies[i]
        /\ \A i \in 1..(Len(replies) + 1) : i \in 1..Len(replies) \/ i = Len(replies) + 1
    <2>1. /\ Append(replies, rep) \in Seq(Reply) /\ Len(Append(replies, rep)) = Len(replies) + 1
          /\ Append(replies, rep)[Len(replies) + 1] = rep
          /\ \A i \in 1..Len(replies) : Append(replies, rep)[i] = replies[i]
          /\ \A i \in 1..(Len(replies) + 1) : i \in 1..Len(replies) \/ i = Len(replies) + 1
      BY <1>1, AppendFacts, SMTT(30)
    <2> QED BY <2>1, Zenon
  <1>3. \A i \in 1..Len(replies) : replies[i].mark <= highest'
    BY <1>1, SMTT(30) DEF OutboxInv, MarksAreSound
  <1>4. \A i \in 1..Len(replies') :
            /\ replies'[i].mark <= highest'
            /\ replies'[i].mark > 0 => replies'[i].kind = "commit"
            /\ replies'[i].mark > 0 => \A n \in outbox : n <= replies'[i].id => n <= replies'[i].mark
            /\ replies'[i].id < next_req_id
    <2> SUFFICES ASSUME NEW i \in 1..Len(replies')
                 PROVE  /\ replies'[i].mark <= highest'
                        /\ replies'[i].mark > 0 => replies'[i].kind = "commit"
                        /\ replies'[i].mark > 0
                              => \A n \in outbox : n <= replies'[i].id => n <= replies'[i].mark
                        /\ replies'[i].id < next_req_id
      BY Zenon
    <2>1. CASE i \in 1..Len(replies)
      BY <1>2, <1>3, <2>1, Zenon DEF OutboxInv, MarksAreSound, IdsAreIssued
    <2>2. CASE i = Len(replies) + 1
      BY <1>2, <2>2, Zenon
    <2> QED BY <1>2, <2>1, <2>2, Zenon
  <1> QED BY <1>2, <1>4, Zenon DEF MarksAreSound

\* The helper handles a report: its watermark rises to the report it wrote.
LEMMA HelperWritesKeeps == ASSUME OutboxInv, HelperWrites PROVE OutboxInv'
  <1> USE OutboxConstants
  <1> DEFINE m == Head(wire)
             rep == [id |-> m.id, kind |-> m.kind, mark |-> 0]
  <1>t. NumbersOK
    BY TypeSplit, Zenon DEF OutboxInv
  <1>1. /\ alive /\ wire # <<>> /\ wire' = Tail(wire) /\ replies' = Append(replies, rep)
        /\ m.kind \in {"report", "rest"}
        /\ highest' = highest \/ highest' = Larger(highest, m.id)
        /\ m.kind = "report" => highest' = Larger(highest, m.id)
        /\ handled' = IF m.kind = "report" THEN handled \union {m.id} ELSE handled
    BY Zenon DEF HelperWrites
  <1>2. /\ UNCHANGED <<reading, next_req_id, pending, outbox, acked, dropped, confirmed, fired>>
        /\ alive' = alive /\ closed' = closed
    BY Zenon DEF HelperWrites, clientVars
  <1>3. m \in Request /\ m.id \in ReqId /\ m.id \in Nat /\ highest < m.id /\ m.id < next_req_id
    <2>1. wire \in Seq(Request) /\ m = wire[1] /\ 1 \in 1..Len(wire)
      BY <1>1, <1>t, TailFacts, Zenon DEF NumbersOK
    <2> QED BY <2>1, QueuesAreTyped, Zenon DEF OutboxInv, WireIsInOrder
  <1>4. /\ highest \in Nat /\ highest' \in 0..MaxRequests /\ highest' \in Nat
        /\ highest <= highest' /\ highest' <= m.id
        /\ m.kind = "report" => highest' = m.id
    BY <1>1, <1>3, <1>t, SMTT(30) DEF Larger, NumbersOK, ReqId
  <1>5. rep \in Reply /\ rep.mark = 0 /\ rep.id = m.id
    BY <1>3 DEF Reply, Request
  <1> HIDE DEF rep
  <1>6. /\ replies' \in Seq(Reply) /\ MarksAreSound'
        /\ \A i \in 1..Len(replies') : replies'[i].id < next_req_id
    <2>1. rep.mark <= highest' /\ rep.id < next_req_id /\ ~(rep.mark > 0)
      BY <1>3, <1>4, <1>5
    <2> QED BY <1>1, <1>2, <1>4, <1>5, <2>1, AnswerIsSound, Zenon
  <1>7. /\ wire' \in Seq(Request) /\ WireIsInOrder'
        /\ \A i \in 1..Len(wire) : i # 1 => i - 1 \in 1..Len(wire') /\ wire'[i - 1] = wire[i]
    BY <1>1, <1>2, <1>4, TakeKeepsOrder, Zenon
  <1>8. handled \subseteq handled' /\ (m.kind = "report" => m.id \in handled')
        /\ handled' \subseteq handled \union {m.id}
    BY <1>1, Zenon
  <1>9. OutboxTypeOK'
    <2>1. NumbersOK'
      BY <1>t, <1>2, <1>3, <1>4, <1>6, <1>7, <1>8, Zenon DEF NumbersOK, ReqId
    <2>2. closed' \in BOOLEAN /\ alive' \in BOOLEAN
      BY <1>2, Zenon DEF OutboxInv, OutboxTypeOK
    <2> QED BY <2>1, <2>2, TypeSplit, Zenon
  <1>10. IdsAreIssued'
    BY <1>t, <1>2, <1>3, <1>4, <1>6 DEF OutboxInv, IdsAreIssued, NumbersOK
  <1>11. HandledIsNoted'
    BY <1>t, <1>1, <1>3, <1>4, SMTT(30) DEF OutboxInv, HandledIsNoted, NumbersOK, ReqId
  <1>12. EntriesAreUnderWay'
    <2> SUFFICES ASSUME NEW n \in outbox
                 PROVE  n \in handled' \/ \E i \in 1..Len(wire') : wire'[i] = [id |-> n, kind |-> "report"]
      BY <1>2, Zenon DEF EntriesAreUnderWay
    <2>1. CASE n \in handled
      BY <1>8, <2>1, Zenon
    <2>2. ASSUME NEW i \in 1..Len(wire), wire[i] = [id |-> n, kind |-> "report"]
          PROVE  n \in handled' \/ \E j \in 1..Len(wire') : wire'[j] = [id |-> n, kind |-> "report"]
      <3>1. CASE i = 1
        <4>1. m = wire[1]
          BY <1>1, <1>t, TailFacts, Zenon DEF NumbersOK
        <4>2. m.id = n /\ m.kind = "report"
          BY <2>2, <3>1, <4>1
        <4> QED BY <1>8, <4>2, Zenon
      <3>2. CASE i # 1
        BY <1>7, <2>2, <3>2, Zenon
      <3> QED BY <3>1, <3>2, Zenon
    <2> QED BY <1>1, <2>1, <2>2, Zenon DEF OutboxInv, EntriesAreUnderWay
  <1>13. GoneIsSilent'
    BY <1>1, <1>2, Zenon DEF OutboxInv, GoneIsSilent
  <1>14. CalledBackOnce' /\ ConfirmedIsGone' /\ CommittedIsHandled'
    BY <1>2, <1>8, Zenon DEF OutboxInv, CalledBackOnce, ConfirmedIsGone, CommittedIsHandled
  <1> QED BY <1>6, <1>7, <1>9, <1>10, <1>11, <1>12, <1>13, <1>14, Zenon DEF OutboxInv

\* Taking a request off the wire without handling a report keeps every entry
\* handled or under way.
LEMMA TakeKeepsEntries ==
    ASSUME OutboxInv, wire # <<>>, wire' = Tail(wire), next_req_id' = next_req_id,
           UNCHANGED <<outbox, highest, handled>>, Head(wire).kind # "report", alive
    PROVE  /\ wire' \in Seq(Request) /\ WireIsInOrder'
           /\ \A n \in outbox : n <= Head(wire).id => n \in handled
           /\ \A n \in outbox :
                 n \in handled \/ \E i \in 1..Len(wire') : wire'[i] = [id |-> n, kind |-> "report"]
  <1>1. wire \in Seq(Request) /\ highest \in Nat /\ outbox \subseteq Nat
    BY OutboxConstants DEF OutboxInv, OutboxTypeOK, ReqId
  <1>2. /\ Head(wire) = wire[1] /\ 1 \in 1..Len(wire)
        /\ highest < Head(wire).id /\ Head(wire).id \in Nat
    BY <1>1, TailFacts, QueuesAreTyped, Zenon DEF OutboxInv, WireIsInOrder
  <1>3. /\ wire' \in Seq(Request) /\ WireIsInOrder'
        /\ \A i \in 1..Len(wire) : i # 1 => i - 1 \in 1..Len(wire') /\ wire'[i - 1] = wire[i]
        /\ \A i \in 1..Len(wire) : i # 1 => Head(wire).id < wire[i].id
    BY <1>1, <1>2, TakeKeepsOrder
  <1>4. ASSUME NEW n \in outbox, n \notin handled
        PROVE  /\ ~(n <= Head(wire).id)
               /\ \E i \in 1..Len(wire') : wire'[i] = [id |-> n, kind |-> "report"]
    <2>1. PICK i \in 1..Len(wire) : wire[i] = [id |-> n, kind |-> "report"]
      BY <1>4, Zenon DEF OutboxInv, EntriesAreUnderWay
    <2>2. i # 1 /\ wire[i].id = n
      BY <1>2, <2>1
    <2> QED BY <1>1, <1>2, <1>3, <2>1, <2>2
  <1> QED BY <1>3, <1>4, Zenon

\* The helper answers a commit with its watermark, or fails it.
LEMMA HelperCommitsKeeps == ASSUME OutboxInv, NEW ok \in BOOLEAN, HelperCommits(ok) PROVE OutboxInv'
  <1> USE OutboxConstants
  <1> DEFINE m == Head(wire)
             rep == [id |-> m.id, kind |-> "commit", mark |-> IF ok THEN highest ELSE 0]
  <1>t. NumbersOK
    BY TypeSplit, Zenon DEF OutboxInv
  <1>1. /\ alive /\ wire # <<>> /\ wire' = Tail(wire) /\ replies' = Append(replies, rep)
        /\ m.kind # "report"
    BY Zenon DEF HelperCommits
  <1>2. /\ UNCHANGED <<reading, next_req_id, pending, outbox, acked, dropped, confirmed, fired,
                       highest, handled>>
        /\ alive' = alive /\ closed' = closed
    BY Zenon DEF HelperCommits, clientVars
  <1>3. m \in Request /\ m.id \in ReqId /\ m.id \in Nat /\ highest < m.id /\ m.id < next_req_id
    <2>1. wire \in Seq(Request) /\ m = wire[1] /\ 1 \in 1..Len(wire)
      BY <1>1, <1>t, TailFacts, Zenon DEF NumbersOK
    <2> QED BY <2>1, QueuesAreTyped, Zenon DEF OutboxInv, WireIsInOrder
  <1>4. /\ wire' \in Seq(Request) /\ WireIsInOrder'
        /\ \A n \in outbox : n <= m.id => n \in handled
        /\ \A n \in outbox :
              n \in handled \/ \E i \in 1..Len(wire') : wire'[i] = [id |-> n, kind |-> "report"]
    BY <1>1, <1>2, TakeKeepsEntries, Zenon
  <1>5. rep \in Reply /\ rep.id = m.id /\ rep.kind = "commit" /\ (rep.mark = 0 \/ rep.mark = highest)
    BY <1>3, <1>t DEF Reply, NumbersOK, Kind
  <1> HIDE DEF rep
  <1>6. /\ replies' \in Seq(Reply) /\ MarksAreSound'
        /\ \A i \in 1..Len(replies') : replies'[i].id < next_req_id
    <2>1. highest \in Nat /\ highest' = highest /\ highest' \in Nat /\ highest <= highest'
      BY <1>2, <1>t DEF NumbersOK
    <2>2. rep.mark <= highest' /\ rep.id < next_req_id
      BY <1>3, <1>5, <2>1
    <2>3. rep.mark > 0 => \A n \in outbox : n <= rep.id => n <= rep.mark
      BY <1>4, <1>5, <2>1 DEF OutboxInv, HandledIsNoted
    <2> QED BY <1>1, <1>2, <1>5, <2>1, <2>2, <2>3, AnswerIsSound, Zenon
  <1>9. OutboxTypeOK'
    <2>1. NumbersOK'
      BY <1>t, <1>2, <1>4, <1>6, Zenon DEF NumbersOK
    <2>2. closed' \in BOOLEAN /\ alive' \in BOOLEAN
      BY <1>2, Zenon DEF OutboxInv, OutboxTypeOK
    <2> QED BY <2>1, <2>2, TypeSplit, Zenon
  <1>10. IdsAreIssued'
    BY <1>2, <1>6, Zenon DEF OutboxInv, IdsAreIssued
  <1>12. EntriesAreUnderWay'
    BY <1>2, <1>4, Zenon DEF EntriesAreUnderWay
  <1>13. GoneIsSilent'
    BY <1>1, <1>2, Zenon DEF OutboxInv, GoneIsSilent
  <1>14. HandledIsNoted' /\ CalledBackOnce' /\ ConfirmedIsGone' /\ CommittedIsHandled'
    BY <1>2, Zenon DEF OutboxInv, HandledIsNoted, CalledBackOnce, ConfirmedIsGone, CommittedIsHandled
  <1> QED BY <1>4, <1>6, <1>9, <1>10, <1>12, <1>13, <1>14, Zenon DEF OutboxInv

\* The helper takes a read off the wire and keeps it.
LEMMA HelperStartsReadKeeps == ASSUME OutboxInv, HelperStartsRead PROVE OutboxInv'
  <1> USE OutboxConstants
  <1>t. NumbersOK
    BY TypeSplit, Zenon DEF OutboxInv
  <1>1. /\ alive /\ wire # <<>> /\ wire' = Tail(wire) /\ Head(wire).kind # "report"
        /\ reading' = reading \union {Head(wire).id}
    BY Zenon DEF HelperStartsRead
  <1>2. /\ UNCHANGED <<next_req_id, pending, outbox, acked, dropped, confirmed, fired,
                       replies, highest, handled>>
        /\ alive' = alive /\ closed' = closed
    BY Zenon DEF HelperStartsRead, clientVars
  <1>3. Head(wire).id \in ReqId /\ Head(wire).id < next_req_id
    <2>1. wire \in Seq(Request) /\ Head(wire) = wire[1] /\ 1 \in 1..Len(wire)
      BY <1>1, <1>t, TailFacts, Zenon DEF NumbersOK
    <2> QED BY <2>1, QueuesAreTyped, Zenon DEF OutboxInv, WireIsInOrder
  <1>4. /\ wire' \in Seq(Request) /\ WireIsInOrder'
        /\ \A n \in outbox :
              n \in handled \/ \E i \in 1..Len(wire') : wire'[i] = [id |-> n, kind |-> "report"]
    BY <1>1, <1>2, TakeKeepsEntries, Zenon
  <1>9. OutboxTypeOK'
    <2>1. NumbersOK'
      BY <1>t, <1>1, <1>2, <1>3, <1>4, Zenon DEF NumbersOK
    <2>2. closed' \in BOOLEAN /\ alive' \in BOOLEAN
      BY <1>2, Zenon DEF OutboxInv, OutboxTypeOK
    <2> QED BY <2>1, <2>2, TypeSplit, Zenon
  <1>10. IdsAreIssued'
    BY <1>1, <1>2, <1>3, Zenon DEF OutboxInv, IdsAreIssued
  <1>12. EntriesAreUnderWay'
    BY <1>2, <1>4, Zenon DEF EntriesAreUnderWay
  <1>13. GoneIsSilent'
    BY <1>1, <1>2, Zenon DEF OutboxInv, GoneIsSilent
  <1>14. /\ HandledIsNoted' /\ CalledBackOnce' /\ ConfirmedIsGone' /\ CommittedIsHandled'
         /\ MarksAreSound'
    BY <1>2, Zenon DEF OutboxInv, HandledIsNoted, CalledBackOnce, ConfirmedIsGone, CommittedIsHandled, MarksAreSound
  <1> QED BY <1>4, <1>9, <1>10, <1>12, <1>13, <1>14, Zenon DEF OutboxInv

\* The helper answers a read it has kept, in any order.
LEMMA HelperReadsKeeps == ASSUME OutboxInv, NEW n \in reading, HelperReads(n) PROVE OutboxInv'
  <1> USE OutboxConstants
  <1> DEFINE rep == [id |-> n, kind |-> "read", mark |-> 0]
  <1>t. NumbersOK
    BY TypeSplit, Zenon DEF OutboxInv
  <1>1. alive /\ reading' = reading \ {n} /\ replies' = Append(replies, rep)
    BY Zenon DEF HelperReads
  <1>2. /\ UNCHANGED <<next_req_id, pending, outbox, acked, dropped, confirmed, fired,
                       wire, highest, handled>>
        /\ alive' = alive /\ closed' = closed
    BY Zenon DEF HelperReads, clientVars
  <1>3. n \in ReqId /\ n < next_req_id
    BY <1>t, Zenon DEF OutboxInv, NumbersOK, IdsAreIssued
  <1>5. rep \in Reply /\ rep.id = n /\ rep.mark = 0
    BY <1>3, SMTT(30) DEF Reply, Kind
  <1> HIDE DEF rep
  <1>6. /\ replies' \in Seq(Reply) /\ MarksAreSound'
        /\ \A i \in 1..Len(replies') : replies'[i].id < next_req_id
    <2>1. highest \in Nat /\ highest' = highest /\ highest' \in Nat /\ highest <= highest'
      BY <1>2, <1>t DEF NumbersOK
    <2>2. rep.mark <= highest' /\ rep.id < next_req_id /\ ~(rep.mark > 0)
      BY <1>3, <1>5, <2>1
    <2> QED BY <1>1, <1>2, <1>5, <2>1, <2>2, AnswerIsSound, Zenon
  <1>9. OutboxTypeOK'
    <2>1. NumbersOK'
      BY <1>t, <1>1, <1>2, <1>6, Zenon DEF NumbersOK
    <2>2. closed' \in BOOLEAN /\ alive' \in BOOLEAN
      BY <1>2, Zenon DEF OutboxInv, OutboxTypeOK
    <2> QED BY <2>1, <2>2, TypeSplit, Zenon
  <1>10. IdsAreIssued'
    BY <1>1, <1>2, <1>6, Zenon DEF OutboxInv, IdsAreIssued
  <1>13. GoneIsSilent'
    BY <1>1, <1>2, Zenon DEF OutboxInv, GoneIsSilent
  <1>14. /\ WireIsInOrder' /\ HandledIsNoted' /\ EntriesAreUnderWay' /\ CalledBackOnce'
         /\ ConfirmedIsGone' /\ CommittedIsHandled'
    BY <1>2, Zenon DEF OutboxInv, WireIsInOrder, HandledIsNoted, EntriesAreUnderWay, CalledBackOnce,
                ConfirmedIsGone, CommittedIsHandled
  <1> QED BY <1>6, <1>9, <1>10, <1>13, <1>14, Zenon DEF OutboxInv

\* The helper dies: what it had read and not answered is lost.
LEMMA HelperDiesKeeps == ASSUME OutboxInv, HelperDies PROVE OutboxInv'
  <1>t. NumbersOK
    BY TypeSplit, Zenon DEF OutboxInv
  <1>1. /\ wire' = <<>> /\ reading' = {} /\ replies' = <<>> /\ alive' = FALSE
        /\ UNCHANGED <<next_req_id, pending, outbox, acked, dropped, confirmed, fired,
                       highest, handled>>
        /\ closed' = closed
    BY Zenon DEF HelperDies, clientVars
  <1>2. OutboxTypeOK'
    <2>1. NumbersOK'
      BY <1>t, <1>1 DEF NumbersOK
    <2>2. closed' \in BOOLEAN /\ alive' \in BOOLEAN
      BY <1>1, Zenon DEF OutboxInv, OutboxTypeOK
    <2> QED BY <2>1, <2>2, TypeSplit, Zenon
  <1>3. IdsAreIssued' /\ WireIsInOrder' /\ MarksAreSound'
    BY <1>1 DEF OutboxInv, IdsAreIssued, WireIsInOrder, MarksAreSound
  <1>4. EntriesAreUnderWay' /\ GoneIsSilent'
    BY <1>1, Zenon DEF EntriesAreUnderWay, GoneIsSilent
  <1>5. HandledIsNoted' /\ CalledBackOnce' /\ ConfirmedIsGone' /\ CommittedIsHandled'
    BY <1>1, Zenon DEF OutboxInv, HandledIsNoted, CalledBackOnce, ConfirmedIsGone, CommittedIsHandled
  <1> QED BY <1>2, <1>3, <1>4, <1>5, Zenon DEF OutboxInv

\* Requests are called back for an expired deadline or because the helper has
\* gone.
LEMMA FailKeeps ==
    ASSUME OutboxInv, NEW ids \in SUBSET pending, CallBack(ids), pending' = pending \ ids,
           closed' \in BOOLEAN, closed' => closed \/ ~alive,
           UNCHANGED <<next_req_id, outbox, acked, dropped, confirmed>>, UNCHANGED helperVars
    PROVE  OutboxInv'
  <1>t. NumbersOK
    BY TypeSplit, Zenon DEF OutboxInv
  <1>1. UNCHANGED <<wire, reading, replies, highest, handled>> /\ alive' = alive
    BY Zenon DEF helperVars
  <1>2. OutboxTypeOK'
    <2>1. fired' \in [ReqId -> Nat]
      BY <1>t DEF NumbersOK, CallBack
    <2>2. NumbersOK'
      BY <1>t, <1>1, <2>1, Zenon DEF NumbersOK
    <2>3. closed' \in BOOLEAN /\ alive' \in BOOLEAN
      BY <1>1, Zenon DEF OutboxInv, OutboxTypeOK
    <2> QED BY <2>2, <2>3, TypeSplit, Zenon
  <1>3. CalledBackOnce'
    BY <1>t, OutboxConstants DEF OutboxInv, CalledBackOnce, CallBack, IdsAreIssued, NumbersOK, ReqId
  <1>4. IdsAreIssued'
    BY <1>1, Zenon DEF OutboxInv, IdsAreIssued
  <1>5. GoneIsSilent'
    BY <1>1, Zenon DEF OutboxInv, GoneIsSilent
  <1>6. /\ WireIsInOrder' /\ HandledIsNoted' /\ EntriesAreUnderWay' /\ MarksAreSound'
        /\ ConfirmedIsGone' /\ CommittedIsHandled'
    BY <1>1, Zenon DEF OutboxInv, WireIsInOrder, HandledIsNoted, EntriesAreUnderWay, MarksAreSound,
                ConfirmedIsGone, CommittedIsHandled
  <1> QED BY <1>2, <1>3, <1>4, <1>5, <1>6, Zenon DEF OutboxInv

\* A commit's answer drops only handled entries, and all those older than it.
LEMMA DeliverKeeps == ASSUME OutboxInv, Deliver PROVE OutboxInv'
  <1> USE OutboxConstants
  <1> DEFINE r == Head(replies)
             covered == IF r.kind = "commit" THEN Covered(r.mark) ELSE {}
  <1>t. NumbersOK
    BY TypeSplit, Zenon DEF OutboxInv
  <1>1. /\ ~closed /\ replies # <<>> /\ replies' = Tail(replies)
        /\ UNCHANGED <<next_req_id, wire, reading, highest, handled>>
        /\ alive' = alive /\ closed' = closed
    BY Zenon DEF Deliver
  <1>2. /\ replies' \in Seq(Reply) /\ Len(replies) \in Nat /\ Len(replies') = Len(replies) - 1
        /\ r = replies[1] /\ 1 \in 1..Len(replies)
        /\ \A i \in 1..Len(replies') : i + 1 \in 1..Len(replies) /\ replies'[i] = replies[i + 1]
    BY <1>1, <1>t, TailFacts, Zenon DEF NumbersOK
  <1>3. alive
    BY <1>1, <1>2 DEF OutboxInv, GoneIsSilent
  <1>4. /\ r.id \in ReqId /\ r.id \in Nat /\ r.mark \in Nat /\ r.mark <= highest /\ r.id < next_req_id
        /\ r.mark > 0 => \A n \in outbox : n <= r.id => n <= r.mark
    BY <1>2, QueuesAreTyped, Zenon DEF OutboxInv, MarksAreSound, IdsAreIssued
  <1>5. covered \subseteq handled
    <2> SUFFICES ASSUME NEW n \in outbox, n <= r.mark PROVE n \in handled
      BY Zenon DEF Covered
    <2>1. ASSUME NEW i \in 1..Len(wire), wire[i] = [id |-> n, kind |-> "report"] PROVE FALSE
      <3>1. wire[i].id = n /\ highest < wire[i].id
        BY <2>1 DEF OutboxInv, WireIsInOrder
      <3>2. n \in Nat /\ highest \in Nat
        BY <1>t DEF NumbersOK, ReqId
      <3> QED BY <1>4, <3>1, <3>2
    <2> QED BY <1>3, <2>1, Zenon DEF OutboxInv, EntriesAreUnderWay
  <1>6. covered \subseteq outbox
    BY Zenon DEF Covered
  <1>7. CASE r.id \notin pending
    <2>1. UNCHANGED <<pending, fired, outbox, acked, dropped, confirmed>>
      BY <1>7, Zenon DEF Deliver
    <2>2. OutboxTypeOK'
      <3>1. NumbersOK'
        BY <1>t, <1>1, <1>2, <2>1, Zenon DEF NumbersOK
      <3>2. closed' \in BOOLEAN /\ alive' \in BOOLEAN
        BY <1>1, Zenon DEF OutboxInv, OutboxTypeOK
      <3> QED BY <3>1, <3>2, TypeSplit, Zenon
    <2>3. IdsAreIssued' /\ MarksAreSound'
      BY <1>1, <1>2, <2>1, Zenon DEF OutboxInv, IdsAreIssued, MarksAreSound
    <2>4. GoneIsSilent'
      BY <1>1, <1>3, Zenon DEF GoneIsSilent
    <2>5. /\ WireIsInOrder' /\ HandledIsNoted' /\ EntriesAreUnderWay' /\ CalledBackOnce'
          /\ ConfirmedIsGone' /\ CommittedIsHandled'
      BY <1>1, <2>1, Zenon DEF OutboxInv, WireIsInOrder, HandledIsNoted, EntriesAreUnderWay, CalledBackOnce,
                        ConfirmedIsGone, CommittedIsHandled
    <2> QED BY <2>2, <2>3, <2>4, <2>5, Zenon DEF OutboxInv
  <1>8. CASE r.id \in pending
    <2>1. /\ pending' = pending \ {r.id} /\ CallBack({r.id})
          /\ outbox' = outbox \ covered /\ dropped' = dropped \union covered
          /\ acked' = (acked \union Marked(r.id)) \ covered
          /\ confirmed' = IF r.mark > 0 THEN r.id ELSE confirmed
      BY <1>8, Zenon DEF Deliver
    <2>c. r.mark > 0 => covered = {n \in outbox : n <= r.mark}
      BY <1>2, Zenon DEF OutboxInv, MarksAreSound, Covered
    <2> HIDE DEF covered, r
    <2>f. fired' \in [ReqId -> Nat]
      BY <1>t, <2>1 DEF NumbersOK, CallBack
    <2>2. OutboxTypeOK'
      <3>1. acked' \subseteq outbox'
        BY <1>t, <2>1, Zenon DEF NumbersOK, Marked
      <3>2. confirmed' \in 0..MaxRequests
        BY <1>t, <1>4, <2>1 DEF NumbersOK, ReqId
      <3>3. NumbersOK'
        BY <1>t, <1>1, <1>2, <1>6, <2>1, <2>f, <3>1, <3>2, Zenon DEF NumbersOK
      <3>4. closed' \in BOOLEAN /\ alive' \in BOOLEAN
        BY <1>1, Zenon DEF OutboxInv, OutboxTypeOK
      <3> QED BY <3>3, <3>4, TypeSplit, Zenon
    <2>3. IdsAreIssued'
      BY <1>1, <1>2, <1>4, <2>1, Zenon DEF OutboxInv, IdsAreIssued
    <2>4. MarksAreSound'
      BY <1>1, <1>2, <2>1 DEF OutboxInv, MarksAreSound
    <2>5. GoneIsSilent'
      BY <1>1, <1>3, Zenon DEF GoneIsSilent
    <2>6. CalledBackOnce'
      BY <1>t, <1>1, <1>4, <1>8, <2>1, SMTT(30) DEF OutboxInv, CalledBackOnce, CallBack, NumbersOK, ReqId
    <2>7. ConfirmedIsGone'
      BY <1>t, <1>4, <2>1, <2>c DEF OutboxInv, ConfirmedIsGone, NumbersOK, ReqId
    <2>8. CommittedIsHandled'
      BY <1>1, <1>5, <2>1, Zenon DEF OutboxInv, CommittedIsHandled
    <2>9. WireIsInOrder' /\ HandledIsNoted' /\ EntriesAreUnderWay'
      BY <1>1, <2>1, Zenon DEF OutboxInv, WireIsInOrder, HandledIsNoted, EntriesAreUnderWay
    <2> QED BY <2>2, <2>3, <2>4, <2>5, <2>6, <2>7, <2>8, <2>9, Zenon DEF OutboxInv
  <1> QED BY <1>7, <1>8, Zenon

\* Every step of the outbox keeps the inductive invariant.
LEMMA StepKeeps == OutboxInv /\ [OutboxNext]_outboxVars => OutboxInv'
  <1> SUFFICES ASSUME OutboxInv, [OutboxNext]_outboxVars PROVE OutboxInv'
    BY Zenon
  <1>1. ASSUME Report PROVE OutboxInv'
    BY <1>1, SendKeeps, Zenon DEF Report, Kind
  <1>2. CASE Admit
    BY <1>1, <1>2, Zenon DEF Admit
  <1>3. CASE ReportResults
    BY <1>1, <1>3, Zenon DEF ReportResults
  <1>4. ASSUME NEW kind \in Kind, OtherRequest(kind) PROVE OutboxInv'
    BY <1>4, SendKeeps, Zenon DEF OtherRequest
  <1>5. CASE Commit
    BY <1>5, SendKeeps, Zenon DEF Commit, Kind
  <1>6. CASE DrainCommit
    BY <1>6, SendKeeps, Zenon DEF DrainCommit, Kind
  <1>7. CASE Deliver
    BY <1>7, DeliverKeeps, Zenon
  <1>8. ASSUME NEW n \in pending, TimeOut(n) PROVE OutboxInv'
    <2>1. /\ {n} \in SUBSET pending /\ CallBack({n}) /\ pending' = pending \ {n}
          /\ UNCHANGED <<next_req_id, outbox, acked, dropped, confirmed>> /\ UNCHANGED helperVars
      BY <1>8, Zenon DEF TimeOut
    <2>2. closed' \in BOOLEAN /\ (closed' => closed \/ ~alive)
      BY <1>8, Zenon DEF TimeOut, OutboxInv, OutboxTypeOK
    <2> QED BY <2>1, <2>2, FailKeeps, Zenon
  <1>9. CASE NoticeDeath
    <2>1. /\ pending \in SUBSET pending /\ CallBack(pending) /\ pending' = pending \ pending
          /\ UNCHANGED <<next_req_id, outbox, acked, dropped, confirmed>> /\ UNCHANGED helperVars
      BY <1>9, Zenon DEF NoticeDeath, FailAll
    <2>2. closed' \in BOOLEAN /\ (closed' => closed \/ ~alive)
      BY <1>9, Zenon DEF NoticeDeath, FailAll
    <2> QED BY <2>1, <2>2, FailKeeps, Zenon
  <1>10. CASE HelperWrites
    BY <1>10, HelperWritesKeeps, Zenon
  <1>11. ASSUME NEW ok \in BOOLEAN, HelperCommits(ok) PROVE OutboxInv'
    BY <1>11, HelperCommitsKeeps, Zenon
  <1>12. CASE HelperStartsRead
    BY <1>12, HelperStartsReadKeeps, Zenon
  <1>13. ASSUME NEW n \in reading, HelperReads(n) PROVE OutboxInv'
    BY <1>13, HelperReadsKeeps, Zenon
  <1>14. CASE HelperDies
    BY <1>14, HelperDiesKeeps, Zenon
  <1>15. CASE UNCHANGED outboxVars
    BY <1>15, Zenon DEF outboxVars, OutboxInv, OutboxTypeOK, IdsAreIssued, WireIsInOrder, HandledIsNoted,
       EntriesAreUnderWay, MarksAreSound, GoneIsSilent, CalledBackOnce, CommittedIsHandled,
       ConfirmedIsGone
  <1> QED
    BY <1>2, <1>3, <1>4, <1>5, <1>6, <1>7, <1>8, <1>9, <1>10, <1>11, <1>12, <1>13, <1>14, <1>15, Zenon DEF OutboxNext

\* OutboxInv holds in every reachable state.
THEOREM OutboxInvariance == OutboxSpec => []OutboxInv
  BY InitEstablishes, StepKeeps, PTL DEF OutboxSpec

\* The state of HelperClient, StorageClient and the helper stays typed.
THEOREM OutboxTypeCorrect == OutboxSpec => []OutboxTypeOK
  <1>1. OutboxInv => OutboxTypeOK
    BY Zenon DEF OutboxInv
  <1> QED BY <1>1, OutboxInvariance, PTL

\* Whatever answers, deadlines and the helper's death race, every request is
\* called back exactly once.
THEOREM EachRequestIsCalledBackOnce == OutboxSpec => []CalledBackOnce
  <1>1. OutboxInv => CalledBackOnce
    BY Zenon DEF OutboxInv
  <1> QED BY <1>1, OutboxInvariance, PTL

\* A commit's answer never drops an entry the helper has not dealt with.
THEOREM OnlyHandledIsCommitted == OutboxSpec => []CommittedIsHandled
  <1>1. OutboxInv => CommittedIsHandled
    BY Zenon DEF OutboxInv
  <1> QED BY <1>1, OutboxInvariance, PTL

\* A confirmed commit leaves no older entry in the outbox.
THEOREM ConfirmedLeavesNothing == OutboxSpec => []ConfirmedIsGone
  <1>1. OutboxInv => ConfirmedIsGone
    BY Zenon DEF OutboxInv
  <1> QED BY <1>1, OutboxInvariance, PTL
-----------------------------------------------------------------------------
(***************************************************************************)
(* Proofs about FeedStream for every buffer size and number of             *)
(* subscribers.  LossesAreNoticed is not inductive by itself: it needs     *)
(* that the events under way are in order and all newer than the last one  *)
(* applied, and that the very first event is never the one dropped.        *)
(***************************************************************************)

\* The events under way increase and lie between the last one applied and the
\* last one emitted.
InOrder ==
    /\ last_seq <= seq
    /\ \A i \in 1..Len(stream) : last_seq < stream[i] /\ stream[i] <= seq
    /\ \A i, j \in 1..Len(stream) : i < j => stream[i] < stream[j]

\* Until the helper has applied anything, event 1 is the next it will see.
FirstIsKept ==
    last_seq = 0 /\ feed_alive /\ seq > 0 => Len(stream) > 0 /\ stream[1] = 1

\* The publisher closes only after the helper has gone, and a helper that has
\* gone decodes nothing.
FeedGoneIsSilent ==
    /\ feed_closed => ~feed_alive
    /\ ~feed_alive => got = 0

FeedInv ==
    /\ FeedTypeOK
    /\ InOrder
    /\ FirstIsKept
    /\ FeedGoneIsSilent
    /\ LossesAreNoticed
    /\ SubscribersAreCurrent
    /\ BufferedIsArmed

\* Taking events off the front or the back of the stream keeps what InOrder
\* says of it.
LEMMA SubSeqKeepsOrder ==
    ASSUME stream \in Seq(Nat), NEW m \in Nat, NEW n \in Nat,
           m >= 1, n <= Len(stream), InOrder, last_seq \in Nat, seq \in Nat
    PROVE  LET t == SubSeq(stream, m, n)
           IN /\ t \in Seq(Nat)
              /\ Len(t) = IF m <= n THEN n - m + 1 ELSE 0
              /\ \A i \in 1..Len(t) : t[i] = stream[m + i - 1]
              /\ \A i \in 1..Len(t) : last_seq < t[i] /\ t[i] <= seq
              /\ \A i, j \in 1..Len(t) : i < j => t[i] < t[j]
  <1> DEFINE t == SubSeq(stream, m, n)
  <1>1. /\ t \in Seq(Nat)
        /\ Len(t) = IF m <= n THEN n - m + 1 ELSE 0
        /\ \A i \in 1..Len(t) : t[i] = stream[m + i - 1]
    OBVIOUS
  <1>2. \A i \in 1..Len(t) : m + i - 1 \in 1..Len(stream)
    BY <1>1
  <1> HIDE DEF t
  <1>3. \A i \in 1..Len(t) : last_seq < t[i] /\ t[i] <= seq
    BY <1>1, <1>2, Zenon DEF InOrder
  <1>4. \A i, j \in 1..Len(t) : i < j => t[i] < t[j]
    <2> SUFFICES ASSUME NEW i \in 1..Len(t), NEW j \in 1..Len(t), i < j
                 PROVE  t[i] < t[j]
      BY Zenon
    <2>1. m + i - 1 \in 1..Len(stream) /\ m + j - 1 \in 1..Len(stream)
      BY <1>2, Zenon
    <2>2. m + i - 1 < m + j - 1
      BY <1>1
    <2>3. stream[m + i - 1] < stream[m + j - 1]
      BY <2>1, <2>2, Zenon DEF InOrder
    <2> QED
      BY <1>1, <2>3, Zenon
  <1> QED
    BY <1>1, <1>3, <1>4, Zenon DEF t

\* The initial state satisfies the invariant.
LEMMA FeedInitEstablishes ==
    FeedInit => FeedInv
  <1> SUFFICES ASSUME FeedInit PROVE FeedInv
    BY Zenon
  <1>1. FeedTypeOK
    <2>1. /\ conn \in [Sub -> Conn] /\ queued \in [Sub -> 0..SubCap]
          /\ told \in [Sub -> Nat]
      BY CapsArePositive DEF FeedInit, Conn
    <2>2. stream \in Seq(Nat) /\ Len(stream) = 0
      BY DEF FeedInit
    <2> QED
      <3>1. armed \in BOOLEAN /\ feed_closed \in BOOLEAN /\ feed_alive \in BOOLEAN
        BY Zenon DEF FeedInit
      <3>2. /\ seq \in Nat /\ got \in Nat /\ piped \in Nat /\ got <= piped
            /\ piped <= Len(stream) /\ piped - got <= PipeCap
            /\ Len(stream) - piped <= OutCap
            /\ last_seq \in Nat /\ gaps \in Nat /\ applied \subseteq Nat
        BY <2>2, CapsArePositive DEF FeedInit
      <3> QED
        BY <2>1, <2>2, <3>1, <3>2, Zenon DEF FeedTypeOK
  <1>2. LossesAreNoticed
    <2>1. 1..0 = {}
      OBVIOUS
    <2> QED
      BY <2>1, Zenon DEF FeedInit, LossesAreNoticed
  <1> QED
    BY <1>1, <1>2 DEF FeedInit, FeedInv, InOrder, FirstIsKept, FeedGoneIsSilent,
                      SubscribersAreCurrent, BufferedIsArmed

\* A new event is appended, or lost to a full buffer or a dead helper.
LEMMA PublishKeeps ==
    ASSUME FeedInv, Publish
    PROVE  FeedInv'
  <1> USE CapsArePositive
  <1>1. UNCHANGED <<feed_alive, last_seq, gaps, applied, conn, queued, told>> /\ seq' = seq + 1
    BY Zenon DEF Publish, feedHelperVars, subVars
  <1>2. LossesAreNoticed' /\ SubscribersAreCurrent'
    BY <1>1, Zenon DEF FeedInv, LossesAreNoticed, SubscribersAreCurrent
  <1>3. CASE feed_closed \/ Len(stream) - piped >= OutCap
    <2>1. UNCHANGED <<stream, piped, got, armed, feed_closed>>
      BY <1>3, Zenon DEF Publish
    <2>2. FeedTypeOK'
      BY <1>1, <2>1 DEF FeedInv, FeedTypeOK
    <2>3. InOrder'
      BY <1>1, <2>1 DEF FeedInv, InOrder, FeedTypeOK
    <2>4. FirstIsKept'
      <3> SUFFICES ASSUME last_seq = 0, feed_alive PROVE Len(stream) > 0 /\ stream[1] = 1
        BY <1>1, <2>1, Zenon DEF FirstIsKept
      <3>1. seq # 0
        <4> SUFFICES ASSUME seq = 0 PROVE FALSE
          BY Zenon
        <4>1. Len(stream) = 0
          BY SMTT(30) DEF FeedInv, InOrder, FeedTypeOK
        <4> QED
          BY <4>1, <1>3 DEF FeedInv, FeedGoneIsSilent, FeedTypeOK
      <3> QED
        BY <3>1 DEF FeedInv, FirstIsKept, FeedTypeOK
    <2>5. FeedGoneIsSilent' /\ BufferedIsArmed'
      BY <1>1, <2>1, Zenon DEF FeedInv, FeedGoneIsSilent, BufferedIsArmed
    <2> QED
      BY <1>2, <2>2, <2>3, <2>4, <2>5, Zenon DEF FeedInv
  <1>4. CASE ~(feed_closed \/ Len(stream) - piped >= OutCap) /\ ~feed_alive
    <2>1. /\ feed_closed' = TRUE /\ armed' = FALSE
          /\ stream' = SubSeq(stream, 1, piped)
          /\ UNCHANGED <<piped, got>>
      BY <1>4, Zenon DEF Publish, GiveUp
    <2>2. /\ stream' \in Seq(Nat) /\ Len(stream') = piped
          /\ \A i \in 1..Len(stream') : last_seq < stream'[i] /\ stream'[i] <= seq
          /\ \A i, j \in 1..Len(stream') : i < j => stream'[i] < stream'[j]
      <3>1. /\ stream \in Seq(Nat) /\ piped \in Nat /\ piped <= Len(stream) /\ InOrder
            /\ last_seq \in Nat /\ seq \in Nat
        BY Zenon DEF FeedInv, FeedTypeOK
      <3>2. 1 \in Nat /\ 1 >= 1 /\ (IF 1 <= piped THEN piped - 1 + 1 ELSE 0) = piped
        BY <3>1
      <3> QED
        BY <2>1, <3>1, <3>2, SubSeqKeepsOrder, Zenon
    <2>3. FeedTypeOK'
      <3>1. seq' \in Nat /\ piped' <= Len(stream') /\ Len(stream') - piped' <= OutCap
        BY <1>1, <2>1, <2>2 DEF FeedInv, FeedTypeOK
      <3>2. armed' \in BOOLEAN /\ feed_closed' \in BOOLEAN /\ feed_alive' \in BOOLEAN
        BY <1>1, <2>1, Zenon DEF FeedInv, FeedTypeOK
      <3>3. piped' - got' <= PipeCap /\ got' <= piped'
        BY <2>1, Zenon DEF FeedInv, FeedTypeOK
      <3> QED
        BY <1>1, <2>1, <2>2, <3>1, <3>2, <3>3, Zenon DEF FeedInv, FeedTypeOK
    <2>4. InOrder'
      BY <1>1, <2>2 DEF FeedInv, InOrder, FeedTypeOK
    <2>5. FirstIsKept' /\ FeedGoneIsSilent' /\ BufferedIsArmed'
      BY <1>1, <1>4, <2>1, Zenon DEF FeedInv, FirstIsKept, FeedGoneIsSilent, BufferedIsArmed
    <2> QED
      BY <1>2, <2>3, <2>4, <2>5, Zenon DEF FeedInv
  <1>5. CASE ~(feed_closed \/ Len(stream) - piped >= OutCap) /\ feed_alive
    <2>1. /\ stream' = Append(stream, seq + 1)
          /\ piped' = Written(Len(stream) + 1) /\ armed' = Armed(Len(stream) + 1)
          /\ UNCHANGED <<got, feed_closed>>
      BY <1>5, Zenon DEF Publish
    <2>2. /\ stream' \in Seq(Nat) /\ Len(stream') = Len(stream) + 1
          /\ \A i \in 1..Len(stream) : stream'[i] = stream[i]
          /\ stream'[Len(stream) + 1] = seq + 1
      BY <2>1 DEF FeedInv, FeedTypeOK
    <2>3. /\ piped' \in Nat /\ got <= piped' /\ piped' <= Len(stream')
          /\ piped' - got <= PipeCap /\ Len(stream') - piped' <= OutCap
      BY <1>5, <2>1, <2>2 DEF FeedInv, FeedTypeOK, Written
    <2>4. armed' \in BOOLEAN /\ (armed' <=> piped' < Len(stream'))
      <3>1. CASE Written(Len(stream) + 1) < Len(stream) + 1
        <4>1. Armed(Len(stream) + 1) = TRUE
          BY <3>1, Zenon DEF Armed
        <4>2. armed' = TRUE
          BY <2>1, <4>1, Zenon
        <4> QED
          BY <2>1, <2>2, <3>1, <4>2, Zenon
      <3>2. CASE ~(Written(Len(stream) + 1) < Len(stream) + 1)
        <4>1. Armed(Len(stream) + 1) = FALSE
          BY <3>2 DEF Armed
        <4>2. armed' = FALSE
          BY <2>1, <4>1, Zenon
        <4> QED
          BY <2>1, <2>2, <3>2, <4>2, Zenon
      <3> QED
        BY <3>1, <3>2, Zenon
    <2>5. FeedTypeOK'
      BY <1>1, <2>1, <2>2, <2>3, <2>4, SMTT(30) DEF FeedInv, FeedTypeOK
    <2>6. InOrder'
      <3>1. last_seq \in Nat /\ seq \in Nat /\ Len(stream) \in Nat
        BY DEF FeedInv, FeedTypeOK
      <3>2. \A i \in 1..Len(stream) : stream[i] \in Nat
        BY DEF FeedInv, FeedTypeOK
      <3>3. \A i \in 1..(Len(stream) + 1) : i \in 1..Len(stream) \/ i = Len(stream) + 1
        BY <3>1
      <3> QED
        <4>1. last_seq' <= seq'
          BY <1>1, <3>1 DEF FeedInv, InOrder
        <4>2. \A i \in 1..Len(stream') : last_seq' < stream'[i] /\ stream'[i] <= seq'
          <5> SUFFICES ASSUME NEW i \in 1..Len(stream')
                       PROVE  last_seq < stream'[i] /\ stream'[i] <= seq + 1
            BY <1>1, Zenon
          <5>1. CASE i \in 1..Len(stream)
            BY <5>1, <2>2, <3>1, <3>2, SMTT(30) DEF FeedInv, InOrder
          <5>2. CASE i = Len(stream) + 1
            BY <5>2, <2>2, <3>1 DEF FeedInv, InOrder
          <5> QED
            BY <5>1, <5>2, <2>2, <3>3, Zenon
        <4>3. \A i, j \in 1..Len(stream') : i < j => stream'[i] < stream'[j]
          <5> SUFFICES ASSUME NEW i \in 1..Len(stream'), NEW j \in 1..Len(stream'), i < j
                       PROVE  stream'[i] < stream'[j]
            BY Zenon
          <5>1. i \in 1..Len(stream)
            BY <2>2, <3>1
          <5>2. CASE j \in 1..Len(stream)
            BY <5>1, <5>2, <2>2, Zenon DEF FeedInv, InOrder
          <5>3. CASE j = Len(stream) + 1
            <6>1. stream[i] <= seq /\ stream[i] \in Nat
              BY <5>1, <3>2, Zenon DEF FeedInv, InOrder
            <6> QED
              BY <5>1, <5>3, <6>1, <2>2, <3>1
          <5> QED
            BY <5>2, <5>3, <2>2, <3>3, Zenon
        <4> QED
          BY <4>1, <4>2, <4>3, Zenon DEF InOrder
    <2>7. FirstIsKept'
      <3>1. CASE seq = 0
        <4>1. Len(stream) = 0
          BY <3>1 DEF FeedInv, InOrder, FeedTypeOK
        <4> QED
          BY <3>1, <4>1, <2>2 DEF FirstIsKept
      <3>2. CASE seq > 0
        BY <3>2, <1>1, <2>2, SMTT(30) DEF FeedInv, FirstIsKept, FeedTypeOK
      <3> QED
        BY <3>1, <3>2 DEF FeedInv, FeedTypeOK
    <2>8. FeedGoneIsSilent' /\ BufferedIsArmed'
      BY <1>1, <1>5, <2>1, <2>4, Zenon DEF FeedInv, FeedGoneIsSilent, BufferedIsArmed
    <2> QED
      BY <1>2, <2>5, <2>6, <2>7, <2>8, Zenon DEF FeedInv
  <1> QED
    BY <1>3, <1>4, <1>5, Zenon

\* Writing to the pipe moves the mark between what is buffered and what is in the pipe.
LEMMA FlushKeeps ==
    ASSUME FeedInv, Flush
    PROVE  FeedInv'
  <1> USE CapsArePositive
  <1>1. /\ UNCHANGED <<seq, feed_closed, stream, got, feed_alive, last_seq, gaps, applied>>
        /\ UNCHANGED <<conn, queued, told>>
        /\ piped' = Written(Len(stream)) /\ armed' = Armed(Len(stream))
    BY Zenon DEF Flush, feedHelperVars, subVars
  <1>2. /\ piped' \in Nat /\ got <= piped' /\ piped' <= Len(stream)
        /\ piped' - got <= PipeCap /\ Len(stream) - piped' <= OutCap
    BY <1>1 DEF FeedInv, FeedTypeOK, Written
  <1>3. armed' \in BOOLEAN /\ (armed' <=> piped' < Len(stream))
    <2>1. CASE Written(Len(stream)) < Len(stream)
      <3>1. Armed(Len(stream)) = TRUE
        BY <2>1, Zenon DEF Armed
      <3>2. armed' = TRUE
        BY <1>1, <3>1, Zenon
      <3> QED
        BY <1>1, <2>1, <3>2, Zenon
    <2>2. CASE ~(Written(Len(stream)) < Len(stream))
      <3>1. Armed(Len(stream)) = FALSE
        BY <2>2 DEF Armed
      <3>2. armed' = FALSE
        BY <1>1, <3>1, Zenon
      <3> QED
        BY <1>1, <2>2, <3>2, Zenon
    <2> QED
      BY <2>1, <2>2, Zenon
  <1>4. FeedTypeOK'
    BY <1>1, <1>2, <1>3, Zenon DEF FeedInv, FeedTypeOK
  <1>5. InOrder' /\ FirstIsKept' /\ FeedGoneIsSilent' /\ LossesAreNoticed' /\ SubscribersAreCurrent'
    BY <1>1, Zenon DEF FeedInv, InOrder, FirstIsKept, FeedGoneIsSilent, LossesAreNoticed,
                SubscribersAreCurrent
  <1>6. BufferedIsArmed'
    BY <1>1, <1>3, Zenon DEF BufferedIsArmed
  <1> QED
    BY <1>4, <1>5, <1>6, Zenon DEF FeedInv

\* Once the helper is gone, giving up drops only what was buffered for it.
LEMMA NoticeExitKeeps ==
    ASSUME FeedInv, NoticeExit
    PROVE  FeedInv'
  <1>1. /\ UNCHANGED <<seq, piped, got, feed_alive, last_seq, gaps, applied, conn, queued, told>>
        /\ ~feed_alive /\ feed_closed' = TRUE /\ armed' = FALSE
        /\ stream' = SubSeq(stream, 1, piped)
    BY Zenon DEF NoticeExit, GiveUp, feedHelperVars, subVars
  <1>2. /\ stream' \in Seq(Nat) /\ Len(stream') = piped
        /\ \A i \in 1..Len(stream') : last_seq < stream'[i] /\ stream'[i] <= seq
        /\ \A i, j \in 1..Len(stream') : i < j => stream'[i] < stream'[j]
    <2>1. /\ stream \in Seq(Nat) /\ piped \in Nat /\ piped <= Len(stream) /\ InOrder
          /\ last_seq \in Nat /\ seq \in Nat
      BY Zenon DEF FeedInv, FeedTypeOK
    <2>2. 1 \in Nat /\ 1 >= 1 /\ (IF 1 <= piped THEN piped - 1 + 1 ELSE 0) = piped
      BY <2>1
    <2> QED
      BY <1>1, <2>1, <2>2, SubSeqKeepsOrder, Zenon
  <1>3. FeedTypeOK'
    <2>1. piped <= Len(stream') /\ Len(stream') - piped <= OutCap
      BY <1>2, CapsArePositive DEF FeedInv, FeedTypeOK
    <2>2. armed' \in BOOLEAN /\ feed_closed' \in BOOLEAN
      BY <1>1, Zenon
    <2> QED
      BY <1>1, <1>2, <2>1, <2>2, Zenon DEF FeedInv, FeedTypeOK
  <1>4. InOrder'
    BY <1>1, <1>2, Zenon DEF FeedInv, InOrder
  <1>5. FirstIsKept' /\ BufferedIsArmed'
    BY <1>1, Zenon DEF FirstIsKept, BufferedIsArmed
  <1>6. FeedGoneIsSilent' /\ LossesAreNoticed' /\ SubscribersAreCurrent'
    BY <1>1, Zenon DEF FeedInv, FeedGoneIsSilent, LossesAreNoticed, SubscribersAreCurrent
  <1> QED
    BY <1>3, <1>4, <1>5, <1>6, Zenon DEF FeedInv

\* Reading the pipe empties it into the helper's input buffer.
LEMMA ReadStdinKeeps ==
    ASSUME FeedInv, ReadStdin
    PROVE  FeedInv'
  <1>1. /\ UNCHANGED <<seq, stream, piped, armed, feed_closed, feed_alive, last_seq, gaps, applied>>
        /\ UNCHANGED <<conn, queued, told>>
        /\ feed_alive /\ got' = piped
    BY Zenon DEF ReadStdin, publisherVars, feedHelperVars, subVars
  <1>2. /\ got' \in Nat /\ got' <= piped /\ piped - got' <= PipeCap
    BY <1>1, CapsArePositive DEF FeedInv, FeedTypeOK
  <1>3. FeedTypeOK'
    BY <1>1, <1>2, Zenon DEF FeedInv, FeedTypeOK
  <1>4. InOrder' /\ FirstIsKept' /\ LossesAreNoticed' /\ SubscribersAreCurrent' /\ BufferedIsArmed'
    BY <1>1, Zenon DEF FeedInv, InOrder, FirstIsKept, LossesAreNoticed, SubscribersAreCurrent,
                BufferedIsArmed
  <1>5. FeedGoneIsSilent'
    BY <1>1, Zenon DEF FeedInv, FeedGoneIsSilent
  <1> QED
    BY <1>3, <1>4, <1>5, Zenon DEF FeedInv

\* What the helper and the pipe held is lost with the helper, but nothing is decoded
\* after it.
LEMMA HelperExitKeeps ==
    ASSUME FeedInv, HelperExit
    PROVE  FeedInv'
  <1>1. /\ UNCHANGED <<seq, armed, feed_closed, last_seq, gaps, applied, told>>
        /\ feed_alive' = FALSE /\ piped' = 0 /\ got' = 0
        /\ conn' = [s \in Sub |-> "none"] /\ queued' = [s \in Sub |-> 0]
        /\ stream' = SubSeq(stream, piped + 1, Len(stream))
    BY Zenon DEF HelperExit, publisherVars
  <1>2. /\ stream' \in Seq(Nat) /\ Len(stream') = Len(stream) - piped
        /\ \A i \in 1..Len(stream') : last_seq < stream'[i] /\ stream'[i] <= seq
        /\ \A i, j \in 1..Len(stream') : i < j => stream'[i] < stream'[j]
    <2>1. /\ stream \in Seq(Nat) /\ piped \in Nat /\ piped <= Len(stream) /\ InOrder
          /\ last_seq \in Nat /\ seq \in Nat /\ Len(stream) \in Nat
      BY DEF FeedInv, FeedTypeOK
    <2>2. piped + 1 \in Nat /\ piped + 1 >= 1 /\ Len(stream) <= Len(stream)
          /\ (IF piped + 1 <= Len(stream) THEN Len(stream) - (piped + 1) + 1 ELSE 0)
                = Len(stream) - piped
      BY <2>1
    <2> QED
      BY <1>1, <2>1, <2>2, SubSeqKeepsOrder, Zenon
  <1>3. FeedTypeOK'
    <2>1. /\ piped' \in Nat /\ got' \in Nat /\ got' <= piped' /\ piped' <= Len(stream')
          /\ piped' - got' <= PipeCap /\ Len(stream') - piped' <= OutCap
      BY <1>1, <1>2, CapsArePositive DEF FeedInv, FeedTypeOK
    <2>2. conn' \in [Sub -> Conn] /\ queued' \in [Sub -> 0..SubCap]
      BY <1>1, CapsArePositive DEF Conn
    <2>3. feed_alive' \in BOOLEAN
      BY <1>1, Zenon
    <2> QED
      BY <1>1, <1>2, <2>1, <2>2, <2>3, Zenon DEF FeedInv, FeedTypeOK
  <1>4. InOrder'
    BY <1>1, <1>2, Zenon DEF FeedInv, InOrder
  <1>5. FirstIsKept' /\ FeedGoneIsSilent' /\ BufferedIsArmed'
    BY <1>1, Zenon DEF FirstIsKept, FeedGoneIsSilent, BufferedIsArmed
  <1>6. LossesAreNoticed' /\ SubscribersAreCurrent'
    BY <1>1, Zenon DEF FeedInv, LossesAreNoticed, SubscribersAreCurrent
  <1> QED
    BY <1>3, <1>4, <1>5, <1>6, Zenon DEF FeedInv

\* Decoding takes the oldest event; either it continues the replica's sequence or a gap
\* is counted.
LEMMA DecodeKeeps ==
    ASSUME FeedInv, NEW drained \in SUBSET Sub, NEW failed \in SUBSET Sub, Decode(drained, failed)
    PROVE  FeedInv'
  <1> DEFINE ev == stream[1]
  <1>1. /\ stream \in Seq(Nat) /\ Len(stream) \in Nat /\ Len(stream) > 0
        /\ got \in Nat /\ piped \in Nat /\ got > 0 /\ got <= piped /\ piped <= Len(stream)
        /\ seq \in Nat /\ last_seq \in Nat /\ gaps \in Nat
    BY DEF FeedInv, FeedTypeOK, Decode
  <1>2. Head(stream) = ev /\ ev \in Nat /\ last_seq < ev /\ ev <= seq
    BY <1>1, SMTT(30) DEF FeedInv, InOrder
  <1>3. /\ stream' \in Seq(Nat) /\ Len(stream') = Len(stream) - 1
        /\ \A i \in 1..Len(stream') : stream'[i] = stream[i + 1] /\ i + 1 \in 1..Len(stream)
    <2>1. stream' = Tail(stream)
      BY Zenon DEF Decode
    <2>2. stream \in Seq(Nat) /\ Len(stream) > 0
      BY <1>1, Zenon
    <2> QED
      BY <2>1, <2>2
  <1>4. /\ UNCHANGED <<seq, armed, feed_closed, feed_alive>>
        /\ piped' = piped - 1 /\ got' = got - 1
        /\ gaps' = IF GapAt(ev) THEN gaps + 1 ELSE gaps
        /\ applied' = applied \union {ev}
    <2>1. UNCHANGED publisherVars /\ UNCHANGED feed_alive
      BY Zenon DEF Decode
    <2>2. UNCHANGED <<seq, armed, feed_closed, feed_alive>>
      BY <2>1, Zenon DEF publisherVars
    <2>3. /\ piped' = piped - 1 /\ got' = got - 1
          /\ gaps' = IF GapAt(Head(stream)) THEN gaps + 1 ELSE gaps
          /\ applied' = applied \union {Head(stream)}
      BY Zenon DEF Decode
    <2> QED
      BY <1>2, <2>2, <2>3, Zenon
  <1>5. last_seq' = ev
    BY <1>1, <1>2, Zenon DEF Decode
  <1> HIDE DEF ev
  <1>6. feed_alive
    BY <1>1 DEF FeedInv, FeedGoneIsSilent
  <1>7. FeedTypeOK'
    <2>1. /\ piped' \in Nat /\ got' \in Nat /\ got' <= piped' /\ piped' <= Len(stream')
          /\ piped' - got' <= PipeCap /\ Len(stream') - piped' <= OutCap
      <3>1. /\ PipeCap \in Nat /\ OutCap \in Nat
            /\ piped - got <= PipeCap /\ Len(stream) - piped <= OutCap
        BY CapsArePositive, Zenon DEF FeedInv, FeedTypeOK
      <3>2. piped' = piped - 1 /\ got' = got - 1 /\ Len(stream') = Len(stream) - 1
        BY <1>3, <1>4, Zenon
      <3> QED
        BY <1>1, <3>1, <3>2, SMTT(30)
    <2>2. last_seq' \in Nat /\ gaps' \in Nat /\ applied' \subseteq Nat
      BY <1>1, <1>2, <1>4, <1>5, SMTT(30) DEF FeedInv, FeedTypeOK
    <2>3. conn' \in [Sub -> Conn]
      BY Zenon DEF FeedInv, FeedTypeOK, Decode, ConnAfterLine, Conn
    <2>4. told' \in [Sub -> Nat]
      BY <1>2, Zenon DEF FeedInv, FeedTypeOK, Decode
    <2>5. queued' \in [Sub -> 0..SubCap]
      BY CapsArePositive, SMTT(30) DEF FeedInv, FeedTypeOK, Decode, Overflows
    <2> QED
      BY <1>3, <1>4, <2>1, <2>2, <2>3, <2>4, <2>5, Zenon DEF FeedInv, FeedTypeOK
  <1>8. InOrder'
    <2>1. \A i \in 1..Len(stream) : stream[i] \in Nat
      BY <1>1
    <2>2. \A i \in 1..Len(stream') : last_seq' < stream'[i] /\ stream'[i] <= seq'
      <3> SUFFICES ASSUME NEW i \in 1..Len(stream')
                   PROVE  ev < stream'[i] /\ stream'[i] <= seq
        BY <1>4, <1>5, Zenon
      <3>a. i + 1 \in 1..Len(stream)
        BY <1>3, Zenon
      <3>b. 1 \in 1..Len(stream) /\ 1 < i + 1
        BY <1>1
      <3>1. 1 \in 1..Len(stream) /\ i + 1 \in 1..Len(stream) /\ 1 < i + 1
        BY <3>a, <3>b, Zenon
      <3>2. stream[1] < stream[i + 1] /\ stream[i + 1] <= seq
        BY <3>1, Zenon DEF FeedInv, InOrder
      <3> QED
        BY <1>3, <3>2, Zenon DEF ev
    <2>3. \A i, j \in 1..Len(stream') : i < j => stream'[i] < stream'[j]
      <3> SUFFICES ASSUME NEW i \in 1..Len(stream'), NEW j \in 1..Len(stream'), i < j
                   PROVE  stream'[i] < stream'[j]
        BY Zenon
      <3>1. i + 1 \in 1..Len(stream) /\ j + 1 \in 1..Len(stream) /\ i + 1 < j + 1
        BY <1>3
      <3>2. stream[i + 1] < stream[j + 1]
        BY <3>1, Zenon DEF FeedInv, InOrder
      <3> QED
        BY <1>3, <3>2, Zenon
    <2> QED
      BY <1>2, <1>4, <1>5, <2>2, <2>3, Zenon DEF InOrder
  <1>9. FirstIsKept'
    BY <1>1, <1>2, <1>5 DEF FirstIsKept
  <1>10. FeedGoneIsSilent' /\ BufferedIsArmed'
    <2>1. piped' < Len(stream') <=> piped < Len(stream)
      BY <1>1, <1>3, <1>4
    <2> QED
      BY <1>4, <1>6, <2>1, Zenon DEF FeedInv, FeedGoneIsSilent, BufferedIsArmed
  <1>11. LossesAreNoticed'
    <2> SUFFICES ASSUME gaps' = 0 PROVE applied \union {ev} = 1..ev
      BY <1>4, <1>5, Zenon DEF LossesAreNoticed
    <2>1. ~GapAt(ev) /\ gaps = 0
      BY <1>1, <1>4
    <2>2. applied = 1..last_seq
      BY <2>1, Zenon DEF FeedInv, LossesAreNoticed
    <2>3. ev = last_seq + 1
      <3>1. CASE last_seq = 0
        BY <3>1, <1>1, <1>2, <1>6 DEF FeedInv, FirstIsKept, ev
      <3>2. CASE last_seq # 0
        BY <3>2, <2>1, Zenon DEF GapAt
      <3> QED
        BY <3>1, <3>2, Zenon
    <2> QED
      BY <1>1, <2>2, <2>3
  <1>12. SubscribersAreCurrent'
    <2> SUFFICES ASSUME NEW s \in Sub, conn'[s] = "open" PROVE told'[s] = ev
      BY <1>5, Zenon DEF SubscribersAreCurrent
    <2>1. conn[s] = "open" /\ ~Overflows(s)
      BY Zenon DEF Decode, ConnAfterLine
    <2> QED
      BY <1>2, <2>1, Zenon DEF Decode
  <1> QED
    BY <1>7, <1>8, <1>9, <1>10, <1>11, <1>12, Zenon DEF FeedInv

\* The helper's handlers for one subscriber touch that subscriber only, and leave an
\* open one current.
LEMMA SubscriberKeeps ==
    ASSUME FeedInv, UnchangedButSubs,
           conn' \in [Sub -> Conn], queued' \in [Sub -> 0..SubCap], told' \in [Sub -> Nat],
           \A s \in Sub : conn'[s] = "open" => told'[s] = last_seq
    PROVE  FeedInv'
  <1>1. UNCHANGED <<seq, stream, piped, got, armed, feed_closed, feed_alive, last_seq, gaps, applied>>
    BY Zenon DEF UnchangedButSubs, publisherVars, feedHelperVars
  <1>2. FeedTypeOK'
    BY <1>1, Zenon DEF FeedInv, FeedTypeOK
  <1>3. InOrder' /\ FirstIsKept' /\ FeedGoneIsSilent' /\ LossesAreNoticed' /\ BufferedIsArmed'
    BY <1>1, Zenon DEF FeedInv, InOrder, FirstIsKept, FeedGoneIsSilent, LossesAreNoticed, BufferedIsArmed
  <1>4. SubscribersAreCurrent'
    BY <1>1, Zenon DEF SubscribersAreCurrent
  <1> QED
    BY <1>2, <1>3, <1>4, Zenon DEF FeedInv

\* FeedInv is inductive.
LEMMA FeedNextKeeps ==
    FeedInv /\ [FeedNext]_feedVars => FeedInv'
  <1> SUFFICES ASSUME FeedInv, [FeedNext]_feedVars PROVE FeedInv'
    BY Zenon
  <1>0. /\ conn \in [Sub -> Conn] /\ queued \in [Sub -> 0..SubCap] /\ told \in [Sub -> Nat]
        /\ last_seq \in Nat /\ SubCap \in Nat /\ SubCap >= 2
        /\ \A s \in Sub : conn[s] = "open" => told[s] = last_seq
    BY CapsArePositive DEF FeedInv, FeedTypeOK, SubscribersAreCurrent
  <1>1. ASSUME NEW s \in Sub, NEW sent \in BOOLEAN, Accept(s, sent) PROVE FeedInv'
    <2>1. conn' \in [Sub -> Conn] /\ told' \in [Sub -> Nat]
      BY <1>0, <1>1, Zenon DEF Accept, Conn
    <2>2. queued' \in [Sub -> 0..SubCap]
      <3>1. (IF sent THEN 0 ELSE IF last_seq = 0 THEN 1 ELSE 2) \in 0..SubCap
        BY <1>0
      <3> QED
        BY <1>0, <1>1, <3>1, Zenon DEF Accept
    <2>3. \A q \in Sub : conn'[q] = "open" => told'[q] = last_seq
      BY <1>0, <1>1, Zenon DEF Accept
    <2> QED
      BY <1>1, <2>1, <2>2, <2>3, SubscriberKeeps, Zenon DEF Accept
  <1>2. ASSUME NEW s \in Sub, NEW sent \in BOOLEAN, Command(s, sent) PROVE FeedInv'
    <2>1. conn' \in [Sub -> Conn] /\ told' \in [Sub -> Nat]
      BY <1>0, <1>2, Zenon DEF Command, ConnAfterLine, Conn
    <2>2. queued' \in [Sub -> 0..SubCap]
      <3>1. (IF Overflows(s) THEN queued[s] ELSE IF sent THEN 0 ELSE queued[s] + 1) \in 0..SubCap
        BY <1>0, SMTT(30) DEF Overflows
      <3> QED
        BY <1>0, <1>2, <3>1, Zenon DEF Command
    <2>3. \A q \in Sub : conn'[q] = "open" => told'[q] = last_seq
      BY <1>0, <1>2, Zenon DEF Command, ConnAfterLine
    <2> QED
      BY <1>2, <2>1, <2>2, <2>3, SubscriberKeeps, Zenon DEF Command
  <1>3. ASSUME NEW s \in Sub, SubFlush(s) PROVE FeedInv'
    <2>1. conn' \in [Sub -> Conn] /\ told' \in [Sub -> Nat] /\ queued' \in [Sub -> 0..SubCap]
      BY <1>0, <1>3, SMTT(30) DEF SubFlush
    <2> QED
      BY <1>0, <1>3, <2>1, SubscriberKeeps, Zenon DEF SubFlush
  <1>4. ASSUME NEW s \in Sub, SubGone(s) PROVE FeedInv'
    <2>1. conn' \in [Sub -> Conn] /\ told' \in [Sub -> Nat] /\ queued' \in [Sub -> 0..SubCap]
      BY <1>0, <1>4, Zenon DEF SubGone, Conn
    <2>2. \A q \in Sub : conn'[q] = "open" => told'[q] = last_seq
      BY <1>0, <1>4, Zenon DEF SubGone
    <2> QED
      BY <1>4, <2>1, <2>2, SubscriberKeeps, Zenon DEF SubGone
  <1>5. ASSUME NEW s \in Sub, SubErase(s) PROVE FeedInv'
    <2>1. conn' \in [Sub -> Conn] /\ told' \in [Sub -> Nat] /\ queued' \in [Sub -> 0..SubCap]
      BY <1>0, <1>5 DEF SubErase, Conn
    <2>2. \A q \in Sub : conn'[q] = "open" => told'[q] = last_seq
      BY <1>0, <1>5, Zenon DEF SubErase
    <2> QED
      BY <1>5, <2>1, <2>2, SubscriberKeeps, Zenon DEF SubErase
  <1>6. CASE UNCHANGED feedVars
    BY <1>6, Zenon DEF feedVars, FeedInv, FeedTypeOK, InOrder, FirstIsKept, FeedGoneIsSilent,
                LossesAreNoticed, SubscribersAreCurrent, BufferedIsArmed
  <1> QED
    BY <1>1, <1>2, <1>3, <1>4, <1>5, <1>6, PublishKeeps, FlushKeeps, NoticeExitKeeps,
       ReadStdinKeeps, DecodeKeeps, HelperExitKeeps, Zenon DEF FeedNext

\* FeedStream's inductive invariant holds in every reachable state.
THEOREM FeedInvariance ==
    FeedSpec => []FeedInv
  BY FeedInitEstablishes, FeedNextKeeps, PTL DEF FeedSpec

\* The marks in the stream stay in order and every buffer within its cap.
THEOREM FeedTypeCorrect ==
    FeedSpec => []FeedTypeOK
  <1>1. FeedInv => FeedTypeOK
    BY Zenon DEF FeedInv
  <1> QED
    BY <1>1, FeedInvariance, PTL

\* A replica without a counted gap has applied every event up to the last it saw, for
\* every size of the publisher's buffer and the pipe.
THEOREM LossesAreAlwaysNoticed ==
    FeedSpec => []LossesAreNoticed
  <1>1. FeedInv => LossesAreNoticed
    BY Zenon DEF FeedInv
  <1> QED
    BY <1>1, FeedInvariance, PTL

\* A connected subscriber has been sent the state after the last event applied.
THEOREM SubscribersStayCurrent ==
    FeedSpec => []SubscribersAreCurrent
  <1>1. FeedInv => SubscribersAreCurrent
    BY Zenon DEF FeedInv
  <1> QED
    BY <1>1, FeedInvariance, PTL

\* While events wait in the publisher's buffer, and only then, it waits for writability.
THEOREM BufferedStaysArmed ==
    FeedSpec => []BufferedIsArmed
  <1>1. FeedInv => BufferedIsArmed
    BY Zenon DEF FeedInv
  <1> QED
    BY <1>1, FeedInvariance, PTL
=============================================================================

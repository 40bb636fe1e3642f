--------------------------- MODULE TradingEngine ----------------------------
(***************************************************************************)
(* The control of TradingEngine (src/src/engine/trading_engine.cc): an     *)
(* order is reported to the storage helper on arrival and placed on the    *)
(* book only after the helper has acknowledged it, its account's position  *)
(* has been pulled, and the resident window covers its reach; orders are   *)
(* placed strictly in arrival order whatever the order of the answers.     *)
(*                                                                         *)
(* The engine runs on one thread.  Each handler is one action; the loop of *)
(* drain(), with which most handlers end, is unrolled into steps that are  *)
(* taken with ctl # "idle", when no other handler runs.  The one exception *)
(* is a write to the helper that finds its pipe broken: handle_close then  *)
(* runs inside the placement that writes, and the requests it fails call   *)
(* drain() from there, before the placement's own callback is made.        *)
(*                                                                         *)
(* The book is left to TradingSystem: here the outcome of a placement      *)
(* (does it rest, which makers are exhausted) and the need for a deep pull *)
(* are parameters of the actions.                                          *)
(***************************************************************************)
EXTENDS Naturals, Sequences, FiniteSets

CONSTANTS
    Symbol,          \* instruments
    Owner,           \* authenticated accounts
    Anonymous,       \* the empty owner: no position, never gated
    Order,           \* what an order asks for
    MaxOrders,       \* bound: orders submitted in a behaviour
    MemLevels,       \* resident price levels per side; 0 is unbounded
    HelperMayClose   \* whether the storage helper may die

ASSUME EngineConstants ==
    /\ Anonymous \notin Owner
    /\ MaxOrders \in Nat
    /\ MemLevels \in Nat
    /\ HelperMayClose \in BOOLEAN

VARIABLES
    next_assign_seq,   \* sequence number of the next order to arrive
    next_place_seq,    \* sequence number of the next order to place
    pending,           \* orders not yet placed, by sequence number
    position_loaded,   \* (symbol, owner) whose position has been seeded
    position_loading,  \* (symbol, owner) whose position pull is in flight
    warmed,            \* symbols whose top of book has been pulled
    depth_pulls,       \* pull_levels requests in flight
    pull_ignore,       \* orders cancelled while a pull is in flight
    handles,           \* resting orders a cancel can name
    reports,           \* report_order requests in flight
    closed,            \* the helper has closed its pipe
    ctl,               \* what the thread is doing: see Control
    calls,             \* callbacks that frames of drain() have yet to make,
                       \* the innermost frame's first
    submitted,         \* history: the orders in arrival order
    recorded,          \* history: orders whose report was acknowledged
    placed,            \* history: orders handed to the matching engine
    completed          \* history: callbacks made, with their storage_ok

storageVars == <<reports, closed>>
positionVars == <<position_loaded, position_loading>>
windowVars == <<warmed, depth_pulls, pull_ignore>>
historyVars == <<submitted, recorded, placed, completed>>
engineVars ==
    <<next_assign_seq, next_place_seq, pending, positionVars, windowVars,
      handles, storageVars, ctl, calls, historyVars>>

SeqNo == 1 .. MaxOrders
Account == Owner \cup {Anonymous}
Key == Symbol \X Owner

Submission == [symbol : Symbol, owner : Account, order : Order]
Pending ==
    [symbol : Symbol, owner : Account, order : Order,
     acked : BOOLEAN, ok : BOOLEAN, pos_ready : BOOLEAN]

\* What a submitter is called back with.
Completion == [seq : SeqNo, storage_ok : BOOLEAN]

\* "idle": in the event loop; "drain": at the head of drain()'s loop;
\* "reporting": writing what a placement did to the helper; "calling": about
\* to call its submitter back; "runaway": drain and the pull it issues call
\* each other without end on a closed helper.
Control == {"idle", "drain", "reporting", "calling", "runaway"}

KeyOf(p) == <<p.symbol, p.owner>>

Init ==
    /\ next_assign_seq = 1
    /\ next_place_seq = 1
    /\ pending = << >>
    /\ position_loaded = {}
    /\ position_loading = {}
    /\ warmed = {}
    /\ depth_pulls = 0
    /\ pull_ignore = {}
    /\ handles = {}
    /\ reports = {}
    /\ closed = FALSE
    /\ ctl = "idle"
    /\ calls = << >>
    /\ submitted = << >>
    /\ recorded = {}
    /\ placed = << >>
    /\ completed = << >>

-----------------------------------------------------------------------------
(***************************************************************************)
(* submit and ensure_position.  A request sent on a closed helper is       *)
(* answered with a failure before send() returns.                          *)
(***************************************************************************)

\* ensure_position() answers TRUE: nothing to load, or already loaded.
PositionAvailable(sym, owner) ==
    owner = Anonymous \/ <<sym, owner>> \in position_loaded

\* ensure_position() sends a pull; a pull already in flight is shared.
PullsPosition(sym, owner) ==
    ~PositionAvailable(sym, owner) /\ <<sym, owner>> \notin position_loading

EnsurePosition(sym, owner) ==
    IF PullsPosition(sym, owner)
    THEN IF closed
         THEN /\ position_loaded' = position_loaded \cup {<<sym, owner>>}
              /\ UNCHANGED position_loading
         ELSE /\ position_loading' = position_loading \cup {<<sym, owner>>}
              /\ UNCHANGED position_loaded
    ELSE UNCHANGED positionVars

\* pos_ready is the value ensure_position() returned, which is FALSE for a
\* pull even when its failure was delivered before it returned.
NewPending(sym, owner, o) ==
    [symbol |-> sym, owner |-> owner, order |-> o, acked |-> closed,
     ok |-> FALSE, pos_ready |-> PositionAvailable(sym, owner)]

Submit(sym, owner, o) ==
    /\ ctl = "idle"
    /\ next_assign_seq \in SeqNo
    /\ next_assign_seq' = next_assign_seq + 1
    /\ EnsurePosition(sym, owner)
    /\ pending' = [s \in DOMAIN pending \cup {next_assign_seq} |->
                      IF s = next_assign_seq THEN NewPending(sym, owner, o)
                                             ELSE pending[s]]
    /\ reports' = IF closed THEN reports ELSE reports \cup {next_assign_seq}
    /\ ctl' = IF closed THEN "drain" ELSE "idle"
    /\ submitted' = Append(submitted,
                           [symbol |-> sym, owner |-> owner, order |-> o])
    /\ UNCHANGED <<next_place_seq, windowVars, handles, closed, calls, recorded,
                   placed, completed>>

-----------------------------------------------------------------------------
(***************************************************************************)
(* Answers of the helper.  Each request in flight is answered once: by the *)
(* helper, or by the timer of HelperClient when its deadline passes.       *)
(***************************************************************************)

\* Mutant: the acknowledgement does not run drain().
ReportReplyNoDrain(s, ok) ==
    /\ ctl = "idle"
    /\ s \in reports
    /\ reports' = reports \ {s}
    /\ pending' = [pending EXCEPT ![s].acked = TRUE, ![s].ok = ok]
    /\ recorded' = IF ok THEN recorded \cup {s} ELSE recorded
    /\ UNCHANGED <<next_assign_seq, next_place_seq, positionVars, windowVars,
                   handles, closed, ctl, calls, submitted, placed, completed>>

\* The callback of report_order: ok is FALSE when the request timed out.
ReportReply(s, ok) ==
    /\ ctl = "idle"
    /\ s \in reports
    /\ reports' = reports \ {s}
    /\ pending' = [pending EXCEPT ![s].acked = TRUE, ![s].ok = ok]
    /\ recorded' = IF ok THEN recorded \cup {s} ELSE recorded
    /\ ctl' = "drain"
    /\ UNCHANGED <<next_assign_seq, next_place_seq, positionVars, windowVars,
                   handles, closed, calls, submitted, placed, completed>>

\* The orders gated on the pull of one of keys no longer are.
Ungated(p, keys) ==
    IF KeyOf(p) \in keys THEN [p EXCEPT !.pos_ready = TRUE] ELSE p

\* The callback of pull_position: gating on the pull ends either way.
PositionReply(key) ==
    /\ ctl = "idle"
    /\ key \in position_loading
    /\ position_loading' = position_loading \ {key}
    /\ position_loaded' = position_loaded \cup {key}
    /\ pending' = [s \in DOMAIN pending |-> Ungated(pending[s], {key})]
    /\ ctl' = "drain"
    /\ UNCHANGED <<next_assign_seq, next_place_seq, windowVars, handles,
                   storageVars, calls, historyVars>>

\* on_pull: the last pull in flight forgets the cancels and resumes drain().
PullReply ==
    /\ ctl = "idle"
    /\ depth_pulls > 0
    /\ depth_pulls' = depth_pulls - 1
    /\ IF depth_pulls = 1
       THEN pull_ignore' = {} /\ ctl' = "drain"
       ELSE UNCHANGED <<pull_ignore, ctl>>
    /\ UNCHANGED <<next_assign_seq, next_place_seq, pending, positionVars,
                   warmed, handles, storageVars, calls, historyVars>>

\* HelperClient::handle_close: every request in flight fails, in one handler.
\* It runs from the event loop, or inside a placement whose write meets the
\* broken pipe; there drain() is called again only if a request that ends in
\* it was in flight.
Close ==
    /\ ctl \in {"idle", "reporting"}
    /\ HelperMayClose
    /\ ~closed
    /\ closed' = TRUE
    /\ reports' = {}
    /\ position_loading' = {}
    /\ position_loaded' = position_loaded \cup position_loading
    /\ depth_pulls' = 0
    /\ pull_ignore' = {}
    /\ pending' = [s \in DOMAIN pending |->
                      [Ungated(pending[s], position_loading)
                         EXCEPT !.acked = TRUE]]
    /\ ctl' = IF ctl = "reporting" /\ reports = {} /\ position_loading = {}
                    /\ depth_pulls = 0
              THEN "calling" ELSE "drain"
    /\ UNCHANGED <<next_assign_seq, next_place_seq, warmed, handles, calls,
                   historyVars>>

-----------------------------------------------------------------------------
(***************************************************************************)
(* cancel.  An unknown handle (kNotFound) or a requester other than the    *)
(* owner (kForbidden) changes nothing.                                     *)
(***************************************************************************)
Cancel(s, requester) ==
    /\ ctl = "idle"
    /\ s \in handles
    /\ submitted[s].owner = requester
    /\ handles' = handles \ {s}
    /\ pull_ignore' = IF depth_pulls > 0 THEN pull_ignore \cup {s}
                                         ELSE pull_ignore
    /\ UNCHANGED <<next_assign_seq, next_place_seq, pending, positionVars,
                   warmed, depth_pulls, storageVars, ctl, calls, historyVars>>

-----------------------------------------------------------------------------
(***************************************************************************)
(* drain and ensure_depth, one iteration of the loop per step.             *)
(***************************************************************************)
HeadOrder == pending[next_place_seq]

HeadReady ==
    /\ next_place_seq \in DOMAIN pending
    /\ HeadOrder.acked
    /\ HeadOrder.pos_ready

\* The loop breaks: nothing to place, or a pull keeps the head parked.  A
\* drain() called inside a placement returns to it.
DrainStops ==
    /\ ctl = "drain"
    /\ ~HeadReady \/ (MemLevels > 0 /\ depth_pulls > 0)
    /\ ctl' = IF calls = << >> THEN "idle" ELSE "calling"
    /\ UNCHANGED <<next_assign_seq, next_place_seq, pending, positionVars,
                   windowVars, handles, storageVars, calls, historyVars>>

\* ensure_depth on a bounded book with no pull in flight.
MayPull == ctl = "drain" /\ HeadReady /\ MemLevels > 0 /\ depth_pulls = 0

\* First order of a symbol: pull the top of both sides.  On a closed helper
\* both pulls come back empty before pull_levels returns.
WarmUp ==
    /\ MayPull
    /\ HeadOrder.symbol \notin warmed
    /\ warmed' = warmed \cup {HeadOrder.symbol}
    /\ IF closed THEN UNCHANGED <<depth_pulls, ctl>>
                 ELSE depth_pulls' = 2 /\ ctl' = "idle"
    /\ UNCHANGED <<next_assign_seq, next_place_seq, pending, positionVars,
                   pull_ignore, handles, storageVars, calls, historyVars>>

\* The head reaches beyond the window.  On a closed helper the pull comes
\* back empty at once and drain() asks again, from inside its own callback.
DeepPull ==
    /\ MayPull
    /\ HeadOrder.symbol \in warmed
    /\ IF closed THEN ctl' = "runaway" /\ UNCHANGED depth_pulls
                 ELSE ctl' = "idle" /\ depth_pulls' = 1
    /\ UNCHANGED <<next_assign_seq, next_place_seq, pending, positionVars,
                   warmed, pull_ignore, handles, storageVars, calls, historyVars>>

\* Mutants: storage_ok is not looked at; the next order that is ready is
\* placed, whether or not an earlier one is still waiting.
PlaceUnchecked(rests, exhausted) ==
    /\ ctl = "drain"
    /\ HeadReady
    /\ next_place_seq' = next_place_seq + 1
    /\ pending' = [s \in DOMAIN pending \ {next_place_seq} |-> pending[s]]
    /\ calls' = <<[seq |-> next_place_seq, storage_ok |-> TRUE]>> \o calls
    /\ ctl' = "calling"
    /\ placed' = Append(placed, next_place_seq)
    /\ UNCHANGED <<next_assign_seq, positionVars, windowVars, handles,
                   storageVars, submitted, recorded, completed>>
PlaceAcknowledged(rests, exhausted) ==
    /\ ctl = "drain"
    /\ \E s \in DOMAIN pending :
          /\ pending[s].acked /\ pending[s].pos_ready
          /\ next_place_seq' = next_place_seq + 1
          /\ pending' = [t \in DOMAIN pending \ {s} |-> pending[t]]
          /\ calls' = <<[seq |-> s, storage_ok |-> pending[s].ok]>> \o calls
          /\ ctl' = "calling"
          /\ placed' = IF pending[s].ok THEN Append(placed, s) ELSE placed
    /\ UNCHANGED <<next_assign_seq, positionVars, windowVars, handles,
                   storageVars, submitted, recorded, completed>>

\* The head leaves pending_.  If storage recorded it, it is matched: it
\* rests or not, the makers it exhausts lose their handles, and what happened
\* is reported to the helper.
Place(rests, exhausted) ==
    /\ ctl = "drain"
    /\ HeadReady
    /\ MemLevels = 0 \/ (depth_pulls = 0 /\ HeadOrder.symbol \in warmed)
    /\ next_place_seq' = next_place_seq + 1
    /\ pending' = [s \in DOMAIN pending \ {next_place_seq} |-> pending[s]]
    /\ calls' = <<[seq |-> next_place_seq, storage_ok |-> HeadOrder.ok]>> \o calls
    /\ IF HeadOrder.ok
       THEN /\ placed' = Append(placed, next_place_seq)
            /\ handles' = (handles \ exhausted)
                             \cup (IF rests THEN {next_place_seq} ELSE {})
            /\ ctl' \in IF closed THEN {"calling"} ELSE {"reporting", "calling"}
       ELSE UNCHANGED <<placed, handles>> /\ ctl' = "calling"
    /\ UNCHANGED <<next_assign_seq, positionVars, windowVars, storageVars,
                   submitted, recorded, completed>>

\* p.cb(r), and the loop goes on.
CallBack ==
    /\ ctl \in {"reporting", "calling"}
    /\ completed' = Append(completed, Head(calls))
    /\ calls' = Tail(calls)
    /\ ctl' = "drain"
    /\ UNCHANGED <<next_assign_seq, next_place_seq, pending, positionVars,
                   windowVars, handles, storageVars, submitted, recorded, placed>>

-----------------------------------------------------------------------------
Answer ==
    \/ \E s \in SeqNo, ok \in BOOLEAN : ReportReply(s, ok)
    \/ \E key \in Key : PositionReply(key)
    \/ PullReply

Drain ==
    \/ DrainStops
    \/ WarmUp
    \/ DeepPull
    \/ \E rests \in BOOLEAN, exhausted \in SUBSET handles :
          Place(rests, exhausted)
    \/ CallBack

Next ==
    \/ \E sym \in Symbol, owner \in Account, o \in Order : Submit(sym, owner, o)
    \/ Answer
    \/ Close
    \/ \E s \in SeqNo, requester \in Account : Cancel(s, requester)
    \/ Drain

Spec == Init /\ [][Next]_engineVars

-----------------------------------------------------------------------------
\* Every variable keeps its type: pending_ holds orders that have arrived and
\* the requests in flight belong to them.
TypeOK ==
    /\ next_assign_seq \in 1 .. MaxOrders + 1
    /\ next_place_seq \in 1 .. MaxOrders + 1
    /\ DOMAIN pending \subseteq SeqNo
    /\ pending \in [DOMAIN pending -> Pending]
    /\ position_loaded \subseteq Key
    /\ position_loading \subseteq Key
    /\ warmed \subseteq Symbol
    /\ depth_pulls \in 0 .. 2
    /\ pull_ignore \subseteq SeqNo
    /\ handles \subseteq SeqNo
    /\ reports \subseteq SeqNo
    /\ closed \in BOOLEAN
    /\ ctl \in Control
    /\ calls \in Seq(Completion)
    /\ submitted \in Seq(Submission)
    /\ recorded \subseteq SeqNo
    /\ placed \in Seq(SeqNo)
    /\ completed \in Seq(Completion)

\* Report before place: an order is handed to the matching engine only after
\* the helper has acknowledged its report_order (drain's p.ok).
ReportBeforePlace ==
    \A i \in 1 .. Len(placed) : placed[i] \in recorded

\* Out-of-order acknowledgements never reorder the book: the matching engine
\* receives orders in arrival order, none of them twice.
PlacedInArrivalOrder ==
    \A i, j \in 1 .. Len(placed) : i < j => placed[i] < placed[j]

\* Was the order with the sequence number n handed to the matching engine?
IsPlaced(n) == \E k \in DOMAIN placed : placed[k] = n

\* Every submitter is called back once, with storage_ok telling whether its
\* order was placed: never twice, never before the order is taken out of
\* pending_, and not left out when the thread goes back to the event loop.
\* While the helper lives the callbacks come in arrival order (when its pipe
\* breaks during a placement, drain() runs inside it and calls back the orders
\* behind first).
CalledBackOnce ==
    /\ \A i, j \in DOMAIN completed : completed[i].seq = completed[j].seq => i = j
    /\ \A i \in DOMAIN completed :
          /\ completed[i].seq < next_place_seq
          /\ completed[i].storage_ok <=> IsPlaced(completed[i].seq)
    /\ ctl = "idle" => Len(completed) = next_place_seq - 1
    /\ ~closed => \A i \in DOMAIN completed : completed[i].seq = i

\* No order is placed before its account's position has been pulled, so the
\* seed of ensure_position cannot overwrite the effect of a fill.
PlacedAfterPosition ==
    \A i \in 1 .. Len(placed) :
        LET p == submitted[placed[i]]
        IN p.owner = Anonymous \/ KeyOf(p) \in position_loaded

\* No lost wake-up: when the thread goes back to the event loop with the head
\* order ready to place, a pull in flight will resume drain().
NoLostWakeup ==
    ctl = "idle" /\ HeadReady => depth_pulls > 0

\* Whatever an order waits for is in flight: an unacknowledged order has its
\* report outstanding, even after handle_close, and an order gated on its
\* position has the pull outstanding as long as the helper lives.  Otherwise
\* the order, and all behind it, wait for ever.
EveryWaitIsAwaited ==
    \A s \in DOMAIN pending :
        /\ ~pending[s].acked => s \in reports
        /\ ~pending[s].pos_ready => closed \/ KeyOf(pending[s]) \in position_loading

\* Cancels remembered for on_pull are forgotten with the last pull, and the
\* orders they name can no longer be cancelled again.
PullIgnoreIsScoped ==
    /\ pull_ignore # {} => depth_pulls > 0
    /\ pull_ignore \cap handles = {}

\* A position is seeded only while its account has no order on the book for
\* that symbol ("no fill can change its position while this async pull is
\* outstanding").
SeedPrecedesFills ==
    [][\A key \in position_loaded' \ position_loaded :
          \A i \in 1 .. Len(placed) : KeyOf(submitted[placed[i]]) # key]_engineVars

\* The engine implements the promise of ArrivalOrder: an order is decided
\* when drain() takes it out of pending_, and told when its callback is made.
Promise == INSTANCE ArrivalOrder WITH
    arrived <- next_assign_seq - 1,
    verdicts <- [n \in 1 .. next_place_seq - 1 |-> IsPlaced(n)],
    told <- completed
ImplementsArrivalOrder == Promise!Spec

-----------------------------------------------------------------------------
(***************************************************************************)
(* Fairness.  The event loop keeps running, so drain() runs to its end; a  *)
(* request is answered, or its deadline passes and on_timer fails it.      *)
(***************************************************************************)
Fairness ==
    /\ WF_engineVars(Drain)
    /\ \A s \in SeqNo : WF_engineVars(\E ok \in BOOLEAN : ReportReply(s, ok))
    /\ \A key \in Key : WF_engineVars(PositionReply(key))
    /\ WF_engineVars(PullReply)

FairSpec == Spec /\ Fairness

\* Every submitted order is eventually decided and its submitter called back.
EveryOrderIsDecided ==
    \A s \in SeqNo : next_assign_seq > s ~> next_place_seq > s

\* As long as the helper lives, an order is decided unless drain() keeps
\* pulling for ever: no answer that could resume drain() fails to, whatever
\* the order of acknowledgements, positions and levels.
DecidedOncePullsEnd ==
    <>[](depth_pulls = 0) =>
        \A s \in SeqNo : next_assign_seq > s ~> next_place_seq > s \/ closed
=============================================================================

----------------------------- MODULE BookStore ------------------------------
(***************************************************************************)
(* What TradingEngine reports to storage about orders of every kind, and   *)
(* the resting book a database helper makes of it.  When the reports are   *)
(* sent and answered is TradingSystem's subject: here those of one         *)
(* operation are applied with it, in the order they are written.           *)
(***************************************************************************)
EXTENDS MarketData

VARIABLES store,     \* what the storage helper holds
          handles    \* the orders a client can cancel

storeVars == <<marketVars, store, handles>>

Helper == INSTANCE StorageHelper

StoreInit ==
    /\ MarketInit
    /\ store = [kind |-> "database", info |-> {}, resting |-> {}, net |-> <<>>]
    /\ handles = {}

-----------------------------------------------------------------------------
(* The reports.                                                            *)

RestReport(o) ==
    [type |-> "rest", id |-> o.id, side |-> o.side, price |-> o.price,
     leaves |-> o.leaves, seq |-> o.rank]

\* What a fill report says of a maker is read from the book afterwards.
MakerReport(id) ==
    [type |-> "fill", id |-> id, complete |-> id \notin Ids(impl'),
     remaining |-> IF id \in Ids(impl') THEN EntryOf(impl', id).leaves ELSE 0]

TakerReport(id, remaining) ==
    [type |-> "fill", id |-> id, complete |-> remaining = 0, remaining |-> remaining]

Trades == {e \in Range(impl'.events) : e.type = "trade"}

\* One report per order, by id.
MakerReports(ids) ==
    LET order == Sorted(ids) IN [i \in DOMAIN order |-> MakerReport(order[i])]

\* report_requeued.
RequeuedReports == [i \in DOMAIN taken' |-> RestReport(taken'[i])]

\* SubmitOutcome::resting.  A stop that fires on entry and rests sets
\* outcome.rested only, so the report describes a default Order.
Resting(t, e) ==
    IF t.trigger # NoTrigger
    THEN [id |-> 0, side |-> "buy", price |-> 0, leaves |-> 0, rank |-> 0]
    ELSE [id |-> e.id, side |-> e.side, price |-> e.price, leaves |-> e.qty,
          rank |-> impl.next_seq]

\* The submitted order came to rest in the operation.
RestEvents == SelectSeq(impl'.events, LAMBDA e : e.type = "add" /\ e.id = submitted')

RestReports(t) ==
    [i \in DOMAIN RestEvents |-> RestReport(Resting(t, RestEvents[i]))]

\* report_results: the taker's fill, measured against what the client asked
\* for, then those of its makers.
FillReports(t, filled) ==
    (IF filled > 0 THEN <<TakerReport(submitted', t.qty - filled)>> ELSE <<>>)
        \o MakerReports({e.id : e \in Trades})

FilledOnEntry ==
    MapThenSumSet(LAMBDA i : IF impl'.events[i].type = "trade" /\ impl'.events[i].taker = submitted'
                             THEN impl'.events[i].qty ELSE 0, DOMAIN impl'.events)

Reported(reports) == store' = FoldLeft(Helper!ApplyWrite, store, reports)

-----------------------------------------------------------------------------
(* The operations of the engine.                                           *)

\* drain() on an acknowledged order: report_rest, report_results,
\* report_requeued, prune_filled.
EngineSubmit(t) ==
    /\ SubmitOrder(t)
    /\ Reported(RestReports(t) \o FillReports(t, FilledOnEntry) \o RequeuedReports)
    /\ handles' = (handles \union {e.id : e \in Range(RestEvents)})
                      \ {e.id : e \in {x \in Trades : x.id \notin Ids(impl')}}

\* Mutant: the pegs that a cancel moved are not reported.
EngineCancelOnly(id) ==
    /\ id \in handles
    /\ CancelOrder(id)
    /\ Reported(<<[type |-> "cancel", id |-> id]>>)
    /\ handles' = handles \ {id}

EngineCancel(id) ==
    /\ id \in handles
    /\ CancelOrder(id)
    /\ Reported(<<[type |-> "cancel", id |-> id]>> \o RequeuedReports)
    /\ handles' = handles \ {id}

\* run_auction; both sides of a trade are reported, and no handle is dropped.
EngineAuction(q) ==
    /\ RunAuction(q)
    /\ Reported(MakerReports({e.id : e \in Trades} \union {e.taker : e \in Trades})
                   \o RequeuedReports)
    /\ UNCHANGED handles

StoreNext ==
    \/ \E t \in Menu : EngineSubmit(t) /\ ApplyEvents
    \/ \E id \in 1..MaxOrders : EngineCancel(id) /\ ApplyEvents
    \/ \E q \in {"opening", "closing"} : EngineAuction(q) /\ ApplyEvents
    \/ \E now \in {1} : ExpireOrders(now) /\ ApplyEvents /\ UNCHANGED <<store, handles>>
    \/ \E side \in Side : ReadBest(side) /\ ApplyEvents /\ UNCHANGED <<store, handles>>

StoreSpec == StoreInit /\ [][StoreNext]_storeVars

-----------------------------------------------------------------------------
\* Of the resident orders that have a row in storage, each has the price it
\* rests at, and those of one level have ranks in the order of its FIFO: what
\* pull_levels rebuilds from the rows is the queue the book had, through every
\* re-queued iceberg slice and every repriced peg.
StorageRebuildsTheQueue ==
    impl.requeued = <<>> =>
        \A i, j \in DOMAIN impl.fifo : \A r, x \in store.resting :
            r.id = impl.fifo[i].id /\ x.id = impl.fifo[j].id =>
                /\ r.price = impl.fifo[i].price
                /\ r.side = x.side /\ r.price = x.price /\ i < j => r.seq < x.seq
=============================================================================

--------------------------- MODULE TradingSystem ----------------------------
(***************************************************************************)
(* The trading engine together with its book and its storage helper.  Each *)
(* action of TradingEngine is conjoined with what the same handler does to *)
(* the book and with the requests it writes to the helper's pipe; the      *)
(* helper is a process of its own that reads the pipe in order.            *)
(*                                                                         *)
(* One symbol: the books of different symbols share nothing but the queue  *)
(* of TradingEngine.  Ids and ranks are counted from where                 *)
(* seed_from_storage has put them; Restart adds the end of a session.      *)
(***************************************************************************)
EXTENDS TradingEngine, PriceTimeBook, StorageHelper

CONSTANTS
    HelperKinds,    \* "reference", "database" or both: see StorageHelper
    InitialNet,     \* positions in storage from an earlier session
    Faults,         \* what may go wrong: see FaultKind
    MaxFaults       \* bound: faults in a behaviour, one of each kind

\* A report or a position misses its deadline; a pull of levels does; a
\* database refuses a write; the helper dies; the server dies with requests
\* unsent; the start is not seeded.
FaultKind == {"late", "pull", "refused", "closed", "unsent", "unseeded"}

ASSUME SystemConstants ==
    /\ \E sym \in Symbol : Symbol = {sym}
    /\ \A o \in Order : /\ o.side \in Side
                        /\ o.type \in {"limit", "ioc", "market"}
                        /\ o.price \in Nat \ {0}
                        /\ o.qty \in Nat \ {0}
    /\ HelperKinds \subseteq {"reference", "database"}
    /\ InitialNet \in [Owner -> Int]
    /\ Faults \subseteq FaultKind
    /\ MaxFaults \in Nat

VARIABLES
    book,       \* resident orders: see PriceTimeBook
    has_deep,   \* per side: Deep::has
    position,   \* per account: the book's net position
    truth,      \* history: every order that rests, resident or not
    store,      \* the helper's state: see StorageHelper
    pipe,       \* requests written to the helper and not yet read by it
    reads,      \* pulls a database helper runs concurrently
    replies,    \* answers not yet delivered, in no order
    pulls,      \* pull_levels requests awaiting their answer
    faults,     \* history: what has gone wrong
    session     \* what this session's ids and ranks are counted from

bookVars == <<book, has_deep, position, truth>>
helperVars == <<store, pipe, reads, replies, pulls>>
sysVars == <<engineVars, bookVars, helperVars, faults, session>>

AliveRecord(r, rank) ==
    [id |-> r.id, side |-> r.side, price |-> r.price, leaves |-> r.leaves,
     rank |-> rank]

\* The reference helper keeps everything in memory and starts with nothing.
EmptyStore(kind) ==
    [kind |-> kind, info |-> {}, resting |-> {},
     net |-> IF kind = "reference" THEN [a \in Owner |-> 0] ELSE InitialNet]

SysInit ==
    /\ Init
    /\ book = << >>
    /\ has_deep = [side \in Side |-> FALSE]
    /\ position = [a \in Owner |-> 0]
    /\ truth = {}
    /\ store \in {EmptyStore(kind) : kind \in HelperKinds}
    /\ pipe = << >>
    /\ reads = {}
    /\ replies = {}
    /\ pulls = {}
    /\ faults = {}
    /\ session = [number |-> 1, id_base |-> 0, rank_base |-> 0]

\* next_order_id_ of the order with the sequence number s.
OrderId(s) == session.id_base + s

Fault(f) ==
    /\ f \in Faults \ faults
    /\ Cardinality(faults) < MaxFaults
    /\ faults' = faults \cup {f}

-----------------------------------------------------------------------------
(* Requests, and sending them: a closed helper takes none.                 *)

OrderMsg(id, owner, side) ==
    [type |-> "order", id |-> id, owner |-> owner, side |-> side]
RestMsg(r) ==
    [type |-> "rest", id |-> r.id, side |-> r.side, price |-> r.price,
     leaves |-> r.leaves, seq |-> r.rank]
FillMsg(id, qty, remaining) ==
    [type |-> "fill", id |-> id, qty |-> qty, remaining |-> remaining,
     complete |-> remaining = 0]
CancelMsg(id) == [type |-> "cancel", id |-> id]
PositionMsg(owner) == [type |-> "position", owner |-> owner]
LevelsMsg(req, side, from) ==
    [type |-> "levels", req |-> req, side |-> side, from |-> from,
     count |-> MemLevels]

Send(msgs) == pipe' = IF closed THEN pipe ELSE pipe \o msgs

\* A request id that no request or answer in flight carries.
FreshReq(n) ==
    LET inFlight == {m \in Range(pipe) \cup reads \cup replies \cup pulls : m.type = "levels"}
    IN n + Max({0} \cup {m.req : m \in inFlight})

-----------------------------------------------------------------------------
SysSubmit(sym, owner, o) ==
    /\ Submit(sym, owner, o)
    /\ Send((IF PullsPosition(sym, owner) THEN <<PositionMsg(owner)>> ELSE << >>)
            \o <<OrderMsg(OrderId(next_assign_seq), owner, o.side)>>)
    /\ UNCHANGED <<bookVars, store, reads, replies, pulls, faults>>

\* Mutant: the cancel of an order outside the window is not reported.
SysCancelResident(s, requester) ==
    /\ Cancel(s, requester)
    /\ book' = WithoutOrder(book, OrderId(s))
    /\ truth' = {t \in truth : t.id # OrderId(s)}
    /\ Send(IF OrderId(s) \in IdsOf(book) THEN <<CancelMsg(OrderId(s))>> ELSE << >>)
    /\ UNCHANGED <<has_deep, position, store, reads, replies, pulls, faults>>

SysCancel(s, requester) ==
    /\ Cancel(s, requester)
    /\ book' = WithoutOrder(book, OrderId(s))
    /\ truth' = {t \in truth : t.id # OrderId(s)}
    /\ Send(<<CancelMsg(OrderId(s))>>)
    /\ UNCHANGED <<has_deep, position, store, reads, replies, pulls, faults>>

\* The helper dies: what it had not read, and what it had not answered, is
\* lost.  A placement notices by the request it could not write.
SysClose ==
    /\ Close
    /\ ctl = "reporting" => pipe # << >>
    /\ Fault("closed")
    /\ pipe' = << >>
    /\ reads' = {}
    /\ replies' = {}
    /\ pulls' = {}
    /\ UNCHANGED <<bookVars, store>>

-----------------------------------------------------------------------------
(* The helper.  Writes are applied in arrival order; a database helper     *)
(* runs pulls concurrently with the writes that follow them, and answers   *)
(* a write its store refused with status=error.                            *)

AnswerTo(m) ==
    IF m.type = "position"
    THEN [type |-> "position", owner |-> m.owner, net |-> store.net[m.owner]]
    ELSE [type |-> "levels", req |-> m.req, orders |-> PulledLevels(store, m)]

\* Only the answer to report_order has an effect on the engine.
WriteAck(m) ==
    IF m.type = "order" THEN {[type |-> "order", id |-> m.id]} ELSE {}

HelperWrites ==
    /\ pipe # << >>
    /\ ~IsRead(Head(pipe))
    /\ pipe' = Tail(pipe)
    /\ \/ store' = ApplyWrite(store, Head(pipe)) /\ UNCHANGED faults
       \/ store.kind = "database" /\ Fault("refused") /\ UNCHANGED store
    /\ replies' = replies \cup WriteAck(Head(pipe))
    /\ UNCHANGED <<engineVars, bookVars, reads, pulls>>

HelperStartsRead ==
    /\ pipe # << >>
    /\ IsRead(Head(pipe))
    /\ pipe' = Tail(pipe)
    /\ IF store.kind = "reference"
       THEN replies' = replies \cup {AnswerTo(Head(pipe))} /\ UNCHANGED reads
       ELSE reads' = reads \cup {Head(pipe)} /\ UNCHANGED replies
    /\ UNCHANGED <<engineVars, bookVars, store, pulls, faults>>

HelperReads(m) ==
    /\ m \in reads
    /\ reads' = reads \ {m}
    /\ replies' = replies \cup {AnswerTo(m)}
    /\ UNCHANGED <<engineVars, bookVars, store, pipe, pulls, faults>>

-----------------------------------------------------------------------------
(* Answers reach the engine, or the deadline of the request passes first.  *)
(* HelperClient drops an answer to a request that has timed out, and       *)
(* StorageClient takes any answer, status=error included, for a success.   *)

DeliverOrder(r) ==
    /\ r \in replies
    /\ r.type = "order"
    /\ replies' = replies \ {r}
    /\ \/ \E s \in reports : r.id = OrderId(s) /\ ReportReply(s, TRUE)
       \/ /\ r.id \notin {OrderId(s) : s \in reports}
          /\ ctl = "idle"
          /\ UNCHANGED engineVars
    /\ UNCHANGED <<bookVars, store, pipe, reads, pulls, faults>>

TimeOutOrder(s) ==
    /\ Fault("late")
    /\ ReportReply(s, FALSE)
    /\ UNCHANGED <<bookVars, helperVars>>

\* seed_position overwrites the net position of the book.
DeliverPosition(r, key) ==
    /\ r \in replies
    /\ r.type = "position"
    /\ r.owner = key[2]
    /\ replies' = replies \ {r}
    /\ \/ PositionReply(key) /\ position' = [position EXCEPT ![r.owner] = r.net]
       \/ /\ key \notin position_loading
          /\ ctl = "idle"
          /\ UNCHANGED <<engineVars, position>>
    /\ UNCHANGED <<book, has_deep, truth, store, pipe, reads, pulls, faults>>

TimeOutPosition(key) ==
    /\ Fault("late")
    /\ PositionReply(key)
    /\ UNCHANGED <<bookVars, helperVars>>

\* Mutant: the cancels made during the pull are not consulted.
MaterializedAll(orders, side) ==
    LET wanted == KeepAt(orders, {i \in DOMAIN orders : orders[i].id \notin IdsOf(book)})
    IN [i \in DOMAIN wanted |->
           [id |-> wanted[i].id, owner |-> Anonymous, side |-> side,
            price |-> wanted[i].price, leaves |-> wanted[i].leaves,
            rank |-> wanted[i].seq]]

\* on_pull: what is not remembered as cancelled and not already resident is
\* inserted behind its level's queue, without owner and outside the window.
Materialized(orders, side) ==
    LET wanted == KeepAt(orders, {i \in DOMAIN orders :
                                   orders[i].id \notin {OrderId(s) : s \in pull_ignore} \cup IdsOf(book)})
    IN [i \in DOMAIN wanted |->
           [id |-> wanted[i].id, owner |-> Anonymous, side |-> side,
            price |-> wanted[i].price, leaves |-> wanted[i].leaves,
            rank |-> wanted[i].seq]]

DeliverLevels(r) ==
    /\ r \in replies
    /\ r.type = "levels"
    /\ replies' = replies \ {r}
    /\ \/ \E p \in pulls :
             /\ p.req = r.req
             /\ PullReply
             /\ pulls' = pulls \ {p}
             /\ book' = book \o Materialized(r.orders, p.side)
       \/ /\ \A p \in pulls : p.req # r.req
          /\ ctl = "idle"
          /\ UNCHANGED <<engineVars, pulls, book>>
    /\ UNCHANGED <<has_deep, position, truth, store, pipe, reads, faults>>

TimeOutLevels(p) ==
    /\ Fault("pull")
    /\ p \in pulls
    /\ PullReply
    /\ pulls' = pulls \ {p}
    /\ UNCHANGED <<bookVars, store, pipe, reads, replies>>

-----------------------------------------------------------------------------
(* drain.                                                                  *)

\* needs_deep: does the order reach past the worst resident contra level?
NeedsDeep(o) ==
    LET contra == Opposite(o.side)
    IN /\ MemLevels > 0
       /\ has_deep[contra]
       /\ IF Levels(book, contra) = {} THEN TRUE
          ELSE \/ o.type = "market"
               \/ BetterPrice(o.side, o.price, WorstPrice(book, contra))

\* ensure_depth pulls beyond the worst resident level, or from the top (the
\* sentinel 0) if there is none.
PullFrom(side) == IF Levels(book, side) = {} THEN 0 ELSE WorstPrice(book, side)

SysDrainStops == DrainStops /\ UNCHANGED <<bookVars, helperVars, faults>>

SysWarmUp ==
    LET both == <<LevelsMsg(FreshReq(1), "buy", 0), LevelsMsg(FreshReq(2), "sell", 0)>>
    IN /\ WarmUp
       /\ Send(both)
       /\ pulls' = IF closed THEN pulls ELSE pulls \cup Range(both)
       /\ UNCHANGED <<bookVars, store, reads, replies, faults>>

SysDeepPull ==
    /\ DeepPull
    /\ NeedsDeep(HeadOrder.order)
    /\ LET contra == Opposite(HeadOrder.order.side)
           m == LevelsMsg(FreshReq(1), contra, PullFrom(contra))
       IN /\ Send(<<m>>)
          /\ pulls' = IF closed THEN pulls ELSE pulls \cup {m}
    /\ UNCHANGED <<bookVars, store, reads, replies, faults>>

SignedQty(side, qty) == IF side = "buy" THEN qty ELSE -qty

\* Mutant: only the taker's position moves.
PositionAfterTaker(o, owner) ==
    [a \in Owner |->
        position[a] + (IF owner = a THEN SignedQty(o.side, Filled(book, o)) ELSE 0)]

\* apply_position for the taker and for every maker that still has an owner.
PositionAfter(o, owner) ==
    [a \in Owner |->
        position[a]
        + (IF owner = a THEN SignedQty(o.side, Filled(book, o)) ELSE 0)
        + SumFunctionOnSet([i \in DOMAIN book |-> SignedQty(book[i].side, FillAt(book, o, i))],
                           {i \in Traded(book, o) : book[i].owner = a})]

\* Every resting order after its fills, whether or not it is resident.
TruthAfterMatch(o) ==
    LET fill(t) == SumFunctionOnSet([i \in DOMAIN book |-> FillAt(book, o, i)],
                                    {i \in DOMAIN book : book[i].id = t.id})
    IN {[t EXCEPT !.leaves = @ - fill(t)] : t \in {x \in truth : x.leaves > fill(x)}}

\* report_results: the taker's fill, then the makers' in order of their ids.
FillReports(o, id) ==
    LET i_of(mid) == CHOOSE i \in DOMAIN book : book[i].id = mid
        makers == Ascending({book[i].id : i \in Traded(book, o)})
    IN (IF Filled(book, o) > 0
        THEN <<FillMsg(id, Filled(book, o), Remainder(book, o))>> ELSE << >>)
       \o [n \in DOMAIN makers |->
              FillMsg(makers[n], FillAt(book, o, i_of(makers[n])),
                      book[i_of(makers[n])].leaves - FillAt(book, o, i_of(makers[n])))]

\* Mutant: a maker that is filled keeps its handle.
ExhaustedNone(o) == {}

\* prune_filled: the handles of the makers that are no longer on the book.
Exhausted(o) ==
    {s \in handles : OrderId(s) \in IdsOf(book) \ IdsOf(AfterMatch(book, o))}

\* A recorded head is matched; its remainder rests and is reported before
\* the fills that it is the remainder of.
PlaceRecorded ==
    LET o == HeadOrder.order
        id == OrderId(next_place_seq)
        rests == Rests(book, o)
        matched == AfterMatch(book, o)
        r == [id |-> id, owner |-> HeadOrder.owner, side |-> o.side,
              price |-> o.price, leaves |-> Remainder(book, o),
              rank |-> session.rank_base + Len(placed) + 1]
        msgs == (IF rests THEN <<RestMsg(r)>> ELSE << >>) \o FillReports(o, id)
    IN /\ Place(rests, Exhausted(o))
       /\ book' = IF rests THEN AfterRest(matched, r, MemLevels) ELSE matched
       /\ has_deep' = [has_deep EXCEPT
                          ![o.side] = @ \/ (rests /\ NotesDeep(matched, r, MemLevels))]
       /\ position' = PositionAfter(o, HeadOrder.owner)
       /\ truth' = TruthAfterMatch(o)
                      \cup (IF rests THEN {AliveRecord(r, r.rank)} ELSE {})
       /\ Send(msgs)
       /\ ctl' = IF closed \/ msgs = << >> THEN "calling" ELSE "reporting"

PlaceRefused == Place(FALSE, {}) /\ UNCHANGED <<bookVars, pipe>>

SysPlace ==
    /\ ctl = "drain"
    /\ HeadReady
    /\ ~NeedsDeep(HeadOrder.order)
    /\ IF HeadOrder.ok THEN PlaceRecorded ELSE PlaceRefused
    /\ UNCHANGED <<store, reads, replies, pulls, faults>>

SysCallBack == CallBack /\ UNCHANGED <<bookVars, helperVars, faults>>

-----------------------------------------------------------------------------
HelperStep ==
    \/ HelperWrites
    \/ HelperStartsRead
    \/ \E m \in reads : HelperReads(m)

Deliver ==
    \/ \E r \in replies : DeliverOrder(r) \/ DeliverLevels(r)
    \/ \E r \in replies, key \in Key : DeliverPosition(r, key)

TimeOut ==
    \/ \E s \in SeqNo : TimeOutOrder(s)
    \/ \E key \in Key : TimeOutPosition(key)
    \/ \E p \in pulls : TimeOutLevels(p)

SysDrain == SysDrainStops \/ SysWarmUp \/ SysDeepPull \/ SysPlace \/ SysCallBack

SysNext ==
    /\ \/ \E sym \in Symbol, owner \in Account, o \in Order : SysSubmit(sym, owner, o)
       \/ \E s \in SeqNo, requester \in Account : SysCancel(s, requester)
       \/ SysClose
       \/ HelperStep
       \/ Deliver
       \/ TimeOut
       \/ SysDrain
    /\ UNCHANGED session

SysSpec == SysInit /\ [][SysNext]_sysVars

-----------------------------------------------------------------------------
\* Back in the event loop, the orders a client can name in a cancel are the
\* live ones of the session: the handle of an order that rests, inside the
\* window or beyond it, is kept as long as the order lives, whether or not a
\* pull brings it back, and an order that was filled or cancelled has none.
\* Excepted are the handles of orders from before a restart, which no session
\* gives out again, and a store that refused a write, from which a pull may bring
\* back an order that has left the book, or more of it than is left.
LiveOrdersAreCancellable ==
    ctl = "idle" /\ session.number = 1 /\ "refused" \notin faults =>
        {OrderId(s) : s \in handles} = {t.id : t \in truth}

\* A resident order is a live order, in full: a pull never brings back an
\* order that was cancelled or filled while it was in flight, never a second
\* copy of one, and never with another quantity than it has left.
ResidentIsAlive ==
    /\ \A i \in DOMAIN book : AliveRecord(book[i], book[i].rank) \in truth
    /\ \A i, j \in DOMAIN book : book[i].id = book[j].id => i = j

\* Once the helper has read everything it was sent, its resting book holds
\* exactly the live orders with what they have left, resident or not.
StoreHoldsTheBook ==
    pipe = << >> /\ ~closed =>
        {AliveRecord(r, r.seq) : r \in store.resting} = truth

\* The window has a level for every price.
Prices == {o.price : o \in Order}
WindowHoldsAll == IsFiniteSet(Prices) /\ Cardinality(Prices) <= MemLevels

\* Nothing on a side is beyond the window: a maker trades only if every live
\* order ahead of it, by price and then by rank, is exhausted by the same
\* aggressor, whatever the helper refuses, answers late or never.  That holds
\* also of orders that rested before a restart, as long as the pulls that bring
\* them back are answered, the counters are above theirs, and they all fit in
\* the window: what warm_up leaves in storage is not noted as deep.
Outranks(t, u) ==
    /\ t.side = u.side
    /\ BetterPrice(t.side, t.price, u.price) \/ (t.price = u.price /\ t.rank < u.rank)
NoTradeThrough ==
    [][SysPlace /\ (\A side \in Side : ~has_deep[side])
         /\ (session.number > 1 => /\ WindowHoldsAll
                                   /\ faults \cap {"pull", "closed", "refused", "unseeded"} = {}) =>
          \A t, u \in truth :
              t \notin truth' /\ Outranks(u, t) => \A v \in truth' : v.id # u.id]_sysVars

\* Once everything sent is applied, the net position the book clamps
\* reduce-only orders with is the durable one, for every account pulled, as
\* long as nothing has left the window.  (An order brought back by a pull has
\* no owner, so that only the store moves the position when it trades.)
PositionsAgree ==
    pipe = << >> /\ faults = {} /\ (\A side \in Side : ~has_deep[side]) =>
        \A key \in position_loaded : position[key[2]] = store.net[key[2]]
=============================================================================

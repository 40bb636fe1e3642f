------------------------------ MODULE OrderBook ------------------------------
(***************************************************************************)
(* The order book of order_book.cc with every order feature: hidden and    *)
(* iceberg display, all-or-none, minimum quantity, post-only, reduce-only, *)
(* discretion, self-trade prevention, stops and trailing stops, pegs,      *)
(* contingent groups (OCO, OTO, bracket), auctions and expiry.  The        *)
(* resident window is TradingSystem's subject: here mem_levels is 0.       *)
(*                                                                         *)
(* impl is OrderBook::Impl.  submit() and cancel() are long sequential     *)
(* algorithms, so they are operators from a state b of the book to the     *)
(* next one.  b.fifo holds the resident orders in the order they joined    *)
(* their level: a level's FIFO is the subsequence at its price.            *)
(***************************************************************************)
EXTENDS PriceTimeBook, SequencesExt

CONSTANTS Menu,       \* the orders clients may send, as made by Limit() below
          Account,    \* client ids other than 0, the anonymous one
          Group,      \* contingent group ids
          Price,      \* prices orders and pegs can reach
          Seed,       \* the net position storage gave for each account
          Stp,        \* "none", "resting", "aggressor" or "both"
          MaxOrders   \* bound on the orders submitted

VARIABLES impl,       \* the book
          submitted,  \* orders submitted so far; also the last id given out
          executed,   \* history: what each order has executed
          uncapped,   \* history: the accounts that sent an order the cap does not see
          taken       \* what take_requeued() returned after the operation

bookVars == <<impl, submitted, executed, uncapped, taken>>

NoTrigger == [kind |-> "none", stop |-> 0, trail |-> 0, high |-> 0]
NoPeg == [ref |-> "none", offset |-> 0, cap |-> 0]
NoLink == [role |-> "none", group |-> 0]

\* An order as a client writes it; the axes that are not set have no effect.
Limit(side, price, qty) ==
    [client |-> 0, side |-> side, type |-> "limit", tif |-> "GTC", flags |-> {},
     price |-> price, qty |-> qty, display |-> 0, min_qty |-> 0, disc |-> 0,
     expiry |-> 0, trigger |-> NoTrigger, peg |-> NoPeg, link |-> NoLink]

\* Normalize, and the fields submit() fills in.
Normalize(t, id, seq) ==
    [client |-> t.client, side |-> t.side, type |-> t.type,
     tif |-> CASE t.tif = "GTX" -> "GTC" [] t.tif = "FOK" -> "IOC" [] OTHER -> t.tif,
     flags |-> t.flags \union (IF t.tif = "GTX" THEN {"post_only"} ELSE {})
                       \union (IF t.tif = "FOK" THEN {"aon"} ELSE {}),
     price |-> t.price, qty |-> t.qty,
     display |-> IF t.display = 0 THEN t.qty ELSE t.display,
     min_qty |-> t.min_qty, disc |-> t.disc, expiry |-> t.expiry,
     trigger |-> t.trigger, peg |-> t.peg, link |-> t.link,
     id |-> id, seq |-> seq, rank |-> seq, leaves |-> t.qty, filled |-> 0,
     slice |-> 0]

Opening == {"moo", "loo", "opg"}
Closing == {"moc", "loc"}

Ids(b) == IdsOf(b.fifo)
EntryOf(b, id) == CHOOSE e \in Range(b.fifo) : e.id = id
LevelQueue(b, side, p) == SelectSeq(b.fifo, LAMBDA e : e.side = side /\ e.price = p)
BestOf(side, prices) ==
    IF prices = {} THEN 0 ELSE IF side = "buy" THEN Max(prices) ELSE Min(prices)

DisplayedOf(o) ==
    CASE "hidden" \in o.flags -> 0
      [] "hidden" \notin o.flags /\ "iceberg" \in o.flags -> o.slice
      [] OTHER -> o.leaves

-----------------------------------------------------------------------------
(* Level counters, the cached best price, positions and events.            *)

\* Level::displayed at the order's price moves by q.
Show(b, side, p, q) == [b EXCEPT !.displayed[side][p] = @ + q]

\* Ladder::on_added.
OnAdded(b, side, p) ==
    IF b.best[side] # 0 /\ BetterPrice(side, p, b.best[side])
    THEN [b EXCEPT !.best[side] = p]
    ELSE b

\* Ladder::on_removed, called when the level's total has reached zero.
OnRemoved(b, side, p) ==
    IF b.best[side] = p /\ p \notin Levels(b.fifo, side)
    THEN [b EXCEPT !.best[side] = 0]
    ELSE b

\* Ladder::best fills the cache unless it is valid or the side is empty.
CacheBest(b, side) ==
    IF b.best[side] # 0 THEN b
    ELSE [b EXCEPT !.best[side] = BestOf(side, Levels(b.fifo, side))]

ApplyPosition(b, c, side, q) ==
    IF c = 0 THEN b
    ELSE [b EXCEPT !.net[c] = @ + (IF side = "buy" THEN q ELSE -q)]

Reserve(b, o, q) ==
    IF "reduce_only" \in o.flags /\ o.client # 0
    THEN [b EXCEPT !.reserved[o.client][o.side] = @ + q]
    ELSE b

\* Mutant: the reservation of a filled or cancelled order is kept.
ReleaseReservedNever(b, o, q) == b

ReleaseReserved(b, o, q) == Reserve(b, o, -q)

\* Mutant: orders that already rest are not counted.
ReduceOnlyCapacityGross(b, o) ==
    IF o.side = "sell" THEN b.net[o.client] ELSE -b.net[o.client]

ReduceOnlyCapacity(b, o) ==
    (IF o.side = "sell" THEN b.net[o.client] ELSE -b.net[o.client])
        - b.reserved[o.client][o.side]

Emit(b, type, o, qty, displayed) ==
    [b EXCEPT !.events = Append(@, [type |-> type, id |-> o.id, taker |-> 0,
        side |-> o.side, price |-> o.price, qty |-> qty, displayed |-> displayed])]

EmitTrade(b, taker, maker, side, p, qty, displayed) ==
    [b EXCEPT !.events = Append(@, [type |-> "trade", id |-> maker, taker |-> taker,
        side |-> side, price |-> p, qty |-> qty, displayed |-> displayed])]

-----------------------------------------------------------------------------
(* Matching.  st is the book, the aggressor o, the makers it has hit and   *)
(* whether self-trade prevention cancelled the rest of o.                  *)

EffectiveLimit(o) ==
    CASE "discretion" \notin o.flags -> o.price
      [] "discretion" \in o.flags /\ o.side = "buy" -> o.price + o.disc
      [] OTHER -> o.price - o.disc

Takes(o, p) == Acceptable([o EXCEPT !.price = EffectiveLimit(o)], p)

Crosses(b, o) ==
    LET best == b.best[Opposite(o.side)] IN best # 0 /\ Takes(o, best)

AvailableFill(b, o) ==
    LET makers == {i \in DOMAIN b.fifo : /\ b.fifo[i].side = Opposite(o.side)
                                         /\ Takes(o, b.fifo[i].price)}
    IN Min({o.leaves, LeavesOf(b.fifo, makers)})

\* An order leaves its level: out of the FIFO, of orders and of pegged.
Erase(b, e) ==
    [b EXCEPT !.fifo = WithoutOrder(@, e.id), !.pegged = @ \ {e.id}]

Slice(o) == IF "iceberg" \in o.flags THEN Min({o.display, o.leaves}) ELSE 0

\* A refreshed slice is lit again and told to the feed.
Relight(b, r) == Emit(Show(b, r.side, r.price, r.slice), "replenish", r, r.slice, r.slice)

Refreshed(b, m) == [m EXCEPT !.slice = Slice(m), !.rank = b.next_seq]

Update(fifo, m) == [i \in DOMAIN fifo |-> IF fifo[i].id = m.id THEN m ELSE fifo[i]]

\* An exhausted slice is refreshed at the back of the level with a new rank.
Requeue(b, r) ==
    [b EXCEPT !.fifo = Append(WithoutOrder(@, r.id), r), !.next_seq = @ + 1,
              !.requeued = Append(@, r)]

Replenish(b, m) == Relight(Requeue(b, Refreshed(b, m)), Refreshed(b, m))

\* An iceberg exposes its slice to a fill, the others all they have left.
Fill(o, e) == Min({o.leaves, IF "iceberg" \in e.flags THEN e.slice ELSE e.leaves})

LitPart(e, q) == IF "hidden" \in e.flags THEN 0 ELSE q

FilledBy(e, q) ==
    [e EXCEPT !.leaves = @ - q, !.filled = @ + q,
              !.slice = IF "iceberg" \in e.flags THEN @ - q ELSE @]

\* The trade is told, and positions, counters and reservations follow it.
Trade(b, o, e, p, q) ==
    LET told == [EmitTrade(b, o.id, e.id, o.side, p, q, LitPart(e, q)) EXCEPT !.last = p]
    IN ReleaseReserved(
           Show(ApplyPosition(ApplyPosition(told, o.client, o.side, q), e.client, e.side, q),
                e.side, p, -LitPart(e, q)), e, q)

\* What becomes of a maker after the fill.
Keep(b, m) ==
    IF m.leaves = 0 THEN Erase(b, m)
    ELSE IF "iceberg" \in m.flags /\ m.slice = 0 THEN Replenish(b, m)
    ELSE [b EXCEPT !.fifo = Update(@, m)]

\* One fill q of the aggressor against the maker e at price p.
Execute(st, e, p, q) ==
    [st EXCEPT !.b = Keep(Trade(@, st.o, e, p, q), FilledBy(e, q)),
               !.o = [@ EXCEPT !.leaves = @ - q, !.filled = @ + q],
               !.makers = @ \union {e.id}]

SelfTrade(o, e) == Stp # "none" /\ o.client # 0 /\ e.client = o.client

\* Mutant: the feed is not told that the resting order left.
StpCancelSilent(b, e) ==
    ReleaseReserved(Show(Erase(b, e), e.side, e.price, -DisplayedOf(e)), e, e.leaves)

\* The resting order of a self-trade leaves without a fill.
StpCancel(b, e) ==
    Emit(ReleaseReserved(Show(Erase(b, e), e.side, e.price, -DisplayedOf(e)), e, e.leaves),
         "cancel", e, e.leaves, DisplayedOf(e))

\* An all-or-none maker larger than what is left of o is passed over.
Skips(o, e) == "aon" \in e.flags /\ o.leaves < e.leaves

\* The level is left; its price is gone from the ladder if nothing is there.
LeaveLevel(st, p) == [st EXCEPT !.b = OnRemoved(@, Opposite(st.o.side), p)]

StpResting(st, e) == IF Stp \in {"resting", "both"} THEN [st EXCEPT !.b = StpCancel(@, e)] ELSE st

RECURSIVE MatchLevel(_, _, _, _)

\* match_level at the maker e, position i of the level.  A maker that stays at
\* its place has used up the aggressor, so the position need not move.
MatchMaker(st, p, i, progressed, e) ==
    IF SelfTrade(st.o, e)
    THEN IF Stp \in {"aggressor", "both"}
         THEN LeaveLevel([StpResting(st, e) EXCEPT !.cancelled = TRUE], p)
         ELSE MatchLevel(StpResting(st, e), p, i, TRUE)
    ELSE IF Skips(st.o, e) THEN MatchLevel(st, p, i + 1, progressed)
    ELSE MatchLevel(Execute(st, e, p, Fill(st.o, e)), p, i, TRUE)

\* match_level from position i of the level at p.  A pass that makes no
\* progress ends the level: only all-or-none makers too large for o remain.
MatchLevel(st, p, i, progressed) ==
    LET queue == LevelQueue(st.b, Opposite(st.o.side), p)
    IN IF st.o.leaves = 0 THEN LeaveLevel(st, p)
       ELSE IF i <= Len(queue) THEN MatchMaker(st, p, i, progressed, queue[i])
       ELSE IF progressed THEN MatchLevel(st, p, 1, FALSE)
       ELSE LeaveLevel(st, p)

\* Mutant: the levels are visited from the worst price on.
MatchBackwards(b, o) ==
    LET side == Opposite(o.side)
        prices == SetToSortSeq({p \in Levels(b.fifo, side) : Takes(o, p)},
                               LAMBDA p, q : BetterPrice(side, q, p))
    IN FoldLeft(LAMBDA st, p : IF st.o.leaves = 0 \/ st.cancelled THEN st
                               ELSE MatchLevel(st, p, 1, FALSE),
                [b |-> b, o |-> o, makers |-> {}, cancelled |-> FALSE], prices)

\* match: the acceptable levels, best price first.
Match(b, o) ==
    LET side == Opposite(o.side)
        prices == SetToSortSeq({p \in Levels(b.fifo, side) : Takes(o, p)},
                               LAMBDA p, q : BetterPrice(side, p, q))
    IN FoldLeft(LAMBDA st, p : IF st.o.leaves = 0 \/ st.cancelled THEN st
                               ELSE MatchLevel(st, p, 1, FALSE),
                [b |-> b, o |-> o, makers |-> {}, cancelled |-> FALSE], prices)

\* rest with an unbounded window.
Rest(b, o) ==
    LET e == [o EXCEPT !.slice = Slice(o)]
        joined == OnAdded(Show([b EXCEPT !.fifo = Append(@, e)],
                               e.side, e.price, DisplayedOf(e)), e.side, e.price)
    IN Emit(Reserve(joined, e, e.leaves), "add", e, e.leaves, DisplayedOf(e))

Discards(o) == o.type = "market" \/ o.tif = "IOC"

-----------------------------------------------------------------------------
(* Stops.                                                                  *)

Triggered(o, px) == IF o.side = "buy" THEN px >= o.trigger.stop ELSE px <= o.trigger.stop

\* The stop price follows the reference ref at the trailing distance.
Anchor(o, ref) ==
    [o EXCEPT !.trigger.high = ref,
              !.trigger.stop = IF o.side = "sell" THEN ref - o.trigger.trail
                               ELSE ref + o.trigger.trail]

ArmStop(b, o) ==
    IF o.trigger.kind = "stop" THEN o
    ELSE Anchor(o, IF b.last # 0 THEN b.last ELSE o.trigger.stop)

UpdateTrail(o, px) ==
    IF o.trigger.kind = "trail" /\ BetterPrice(Opposite(o.side), px, o.trigger.high)
    THEN Anchor(o, px)
    ELSE o

RestRemainder(st) ==
    IF st.o.leaves > 0 /\ ~Discards(st.o) THEN [st EXCEPT !.b = Rest(@, st.o)] ELSE st

\* inject: the result of match on whether o was cancelled is not looked at.
Inject(b, o) == RestRemainder(Match(b, o))

\* The makers hit so far and those of st.
Merge(run, st) == [run EXCEPT !.b = st.b, !.makers = @ \union st.makers]

BySeq(S) == SetToSortSeq(S, LAMBDA x, y : x.seq < y.seq)

\* Fires one stop of a round; run is the book and the makers hit so far.
Fire(run, s) ==
    Merge(run, Inject(Emit([run.b EXCEPT !.stops = {t \in @ : t.id # s.id}],
                           "trigger", s, s.leaves, 0), s))

Trailed(stops, px) == IF px = 0 THEN stops ELSE {UpdateTrail(s, px) : s \in stops}
Firing(b) == {s \in b.stops : b.last # 0 /\ Triggered(s, b.last)}

RECURSIVE EvaluateStops(_)

\* Mutant: one round only, the stops it sets off wait for the next trade.
RoundOnce(run) == FoldLeft(Fire, run, BySeq(Firing(run.b)))

\* One round: the stops that the last trade sets off, in arrival order.
Round(run) ==
    IF Firing(run.b) = {} THEN run
    ELSE EvaluateStops(FoldLeft(Fire, run, BySeq(Firing(run.b))))

EvaluateStops(run) == Round([run EXCEPT !.b.stops = Trailed(@, run.b.last)])

-----------------------------------------------------------------------------
(* Pegs.                                                                   *)

ReferenceBest(b, side) ==
    BestOf(side, {e.price : e \in {x \in Range(b.fifo) : x.side = side /\ x.peg = NoPeg}})

PegReference(o, rb, ra) ==
    CASE o.peg.ref = "midpoint" -> IF rb = 0 \/ ra = 0 THEN 0 ELSE (rb + ra) \div 2
      [] o.peg.ref = "primary" -> IF o.side = "buy" THEN rb ELSE ra
      [] o.peg.ref = "market" -> IF o.side = "buy" THEN ra ELSE rb

CapPeg(o, p) ==
    IF o.peg.cap = 0 THEN p
    ELSE IF o.side = "buy" THEN Min({p, o.peg.cap}) ELSE Max({p, o.peg.cap})

PegFrom(o, ref) == IF ref = 0 THEN 0 ELSE Max({0, CapPeg(o, ref + o.peg.offset)})

\* compute_peg_price; 0 when there is no reference or the price is not positive.
PegPrice(b, o) ==
    PegFrom(o, PegReference(o, ReferenceBest(b, "buy"), ReferenceBest(b, "sell")))

\* A moved peg m goes to the back of its new level with a new rank.
Rejoin(b, m) ==
    Emit(OnAdded(Show([b EXCEPT !.fifo = Append(@, m), !.next_seq = @ + 1,
                                !.requeued = Append(@, m)],
                      m.side, m.price, DisplayedOf(m)), m.side, m.price),
         "reprice", m, m.leaves, DisplayedOf(m))

MovePegged(b, e, p) ==
    Rejoin(OnRemoved(Show([b EXCEPT !.fifo = WithoutOrder(@, e.id)],
                          e.side, e.price, -DisplayedOf(e)), e.side, e.price),
           [e EXCEPT !.price = p, !.rank = b.next_seq])

Reprice(b, e, p) == IF p \in {0, e.price} THEN b ELSE MovePegged(b, e, p)

RepricePegs(b) ==
    FoldLeft(LAMBDA c, e : Reprice(c, e, PegPrice(c, e)),
             b, BySeq({e \in Range(b.fifo) : e.id \in b.pegged}))

-----------------------------------------------------------------------------
(* Auctions.                                                               *)

Volume(queue, side, p) ==
    LeavesOf(queue, {i \in DOMAIN queue : queue[i].side = side /\ Acceptable(queue[i], p)})

ClearingVolume(queue, p) == Min({Volume(queue, "buy", p), Volume(queue, "sell", p)})
Imbalance(queue, p) == Max({Volume(queue, "buy", p), Volume(queue, "sell", p)})
                          - ClearingVolume(queue, p)

\* What a clearing price is judged by, the less the better: more volume, then
\* less imbalance, then nearer to the last trade, then lower.
Merit(queue, last, p) ==
    <<-ClearingVolume(queue, p), Imbalance(queue, p),
      IF last = 0 THEN 0 ELSE Max({p - last, last - p}), p>>

ClearsBetter(m, n) ==
    \E i \in DOMAIN m : m[i] < n[i] /\ \A h \in 1..(i - 1) : m[h] = n[h]

\* The prices that clear anything: of the limits, or the last trade's if there
\* are only market orders.
ClearingPrices(queue, last) ==
    LET limits == {o.price : o \in {x \in Range(queue) : x.type # "market"}}
    IN {p \in IF limits = {} /\ last # 0 THEN {last} ELSE limits : ClearingVolume(queue, p) > 0}

\* Market orders first, then the better price, then arrival.
AuctionSide(queue, side) ==
    SetToSortSeq({o \in Range(queue) : o.side = side},
                 LAMBDA x, y : IF (x.type = "market") # (y.type = "market")
                               THEN x.type = "market"
                               ELSE IF x.price # y.price
                               THEN BetterPrice(side, x.price, y.price)
                               ELSE x.seq < y.seq)

\* Pairs the two sides at price p until the volume left is used up.
RECURSIVE CrossPairs(_, _, _, _, _)
CrossPairs(b, buys, sells, p, left) ==
    IF left = 0 THEN [b |-> b, orders |-> buys \o sells]
    ELSE LET x == Head(buys)
             y == Head(sells)
             q == Min({x.leaves, y.leaves, left})
             after(s) == IF Head(s).leaves = q THEN Tail(s)
                         ELSE [s EXCEPT ![1].leaves = @ - q, ![1].filled = @ + q]
             lit == IF "hidden" \in y.flags THEN 0 ELSE q
             traded == EmitTrade(b, x.id, y.id, "buy", p, q, lit)
         IN CrossPairs(ApplyPosition(ApplyPosition(traded, x.client, "buy", q),
                                     y.client, "sell", q),
                       after(buys), after(sells), p, left - q)

CrossAt(b, queue, p) ==
    CrossPairs([b EXCEPT !.last = p], AuctionSide(queue, "buy"), AuctionSide(queue, "sell"),
               p, ClearingVolume(queue, p))

\* The book after the auction's own trades, and what is left of the queue.
Crossed(b, queue, prices) ==
    IF prices = {} THEN [b |-> b, orders |-> queue]
    ELSE CrossAt(b, queue, CHOOSE p \in prices : \A r \in prices \ {p} :
                     ClearsBetter(Merit(queue, b.last, p), Merit(queue, b.last, r)))

Enter(run, o) ==
    Merge(run, Inject(run.b, [o EXCEPT !.flags = @ \ (Opening \union Closing)]))

\* Limit remainders enter continuous trading, the others are discarded.
Entered(crossed) ==
    FoldLeft(Enter, [b |-> crossed.b, makers |-> {}],
             BySeq({o \in Range(crossed.orders) : o.flags \intersect {"loo", "loc"} # {}}))

\* Only trades set off stops and pegs.
Settled(run, traded) ==
    IF traded \/ run.makers # {} THEN RepricePegs(EvaluateStops(run).b) ELSE run.b

\* cross_auction: q names the queue that is crossed and emptied.
CrossAuction(b, q) ==
    LET prices == ClearingPrices(b[q], b.last)
    IN Settled(Entered(Crossed([b EXCEPT ![q] = <<>>], b[q], prices)), prices # {})

-----------------------------------------------------------------------------
(* Cancel and expiry.                                                      *)

Leave(b, e) ==
    OnRemoved(ReleaseReserved(Show(Erase(Emit(b, "cancel", e, e.leaves, DisplayedOf(e)), e),
                                   e.side, e.price, -DisplayedOf(e)), e, e.leaves),
              e.side, e.price)

\* Mutant: a cancel does not look at the pegs.
CancelRestingNoReprice(b, e) == Leave(b, e)

\* A resting order leaves; unless it was a peg itself it may have been a
\* reference.
CancelResting(b, e) ==
    IF e.id \in b.pegged THEN Leave(b, e) ELSE RepricePegs(Leave(b, e))

Cancel(b, id) ==
    IF id \in {s.id : s \in b.stops} THEN [b EXCEPT !.stops = {s \in @ : s.id # id}]
    ELSE IF id \in IdsOf(b.opening) THEN [b EXCEPT !.opening = WithoutOrder(@, id)]
    ELSE IF id \in IdsOf(b.closing) THEN [b EXCEPT !.closing = WithoutOrder(@, id)]
    ELSE IF id \in Ids(b) THEN CancelResting(b, EntryOf(b, id))
    ELSE b

Sorted(S) == SetToSortSeq(S, <)

Expire(b, now) ==
    FoldLeft(Cancel, b, Sorted({e.id : e \in {x \in Range(b.fifo) :
                                              x.expiry > 0 /\ x.expiry <= now}}))

-----------------------------------------------------------------------------
(* submit.                                                                 *)

RECURSIVE Submit(_, _, _)

\* A stop parks, or enters at once when the last trade is already past it.
ParkOrEnter(b, s) ==
    IF b.last # 0 /\ Triggered(s, b.last)
    THEN EvaluateStops([b |-> Inject(b, s).b, makers |-> {}]).b
    ELSE [b EXCEPT !.stops = @ \union {s}]

SubmitStop(b, o) == ParkOrEnter(b, ArmStop(b, o))

\* A peg rests at its reference without matching.
RestPeg(b, o, p) ==
    IF p = 0 THEN b
    ELSE Rest([b EXCEPT !.pegged = @ \union {o.id}], [o EXCEPT !.type = "limit", !.price = p])

SubmitPeg(b, o) == RestPeg(b, o, PegPrice(b, o))

\* An active contingent order joins its group.
Register(b, o, rests) ==
    IF o.link = NoLink THEN b
    ELSE LET g == o.link.group
             joined == IF o.link.role = "oco"
                       THEN [b EXCEPT !.groups[g].legs = Append(@, o.id)]
                       ELSE [b EXCEPT !.groups[g].parent = o.id]
         IN IF rests THEN [joined EXCEPT !.order_group[o.id] = g] ELSE joined

\* The held child enters as an ordinary order, a bracket's legs as an OCO.
ReleaseChildren(b, g) ==
    LET G == b.groups[g]
        freed == [b EXCEPT !.groups[g].child = <<>>, !.groups[g].oco = <<>>]
        alone == [i \in DOMAIN G.child |-> [G.child[i] EXCEPT !.link = NoLink]]
        legs == [i \in DOMAIN G.oco |-> [G.oco[i] EXCEPT !.link.role = "oco"]]
    IN FoldLeft(LAMBDA c, o : Submit(c, o, o.id), freed, alone \o legs)

\* Mutant: the siblings of a filled leg stay.
CancelSiblingsNot(b, g, id) == b

\* A filled leg cancels its siblings.
CancelSiblings(b, g, id) ==
    LET others == SelectSeq(b.groups[g].legs, LAMBDA x : x # id)
        gone == FoldLeft(LAMBDA c, x : Cancel([c EXCEPT !.order_group[x] = 0], x), b, others)
    IN IF id \in Range(b.groups[g].legs)
       THEN [gone EXCEPT !.groups[g].legs = <<>>, !.order_group[id] = 0]
       ELSE b

\* The fills of order id of group g, fully filled or not, are reacted to.
React(b, g, id, fully) ==
    IF b.groups[g].parent = id /\ fully THEN ReleaseChildren(b, g) ELSE b

\* The submitted order o knows its group, a maker's is looked up.
ReactMaker(b, g, id) ==
    IF g = 0 THEN b
    ELSE LET c == CancelSiblings(b, g, id) IN React(c, g, id, id \notin Ids(c))

ReactTo(b, o, id) ==
    IF o.link # NoLink /\ id = o.id
    THEN React(CancelSiblings(b, o.link.group, id), o.link.group, id, o.leaves = 0)
    ELSE ReactMaker(b, b.order_group[id], id)

\* process_link_fills for the submitted order o and the makers that were hit.
ProcessLinkFills(b, o, makers) ==
    FoldLeft(LAMBDA c, id : ReactTo(c, o, id), b,
             Sorted({m \in makers : b.order_group[m] # 0}
                       \union (IF o.link # NoLink /\ o.filled > 0 THEN {o.id} ELSE {})))

Capacity(b, o) ==
    IF "reduce_only" \notin o.flags THEN o.leaves
    ELSE IF o.client = 0 THEN 0 ELSE ReduceOnlyCapacity(b, o)

Capped(o, cap) == [o EXCEPT !.leaves = Min({@, cap}), !.qty = Min({@, cap})]

\* What match left rests unless it was cancelled or is to be discarded.
RestsAfter(st) == st.o.leaves > 0 /\ ~st.cancelled /\ ~Discards(st.o)
Book(st) == IF RestsAfter(st) THEN [st EXCEPT !.b = Rest(@, st.o)] ELSE st
Cascade(st) == IF st.makers = {} THEN st ELSE EvaluateStops(st)
Relink(st, rests) ==
    ProcessLinkFills(Register(RepricePegs(st.b), st.o, rests), st.o, st.makers)
Conclude(st) == Relink(Cascade(Book(st)), RestsAfter(st))

\* After the post-only and reduce-only checks: the rest of the checks, then
\* match, rest, stops, pegs and links.
Trading(b, o) ==
    IF "aon" \in o.flags /\ AvailableFill(b, o) < o.leaves
    THEN IF Discards(o) THEN b ELSE RepricePegs(Rest(b, o))
    ELSE IF o.min_qty > 0 /\ (o.min_qty > o.qty \/ AvailableFill(b, o) < o.min_qty) THEN b
    ELSE Conclude(Match(b, o))

Admit(b, o) ==
    IF \/ "post_only" \in o.flags /\ Crosses(b, o)
       \/ Capacity(b, o) <= 0 THEN b
    ELSE Trading(b, Capped(o, Capacity(b, o)))

\* An ordinary order; crosses() fills the cache of the opposite side.
SubmitContinuous(b, o) ==
    Admit(IF "post_only" \in o.flags THEN CacheBest(b, Opposite(o.side)) ELSE b, o)

Route(b, o) ==
    IF \/ o.qty <= 0
       \/ o.type = "limit" /\ o.price <= 0 /\ o.peg = NoPeg
       \/ o.id \in Ids(b) \union {s.id : s \in b.stops} THEN b
    ELSE IF o.flags \intersect Opening # {} THEN [b EXCEPT !.opening = Append(@, o)]
    ELSE IF o.flags \intersect Closing # {} THEN [b EXCEPT !.closing = Append(@, o)]
    ELSE IF o.link.role = "oto_child" THEN [b EXCEPT !.groups[o.link.group].child = <<o>>]
    ELSE IF o.link.role = "bracket_leg" THEN [b EXCEPT !.groups[o.link.group].oco = Append(@, o)]
    ELSE IF o.trigger # NoTrigger THEN SubmitStop(b, o)
    ELSE IF o.peg # NoPeg THEN SubmitPeg(b, o)
    ELSE SubmitContinuous(b, o)

Submit(b, t, id) == Route([b EXCEPT !.next_seq = @ + 1], Normalize(t, id, b.next_seq))

-----------------------------------------------------------------------------
(* The operations.                                                         *)

\* Every operation starts with no events of its own; what its trades executed
\* is added to the history.
Record(b) ==
    LET traded(id) == {i \in DOMAIN b.events : /\ b.events[i].type = "trade"
                                               /\ id \in {b.events[i].id, b.events[i].taker}}
    IN executed' = [id \in DOMAIN executed |->
                       executed[id] + MapThenSumSet(LAMBDA i : b.events[i].qty, traded(id))]

\* What the engine asks of the book ends with take_requeued.
Operate(b) ==
    /\ impl' = [b EXCEPT !.requeued = <<>>]
    /\ taken' = b.requeued
    /\ Record(b)

\* What is asked of the book alone leaves the re-queued orders there.
Consult(b) ==
    /\ impl' = b
    /\ taken' = <<>>
    /\ UNCHANGED <<submitted, executed, uncapped>>

quiet == [impl EXCEPT !.events = <<>>]

\* Auction orders, stops and pegs return from submit() before the cap of a
\* reduce-only order; a held child or leg is submitted again when it is released.
CapSees(t) ==
    /\ "reduce_only" \in t.flags
    /\ t.flags \intersect (Opening \union Closing) = {}
    /\ t.trigger = NoTrigger
    /\ t.peg = NoPeg

SubmitOrder(t) ==
    /\ submitted < MaxOrders
    /\ submitted' = submitted + 1
    /\ uncapped' = IF CapSees(t) THEN uncapped ELSE uncapped \union ({t.client} \ {0})
    /\ Operate(Submit(quiet, t, submitted + 1))

CancelOrder(id) ==
    /\ id <= submitted
    /\ Operate(Cancel(quiet, id))
    /\ UNCHANGED <<submitted, uncapped>>

\* OrderBook::expire; no caller in the server yet.
ExpireOrders(now) ==
    /\ Expire(quiet, now) # quiet
    /\ Consult(Expire(quiet, now))

RunAuction(q) ==
    /\ impl[q] # <<>>
    /\ Operate(CrossAuction(quiet, q))
    /\ UNCHANGED <<submitted, uncapped>>

\* best_bid and best_ask, which the market-data page reads.
ReadBest(side) ==
    /\ CacheBest(impl, side) # impl
    /\ Consult(CacheBest(quiet, side))

NoGroup == [parent |-> 0, legs |-> <<>>, child |-> <<>>, oco |-> <<>>]

BookInit ==
    /\ impl = [fifo |-> <<>>, stops |-> {}, pegged |-> {},
               groups |-> [g \in Group |-> NoGroup],
               order_group |-> [id \in 1..MaxOrders |-> 0],
               net |-> Seed, reserved |-> [c \in Account |-> [s \in Side |-> 0]],
               opening |-> <<>>, closing |-> <<>>, last |-> 0, next_seq |-> 1,
               best |-> [s \in Side |-> 0],
               displayed |-> [s \in Side |-> [p \in Price |-> 0]], events |-> <<>>,
               requeued |-> <<>>]
    /\ submitted = 0
    /\ executed = [id \in 1..MaxOrders |-> 0]
    /\ uncapped = {}
    /\ taken = <<>>

BookNext ==
    \/ \E t \in Menu : SubmitOrder(t)
    \/ \E id \in 1..MaxOrders : CancelOrder(id)
    \/ \E now \in {1} : ExpireOrders(now)
    \/ \E q \in {"opening", "closing"} : RunAuction(q)
    \/ \E side \in Side : ReadBest(side)

BookSpec == BookInit /\ [][BookNext]_bookVars

=============================================================================

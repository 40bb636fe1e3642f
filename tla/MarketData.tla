----------------------------- MODULE MarketData ------------------------------
(***************************************************************************)
(* The book of OrderBook with the replica that a feed helper builds from   *)
(* its event stream when no event is lost (FeedStream is about the losses; *)
(* it shows that a helper that saw no gap has applied every event up to    *)
(* the last).  The events of an operation are applied with it: the helper  *)
(* applies them in the same order later, and only the book's own steps     *)
(* look at the book.                                                       *)
(***************************************************************************)
EXTENDS OrderBook, BookReplica

VARIABLE replica

marketVars == <<bookVars, replica>>

MarketInit == BookInit /\ replica = EmptyReplica(Side, Price)

\* BookReplica::apply for every event of the operation, in order.
ApplyEvents == replica' = FoldLeft(Apply, replica, impl'.events)

MarketNext ==
    \/ \E t \in Menu : SubmitOrder(t) /\ ApplyEvents
    \/ \E id \in 1..MaxOrders : CancelOrder(id) /\ ApplyEvents
    \/ \E now \in {1} : ExpireOrders(now) /\ ApplyEvents
    \/ \E q \in {"opening", "closing"} : RunAuction(q) /\ ApplyEvents
    \/ \E side \in Side : ReadBest(side) /\ ApplyEvents

MarketSpec == MarketInit /\ [][MarketNext]_marketVars

-----------------------------------------------------------------------------
(* Properties.                                                             *)

\* The replica a feed helper builds from the events is the book: the same
\* orders with the same leaves, the same matchable quantity at every level and
\* the displayed quantity the level's own counter holds.  Every path that
\* changes the book must emit exactly the events that describe the change.
ReplicaIsTheBook ==
    /\ {<<o.id, o.side, o.price, o.qty, o.displayed>> : o \in replica.orders}
          = {<<e.id, e.side, e.price, e.leaves, DisplayedOf(e)>> : e \in Range(impl.fifo)}
    /\ \A s \in Side, p \in Price :
          /\ replica.depth[s][p] = LeavesOf(impl.fifo,
                 {i \in DOMAIN impl.fifo : impl.fifo[i].side = s /\ impl.fifo[i].price = p})
          /\ replica.lit[s][p] = impl.displayed[s][p]

\* A stop never stays parked once the last trade is past its stop price: the
\* cascade of evaluate_stops runs until no parked stop is triggered.
StopsAreQuiescent ==
    impl.last # 0 => \A s \in impl.stops : ~Triggered(s, impl.last)

\* What the book keeps beside its levels agrees with them.  The cached best
\* price of a side, when valid, is the best populated price: a post-only order
\* is admitted or refused on the strength of it.  What is reserved for an
\* account's reduce-only orders is what those orders have left on the book,
\* however they got there and whichever way their siblings left it.  And no
\* order rests with nothing left, which is what lets total > 0 stand for a
\* populated level.
DerivedStateIsFresh ==
    /\ \A s \in Side : impl.best[s] # 0 => impl.best[s] = BestOf(s, Levels(impl.fifo, s))
    /\ \A c \in Account, s \in Side :
          impl.reserved[c][s] = LeavesOf(impl.fifo, {i \in DOMAIN impl.fifo :
              /\ impl.fifo[i].client = c /\ impl.fifo[i].side = s
              /\ "reduce_only" \in impl.fifo[i].flags})
    /\ \A e \in Range(impl.fifo) :
          /\ e.leaves \in 1..e.qty
          /\ "iceberg" \in e.flags => e.slice \in 1..e.leaves

\* An account whose orders have all come to submit()'s reduce-only cap never
\* has its position flipped or grown by them, not even by several that rest at
\* once or by a child released much later: each is capped at what the ones
\* already resting leave of the position it finds.  Nothing is said of an
\* account from its first order that the cap does not see: one that is not
\* reduce-only, or a reduce-only stop, peg or auction order, which submit()
\* parks, rests or queues before it reaches the cap.
ReduceOnlyNeverFlips ==
    \A c \in Account \ uncapped :
        impl.net[c] \in (IF Seed[c] < 0 THEN Seed[c]..0 ELSE 0..Seed[c])

\* The steps that return before reprice_pegs and process_link_fills: a stop
\* that enters at once, and an auction whose remainders only rest.
StopStep == \E t \in Menu : t.trigger # NoTrigger /\ SubmitOrder(t)
AuctionStep == \E q \in {"opening", "closing"} : RunAuction(q)
NoTrades == \A i \in DOMAIN impl'.events : impl'.events[i].type # "trade"

\* Every peg is resident, and pegs that stand where their reference puts them
\* still do after any operation but those.  One pass of reprice_pegs is enough
\* because no peg is another's reference.
AtReference(b) ==
    \A id \in b.pegged : LET e == EntryOf(b, id) IN PegPrice(b, e) \in {0, e.price}
PegsFollowReference ==
    [][/\ impl'.pegged \subseteq Ids(impl')
       /\ AtReference(impl)
             => AtReference(impl') \/ StopStep \/ (AuctionStep /\ NoTrades)]_marketVars

\* The legs of an OCO group on the book or parked that have not traded.
Untraded(b, g) ==
    {o.id : o \in {x \in Range(b.fifo) \union b.stops :
                     x.link = [role |-> "oco", group |-> g] /\ x.filled = 0}}

LegsExclude(g) ==
    \A id \in Untraded(impl, g) :
        executed'[id] > 0 => Untraded(impl', g) = {} \/ StopStep \/ AuctionStep

ParentReleases(g) ==
    LET id == impl.groups[g].parent IN
    /\ id \in Ids(impl) \ Ids(impl')
    /\ executed'[id] > executed[id]
    => \/ impl'.groups[g].child = <<>> /\ impl'.groups[g].oco = <<>>
       \/ StopStep \/ AuctionStep

\* When a resting leg of an OCO group executes for the first time, no untraded
\* leg of the group is left on the book or parked when the operation returns;
\* the steps that return early are left out.
OcoLegsExclude == [][\A g \in Group : LegsExclude(g)]_marketVars

\* process_link_fills sees to the contingent groups: legs exclude each other as
\* above, and when a resting parent is filled in continuous trading the orders
\* its group held for it are released, none being held any longer when submit()
\* returns.
LinksAreProcessed == [][\A g \in Group : LegsExclude(g) /\ ParentReleases(g)]_marketVars

\* What PriceTimeBook knows of a book, and what it makes of a plain order.
PlainView(e) ==
    [id |-> e.id, side |-> e.side, price |-> e.price, leaves |-> e.leaves]
PlainBook(b) == [i \in DOMAIN b.fifo |-> PlainView(b.fifo[i])]
IsPlain(o) ==
    /\ o.flags = {} /\ o.min_qty = 0 /\ o.tif \in {"GTC", "IOC"}
    /\ o.trigger = NoTrigger /\ o.peg = NoPeg /\ o.link = NoLink
PlainBooked(t) ==
    LET o == [t EXCEPT !.type = IF t.tif = "IOC" /\ @ = "limit" THEN "ioc" ELSE @]
        book == PlainBook(impl)
        rest == [id |-> submitted', side |-> t.side, price |-> t.price,
                 leaves |-> Remainder(book, o)]
    IN IF Rests(book, o) THEN Append(AfterMatch(book, o), rest) ELSE AfterMatch(book, o)
\* While plain orders only are on the book, submit() of a plain limit or IOC
\* order, through match_level's passes over the levels and their FIFOs, comes to
\* what price-time priority gives in closed form (PriceTimeBook): the makers it
\* takes from each level, what they have left and what comes to rest.
MatchIsPriceTime ==
    [][/\ submitted' # submitted /\ impl.stops = {}
       /\ \A e \in Range(impl.fifo) : IsPlain(e)
       => \A t \in Menu :
             IsPlain(t) /\ (\A e \in Range(impl.fifo) : ~SelfTrade(t, e)) /\ SubmitOrder(t)
                 => PlainBook(impl') = PlainBooked(t)]_marketVars
=============================================================================

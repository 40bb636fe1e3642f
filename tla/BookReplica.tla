----------------------------- MODULE BookReplica -----------------------------
(***************************************************************************)
(* book_replica.cc for one symbol: the replica r the feed helper keeps by  *)
(* applying the matcher's book events.  r.orders is the market-by-order    *)
(* view, r.depth the matchable and r.lit the displayed quantity per side   *)
(* and price; a level that is absent from the code's maps is 0 here.       *)
(***************************************************************************)
EXTENDS Integers, FiniteSets

EmptyReplica(sides, prices) ==
    LET none == [s \in sides |-> [p \in prices |-> 0]]
    IN [orders |-> {}, depth |-> none, lit |-> none]

\* bump: a level that would reach zero or less is erased.
Bump(level, delta) == IF level + delta <= 0 THEN 0 ELSE level + delta

\* The order's price level moves by qty matchable and lit displayed.
BumpOrder(r, o, qty, lit) ==
    [r EXCEPT !.depth[o.side][o.price] = Bump(@, qty),
              !.lit[o.side][o.price] = Bump(@, lit)]

ViewOf(r, id) == CHOOSE o \in r.orders : o.id = id

Store(r, o) == [r EXCEPT !.orders = {x \in @ : x.id # o.id} \union {o}]
Drop(r, id) == [r EXCEPT !.orders = {x \in @ : x.id # id}]

ApplyAdd(r, ev) ==
    LET o == [id |-> ev.id, side |-> ev.side, price |-> ev.price,
              qty |-> ev.qty, displayed |-> ev.displayed]
    IN BumpOrder(Store(r, o), o, o.qty, o.displayed)

ApplyCancel(r, o) == Drop(BumpOrder(r, o, -o.qty, -o.displayed), o.id)

\* The maker shrinks by the fill and goes when nothing is left.
ApplyTrade(r, o, ev) ==
    LET left == [o EXCEPT !.qty = @ - ev.qty, !.displayed = @ - ev.displayed]
        bumped == BumpOrder(r, o, -ev.qty, -ev.displayed)
    IN IF left.qty <= 0 THEN Drop(bumped, o.id) ELSE Store(bumped, left)

ApplyReprice(r, o, ev) ==
    LET moved == [o EXCEPT !.price = ev.price, !.displayed = ev.displayed]
    IN BumpOrder(Store(BumpOrder(r, o, -o.qty, -o.displayed), moved),
                 moved, moved.qty, moved.displayed)

ApplyReplenish(r, o, ev) ==
    BumpOrder(Store(r, [o EXCEPT !.displayed = @ + ev.displayed]), o, 0, ev.displayed)

\* apply: an event about an order the replica does not know is ignored.
Apply(r, ev) ==
    IF ev.type = "add" THEN ApplyAdd(r, ev)
    ELSE IF ev.id \notin {o.id : o \in r.orders} THEN r
    ELSE LET o == ViewOf(r, ev.id)
         IN CASE ev.type = "cancel" -> ApplyCancel(r, o)
              [] ev.type = "trade" -> ApplyTrade(r, o, ev)
              [] ev.type = "reprice" -> ApplyReprice(r, o, ev)
              [] ev.type = "replenish" -> ApplyReplenish(r, o, ev)
              [] OTHER -> r
=============================================================================

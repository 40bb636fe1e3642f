--------------------------- MODULE PriceTimeBook ----------------------------
(***************************************************************************)
(* The continuous book of order_book.cc for plain limit, IOC and market    *)
(* orders, with its bounded resident window.  A book is the sequence of    *)
(* its resident orders in the order they joined their level's FIFO, so the *)
(* FIFO of a level is the subsequence at its price.  Matching is stated in *)
(* closed form: a maker gets what the makers ahead of it leave.            *)
(***************************************************************************)
EXTENDS Collections, FiniteSetsExt

Side == {"buy", "sell"}
Opposite(side) == IF side = "buy" THEN "sell" ELSE "buy"

\* Ladder::better and worse_than.
BetterPrice(side, p, q) == IF side = "buy" THEN p > q ELSE p < q

\* The acceptable() test of match: a market order takes any price.
Acceptable(o, p) ==
    \/ o.type = "market"
    \/ ~BetterPrice(o.side, p, o.price)

-----------------------------------------------------------------------------
(* match and match_level.                                                  *)

Makers(book, o) ==
    {i \in DOMAIN book : /\ book[i].side = Opposite(o.side)
                         /\ Acceptable(o, book[i].price)}

\* Best price first, then first in the level's FIFO.
Precedes(book, i, j) ==
    \/ BetterPrice(book[i].side, book[i].price, book[j].price)
    \/ book[i].price = book[j].price /\ i < j

LeavesOf(book, S) == SumFunctionOnSet([i \in DOMAIN book |-> book[i].leaves], S)

Filled(book, o) == Min({o.qty, LeavesOf(book, Makers(book, o))})

\* What the maker at index i of the book trades with the aggressor o.
FillAt(book, o, i) ==
    IF i \in Makers(book, o)
    THEN LET ahead == {j \in Makers(book, o) : Precedes(book, j, i)}
             left == Max({0, o.qty - LeavesOf(book, ahead)})
         IN Min({book[i].leaves, left})
    ELSE 0

\* Makers that trade; the ones filled in full leave the book.
Traded(book, o) == {i \in DOMAIN book : FillAt(book, o, i) > 0}

AfterMatch(book, o) ==
    KeepAt([i \in DOMAIN book |-> [book[i] EXCEPT !.leaves = @ - FillAt(book, o, i)]],
         {i \in DOMAIN book : FillAt(book, o, i) < book[i].leaves})

\* submit(): a remainder rests unless the order is a market or an IOC order.
Remainder(book, o) == o.qty - Filled(book, o)
Rests(book, o) == Remainder(book, o) > 0 /\ o.type = "limit"

-----------------------------------------------------------------------------
(* The resident window of rest(); mem = 0 is an unbounded book.            *)

Levels(book, side) == {book[i].price : i \in {j \in DOMAIN book : book[j].side = side}}

WorstPrice(book, side) ==
    IF side = "buy" THEN Min(Levels(book, side)) ELSE Max(Levels(book, side))

\* A new level beyond a full window is not materialized.
RestsDeep(book, r, mem) ==
    /\ mem > 0
    /\ Levels(book, r.side) # {}
    /\ r.price \notin Levels(book, r.side)
    /\ Cardinality(Levels(book, r.side)) >= mem
    /\ BetterPrice(r.side, WorstPrice(book, r.side), r.price)

\* A new level inside the window pushes the worst level out of a full one.
Evicts(book, r, mem) ==
    /\ mem > 0
    /\ r.price \notin Levels(book, r.side)
    /\ Cardinality(Levels(Append(book, r), r.side)) > mem

\* evict_worst drops the level from memory only: storage already has it.
WithoutWorst(book, side) ==
    KeepAt(book, {i \in DOMAIN book : book[i].side # side \/ book[i].price # WorstPrice(book, side)})

AfterRest(book, r, mem) ==
    IF RestsDeep(book, r, mem) THEN book
    ELSE IF Evicts(book, r, mem) THEN WithoutWorst(Append(book, r), r.side)
    ELSE Append(book, r)

\* note_deep: set when an order rests deep or a level is evicted, never reset.
NotesDeep(book, r, mem) == RestsDeep(book, r, mem) \/ Evicts(book, r, mem)

WithoutOrder(book, id) == KeepAt(book, {i \in DOMAIN book : book[i].id # id})
IdsOf(book) == {book[i].id : i \in DOMAIN book}
=============================================================================

--------------------------- MODULE StorageHelper ----------------------------
(***************************************************************************)
(* What a storage helper does with one request.  "reference" is the        *)
(* in-memory helper of src/tools/storage_helper/main.cc, "database" the    *)
(* SQL helpers of src/helpers.  They differ in report_fill: the reference  *)
(* helper subtracts the traded quantity from the resting order, a database *)
(* helper stores the remaining quantity the report carries.                *)
(***************************************************************************)
EXTENDS Collections, FiniteSetsExt

\* The best price of a set on a side: highest bid, lowest ask.
BestOf(side, prices) == IF side = "buy" THEN Max(prices) ELSE Min(prices)

\* The at most count best prices of a set.
BestPrices(side, prices, count) ==
    {p \in prices :
        Cardinality({q \in prices : q # p /\ BestOf(side, {p, q}) = q}) < count}

\* report_order: remember whose order it is, for the positions; insert or
\* replace by id.
ApplyOrder(st, m) ==
    [st EXCEPT !.info = {i \in @ : i.id # m.id}
         \cup {[id |-> m.id, owner |-> m.owner, side |-> m.side]}]

\* report_rest: insert or replace by id.
ApplyRest(st, m) ==
    [st EXCEPT !.resting = {r \in @ : r.id # m.id}
         \cup {[id |-> m.id, side |-> m.side, price |-> m.price,
                leaves |-> m.leaves, seq |-> m.seq]}]

\* report_cancel.
ApplyCancel(st, m) == [st EXCEPT !.resting = {r \in @ : r.id # m.id}]

\* report_fill on the position of the order's owner.
NetAfterFill(st, m) ==
    [a \in DOMAIN st.net |->
        IF [id |-> m.id, owner |-> a, side |-> "buy"] \in st.info
        THEN st.net[a] + m.qty
        ELSE IF [id |-> m.id, owner |-> a, side |-> "sell"] \in st.info
        THEN st.net[a] - m.qty
        ELSE st.net[a]]

\* Mutant: a database subtracts the fill as the reference helper does.
LeavesSubtracted(st, r, m) == r.leaves - m.qty

\* report_fill on the resting order, if it is there.
LeavesAfterFill(st, r, m) ==
    IF st.kind = "reference" THEN r.leaves - m.qty
    ELSE IF m.complete THEN 0 ELSE m.remaining

ApplyFill(st, m) ==
    [st EXCEPT
        !.net = NetAfterFill(st, m),
        !.resting = {r \in @ : r.id # m.id}
            \cup {[r EXCEPT !.leaves = LeavesAfterFill(st, r, m)] :
                    r \in {x \in @ : x.id = m.id
                                     /\ LeavesAfterFill(st, x, m) > 0}}]

ApplyWrite(st, m) ==
    CASE m.type = "order"  -> ApplyOrder(st, m)
      [] m.type = "rest"   -> ApplyRest(st, m)
      [] m.type = "cancel" -> ApplyCancel(st, m)
      [] m.type = "fill"   -> ApplyFill(st, m)

IsRead(m) == m.type \in {"position", "levels"}

Handled(st, m) == IF IsRead(m) THEN st ELSE ApplyWrite(st, m)

\* The store after the first k of the requests ms.
Applied(st, ms, k) ==
    LET after[n \in 0..k] == IF n = 0 THEN st ELSE Handled(after[n - 1], ms[n])
    IN after[k]

\* pull_levels: the orders of the best count levels strictly beyond from
\* (any price if from is the sentinel 0), best price first, then by seq.  The
\* sort leaves open the order of rows with the same seq, which only a start
\* without watermarks can produce; it is taken to be that of their ids.
Beyond(side, from, p) ==
    from = 0 \/ (p # from /\ BestOf(side, {from, p}) = from)

PriceThenSeq(side, S) ==
    {p \in S \X S :
        \/ p[1].price # p[2].price /\ BestOf(side, {p[1].price, p[2].price}) = p[1].price
        \/ p[1].price = p[2].price /\ p[1].seq < p[2].seq
        \/ p[1].price = p[2].price /\ p[1].seq = p[2].seq /\ p[1].id < p[2].id}

PulledOrders(st, m) ==
    LET beyond == {r \in st.resting : r.side = m.side /\ Beyond(m.side, m.from, r.price)}
        prices == BestPrices(m.side, {r.price : r \in beyond}, m.count)
    IN {r \in beyond : r.price \in prices}

PulledLevels(st, m) ==
    Ranked(PulledOrders(st, m), PriceThenSeq(m.side, PulledOrders(st, m)))

\* pull_watermarks: the largest order id ever reported, and the largest rank
\* of a resting order.
MaxId(st) == Max({0} \cup {i.id : i \in st.info})
MaxRank(st) == Max({0} \cup {r.seq : r \in st.resting})
=============================================================================

-------------------------- MODULE MCTradingSystem ---------------------------
(* Small instances of TradingSystem: prices 1 and 2, quantities 1 and 2.    *)
EXTENDS TradingSystem

CONSTANTS s1, alice, anon

Buy(type, price, qty) == [side |-> "buy", type |-> type, price |-> price, qty |-> qty]
Sell(type, price, qty) == [side |-> "sell", type |-> type, price |-> price, qty |-> qty]

MCSymbols == {s1}
MCOneOwner == {alice}

\* The least that fills a window of one level, rests beyond it, and pulls.
MCFewOrders == {Sell("limit", 1, 1), Sell("limit", 2, 2), Buy("limit", 2, 2)}

MCLong == [a \in Owner |-> 1]
=============================================================================

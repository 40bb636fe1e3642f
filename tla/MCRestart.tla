----------------------------- MODULE MCRestart ------------------------------
(* Small instances of Restart: two prices on one side, a window of two     *)
(* levels, so that what rests is resident once it has been pulled.         *)
EXTENDS Restart

CONSTANTS s1, anon

Buy(type, price, qty) == [side |-> "buy", type |-> type, price |-> price, qty |-> qty]
Sell(type, price, qty) == [side |-> "sell", type |-> type, price |-> price, qty |-> qty]

MCSymbols == {s1}
MCNoOwner == {}
MCOrders == {Sell("limit", 1, 1), Sell("limit", 2, 2), Buy("limit", 2, 2),
             Buy("market", 1, 1)}
MCLong == [a \in Owner |-> 1]
=============================================================================

-------------------------- MODULE MCTradingEngine ---------------------------
(* A small instance of TradingEngine: two accounts and the anonymous one.  *)
EXTENDS TradingEngine

CONSTANTS s1, s2, alice, bob, anon, o1

MCSymbols == {s1, s2}
MCOneSymbol == {s1}
MCOwners == {alice, bob}
MCOneOwner == {alice}
MCOrders == {o1}
=============================================================================

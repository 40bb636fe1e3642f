---------------------------- MODULE MCMarketData -----------------------------
(* Small instances of BookStore.                                           *)
EXTENDS BookStore

By(c, o) == [o EXCEPT !.client = c]
Flagged(o, fs) == [o EXCEPT !.flags = fs]
Stop(o, px) == [o EXCEPT !.trigger = [kind |-> "stop", stop |-> px, trail |-> 0, high |-> 0]]
Trail(o, px, by) ==
    [o EXCEPT !.trigger = [kind |-> "trail", stop |-> px, trail |-> by, high |-> 0]]
Peg(o, ref, offset, cap) == [o EXCEPT !.peg = [ref |-> ref, offset |-> offset, cap |-> cap]]
Linked(o, role, g) == [o EXCEPT !.link = [role |-> role, group |-> g]]
Market(side, qty) == [Limit(side, 0, qty) EXCEPT !.type = "market"]
Tif(o, tif) == [o EXCEPT !.tif = tif]

\* What later steps depend on: not on the events and the re-queued orders that
\* the last operation returned.
MCView == <<[impl EXCEPT !.events = <<>>], submitted, executed, uncapped, replica, store, handles>>

MCAccount == {1, 2}
MCSeed == [c \in {1, 2} |-> IF c = 2 THEN 2 ELSE 0]

\* Plain orders at two prices, limit, immediate-or-cancel and market, and one
\* order per feature, or two.  Account 2 is long and only sends reduce-only orders, of
\* which the cap of submit() does not see the stop.
MCMenu ==
    { By(1, Limit("sell", 3, 2)),
      Limit("sell", 2, 1),
      Limit("buy", 3, 3),
      Tif(Limit("buy", 3, 2), "IOC"),
      Limit("buy", 2, 1),
      Market("sell", 4),
      [Tif(Flagged(Limit("sell", 3, 3), {"iceberg"}), "GTX") EXCEPT !.display = 1],
      By(1, [Flagged(Limit("buy", 2, 3), {"hidden", "discretion"})
                EXCEPT !.disc = 1, !.expiry = 1]),
      By(2, Flagged(Limit("sell", 3, 2), {"reduce_only"})),
      By(2, Flagged(Stop(Limit("sell", 2, 1), 3), {"reduce_only"})),
      Trail(Market("sell", 1), 3, 1),
      Peg(Limit("buy", 0, 1), "primary", 0, 0),
      Peg(Limit("sell", 0, 1), "midpoint", 1, 0),
      Flagged(Limit("buy", 3, 2), {"aon"}),
      Linked(Limit("buy", 3, 2), "oco", 1),
      Linked(Limit("buy", 3, 1), "parent", 1),
      Linked(Limit("sell", 3, 1), "oto_child", 1),
      Flagged(Limit("buy", 3, 2), {"loo"}),
      Flagged(Market("sell", 1), {"moo"}) }

\* A bracket: a parent, a take-profit, a stop-loss, and orders that fill them.
MCBracketMenu ==
    { Linked(Limit("buy", 3, 1), "parent", 1),
      Linked(Limit("sell", 4, 1), "bracket_leg", 1),
      Stop(Linked(Limit("sell", 2, 1), "bracket_leg", 1), 2),
      Limit("sell", 3, 1),
      Limit("buy", 4, 1) }
=============================================================================

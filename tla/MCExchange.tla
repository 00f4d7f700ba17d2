---------------------------- MODULE MCExchange ----------------------------
(* Exchange on small sets for TLC: quantities whose sum wraps, and a price *)
(* whose top bit is set.                                                   *)
EXTENDS Exchange

Add(type, side, price, quantity) ==
  [kind |-> "add", type |-> type, side |-> side, price |-> price, quantity |-> quantity]

Modify(id, side, price, quantity) ==
  [kind |-> "modify", orderId |-> id, side |-> side, price |-> price, quantity |-> quantity]

MCCommands ==
  {Add("GoodTillCancel", "Buy", 15, 15), Add("FillandKill", "Sell", 15, 1),
   Modify(1, "Buy", 1, 15), [kind |-> "cancel", orderId |-> 1],
   [kind |-> "status"], [kind |-> "users"], [kind |-> "quit"]}

(* Orders that can only rest, of two clients.                              *)
MCBids == {Add("GoodTillCancel", "Buy", 15, 1), Add("GoodTillCancel", "Buy", 1, 1),
           [kind |-> "status"]}

MCPrices == {-1, 1}
===========================================================================

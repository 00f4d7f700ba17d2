------------------------- MODULE OrderbookHistory --------------------------
(***************************************************************************)
(* Orderbook with two history variables.  lastRequest is the request made  *)
(* last: a cancelled order and a modified one that is then refused leave   *)
(* the same book behind, and only the request tells them apart.  before is *)
(* the index as it was when the MatchOrders call in progress began: a fill *)
(* that completes an order takes it out of the index, and what it had left *)
(* to trade is nowhere else.                                               *)
(***************************************************************************)
EXTENDS Orderbook

VARIABLES
  lastRequest,  (* "none", "add", "cancel" or "modify"                     *)
  before        (* id -> Order, when the call began; empty between calls   *)

historyVars == <<vars, lastRequest, before>>

HInit ==
  /\ Init
  /\ lastRequest = "none"
  /\ before = EmptyMap

(* A call that has begun to match remembers the index it found.            *)
Remember ==
  before' = IF pc' # "matching" THEN EmptyMap
            ELSE IF pc = "matching" THEN before ELSE orders'

HMatchOrders == MatchOrders /\ Remember /\ UNCHANGED lastRequest

HNext ==
  \/ SomeAdd /\ Remember /\ lastRequest' = "add"
  \/ SomeCancel /\ Remember /\ lastRequest' = "cancel"
  \/ SomeModify /\ Remember /\ lastRequest' = "modify"
  \/ HMatchOrders

HSpec == HInit /\ [][HNext]_historyVars /\ WF_historyVars(HMatchOrders)

-----------------------------------------------------------------------------

(* The trade fills order id to the end.                                    *)
FilledBy(id, trade) ==
  \/ trade.bid.orderId = id /\ trade.bid.quantity = orders[id].remaining
  \/ trade.ask.orderId = id /\ trade.ask.quantity = orders[id].remaining

(* A good-till-cancel order leaves the book only by a cancel request or by *)
(* a trade that fills it (orderbook.cpp:35: "holds till user says no and   *)
(* cancels the damn order"): a modify request never loses it.              *)
GoodTillCancelHolds ==
  [][\A id \in DOMAIN orders :
       orders[id].type = "GoodTillCancel" /\ id \notin DOMAIN orders' =>
         \/ lastRequest' = "cancel"
         \/ trades' # <<>> /\ FilledBy(id, trades'[Len(trades')])]_historyVars

(* The quantity a trade says order id traded, and what all the trades of   *)
(* the call in progress say it did.                                        *)
QuantityIn(trade, id) ==
    (IF trade.bid.orderId = id THEN trade.bid.quantity ELSE 0)
  + (IF trade.ask.orderId = id THEN trade.ask.quantity ELSE 0)

Traded(id) == SumFunction([i \in DOMAIN trades |-> QuantityIn(trades[i], id)])

(* A trade is one of a bid and an ask of the book the call began with, at  *)
(* the prices they were entered with, which cross.                         *)
IsTradeOf(trade, book) ==
  /\ trade.bid.orderId \in DOMAIN book /\ trade.ask.orderId \in DOMAIN book
  /\ book[trade.bid.orderId].side = "Buy" /\ book[trade.ask.orderId].side = "Sell"
  /\ trade.bid.price = book[trade.bid.orderId].price
  /\ trade.ask.price = book[trade.ask.orderId].price
  /\ trade.bid.price >= trade.ask.price

Left(id) == IF id \in DOMAIN orders THEN orders[id].remaining ELSE 0

(* The trades a call has collected account for everything it has done to   *)
(* the book: of every order the call found, those it has completed and     *)
(* taken out of the index included, the trades say exactly what is no      *)
(* longer left of it, and they name no other order and no other price.     *)
(* The fills, the erasures and the trade are separate statements of the    *)
(* loop, and the trade is made of orders that may be gone.                 *)
TradesAccountForFills ==
  pc = "matching" =>
    /\ DOMAIN orders \subseteq DOMAIN before
    /\ \A id \in DOMAIN before : before[id].remaining - Left(id) = Traded(id)
    /\ \A i \in DOMAIN trades : IsTradeOf(trades[i], before)
=============================================================================

-------------------------- MODULE LimitOrderBook ---------------------------
(***************************************************************************)
(* What an order book with price-time priority promises, with no levels,   *)
(* lists or index: a set of resting orders and, for orders of one side and *)
(* price, which of them came first.  A call that adds an order makes the   *)
(* book busy; while busy, the first bid and the first ask trade as long as *)
(* they cross; the call ends when no bid crosses an ask, and what is left  *)
(* of a fill-and-kill order is gone by then.  Orderbook is shown to        *)
(* implement this module in OrderbookRefinement.                           *)
(***************************************************************************)
EXTENDS Integers

CONSTANTS OrderIds, Prices, Quantities

VARIABLES
  resting,  (* id -> order, for the ids in the book                        *)
  ahead,    (* <<x, y>>: x is before y in the queue of their side and price *)
  busy      (* a call is matching                                          *)

bookVars == <<resting, ahead, busy>>

Sides      == {"Buy", "Sell"}
(* An order of another type than these two rests like good-till-cancel.    *)
OrderTypes == {"GoodTillCancel", "FillandKill", "Other"}

-----------------------------------------------------------------------------

Better(side, p, q) == IF side = "Buy" THEN p > q ELSE p < q

Crosses(bid, ask) ==
  /\ resting[bid].side = "Buy"
  /\ resting[ask].side = "Sell"
  /\ resting[bid].price >= resting[ask].price

(* Price first, then time: nobody on its side is better or ahead.          *)
HasPriority(id) ==
  \A other \in DOMAIN resting :
    resting[other].side = resting[id].side =>
      /\ ~Better(resting[id].side, resting[other].price, resting[id].price)
      /\ <<other, id>> \notin ahead

Keep(ids) ==
  /\ resting' = [id \in ids |-> resting[id]]
  /\ ahead' = ahead \cap (ids \X ids)

-----------------------------------------------------------------------------

Init ==
  /\ resting = [id \in {} |-> id]
  /\ ahead = {}
  /\ busy = FALSE

(* A new order joins the end of its queue; others may be withdrawn in the  *)
(* same step (the order it replaces).                                      *)
Join(ids, id, order) ==
  /\ resting' = [x \in ids \cup {id} |-> IF x = id THEN order ELSE resting[x]]
  /\ ahead' = (ahead \cap (ids \X ids))
                \cup {<<x, id>> : x \in {y \in ids : /\ resting[y].side = order.side
                                                     /\ resting[y].price = order.price}}
  /\ busy' = TRUE

Orders == [type : OrderTypes, side : Sides, price : Prices, quantity : Quantities]

AsOrder(o) == [type |-> o.type, side |-> o.side, price |-> o.price,
               initial |-> o.quantity, remaining |-> o.quantity]

(* A fill-and-kill order needs somebody to trade with at once.             *)
Admissible(ids, order) ==
  order.type = "FillandKill" =>
    \E other \in ids :
      /\ resting[other].side # order.side
      /\ ~Better(order.side, resting[other].price, order.price)

Place(id, order) ==
  /\ ~busy
  /\ id \notin DOMAIN resting
  /\ Admissible(DOMAIN resting, order)
  /\ Join(DOMAIN resting, id, order)

Withdraw(id) ==
  /\ ~busy
  /\ id \in DOMAIN resting
  /\ Keep(DOMAIN resting \ {id})
  /\ UNCHANGED busy

(* A modification is a withdrawal and a placement at the back of the queue *)
(* of the new price.                                                       *)
Replace(id, order) ==
  /\ ~busy
  /\ id \in DOMAIN resting
  /\ Admissible(DOMAIN resting \ {id}, order)
  /\ Join(DOMAIN resting \ {id}, id, order)

(* The first bid and the first ask trade the smaller of what they have     *)
(* left; an order with nothing left is gone.                               *)
TradeFirst(bid, ask) ==
  LET quantity  == IF resting[bid].remaining <= resting[ask].remaining
                   THEN resting[bid].remaining ELSE resting[ask].remaining
      Left(id)  == IF id \in {bid, ask} THEN resting[id].remaining - quantity
                                        ELSE resting[id].remaining
      open      == {id \in DOMAIN resting :
                      id \in {bid, ask} => Left(id) # 0}
  IN  /\ resting' = [id \in open |-> [resting[id] EXCEPT !.remaining = Left(id)]]
      /\ ahead' = ahead \cap (open \X open)

Match ==
  /\ busy
  /\ \E bid, ask \in DOMAIN resting :
       /\ Crosses(bid, ask)
       /\ HasPriority(bid)
       /\ HasPriority(ask)
       /\ TradeFirst(bid, ask)
  /\ UNCHANGED busy

Done ==
  /\ busy
  /\ ~\E bid, ask \in DOMAIN resting : Crosses(bid, ask)
  /\ Keep({id \in DOMAIN resting : resting[id].type # "FillandKill"})
  /\ busy' = FALSE

Next ==
  \/ \E id \in OrderIds, o \in Orders :
       Place(id, AsOrder(o)) \/ Replace(id, AsOrder(o))
  \/ \E id \in OrderIds : Withdraw(id)
  \/ Match
  \/ Done

Spec == Init /\ [][Next]_bookVars
=============================================================================

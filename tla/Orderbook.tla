----------------------------- MODULE Orderbook -----------------------------
(***************************************************************************)
(* class Orderbook (Orderbook Server/orderbook.cpp): price levels, an      *)
(* index of the live orders, and the operations AddOrder, CancelOrder,     *)
(* MatchOrder (modify) and MatchOrders (the matching loop).                *)
(*                                                                         *)
(* The two maps bids_ and asks_ are levels["Buy"] and levels["Sell"]: from *)
(* the prices that have a map entry to the list of the order ids queued    *)
(* there, front first.  A level may exist and be empty.  orders_ is        *)
(* orders: from the ids it holds to the Order object, which the lists      *)
(* share through their OrderPointer.                                       *)
(*                                                                         *)
(* A call of AddOrder or MatchOrder is one step up to the matching loop;   *)
(* the loop then takes one step per iteration, with pc = "matching", and   *)
(* the call returns when pc is "idle" again.  CancelOrder and MatchOrder   *)
(* read the erased OrderEntry through a reference that dangles: such a     *)
(* read is a choice over the outcomes in StaleReads.  What an erase at an  *)
(* iterator made of other bytes does to the heap without a fault is left   *)
(* out.                                                                    *)
(***************************************************************************)
EXTENDS Integers, Sequences, SequencesExt

CONSTANTS
  OrderIds,    (* the order ids requests may name                          *)
  Prices,      (* the limit prices                                         *)
  Quantities,  (* the order quantities; the server accepts zero            *)
  StaleReads   (* what reading a freed OrderEntry can give: "kept", the    *)
               (* old bytes; "reused", another object's bytes, a pointer   *)
               (* made of which may fault when followed; "fault", an       *)
               (* access violation (the fill of a Debug heap)              *)

ASSUME PricesAssumption     == Prices \subseteq Int
ASSUME QuantitiesAssumption == Quantities \subseteq Nat
ASSUME StaleReadsAssumption == StaleReads \subseteq {"kept", "reused", "fault"}

VARIABLES
  levels,  (* [Sides -> price -> queue of ids]: bids_ and asks_            *)
  orders,  (* id -> Order: orders_                                         *)
  trades,  (* the local Trades of the MatchOrders call in progress         *)
  pc       (* "idle": no call; "matching": in MatchOrders; "crashed"       *)

vars == <<levels, orders, trades, pc>>

-----------------------------------------------------------------------------

Sides      == {"Buy", "Sell"}
OrderTypes == {"GoodTillCancel", "FillandKill"}

Opposite(side) == IF side = "Buy" THEN "Sell" ELSE "Buy"

(* What type_ can hold: bytes of another object need be no enumerator.     *)
StoredTypes == OrderTypes \cup {"Other"}

Order == [type : StoredTypes, side : Sides, price : Prices,
          initial : Quantities, remaining : Nat]

TradeInfo == [orderId : OrderIds, price : Prices, quantity : Nat]
Trade     == [bid : TradeInfo, ask : TradeInfo]

(* Mutant of NewOrder: price and quantity in the wrong order.              *)
NewOrderSwapped(type, side, price, quantity) ==
  [type |-> type, side |-> side, price |-> quantity,
   initial |-> price, remaining |-> price]

NewOrder(type, side, price, quantity) ==
  [type |-> type, side |-> side, price |-> price,
   initial |-> quantity, remaining |-> quantity]

-----------------------------------------------------------------------------
(***************************************************************************)
(* The price order of the two maps, and their *begin().                    *)
(***************************************************************************)

AtLeastAsGood(side, p, q) == IF side = "Buy" THEN p >= q ELSE p <= q

IsBest(side, p) ==
  /\ p \in DOMAIN levels[side]
  /\ \A q \in DOMAIN levels[side] : AtLeastAsGood(side, p, q)

(* An order at price can trade with the best level of the other side,      *)
(* empty or not: some level over there has a price it reaches.             *)
CanMatch(lv, side, price) ==
  \E p \in DOMAIN lv[Opposite(side)] : AtLeastAsGood(side, price, p)

(* The loop condition of MatchOrders: the best bid level reaches the best  *)
(* ask level.                                                              *)
Crossed == \E p \in DOMAIN levels["Buy"] : CanMatch(levels, "Buy", p)

-----------------------------------------------------------------------------
(***************************************************************************)
(* Changing one side's map, or the index.                                  *)
(***************************************************************************)

With(map, key, value) ==
  [k \in DOMAIN map \cup {key} |-> IF k = key THEN value ELSE map[k]]


(* Mutant of Queued: push_front.                                           *)
QueuedInFront(map, price, id) ==
  LET level == IF price \in DOMAIN map THEN map[price] ELSE <<>>
  IN  With(map, price, <<id>> \o level)

(* push_back on map[price], which creates the level when it is missing.    *)
Queued(map, price, id) ==
  LET level == IF price \in DOMAIN map THEN map[price] ELSE <<>>
  IN  With(map, price, Append(level, id))

(* erase(location_) from its level, then of the level if it is now empty.  *)
Unqueued(map, price, id) ==
  LET location == CHOOSE i \in DOMAIN map[price] : map[price][i] = id
      rest     == RemoveAt(map[price], location)
  IN  IF rest = <<>> THEN Restrict(map, DOMAIN map \ {price})
                     ELSE [map EXCEPT ![price] = rest]

(* Both maps without the live order id.                                    *)
Without(id) ==
  [levels EXCEPT ![orders[id].side] = Unqueued(@, orders[id].price, id)]

Erased(ids) == Restrict(orders, DOMAIN orders \ ids)

-----------------------------------------------------------------------------

EmptyMap == [key \in {} |-> key]

Init ==
  /\ levels = [s \in Sides |-> EmptyMap]
  /\ orders = EmptyMap
  /\ trades = <<>>
  /\ pc = "idle"

(* Mutant of Accepts: a fill-and-kill order is let in unconditionally.     *)
AcceptsAny(lv, os, id, order) == id \notin DOMAIN os

(* The guards of AddOrder, on the maps lv and the index os.                *)
Accepts(lv, os, id, order) ==
  /\ id \notin DOMAIN os
  /\ order.type = "FillandKill" => CanMatch(lv, order.side, order.price)

(* AddOrder's body on the maps lv and the index os: a refused order leaves *)
(* them as they are; an accepted one is queued and MatchOrders starts.     *)
Insert(lv, os, id, order) ==
  \/ /\ ~Accepts(lv, os, id, order)
     /\ levels' = lv
     /\ orders' = os
     /\ UNCHANGED <<trades, pc>>
  \/ /\ Accepts(lv, os, id, order)
     /\ levels' = [lv EXCEPT ![order.side] = Queued(@, order.price, id)]
     /\ orders' = With(os, id, order)
     /\ trades' = <<>>
     /\ pc' = "matching"

AddOrder(id, order) ==
  /\ pc = "idle"
  /\ Insert(levels, orders, id, order)

(* A call that names no live order returns at once.                        *)
NoSuchOrder(id) ==
  /\ pc = "idle"
  /\ id \notin DOMAIN orders
  /\ UNCHANGED vars

(* The bytes read from an erased entry, or what they point to, may fault.  *)
ReadsMayFault == StaleReads \cap {"fault", "reused"} # {}

(* The read of the erased entry faults: the process is gone.               *)
StaleFault(id) ==
  /\ pc = "idle"
  /\ id \in DOMAIN orders
  /\ ReadsMayFault
  /\ pc' = "crashed"
  /\ UNCHANGED <<levels, orders, trades>>

(* The entry is erased first and its order_ and location_ read afterwards. *)
CancelLive(id) ==
  /\ pc = "idle"
  /\ id \in DOMAIN orders
  /\ "kept" \in StaleReads
  /\ levels' = Without(id)
  /\ orders' = Erased({id})
  /\ UNCHANGED <<trades, pc>>

CancelOrder(id) == NoSuchOrder(id) \/ StaleFault(id) \/ CancelLive(id)

(* Mutant of StaleTypes: the type is never the old one for sure.           *)
StaleTypesAny(id) == OrderTypes

(* What existingOrder->GetOrderType() may give once the order is freed:    *)
(* other threads have had the time to reuse its memory.                    *)
StaleTypes(id) ==
  {orders[id].type} \cup (IF "reused" \in StaleReads THEN StoredTypes ELSE {})

(* CancelOrder, then AddOrder of the replacement.                          *)
ModifyLive(id, side, price, quantity) ==
  /\ pc = "idle"
  /\ id \in DOMAIN orders
  /\ "kept" \in StaleReads
  /\ \E type \in StaleTypes(id) :
       Insert(Without(id), Erased({id}), id,
              NewOrder(type, side, price, quantity))

MatchOrder(id, side, price, quantity) ==
  \/ NoSuchOrder(id)
  \/ StaleFault(id)
  \/ ModifyLive(id, side, price, quantity)

-----------------------------------------------------------------------------
(***************************************************************************)
(* MatchOrders.                                                            *)
(***************************************************************************)

(* The best levels cross.                                                  *)
BestLevels(b, a) ==
  /\ IsBest("Buy", b)
  /\ IsBest("Sell", a)
  /\ b >= a

(* Mutant of FillQuantity: min is missing.                                 *)
FillQuantityOfBid(bid, ask) == orders[bid].remaining

FillQuantity(bid, ask) ==
  IF orders[bid].remaining <= orders[ask].remaining
  THEN orders[bid].remaining
  ELSE orders[ask].remaining

(* Order::Fill throws, and nothing catches it.                             *)
Overfills(bid, ask, quantity) ==
  \E id \in {bid, ask} : quantity > orders[id].remaining

(* The ones of the two orders that the fill completes.                     *)
Completed(bid, ask, quantity) ==
  {id \in {bid, ask} : orders[id].remaining - quantity = 0}

(* Mutant of Filled: orders_.erase is missing.                             *)
FilledNotErased(bid, ask, quantity) ==
  [id \in DOMAIN orders |->
     IF id \in {bid, ask}
     THEN [orders[id] EXCEPT !.remaining = @ - quantity]
     ELSE orders[id]]

(* The orders after the two Fill calls, the completed ones erased.         *)
Filled(bid, ask, quantity) ==
  [id \in DOMAIN orders \ Completed(bid, ask, quantity) |->
     IF id \in {bid, ask}
     THEN [orders[id] EXCEPT !.remaining = @ - quantity]
     ELSE orders[id]]

(* pop_front if the front order is done; the level stays in the map.       *)
Popped(level, done) == IF Head(level) \in done THEN Tail(level) ELSE level

(* Mutant of TradeOf: the quantities are read from the orders.             *)
TradeOfRemaining(bid, ask, quantity) ==
  [bid |-> [orderId |-> bid, price |-> orders[bid].price,
            quantity |-> orders[bid].remaining],
   ask |-> [orderId |-> ask, price |-> orders[ask].price,
            quantity |-> orders[ask].remaining]]

TradeOf(bid, ask, quantity) ==
  [bid |-> [orderId |-> bid, price |-> orders[bid].price, quantity |-> quantity],
   ask |-> [orderId |-> ask, price |-> orders[ask].price, quantity |-> quantity]]

(* One iteration of the inner loop, on the two best levels.                *)
FillFront(b, a) ==
  /\ levels["Buy"][b] # <<>>
  /\ levels["Sell"][a] # <<>>
  /\ LET bid      == Head(levels["Buy"][b])
         ask      == Head(levels["Sell"][a])
         quantity == FillQuantity(bid, ask)
         done     == Completed(bid, ask, quantity)
     IN  IF Overfills(bid, ask, quantity)
         THEN pc' = "crashed" /\ UNCHANGED <<levels, orders, trades>>
         ELSE /\ levels' = [levels EXCEPT !["Buy"][b]  = Popped(@, done),
                                          !["Sell"][a] = Popped(@, done)]
              /\ orders' = Filled(bid, ask, quantity)
              /\ trades' = Append(trades, TradeOf(bid, ask, quantity))
              /\ UNCHANGED pc

Fill ==
  /\ pc = "matching"
  /\ \E b \in DOMAIN levels["Buy"], a \in DOMAIN levels["Sell"] :
       BestLevels(b, a) /\ FillFront(b, a)

(* One iteration of the outer loop that finds a best level empty: the      *)
(* inner loop does nothing and no statement erases the level.              *)
Spin ==
  /\ pc = "matching"
  /\ \E b \in DOMAIN levels["Buy"], a \in DOMAIN levels["Sell"] :
       /\ BestLevels(b, a)
       /\ levels["Buy"][b] = <<>> \/ levels["Sell"][a] = <<>>
  /\ UNCHANGED vars

(* The fill-and-kill orders at the front of a best level, which are        *)
(* cancelled after the loop.                                               *)
Residual ==
  {id \in DOMAIN orders :
     /\ orders[id].type = "FillandKill"
     /\ \E s \in Sides : \E p \in DOMAIN levels[s] :
          IsBest(s, p) /\ levels[s][p] # <<>> /\ Head(levels[s][p]) = id}

(* The side s after that cancellation.                                     *)
Killed(s) ==
  IF \E id \in Residual : orders[id].side = s
  THEN LET id == CHOOSE r \in Residual : orders[r].side = s
       IN  Unqueued(levels[s], orders[id].price, id)
  ELSE levels[s]

(* Mutants of Return: the loop also breaks when a best level is used up,   *)
(* leaving that level in its map; the loop does not break.                 *)
ReturnOnEmptyLevel ==
  /\ pc = "matching"
  /\ \/ ~Crossed
     \/ \E s \in Sides : \E p \in DOMAIN levels[s] :
          IsBest(s, p) /\ levels[s][p] = <<>>
  /\ pc' = "idle"
  /\ trades' = <<>>
  /\ UNCHANGED <<levels, orders>>

ReturnNever == pc = "matching" /\ ~Crossed /\ UNCHANGED vars

(* The best levels do not cross: the loop breaks and the call returns its  *)
(* trades to the caller.                                                   *)
Return ==
  /\ pc = "matching"
  /\ ~Crossed
  /\ levels' = [s \in Sides |-> Killed(s)]
  /\ orders' = Erased(Residual)
  /\ trades' = <<>>
  /\ pc' \in IF Residual # {} /\ ReadsMayFault
             THEN {"idle", "crashed"} ELSE {"idle"}

MatchOrders == Fill \/ Spin \/ Return

-----------------------------------------------------------------------------

(* A crashed process does nothing more.                                    *)
Dead == pc = "crashed" /\ UNCHANGED vars

(* The calls a caller can make, and the rest.                              *)
SomeAdd ==
  \E id \in OrderIds, type \in OrderTypes, side \in Sides,
     price \in Prices, quantity \in Quantities :
    AddOrder(id, NewOrder(type, side, price, quantity))

SomeCancel == \E id \in OrderIds : CancelOrder(id)

SomeModify ==
  \E id \in OrderIds, side \in Sides, price \in Prices, quantity \in Quantities :
    MatchOrder(id, side, price, quantity)

Next == SomeAdd \/ SomeCancel \/ SomeModify \/ MatchOrders \/ Dead

(* The thread inside MatchOrders keeps running.                            *)
Spec == Init /\ [][Next]_vars /\ WF_vars(MatchOrders)

-----------------------------------------------------------------------------
(***************************************************************************)
(* Properties.                                                             *)
(***************************************************************************)

IsMap(map) ==
  /\ DOMAIN map \subseteq Prices
  /\ map \in [DOMAIN map -> Seq(OrderIds)]

(* Type invariant of the book: both maps, the index and the trades of the  *)
(* call in progress.                                                       *)
TypeOK ==
  /\ levels = [s \in Sides |-> levels[s]]
  /\ \A s \in Sides : IsMap(levels[s])
  /\ DOMAIN orders \subseteq OrderIds
  /\ orders \in [DOMAIN orders -> Order]
  /\ trades \in Seq(Trade)
  /\ pc \in {"idle", "matching", "crashed"}

(* The index and the lists agree at every step, the steps inside a         *)
(* MatchOrders call included: a queued id is a live order of that side and *)
(* price, and a live order is queued exactly once.  orders_.erase and the  *)
(* list erasures are separate statements of AddOrder, CancelOrder and      *)
(* MatchOrders.                                                            *)
QueuedIsLive ==
  \A s \in Sides : \A p \in DOMAIN levels[s] : \A i \in DOMAIN levels[s][p] :
    /\ levels[s][p][i] \in DOMAIN orders
    /\ orders[levels[s][p][i]].side = s
    /\ orders[levels[s][p][i]].price = p

LiveIsQueued ==
  \A id \in DOMAIN orders :
    /\ orders[id].price \in DOMAIN levels[orders[id].side]
    /\ \E i \in DOMAIN levels[orders[id].side][orders[id].price] :
         levels[orders[id].side][orders[id].price][i] = id

QueuedOnce ==
  \A s \in Sides : \A p \in DOMAIN levels[s] :
    \A i, j \in DOMAIN levels[s][p] :
      levels[s][p][i] = levels[s][p][j] => i = j

IndexConsistent == QueuedIsLive /\ LiveIsQueued /\ QueuedOnce

(* Between calls the book is not crossed: no bid that could trade with an  *)
(* ask is left waiting for a later order to trigger the loop.              *)
UncrossedAtRest == pc = "idle" => ~Crossed

(* Between calls no fill-and-kill order rests in the book and no level is  *)
(* empty, although MatchOrders erases no level and its final cancellation  *)
(* looks at the front of the two best levels only.                         *)
NoLeftoversAtRest ==
  pc = "idle" =>
    /\ \A id \in DOMAIN orders : orders[id].type # "FillandKill"
    /\ \A s \in Sides : \A p \in DOMAIN levels[s] : levels[s][p] # <<>>

(* Order::Fill never throws out of the worker thread, and no operation     *)
(* dies, a cancel or a modify of a live order included (README.md:13,      *)
(* "Order cancellation and modification"): so it is as long as the reads   *)
(* through the dangling entry give the old bytes.                          *)
NeverCrashes == pc # "crashed"

(* The best levels cross and one of them is empty: the state MatchOrders   *)
(* cannot leave.                                                           *)
Exhausted ==
  \E b \in DOMAIN levels["Buy"], a \in DOMAIN levels["Sell"] :
    /\ BestLevels(b, a)
    /\ levels["Buy"][b] = <<>> \/ levels["Sell"][a] = <<>>

(* MatchOrders can return, only spin, or trade two fronts.                 *)
LoopGoesOn ==
  \/ ~Crossed
  \/ Exhausted
  \/ \E b \in DOMAIN levels["Buy"], a \in DOMAIN levels["Sell"] :
       BestLevels(b, a) /\ levels["Buy"][b] # <<>> /\ levels["Sell"][a] # <<>>

(* The inner loop ends and an uncrossed call returns: every MatchOrders    *)
(* call returns or comes to a crossed book with a best level used up.      *)
FillsEnd == pc = "matching" ~> (pc # "matching" \/ Exhausted)

(* README.md:12, "Buy and sell order matching": a call that starts to      *)
(* match comes back to its caller.                                         *)
MatchingReturns == pc = "matching" ~> pc # "matching"
=============================================================================

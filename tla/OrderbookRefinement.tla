------------------------ MODULE OrderbookRefinement ------------------------
(***************************************************************************)
(* Orderbook implements LimitOrderBook: the orders at rest are the ones of *)
(* the index, and one is ahead of another when it is nearer the front of   *)
(* the list they share.                                                    *)
(***************************************************************************)
EXTENDS Orderbook

QueuePositions(level) ==
  {pair \in (DOMAIN level) \X (DOMAIN level) : pair[1] < pair[2]}

Ahead ==
  UNION {UNION {{<<levels[s][p][pair[1]], levels[s][p][pair[2]]>> :
                   pair \in QueuePositions(levels[s][p])} :
                p \in DOMAIN levels[s]} : s \in Sides}

Book == INSTANCE LimitOrderBook
          WITH resting <- orders, ahead <- Ahead, busy <- pc = "matching"

(* Every step of the book is a step of the abstract one or changes nothing *)
(* it can see: orders trade strictly by price, then by time of arrival, a  *)
(* modified order goes to the back of its queue, and the index, the lists  *)
(* and the map entries never disagree on who is first.                     *)
PriceTimePriority == Book!Spec
=============================================================================

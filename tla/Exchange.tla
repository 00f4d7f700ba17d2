------------------------------ MODULE Exchange ------------------------------
(***************************************************************************)
(* Several clients and one book: the requests clients send, the handlers   *)
(* of the server (server.cpp) that carry them out and answer, and the      *)
(* byte order of both (Wire).  The book is Orderbook, whose calls are made *)
(* under the lock of ThreadSafeOrderbook; a call that matches takes many   *)
(* steps, and the other handlers go on meanwhile.                          *)
(*                                                                         *)
(* Every connection has a worker, which handles one request at a time.  A  *)
(* connection carries whole messages in order (MessageStream).             *)
(***************************************************************************)
EXTENDS Orderbook, Wire

CONSTANTS
  Clients,      (* the connected clients                                   *)
  None,         (* no client                                               *)
  Commands,     (* the commands users give, as records of their arguments; *)
                (* kind "unknown" is a message type no client of this      *)
                (* program sends                                           *)
  MaxRequests,  (* how many requests a client makes                        *)
  SendResults   (* what the send of an answer may do: "sent", "cut", for a *)
                (* socket that takes a part of it, or "failed", for one    *)
                (* that would block                                        *)

PlainKinds == {"users", "echo", "quit", "unknown"}
Kinds == {"add", "modify", "cancel", "status"} \cup PlainKinds

ASSUME NoneAssumption == None \notin Clients
(* Price is std::int32_t.                                                  *)
ASSUME PricesFitAssumption == Prices \subseteq {ToInt32(x) : x \in Uint32}
ASSUME CommandsAssumption ==
  \A command \in Commands :
    /\ command.kind \in Kinds
    /\ command.kind = "add" => command.type \in OrderTypes
    /\ command.kind \in {"cancel", "modify"} => command.orderId \in OrderIds
    /\ command.kind \in {"add", "modify"} =>
         /\ command.side \in Sides
         /\ command.price \in Uint32 /\ ToInt32(command.price) \in Prices
         /\ command.quantity \in Uint32 /\ command.quantity \in Quantities
ASSUME MaxRequestsAssumption == MaxRequests \in Nat /\ 1 .. MaxRequests \subseteq OrderIds
ASSUME OrderIdsAssumption == OrderIds \subseteq Uint64
ASSUME SendResultsAssumption == SendResults \subseteq {"sent", "cut", "failed"} /\ SendResults # {}

VARIABLES
  requests,     (* client -> all it has sent, as it is on the wire         *)
  taken,        (* client -> how many of them its worker has taken         *)
  nextOrderId,  (* client -> nextOrderId_                                  *)
  writer,       (* the client whose call of the book is matching           *)
  outbox,       (* client -> what its worker has still to send             *)
  answers       (* client -> all that was sent to it, as it is on the wire *)

exchangeVars == <<vars, requests, taken, nextOrderId, writer, outbox, answers>>

ExchangeInit ==
  /\ Init
  /\ requests = [c \in Clients |-> <<>>]
  /\ taken = [c \in Clients |-> 0]
  /\ nextOrderId = [c \in Clients |-> 1]
  /\ writer = None
  /\ outbox = [c \in Clients |-> <<>>]
  /\ answers = [c \in Clients |-> <<>>]

-----------------------------------------------------------------------------
(***************************************************************************)
(* The client's send...Request functions.                                  *)
(***************************************************************************)

(* A client that has sent the request to quit disconnects.                 *)
Request(c, request) ==
  /\ Len(requests[c]) < MaxRequests
  /\ \A i \in DOMAIN requests[c] : requests[c][i].kind # "quit"
  /\ requests' = [requests EXCEPT ![c] = Append(@, ToNetworkOrder(request))]
  /\ UNCHANGED <<vars, taken, writer, outbox, answers>>

SendAdd(c, command) ==
  /\ command.kind = "add"
  /\ Request(c, [kind |-> "add", type |-> command.type, side |-> command.side,
                 price |-> command.price, quantity |-> command.quantity,
                 clientOrderId |-> nextOrderId[c]])
  /\ nextOrderId' = [nextOrderId EXCEPT ![c] = @ + 1]

SendCancel(c, command) ==
  /\ command.kind = "cancel"
  /\ Request(c, [kind |-> "cancel", orderId |-> command.orderId])
  /\ UNCHANGED nextOrderId

SendModify(c, command) ==
  /\ command.kind = "modify"
  /\ Request(c, [kind |-> "modify", orderId |-> command.orderId, side |-> command.side,
                 price |-> command.price, quantity |-> command.quantity])
  /\ UNCHANGED nextOrderId

(* The requests that are a header or a text.                               *)
SendPlain(c, command) ==
  /\ command.kind \in PlainKinds \cup {"status"}
  /\ Request(c, [kind |-> command.kind])
  /\ UNCHANGED nextOrderId

Client(c) ==
  \E command \in Commands :
    \/ SendAdd(c, command) \/ SendCancel(c, command)
    \/ SendModify(c, command) \/ SendPlain(c, command)

-----------------------------------------------------------------------------
(***************************************************************************)
(* GetOrderInfos, of which a response takes the first MAX_LEVELS levels of *)
(* each map, in the map's order; a level has the 32-bit sum of what its    *)
(* orders have left.                                                       *)
(***************************************************************************)

(* Mutant of Before: both maps are sorted by std::less.                    *)
BeforeByLess(side, p, q) == p < q

Before(side, p, q) == p # q /\ AtLeastAsGood(side, p, q)

(* The prices a response shows, best first.  There is one such sequence.   *)
FirstPrices(side) ==
  {shown \in UNION {[1 .. n -> DOMAIN levels[side]] : n \in 0 .. MaxLevels} :
     /\ \A i, j \in DOMAIN shown : i < j => Before(side, shown[i], shown[j])
     /\ \A p \in DOMAIN levels[side] :
          \/ \E i \in DOMAIN shown : shown[i] = p
          \/ Len(shown) = MaxLevels /\ \A i \in DOMAIN shown : Before(side, shown[i], p)}

LevelQuantity(side, p) ==
  SumFunction([i \in DOMAIN levels[side][p] |-> orders[levels[side][p][i]].remaining]) % Span

NetworkLevels(side, shown) ==
  [i \in DOMAIN shown |->
     [price |-> ToUint32(shown[i]), quantity |-> LevelQuantity(side, shown[i])]]

-----------------------------------------------------------------------------
(***************************************************************************)
(* The responses, in network order.  of is not in the message: it says of  *)
(* which request of the client it is the answer.                           *)
(***************************************************************************)

(* Mutant of AddOrderResponse: toNetworkOrder is forgotten.                *)
AddOrderResponseInHostOrder(request, n) ==
  [kind |-> "add", of |-> n, clientOrderId |-> request.clientOrderId,
   serverOrderId |-> request.clientOrderId, status |-> 0]

AddOrderResponse(request, n) ==
  ToNetworkOrder([kind |-> "add", of |-> n, clientOrderId |-> request.clientOrderId,
                  serverOrderId |-> request.clientOrderId, status |-> 0])

CancelOrderResponse(request, n) ==
  ToNetworkOrder([kind |-> "cancel", of |-> n, orderId |-> request.orderId, status |-> 0])

ModifyOrderResponse(request, n) ==
  ToNetworkOrder([kind |-> "modify", of |-> n, orderId |-> request.orderId,
                  side |-> request.side, price |-> request.price,
                  quantity |-> request.quantity])

OrderbookStatusResponse(bids, asks, n) ==
  StatusToNetworkOrder([kind |-> "status", of |-> n,
                        bidLevelsCount |-> Len(bids), askLevelsCount |-> Len(asks),
                        bidLevels |-> NetworkLevels("Buy", bids),
                        askLevels |-> NetworkLevels("Sell", asks)])

TradeNotification(trade, n) ==
  ToNetworkOrder([kind |-> "trade", of |-> n,
                  buyOrderId |-> trade.bid.orderId, sellOrderId |-> trade.ask.orderId,
                  price |-> ToUint32(trade.bid.price), quantity |-> trade.bid.quantity])

(* What is sent when a book call for request n has returned its trades.    *)
CallResponse(request, n) ==
  IF request.kind = "add" THEN AddOrderResponse(request, n) ELSE ModifyOrderResponse(request, n)

CallAnswers(request, n, returned) ==
  <<CallResponse(request, n)>> \o [i \in DOMAIN returned |-> TradeNotification(returned[i], n)]

-----------------------------------------------------------------------------
(***************************************************************************)
(* The handlers.  The worker of c takes the next request when it is done   *)
(* with the last one.                                                      *)
(***************************************************************************)

Running == pc # "crashed"

(* The worker takes the next request, of this kind, which is then handled. *)
Taking(c, kind) ==
  /\ Running
  /\ writer # c
  /\ outbox[c] = <<>>
  /\ taken[c] < Len(requests[c])
  /\ requests[c][taken[c] + 1].kind = kind
  /\ taken' = [taken EXCEPT ![c] = @ + 1]
  /\ UNCHANGED <<requests, nextOrderId, answers>>

(* Request n, as the server reads it.                                      *)
Asked(c, n) == ToHostOrder(requests[c][n])

Answered(c, toSend) == outbox' = [outbox EXCEPT ![c] = toSend]

(* A call of the book that was begun has returned already or is matching.  *)
CallBegun(c, request, n) ==
  IF pc' = "idle" THEN Answered(c, CallAnswers(request, n, <<>>)) /\ UNCHANGED writer
  ELSE writer' = (IF pc' = "matching" THEN c ELSE None) /\ UNCHANGED outbox

HandleAdd(c) ==
  LET n       == taken[c] + 1
      request == Asked(c, n)
  IN  /\ Taking(c, "add")
      /\ AddOrder(request.clientOrderId,
                  NewOrder(request.type, request.side, ToInt32(request.price), request.quantity))
      /\ CallBegun(c, request, n)

HandleModify(c) ==
  LET n       == taken[c] + 1
      request == Asked(c, n)
  IN  /\ Taking(c, "modify")
      /\ MatchOrder(request.orderId, request.side, ToInt32(request.price), request.quantity)
      /\ CallBegun(c, request, n)

HandleCancel(c) ==
  LET n       == taken[c] + 1
      request == Asked(c, n)
  IN  /\ Taking(c, "cancel")
      /\ CancelOrder(request.orderId)
      /\ UNCHANGED writer
      /\ IF pc' = "idle" THEN Answered(c, <<CancelOrderResponse(request, n)>>)
                         ELSE UNCHANGED outbox

(* Mutant of HandleStatus: GetOrderInfos without the shared lock.          *)
HandleStatusUnlocked(c) ==
  /\ Taking(c, "status")
  /\ \E bids \in FirstPrices("Buy"), asks \in FirstPrices("Sell") :
       Answered(c, <<OrderbookStatusResponse(bids, asks, taken[c] + 1)>>)
  /\ UNCHANGED <<vars, writer>>

(* GetOrderInfos under the shared lock: no call is matching.               *)
HandleStatus(c) ==
  /\ Taking(c, "status")
  /\ pc = "idle"
  /\ \E bids \in FirstPrices("Buy"), asks \in FirstPrices("Sell") :
       Answered(c, <<OrderbookStatusResponse(bids, asks, taken[c] + 1)>>)
  /\ UNCHANGED <<vars, writer>>

(* A request to quit gets the header of an echo, an unknown one an error.  *)
PlainAnswer(kind) ==
  CASE kind = "quit" -> "echo" [] kind = "unknown" -> "error" [] OTHER -> kind

HandlePlain(c) ==
  /\ \E kind \in PlainKinds :
       /\ Taking(c, kind)
       /\ Answered(c, <<ToNetworkOrder([kind |-> PlainAnswer(kind), of |-> taken[c] + 1])>>)
  /\ UNCHANGED <<vars, writer>>

(* Mutant of Match: the lock of the call is kept after it has returned.    *)
MatchKeeping(c) ==
  /\ writer = c
  /\ MatchOrders
  /\ IF pc' = "idle" THEN Answered(c, CallAnswers(Asked(c, taken[c]), taken[c], trades))
                     ELSE UNCHANGED outbox
  /\ UNCHANGED <<requests, taken, nextOrderId, writer, answers>>

(* One step of the call that matches for c.                                *)
Match(c) ==
  /\ writer = c
  /\ MatchOrders
  /\ IF pc' = "idle"
     THEN writer' = None /\ Answered(c, CallAnswers(Asked(c, taken[c]), taken[c], trades))
     ELSE UNCHANGED <<writer, outbox>>
  /\ UNCHANGED <<requests, taken, nextOrderId, answers>>

(* Part of an answer, or what is behind it in memory: bytes that are no    *)
(* message.  The client, which looks for a header in them, makes nothing   *)
(* more of what comes after them (MessageStream has what it does), and     *)
(* that is not recorded.                                                   *)
Bytes(answer) == [kind |-> "bytes", of |-> answer.of]

OutOfStep(c) == answers[c] # <<>> /\ answers[c][Len(answers[c])].kind = "bytes"

(* Nobody looks at the result of send.  The list of users is sent with its *)
(* length in network order, far more than the 512 bytes there are: send    *)
(* fails, or the answer goes out with other bytes of the stack behind it.  *)
SendNext(c) ==
  LET answer == Head(outbox[c])
      Arrive(sent) == ~OutOfStep(c) /\ answers' = [answers EXCEPT ![c] = @ \o sent]
  IN  /\ Running
      /\ outbox[c] # <<>>
      /\ outbox' = [outbox EXCEPT ![c] = Tail(@)]
      /\ \/ /\ "failed" \in SendResults \/ answer.kind = "users" \/ OutOfStep(c)
            /\ UNCHANGED answers
         \/ "cut" \in SendResults /\ Arrive(<<Bytes(answer)>>)
         \/ /\ "sent" \in SendResults
            /\ Arrive(IF answer.kind = "users" THEN <<answer, Bytes(answer)>> ELSE <<answer>>)
      /\ UNCHANGED <<vars, requests, taken, nextOrderId, writer>>

Worker(c) ==
  \/ HandleAdd(c) \/ HandleModify(c) \/ HandleCancel(c)
  \/ HandleStatus(c) \/ HandlePlain(c)
  \/ Match(c) \/ SendNext(c)

ExchangeNext == \E c \in Clients : Client(c) \/ Worker(c)

(* While some worker has something it can do, one of them does it: less    *)
(* than the threads' scheduling gives, and enough.                         *)
ExchangeSpec ==
  /\ ExchangeInit /\ [][ExchangeNext]_exchangeVars
  /\ WF_exchangeVars(\E c \in Clients : Worker(c))

-----------------------------------------------------------------------------
(***************************************************************************)
(* What the client makes of an answer (handle...Response), and the answers *)
(* it can read: not what follows bytes that are no message.                *)
(***************************************************************************)

Shown(answer) ==
  IF answer.kind = "status" THEN StatusToHostOrder(answer) ELSE ToHostOrder(answer)

Readable(c) ==
  {i \in DOMAIN answers[c] : \A j \in 1 .. i : answers[c][j].kind # "bytes"}

-----------------------------------------------------------------------------
(***************************************************************************)
(* Properties.                                                             *)
(***************************************************************************)

(* Type invariant of the exchange.                                         *)
ExchangeTypeOK ==
  /\ TypeOK
  /\ DOMAIN requests = Clients /\ DOMAIN outbox = Clients /\ DOMAIN answers = Clients
  /\ taken \in [Clients -> Nat]
  /\ nextOrderId \in [Clients -> Nat \ {0}]
  /\ writer \in Clients \cup {None}
  /\ \A c \in Clients :
       /\ Len(requests[c]) \in 0 .. MaxRequests
       /\ taken[c] \in 0 .. Len(requests[c])
       /\ \A i \in DOMAIN requests[c] : requests[c][i].kind \in Kinds

(* The answers a client reads are answers to its own requests, in the      *)
(* order it made them, each of the kind asked for and about the order      *)
(* asked for, once both byte orders have been undone; and no other order   *)
(* of this client has the id an answer to a new order names.  The worker   *)
(* of the client answers some requests at once and others after a call     *)
(* that others delay, and an answer can be lost.                           *)
IsAnswer(c, shown) ==
  LET request == Asked(c, shown.of)
  IN  /\ shown.of \in 1 .. taken[c]
      /\ shown.kind = PlainAnswer(request.kind)
      /\ shown.kind = "add" =>
           /\ shown.clientOrderId = request.clientOrderId
           /\ \A n \in DOMAIN requests[c] :
                /\ requests[c][n].kind = "add"
                /\ Asked(c, n).clientOrderId = shown.clientOrderId
                => n = shown.of
      /\ shown.kind \in {"cancel", "modify"} => shown.orderId = request.orderId
      /\ shown.kind = "modify" =>
           shown.price = request.price /\ shown.quantity = request.quantity

AnswersInOrder ==
  \A c \in Clients : \A i \in Readable(c) :
    answers[c][i].kind # "trade" =>
      /\ IsAnswer(c, Shown(answers[c][i]))
      /\ \A j \in Readable(c) : j < i => answers[c][j].of < answers[c][i].of

(* The book a client is shown is one that was at rest: no bid in it could  *)
(* trade with an ask in it, prices being read as the int32 of the book.    *)
(* The status is handled while other workers' calls change the book.       *)
ShownUncrossed ==
  \A c \in Clients : \A i \in Readable(c) :
    answers[c][i].kind = "status" =>
      LET status == Shown(answers[c][i])
      IN  \A b \in 1 .. status.bidLevelsCount, a \in 1 .. status.askLevelsCount :
            ToInt32(status.bidLevels[b].price) < ToInt32(status.askLevels[a].price)

(* The levels of one side that a status shows are right: best first, each  *)
(* the 32-bit sum of what the live orders of its price have left, and an   *)
(* order at a price not shown is worse than all shown, which are as many   *)
(* as fit.  GetOrderInfos reads the lists and not the index.               *)
LiveQuantity(side, p) ==
  SumFunction([id \in {other \in DOMAIN orders :
                         orders[other].side = side /\ orders[other].price = p}
                 |-> orders[id].remaining])

SideShown(side, count, shown) ==
  LET Price(i) == ToInt32(shown[i].price)
  IN  /\ count <= MaxLevels
      /\ \A i \in 1 .. count : shown[i].quantity = LiveQuantity(side, Price(i)) % Span
      /\ \A i, j \in 1 .. count :
           i < j => AtLeastAsGood(side, Price(i), Price(j)) /\ Price(i) # Price(j)
      /\ \A id \in DOMAIN orders :
           orders[id].side = side =>
             \/ \E i \in 1 .. count : Price(i) = orders[id].price
             \/ /\ count = MaxLevels
                /\ \A i \in 1 .. count : AtLeastAsGood(side, Price(i), orders[id].price)

(* A status that is made is what a client should be shown of the book.     *)
LevelsShown ==
  [][\A c \in Clients :
       outbox'[c] # outbox[c] /\ outbox'[c] # <<>> /\ Head(outbox'[c]).kind = "status" =>
         LET status == Shown(Head(outbox'[c]))
         IN  /\ SideShown("Buy", status.bidLevelsCount, status.bidLevels)
             /\ SideShown("Sell", status.askLevelsCount, status.askLevels)]_exchangeVars

(* Whatever is asked is carried out and its answers are sent, or lost,     *)
(* unless a call of the book matches for ever.  The handlers of all the    *)
(* clients wait for one lock.                                              *)
Pending == \E c \in Clients : taken[c] < Len(requests[c]) \/ writer = c \/ outbox[c] # <<>>

HandledUnlessExhausted == Pending ~> (~Pending \/ Exhausted)

(* A worker is never kept waiting by a lock that nobody has: while         *)
(* something is pending, some worker can send, or take a request of its    *)
(* client under a free lock, a status among them, or is in the call that   *)
(* matches and can trade, return, or only spin.                            *)
CanGoOn(c) ==
  \/ outbox[c] # <<>>
  \/ writer = c /\ pc = "matching" /\ LoopGoesOn
  \/ /\ writer # c /\ pc = "idle" /\ taken[c] < Len(requests[c])
     /\ requests[c][taken[c] + 1].kind = "status" =>
          FirstPrices("Buy") # {} /\ FirstPrices("Sell") # {}

NobodyStuck == Running /\ Pending => \E c \in Clients : CanGoOn(c)

(* message_format.h:116-117, "Server-assigned unique ID" and "0 = success, *)
(* non-zero = error code": two orders that were added with success have    *)
(* different server ids.                                                   *)
ServerIdsUnique ==
  \A c, d \in Clients : \A i \in DOMAIN answers[c], j \in DOMAIN answers[d] :
    /\ answers[c][i].kind = "add" /\ answers[d][j].kind = "add"
    /\ answers[c][i].status = 0 /\ answers[d][j].status = 0
    /\ answers[c][i].serverOrderId = answers[d][j].serverOrderId
    => c = d /\ i = j
=============================================================================

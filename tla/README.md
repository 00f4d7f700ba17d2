# Simple orderbook: a verification development

TLA+ models of the TCP order book of this repository, model-checked with TLC on small
instances, and theorems about them that TLAPS checks for every value of their constants.
Paths are relative to the repository's root; `server.cpp`, `orderbook.cpp`, `task_queue.h`,
`orderbook_adapter.h` and `message_format.h` are the ones in `Orderbook Server/`,
`client.cpp` is the one in `Orderbook Client/`.

## 1. Inventory

### What the program is

A server keeps one limit order book. Clients connect over TCP and send requests: echo,
quit, the number of users, add, cancel or modify an order, and the state of the book. A
request is a packed struct that starts with a type, a length and a sequence number. A
thread accepts connections; a fixed pool of workers serves them, one connection per worker
until that connection ends. The console client has a main thread that reads commands and a
receiver thread that shows the answers.

`server.cpp` as committed includes `orderbook.h`, which declares an `Orderbook` that is
defined nowhere, and not `orderbook_adapter.h`, which has the `ThreadSafeOrderbook` it uses
as a member; both `orderbook.cpp` and `server.cpp` have a `main`. The models follow the
composition the files evidently mean: `server.cpp` with the pool of `task_queue.h`, the lock
of `orderbook_adapter.h` and the book of `orderbook.cpp`.

### Components

| component | source | state | operations |
|---|---|---|---|
| order book | `orderbook.cpp` | `bids_`, `asks_` (price -> list of orders), `orders_` (id -> order and list position) | `AddOrder`, `CancelOrder`, `MatchOrder` (modify), `MatchOrders` (the trading loop), `GetOrderInfos`, `Size` |
| thread-safe book | `orderbook_adapter.h` | a `shared_mutex` | the same calls, exclusive or shared |
| task queue | `task_queue.h` | the queue, `shutdown_`, a mutex and a condition variable, the workers | `enqueue`, the worker loop, the destructor |
| TCP server | `server.cpp` | `running_`, `serverSocket_`, `clients_`, `nextClientId_`, the pool, the accept thread | `start`, `stop`, `acceptConnections`, `handleClient`, one handler per request |
| TCP client | `client.cpp` | `connected_`, `running_`, `serverSocket_`, `receiverThread_`, `nextOrderId_` | `connect`, `disconnect`, one function per request, the receiver loop, the command loop |
| message format | `message_format.h` (both) | none | `toNetworkOrder`, `toHostOrder` |

Other files hold copies (`Orderbook/main.cpp`, the client's `orderbook.cpp` and
`message_format.h`), a declared and never defined class (`orderbook.h`, `header.h`), and
build files.

### How they interact

* The accept thread pushes one task per connection into the pool. A task is the whole of
  `handleClient`, so the pool's queue is the queue of the clients not served yet.
* A worker's handler calls the book, under the exclusive lock for add, cancel and modify and
  under the shared one for the status, and sends the answer on the client's socket.
* The accept thread, the workers and `stop()` share `clients_` under `clientsMutex_`; both
  `stop()` and the workers close client sockets.
* `~TcpServer` calls `stop()`, then destroys its members; the pool was declared first, so
  it joins its workers last, when `clients_` and `orderbook_` are gone.
* The client's two threads share `connected_`, `running_` and the socket with no lock.

### What is hard

* Interleaving: workers, accept thread, `stop()` and destructor; socket values that the
  system gives out again as soon as they are closed; a worker that tests the queue and
  sleeps while another thread pushes; a receiver that ends between two steps of the client's
  main thread.
* A long sequence of legal calls: three containers of the book are kept equal by separate
  statements of four functions.
* Undefined behaviour: `CancelOrder` and `MatchOrder` read a map entry after erasing it.
* Termination: the trading loop, the pool's destructor, `stop()`, `disconnect()`, and
  `processMessageBuffer`, which handles a header of length 0 for ever.
* Messages: `recv` divides the stream anywhere, `send` on a non-blocking socket may take a
  part or nothing and nobody looks at its result, and the answer to a users request is sent
  with a length whose bytes have been swapped: 269 is 218169344.
* Arithmetic: prices travel as `uint32_t` and are `int32_t` in the book, level quantities are
  summed in 32 bits, the status response loops up to a count it has just swapped.

Nothing is persisted and nothing is retried, so there is no crash recovery to model; a crash
is the end of the process.

### What makes each part correct

* Book: the index and the lists agree; trades follow price, then time; no call returns with
  a crossed book, a fill-and-kill order or an empty level left; the trades of a call account
  for all it did; calls return; no order disappears unless cancelled or filled.
* Task queue: tasks start in the order accepted, none lost or repeated; no wakeup is lost;
  the destructor drains and returns.
* Server: the client map is exact; a worker touches no other client's socket; nothing is
  taken in once `stop()` has waited for the accept thread; the program ends; a client waits
  only for a free worker.
* Client: no request on a closed socket; a lost connection is released; ids are never
  repeated; `disconnect` returns; the program ends normally.
* Exchange: an answer belongs to its request and comes in order; the book a client is shown
  was at rest and is what the book holds; every request is handled.
* Messages: what is taken out of a stream are the messages put into it; the byte order
  round-trips.

`PROJECT.json` lists the hazards one by one, each at its line.

## 2. Modules

| module | models | used by |
|---|---|---|
| `Orderbook` | the book, one action per call; the trading loop one iteration at a time | `OrderbookHistory`, `OrderbookRefinement`, `Exchange`, `OrderbookProofs` |
| `LimitOrderBook` | what a price-time priority book promises, with no levels, lists or index | `OrderbookRefinement` |
| `OrderbookRefinement` | the mapping from the first to the second | `MCOrderbookRefinement`, `OrderbookRefinementProofs` |
| `OrderbookHistory` | the book with the kind of the last request and the index a call began with | `MCOrderbookHistory`, `OrderbookRefinementProofs` |
| `TaskQueue` | the pool | `TcpServer`, `TaskQueueProofs` |
| `TcpServer` | connections, accept thread, workers, `stop()`, destructor, the book's lock | `MCTcpServer`, `TcpServerProofs` |
| `Wire` | the fields and structs of `message_format.h` in both byte orders | `Exchange`, `WireProofs` |
| `MessageStream` | one connection's bytes, from `send` through `recv` to `processMessageBuffer` | `TcpClient` |
| `TcpClient` | the client's two threads, with the stream its receiver reads | `TcpClientProofs` |
| `Exchange` | several clients' requests, the server's handlers and their answers, on one `Orderbook` | `MCExchange`, `ExchangeProofs` |
| `SumProofs` | lemmas: what the sums of the models add up to, for every finite set | `OrderbookProofs`, `ExchangeProofs` |
| `OrderbookProofs`, `OrderbookRefinementProofs`, `TaskQueueProofs`, `TcpServerProofs`, `TcpClientProofs`, `WireProofs`, `ExchangeProofs` | theorems | |
| `MC...` | small sets and symmetry for TLC | the runs |

### Orderbook

`levels[side]` is `bids_` or `asks_`, a map from price to the sequence of ids in its list;
`orders` is `orders_`, whose `location_` iterator is left out because a list iterator stays
on its element (an erasure through it is the erasure of the id). `pc` is `"matching"` inside
`MatchOrders`. `trades` is the vector of the call in progress; it is emptied when the call
returns. An emptied level stays in its map while the loop runs, as in the code (225-257):
`Fill` pops an order and never removes a price, and `Spin` is an iteration of the outer loop
that finds a best level empty and changes nothing.

`StaleReads` says what a read through the erased map node may give, since the code has
undefined behaviour there (318-340, 350-352): `"kept"`, the old bytes; `"reused"`, bytes
that another thread has written; `"fault"`, the end of the process. For the order type that
`MatchOrder` copies, other bytes are any value of the type's field (`StoredTypes`), one that
no `OrderType` has included: such an order rests like a good-till-cancel one and is never
killed. For the order and the list position that `CancelOrder` follows, other bytes are a wild
pointer, and the model lets that fault (`ReadsMayFault`); an `erase` through a wild iterator
that happens not to fault corrupts memory outside the book, and is not modelled.

`OrderbookHistory` adds `lastRequest` and `before`, the index when the call in progress began:
a completed order is gone from the index, and only `before` knows what it had left. With it
`TradesAccountForFills` speaks of every order the call found, the completed ones included. It
says what the trades of a running call hold, not that anybody is told: a call that has traded
never returns (`TradesAreNeverReturned`, section 4), so no client ever hears of a trade.

Requests come from the outside and need not name an id that exists; ids, sides, prices and
quantities are all the ones of the constants, zero quantities included, because no line of
the server refuses them.

### TaskQueue

What a thread does while it holds `queueMutex_` is one step; `notify_one` and `notify_all`,
called after the unlock, are steps of their own, and a wait may end with no notification.
`accepted` and `started` are histories.

### TcpServer

The pool is `Pool == INSTANCE TaskQueue`, with the accept thread as its one caller and
connections as its tasks: `EnqueueClient` is `Pool!Enqueue`, `CloseSocket`, the last statement
of `handleClient`, is also `Pool!Finish`. A connection stands for a client id. A handle is a
SOCKET value, and `open[h]` is the connection it is open for: `Accept` may choose any handle
that is not open. A worker goes through the lines of `handleClient`: test `running_`, `recv`,
handle, and at the end erase from `clients_`, then close. `stream[c]` has the messages sent to
a socket and not received, `buffer[w]` the whole ones in a worker's `messageBuffer`: a `recv`
brings any number of messages, or a part of one, which waits (`RecvNothing`), and `Reply`
erases the front message and goes on with the next before the worker looks at `running_` again
(`server.cpp:237-257`). A message whose header gives length 0 stays in front and is handled
again, for ever. The book is its lock and whether a call returns. The main thread goes through
`stop()` statement by statement, a second time from the destructor, and then through the
destruction of the members in their order.

`serverSocket_` is written by `stop()` and read by the accept thread without a lock; every
outcome of that race is an accept that succeeds before the close or fails after it, which
both are in the model. `AcceptError` is an accept that fails while the server listens. A
worker's use of a member after its destruction may be harmless or end the process
(`DestroyedReads`), and the runs take both.

### TcpClient

`main` and `receiver` are the places of the two threads. `sockets` and `winsock` count what
`connect` has acquired and nothing has released. `link` is the connection as TCP sees it.
Assigning to a `receiverThread_` that was not joined, or destroying it, is `std::terminate`.
A request is the test of `connected_` and then the send, with the receiver free to end in
between. What the receiver reads is a `MessageStream`, begun anew by every connect.

### MessageStream

A byte is its place in the stream; `messages` remembers, for each `send` of the other end,
the place before it, the length in its header and how many bytes went out. `RecvBytes` moves
any number of bytes up to `MAX_BUFFER_SIZE` into the buffer; `ProcessMessage` is one round of
`processMessageBuffer`, which is the same loop in `server.cpp` and `client.cpp`. A header is
right where a message starts and anything in `Misread` elsewhere, because a `send` can be cut
short (the sockets do not block and nobody looks at the result) and the next one follows at
once. A `send` can also put more into the stream than the message: the list of users is sent
with its length in network order (`server.cpp:350-351`), 218169344 bytes instead of 269, and
what goes out behind it are the zeros of the rest of its buffer, then other bytes (`Sends`,
`MaxExtra`). A header read in these zeros gives 0; such a header is handled and never erased,
and the receiver is `"spinning"`. What is promised of the messages ends where the first such
send has spoilt the stream (`NotYetSpoilt`): at the start of one that was cut, behind the
message of one that was overrun. Sends are cut at the server's end; requests are smaller than
any socket's buffer and go whole.

### Wire

A 32-bit field is two digits in base `Byte` and a 64-bit field is two such fields: swapping
the two digits stands for swapping four bytes, and nothing said depends on how many there
are. Structs are records of the fields the code converts. `StatusSwapped` keeps the order of
the code: the counts are converted first and the loops run up to the converted ones.

### Exchange

`requests[c]` is what client `c` has sent, as it is on the wire; its worker has taken the
first `taken[c]` of them. A handler is one step up to the book's call; a call that matches
goes on in steps of `MatchOrders` with `writer = c`, during which the other clients' handlers
run but find the book's lock taken (`pc = "idle"` is the guard of every call and of the
status). What is still to be sent is `outbox[c]`, and `answers[c]` is what was sent. A quit
request is answered by an echo without text and is the client's last, a type the server does
not know by an error (`PlainAnswer`). A send may do nothing, or be cut short; the list of
users either is not sent or is followed by other bytes. Both leave bytes that are no message
(`Bytes`), and of what is behind them the client makes nothing more (`OutOfStep`, `Readable`);
what its receiver does there is in `MessageStream`.

`Commands` are the arguments users may give. The code uses them unchecked, also those left
uninitialised by a number that does not parse (`client.cpp:568`), so it is any set of
records; prices are 32-bit patterns, and the book has the `int32_t` of them
(`PricesFitAssumption`, with `ToInt32`). One id space is shared by all clients, since the
server uses each client's own count as the book's id (`server.cpp:367`).

## 3. Runs

Every run finishes; the ones that pass visit every state of their instance.

| run | checks | shows |
|---|---|---|
| `orderbook` | types, `IndexConsistent`, `UncrossedAtRest`, `NoLeftoversAtRest`, `PriceTimePriority` | The containers agree at each step, with other bytes in the type that is copied and faults of the other dangling reads, and the book implements `LimitOrderBook`. |
| `book_release` | `NeverCrashes`, `IndexConsistent`, `TradesAccountForFills`, `FillsEnd`, `GoodTillCancelHolds` | If dangling reads give the old bytes, no call sequence throws, orders of quantity zero included; a call's trades account for all it did to the orders it found; the inner loop ends, and an order only leaves by a cancel or a fill. |
| `gtc_stale` (violation) | `GoodTillCancelHolds` | With other bytes, a modify can turn an order into fill-and-kill and lose it. |
| `matching_returns` (violation) | `MatchingReturns` | A call that empties a best level never returns. |
| `taskqueue` | types, `NoTaskLost`, `Drained`, `NoLostWakeup`, `AcceptedStart`, `DestructorReturns` | The pool is correct with racing callers, tasks that enqueue, spurious wakes and a destructor at any time. |
| `tcpserver` | types, `ClientsListed`, `OwnSocket`, `NeverDeadlocked`, `StopEndsIntake` | The map is exact although socket values are reused; each worker stays on its own socket; behind every wait is a thread that can go on; `stop()` ends the intake. |
| `tcpserver_live` | `EndsUnlessEndless`, `HandledWhenFree` | The program ends, in its destructor or in a fault of it, unless it waits for a book call that never returns; no client is queued for good next to an idle worker. |
| `tcpserver_zero` | `EndsUnlessEndless` | The same when several messages arrive at once, some of length zero: only a worker that handles one of these for ever, or a book call, can keep the destructor. |
| `tcpclient` | types, `RequestsHaveSocket`, `ReleasedTogether`, `IdsIncrease`, `AnswersIntact`, `LossIsNoticed`, `DisconnectReturns`, `AnswersHandled` | Any sequence of commands, against a server that may go away at any time and whose sends may be cut or followed by other bytes: the messages before the first place so spoilt are handled whole and once, and those sent whole are handled. |
| `tcpclient_lost` (violation) | `ExitsNormally` | After a loss, quit or a new connect ends the client in `std::terminate`. |
| `exchange` | types, `AnswersInOrder`, `ShownUncrossed`, `NobodyStuck`, `LevelsShown`, `HandledUnlessExhausted` | Two clients with every request of the book, lists of users and quit, whose handlers interleave with a matching call and whose answers can be lost, cut or followed by other bytes: what they read are answers to their own requests, in order; a status is the book at rest in both byte orders and 32-bit sums; no worker waits for a lock that nobody has; everything asked is handled, and answered or lost, unless a call never returns. |
| `exchange_ids` (violation) | `ServerIdsUnique` | Two clients' first orders get the same server id and status 0, and the second is not in the book. |

### Findings

The four violations are listed under `findings`, each with the line of code and the line of
documentation or of the program's own output it contradicts. Where they stop the system is
part of the other properties: `FillsEnd` and `HandledUnlessExhausted` allow the state the
trading loop cannot leave (`Exhausted`), `EndsUnlessEndless` a worker in such a call or at a
message of length zero (`Endless`) and a fault of the destructor, `ReleasedTogether` a lost
connection that stays held, and `LossIsNoticed` and `DisconnectReturns` a receiver that spins
on a header of length 0 in a stream that a send has spoilt (`Stuck`): after whole answers only,
`disconnect` always returns.

Some disagreements between the code and what is written beside it are in the models and have
no run of their own:

* A fill-and-kill order is let in on price alone (`orderbook.cpp:285`), although line 36 speaks
  of the entire order. `LimitOrderBook` has the admission of the code.
* `README.md:14` promises trade notifications; `server.cpp:386-389` sends them from what a call
  returns, and a call that has traded does not return (`TradesAreNeverReturned`).
* Bids are printed under "descending order" (`client.cpp:456`) as unsigned numbers (459), while
  the book sorts them as `int32_t`: a bid at 2^31 or more is printed below smaller numbers.
* `CancelOrder` goes on through references into the index entry it has erased (318-335), and a
  worker may use `clients_` after the destructor has destroyed it (`server.cpp:510-516`). Either
  can end the process; the properties take that as an end (`ReadsMayFault`, `Fault`).
* After a list of users with other bytes behind it (`server.cpp:351`) the receiver can spin, and
  the `disconnect` command does not return.

### Bounds

* Book: four ids in `orderbook`, three where behaviours are checked with histories or
  liveness, two prices, quantities 1 and 2, and 0 in `book_release`. Four orders allow two in
  one queue on each side, and two levels of a side with a queue at one; two prices allow a
  better and a worse level and every crossing; the quantities allow no fill, partial and
  complete fills on either side. Ids may be used again once their order is gone.
* Pool: three workers, two callers, three tasks, so that a task can push while two workers
  are in any state and a caller is between push and notify.
* Server: two workers, three connections on two socket values in `tcpserver`, so that a
  value comes back while its last worker is still ending and a connection waits in the
  backlog and in the queue, with requests that share, that exclude and that do without the
  book's lock, and calls that never return; two connections in `tcpserver_live`. There a
  client has one message on its way at a time (`MaxUnread`); in `tcpserver_zero` one client
  has two, of either length, so that one `recv` brings a proper message with a zero one before
  or behind it. The kinds of request are the ones the run's properties can tell apart.
* Client: two orders (`MaxOrders`), any number of connects, two messages per connection
  (`MaxMessages`), of the header's size or one byte more, a buffer of four bytes, two bytes,
  a header, behind an overrun message: two messages can arrive in one `recv`, one in several,
  either can be cut or overrun, and the header of the second can be read out of place as
  nothing, too short or too long.
* Exchange: two clients with two requests each (`MaxRequests`), digits in base 4 and one shown
  level. A 32-bit field then spans 16 values, so that two orders of 15 at one price wrap to 14,
  and the price 15 is -1 in the book. With two requests each, a client's second request meets
  the other's call in the middle, an id of one client is modified or cancelled by the other,
  and a level can be left unshown. `exchange` has adds that rest, match or are refused, a
  modify, a cancel, a status, a list of users and a quit, with every result of a send;
  `exchange_ids` has orders that only rest, whose clients read all their answers. An echo and
  an unknown type go through the same handler as quit and are left to the theorems.

The symmetry used is on ids, workers, connections and handles, in runs whose properties are
invariants, action properties and a refinement without liveness; runs with fairness-dependent
properties use none.

### Fairness

* Book: weak fairness of `MatchOrders`: the thread inside a call keeps running. A call is
  never forced to be made.
* Pool: weak fairness of each worker, of the notifications and of the destructor once it has
  begun: they are threads of one process, and none waits for another except through the
  modelled mutex, condition variable and join. Tasks return: that is a premise of the pool's
  liveness, and `TcpServer`, where a task is a connection, does without it. Spurious wakes
  are not fair.
* Server: weak fairness of the accept thread, of each worker, and of the main thread from
  `stop()` on; `main` returns after `stop()`. An accept that fails while the server listens is
  not fair, nor are clients, who may do nothing for ever, and nobody has to stop the server.
* Client: weak fairness of the receiver, whose loop polls with a sleep of 1 ms, and of the
  main thread inside a call; scanning the buffer is part of the receiver's loop. The user and
  the network are not fair, and a message is only promised to be handled while the connection
  lasts.
* Exchange: weak fairness of all the workers together: while some worker can take a step, one
  of them does. This is weaker than the scheduling of the threads, and enough because each
  client makes finitely many requests.

## 4. Theorems

All hold for every value of the constants that satisfies the modules' assumptions: at least
one worker, sets of threads with nothing in common, any sets of integer prices and natural
quantities, any number of orders, clients, connections and socket values, any digit base above
1 and fewer shown levels than that, any lengths of messages not below the header's.

* `OrderbookProofs`. `TypeCorrect`, `IndexAndListsAgree`, `NeverCrossedAtRest`,
  `NothingLeftAtRest`, and, if no dangling read faults, `NoCrashWithoutFault`. The
  inductive invariant `IInv` says that each side agrees with the index (`SideOK`), that an
  idle book is not crossed, and that a book that is not crossed is clean. `NoLeftoversAtRest`
  is not inductive by itself: nothing in the trading loop removes an emptied level or a
  fill-and-kill order behind the front. It holds because such leftovers only exist while the
  maps cross, and a call only returns when they do not: a fill-and-kill order is let in only
  where it crosses, and a fill changes no key of a map. One consequence is that the
  cancellation after the loop never has anything to cancel. One lemma per way a side changes
  (queued, unqueued, popped), one per call, and `StepHolds` puts them together.
* `TradesAreNeverReturned`, in the same module: a call that has traded is on a crossed book
  (`TradedOnCrossed`), since the two levels that traded stay in their maps, and so it never
  returns. No caller of the book ever sees a trade, and the server's loops over trades
  (`server.cpp:387`, `442`) send nothing.
* The measures behind the book's liveness. `MatchingAlwaysCanGoOn`: the loop can trade, can
  return, or is `Exhausted`; the best levels exist because the maps stay finite
  (`BookStaysFinite`). `FillsDescend`: each fill leaves fewer orders, so there are at most as
  many fills as orders. `ExhaustedForEver`: from an exhausted book every step changes nothing,
  so what `matching_returns` finds on an instance holds of every book that comes there.
* `OrderbookRefinementProofs`. `Refinement`: `Spec => PriceTimePriority`. Under `IInv`, the
  first state of the book is one of `LimitOrderBook` and every step is one of its steps or is
  not seen. The abstract `ahead` is the set of pairs of one list, so the proof follows
  `Precedes`, the order of two ids in a map, through `push_back` (`PrecedesQueued`: the new
  order is behind all of its price), `erase` (`PrecedesUnqueued`) and `pop_front`
  (`PrecedesPopped`: the others do not move). `FrontHasPriority` says that the front of the
  best level is the order nobody is better than or ahead of. `AcceptedIsAdmissible` needs
  that a book at rest has no empty level, and the step for `Return` that nothing is left to
  cancel: both are `Clean`, in the invariant.
* `GoodTillCancel`, in the same module: if `"reused"` is not in `StaleReads`, an order that is
  good till cancelled leaves only by a cancel or by a trade that fills it. `OrderbookHistory`
  only watches the book (`HistoryWatches`); a modify puts the order back with its type, which
  is what fails in `gtc_stale` without the hypothesis (`ModifyHoldsOrder`), and the order that
  a fill takes out is the one whose remaining quantity the last trade has (`FillHoldsOrder`).
* `TradesAccount`, in the same module: `HSpec => []TradesAccountForFills`. Two orders change in
  a fill, and one trade is appended; `SumAdded` says what that does to the sum over the trades,
  and an order that is completed leaves the index with nothing left. That a call starts with no
  trades needs `TradedOnCrossed`: no call returns that has any. The theorem is about every order
  a call found, but only while the call runs, which by `TradesAreNeverReturned` is all there is.
* `TaskQueueProofs`. `TypeCorrect`, `TasksAreKept`, `WakeupsAreKept`, `DestructorDrains`.
  The invariant adds `Teardown`: `shutdown_` is set exactly from the destructor on, and a
  worker exits on an empty queue only, after which nothing is pushed. `DestructorGoesOn` is
  the measure behind `DestructorReturns`: after `shutdown_` each round of a worker shortens
  the queue or ends the worker, nothing is added, and after `notify_all` nobody sleeps.
* `TcpServerProofs`. `TypeCorrect`, `MapIsExact`, `SocketsAreOwn`, `IntakeEnds`, `PoolKept`.
  The invariant `SInv` says that a connection is in one place (`OnePlace`: carried by the
  accept thread, queued once, or with one worker), that what the pool was given had a socket
  and was given once, that a connection that is somewhere still has its socket unless `stop()`
  closed it, that a worker at a request has it in front of its buffer (`HasMessage`), and which
  threads can be at work in which phase of the main thread. Without
  `OnePlace` a worker that closes its socket could leave another with the same connection,
  and the socket value, given out again, would be somebody else's. The pool's own invariant
  is carried through the instance: each step of the server is a step of `TaskQueue` or leaves
  the pool alone, so the lemmas of `TaskQueueProofs` apply.
* `NobodyDeadlocks`, in the same module: `Spec => []NeverDeadlocked`. `GoInv` adds that the
  lock is held exactly by the workers inside the book's calls, that only the accept thread
  notifies, and what is over in which phase of `stop()`. A worker that waits for the lock then
  waits for one inside a call, which waits for nothing; a worker that sleeps next to a queued
  task is one that `NoLostWakeup` speaks of; the accept thread that `stop()` waits for has no
  open listening socket to block on.
* `TcpClientProofs`. `TypeCorrect`, `RequestsAreSendable`, `AllOrNothing`, `IdsAreDistinct`,
  `AnswersAreIntact`. The invariant `Holdings` lists, phase by phase of the main thread, where
  the receiver can be and how much is held; `Ids` says that every id sent is below the next
  one; the stream's part is `StreamInv`: messages follow each other without gaps, and up to the
  first place a send has spoilt, by leaving bytes out or by putting others behind, the erased
  bytes end where a message does (`Aligned`), which is what makes the next header the right
  one. Of what is handled behind that place `AnswersIntact` says nothing. `JoinedReceiverEnds`
  is the measure behind `DisconnectReturns`: while `disconnect` waits, `running_` is false and
  the socket open, some step of the receiver is possible, and each one lowers `StepsLeft` or
  takes a message out of a buffer that no longer grows, unless it spins on a length of 0.
* `WireProofs`. `HostOrderRestores` and `StatusRestored`: reading undoes writing, for every
  struct whose fields fit. The second needs `MAX_LEVELS` below the digit base: a count from 1
  to `MAX_LEVELS` then swaps to at least `MAX_LEVELS` + 1, and the loop of `toNetworkOrder`,
  which runs up to the swapped count, covers every level.
* `ExchangeProofs`. `ExchangeTypeCorrect`, `AnswersAreInOrder`, `StatusIsUncrossed`,
  `BookKept`. The invariant `XInv` is the book's, with one for each client: its requests can be
  read back, the order ids in them increase and are below the next one, what was answered and
  what is about to be is for requests its worker is done with, and a call that matches is that
  of the one writer. It uses `TradedOnCrossed`: no call returns with trades, so an answer is
  one message, and no notification is ever sent. A step changes one client's variables, and
  the book by a step of `Orderbook`, which is `BookKept` and carries every theorem about the
  book to the exchange; `PriorityKept` does so with the refinement.
* `LevelsAreShown`, in the same module: the quantity of a level is a sum over the positions of
  a list, and what a client should see is a sum over the live orders of a price. The list has
  each of these once (`IInv`), so `SumImage` makes the two equal; the counts and the 32-bit
  fields survive both conversions (`StatusRestored`).
* `NobodyIsStuck`, in the same module: the lock is held exactly while a call matches
  (`LockHeld`; it needs that no step of the loop ends in a crash, which is `FillHolds` and
  `ReturnHolds`), that call has a step to take, and a status always has levels to show: the
  prices of a finite map can be put in order (`PricesSorted`).
* `SumProofs`. `SumFunctionOnSet` of the community modules takes elements out of a set in an
  order that `CHOOSE` picks. `SubsetInduction` is an induction over the subsets of a finite
  set, stated with a set of the good ones and proved from the well-foundedness of strict
  inclusion; with it come the lemmas on what adding, removing and renaming elements does to a
  sum. It also carries `BestOfFinite` and `PricesSorted`.

Every invariant and every action property of the runs that pass is stated by a theorem. Only
model-checked is liveness, which is out of the prover's reach with fairness and `ENABLED`:
`FillsEnd`, `AcceptedStart`, `DestructorReturns`, `EndsUnlessEndless`, `HandledWhenFree`,
`LossIsNoticed`, `DisconnectReturns`, `AnswersHandled` and `HandledUnlessExhausted`. Of most of
them the theorems have the part that is about single steps: that something can go on, stated
with the guards of the actions, and that what goes on comes nearer to the end.

## 5. How the parts fit, and what is left

`Exchange` has the book behind the handlers and takes a connection's worker, thread and socket
for granted; `TcpServer` has these and takes of the book only its lock and whether a call
returns; `TcpClient` has the client's threads and the bytes of a connection. Their common state
would be too large for TLC; what one takes for granted of another is what the other's
properties say: that a worker stays with its own connection (`OwnSocket`), that messages come
whole and in order up to where a send spoils the stream (`AnswersIntact`), that the answers are
those of the handlers (`AnswersInOrder`).

The order of work was the book, its abstract specification, the pool, the server and the
client, then the exchange, the stream and the byte orders, then the refinement and the
invariants of server and exchange as theorems. Then came the sums
(`TradesAccountForFills`, `LevelsShown`), the history (`GoodTillCancelHolds`) and the parts of
liveness that are about single steps. What could still be added: a cut or failed send at the
client's end, and measures for `HandledUnlessExhausted` and `AcceptedStart`.

## 6. Not modelled

* The texts of echo and of the list of users, and printing.
* `Size` changes nothing and nothing but the file's own `main` calls it.
* A request that a client's `send` cuts short or loses (see `MessageStream`).
* The workers and sockets behind `Exchange` (see above).
* Trade notifications to the owner of a resting order: the code has none.
* Whose orders a client may cancel or modify, and level quantities beyond 32 bits: nothing in
  the repository says what should happen.
* An `erase` in `CancelOrder` through a list iterator made of other bytes that does not fault.
* What a client makes of messages behind bytes that are no message in `Exchange`; the receiver's
  part of it is in `MessageStream`.
* `OrderbookNetworkAdapter` (`orderbook_adapter.h:51-105`): no code uses it.
* `Orderbook/main.cpp` and the client's copies of `orderbook.cpp` and `message_format.h`:
  the same text as the files modelled. `orderbook.h` and `header.h`: declarations of a class
  that is defined nowhere.
* Console input and output, apart from the commands the client's main thread may carry out
  and the Enter that stops the server. The number of workers comes from the console
  unchecked (`server.cpp:525`); the model assumes at least one.
* `WSAStartup` failing in `start()` and the like end in the destructor: `BeginStop` covers a
  server that never started.

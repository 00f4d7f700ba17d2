----------------------------- MODULE TcpServer -----------------------------
(***************************************************************************)
(* class TcpServer (Orderbook Server/server.cpp) and its main: the thread  *)
(* that accepts connections, the workers that each serve one connection    *)
(* until it ends, and the main thread that starts, stops and destroys the  *)
(* server.  The pool of workers is the module TaskQueue; a task of the     *)
(* pool is a connection to serve.                                          *)
(*                                                                         *)
(* Connections stand for the client ids of nextClientId_, one per accepted *)
(* socket.  A handle is a SOCKET value: the system gives out any handle    *)
(* that is not open, so one that was closed comes back for another         *)
(* connection.  The order book is its lock and whether a call returns: a   *)
(* matching call may loop for ever (module Orderbook).                     *)
(***************************************************************************)
EXTENDS Integers, Sequences, SequencesExt, FiniteSets

CONSTANTS
  Workers,        (* the threads of the pool                               *)
  Connections,    (* the connections clients make, each once               *)
  Handles,        (* the values a SOCKET takes                             *)
  None,           (* no connection, handle or worker                       *)
  Requests,       (* what clients send: "echo", for the requests answered  *)
                  (* without shared state, "users", "status", and "order", *)
                  (* for the add, cancel and modify requests               *)
  Lengths,        (* the length in a header: the message's, "proper", or   *)
                  (* "zero", which no client of this program sends         *)
  MaxUnread,      (* bound: the messages sent to one socket and not read   *)
  BookCalls,      (* how an exclusive call of the book ends: "returns", or *)
                  (* "spins" in MatchOrders                                *)
  DestroyedReads  (* what using a destroyed member does: "harmless" or     *)
                  (* "fault"                                               *)

ASSUME NoneAssumption ==
  None \notin Connections /\ None \notin Handles /\ None \notin Workers
ASSUME WorkersAssumption == Workers # {} /\ "acceptor" \notin Workers
ASSUME RequestsAssumption == Requests \subseteq {"echo", "users", "status", "order"}
ASSUME LengthsAssumption == Lengths \subseteq {"proper", "zero"}
ASSUME MaxUnreadAssumption == MaxUnread \in Nat \ {0}
ASSUME BookCallsAssumption == BookCalls \subseteq {"returns", "spins"} /\ BookCalls # {}
ASSUME DestroyedReadsAssumption == DestroyedReads \subseteq {"harmless", "fault"}

VARIABLES
  (* threadPool_, see TaskQueue                                            *)
  taskQueue, shutdown, worker, notifying, destructor,
  accepted, started, refused,
  running,     (* running_                                                 *)
  listening,   (* serverSocket_ is open                                    *)
  main,        (* what the main thread has done last; "crashed" when the   *)
               (* process is gone                                          *)
  destructing, (* stop() is called by ~TcpServer                           *)
  destroyed,   (* clients_, clientsMutex_ and orderbook_ are destroyed     *)
  acceptor,    (* acceptThread_: "none" before it starts, "test",          *)
               (* "accept", "insert", "enqueue", "notify" or "done"        *)
  incoming,    (* its clientSocket's connection                            *)
  clients,     (* clients_: handle -> connection                           *)
  serving,     (* worker -> the connection of its handleClient             *)
  step,        (* worker -> where it is in handleClient; "out" of it       *)
  buffer,      (* worker -> the whole messages in its messageBuffer        *)
  writer,      (* the worker with the book's exclusive lock                *)
  readers,     (* the workers with the book's shared lock                  *)
  open,        (* handle -> the connection it is open for                  *)
  socket,      (* connection -> the handle accept gave it                  *)
  peer,        (* connection -> "absent", "open" or "left": its client     *)
  stream       (* connection -> the messages sent and not received         *)

pool == <<taskQueue, shutdown, worker, notifying, destructor,
          accepted, started, refused>>
life == <<running, listening, main, destructing, destroyed>>
acc  == <<acceptor, incoming>>
book == <<writer, readers>>
hand == <<serving, step, buffer>>
net  == <<open, socket, peer, stream>>

serverVars == <<pool, life, acc, clients, hand, book, net>>

Pool == INSTANCE TaskQueue WITH Callers <- {"acceptor"}, Tasks <- Connections

Messages == [kind : Requests, length : Lengths]

-----------------------------------------------------------------------------

Init ==
  /\ Pool!Init
  /\ running = FALSE
  /\ listening = FALSE
  /\ main = "start"
  /\ destructing = FALSE
  /\ destroyed = FALSE
  /\ acceptor = "none"
  /\ incoming = None
  /\ clients = [h \in {} |-> None]
  /\ serving = [w \in Workers |-> None]
  /\ step = [w \in Workers |-> "out"]
  /\ buffer = [w \in Workers |-> <<>>]
  /\ writer = None
  /\ readers = {}
  /\ open = [h \in Handles |-> None]
  /\ socket = [c \in Connections |-> None]
  /\ peer = [c \in Connections |-> "absent"]
  /\ stream = [c \in Connections |-> <<>>]

-----------------------------------------------------------------------------
(***************************************************************************)
(* The clients at the other ends.                                          *)
(***************************************************************************)

Connect(c) ==
  /\ listening
  /\ peer[c] = "absent"
  /\ peer' = [peer EXCEPT ![c] = "open"]
  /\ UNCHANGED <<pool, life, acc, clients, hand, book, open, socket, stream>>

(* A client does not wait for the answer to its last request.              *)
Send(c, message) ==
  /\ peer[c] = "open"
  /\ Len(stream[c]) < MaxUnread
  /\ stream' = [stream EXCEPT ![c] = Append(@, message)]
  /\ UNCHANGED <<pool, life, acc, clients, hand, book, open, socket, peer>>

Leave(c) ==
  /\ peer[c] = "open"
  /\ peer' = [peer EXCEPT ![c] = "left"]
  /\ UNCHANGED <<pool, life, acc, clients, hand, book, open, socket, stream>>

Client(c) == Connect(c) \/ Leave(c) \/ \E message \in Messages : Send(c, message)

-----------------------------------------------------------------------------
(***************************************************************************)
(* acceptConnections.                                                      *)
(***************************************************************************)

AcceptTest ==
  /\ acceptor = "test"
  /\ acceptor' = IF running THEN "accept" ELSE "done"
  /\ UNCHANGED <<pool, life, incoming, clients, hand, book, net>>

(* accept returns a connection of the backlog, its client gone or not.     *)
Accept ==
  /\ acceptor = "accept"
  /\ listening
  /\ \E c \in Connections, h \in Handles :
       /\ peer[c] # "absent"
       /\ socket[c] = None
       /\ open[h] = None
       /\ open' = [open EXCEPT ![h] = c]
       /\ socket' = [socket EXCEPT ![c] = h]
       /\ incoming' = c
  /\ acceptor' = "insert"
  /\ UNCHANGED <<pool, life, clients, hand, book, peer, stream>>

(* It may fail for a reason of its own, and is tried again.                *)
AcceptError ==
  /\ acceptor = "accept"
  /\ listening
  /\ acceptor' = "test"
  /\ UNCHANGED <<pool, life, incoming, clients, hand, book, net>>

(* stop() has closed the listening socket.                                 *)
AcceptFails ==
  /\ acceptor = "accept"
  /\ ~listening
  /\ acceptor' = "test"
  /\ UNCHANGED <<pool, life, incoming, clients, hand, book, net>>

(* Mutant of InsertClient: key and value swapped.                          *)
InsertSwapped ==
  /\ acceptor = "insert"
  /\ clients' = [k \in DOMAIN clients \cup {incoming} |->
                   IF k = incoming THEN socket[incoming] ELSE clients[k]]
  /\ acceptor' = "enqueue"
  /\ UNCHANGED <<pool, life, incoming, hand, book, net>>

InsertClient ==
  /\ acceptor = "insert"
  /\ clients' = [h \in DOMAIN clients \cup {socket[incoming]} |->
                   IF h = socket[incoming] THEN incoming ELSE clients[h]]
  /\ acceptor' = "enqueue"
  /\ UNCHANGED <<pool, life, incoming, hand, book, net>>

EnqueueClient ==
  /\ acceptor = "enqueue"
  /\ Pool!Enqueue("acceptor", incoming)
  /\ acceptor' = "notify"
  /\ UNCHANGED <<life, incoming, clients, hand, book, net>>

(* Mutant of NotifyWorker: the notification is forgotten.                  *)
NotifyNobody ==
  /\ acceptor = "notify"
  /\ notifying' = [notifying EXCEPT !["acceptor"] = FALSE]
  /\ acceptor' = "test"
  /\ incoming' = None
  /\ UNCHANGED <<taskQueue, shutdown, worker, destructor, accepted, started,
                 refused, life, clients, hand, book, net>>

NotifyWorker ==
  /\ acceptor = "notify"
  /\ Pool!NotifyOne("acceptor")
  /\ acceptor' = "test"
  /\ incoming' = None
  /\ UNCHANGED <<life, clients, hand, book, net>>

Acceptor ==
  AcceptTest \/ Accept \/ AcceptFails \/ InsertClient \/ EnqueueClient \/ NotifyWorker

-----------------------------------------------------------------------------
(***************************************************************************)
(* handleClient, run by worker w as a task of the pool.                    *)
(***************************************************************************)

(* The connection w's socket handle stands for now.                        *)
Peer(w) == open[socket[serving[w]]]

Goto(w, next) == step' = [step EXCEPT ![w] = next]

(* A step of the loop that changes nothing but w's place and, with locks,  *)
(* the book's.                                                             *)
Proceed(w, from, to) ==
  /\ step[w] = from
  /\ Goto(w, to)
  /\ UNCHANGED <<pool, life, acc, clients, serving, buffer, net>>

TakeClient(w) ==
  /\ Pool!Take(w)
  /\ serving' = [serving EXCEPT ![w] = Head(taskQueue)]
  /\ Goto(w, "test")
  /\ UNCHANGED <<life, acc, clients, buffer, book, net>>

PoolStep(w) ==
  /\ Pool!Wait(w) \/ Pool!Exit(w)
  /\ UNCHANGED <<life, acc, clients, hand, book, net>>

TestRunning(w) ==
  Proceed(w, "test", IF running THEN "recv" ELSE "erase") /\ UNCHANGED book

(* processMessageBuffer goes on to the next whole message, or returns when *)
(* there is none.                                                          *)
ProcessNext(w, messages) ==
  /\ buffer' = [buffer EXCEPT ![w] = messages]
  /\ Goto(w, IF messages = <<>> THEN "test" ELSE Head(messages).kind)

(* recv: one or more messages, the rest of the last one in part; nothing   *)
(* yet (WSAEWOULDBLOCK), or a part of one message, which waits in the      *)
(* buffer; the client has left, its last messages lost or not, or the      *)
(* socket was closed by stop().                                            *)
RecvMessages(w) ==
  /\ step[w] = "recv"
  /\ Peer(w) # None
  /\ \E n \in 1..Len(stream[Peer(w)]) :
       /\ ProcessNext(w, SubSeq(stream[Peer(w)], 1, n))
       /\ stream' = [stream EXCEPT ![Peer(w)] = SubSeq(@, n + 1, Len(@))]
  /\ UNCHANGED <<pool, life, acc, clients, serving, book, open, socket, peer>>

RecvNothing(w) ==
  /\ Proceed(w, "recv", "test")
  /\ Peer(w) # None
  /\ peer[Peer(w)] = "open" \/ stream[Peer(w)] # <<>>
  /\ UNCHANGED book

(* Mutant of RecvEnd: the end of the stream closes the socket at once.     *)
RecvEndCloses(w) ==
  /\ step[w] = "recv"
  /\ Peer(w) # None => peer[Peer(w)] = "left"
  /\ open' = [open EXCEPT ![socket[serving[w]]] = None]
  /\ Goto(w, "erase")
  /\ UNCHANGED <<pool, life, acc, clients, serving, buffer, book, socket, peer, stream>>

RecvEnd(w) ==
  /\ Proceed(w, "recv", "erase")
  /\ Peer(w) # None => peer[Peer(w)] = "left"
  /\ UNCHANGED book

(* Mutant of Reply: the message is not erased from the buffer.             *)
NothingErased(w) ==
  /\ ProcessNext(w, buffer[w])
  /\ UNCHANGED <<serving, net>>

(* send, whose result nobody looks at; then the message's length is erased *)
(* from the buffer: one of length zero stays in front and is handled again.*)
Reply(w) ==
  /\ ProcessNext(w, IF Head(buffer[w]).length = "zero" THEN buffer[w] ELSE Tail(buffer[w]))
  /\ UNCHANGED <<serving, net>>

(* Echo, quit and unknown requests, and the count of the clients.          *)
AnswerAtOnce(w) ==
  /\ step[w] \in {"echo", "users"}
  /\ Reply(w)
  /\ UNCHANGED <<pool, life, acc, clients, book>>

(* The status request holds the book's lock shared.                        *)
LockShared(w) ==
  /\ writer = None
  /\ readers' = readers \cup {w}
  /\ Proceed(w, "status", "reading")
  /\ UNCHANGED writer

AnswerStatus(w) ==
  /\ step[w] = "reading"
  /\ readers' = readers \ {w}
  /\ Reply(w)
  /\ UNCHANGED <<pool, life, acc, clients, writer>>

(* Add, cancel and modify requests hold it exclusively.                    *)
LockExclusive(w) ==
  /\ writer = None
  /\ readers = {}
  /\ writer' = w
  /\ Proceed(w, "order", "writing")
  /\ UNCHANGED readers

(* Mutant of AnswerOrder: the lock is kept.                                *)
AnswerLocked(w) ==
  /\ step[w] = "writing"
  /\ "returns" \in BookCalls
  /\ Reply(w)
  /\ UNCHANGED <<pool, life, acc, clients, book>>

AnswerOrder(w) ==
  /\ step[w] = "writing"
  /\ "returns" \in BookCalls
  /\ writer' = None
  /\ Reply(w)
  /\ UNCHANGED <<pool, life, acc, clients, readers>>

LoopForever(w) ==
  "spins" \in BookCalls /\ Proceed(w, "writing", "spinning") /\ UNCHANGED book

Spin(w) == step[w] = "spinning" /\ UNCHANGED serverVars

(* After the loop: out of the map, then closed.                            *)
Erased(w) == [h \in DOMAIN clients \ {socket[serving[w]]} |-> clients[h]]

Closed(w) == [open EXCEPT ![socket[serving[w]]] = None]

EraseClient(w) ==
  /\ step[w] = "erase"
  /\ clients' = Erased(w)
  /\ Goto(w, "close")
  /\ UNCHANGED <<pool, life, acc, serving, buffer, book, net>>

CloseSocket(w) ==
  /\ step[w] = "close"
  /\ Pool!Finish(w)
  /\ open' = Closed(w)
  /\ serving' = [serving EXCEPT ![w] = None]
  /\ Goto(w, "out")
  /\ UNCHANGED <<life, acc, clients, buffer, book, socket, peer, stream>>

(* Mutant of EndClient: closed, then out of the map.                       *)
EndClosingFirst(w) ==
  \/ /\ step[w] = "erase"
     /\ open' = Closed(w)
     /\ Goto(w, "close")
     /\ UNCHANGED <<pool, life, acc, clients, serving, buffer, book, socket, peer, stream>>
  \/ /\ step[w] = "close"
     /\ Pool!Finish(w)
     /\ clients' = Erased(w)
     /\ serving' = [serving EXCEPT ![w] = None]
     /\ Goto(w, "out")
     /\ UNCHANGED <<life, acc, buffer, book, net>>

EndClient(w) == EraseClient(w) \/ CloseSocket(w)

Worker(w) ==
  \/ TakeClient(w) \/ PoolStep(w) \/ TestRunning(w)
  \/ RecvMessages(w) \/ RecvNothing(w) \/ RecvEnd(w)
  \/ AnswerAtOnce(w) \/ LockShared(w) \/ AnswerStatus(w)
  \/ LockExclusive(w) \/ AnswerOrder(w) \/ LoopForever(w) \/ Spin(w)
  \/ EndClient(w)

SpuriousWake(w) ==
  /\ Pool!SpuriousWake(w)
  /\ UNCHANGED <<life, acc, clients, hand, book, net>>

(* The steps that use clients_, clientsMutex_ or orderbook_.               *)
UsesMembers(w) ==
  step[w] \in {"users", "status", "reading", "order", "writing", "spinning", "erase"}

(* Using a destroyed member may end the process.                           *)
Fault(w) ==
  /\ destroyed
  /\ UsesMembers(w)
  /\ "fault" \in DestroyedReads
  /\ main' = "crashed"
  /\ UNCHANGED <<pool, running, listening, destructing, destroyed,
                 acc, clients, hand, book, net>>

-----------------------------------------------------------------------------
(***************************************************************************)
(* The main thread: start(), stop() and ~TcpServer, which calls stop()     *)
(* again and then destroys the members, the pool last.                     *)
(***************************************************************************)

Start ==
  /\ main = "start"
  /\ running' = TRUE
  /\ listening' = TRUE
  /\ acceptor' = "test"
  /\ main' = "up"
  /\ UNCHANGED <<pool, destructing, destroyed, incoming, clients, hand, book, net>>

(* start() fails, or the user stops the server, or main returns: the first *)
(* line of stop().                                                         *)
BeginStop ==
  /\ \/ main = "start" /\ destructing' = TRUE
     \/ main = "up" /\ destructing' = FALSE
     \/ main = "stopped" /\ ~destructing /\ destructing' = TRUE
  /\ running' = FALSE
  /\ main' = "stopping"
  /\ UNCHANGED <<pool, listening, destroyed, acc, clients, hand, book, net>>

(* The main thread goes from one line to the next.                         *)
Main(from, to) ==
  /\ main = from
  /\ main' = to
  /\ UNCHANGED <<pool, running, destructing, acc, hand, book, socket, peer, stream>>

(* Mutant of CloseListener: the listening socket stays open.               *)
KeepListener == Main("stopping", "deaf") /\ UNCHANGED <<listening, destroyed, clients, open>>

CloseListener ==
  /\ Main("stopping", "deaf")
  /\ listening' = FALSE
  /\ UNCHANGED <<destroyed, clients, open>>

(* Mutant of JoinAcceptor: the thread is not waited for.                   *)
JoinNobody ==
  Main("deaf", "joined") /\ UNCHANGED <<listening, destroyed, clients, open>>

JoinAcceptor ==
  /\ Main("deaf", "joined")
  /\ acceptor \in {"none", "done"}
  /\ UNCHANGED <<listening, destroyed, clients, open>>

(* closesocket for every entry of clients_, then clear.                    *)
CloseClients ==
  /\ Main("joined", "cleared")
  /\ open' = [h \in Handles |-> IF h \in DOMAIN clients THEN None ELSE open[h]]
  /\ clients' = [h \in {} |-> None]
  /\ UNCHANGED <<listening, destroyed>>

(* WSACleanup closes what is still open.                                   *)
Cleanup ==
  /\ Main("cleared", "stopped")
  /\ open' = [h \in Handles |-> None]
  /\ UNCHANGED <<listening, destroyed, clients>>

(* The members declared after the pool go before it.                       *)
DestroyMembers ==
  /\ Main("stopped", "destroying")
  /\ destructing
  /\ destroyed' = TRUE
  /\ UNCHANGED <<listening, clients, open>>

DestroyPool ==
  /\ main = "destroying"
  /\ \/ (Pool!Shutdown \/ Pool!NotifyAll) /\ UNCHANGED main
     \/ Pool!Join /\ main' = "exited"
  /\ UNCHANGED <<running, listening, destructing, destroyed,
                 acc, clients, hand, book, net>>

Teardown ==
  CloseListener \/ JoinAcceptor \/ CloseClients \/ Cleanup \/ DestroyMembers \/ DestroyPool

-----------------------------------------------------------------------------

Gone == main \in {"exited", "crashed"}

Next ==
  \/ ~Gone /\ (Acceptor \/ AcceptError \/ Start \/ BeginStop \/ Teardown)
  \/ ~Gone /\ \E c \in Connections : Client(c)
  \/ ~Gone /\ \E w \in Workers : Worker(w) \/ SpuriousWake(w) \/ Fault(w)
  \/ Gone /\ UNCHANGED serverVars

(* The threads keep running; no client has to do anything, accept need not *)
(* fail, nobody has to stop the server, and a call that spins keeps its    *)
(* thread busy.  main returns after stop().                                *)
Fairness ==
  /\ WF_serverVars(~Gone /\ Acceptor)
  /\ \A w \in Workers : WF_serverVars(~Gone /\ Worker(w))
  /\ WF_serverVars(~Gone /\ (Teardown \/ (main = "stopped" /\ BeginStop)))

Spec == Init /\ [][Next]_serverVars /\ Fairness
-----------------------------------------------------------------------------
(***************************************************************************)
(* Properties.                                                             *)
(***************************************************************************)

(* Type invariant of the server, its pool's state apart.                   *)
TypeOK ==
  /\ Pool!TypeOK
  /\ running \in BOOLEAN /\ listening \in BOOLEAN
  /\ destructing \in BOOLEAN /\ destroyed \in BOOLEAN
  /\ main \in {"start", "up", "stopping", "deaf", "joined", "cleared",
               "stopped", "destroying", "exited", "crashed"}
  /\ acceptor \in {"none", "test", "accept", "insert", "enqueue", "notify", "done"}
  /\ incoming \in Connections \cup {None}
  /\ DOMAIN clients \subseteq Handles
  /\ \A h \in DOMAIN clients : clients[h] \in Connections
  /\ serving \in [Workers -> Connections \cup {None}]
  /\ buffer \in [Workers -> Seq(Messages)]
  /\ step \in [Workers -> Requests \cup {"out", "test", "recv", "reading",
                           "writing", "spinning", "erase", "close"}]
  /\ writer \in Workers \cup {None}
  /\ readers \subseteq Workers
  /\ open \in [Handles -> Connections \cup {None}]
  /\ socket \in [Connections -> Handles \cup {None}]
  /\ peer \in [Connections -> {"absent", "open", "left"}]
  /\ stream \in [Connections -> Seq(Messages)]

(* The accepted connections that are in the map, or would be had stop()    *)
(* not cleared it: listed, queued, or served and not erased yet.           *)
Active ==
  {c \in Connections :
     \/ acceptor = "enqueue" /\ incoming = c
     \/ c \in Range(taskQueue)
     \/ \E w \in Workers : serving[w] = c /\ step[w] # "close"}

(* stop() has closed the client sockets.                                   *)
Cleared == destructing \/ main \in {"cleared", "stopped"}

(* Until stop() clears it, clients_ holds exactly the active connections,  *)
(* each under its own socket: the number handleListUsersRequest reports is *)
(* theirs, and stop() closes every one of them.  A closed socket's value   *)
(* may be given to the next connection before its old worker is done:      *)
(* handleClient erases before it closes.                                   *)
ClientsListed ==
  ~Cleared =>
    /\ \A c \in Active : socket[c] \in DOMAIN clients /\ clients[socket[c]] = c
    /\ \A h \in DOMAIN clients : clients[h] \in Active /\ socket[clients[h]] = h

(* A worker never reads from, answers to or closes the socket of another   *)
(* connection, although socket values are reused and both stop() and the   *)
(* worker close the socket.                                                *)
OwnSocket ==
  \A w \in Workers : serving[w] # None =>
    \/ Peer(w) = serving[w]
    \/ Peer(w) = None /\ Cleared

(* Once stop() has waited for the accept thread, nothing is added any      *)
(* more: the connections at work only get fewer, so that a server that has *)
(* none when stop() returns uses no destroyed member in its destructor,    *)
(* which joins the pool last.                                              *)
AcceptorJoined == main \in {"joined", "cleared", "stopped", "destroying"}

StopEndsIntake ==
  [][AcceptorJoined => Active' \subseteq Active /\ accepted' = accepted]_serverVars

(* A worker that will never be done with its client: inside a book call    *)
(* that never returns, or handling a message of length zero again and      *)
(* again, which processMessageBuffer does without looking at running_.     *)
Endless(w) ==
  \/ step[w] = "spinning"
  \/ buffer[w] # <<>> /\ Head(buffer[w]).length = "zero"

(* stop() returns ("Close server socket to unblock accept()") whether the  *)
(* clients leave or not and whatever the workers are doing, and the        *)
(* program ends, by its destructor or by a worker's use of what that has   *)
(* destroyed, unless ~TcpServer waits for an endless worker.               *)
EndsUnlessEndless ==
  main = "stopping" ~>
    \/ Gone
    \/ main = "destroying" /\ \E w \in Workers : Endless(w)

(* A queued client waits only while every worker serves another one: no    *)
(* worker sleeps next to it.                                               *)
HandledWhenFree ==
  \A c \in Connections :
    c \in Range(taskQueue) ~>
      \/ c \notin Range(taskQueue)
      \/ ~running
      \/ \A w \in Workers : serving[w] # None

(* Nothing keeps worker w, or the accept thread, from its next step: the   *)
(* lock it waits for is free, recv has something to say, the pool lets it  *)
(* go on.                                                                  *)
CanGoOn(w) ==
  \/ step[w] = "out" /\ worker[w] = "awake"
  \/ step[w] = "recv" /\ (Peer(w) # None => peer[Peer(w)] \in {"open", "left"})
  \/ step[w] = "status" /\ writer = None
  \/ step[w] = "order" /\ writer = None /\ readers = {}
  \/ step[w] = "close" /\ ~notifying[w]
  \/ step[w] \in {"test", "echo", "users", "reading", "writing", "spinning", "erase"}

AcceptorCanGoOn ==
  \/ acceptor \in {"test", "insert"}
  \/ acceptor = "accept" /\ ~listening
  \/ acceptor = "enqueue" /\ destructor = "none" /\ ~notifying["acceptor"]
  \/ acceptor = "notify" /\ notifying["acceptor"]

(* A worker that cannot go on has exited, sleeps while there is nothing to *)
(* take or somebody else to take it, or waits for the book's lock, which   *)
(* another one has that can go on.                                         *)
WorkersGoOn ==
  \A w \in Workers :
    \/ CanGoOn(w)
    \/ worker[w] = "exited"
    \/ /\ worker[w] = "waiting"
       /\ taskQueue = <<>> \/ notifying["acceptor"] \/ \E v \in Workers : worker[v] \in {"awake", "running"}
    \/ /\ step[w] \in {"status", "order"}
       /\ \E v \in Workers \ {w} : (v = writer \/ v \in readers) /\ CanGoOn(v)

(* The main thread waits for an accept thread that can go on, and for      *)
(* workers that are awake.                                                 *)
StopGoesOn ==
  /\ main = "deaf" => acceptor \in {"none", "done"} \/ AcceptorCanGoOn
  /\ main = "destroying" =>
       /\ destructor = "none" => ~notifying["acceptor"]
       /\ destructor = "joining" => \A w \in Workers : worker[w] # "waiting"

(* Accept thread, workers and main thread never wait for each other in a   *)
(* circle, over the pool's mutex and condition, the book's lock, the       *)
(* listening socket and two joins: some thread that can go on is behind    *)
(* every wait of the server.                                               *)
NeverDeadlocked == WorkersGoOn /\ StopGoesOn
=============================================================================

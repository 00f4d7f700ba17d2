-------------------------- MODULE TcpServerProofs --------------------------
(***************************************************************************)
(* Proofs of the safety properties of TcpServer, for any number of workers *)
(* (one at least), connections and socket values.                          *)
(*                                                                         *)
(* The pool is used as TaskQueue says, so that all that is proved of it    *)
(* holds here.  The invariant says where a connection can be: with the     *)
(* accept thread, in the queue or with a worker, in one of these places    *)
(* only, and under an open socket of its own until stop() closes it.       *)
(***************************************************************************)
EXTENDS TcpServer, SequenceTheorems, TLAPS

PoolProofs == INSTANCE TaskQueueProofs WITH Callers <- {"acceptor"}, Tasks <- Connections

(* A connection that was accepted and is not handed to the pool yet.       *)
Carried(c) == acceptor \in {"insert", "enqueue"} /\ incoming = c

Queued(c) == c \in Range(taskQueue)

Live(c) == Carried(c) \/ Queued(c) \/ \E w \in Workers : serving[w] = c

(* A worker is inside handleClient exactly while its task runs.            *)
InTask ==
  /\ acceptor \in {"insert", "enqueue"} => incoming # None
  /\ \A w \in Workers :
       /\ worker[w] = "running" <=> serving[w] # None
       /\ step[w] = "out" <=> serving[w] = None

(* The steps of processMessage and of the handlers it calls, which have    *)
(* the message in front of the buffer.                                     *)
Handling == {"echo", "users", "status", "order", "reading", "writing", "spinning"}

HasMessage == \A w \in Workers : step[w] \in Handling => buffer[w] # <<>>

(* A connection is in one place.                                           *)
OnePlace ==
  /\ \A i, j \in DOMAIN taskQueue : taskQueue[i] = taskQueue[j] => i = j
  /\ \A w \in Workers : ~Queued(serving[w])
  /\ \A v, w \in Workers : serving[v] = serving[w] /\ serving[v] # None => v = w
  /\ \A c \in Connections :
       Carried(c) => ~Queued(c) /\ \A w \in Workers : serving[w] # c

(* What was given to the pool had a socket, and is given to it once.       *)
GivenOnce ==
  /\ refused = {}
  /\ \A c \in Range(accepted) : socket[c] # None /\ ~Carried(c)

(* A connection that is somewhere has its socket, unless stop() closed it. *)
HasSocket ==
  \A c \in Connections : Live(c) =>
    /\ socket[c] # None
    /\ open[socket[c]] = c \/ (Cleared /\ open[socket[c]] = None)

(* When the accept thread cannot be at work, and when the destructor can.  *)
Phases ==
  /\ main = "start" => acceptor = "none"
  /\ AcceptorJoined \/ destructing => acceptor \in {"none", "done"}
  /\ main \in {"start", "up"} => ~destructing
  /\ destroyed \/ main \in {"destroying", "exited", "crashed"} => destructing

SInv ==
  /\ TypeOK /\ PoolProofs!IInv
  /\ InTask /\ HasMessage
  /\ OnePlace /\ GivenOnce /\ HasSocket /\ ClientsListed /\ Phases

-----------------------------------------------------------------------------
(***************************************************************************)
(* The pool.                                                               *)
(***************************************************************************)

(* What TaskQueue assumes of its constants holds of the server's pool.     *)
LEMMA PoolThreads == Workers # {} /\ Workers \cap {"acceptor"} = {}
BY WorkersAssumption

(* The two instances of the pool are the same.                             *)
LEMMA SameInit == Pool!Init => PoolProofs!Init
BY DEF Pool!Init, PoolProofs!Init, Pool!Threads, PoolProofs!Threads

(* Their steps are the same as well.                                       *)
LEMMA SameStep ==
  ASSUME [Pool!Next]_pool
  PROVE  [PoolProofs!Next]_(PoolProofs!poolVars)
<1>1. CASE UNCHANGED pool
  BY <1>1 DEF pool, PoolProofs!poolVars
<1>2. CASE Pool!SomeEnqueue
  BY <1>2 DEF Pool!SomeEnqueue, PoolProofs!SomeEnqueue, Pool!Threads, PoolProofs!Threads,
     Pool!Fresh, PoolProofs!Fresh, Pool!Enqueue, PoolProofs!Enqueue, Pool!Refuse,
     PoolProofs!Refuse, Pool!MayEnqueue, PoolProofs!MayEnqueue, Pool!Range, PoolProofs!Range,
     PoolProofs!Next
<1>3. CASE \E thread \in Pool!Threads : Pool!NotifyOne(thread)
  BY <1>3 DEF Pool!Threads, PoolProofs!Threads, Pool!NotifyOne, PoolProofs!NotifyOne,
     Pool!Waiting, PoolProofs!Waiting, PoolProofs!Next
<1>4. CASE \E w \in Workers : Pool!WorkerThread(w) \/ Pool!SpuriousWake(w) \/ Pool!Finish(w)
  BY <1>4 DEF Pool!WorkerThread, PoolProofs!WorkerThread, Pool!Wait, PoolProofs!Wait,
     Pool!Take, PoolProofs!Take, Pool!Exit, PoolProofs!Exit, Pool!SpuriousWake,
     PoolProofs!SpuriousWake, Pool!Finish, PoolProofs!Finish, PoolProofs!Next
<1>5. CASE Pool!Shutdown \/ Pool!NotifyAll \/ Pool!Join \/ Pool!Gone
  BY <1>5 DEF Pool!Shutdown, PoolProofs!Shutdown, Pool!NotifyAll, PoolProofs!NotifyAll,
     Pool!Waiting, PoolProofs!Waiting, Pool!Join, PoolProofs!Join, Pool!Gone, PoolProofs!Gone,
     Pool!poolVars, PoolProofs!poolVars, PoolProofs!Next
<1> QED
  BY <1>1, <1>2, <1>3, <1>4, <1>5 DEF Pool!Next

(* Their type invariants are the same, too.                                *)
LEMMA PoolTypes == PoolProofs!IInv => Pool!TypeOK
BY DEF PoolProofs!IInv, PoolProofs!TypeOK, Pool!TypeOK, PoolProofs!Threads, Pool!Threads

(* Every step of the server is one of the pool or leaves it alone.         *)
LEMMA PoolStepped ==
  ASSUME SInv, [Next]_serverVars
  PROVE  [Pool!Next]_pool
<1>1. CASE UNCHANGED serverVars
  BY <1>1 DEF serverVars
<1>2. CASE Acceptor \/ AcceptError
  <2>1. CASE EnqueueClient
    <3>1. Pool!Enqueue("acceptor", incoming) /\ Carried(incoming)
      BY <2>1 DEF EnqueueClient, Carried
    <3>2. incoming \in Connections
      BY <3>1 DEF SInv, TypeOK, InTask, Carried
    <3>3. Pool!Fresh(incoming)
      BY <3>1 DEF SInv, GivenOnce, Pool!Fresh, Pool!Range, Range
    <3> QED
      BY <3>1, <3>2, <3>3 DEF Pool!Next, Pool!SomeEnqueue, Pool!Threads
  <2>2. CASE NotifyWorker
    BY <2>2 DEF NotifyWorker, Pool!Next, Pool!Threads
  <2> QED
    BY <1>2, <2>1, <2>2 DEF Acceptor, AcceptTest, Accept, AcceptError, AcceptFails, InsertClient
<1>3. CASE Start \/ BeginStop
  BY <1>3 DEF Start, BeginStop
<1>4. CASE Teardown
  BY <1>4 DEF Teardown, CloseListener, JoinAcceptor, CloseClients, Cleanup, DestroyMembers,
     Main, DestroyPool, Pool!Next
<1>5. ASSUME NEW c \in Connections, Client(c) PROVE UNCHANGED pool
  BY <1>5 DEF Client, Connect, Leave, Send
<1>6. ASSUME NEW w \in Workers, Worker(w) PROVE [Pool!Next]_pool
  <2>1. CASE TakeClient(w) \/ PoolStep(w) \/ CloseSocket(w)
    BY <2>1 DEF TakeClient, PoolStep, CloseSocket, Pool!Next, Pool!WorkerThread
  <2> QED
    BY <1>6, <2>1 DEF Worker, TestRunning, RecvMessages, RecvNothing, RecvEnd, AnswerAtOnce,
       LockShared, AnswerStatus, LockExclusive, AnswerOrder, LoopForever, Spin, EndClient,
       EraseClient, Proceed, serverVars
<1>7. ASSUME NEW w \in Workers, SpuriousWake(w) PROVE [Pool!Next]_pool
  BY <1>7 DEF SpuriousWake, Pool!Next
<1>8. ASSUME NEW w \in Workers, Fault(w) PROVE UNCHANGED pool
  BY <1>8 DEF Fault
<1> QED
  BY <1>1, <1>2, <1>3, <1>4, <1>5, <1>6, <1>7, <1>8 DEF Next

(* Every step of the server preserves the invariant of the pool.           *)
LEMMA PoolHolds ==
  ASSUME SInv, [Next]_serverVars
  PROVE  PoolProofs!IInv'
BY PoolStepped, SameStep, PoolThreads, PoolProofs!StepHolds DEF SInv

-----------------------------------------------------------------------------
(***************************************************************************)
(* The messages a worker has received.                                     *)
(***************************************************************************)

(* The socket a worker is at is none's or its own connection's.            *)
LEMMA PeerIsServed ==
  ASSUME SInv, NEW w \in Workers, step[w] # "out", Peer(w) # None
  PROVE  Peer(w) = serving[w] /\ Peer(w) \in Connections
<1>1. serving[w] \in Connections /\ Live(serving[w])
  BY DEF SInv, TypeOK, InTask, Live
<1> QED
  BY <1>1 DEF SInv, HasSocket, Peer

(* How a worker comes from one message to the next, or out of the loop.    *)
GoesOn(w) ==
  \E to \in Requests \cup {"test"}, messages \in Seq(Messages) :
    /\ step' = [step EXCEPT ![w] = to]
    /\ buffer' = [buffer EXCEPT ![w] = messages]
    /\ to # "test" => messages # <<>>

(* processMessageBuffer keeps whole messages only and takes the first.     *)
LEMMA Processed ==
  ASSUME NEW w \in Workers, NEW messages \in Seq(Messages), ProcessNext(w, messages)
  PROVE  GoesOn(w)
<1>1. CASE messages = <<>>
  BY <1>1 DEF GoesOn, ProcessNext, Goto
<1>2. CASE messages # <<>>
  <2>1. Head(messages) \in Messages
    BY <1>2, HeadTailProperties
  <2>2. Head(messages).kind \in Requests
    BY <2>1 DEF Messages
  <2> QED
    BY <1>2, <2>2 DEF GoesOn, ProcessNext, Goto
<1> QED
  BY <1>1, <1>2

(* What recv returns are whole messages, and what it leaves.               *)
LEMMA Received ==
  ASSUME SInv, NEW w \in Workers, RecvMessages(w)
  PROVE  /\ step[w] = "recv" /\ GoesOn(w)
         /\ stream' \in [Connections -> Seq(Messages)]
<1>1. step[w] = "recv" /\ Peer(w) \in Connections
  BY PeerIsServed DEF RecvMessages
<1>2. stream \in [Connections -> Seq(Messages)]
  BY DEF SInv, TypeOK
<1> DEFINE sent == stream[Peer(w)]
<1>3. sent \in Seq(Messages)
  BY <1>1, <1>2
<1>4. PICK n \in 1 .. Len(sent) :
        /\ ProcessNext(w, SubSeq(sent, 1, n))
        /\ stream' = [stream EXCEPT ![Peer(w)] = SubSeq(@, n + 1, Len(@))]
  BY DEF RecvMessages
<1>5. n \in Int /\ Len(sent) \in Nat /\ n <= Len(sent)
  BY <1>3, LenProperties
<1>6. SubSeq(sent, 1, n) \in Seq(Messages) /\ SubSeq(sent, n + 1, Len(sent)) \in Seq(Messages)
  <2>1. \A i \in 1 .. Len(sent) : sent[i] \in Messages
    BY <1>3, ElementOfSeq
  <2> QED
    BY <1>3, <1>4, <1>5, <2>1, SubSeqProperties
<1>7. stream' \in [Connections -> Seq(Messages)]
  BY <1>2, <1>4, <1>6
<1> QED
  BY <1>1, <1>4, <1>6, <1>7, Processed

(* An answer ends the message in front, or begins it again.                *)
LEMMA Replied ==
  ASSUME SInv, NEW w \in Workers, step[w] \in Handling, Reply(w)
  PROVE  GoesOn(w)
<1>1. buffer[w] \in Seq(Messages) /\ buffer[w] # <<>>
  BY DEF SInv, TypeOK, HasMessage
<1>2. Tail(buffer[w]) \in Seq(Messages)
  BY <1>1, HeadTailProperties
<1> QED
  BY <1>1, <1>2, Processed DEF Reply

(* The three steps of a worker that answer.                                *)
LEMMA Answered ==
  ASSUME SInv, NEW w \in Workers, AnswerAtOnce(w) \/ AnswerStatus(w) \/ AnswerOrder(w)
  PROVE  step[w] \in Handling /\ GoesOn(w)
<1>1. step[w] \in Handling /\ Reply(w)
  BY DEF AnswerAtOnce, AnswerStatus, AnswerOrder, Handling
<1> QED
  BY <1>1, Replied

-----------------------------------------------------------------------------
(***************************************************************************)
(* Types and phases.                                                       *)
(***************************************************************************)

(* Every step keeps the types.                                             *)
LEMMA TypeHolds ==
  ASSUME SInv, [Next]_serverVars
  PROVE  TypeOK'
<1>1. Pool!TypeOK'
  BY PoolHolds, PoolTypes, PTL
<1>2. CASE UNCHANGED serverVars
  BY <1>1, <1>2 DEF SInv, TypeOK, serverVars, life, acc, hand, book, net
<1>3. CASE Acceptor \/ AcceptError
  <2>1. CASE AcceptTest \/ AcceptError \/ AcceptFails
    BY <1>1, <2>1 DEF SInv, TypeOK, AcceptTest, AcceptError, AcceptFails, life, hand, book, net
  <2>2. CASE Accept
    BY <1>1, <2>2 DEF SInv, TypeOK, Accept, life, hand, book, net
  <2>3. CASE InsertClient
    <3>1. incoming \in Connections /\ socket[incoming] \in Handles
      BY <2>3 DEF SInv, TypeOK, InTask, HasSocket, Live, Carried, InsertClient
    <3> QED
      BY <1>1, <2>3, <3>1 DEF SInv, TypeOK, InsertClient, life, hand, book, net
  <2>4. CASE EnqueueClient \/ NotifyWorker
    BY <1>1, <2>4 DEF SInv, TypeOK, EnqueueClient, NotifyWorker, life, hand, book, net
  <2> QED
    BY <1>3, <2>1, <2>2, <2>3, <2>4 DEF Acceptor
<1>4. CASE Start \/ BeginStop
  BY <1>1, <1>4 DEF SInv, TypeOK, Start, BeginStop, acc, hand, book, net
<1>5. CASE Teardown
  <2>1. CASE CloseListener \/ JoinAcceptor \/ Cleanup \/ DestroyMembers
    BY <1>1, <2>1 DEF SInv, TypeOK, CloseListener, JoinAcceptor, Cleanup, DestroyMembers,
       Main, acc, hand, book, net
  <2>2. CASE CloseClients
    BY <1>1, <2>2 DEF SInv, TypeOK, CloseClients, Main, acc, hand, book, net
  <2>3. CASE DestroyPool
    BY <1>1, <2>3 DEF SInv, TypeOK, DestroyPool, acc, hand, book, net
  <2> QED
    BY <1>5, <2>1, <2>2, <2>3 DEF Teardown
<1>6. ASSUME NEW c \in Connections, Client(c) PROVE TypeOK'
  <2>1. CASE Connect(c) \/ Leave(c)
    <3>1. /\ peer' \in [Connections -> {"absent", "open", "left"}]
          /\ UNCHANGED <<life, acc, clients, hand, book, open, socket, stream>>
      BY <2>1 DEF SInv, TypeOK, Connect, Leave
    <3> QED
      BY <1>1, <3>1 DEF SInv, TypeOK, life, acc, hand, book
  <2>2. ASSUME NEW message \in Messages, Send(c, message) PROVE TypeOK'
    <3>1. stream[c] \in Seq(Messages)
      BY DEF SInv, TypeOK
    <3>2. Append(stream[c], message) \in Seq(Messages)
      BY <3>1, AppendProperties
    <3>3. stream' \in [Connections -> Seq(Messages)]
      BY <2>2, <3>2 DEF SInv, TypeOK, Send
    <3> QED
      BY <1>1, <2>2, <3>3 DEF SInv, TypeOK, Send, life, acc, hand, book
  <2> QED
    BY <1>6, <2>1, <2>2 DEF Client
<1>7. ASSUME NEW w \in Workers, Worker(w) PROVE TypeOK'
  <2>1. CASE TakeClient(w)
    <3>1. Head(taskQueue) \in Connections
      BY <2>1 DEF SInv, TypeOK, Pool!TypeOK, TakeClient, Pool!Take
    <3> QED
      BY <1>1, <2>1, <3>1 DEF SInv, TypeOK, TakeClient, Goto, life, acc, book, net
  <2>2. CASE PoolStep(w)
    BY <1>1, <2>2 DEF SInv, TypeOK, PoolStep, life, acc, hand, book, net
  <2>3. CASE TestRunning(w) \/ RecvNothing(w) \/ RecvEnd(w)
    <3>1. /\ step' \in [Workers -> Requests \cup {"out", "test", "recv", "reading",
                                   "writing", "spinning", "erase", "close"}]
          /\ UNCHANGED <<life, acc, clients, serving, buffer, book, net>>
      BY <2>3 DEF SInv, TypeOK, TestRunning, RecvNothing, RecvEnd, Proceed, Goto
    <3> QED
      BY <1>1, <3>1 DEF SInv, TypeOK, life, acc, book, net
  <2>4. CASE RecvMessages(w) \/ AnswerAtOnce(w) \/ AnswerStatus(w) \/ AnswerOrder(w)
    <3>1. GoesOn(w)
      BY <2>4, Received, Answered
    <3>2. stream' \in [Connections -> Seq(Messages)]
      BY <2>4, Received DEF SInv, TypeOK, AnswerAtOnce, AnswerStatus, AnswerOrder, Reply, net
    <3>3. /\ buffer' \in [Workers -> Seq(Messages)]
          /\ step' \in [Workers -> Requests \cup {"out", "test", "recv", "reading",
                                   "writing", "spinning", "erase", "close"}]
      BY <3>1 DEF SInv, TypeOK, GoesOn
    <3>4. UNCHANGED <<life, acc, clients, serving, open, socket, peer>>
      BY <2>4 DEF RecvMessages, AnswerAtOnce, AnswerStatus, AnswerOrder, Reply, net
    <3>5. writer' \in Workers \cup {None} /\ readers' \subseteq Workers
      BY <2>4 DEF SInv, TypeOK, RecvMessages, AnswerAtOnce, AnswerStatus, AnswerOrder, book
    <3> QED
      BY <1>1, <3>2, <3>3, <3>4, <3>5 DEF SInv, TypeOK, life, acc
  <2>5. CASE LockShared(w) \/ LockExclusive(w) \/ LoopForever(w)
    <3>1. /\ step' \in [Workers -> Requests \cup {"out", "test", "recv", "reading",
                                   "writing", "spinning", "erase", "close"}]
          /\ UNCHANGED <<life, acc, clients, serving, buffer, net>>
      BY <2>5 DEF SInv, TypeOK, LockShared, LockExclusive, LoopForever, Proceed, Goto
    <3>2. writer' \in Workers \cup {None} /\ readers' \subseteq Workers
      BY <2>5 DEF SInv, TypeOK, LockShared, LockExclusive, LoopForever, book
    <3> QED
      BY <1>1, <3>1, <3>2 DEF SInv, TypeOK, life, acc, net
  <2>6. CASE Spin(w)
    BY <1>2, <2>6 DEF Spin
  <2>7. CASE EraseClient(w)
    BY <1>1, <2>7 DEF SInv, TypeOK, EraseClient, Erased, Goto, life, acc, book, net
  <2>8. CASE CloseSocket(w)
    <3>1. /\ open' \in [Handles -> Connections \cup {None}]
          /\ serving' \in [Workers -> Connections \cup {None}]
          /\ step' = [step EXCEPT ![w] = "out"]
      BY <2>8 DEF SInv, TypeOK, CloseSocket, Closed, Goto
    <3> QED
      BY <1>1, <2>8, <3>1 DEF SInv, TypeOK, CloseSocket, life, acc, book
  <2> QED
    BY <1>7, <2>1, <2>2, <2>3, <2>4, <2>5, <2>6, <2>7, <2>8 DEF Worker, EndClient
<1>8. ASSUME NEW w \in Workers, SpuriousWake(w) \/ Fault(w) PROVE TypeOK'
  BY <1>1, <1>8 DEF SInv, TypeOK, SpuriousWake, Fault, life, acc, hand, book, net
<1> QED
  BY <1>2, <1>3, <1>4, <1>5, <1>6, <1>7, <1>8 DEF Next

(* Every step keeps a message in front of whoever handles one.             *)
LEMMA HasMessageHolds ==
  ASSUME SInv, [Next]_serverVars
  PROVE  HasMessage'
<1>1. TypeOK /\ HasMessage
  BY DEF SInv
<1>2. CASE UNCHANGED <<step, buffer>>
  BY <1>1, <1>2 DEF HasMessage
<1>3. CASE UNCHANGED serverVars
  BY <1>2, <1>3 DEF serverVars, hand
<1>4. CASE Acceptor \/ AcceptError \/ Start \/ BeginStop \/ Teardown
  BY <1>2, <1>4 DEF Acceptor, AcceptTest, Accept, AcceptError, AcceptFails, InsertClient,
     EnqueueClient, NotifyWorker, Start, BeginStop, Teardown, CloseListener, JoinAcceptor,
     CloseClients, Cleanup, DestroyMembers, Main, DestroyPool, hand
<1>5. ASSUME NEW c \in Connections, Client(c) PROVE HasMessage'
  BY <1>2, <1>5 DEF Client, Connect, Leave, Send, hand
<1>6. ASSUME NEW w \in Workers, Worker(w) PROVE HasMessage'
  <2>1. ASSUME NEW to, step' = [step EXCEPT ![w] = to], buffer' = buffer,
               to \in Handling => step[w] \in Handling
        PROVE  HasMessage'
    BY <1>1, <2>1 DEF TypeOK, HasMessage
  <2>2. CASE RecvMessages(w) \/ AnswerAtOnce(w) \/ AnswerStatus(w) \/ AnswerOrder(w)
    <3>1. GoesOn(w)
      BY <2>2, Received, Answered
    <3> QED
      BY <1>1, <3>1 DEF GoesOn, TypeOK, HasMessage, Handling
  <2>3. CASE TakeClient(w) \/ TestRunning(w) \/ RecvNothing(w) \/ RecvEnd(w)
             \/ EraseClient(w) \/ CloseSocket(w)
    BY <2>1, <2>3 DEF TakeClient, TestRunning, RecvNothing, RecvEnd, EraseClient, CloseSocket,
       Proceed, Goto, Handling
  <2>4. CASE LockShared(w) \/ LockExclusive(w) \/ LoopForever(w)
    BY <2>1, <2>4 DEF LockShared, LockExclusive, LoopForever, Proceed, Goto, Handling
  <2>5. CASE PoolStep(w) \/ Spin(w)
    BY <1>2, <1>3, <2>5 DEF PoolStep, Spin, hand
  <2> QED
    BY <1>6, <2>2, <2>3, <2>4, <2>5 DEF Worker, EndClient
<1>7. ASSUME NEW w \in Workers, SpuriousWake(w) \/ Fault(w) PROVE HasMessage'
  BY <1>2, <1>7 DEF SpuriousWake, Fault, hand
<1> QED
  BY <1>3, <1>4, <1>5, <1>6, <1>7 DEF Next

(* Every step keeps the phases in order.                                   *)
LEMMA PhasesHold ==
  ASSUME SInv, [Next]_serverVars
  PROVE  Phases'
<1>1. Phases
  BY DEF SInv
<1>2. CASE UNCHANGED <<acceptor, main, destructing, destroyed>>
  BY <1>1, <1>2 DEF Phases, AcceptorJoined
<1>3. CASE Acceptor \/ AcceptError
  BY <1>1, <1>3 DEF Phases, AcceptorJoined, Acceptor, AcceptTest, Accept, AcceptError, AcceptFails,
     InsertClient, EnqueueClient, NotifyWorker, life
<1>4. CASE Start \/ BeginStop
  BY <1>1, <1>4 DEF Phases, AcceptorJoined, Start, BeginStop, acc
<1>5. CASE Teardown
  BY <1>1, <1>5 DEF Phases, AcceptorJoined, Teardown, CloseListener, JoinAcceptor, CloseClients,
     Cleanup, DestroyMembers, Main, DestroyPool, acc
<1>6. ASSUME NEW c \in Connections, Client(c) PROVE Phases'
  BY <1>2, <1>6 DEF Client, Connect, Leave, Send, life, acc
<1>7. ASSUME NEW w \in Workers, Worker(w) PROVE Phases'
  <2>1. UNCHANGED <<acceptor, main, destructing, destroyed>>
    BY <1>7 DEF Worker, TakeClient, PoolStep, TestRunning, RecvMessages, RecvNothing, RecvEnd,
       AnswerAtOnce, LockShared, AnswerStatus, LockExclusive, AnswerOrder, LoopForever, Spin,
       EndClient, EraseClient, CloseSocket, Proceed, serverVars, life, acc
  <2> QED
    BY <1>2, <2>1
<1>8. ASSUME NEW w \in Workers, SpuriousWake(w) PROVE Phases'
  BY <1>2, <1>8 DEF SpuriousWake, life, acc
<1>9. ASSUME NEW w \in Workers, Fault(w) PROVE Phases'
  BY <1>1, <1>9 DEF Phases, AcceptorJoined, Fault, acc
<1>10. CASE UNCHANGED serverVars
  BY <1>2, <1>10 DEF serverVars, life, acc
<1> QED
  BY <1>3, <1>4, <1>5, <1>6, <1>7, <1>8, <1>9, <1>10 DEF Next

-----------------------------------------------------------------------------
(***************************************************************************)
(* Steps that move no connection.                                          *)
(***************************************************************************)

Placed == InTask /\ OnePlace /\ GivenOnce /\ HasSocket /\ ClientsListed

Stays ==
  /\ taskQueue' = taskQueue /\ accepted' = accepted /\ refused' = refused
  /\ clients' = clients /\ serving' = serving /\ open' = open /\ socket' = socket
  /\ \/ acceptor' = acceptor /\ incoming' = incoming
     \/ acceptor \notin {"insert", "enqueue"} /\ acceptor' \notin {"insert", "enqueue"}
  /\ \A w \in Workers :
       /\ worker'[w] = "running" <=> worker[w] = "running"
       /\ step'[w] = "out" <=> step[w] = "out"
       /\ step'[w] = "close" <=> step[w] = "close"
  /\ Cleared => Cleared'

(* A step that moves no connection keeps every one in its place.           *)
LEMMA StaysHolds ==
  ASSUME SInv, Stays
  PROVE  Placed'
<1>1. \A c : Carried(c)' <=> Carried(c)
  BY DEF Stays, Carried
<1>2. \A c : Queued(c)' <=> Queued(c)
  BY DEF Stays, Queued, Range
<1>3. \A c : Live(c)' <=> Live(c)
  BY <1>1, <1>2 DEF Stays, Live
<1>4. Active' = Active
  BY <1>2 DEF Stays, Active, Queued
<1>5. InTask' /\ OnePlace'
  BY <1>1, <1>2 DEF SInv, InTask, OnePlace, Stays
<1>6. GivenOnce'
  BY <1>1 DEF SInv, GivenOnce, Stays, Range
<1>7. HasSocket'
  BY <1>3 DEF SInv, HasSocket, Stays
<1>8. ClientsListed'
  BY <1>4 DEF SInv, ClientsListed, Stays
<1> QED
  BY <1>5, <1>6, <1>7, <1>8 DEF Placed

(* The steps that do.                                                      *)
Moves ==
  \/ Accept \/ InsertClient \/ EnqueueClient \/ CloseClients \/ Cleanup
  \/ \E w \in Workers : TakeClient(w) \/ EraseClient(w) \/ CloseSocket(w)

(* All other steps move none.                                              *)
LEMMA OthersStay ==
  ASSUME SInv, [Next]_serverVars, ~Moves
  PROVE  Stays
<1>1. /\ TypeOK /\ InTask /\ Phases
      /\ worker \in [Workers -> {"awake", "waiting", "running", "exited"}]
  BY DEF SInv, TypeOK, Pool!TypeOK
<1>2. CASE UNCHANGED serverVars
  BY <1>2 DEF Stays, Cleared, serverVars, pool, life, acc, hand, net
<1>3. CASE Acceptor \/ AcceptError
  <2>1. CASE AcceptTest \/ AcceptError \/ AcceptFails
    BY <2>1 DEF Stays, Cleared, AcceptTest, AcceptError, AcceptFails, pool, life, hand, net
  <2>2. CASE NotifyWorker
    <3>1. \A w \in Workers : worker'[w] = "running" <=> worker[w] = "running"
      BY <1>1, <2>2 DEF NotifyWorker, Pool!NotifyOne, Pool!Waiting
    <3> QED
      BY <2>2, <3>1 DEF Stays, Cleared, NotifyWorker, Pool!NotifyOne, life, hand, net
  <2> QED
    BY <1>3, <2>1, <2>2 DEF Acceptor, Moves
<1>4. CASE Start \/ BeginStop
  BY <1>1, <1>4 DEF Phases, Stays, Cleared, Start, BeginStop, pool, acc, hand, net
<1>5. CASE Teardown
  <2>1. CASE CloseListener \/ JoinAcceptor \/ DestroyMembers
    BY <2>1 DEF Stays, Cleared, CloseListener, JoinAcceptor, DestroyMembers, Main, pool, acc, hand
  <2>2. CASE DestroyPool
    <3>1. \A w \in Workers : worker'[w] = "running" <=> worker[w] = "running"
      BY <1>1, <2>2 DEF DestroyPool, Pool!Shutdown, Pool!NotifyAll, Pool!Join, Pool!Waiting
    <3>2. taskQueue' = taskQueue /\ accepted' = accepted /\ refused' = refused
      BY <2>2 DEF DestroyPool, Pool!Shutdown, Pool!NotifyAll, Pool!Join
    <3>3. Cleared => Cleared'
      BY <1>1, <2>2 DEF Phases, DestroyPool, Cleared
    <3> QED
      BY <2>2, <3>1, <3>2, <3>3 DEF Stays, DestroyPool, acc, hand, net
  <2> QED
    BY <1>5, <2>1, <2>2 DEF Teardown, Moves
<1>6. ASSUME NEW c \in Connections, Client(c) PROVE Stays
  BY <1>6 DEF Stays, Cleared, Client, Connect, Leave, Send, pool, life, acc, hand
<1>7. ASSUME NEW w \in Workers, Worker(w) PROVE Stays
  <2>1. CASE PoolStep(w)
    <3>1. \A v \in Workers : worker'[v] = "running" <=> worker[v] = "running"
      BY <1>1, <2>1 DEF PoolStep, Pool!Wait, Pool!Exit
    <3>2. taskQueue' = taskQueue /\ accepted' = accepted /\ refused' = refused
      BY <2>1 DEF PoolStep, Pool!Wait, Pool!Exit
    <3> QED
      BY <2>1, <3>1, <3>2 DEF Stays, Cleared, PoolStep, life, acc, hand, net
  <2>2. CASE Spin(w)
    BY <1>2, <2>2 DEF Spin
  <2>3. ASSUME NEW from, NEW to, Proceed(w, from, to), from \notin {"out", "close"},
               to \notin {"out", "close"}
        PROVE  Stays
    BY <1>1, <2>3 DEF TypeOK, Stays, Cleared, Proceed, Goto, pool, life, acc, net
  <2>4. CASE TestRunning(w) \/ RecvNothing(w) \/ RecvEnd(w)
             \/ LockShared(w) \/ LockExclusive(w) \/ LoopForever(w)
    <3>1. \A kind \in Requests : kind \notin {"out", "close"}
      BY RequestsAssumption
    <3> QED
      BY <2>3, <2>4, <3>1 DEF TestRunning, RecvNothing, RecvEnd, LockShared,
         LockExclusive, LoopForever
  <2>5. CASE RecvMessages(w) \/ AnswerAtOnce(w) \/ AnswerStatus(w) \/ AnswerOrder(w)
    <3>1. GoesOn(w) /\ step[w] \in Handling \cup {"recv"}
      BY <2>5, Received, Answered
    <3>2. PICK to \in Requests \cup {"test"} : step' = [step EXCEPT ![w] = to]
      BY <3>1 DEF GoesOn
    <3>3. to \notin {"out", "close"} /\ step[w] \notin {"out", "close"}
      BY <3>1, <3>2, RequestsAssumption DEF Handling
    <3>4. UNCHANGED <<pool, life, acc, clients, serving, open, socket>>
      BY <2>5 DEF RecvMessages, AnswerAtOnce, AnswerStatus, AnswerOrder, Reply, net
    <3> QED
      BY <1>1, <3>2, <3>3, <3>4 DEF TypeOK, Stays, Cleared, pool, life, acc
  <2> QED
    BY <1>7, <2>1, <2>2, <2>4, <2>5 DEF Worker, EndClient, Moves
<1>8. ASSUME NEW w \in Workers, SpuriousWake(w) PROVE Stays
  <2>1. \A v \in Workers : worker'[v] = "running" <=> worker[v] = "running"
    BY <1>1, <1>8 DEF SpuriousWake, Pool!SpuriousWake
  <2> QED
    BY <1>8, <2>1 DEF Stays, Cleared, SpuriousWake, Pool!SpuriousWake, life, acc, hand, net
<1>9. ASSUME NEW w \in Workers, Fault(w) PROVE Stays
  BY <1>1, <1>9 DEF Phases, Stays, Cleared, Fault, pool, acc, hand, net
<1> QED
  BY <1>2, <1>3, <1>4, <1>5, <1>6, <1>7, <1>8, <1>9 DEF Next

-----------------------------------------------------------------------------
(***************************************************************************)
(* Steps that move a connection.                                           *)
(***************************************************************************)

Distinct(s) == \A i, j \in DOMAIN s : s[i] = s[j] => i = j

(* push puts one more connection in the queue.                             *)
LEMMA QueueAppended ==
  ASSUME NEW S, NEW q \in Seq(S), NEW e \in S
  PROVE  /\ \A x : x \in Range(Append(q, e)) <=> x \in Range(q) \/ x = e
         /\ Distinct(q) /\ e \notin Range(q) => Distinct(Append(q, e))
<1> DEFINE more == Append(q, e)
<1>1. /\ DOMAIN more = 1 .. Len(q) + 1 /\ DOMAIN q = 1 .. Len(q) /\ Len(q) \in Nat
      /\ \A i \in 1 .. Len(q) : more[i] = q[i]
      /\ more[Len(q) + 1] = e
  BY AppendProperties, LenProperties
<1> HIDE DEF more
<1>2. \A x : x \in Range(more) <=> x \in Range(q) \/ x = e
  BY <1>1 DEF Range
<1>3. Distinct(q) /\ e \notin Range(q) => Distinct(more)
  <2> SUFFICES ASSUME Distinct(q), e \notin Range(q), NEW i \in DOMAIN more, NEW j \in DOMAIN more,
                      more[i] = more[j]
               PROVE  i = j
    BY DEF Distinct
  <2>1. \A k \in 1 .. Len(q) : more[k] # e
    BY <1>1 DEF Range
  <2>2. (i \in 1 .. Len(q) \/ i = Len(q) + 1) /\ (j \in 1 .. Len(q) \/ j = Len(q) + 1)
    BY <1>1
  <2> QED
    BY <1>1, <2>1, <2>2 DEF Distinct
<1> QED
  BY <1>2, <1>3 DEF more

(* front and pop take the first one out of it.                             *)
LEMMA QueueTaken ==
  ASSUME NEW S, NEW q \in Seq(S), q # <<>>
  PROVE  /\ Head(q) \in S
         /\ \A x : x \in Range(q) <=> x \in Range(Tail(q)) \/ x = Head(q)
         /\ Distinct(q) => Distinct(Tail(q)) /\ Head(q) \notin Range(Tail(q))
<1> DEFINE rest == Tail(q)
<1>1. /\ DOMAIN rest = 1 .. Len(q) - 1 /\ DOMAIN q = 1 .. Len(q) /\ Len(q) \in Nat /\ Len(q) > 0
      /\ \A i \in 1 .. Len(q) - 1 : rest[i] = q[i + 1] /\ i + 1 \in 1 .. Len(q) /\ i + 1 # 1
      /\ Head(q) = q[1] /\ Head(q) \in S
  BY HeadTailProperties, LenProperties, EmptySeq
<1> HIDE DEF rest
<1>2. \A k \in 1 .. Len(q) : k = 1 \/ (k - 1 \in 1 .. Len(q) - 1 /\ rest[k - 1] = q[k])
  BY <1>1
<1>3. \A x : x \in Range(q) <=> x \in Range(rest) \/ x = Head(q)
  <2>1. ASSUME NEW j \in DOMAIN rest PROVE rest[j] \in Range(q)
    <3>1. j + 1 \in DOMAIN q /\ rest[j] = q[j + 1]
      BY <1>1
    <3> QED
      BY <3>1 DEF Range
  <2>2. ASSUME NEW k \in DOMAIN q, k # 1 PROVE q[k] \in Range(rest)
    <3>1. k - 1 \in DOMAIN rest /\ rest[k - 1] = q[k]
      BY <1>1, <1>2, <2>2
    <3> QED
      BY <3>1 DEF Range
  <2>3. 1 \in DOMAIN q
    BY <1>1
  <2> QED
    BY <1>1, <2>1, <2>2, <2>3 DEF Range
<1>4. Distinct(q) => Distinct(rest) /\ Head(q) \notin Range(rest)
  <2> SUFFICES ASSUME Distinct(q) PROVE Distinct(rest) /\ Head(q) \notin Range(rest)
    OBVIOUS
  <2>1. ASSUME NEW i \in DOMAIN rest, NEW j \in DOMAIN rest, rest[i] = rest[j] PROVE i = j
    <3>1. /\ i \in Int /\ i + 1 \in DOMAIN q /\ rest[i] = q[i + 1]
          /\ j \in Int /\ j + 1 \in DOMAIN q /\ rest[j] = q[j + 1]
      BY <1>1
    <3>2. i + 1 = j + 1
      BY <2>1, <3>1 DEF Distinct
    <3> QED
      BY <3>1, <3>2
  <2>2. ASSUME NEW i \in DOMAIN rest, rest[i] = Head(q) PROVE FALSE
    <3>1. /\ i + 1 \in DOMAIN q /\ i + 1 # 1 /\ rest[i] = q[i + 1]
          /\ 1 \in DOMAIN q /\ Head(q) = q[1]
      BY <1>1
    <3> QED
      BY <2>2, <3>1 DEF Distinct
  <2> QED
    BY <2>1, <2>2 DEF Distinct, Range
<1> QED
  BY <1>1, <1>3, <1>4 DEF rest

(* Before stop() closes them, a live connection's socket is its own.       *)
LEMMA ActiveIsLive ==
  ASSUME SInv
  PROVE  /\ \A c \in Active : c \in Connections /\ Live(c)
         /\ ~Cleared => \A c, d \in Connections :
              Live(c) /\ Live(d) /\ socket[c] = socket[d] => c = d
<1>1. \A c \in Active : c \in Connections /\ Live(c)
  BY DEF Active, Live, Carried, Queued
<1> QED
  BY <1>1 DEF SInv, HasSocket

(* accept: the new connection has a socket nobody else has, and is nowhere *)
(* else.                                                                   *)
LEMMA AcceptHolds ==
  ASSUME SInv, Accept
  PROVE  Placed'
<1>1. PICK c \in Connections, h \in Handles :
        /\ socket[c] = None /\ open[h] = None /\ incoming' = c
        /\ open' = [open EXCEPT ![h] = c] /\ socket' = [socket EXCEPT ![c] = h]
  BY DEF Accept
<1>2. /\ acceptor = "accept" /\ acceptor' = "insert"
      /\ UNCHANGED <<pool, life, clients, hand>>
  BY DEF Accept
<1>3. ~Cleared /\ ~Cleared'
  BY <1>2 DEF SInv, Phases, Cleared, AcceptorJoined, life
<1>4. ~Live(c) /\ \A d : ~Carried(d)
  BY <1>1, <1>2 DEF SInv, HasSocket, Carried
<1>5. /\ \A d : Queued(d)' <=> Queued(d)
      /\ \A d : Carried(d)' <=> d = c
  BY <1>1, <1>2 DEF Queued, Carried, Range, pool
<1>6. \A d : Live(d)' <=> Live(d) \/ d = c
  BY <1>2, <1>4, <1>5 DEF Live, hand
<1>7. Active' = Active
  BY <1>2, <1>5 DEF Active, Queued, hand
<1>8. h # None /\ c # None /\ h \in DOMAIN open /\ c \in DOMAIN socket
  BY NoneAssumption DEF SInv, TypeOK
<1>9. /\ open'[h] = c /\ socket'[c] = h
      /\ \A k : k # h => open'[k] = open[k]
      /\ \A d : d # c => socket'[d] = socket[d]
  BY <1>1, <1>8 DEF SInv, TypeOK
<1>10. InTask' /\ OnePlace'
  BY <1>1, <1>2, <1>4, <1>5, <1>8 DEF SInv, InTask, OnePlace, Live, hand, pool
<1>11. GivenOnce'
  BY <1>1, <1>2, <1>5, <1>8, <1>9 DEF SInv, GivenOnce, pool, Range
<1>12. HasSocket'
  <2> SUFFICES ASSUME NEW d \in Connections, Live(d)'
               PROVE  socket'[d] # None /\ open'[socket'[d]] = d
    BY DEF HasSocket
  <2>1. CASE d = c
    BY <2>1, <1>8, <1>9
  <2>2. CASE d # c
    <3>1. socket[d] # None /\ open[socket[d]] = d /\ d # None
      BY <2>2, <1>3, <1>6, NoneAssumption DEF SInv, HasSocket
    <3> QED
      BY <3>1, <2>2, <1>1, <1>9
  <2> QED
    BY <2>1, <2>2
<1>13. ClientsListed'
  <2>1. \A d \in Active : socket'[d] = socket[d]
    BY <1>4, <1>9, ActiveIsLive
  <2> QED
    BY <2>1, <1>2, <1>3, <1>7 DEF SInv, ClientsListed
<1> QED
  BY <1>10, <1>11, <1>12, <1>13 DEF Placed

(* The new connection is listed.                                           *)
LEMMA InsertHolds ==
  ASSUME SInv, InsertClient
  PROVE  Placed'
<1> DEFINE c == incoming
           h == socket[incoming]
<1>1. /\ acceptor = "insert" /\ acceptor' = "enqueue" /\ incoming' = c
      /\ clients' = [k \in DOMAIN clients \cup {h} |-> IF k = h THEN c ELSE clients[k]]
      /\ UNCHANGED <<pool, life, hand, open, socket>>
  BY DEF InsertClient, net
<1>2. ~Cleared /\ ~Cleared'
  BY <1>1 DEF SInv, Phases, Cleared, AcceptorJoined, life
<1>3. c \in Connections /\ Carried(c) /\ Live(c)
  BY <1>1 DEF SInv, TypeOK, InTask, Carried, Live
<1>4. /\ \A d : Queued(d)' <=> Queued(d)
      /\ \A d : Carried(d)' <=> Carried(d)
  BY <1>1 DEF Queued, Carried, Range, pool
<1>5. \A d : Live(d)' <=> Live(d)
  BY <1>1, <1>4 DEF Live, hand
<1>6. c \notin Active /\ \A d : d \in Active' <=> d \in Active \/ d = c
  BY <1>1, <1>3, <1>4 DEF SInv, OnePlace, Active, Queued, hand
<1>7. InTask' /\ OnePlace' /\ GivenOnce'
  BY <1>1, <1>4 DEF SInv, InTask, OnePlace, GivenOnce, hand, pool, Range
<1>8. HasSocket'
  BY <1>1, <1>2, <1>5 DEF SInv, HasSocket
<1>9. ClientsListed'
  <2>1. \A d \in Active : socket[d] # h
    BY <1>2, <1>3, <1>6, ActiveIsLive
  <2>2. /\ \A d \in Active : socket[d] \in DOMAIN clients /\ clients[socket[d]] = d
        /\ \A k \in DOMAIN clients : clients[k] \in Active /\ socket[clients[k]] = k
    BY <1>2 DEF SInv, ClientsListed
  <2> HIDE DEF h, c
  <2>3. /\ \A d \in Active' : socket'[d] \in DOMAIN clients' /\ clients'[socket'[d]] = d
        /\ \A k \in DOMAIN clients' : clients'[k] \in Active' /\ socket'[clients'[k]] = k
    BY <1>1, <1>6, <2>1, <2>2 DEF h, c
  <2> QED
    BY <2>3 DEF ClientsListed
<1> QED
  BY <1>7, <1>8, <1>9 DEF Placed

(* The accept thread gives its connection to the pool.                     *)
LEMMA EnqueueHolds ==
  ASSUME SInv, EnqueueClient
  PROVE  Placed'
<1> DEFINE c == incoming
<1>1. /\ acceptor = "enqueue" /\ acceptor' = "notify" /\ incoming' = c
      /\ taskQueue' = Append(taskQueue, c) /\ accepted' = Append(accepted, c)
      /\ worker' = worker /\ refused' = refused
      /\ UNCHANGED <<life, clients, hand, net>>
  BY DEF EnqueueClient, Pool!Enqueue
<1>2. c \in Connections /\ Carried(c) /\ Live(c) /\ ~Queued(c)
  BY <1>1 DEF SInv, TypeOK, InTask, OnePlace, Carried, Live
<1>3. taskQueue \in Seq(Connections) /\ accepted \in Seq(Connections) /\ Distinct(taskQueue)
  BY DEF SInv, TypeOK, Pool!TypeOK, OnePlace, Distinct
<1>4. /\ \A d : Queued(d)' <=> Queued(d) \/ d = c
      /\ \A d : ~Carried(d)'
      /\ Distinct(taskQueue')
      /\ \A d : d \in Range(accepted)' <=> d \in Range(accepted) \/ d = c
  <2>1. \A d : d \in Range(Append(taskQueue, c)) <=> d \in Range(taskQueue) \/ d = c
    BY <1>2, <1>3, QueueAppended
  <2>2. Distinct(Append(taskQueue, c))
    BY <1>2, <1>3, QueueAppended DEF Queued
  <2>3. \A d : d \in Range(Append(accepted, c)) <=> d \in Range(accepted) \/ d = c
    BY <1>2, <1>3, QueueAppended
  <2>4. Range(taskQueue)' = Range(taskQueue') /\ Range(accepted)' = Range(accepted')
    BY DEF Range
  <2> QED
    BY <1>1, <2>1, <2>2, <2>3, <2>4 DEF Queued, Carried
<1>5. \A d : Live(d)' <=> Live(d)
  BY <1>1, <1>2, <1>4 DEF Live, Carried, hand
<1>6. \A d : d \in Active' <=> d \in Active
  BY <1>1, <1>2, <1>4 DEF Active, Queued, hand
<1>7. InTask' /\ OnePlace'
  BY <1>1, <1>2, <1>4 DEF SInv, InTask, OnePlace, Distinct, hand
<1>8. GivenOnce'
  BY <1>1, <1>2, <1>4 DEF SInv, GivenOnce, HasSocket, net
<1>9. HasSocket' /\ ClientsListed'
  BY <1>1, <1>5, <1>6 DEF SInv, HasSocket, ClientsListed, Cleared, life, net
<1> QED
  BY <1>7, <1>8, <1>9 DEF Placed

(* A worker takes the first connection of the queue.                       *)
LEMMA TakeHolds ==
  ASSUME SInv, NEW w \in Workers, TakeClient(w)
  PROVE  Placed'
<1> DEFINE c == Head(taskQueue)
<1>1. /\ taskQueue # <<>> /\ taskQueue' = Tail(taskQueue)
      /\ worker[w] = "awake" /\ worker' = [worker EXCEPT ![w] = "running"]
      /\ serving' = [serving EXCEPT ![w] = c] /\ step' = [step EXCEPT ![w] = "test"]
      /\ accepted' = accepted /\ refused' = refused
      /\ UNCHANGED <<life, acc, clients, net>>
  BY DEF TakeClient, Pool!Take, Goto
<1>2. /\ taskQueue \in Seq(Connections) /\ Distinct(taskQueue)
      /\ worker \in [Workers -> {"awake", "waiting", "running", "exited"}]
  BY DEF SInv, TypeOK, Pool!TypeOK, OnePlace, Distinct
<1>3. /\ c \in Connections /\ c # None /\ Distinct(taskQueue')
      /\ \A d : Queued(d) <=> Queued(d)' \/ d = c
      /\ \A d : Queued(d)' => d # c
  <2>1. /\ c \in Connections /\ Distinct(Tail(taskQueue))
        /\ \A d : d \in Range(taskQueue) <=> d \in Range(Tail(taskQueue)) \/ d = c
        /\ c \notin Range(Tail(taskQueue))
    BY <1>1, <1>2, QueueTaken
  <2> DEFINE rest == Tail(taskQueue)
  <2>2. Range(taskQueue)' = Range(rest)
    BY <1>1 DEF Range
  <2>3. taskQueue' = rest
    BY <1>1
  <2> HIDE DEF c, rest
  <2>4. /\ c \in Connections /\ Distinct(rest)
        /\ \A d : d \in Range(taskQueue) <=> d \in Range(rest) \/ d = c
        /\ c \notin Range(rest)
    BY <2>1 DEF c, rest
  <2>5. /\ \A d : Queued(d) <=> Queued(d)' \/ d = c
        /\ \A d : Queued(d)' => d # c
    BY <2>2, <2>4 DEF Queued
  <2> QED
    BY <2>3, <2>4, <2>5, NoneAssumption
<1>4. serving[w] = None /\ step[w] = "out"
  BY <1>1 DEF SInv, InTask
<1>5. /\ serving'[w] = c /\ step'[w] = "test" /\ worker'[w] = "running"
      /\ \A v \in Workers : v # w =>
           serving'[v] = serving[v] /\ step'[v] = step[v] /\ worker'[v] = worker[v]
  BY <1>1, <1>2 DEF SInv, TypeOK
<1> HIDE DEF c
<1>6. \A d : Carried(d)' <=> Carried(d)
  BY <1>1 DEF Carried, acc
<1>7. \A d \in Connections : Live(d)' <=> Live(d)
  BY <1>3, <1>4, <1>5, <1>6, NoneAssumption DEF Live
<1>8. \A d : d \in Active' <=> d \in Active
  BY <1>1, <1>3, <1>4, <1>5, NoneAssumption DEF Active, Queued, acc
<1>9. InTask'
  BY <1>1, <1>3, <1>5 DEF SInv, InTask, acc
<1>10. OnePlace'
  <2>1. \A v \in Workers : ~Queued(serving[v]) /\ serving[v] # c
    BY <1>3 DEF SInv, OnePlace
  <2>2. ASSUME NEW v \in Workers PROVE ~Queued(serving[v])'
    <3>1. serving'[v] \notin Range(taskQueue)'
      BY <1>3, <1>5, <2>1 DEF Queued
    <3> QED
      BY <3>1 DEF Queued
  <2>3. \A u, v \in Workers : serving'[u] = serving'[v] /\ serving'[u] # None => u = v
    BY <1>5, <2>1 DEF SInv, OnePlace
  <2>4. \A d \in Connections : Carried(d)' => ~Queued(d)' /\ \A v \in Workers : serving'[v] # d
    BY <1>3, <1>5, <1>6 DEF SInv, OnePlace
  <2> QED
    BY <1>3, <2>2, <2>3, <2>4 DEF OnePlace, Distinct
<1>11. GivenOnce'
  BY <1>1, <1>6 DEF SInv, GivenOnce, net, Range
<1>12. HasSocket' /\ ClientsListed'
  BY <1>1, <1>7, <1>8 DEF SInv, HasSocket, ClientsListed, Cleared, life, net
<1> QED
  BY <1>9, <1>10, <1>11, <1>12 DEF Placed

(* A worker erases its connection from the map.                            *)
LEMMA EraseHolds ==
  ASSUME SInv, NEW w \in Workers, EraseClient(w)
  PROVE  Placed'
<1> DEFINE c == serving[w]
           h == socket[serving[w]]
<1>1. /\ step[w] = "erase" /\ step' = [step EXCEPT ![w] = "close"]
      /\ clients' = [k \in DOMAIN clients \ {h} |-> clients[k]]
      /\ UNCHANGED <<pool, life, acc, serving, net>>
  BY DEF EraseClient, Erased, Goto
<1>2. /\ step'[w] = "close" /\ \A v \in Workers : v # w => step'[v] = step[v]
      /\ \A v \in Workers : step'[v] = "out" <=> step[v] = "out"
  BY <1>1 DEF SInv, TypeOK
<1>3. c \in Connections /\ c # None /\ c \in Active
  BY <1>1 DEF SInv, TypeOK, InTask, Active
<1>4. /\ \A d : Queued(d)' <=> Queued(d)
      /\ \A d : Carried(d)' <=> Carried(d)
  BY <1>1 DEF Queued, Carried, Range, pool, acc
<1>5. \A d : Live(d)' <=> Live(d)
  BY <1>1, <1>4 DEF Live
<1>6. InTask' /\ OnePlace' /\ GivenOnce'
  BY <1>1, <1>2, <1>4 DEF SInv, InTask, OnePlace, GivenOnce, pool, acc, net, Range
<1>7. HasSocket'
  BY <1>1, <1>5 DEF SInv, HasSocket, Cleared, life, net
<1>8. \A d : d \in Active' <=> d \in Active /\ d # c
  BY <1>1, <1>2, <1>3, <1>4 DEF SInv, OnePlace, Active, Queued, Carried, acc
<1>9. ClientsListed'
  <2> SUFFICES ASSUME ~Cleared'
               PROVE  /\ \A d \in Active' : socket'[d] \in DOMAIN clients' /\ clients'[socket'[d]] = d
                      /\ \A k \in DOMAIN clients' : clients'[k] \in Active' /\ socket'[clients'[k]] = k
    BY DEF ClientsListed
  <2>1. ~Cleared
    BY <1>1 DEF Cleared, life
  <2>2. \A d \in Active : d # c => socket[d] # h
    BY <1>3, <2>1, ActiveIsLive
  <2>3. /\ \A d \in Active : socket[d] \in DOMAIN clients /\ clients[socket[d]] = d
        /\ \A k \in DOMAIN clients : clients[k] \in Active /\ socket[clients[k]] = k
    BY <2>1 DEF SInv, ClientsListed
  <2>4. socket' = socket
    BY <1>1 DEF net
  <2>5. \A k \in DOMAIN clients : k # h => clients[k] # c
    BY <2>3
  <2> HIDE DEF h, c
  <2> QED
    BY <1>1, <1>8, <2>2, <2>3, <2>4, <2>5
<1> QED
  BY <1>6, <1>7, <1>9 DEF Placed

(* A worker closes its socket, its last step with the connection.          *)
LEMMA CloseHolds ==
  ASSUME SInv, NEW w \in Workers, CloseSocket(w)
  PROVE  Placed'
<1> DEFINE c == serving[w]
           h == socket[serving[w]]
<1>1. /\ step[w] = "close" /\ step' = [step EXCEPT ![w] = "out"]
      /\ open' = [open EXCEPT ![h] = None] /\ serving' = [serving EXCEPT ![w] = None]
      /\ worker' = [worker EXCEPT ![w] = "awake"]
      /\ taskQueue' = taskQueue /\ accepted' = accepted /\ refused' = refused
      /\ socket' = socket
      /\ UNCHANGED <<life, acc, clients>>
  BY DEF CloseSocket, Closed, Goto, Pool!Finish
<1>2. /\ serving'[w] = None /\ step'[w] = "out" /\ worker'[w] = "awake"
      /\ \A v \in Workers : v # w =>
           serving'[v] = serving[v] /\ step'[v] = step[v] /\ worker'[v] = worker[v]
  BY <1>1 DEF SInv, TypeOK, Pool!TypeOK
<1>3. c \in Connections /\ c # None /\ Live(c)
  BY <1>1 DEF SInv, TypeOK, InTask, Live
<1>4. /\ \A d : Queued(d)' <=> Queued(d)
      /\ \A d : Carried(d)' <=> Carried(d)
  BY <1>1 DEF Queued, Carried, Range, acc
<1>5. \A d \in Connections : Live(d)' => Live(d) /\ d # c
  BY <1>2, <1>3, <1>4, NoneAssumption DEF SInv, OnePlace, Live
<1>6. InTask' /\ GivenOnce'
  BY <1>1, <1>2, <1>4 DEF SInv, InTask, GivenOnce, acc, Range
<1>7. OnePlace'
  <2>1. None \notin Range(taskQueue)
    BY NoneAssumption, <1>1 DEF SInv, TypeOK, Pool!TypeOK, Range
  <2>2. \A v \in Workers : serving'[v] \notin Range(taskQueue')
    BY <1>1, <1>2, <2>1 DEF SInv, OnePlace, Queued
  <2>3. \A v \in Workers : ~Queued(serving[v])'
    BY <2>2 DEF Queued, Range
  <2>4. \A u, v \in Workers : serving'[u] = serving'[v] /\ serving'[u] # None => u = v
    BY <1>2 DEF SInv, OnePlace
  <2>5. \A d \in Connections : Carried(d)' => ~Queued(d)' /\ \A v \in Workers : serving'[v] # d
    BY <1>2, <1>4, NoneAssumption DEF SInv, OnePlace
  <2> QED
    BY <1>1, <2>3, <2>4, <2>5 DEF SInv, OnePlace
<1>8. HasSocket'
  <2> SUFFICES ASSUME NEW d \in Connections, Live(d)'
               PROVE  /\ socket'[d] # None
                      /\ open'[socket'[d]] = d \/ (Cleared' /\ open'[socket'[d]] = None)
    BY DEF HasSocket
  <2>1. /\ socket[d] # None /\ socket[d] \in Handles
        /\ open[socket[d]] = d \/ (Cleared /\ open[socket[d]] = None)
    BY <1>5 DEF SInv, TypeOK, HasSocket
  <2>2. Cleared' <=> Cleared
    BY <1>1 DEF Cleared, life
  <2>3. open'[socket[d]] = IF socket[d] = h THEN None ELSE open[socket[d]]
    BY <1>1, <2>1 DEF SInv, TypeOK
  <2>4. socket[d] = h => Cleared
    BY <1>3, <1>5, ActiveIsLive
  <2> QED
    BY <1>1, <2>1, <2>2, <2>3, <2>4
<1>9. ClientsListed'
  <2>1. \A d : d \in Active' <=> d \in Active
    BY <1>1, <1>2, <1>3, <1>4, NoneAssumption DEF Active, Queued, Carried, acc
  <2> QED
    BY <1>1, <2>1 DEF SInv, ClientsListed, Cleared, life
<1> QED
  BY <1>6, <1>7, <1>8, <1>9 DEF Placed

(* stop() closes every client socket, and what else is open.               *)
LEMMA CloseAllHolds ==
  ASSUME SInv, CloseClients \/ Cleanup
  PROVE  Placed'
<1>1. /\ UNCHANGED <<pool, acc, hand, socket>>
      /\ \A h \in Handles : open'[h] = open[h] \/ open'[h] = None
  BY DEF CloseClients, Cleanup, Main
<1>2. Cleared'
  BY DEF CloseClients, Cleanup, Main, Cleared
<1>3. /\ \A d : Queued(d)' <=> Queued(d)
      /\ \A d : Carried(d)' <=> Carried(d)
  BY <1>1 DEF Queued, Carried, Range, pool, acc
<1>4. \A d : Live(d)' <=> Live(d)
  BY <1>1, <1>3 DEF Live, hand
<1>5. InTask' /\ OnePlace' /\ GivenOnce'
  BY <1>1, <1>3 DEF SInv, InTask, OnePlace, GivenOnce, pool, acc, hand, Range
<1>6. HasSocket' /\ ClientsListed'
  BY <1>1, <1>2, <1>4 DEF SInv, TypeOK, HasSocket, ClientsListed
<1> QED
  BY <1>5, <1>6 DEF Placed

-----------------------------------------------------------------------------

(* Every step preserves SInv.                                              *)
LEMMA StepHolds ==
  ASSUME SInv, [Next]_serverVars
  PROVE  SInv'
<1>1. Placed'
  <2>1. CASE ~Moves
    BY <2>1, OthersStay, StaysHolds
  <2>2. CASE Moves
    BY <2>2, AcceptHolds, InsertHolds, EnqueueHolds, CloseAllHolds, TakeHolds, EraseHolds,
       CloseHolds DEF Moves
  <2> QED
    BY <2>1, <2>2
<1> QED
  BY <1>1, TypeHolds, PoolHolds, HasMessageHolds, PhasesHold DEF SInv, Placed

(* The first state satisfies SInv.                                         *)
LEMMA InitHolds ==
  ASSUME Init
  PROVE  SInv
<1>1. PoolProofs!IInv
  BY SameInit, PoolThreads, PoolProofs!InitHolds DEF Init
<1>2. taskQueue = <<>> /\ accepted = <<>> /\ refused = {} /\ worker = [w \in Workers |-> "awake"]
  BY DEF Init, Pool!Init
<1>3. TypeOK
  <2>1. <<>> \in Seq(Messages)
    BY EmptySeq
  <2>2. Pool!TypeOK
    BY <1>1, PoolTypes
  <2> QED
    BY <2>1, <2>2, NoneAssumption DEF Init, TypeOK
<1>4. \A c : ~Queued(c) /\ ~Carried(c) /\ c \notin Range(accepted)
  BY <1>2 DEF Init, Queued, Carried, Range
<1>5. \A c \in Connections : ~Live(c)
  BY <1>4, NoneAssumption DEF Live, Init
<1>6. InTask /\ HasMessage /\ OnePlace /\ GivenOnce
  BY <1>2, <1>4 DEF Init, InTask, HasMessage, Handling, OnePlace, GivenOnce
<1>7. HasSocket /\ Phases
  BY <1>5 DEF Init, HasSocket, Phases, AcceptorJoined
<1>8. ClientsListed
  BY <1>4, NoneAssumption DEF Init, ClientsListed, Active, Queued
<1> QED
  BY <1>1, <1>3, <1>6, <1>7, <1>8 DEF SInv

(* SInv holds in every reachable state of the server.                      *)
THEOREM Invariance == Spec => []SInv
<1>1. Init => SInv
  BY InitHolds
<1>2. SInv /\ [Next]_serverVars => SInv'
  BY StepHolds
<1> QED
  BY <1>1, <1>2, PTL DEF Spec

(* The state of the server and of its pool keeps its types.                *)
THEOREM TypeCorrect == Spec => []TypeOK
<1>1. SInv => TypeOK
  BY DEF SInv
<1> QED
  BY <1>1, Invariance, PTL

(* clients_ is exact until stop() clears it, however socket values are     *)
(* reused.                                                                 *)
THEOREM MapIsExact == Spec => []ClientsListed
<1>1. SInv => ClientsListed
  BY DEF SInv
<1> QED
  BY <1>1, Invariance, PTL

(* No worker ever uses another connection's socket.                        *)
THEOREM SocketsAreOwn == Spec => []OwnSocket
<1>1. ASSUME SInv PROVE OwnSocket
  <2>1. \A w \in Workers : serving[w] # None => serving[w] \in Connections /\ Live(serving[w])
    BY <1>1 DEF SInv, TypeOK, Live
  <2> QED
    BY <1>1, <2>1 DEF SInv, HasSocket, OwnSocket, Peer
<1> QED
  BY <1>1, Invariance, PTL

(* Nothing is taken in once stop() has waited for the accept thread.       *)
THEOREM IntakeEnds == Spec => StopEndsIntake
<1>1. ASSUME SInv, [Next]_serverVars, AcceptorJoined
      PROVE  Active' \subseteq Active /\ accepted' = accepted
  <2>1. acceptor \in {"none", "done"}
    BY <1>1 DEF SInv, Phases
  <2>2. CASE Stays
    BY <2>1, <2>2 DEF Stays, Active, Range
  <2>3. CASE Moves
    <3>1. CASE CloseClients \/ Cleanup
      BY <3>1 DEF CloseClients, Cleanup, Main, Active, Range, pool, acc, hand
    <3>2. ASSUME NEW w \in Workers, TakeClient(w)
          PROVE  Active' \subseteq Active /\ accepted' = accepted
      <4>1. /\ taskQueue # <<>> /\ taskQueue' = Tail(taskQueue) /\ accepted' = accepted
            /\ serving' = [serving EXCEPT ![w] = Head(taskQueue)]
            /\ acceptor' = acceptor /\ \A v \in Workers : v # w => step'[v] = step[v]
        BY <1>1, <3>2 DEF TakeClient, Pool!Take, Goto, acc, SInv, TypeOK
      <4>2. taskQueue \in Seq(Connections)
        BY <1>1 DEF SInv, TypeOK, Pool!TypeOK
      <4>3. \A x : x \in Range(taskQueue) <=> x \in Range(taskQueue)' \/ x = Head(taskQueue)
        <5>1. \A x : x \in Range(taskQueue) <=> x \in Range(Tail(taskQueue)) \/ x = Head(taskQueue)
          BY <4>1, <4>2, QueueTaken
        <5>2. Range(taskQueue)' = Range(Tail(taskQueue))
          BY <4>1 DEF Range
        <5> QED
          BY <5>1, <5>2
      <4>4. ASSUME NEW v \in Workers, v # w PROVE serving'[v] = serving[v]
        BY <4>1, <4>4, <1>1 DEF SInv, TypeOK
      <4>5. serving'[w] = Head(taskQueue)
        BY <4>1, <1>1 DEF SInv, TypeOK
      <4> QED
        BY <2>1, <4>1, <4>3, <4>4, <4>5 DEF Active
    <3>3. ASSUME NEW w \in Workers, EraseClient(w)
          PROVE  Active' \subseteq Active /\ accepted' = accepted
      BY <2>1, <1>1, <3>3 DEF EraseClient, Goto, Active, Range, SInv, TypeOK, pool, acc
    <3>4. ASSUME NEW w \in Workers, CloseSocket(w)
          PROVE  Active' \subseteq Active /\ accepted' = accepted
      BY <2>1, <1>1, <3>4, NoneAssumption
      DEF CloseSocket, Pool!Finish, Goto, Active, Range, SInv, TypeOK, acc
    <3> QED
      BY <2>1, <2>3, <3>1, <3>2, <3>3, <3>4 DEF Moves, Accept, InsertClient, EnqueueClient
  <2> QED
    BY <1>1, <2>2, <2>3, OthersStay
<1> QED
  BY <1>1, Invariance, PTL DEF Spec, StopEndsIntake

(* The server uses its pool as TaskQueue allows: every step is a step of   *)
(* the pool or leaves it alone, so that the pool's theorems hold of the    *)
(* server's.                                                               *)
THEOREM PoolKept ==
  Spec => Pool!Init /\ [][Pool!Next]_pool /\ []PoolProofs!IInv
<1>1. Init => Pool!Init
  BY DEF Init
<1>2. SInv /\ [Next]_serverVars => [Pool!Next]_pool
  BY PoolStepped
<1>3. SInv => PoolProofs!IInv
  BY DEF SInv
<1> QED
  BY <1>1, <1>2, <1>3, Invariance, PTL DEF Spec
-----------------------------------------------------------------------------
(***************************************************************************)
(* No wait is for ever.                                                    *)
(***************************************************************************)

(* The book's lock is held by the workers inside its calls, by one of them *)
(* alone if it may write.                                                  *)
LockHeld ==
  /\ writer # None => writer \in Workers /\ step[writer] \in {"writing", "spinning"} /\ readers = {}
  /\ \A w \in Workers : step[w] \in {"writing", "spinning"} => writer = w
  /\ \A w \in Workers : w \in readers <=> step[w] = "reading"

(* Only the accept thread notifies, between its two steps.                 *)
Notifies ==
  /\ \A w \in Workers : ~notifying[w]
  /\ notifying["acceptor"] <=> acceptor = "notify"

(* A connection with a socket was made by a client.                        *)
Connected == \A c \in Connections : socket[c] # None => peer[c] # "absent"

(* What is over once stop() and the destructor have gone on.               *)
Ended ==
  /\ listening => main \in {"up", "stopping", "crashed"}
  /\ destructor # "none" => main \in {"destroying", "exited", "crashed"}

GoInv == LockHeld /\ Notifies /\ Connected /\ Ended

(* A step of one worker outside the book's calls keeps the lock.           *)
LEMMA LockUntouched ==
  ASSUME TypeOK, LockHeld, NEW w \in Workers, NEW to, step' = [step EXCEPT ![w] = to],
         UNCHANGED book, step[w] \notin {"reading", "writing", "spinning"},
         to \notin {"reading", "writing", "spinning"}
  PROVE  LockHeld'
<1>1. \A v \in Workers : v # w => step'[v] = step[v]
  BY DEF TypeOK
<1>2. step'[w] = to
  BY DEF TypeOK
<1>3. writer # None => writer # w
  BY DEF LockHeld
<1>4. UNCHANGED <<writer, readers>>
  BY DEF book
<1>5. writer' # None => writer' \in Workers /\ step'[writer'] \in {"writing", "spinning"} /\ readers' = {}
  BY <1>1, <1>3, <1>4 DEF LockHeld
<1>6. ASSUME NEW v \in Workers
      PROVE  /\ step'[v] \in {"writing", "spinning"} => writer' = v
             /\ v \in readers' <=> step'[v] = "reading"
  BY <1>1, <1>2, <1>4 DEF LockHeld
<1> QED
  BY <1>5, <1>6 DEF LockHeld

(* Every step keeps the lock with the workers inside the book's calls.     *)
LEMMA LockHolds ==
  ASSUME SInv, LockHeld, [Next]_serverVars
  PROVE  LockHeld'
<1>1. TypeOK /\ InTask /\ worker \in [Workers -> {"awake", "waiting", "running", "exited"}]
  BY DEF SInv, TypeOK, Pool!TypeOK
<1>2. CASE UNCHANGED <<book, step>>
  BY <1>2 DEF LockHeld, book
<1>3. CASE UNCHANGED serverVars
  BY <1>2, <1>3 DEF serverVars, hand
<1>4. CASE Acceptor \/ AcceptError \/ Start \/ BeginStop \/ Teardown
  BY <1>2, <1>4 DEF Acceptor, AcceptTest, Accept, AcceptError, AcceptFails, InsertClient, EnqueueClient,
     NotifyWorker, Start, BeginStop, Teardown, CloseListener, JoinAcceptor, CloseClients, Cleanup,
     DestroyMembers, Main, DestroyPool, hand
<1>5. ASSUME NEW c \in Connections, Client(c) PROVE LockHeld'
  BY <1>2, <1>5 DEF Client, Connect, Leave, Send, hand
<1>6. ASSUME NEW w \in Workers, Worker(w) PROVE LockHeld'
  <2>1. CASE TakeClient(w)
    <3>1. step[w] = "out" /\ step' = [step EXCEPT ![w] = "test"] /\ UNCHANGED book
      BY <1>1, <2>1 DEF TakeClient, Pool!Take, Goto, InTask
    <3> QED
      BY <1>1, <3>1, LockUntouched
  <2>2. CASE PoolStep(w)
    BY <1>2, <2>2 DEF PoolStep, hand
  <2>3. CASE TestRunning(w) \/ RecvMessages(w) \/ RecvNothing(w) \/ RecvEnd(w)
    <3>1. PICK to : /\ step' = [step EXCEPT ![w] = to]
                    /\ to \in Requests \cup {"recv", "erase", "test"}
      BY <2>3, Received DEF TestRunning, RecvNothing, RecvEnd, Proceed, Goto, GoesOn
    <3>2. to \notin {"reading", "writing", "spinning"}
      BY <3>1, RequestsAssumption
    <3>3. step[w] \in {"test", "recv"} /\ UNCHANGED book
      BY <2>3 DEF TestRunning, RecvMessages, RecvNothing, RecvEnd, Proceed
    <3> QED
      BY <1>1, <3>1, <3>2, <3>3, LockUntouched
  <2>4. CASE AnswerAtOnce(w)
    <3>1. step[w] \in {"echo", "users"} /\ UNCHANGED book
      BY <2>4 DEF AnswerAtOnce
    <3>2. PICK to \in Requests \cup {"test"} : step' = [step EXCEPT ![w] = to]
      BY <2>4, Answered DEF GoesOn
    <3>3. to \notin {"reading", "writing", "spinning"}
      BY <3>2, RequestsAssumption
    <3> QED
      BY <1>1, <3>1, <3>2, <3>3, LockUntouched
  <2>5. CASE LockShared(w)
    BY <1>1, <2>5 DEF LockShared, Proceed, Goto, LockHeld, TypeOK
  <2>6. CASE AnswerStatus(w)
    <3>1. PICK to \in Requests \cup {"test"} : step' = [step EXCEPT ![w] = to]
      BY <2>6, Answered DEF GoesOn
    <3>2. to \notin {"reading", "writing", "spinning"}
      BY <3>1, RequestsAssumption
    <3> QED
      BY <1>1, <2>6, <3>1, <3>2 DEF AnswerStatus, LockHeld, TypeOK
  <2>7. CASE LockExclusive(w)
    BY <1>1, <2>7, NoneAssumption DEF LockExclusive, Proceed, Goto, LockHeld, TypeOK
  <2>8. CASE AnswerOrder(w)
    <3>1. PICK to \in Requests \cup {"test"} : step' = [step EXCEPT ![w] = to]
      BY <2>8, Answered DEF GoesOn
    <3>2. to \notin {"reading", "writing", "spinning"}
      BY <3>1, RequestsAssumption
    <3> QED
      BY <1>1, <2>8, <3>1, <3>2 DEF AnswerOrder, LockHeld, TypeOK
  <2>9. CASE LoopForever(w)
    BY <1>1, <2>9 DEF LoopForever, Proceed, Goto, LockHeld, TypeOK, book
  <2>10. CASE Spin(w)
    BY <1>3, <2>10 DEF Spin
  <2>11. CASE EraseClient(w)
    <3>1. step[w] = "erase" /\ step' = [step EXCEPT ![w] = "close"] /\ UNCHANGED book
      BY <2>11 DEF EraseClient, Goto
    <3> QED
      BY <1>1, <3>1, LockUntouched
  <2>12. CASE CloseSocket(w)
    <3>1. step[w] = "close" /\ step' = [step EXCEPT ![w] = "out"] /\ UNCHANGED book
      BY <2>12 DEF CloseSocket, Goto
    <3> QED
      BY <1>1, <3>1, LockUntouched
  <2> QED
    BY <1>6, <2>1, <2>2, <2>3, <2>4, <2>5, <2>6, <2>7, <2>8, <2>9, <2>10, <2>11, <2>12
    DEF Worker, EndClient
<1>7. ASSUME NEW w \in Workers, SpuriousWake(w) \/ Fault(w) PROVE LockHeld'
  BY <1>2, <1>7 DEF SpuriousWake, Fault, hand
<1> QED
  BY <1>3, <1>4, <1>5, <1>6, <1>7 DEF Next

(* Only the accept thread's two steps change who notifies.                 *)
LEMMA NotifiesHolds ==
  ASSUME SInv, Notifies, [Next]_serverVars
  PROVE  Notifies'
<1>1. notifying \in [Workers \cup {"acceptor"} -> BOOLEAN]
  BY DEF SInv, TypeOK, Pool!TypeOK, Pool!Threads
<1>2. CASE UNCHANGED <<notifying, acceptor>>
  BY <1>2 DEF Notifies
<1>3. CASE UNCHANGED serverVars
  BY <1>2, <1>3 DEF serverVars, pool, acc
<1>4. CASE Acceptor \/ AcceptError
  <2>1. CASE AcceptTest \/ Accept \/ AcceptError \/ AcceptFails \/ InsertClient
    BY <2>1 DEF Notifies, AcceptTest, Accept, AcceptError, AcceptFails, InsertClient, pool
  <2>2. CASE EnqueueClient
    BY <1>1, <2>2, WorkersAssumption DEF Notifies, EnqueueClient, Pool!Enqueue
  <2>3. CASE NotifyWorker
    BY <1>1, <2>3, WorkersAssumption DEF Notifies, NotifyWorker, Pool!NotifyOne
  <2> QED
    BY <1>4, <2>1, <2>2, <2>3 DEF Acceptor
<1>5. CASE Start
  BY <1>5 DEF SInv, Phases, Notifies, Start, pool
<1>6. CASE BeginStop \/ Teardown
  BY <1>2, <1>6 DEF BeginStop, Teardown, CloseListener, JoinAcceptor, CloseClients, Cleanup,
     DestroyMembers, Main, DestroyPool, Pool!Shutdown, Pool!NotifyAll, Pool!Join, pool, acc
<1>7. ASSUME NEW c \in Connections, Client(c) PROVE Notifies'
  BY <1>2, <1>7 DEF Client, Connect, Leave, Send, pool, acc
<1>8. ASSUME NEW w \in Workers, Worker(w) PROVE Notifies'
  <2>1. UNCHANGED <<notifying, acceptor>>
    BY <1>8 DEF Worker, TakeClient, PoolStep, TestRunning, RecvMessages, RecvNothing, RecvEnd,
       AnswerAtOnce, LockShared, AnswerStatus, LockExclusive, AnswerOrder, LoopForever, Spin,
       EndClient, EraseClient, CloseSocket, Proceed, serverVars, pool, acc,
       Pool!Take, Pool!Wait, Pool!Exit, Pool!Finish
  <2> QED
    BY <1>2, <2>1
<1>9. ASSUME NEW w \in Workers, SpuriousWake(w) \/ Fault(w) PROVE Notifies'
  BY <1>2, <1>9 DEF SpuriousWake, Pool!SpuriousWake, Fault, pool, acc
<1> QED
  BY <1>3, <1>4, <1>5, <1>6, <1>7, <1>8, <1>9 DEF Next

(* Every step keeps a socket with a connection that was made.              *)
LEMMA ConnectedHolds ==
  ASSUME SInv, Connected, [Next]_serverVars
  PROVE  Connected'
<1>1. TypeOK
  BY DEF SInv
<1>2. CASE UNCHANGED <<socket, peer>>
  BY <1>2 DEF Connected
<1>3. CASE UNCHANGED serverVars
  BY <1>2, <1>3 DEF serverVars, net
<1>4. CASE Acceptor \/ AcceptError
  <2>1. CASE Accept
    BY <1>1, <2>1 DEF Accept, Connected, TypeOK
  <2>2. CASE AcceptTest \/ AcceptError \/ AcceptFails \/ InsertClient \/ EnqueueClient \/ NotifyWorker
    BY <1>2, <2>2 DEF AcceptTest, AcceptError, AcceptFails, InsertClient, EnqueueClient, NotifyWorker, net
  <2> QED
    BY <1>4, <2>1, <2>2 DEF Acceptor
<1>5. CASE Start \/ BeginStop \/ Teardown
  BY <1>2, <1>5 DEF Start, BeginStop, Teardown, CloseListener, JoinAcceptor, CloseClients, Cleanup,
     DestroyMembers, Main, DestroyPool, net
<1>6. ASSUME NEW c \in Connections, Client(c) PROVE Connected'
  BY <1>1, <1>6 DEF Client, Connect, Leave, Send, Connected, TypeOK
<1>7. ASSUME NEW w \in Workers, Worker(w) PROVE Connected'
  <2>1. UNCHANGED <<socket, peer>>
    BY <1>7 DEF Worker, TakeClient, PoolStep, TestRunning, RecvMessages, RecvNothing, RecvEnd,
       AnswerAtOnce, LockShared, AnswerStatus, LockExclusive, AnswerOrder, LoopForever, Spin,
       EndClient, EraseClient, CloseSocket, Proceed, Reply, serverVars, net
  <2> QED
    BY <1>2, <2>1
<1>8. ASSUME NEW w \in Workers, SpuriousWake(w) \/ Fault(w) PROVE Connected'
  BY <1>2, <1>8 DEF SpuriousWake, Fault, net
<1> QED
  BY <1>3, <1>4, <1>5, <1>6, <1>7, <1>8 DEF Next

(* What is over stays over.                                                *)
LEMMA EndedHolds ==
  ASSUME SInv, Ended, [Next]_serverVars
  PROVE  Ended'
<1>1. CASE UNCHANGED <<listening, main, destructor>>
  BY <1>1 DEF Ended
<1>2. CASE UNCHANGED serverVars
  BY <1>1, <1>2 DEF serverVars, pool, life
<1>3. CASE Acceptor \/ AcceptError
  BY <1>1, <1>3 DEF Acceptor, AcceptTest, Accept, AcceptError, AcceptFails, InsertClient, EnqueueClient,
     NotifyWorker, Pool!Enqueue, Pool!NotifyOne, pool, life
<1>4. CASE Start \/ BeginStop
  BY <1>4 DEF Ended, Start, BeginStop, pool
<1>5. CASE Teardown
  BY <1>5 DEF Ended, Teardown, CloseListener, JoinAcceptor, CloseClients, Cleanup, DestroyMembers,
     Main, DestroyPool, Pool!Shutdown, Pool!NotifyAll, Pool!Join, pool
<1>6. ASSUME NEW c \in Connections, Client(c) PROVE Ended'
  BY <1>1, <1>6 DEF Client, Connect, Leave, Send, pool, life
<1>7. ASSUME NEW w \in Workers, Worker(w) PROVE Ended'
  <2>1. UNCHANGED <<listening, main, destructor>>
    BY <1>7 DEF Worker, TakeClient, PoolStep, TestRunning, RecvMessages, RecvNothing, RecvEnd,
       AnswerAtOnce, LockShared, AnswerStatus, LockExclusive, AnswerOrder, LoopForever, Spin,
       EndClient, EraseClient, CloseSocket, Proceed, serverVars, pool, life,
       Pool!Take, Pool!Wait, Pool!Exit, Pool!Finish
  <2> QED
    BY <1>1, <2>1
<1>8. ASSUME NEW w \in Workers, SpuriousWake(w) PROVE Ended'
  BY <1>1, <1>8 DEF SpuriousWake, Pool!SpuriousWake, life
<1>9. ASSUME NEW w \in Workers, Fault(w) PROVE Ended'
  BY <1>9 DEF Ended, Fault, pool
<1> QED
  BY <1>2, <1>3, <1>4, <1>5, <1>6, <1>7, <1>8, <1>9 DEF Next

(* A worker inside the book's calls, or the test of a lock it may have,    *)
(* keeps nobody waiting for ever.                                          *)
LEMMA WorkersAreFree ==
  ASSUME SInv, GoInv
  PROVE  WorkersGoOn
<1> SUFFICES ASSUME NEW w \in Workers
             PROVE  \/ CanGoOn(w)
                    \/ worker[w] = "exited"
                    \/ /\ worker[w] = "waiting"
                       /\ \/ taskQueue = <<>> \/ notifying["acceptor"]
                          \/ \E v \in Workers : worker[v] \in {"awake", "running"}
                    \/ /\ step[w] \in {"status", "order"}
                       /\ \E v \in Workers \ {w} : (v = writer \/ v \in readers) /\ CanGoOn(v)
  BY DEF WorkersGoOn
<1>1. /\ TypeOK /\ InTask /\ PoolProofs!IInv
      /\ worker \in [Workers -> {"awake", "waiting", "running", "exited"}]
  BY DEF SInv, TypeOK, Pool!TypeOK
<1>2. CASE step[w] = "out"
  <2>1. worker[w] # "running"
    BY <1>1, <1>2 DEF InTask
  <2>2. CASE worker[w] = "waiting"
    <3>1. CASE \E v \in Workers : worker[v] \in {"awake", "running"}
      BY <2>2, <3>1
    <3>2. CASE taskQueue = <<>>
      BY <2>2, <3>2
    <3>3. CASE taskQueue # <<>> /\ \A v \in Workers : worker[v] \notin {"awake", "running"}
      <4>1. \A v \in Workers : worker[v] # "exited"
        BY <1>1, <3>3 DEF PoolProofs!IInv, PoolProofs!Teardown
      <4>2. PoolProofs!Waiting = Workers
        BY <1>1, <3>3, <4>1 DEF PoolProofs!Waiting
      <4>3. \E t \in Workers \cup {"acceptor"} : notifying[t]
        BY <1>1, <3>3, <4>2 DEF PoolProofs!IInv, PoolProofs!NoLostWakeup, PoolProofs!Threads
      <4>4. notifying["acceptor"]
        BY <4>3 DEF GoInv, Notifies
      <4> QED
        BY <2>2, <4>4
    <3> QED
      BY <3>1, <3>2, <3>3
  <2> QED
    BY <1>1, <1>2, <2>1, <2>2 DEF CanGoOn
<1>3. CASE step[w] = "recv"
  <2>1. CASE Peer(w) # None
    <3>1. serving[w] \in Connections /\ Live(serving[w])
      BY <1>1, <1>3 DEF TypeOK, InTask, Live
    <3>2. socket[serving[w]] # None /\ (Peer(w) = serving[w])
      BY <2>1, <3>1 DEF SInv, HasSocket, Peer
    <3>3. peer[Peer(w)] \in {"open", "left"}
      BY <1>1, <3>1, <3>2 DEF TypeOK, GoInv, Connected
    <3> QED
      BY <1>3, <3>3 DEF CanGoOn
  <2> QED
    BY <1>3, <2>1 DEF CanGoOn
<1>4. CASE step[w] \in {"status", "order"}
  <2>1. CASE writer # None
    BY <1>4, <2>1 DEF GoInv, LockHeld, CanGoOn
  <2>2. CASE writer = None /\ readers # {}
    <3>1. PICK v \in readers : TRUE
      BY <2>2
    <3>2. v \in Workers /\ step[v] = "reading"
      BY <1>1, <3>1 DEF TypeOK, GoInv, LockHeld
    <3> QED
      BY <1>4, <3>1, <3>2 DEF CanGoOn
  <2> QED
    BY <1>4, <2>1, <2>2 DEF CanGoOn
<1>5. CASE step[w] = "close"
  BY <1>5 DEF CanGoOn, GoInv, Notifies
<1>6. step[w] \in {"echo", "users", "status", "order", "out", "test", "recv", "reading",
                   "writing", "spinning", "erase", "close"}
  BY <1>1, RequestsAssumption DEF TypeOK
<1> QED
  BY <1>2, <1>3, <1>4, <1>5, <1>6 DEF CanGoOn

(* Every wait of the server is for a thread that can go on: workers for    *)
(* the book's lock, stop() for the accept thread, the destructor for the   *)
(* workers.                                                                *)
THEOREM NobodyDeadlocks == Spec => []NeverDeadlocked
<1>1. Init => GoInv
  <2> SUFFICES ASSUME Init PROVE GoInv
    OBVIOUS
  <2>1. notifying = [t \in Workers \cup {"acceptor"} |-> FALSE] /\ destructor = "none"
    BY DEF Init, Pool!Init, Pool!Threads
  <2> QED
    BY <2>1 DEF Init, GoInv, LockHeld, Notifies, Connected, Ended
<1>2. SInv /\ GoInv /\ [Next]_serverVars => GoInv'
  BY LockHolds, NotifiesHolds, ConnectedHolds, EndedHolds DEF GoInv
<1>3. ASSUME SInv, GoInv PROVE NeverDeadlocked
  <2>1. StopGoesOn
    <3>1. main = "deaf" => acceptor \in {"none", "done"} \/ AcceptorCanGoOn
      BY <1>3 DEF SInv, TypeOK, GoInv, Notifies, Ended, AcceptorCanGoOn
    <3>2. main = "destroying" /\ destructor = "none" => ~notifying["acceptor"]
      BY <1>3 DEF SInv, Phases, AcceptorJoined, GoInv, Notifies
    <3>3. destructor = "joining" => \A w \in Workers : worker[w] # "waiting"
      BY <1>3 DEF SInv, PoolProofs!IInv, PoolProofs!NoLostWakeup, PoolProofs!Waiting
    <3> QED
      BY <3>1, <3>2, <3>3 DEF StopGoesOn
  <2> QED
    BY <1>3, <2>1, WorkersAreFree DEF NeverDeadlocked
<1> QED
  BY <1>1, <1>2, <1>3, Invariance, PTL DEF Spec
=============================================================================

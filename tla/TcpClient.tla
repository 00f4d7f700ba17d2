----------------------------- MODULE TcpClient -----------------------------
(***************************************************************************)
(* class TcpClient (Orderbook Client/client.cpp) and the commands of its   *)
(* main: connecting, disconnecting, sending orders and quitting, with the  *)
(* receiver thread that runs while connected and may end by itself when    *)
(* the server goes away.                                                   *)
(*                                                                         *)
(* What the requests and answers say is left out, except for the order ids *)
(* the client counts (Exchange has them).  What the receiver gets is a     *)
(* MessageStream, a new one for every connection.  Assigning to, or        *)
(* destroying, a std::thread that is still joinable calls std::terminate.  *)
(***************************************************************************)
EXTENDS MessageStream

CONSTANT MaxOrders  (* the add requests one client makes                   *)

ASSUME MaxOrdersAssumption == MaxOrders \in Nat

VARIABLES
  connected,    (* connected_                                              *)
  running,      (* running_                                                *)
  receiver,     (* receiverThread_: "none" (not joinable), "test", "recv", *)
                (* "scan" the buffer, "mark", "spinning" on a message of   *)
                (* no length, or "ended" and not joined                    *)
  main,         (* the main thread: "prompt", in connect "connecting" or   *)
                (* "starting", in disconnect "joining" or "closing", in an *)
                (* order "sending", in another request "asking", after the *)
                (* quit request "quitting", "leaving" main; at the end     *)
                (* "exited" or "terminated"                                *)
  quitting,     (* the quit command is being carried out                   *)
  sockets,      (* how many sockets are open; serverSocket_ is the last    *)
  winsock,      (* WSAStartup calls not undone by WSACleanup               *)
  link,         (* serverSocket_'s connection: "none", "up", "down"        *)
  nextOrderId,  (* nextOrderId_                                            *)
  sent          (* history: the order ids of the add requests sent         *)

vars == <<connected, running, receiver, main, quitting, sockets, winsock,
          link, nextOrderId, sent, streamVars>>

-----------------------------------------------------------------------------

Init ==
  /\ connected = FALSE
  /\ running = FALSE
  /\ receiver = "none"
  /\ main = "prompt"
  /\ quitting = FALSE
  /\ sockets = 0
  /\ winsock = 0
  /\ link = "none"
  /\ nextOrderId = 1
  /\ sent = <<>>
  /\ StreamInit

(* The first part of connect: WSAStartup and a new socket.                 *)
Connect ==
  /\ main = "prompt"
  /\ ~connected
  /\ winsock' = winsock + 1
  /\ sockets' = sockets + 1
  /\ link' = "none"
  /\ main' = "connecting"
  /\ UNCHANGED <<connected, running, receiver, quitting, nextOrderId, sent, streamVars>>

(* No such host, no server, or no non-blocking mode.                       *)
ConnectFails ==
  /\ main = "connecting"
  /\ sockets' = sockets - 1
  /\ winsock' = winsock - 1
  /\ main' = "prompt"
  /\ UNCHANGED <<connected, running, receiver, quitting, link, nextOrderId, sent, streamVars>>

ConnectSucceeds ==
  /\ main = "connecting"
  /\ link' = "up"
  /\ main' = "starting"
  /\ messages' = <<>> /\ received' = 0 /\ consumed' = 0 /\ handled' = {}
  /\ UNCHANGED <<connected, running, receiver, quitting, sockets, winsock,
                 nextOrderId, sent>>

(* Mutant of StartReceiver: the ids start again.                           *)
StartReceiverAfresh ==
  /\ main = "starting"
  /\ connected' = TRUE
  /\ running' = TRUE
  /\ nextOrderId' = 1
  /\ IF receiver = "none"
     THEN receiver' = "test" /\ main' = "prompt"
     ELSE main' = "terminated" /\ UNCHANGED receiver
  /\ UNCHANGED <<quitting, sockets, winsock, link, sent, streamVars>>

(* The flags, then the assignment to receiverThread_.                      *)
StartReceiver ==
  /\ main = "starting"
  /\ connected' = TRUE
  /\ running' = TRUE
  /\ IF receiver = "none"
     THEN receiver' = "test" /\ main' = "prompt"
     ELSE main' = "terminated" /\ UNCHANGED receiver
  /\ UNCHANGED <<quitting, sockets, winsock, link, nextOrderId, sent, streamVars>>

-----------------------------------------------------------------------------
(***************************************************************************)
(* disconnect, from the command or from quit, and the end of main.         *)
(***************************************************************************)

(* Mutant of Disconnect: the early return is missing.                      *)
DisconnectAlways ==
  /\ main \in {"prompt", "quitting"}
  /\ running' = FALSE
  /\ main' = "joining"
  /\ UNCHANGED <<connected, receiver, quitting, sockets, winsock, link,
                 nextOrderId, sent, streamVars>>

Disconnect ==
  /\ main \in {"prompt", "quitting"}
  /\ connected
  /\ running' = FALSE
  /\ main' = "joining"
  /\ UNCHANGED <<connected, receiver, quitting, sockets, winsock, link,
                 nextOrderId, sent, streamVars>>

JoinReceiver ==
  /\ main = "joining"
  /\ receiver \in {"none", "ended"}
  /\ receiver' = "none"
  /\ main' = "closing"
  /\ UNCHANGED <<connected, running, quitting, sockets, winsock, link,
                 nextOrderId, sent, streamVars>>

AfterDisconnect == main' = IF quitting THEN "leaving" ELSE "prompt"

(* Mutant of CloseSocket: no WSACleanup.                                   *)
CloseSocketOnly ==
  /\ main = "closing"
  /\ sockets' = sockets - 1
  /\ link' = "none"
  /\ connected' = FALSE
  /\ AfterDisconnect
  /\ UNCHANGED <<running, receiver, quitting, winsock, nextOrderId, sent, streamVars>>

CloseSocket ==
  /\ main = "closing"
  /\ sockets' = sockets - 1
  /\ winsock' = winsock - 1
  /\ link' = "none"
  /\ connected' = FALSE
  /\ AfterDisconnect
  /\ UNCHANGED <<running, receiver, quitting, nextOrderId, sent, streamVars>>

(* quit when isConnected() says no, or disconnect() does after the quit    *)
(* request.                                                                *)
QuitUnconnected ==
  /\ main \in {"prompt", "quitting"}
  /\ ~connected
  /\ quitting' = TRUE
  /\ main' = "leaving"
  /\ UNCHANGED <<connected, running, receiver, sockets, winsock, link,
                 nextOrderId, sent, streamVars>>

(* ~TcpClient: its disconnect returns at once, being unconnected, and the  *)
(* thread member is destroyed.                                             *)
Destroy ==
  /\ main = "leaving"
  /\ ~connected
  /\ main' = IF receiver = "none" THEN "exited" ELSE "terminated"
  /\ UNCHANGED <<connected, running, receiver, quitting, sockets, winsock,
                 link, nextOrderId, sent, streamVars>>

-----------------------------------------------------------------------------
(***************************************************************************)
(* The requests: the connection may end between the test of connected_ and *)
(* the send.                                                               *)
(***************************************************************************)

AddOrder ==
  /\ main = "prompt"
  /\ connected
  /\ nextOrderId <= MaxOrders
  /\ nextOrderId' = nextOrderId + 1
  /\ main' = "sending"
  /\ UNCHANGED <<connected, running, receiver, quitting, sockets, winsock,
                 link, sent, streamVars>>

SendOrder ==
  /\ main = "sending"
  /\ sent' = IF link = "up" THEN Append(sent, nextOrderId - 1) ELSE sent
  /\ main' = "prompt"
  /\ UNCHANGED <<connected, running, receiver, quitting, sockets, winsock,
                 link, nextOrderId, streamVars>>

(* Every other request, the first step of a connected quit included.       *)
Request ==
  /\ main = "prompt"
  /\ connected
  /\ quitting' \in BOOLEAN
  /\ main' = "asking"
  /\ UNCHANGED <<connected, running, receiver, sockets, winsock, link,
                 nextOrderId, sent, streamVars>>

SendRequest ==
  /\ main = "asking"
  /\ main' = IF quitting THEN "quitting" ELSE "prompt"
  /\ UNCHANGED <<connected, running, receiver, quitting, sockets, winsock,
                 link, nextOrderId, sent, streamVars>>

-----------------------------------------------------------------------------
(***************************************************************************)
(* receiverFunction.                                                       *)
(***************************************************************************)

Receiver(from, to) ==
  /\ receiver = from
  /\ receiver' = to
  /\ UNCHANGED <<running, main, quitting, sockets, winsock, link,
                 nextOrderId, sent>>

(* Mutant of TestRunning: while (true).                                    *)
TestNothing == Receiver("test", "recv") /\ UNCHANGED <<connected, streamVars>>

TestRunning ==
  /\ Receiver("test", IF running THEN "recv" ELSE "mark")
  /\ UNCHANGED <<connected, streamVars>>

(* Data; what came before the end of the connection may still be there.    *)
Recv == link # "none" /\ Receiver("recv", "scan") /\ RecvBytes /\ UNCHANGED connected

RecvNothing ==
  /\ link = "up"
  /\ Receiver("recv", "test")
  /\ RecvBlocks
  /\ UNCHANGED connected

(* The server has closed the connection, or it broke, and what was under   *)
(* way is lost.                                                            *)
RecvEnd ==
  /\ link = "down"
  /\ Receiver("recv", "mark")
  /\ UNCHANGED <<connected, streamVars>>

(* processMessageBuffer.                                                   *)
Scan ==
  /\ \/ Receiver("scan", "scan") /\ ProcessMessage
     \/ Receiver("scan", "spinning") /\ ProcessForever
     \/ Receiver("scan", "test") /\ Incomplete
  /\ UNCHANGED connected

(* The message of no length, again.                                        *)
Spin == Receiver("spinning", "spinning") /\ UNCHANGED <<connected, streamVars>>

(* Mutants of MarkDisconnected: the receiver closes the socket itself; the *)
(* flag stays.                                                             *)
MarkAndClose ==
  /\ receiver = "mark"
  /\ receiver' = "ended"
  /\ connected' = FALSE
  /\ sockets' = sockets - 1
  /\ UNCHANGED <<running, main, quitting, winsock, link, nextOrderId, sent, streamVars>>

MarkNothing == Receiver("mark", "ended") /\ UNCHANGED <<connected, streamVars>>

MarkDisconnected ==
  /\ Receiver("mark", "ended")
  /\ connected' = FALSE
  /\ UNCHANGED streamVars

ReceiverThread ==
  TestRunning \/ Recv \/ RecvNothing \/ RecvEnd \/ Scan \/ Spin \/ MarkDisconnected

(* The server sends an answer, a part of one, or one with bytes behind it. *)
ServerSends ==
  /\ link = "up"
  /\ SendMessage
  /\ UNCHANGED <<connected, running, receiver, main, quitting, sockets,
                 winsock, link, nextOrderId, sent>>

(* The server goes away, or the network does.                              *)
LoseLink ==
  /\ link = "up"
  /\ link' = "down"
  /\ UNCHANGED <<connected, running, receiver, main, quitting, sockets,
                 winsock, nextOrderId, sent, streamVars>>

-----------------------------------------------------------------------------

Gone == main \in {"exited", "terminated"}

(* The rest of a command that has begun.                                   *)
MainThread ==
  \/ ConnectFails \/ ConnectSucceeds \/ StartReceiver
  \/ JoinReceiver \/ CloseSocket \/ SendOrder \/ SendRequest \/ Destroy
  \/ main = "quitting" /\ (Disconnect \/ QuitUnconnected)

Next ==
  \/ ~Gone /\ (Connect \/ Disconnect \/ QuitUnconnected \/ AddOrder \/ Request)
  \/ ~Gone /\ MainThread
  \/ ~Gone /\ (ReceiverThread \/ ServerSends \/ LoseLink)
  \/ Gone /\ UNCHANGED vars

(* Both threads keep running; no command has to be given.                  *)
Spec ==
  /\ Init
  /\ [][Next]_vars
  /\ WF_vars(~Gone /\ ReceiverThread)
  /\ WF_vars(~Gone /\ MainThread)

-----------------------------------------------------------------------------
(***************************************************************************)
(* Properties.                                                             *)
(***************************************************************************)

(* Type invariant of the client.                                           *)
TypeOK ==
  /\ connected \in BOOLEAN /\ running \in BOOLEAN /\ quitting \in BOOLEAN
  /\ receiver \in {"none", "test", "recv", "scan", "mark", "spinning", "ended"}
  /\ main \in {"prompt", "connecting", "starting", "joining", "closing",
               "sending", "asking", "quitting", "leaving", "exited", "terminated"}
  /\ sockets \in Nat
  /\ winsock \in Nat
  /\ link \in {"none", "up", "down"}
  /\ nextOrderId \in 1 .. MaxOrders + 1
  /\ sent \in Seq(Nat)
  /\ StreamTypeOK

(* While the client counts as connected, or is in the middle of a request, *)
(* its one socket is open: a request is never sent on a closed one,        *)
(* whatever the receiver does between the test of connected_ and the send. *)
RequestsHaveSocket ==
  (main \in {"prompt", "quitting"} /\ connected) \/ main \in {"sending", "asking"} =>
    sockets = 1 /\ link # "none"

(* At the prompt an unconnected client has released everything its last    *)
(* connection held, or nothing of it: the socket, the thread and Winsock,  *)
(* when the receiver ended by itself.  disconnect, failing connects and    *)
(* the receiver's own end never leave anything in between, whichever of    *)
(* the two threads notices the end first; and only a client in the second  *)
(* situation can come to std::terminate.                                   *)
Released == receiver = "none" /\ sockets = 0 /\ winsock = 0
Held     == receiver = "ended" /\ sockets = 1 /\ winsock = 1

ReleasedTogether ==
  /\ main \in {"prompt", "leaving"} /\ ~connected => Released \/ Held
  /\ main = "exited" => Released
  /\ main = "terminated" => receiver = "ended"

(* One client never sends two orders with one id, reconnects included: the *)
(* server's book takes the ids as they come (server.cpp:362).              *)
IdsIncrease == \A i, j \in DOMAIN sent : i < j => sent[i] < sent[j]

(* The receiver handles a message of no length for ever, and it can only   *)
(* read one where the server's sends have spoilt the stream.               *)
Stuck == receiver = "spinning" /\ \E k \in DOMAIN messages : ~Exact(k)

(* A client notices that the server is gone, unless its receiver is stuck  *)
(* in a spoilt stream.                                                     *)
LossIsNoticed == link = "down" ~> (~connected \/ Gone \/ Stuck)

(* disconnect returns: the receiver it joins does end, or is stuck in a    *)
(* spoilt stream.  On a stream of whole messages it always returns.        *)
DisconnectReturns == main = "joining" ~> (main \in {"prompt", "leaving"} \/ Stuck)

(* The client takes out of the stream the messages that the server put     *)
(* into it, on every connection anew; a send that was cut short, or that   *)
(* put bytes behind its message, spoils only what comes after it.          *)
AnswersIntact == MessagesIntact

(* A message all of which was sent, after others of which just that was,   *)
(* is handled while the connection is neither lost nor given up.           *)
AnswersHandled ==
  \A k \in 1 .. MaxMessages :
    Len(messages) >= k /\ Whole(k) ~>
      \/ Len(messages) >= k /\ Handled(k)
      \/ link # "up" \/ ~running \/ main = "terminated"

(* client.cpp:511, "quit - Exit application": the program comes to an end  *)
(* by returning from main, and not in std::terminate.                      *)
ExitsNormally == main # "terminated"
=============================================================================

--------------------------- MODULE MessageStream ---------------------------
(***************************************************************************)
(* The bytes of one connection, from the sends at one end to the messages  *)
(* the receiver at the other end takes out of its buffer                   *)
(* (processMessageBuffer, the same in server.cpp and client.cpp).          *)
(*                                                                         *)
(* A byte is its place in the stream: the buffer holds the places from     *)
(* consumed + 1 to received.  Where a message starts, its header gives its *)
(* length; a header read anywhere else gives some length in Misread.  The  *)
(* sockets do not block, and the result of send is not looked at: a        *)
(* message can be cut short, and the next one follows at once.  And the    *)
(* list of users is sent with its length in network order: behind the      *)
(* message go the zeros of the rest of its buffer, then other bytes.       *)
(***************************************************************************)
EXTENDS Integers, Sequences

CONSTANTS
  HeaderSize,   (* sizeof(MessageHeader)                                   *)
  Lengths,      (* the lengths of the messages                             *)
  BufferSize,   (* MAX_BUFFER_SIZE, the most one recv returns              *)
  Misread,      (* what other bytes may give when read as a header         *)
  MaxMessages,  (* how many messages are sent on a connection              *)
  Sends,        (* what a send may do: "whole", "cut", "overrun"           *)
  MaxExtra      (* how many bytes an overrun sends behind the message      *)

ASSUME HeaderSizeAssumption == HeaderSize \in Nat /\ HeaderSize > 0
ASSUME LengthsAssumption == Lengths \subseteq Nat /\ \A l \in Lengths : l >= HeaderSize
ASSUME BufferSizeAssumption == BufferSize \in Nat /\ BufferSize > 0
ASSUME MisreadAssumption == Misread \subseteq Nat /\ Misread # {}
ASSUME MaxMessagesAssumption == MaxMessages \in Nat
ASSUME SendsAssumption == Sends \subseteq {"whole", "cut", "overrun"}
ASSUME MaxExtraAssumption == MaxExtra \in Nat

VARIABLES
  messages,  (* what was sent: the place before each message, the length   *)
             (* in its header and how many of its bytes were sent          *)
  received,  (* the bytes that recv has returned                           *)
  consumed,  (* the bytes that were erased from the buffer                 *)
  handled    (* history: the place and length of what processMessage got   *)

streamVars == <<messages, received, consumed, handled>>

Message == [start : Nat, length : Lengths, size : Nat]

-----------------------------------------------------------------------------

StreamInit ==
  /\ messages = <<>>
  /\ received = 0
  /\ consumed = 0
  /\ handled = {}

(* All the bytes sent.                                                     *)
Total ==
  IF messages = <<>> THEN 0
  ELSE messages[Len(messages)].start + messages[Len(messages)].size

(* How many bytes the send of a message may put into the stream.           *)
Sizes(length) ==
  {size \in 1 .. length + MaxExtra :
     \/ size = length /\ "whole" \in Sends
     \/ size < length /\ "cut" \in Sends
     \/ size > length /\ "overrun" \in Sends}

(* One send of the other end.                                              *)
SendMessage ==
  /\ Len(messages) < MaxMessages
  /\ \E length \in Lengths : \E size \in Sizes(length) :
       messages' = Append(messages, [start |-> Total, length |-> length, size |-> size])
  /\ UNCHANGED <<received, consumed, handled>>

(* A recv that returns data.                                               *)
RecvBytes ==
  /\ \E bytes \in 1 .. BufferSize :
       received + bytes <= Total /\ received' = received + bytes
  /\ UNCHANGED <<messages, consumed, handled>>

(* A recv that would block.                                                *)
RecvBlocks == received = Total /\ UNCHANGED streamVars

(* What the header in front of the buffer may give: the length of the      *)
(* message that starts there, or that of the zeros behind one.             *)
HeaderLengths ==
  LET starting == {k \in DOMAIN messages :
                     messages[k].start = consumed /\ messages[k].size >= HeaderSize}
      zeros    == {k \in DOMAIN messages :
                     /\ messages[k].start + messages[k].length = consumed
                     /\ messages[k].size >= messages[k].length + HeaderSize}
  IN  IF starting # {} THEN {messages[k].length : k \in starting}
      ELSE IF zeros # {} THEN {0} ELSE Misread

(* Mutants of ProcessMessage: the header alone is erased; the whole buffer *)
(* is cleared.                                                             *)
ProcessHeader ==
  /\ received - consumed >= HeaderSize
  /\ \E length \in HeaderLengths :
       /\ received - consumed >= length
       /\ length # 0
       /\ handled' = handled \cup {[start |-> consumed, length |-> length]}
       /\ consumed' = consumed + HeaderSize
  /\ UNCHANGED <<messages, received>>

ProcessAndClear ==
  /\ received - consumed >= HeaderSize
  /\ \E length \in HeaderLengths :
       /\ received - consumed >= length
       /\ length # 0
       /\ handled' = handled \cup {[start |-> consumed, length |-> length]}
  /\ consumed' = received
  /\ UNCHANGED <<messages, received>>

(* One iteration of the loop of processMessageBuffer.                      *)
ProcessMessage ==
  /\ received - consumed >= HeaderSize
  /\ \E length \in HeaderLengths :
       /\ received - consumed >= length
       /\ length # 0
       /\ handled' = handled \cup {[start |-> consumed, length |-> length]}
       /\ consumed' = consumed + length
  /\ UNCHANGED <<messages, received>>

(* A header that gives zero is handled and not erased, for ever.           *)
ProcessForever ==
  /\ received - consumed >= HeaderSize
  /\ 0 \in HeaderLengths
  /\ handled' = handled \cup {[start |-> consumed, length |-> 0]}
  /\ UNCHANGED <<messages, received, consumed>>

(* The loop ends: the header or the message is incomplete.                 *)
Incomplete ==
  /\ \/ received - consumed < HeaderSize
     \/ \E length \in HeaderLengths : received - consumed < length
  /\ UNCHANGED streamVars

-----------------------------------------------------------------------------

Cut(k)   == messages[k].size < messages[k].length
Exact(k) == messages[k].size = messages[k].length

(* All of message k is in the stream, and before it only whole messages.   *)
Whole(k) == ~Cut(k) /\ \A j \in 1 .. k - 1 : Exact(j)

Handled(k) == [start |-> messages[k].start, length |-> messages[k].length] \in handled

StreamTypeOK ==
  /\ messages \in Seq(Message)
  /\ received \in Nat
  /\ consumed \in Nat
  /\ handled \subseteq [start : Nat, length : Nat]

(* Nothing at place or before it was spoilt by a send: a cut one spoils    *)
(* its own message and what follows, one with bytes behind its message     *)
(* what follows.                                                           *)
NotYetSpoilt(place) ==
  \A j \in DOMAIN messages :
    ~Exact(j) => place < messages[j].start + (IF Cut(j) THEN 0 ELSE messages[j].length)

(* Up to the first place that a send spoilt, what is handled are exactly   *)
(* the messages sent: each from its first byte, with its own length, after *)
(* all of it has arrived, and none is passed over, however the stream is   *)
(* divided into recvs.                                                     *)
OnlyMessages ==
  \A h \in handled :
    NotYetSpoilt(h.start) =>
      /\ \E k \in DOMAIN messages :
           messages[k].start = h.start /\ messages[k].length = h.length
      /\ h.start + h.length <= received

NonePassedOver ==
  \A k \in DOMAIN messages : Whole(k) /\ messages[k].start < consumed => Handled(k)

MessagesIntact == OnlyMessages /\ NonePassedOver
=============================================================================
